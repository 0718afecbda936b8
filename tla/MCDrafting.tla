----------------------------- MODULE MCDrafting -----------------------------
(* An instance of the way from a listing to a contract in force: a tool that  *)
(* changes between two listings, one that only claims to read, and names of   *)
(* every class the deriver tells apart.                                       *)
EXTENDS DraftingProperties, TLC

Each(words) == { <<words[i]>> : i \in DOMAIN words }

Snake(words) == [parts |-> words, tokens |-> words, pieces |-> {words} \cup Each(words)]
Camel(joined, words) == [parts |-> <<joined>>, tokens |-> words, pieces |-> {<<joined>>}]
Kebab(joined, words) ==
    [parts |-> <<joined>>, tokens |-> words, pieces |-> {<<joined>>} \cup Each(words)]

To == Snake(<<"to">>)
Body == Snake(<<"body">>)
ReplyTo == Kebab("reply-to", <<"reply", "to">>)
FileId == Camel("fileid", <<"file", "id">>)
PathFormat == Snake(<<"path", "format">>)
Query == Snake(<<"query">>)
NoVerify == Snake(<<"no", "verify">>)
Amount == Snake(<<"amount">>)
Depth == Snake(<<"depth">>)

OneSend ==
    [tool |-> "send", hints |-> {"openWorldHint"}, types |-> To :> {"string"} @@ Body :> {"string"}]
OtherSend ==
    [tool |-> "send", hints |-> {"readOnlyHint"},
     types |-> ReplyTo :> {"string", "null"} @@ NoVerify :> {"boolean"}]
Find ==
    [tool |-> "find", hints |-> {"readOnlyHint"},
     types |-> FileId :> {"string"} @@ Query :> {} @@ PathFormat :> {"string"}]
Pay ==
    [tool |-> "pay", hints |-> {"destructiveHint"}, types |-> Amount :> {"number"} @@ Depth :> {"integer"}]

MCPages == {<<OneSend>>, <<OtherSend, Find>>, <<Pay>>, <<>>}
MCEffectChoices == {{"read"}, {"write", "network_egress"}}
MCExemptions == {<<"**", "note">>}
MCValues == {{}, {<<>>}, {<<"note">>}, {<<"note">>, <<"name">>}}
MCServer ==
    [principal |-> FALSE, kinds |-> {"email"},
     grants |-> {[pattern |-> <<"list", "**">>, kinds |-> {"referenced"}],
                 [pattern |-> <<"**">>, kinds |-> {"unclassified"}]}]
MCKinds == {"email", "iban", "posix_path", "windows_path", "unc_path"}
=============================================================================
