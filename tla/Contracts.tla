----------------------------- MODULE Contracts -----------------------------
(***************************************************************************)
(* Tool contracts (contracts.py, labels.path_covers): what each parameter  *)
(* of a tool decides, what the tool does to the world, and the draft the   *)
(* deriver makes of what a server advertises.                              *)
(*                                                                         *)
(* A parameter name, and an entry of a table, is a sequence of lower-case  *)
(* words, what "_" separates.  A name is read in three ways:               *)
(*                                                                         *)
(*   parts    as it is spelt:       fileId is <<"fileid">>                 *)
(*   tokens   as its author meant:  fileId is <<"file", "id">>             *)
(*   pieces   as the linter cuts it, at "_", at "-" and at ".", each by    *)
(*            itself: reply-to is {<<"reply-to">>, <<"reply">>, <<"to">>}  *)
(*                                                                         *)
(* Descriptions and versions are left out.                                 *)
(***************************************************************************)
EXTENDS Naturals, Sequences, FiniteSets

Role == {"authority", "payload", "advisory"}

Effect ==
    { "read", "write", "delete", "execute", "network_egress", "financial", "irreversible" }

Consequential == Effect \ {"read"}

NameType == [parts : Seq(STRING), tokens : Seq(STRING), pieces : SUBSET Seq(STRING)]

JsonType == {"string", "boolean", "integer", "number", "array", "object", "null"}

(* What a server advertises of a tool: the types each parameter may have   *)
(* (none, where the schema does not say) and the hints that are true.      *)
AnnotationType == {"destructiveHint", "openWorldHint", "readOnlyHint", "idempotentHint"}

IsAdvertisement(ad) ==
    /\ DOMAIN ad = {"tool", "hints", "types"}
    /\ DOMAIN ad.types \subseteq NameType
    /\ \A n \in DOMAIN ad.types : ad.types[n] \subseteq JsonType
    /\ ad.hints \subseteq AnnotationType

(* A parameter the contract never heard of has the default role.           *)
Parameter(c, n) ==
    IF n \in DOMAIN c.params THEN c.params[n]
    ELSE [role |-> c.default, kinds |-> {}, collection |-> <<>>, payload_paths |-> {}]

CanEgress(c) == "network_egress" \in c.effects

-----------------------------------------------------------------------------
(* Field-path patterns.  A pattern is a prefix, "*" stands for a segment,  *)
(* "[*]" for an index, "**" for any number of segments.  Which element of  *)
(* a list an index names is left out.                                      *)

Index == "[]"

PathCovers(pattern, path) ==
    LET Match[i \in 1..(Len(pattern) + 1), j \in 1..(Len(path) + 1)] ==
            IF i > Len(pattern) THEN TRUE
            ELSE IF pattern[i] = "**" THEN \E k \in j..(Len(path) + 1) : Match[i + 1, k]
            ELSE /\ j <= Len(path)
                 /\ \/ pattern[i] = "*"
                    \/ pattern[i] = "[*]" /\ path[j] = Index
                    \/ pattern[i] = path[j]
                 /\ Match[i + 1, j + 1]
    IN  Match[1, 1]

-----------------------------------------------------------------------------
(* The tables the deriver reads names by.  A compound is listed only where *)
(* no part of it is an entry by itself.                                    *)

Single(words) == { <<w>> : w \in words }

PayloadHints ==
    Single({ "body", "content", "text", "message", "subject", "description", "summary",
             "note", "comment", "caption", "title", "prompt", "markdown", "reason",
             "location", "venue", "place", "label", "tag", "tags" })

FilterHints == Single({"query", "search", "keyword", "keywords", "term", "filter", "pattern"})

IdentifierSuffixes ==
    { "id", "ids", "arn", "key", "uri", "url", "path", "ref", "handle", "token" }

DangerousFlags ==
    Single({ "force", "recursive", "overwrite", "permanent", "hard", "purge", "cascade",
             "confirm", "yes" })
        \cup {<<"no", "verify">>, <<"skip", "checks">>, <<"allow", "delete">>}

AdvisoryHints ==
    Single({ "limit", "offset", "page", "sort", "order", "format", "verbose", "locale",
             "timezone", "priority", "style", "date", "day", "time", "datetime",
             "timestamp", "start", "end", "since", "until", "before", "after", "year",
             "month", "week", "duration", "hour", "minute" })
        \cup {<<"dry", "run">>}

PathKinds == {"posix_path", "windows_path", "unc_path", "unclassified"}

KindHints ==
    << [words |-> {"recipient", "recipients", "payee", "beneficiary"},
        kinds |-> {"email", "iban", "account_number", "crypto_address", "unclassified"}],
       [words |-> {"email", "mail", "to", "cc", "bcc", "sender", "from"}, kinds |-> {"email"}],
       [words |-> {"url", "link", "endpoint", "webhook", "callback", "href"},
        kinds |-> {"url", "hostname"}],
       [words |-> {"host", "hostname", "domain", "server"}, kinds |-> {"hostname"}],
       [words |-> {"path", "file", "filename", "filepath", "dir", "directory"},
        kinds |-> PathKinds],
       [words |-> {"account", "iban", "card", "wallet"}, kinds |-> {"iban"}],
       [words |-> {"phone", "msisdn", "mobile"}, kinds |-> {"phone"}],
       [words |-> {"uuid", "guid"}, kinds |-> {"uuid"}] >>

AmountWords == {"amount", "total", "price", "value", "quantity", "qty", "sum"}

WideningByName ==       (* A slip: the hint's own word, which is no effect. *)
    [destructiveHint |-> {"destructive"}, openWorldHint |-> {"network_egress"}]

(* What a hint of the server adds to the effects.  A server that calls its *)
(* tool harmless is not believed.                                          *)
WideningAnnotations ==
    [destructiveHint |-> {"delete", "irreversible"}, openWorldHint |-> {"network_egress"}]

(* A contract.  Its kinds are those of the hints, which nothing else here   *)
(* writes; a collection is the pattern of a directory, or empty; its       *)
(* payload paths are the patterns of what in it is content.                *)
HintedKinds == UNION { KindHints[r].kinds : r \in DOMAIN KindHints }

Segment == STRING \cup {"**"}

IsParameter(p) ==
    /\ DOMAIN p = {"role", "kinds", "collection", "payload_paths"}
    /\ p.role \in Role
    /\ p.kinds \subseteq HintedKinds
    /\ p.collection \in Seq(Segment)
    /\ p.payload_paths \subseteq Seq(Segment)

IsContract(c) ==
    /\ DOMAIN c = {"effects", "default", "params"}
    /\ c.effects \subseteq Effect
    /\ c.default \in Role
    /\ DOMAIN c.params \subseteq NameType
    /\ \A n \in DOMAIN c.params : IsParameter(c.params[n])

-----------------------------------------------------------------------------
(* The deriver.                                                            *)

LastOf(words) == words[Len(words)]

(* The lists are never empty: a name has at least one word.                *)
IsIdentifier(n) ==
    \/ Len(n.parts) > 1 /\ LastOf(n.parts) \in IdentifierSuffixes
    \/ LastOf(n.tokens) \in IdentifierSuffixes

Hinted(n, table) ==
    \/ n.parts \in table
    \/ \E i \in DOMAIN n.tokens : <<n.tokens[i]>> \in table

(* No type at all says nothing; a union counts when every member does.     *)
OnlyScalarTypes(types) == types # {} /\ types \subseteq {"boolean", "integer", "number"}

(* The code looks for the words anywhere in the name; here they are whole. *)
LooksLikeAmount(n) == \E i \in DOMAIN n.tokens : n.tokens[i] \in AmountWords

(* The first rule that applies.                                            *)
RoleFor(n, types, readOnly) ==
    IF IsIdentifier(n) THEN "authority"
    ELSE IF readOnly /\ Hinted(n, FilterHints) THEN "payload"
    ELSE IF n.parts \in DangerousFlags THEN "authority"
    ELSE IF Hinted(n, AdvisoryHints) THEN "advisory"
    ELSE IF Hinted(n, PayloadHints) THEN "payload"
    ELSE IF OnlyScalarTypes(types) /\ ~LooksLikeAmount(n) THEN "advisory"
    ELSE "authority"

(* The kinds of the first row that has a part of the name.                 *)
KindsFor(n) ==
    LET rows == { r \in DOMAIN KindHints :
                    \E i \in DOMAIN n.parts : n.parts[i] \in KindHints[r].words }
    IN  IF rows = {} THEN {}
        ELSE KindHints[CHOOSE r \in rows : \A q \in rows : r <= q].kinds

(* <thing>_id addresses a directory of things, called by its noun here:    *)
(* the plural is left out.                                                 *)
CollectionFor(n) ==
    LET k == Len(n.tokens)
    IN  IF k >= 2 /\ n.tokens[k] \in {"id", "ids"} THEN <<"**", n.tokens[k - 1]>> ELSE <<>>

DraftParameter(n, types, readOnly) ==
    LET role == RoleFor(n, types, readOnly)
    IN  [role |-> role,
         kinds |-> IF role = "authority" THEN KindsFor(n) ELSE {},
         collection |-> IF role = "authority" THEN CollectionFor(n) ELSE <<>>,
         payload_paths |-> {}]

BelievedEffects(effects, hints) ==      (* A slip: readOnlyHint is believed as well. *)
    effects \cup UNION { WideningAnnotations[h] : h \in hints \cap DOMAIN WideningAnnotations }
            \cup (IF "readOnlyHint" \in hints THEN {"read"} ELSE {})

DeclaredEffects(effects, hints) ==
    effects \cup UNION { WideningAnnotations[h] : h \in hints \cap DOMAIN WideningAnnotations }

IsReadOnly(effects) == effects # {} /\ effects \subseteq {"read"}

(* derive_contract: a draft of what is advertised, with the effects the    *)
(* caller declares.                                                        *)
Derive(ad, effects) ==
    LET declared == DeclaredEffects(effects, ad.hints)
    IN  [effects |-> declared,
         default |-> "authority",
         params |-> [n \in DOMAIN ad.types |->
                        DraftParameter(n, ad.types[n], IsReadOnly(declared))]]

-----------------------------------------------------------------------------
(* What the monitor makes of a call under a contract.                      *)

(* The arguments of a call, each by the paths of its leaves.  A string or  *)
(* a number is one leaf, at the empty path; a Boolean, None and an empty   *)
(* container are none.                                                     *)
IsPayloadLeaf(p, leaf) == \E pattern \in p.payload_paths : PathCovers(pattern, leaf)

CheckedLeaves(c, n, leaves) ==
    LET p == Parameter(c, n)
    IN  { leaf \in leaves : p.role = "authority" /\ ~IsPayloadLeaf(p, leaf) }

(* The findings on a call none of whose values comes from anyone:          *)
(* a tool without a contract is taken for the worst.  A leaf that should   *)
(* hold a certain kind is refused as one that comes from nobody is.        *)
UnknownTool ==
    [effects |-> {"write", "network_egress", "irreversible"}, default |-> "authority", params |-> <<>>]

FindingsOnNobodys(registry, tool, arguments) ==
    LET c == IF tool \in DOMAIN registry THEN registry[tool] ELSE UnknownTool
    IN  (IF tool \in DOMAIN registry THEN {} ELSE {"unknown_tool"})
          \cup (IF \E n \in DOMAIN arguments : CheckedLeaves(c, n, arguments[n]) # {}
                THEN {"unattributed_authority"} ELSE {})
          \cup (IF DOMAIN c.params # {} /\ ~(DOMAIN arguments \subseteq DOMAIN c.params)
                THEN {"undeclared_parameter"} ELSE {})
=============================================================================
