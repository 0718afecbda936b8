---------------------------- MODULE MCProvenance ----------------------------
(***************************************************************************)
(* Instances of the provenance model for TLC: the user, a web page, and a  *)
(* confidential drive that may supply paths from its listing and records   *)
(* the user named.                                                         *)
(***************************************************************************)
EXTENDS ProvenanceProperties

MCSources == {"user", "web", "drive"}
MCLabelOf == [s \in MCSources |->
    CASE s = "user" -> [trust |-> "principal", confidential |-> FALSE, grants |-> {}]
      [] s = "web" -> [trust |-> "untrusted", confidential |-> FALSE, grants |-> {}]
      [] s = "drive" -> [trust |-> "untrusted", confidential |-> TRUE,
                         grants |-> {<<"posix_path", "root">>, <<Unclassified, "root">>,
                                     <<Referenced, "files">>}]]

(* The same with a drive the deployment vouches for: it is not sealed.     *)
VouchedLabelOf == [MCLabelOf EXCEPT !["drive"].trust = "vouched"]

(* Upper and lower are one path in two spellings: a path keeps its case    *)
(* as an operand and loses it as a quotation.  "joined" is root/leaf.      *)
(* "doc" and "DOC" are one UUID, "five" an id too short for a quotation.    *)
MCValues == {"upper", "lower", "root", "leaf", "joined", "doc", "DOC", "five"}
MCKinds == {"posix_path", "uuid"}
MCKindOf == [v \in MCValues |->
    CASE v \in {"upper", "lower", "root", "joined"} -> "posix_path"
      [] v \in {"doc", "DOC"} -> "uuid"
      [] OTHER -> Unclassified]
MCKeys == MCValues
MCKeyOf == [v \in MCValues |-> IF v = "DOC" THEN "doc" ELSE v]
MCForms == {"note", "root", "leaf", "joined", "doc", "five", "title"}
MCFormOf == [v \in MCValues |->
    CASE v \in {"upper", "lower"} -> "note" [] v = "DOC" -> "doc" [] OTHER -> v]
MCSplitsOf == [v \in MCValues |-> IF v = "joined" THEN << <<"root", "leaf">> >> ELSE <<>>]
NoSplitsOf == [v \in MCValues |-> <<>>]
MCQuotable == MCValues \ {"five"}
MCPaths == {"text", "root", "files"}

Text(path, says, quotes) ==
    [path |-> path, size |-> 1, string |-> TRUE, says |-> says, quotes |-> quotes,
     key |-> None, phrases |-> {}]
Entry(key, says) ==     (* a record under its id: the key is a text too    *)
    [path |-> "files", size |-> 2, string |-> FALSE, says |-> says, quotes |-> {key},
     key |-> key, phrases |-> {"title"}]
Record(key) ==          (* a record of a list *)
    [path |-> "files", size |-> 0, string |-> FALSE, says |-> {}, quotes |-> {},
     key |-> key, phrases |-> {"title"}]

(* The same path in two spellings, echoed, and said by nobody else.        *)
EchoContents == [s \in MCSources |->
    CASE s = "user" -> { <<Text("text", {"upper"}, {"note", "leaf"})>>, <<Text("text", {"root"}, {"root"})>> }
      [] s = "web" -> { <<Text("text", {"lower"}, {"note"}), Text("text", {"joined"}, {"joined"})>>,
                        <<Text("text", {}, {"leaf"})>>,
                        <<Text("text", {"root"}, {"root", "leaf"})>> }
      [] s = "drive" -> { <<Text("root", {"root", "lower"}, {"root", "note"})>>,
                          <<Text("root", {}, {"leaf"})>>,
                          <<Text("files", {"joined"}, {"joined", "leaf"})>> }]

(* Records, by key and in a list, and a user who names one, or quotes its  *)
(* id, or neither.                                                         *)
RecordContents == [s \in MCSources |->
    CASE s = "user" -> { <<Text("text", {}, {"title"})>>, <<Text("text", {"doc"}, {"doc"})>> }
      [] s = "web" -> { <<Text("text", {"DOC"}, {"doc", "title"})>>,
                        <<Entry("five", {}), Text("files", {}, {"title"})>> }
      [] s = "drive" -> { <<Entry("doc", {"doc"}), Text("files", {}, {"title"})>>,
                          <<Record("doc"), Text("files", {"doc"}, {"doc"})>>,
                          <<Record("five"), Text("files", {}, {"five", "title"})>> }]

MCContents == [s \in MCSources |-> EchoContents[s] \cup RecordContents[s]]

PathParameter == [kinds |-> {"posix_path"}, collection |-> {}]
AnyParameter == [kinds |-> {}, collection |-> {}]
FileParameter == [kinds |-> {"uuid", Unclassified}, collection |-> {"files"}]
IdParameter == [kinds |-> {"uuid"}, collection |-> {}]

PathParameters == {PathParameter, AnyParameter}
MCParameters == PathParameters \cup {FileParameter, IdParameter}
=============================================================================
