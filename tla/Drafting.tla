------------------------------ MODULE Drafting ------------------------------
(***************************************************************************)
(* How a contract comes into force (mcp/proxy.py, mcp/config.py and the    *)
(* steps of docs/MCP.md): a proxy started with emit_contracts drafts what  *)
(* the server lists, page by page, and writes all its drafts anew after    *)
(* each page; an operator takes the drafts over and completes them; the    *)
(* next proxy loads the contract file once, at its start, and reports what *)
(* the linter finds.  A proxy may end at any moment, while it writes too.  *)
(* What else listing does, sealing the descriptions, is Provenance's.      *)
(*                                                                         *)
(* The emitted file may be the contract file itself: nothing in the        *)
(* configuration rules it out.                                             *)
(***************************************************************************)
EXTENDS Lint

CONSTANTS
    Handlers,       (* threads that handle answers: one over stdio         *)
    Pages,          (* what one tools/list may answer: a sequence of tools *)
    EffectChoices,  (* the effects an operator may fill in                 *)
    Exemptions,     (* the paths an operator may take for content          *)
    MaxPages,       (* bound: listings answered in all                     *)
    MaxEdits,       (* bound: changes an operator makes                    *)
    MaxStarts       (* bound: times the proxy is started                   *)

Advertised == UNION { { page[i] : i \in DOMAIN page } : page \in Pages }

ASSUME DraftingAssumption ==
    /\ Pages \subseteq Seq(Advertised)
    /\ \A ad \in Advertised : IsAdvertisement(ad)
    /\ \A E \in EffectChoices : E # {} /\ E \subseteq Effect
    /\ Exemptions \subseteq Seq(Segment)
    /\ MaxPages \in Nat
    /\ MaxEdits \in Nat
    /\ MaxStarts \in Nat

VARIABLES
    up,             (* the proxy runs                                      *)
    emits,          (* emit_contracts: the file it drafts into, or "none"  *)
    registry,       (* the contracts it loaded                             *)
    reported,       (* what it reported at its start                       *)
    drafts,         (* _drafts                                             *)
    handling,       (* of each thread: where it is, what it has left       *)
    files,          (* the file of the drafts and that of the contracts    *)
    raw,            (* history: tools of the contract file nobody edited   *)
    inForceRaw,     (* history: the same of what was loaded                *)
    listed,         (* history: what this proxy was last told of each tool *)
    pages, edits, starts    (* counters of the bounds                      *)

processVars == <<up, emits, registry, reported, drafts, handling, inForceRaw, listed>>
vars == <<processVars, files, raw, pages, edits, starts>>

NoContracts == [t \in {} |-> UnknownTool]

With(f, k, v) == [x \in DOMAIN f \cup {k} |-> IF x = k THEN v ELSE f[x]]

(* A file is "absent", "torn" (opened for writing and not yet written), or *)
(* "whole".                                                                *)
Holding(contracts) == [state |-> "whole", contracts |-> contracts]
Torn == [state |-> "torn", contracts |-> NoContracts]
Absent == [state |-> "absent", contracts |-> NoContracts]

Idle == [at |-> "idle", todo |-> <<>>, text |-> NoContracts]

Init ==
    /\ up = FALSE
    /\ emits = "none"
    /\ registry = NoContracts
    /\ reported = {}
    /\ drafts = NoContracts
    /\ handling = [h \in Handlers |-> Idle]
    /\ files = [drafts |-> Absent, contracts |-> Absent]
    /\ raw = {}
    /\ inForceRaw = {}
    /\ listed = <<>>
    /\ pages = 0
    /\ edits = 0
    /\ starts = 0

-----------------------------------------------------------------------------
(* The proxy.                                                              *)

(* announce: the linter speaks when there are contracts, of what is not a  *)
(* note.                                                                   *)
Report(contracts) ==
    IF DOMAIN contracts = {} THEN {}
    ELSE { d \in LintRegistry(contracts) : d.severity # "note" }

(* A configuration that names the contract file is loaded when the file    *)
(* can be read; one that does not name it has no contracts.                *)
Loadable(named) == IF named THEN files.contracts.state = "whole" ELSE TRUE

Start(named, target) ==
    /\ ~up
    /\ starts < MaxStarts
    /\ Loadable(named)
    /\ up' = TRUE
    /\ emits' = target
    /\ registry' = IF named THEN files.contracts.contracts ELSE NoContracts
    /\ inForceRaw' = IF named THEN raw ELSE {}
    /\ reported' = Report(registry')
    /\ starts' = starts + 1
    /\ UNCHANGED <<drafts, handling, files, raw, listed, pages, edits>>

(* The answer to a tools/list reaches a thread of a proxy that drafts.     *)
TakeListing(h, page) ==
    /\ up
    /\ emits # "none"
    /\ handling[h].at = "idle"
    /\ pages < MaxPages
    /\ handling' = [handling EXCEPT ![h] = [Idle EXCEPT !.at = "drafting", !.todo = page]]
    /\ pages' = pages + 1
    /\ UNCHANGED <<up, emits, registry, reported, drafts, inForceRaw, listed, files, raw, edits,
                   starts>>

DraftedOnce(ad) ==      (* A slip: a tool drafted before keeps its draft. *)
    IF ad.tool \in DOMAIN drafts THEN drafts ELSE With(drafts, ad.tool, Derive(ad, {}))

(* _draft: the latest listing of a tool counts, and nobody states its      *)
(* effects.                                                                *)
Drafted(ad) == With(drafts, ad.tool, Derive(ad, {}))

DraftTool(h) ==
    /\ up
    /\ handling[h].at = "drafting"
    /\ handling[h].todo # <<>>
    /\ LET ad == Head(handling[h].todo)
       IN  /\ drafts' = Drafted(ad)
           /\ listed' = With(listed, ad.tool, ad)
    /\ handling' = [handling EXCEPT ![h].todo = Tail(@)]
    /\ UNCHANGED <<up, emits, registry, reported, inForceRaw, files, raw, pages, edits, starts>>

(* _write_drafts, first half: the text of every draft of this process is   *)
(* made and the file opened, which empties it.  With nothing drafted       *)
(* nothing is written.                                                     *)
OpenFile(h) ==
    /\ up
    /\ handling[h].at = "drafting"
    /\ handling[h].todo = <<>>
    /\ IF DOMAIN drafts = {}
       THEN /\ handling' = [handling EXCEPT ![h] = Idle]
            /\ UNCHANGED <<files, raw>>
       ELSE /\ handling' = [handling EXCEPT ![h].at = "writing", ![h].text = drafts]
            /\ files' = [files EXCEPT ![emits] = Torn]
            /\ raw' = IF emits = "contracts" THEN {} ELSE raw
    /\ UNCHANGED <<up, emits, registry, reported, drafts, inForceRaw, listed, pages, edits, starts>>

(* The second half: the text is in the file.                               *)
WriteFile(h) ==
    /\ up
    /\ handling[h].at = "writing"
    /\ files' = [files EXCEPT ![emits] = Holding(handling[h].text)]
    /\ raw' = IF emits = "contracts" THEN DOMAIN handling[h].text ELSE raw
    /\ handling' = [handling EXCEPT ![h] = Idle]
    /\ UNCHANGED <<up, emits, registry, reported, drafts, inForceRaw, listed, pages, edits, starts>>

(* The ledger has no room for a description to seal, or the file cannot be *)
(* written: the error ends the thread where it is.                         *)
Fails(h) ==
    /\ up
    /\ handling[h].at \in {"drafting", "writing"}
    /\ handling' = [handling EXCEPT ![h] = [Idle EXCEPT !.at = "dead"]]
    /\ UNCHANGED <<up, emits, registry, reported, drafts, inForceRaw, listed, files, raw, pages,
                   edits, starts>>

(* The proxy ends, orderly or not: what is in memory is gone.              *)
Stop ==
    /\ up
    /\ up' = FALSE
    /\ emits' = "none"
    /\ registry' = NoContracts
    /\ reported' = {}
    /\ drafts' = NoContracts
    /\ handling' = [h \in Handlers |-> Idle]
    /\ inForceRaw' = {}
    /\ listed' = <<>>
    /\ UNCHANGED <<files, raw, pages, edits, starts>>

-----------------------------------------------------------------------------
(* The operator, who edits the files whether or not a proxy runs.          *)

Edits(contracts) ==
    /\ edits < MaxEdits
    /\ edits' = edits + 1
    /\ files' = [files EXCEPT !.contracts = Holding(contracts)]
    /\ UNCHANGED <<processVars, pages, starts>>

(* The drafts become the contract file.                                    *)
Adopt ==
    /\ files.drafts.state = "whole"
    /\ Edits(files.drafts.contracts)
    /\ raw' = DOMAIN files.drafts.contracts

EditsContract(t, c) ==
    /\ files.contracts.state = "whole"
    /\ Edits(With(files.contracts.contracts, t, c))
    /\ raw' = raw \ {t}

Current(t) == files.contracts.contracts[t]

Complete(t, effects) == EditsContract(t, [Current(t) EXCEPT !.effects = effects])

Reclassify(t, n, role) == EditsContract(t, [Current(t) EXCEPT !.params[n].role = role])

Exempt(t, n, pattern) ==
    EditsContract(t, [Current(t) EXCEPT !.params[n].payload_paths = @ \cup {pattern}])

SetDefaultRole(t, role) == EditsContract(t, [Current(t) EXCEPT !.default = role])

Operate ==
    \/ Adopt
    \/ \E t \in DOMAIN files.contracts.contracts :
        \/ \E E \in EffectChoices : Complete(t, E)
        \/ \E n \in DOMAIN Current(t).params, role \in Role : Reclassify(t, n, role)
        \/ \E n \in DOMAIN Current(t).params, pattern \in Exemptions : Exempt(t, n, pattern)
        \/ \E role \in Role : SetDefaultRole(t, role)

-----------------------------------------------------------------------------
Next ==
    \/ \E named \in BOOLEAN, target \in {"none", "drafts", "contracts"} : Start(named, target)
    \/ \E h \in Handlers, page \in Pages : TakeListing(h, page)
    \/ \E h \in Handlers : DraftTool(h) \/ OpenFile(h) \/ WriteFile(h) \/ Fails(h)
    \/ Stop
    \/ Operate

Spec == Init /\ [][Next]_vars
=============================================================================
