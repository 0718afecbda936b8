------------------------- MODULE DraftingProperties -------------------------
(***************************************************************************)
(* What the way from a listing to a contract in force guarantees.          *)
(***************************************************************************)
EXTENDS Drafting

CONSTANT Values     (* what an argument may be: the paths of its leaves    *)

(* Every variable has its type.                                            *)
IsFile(f) ==
    /\ f.state \in {"absent", "torn", "whole"}
    /\ \A t \in DOMAIN f.contracts : IsContract(f.contracts[t])

TypeOK ==
    /\ up \in BOOLEAN
    /\ emits \in {"none", "drafts", "contracts"}
    /\ \A t \in DOMAIN registry : IsContract(registry[t])
    /\ \A t \in DOMAIN drafts : IsContract(drafts[t])
    /\ \A h \in Handlers : handling[h].at \in {"idle", "drafting", "writing", "dead"}
    /\ IsFile(files.drafts) /\ IsFile(files.contracts)
    /\ raw \subseteq DOMAIN files.contracts.contracts
    /\ inForceRaw \subseteq DOMAIN registry
    /\ DOMAIN drafts = DOMAIN listed

(* Nothing a server says of its own tool makes a draft of it check less:   *)
(* with its hints the draft has at least the effects it has without them,  *)
(* and every parameter that is checked without them is checked with them,  *)
(* whatever effects the caller declares (contracts.py, the one-way rule).  *)
(* What it has drafted says so too.                                        *)
NoWeaker(with, without) ==
    /\ without.effects \subseteq with.effects
    /\ AuthorityParameters(without) \subseteq AuthorityParameters(with)

HintsOnlyRestrict ==
    \A t \in DOMAIN listed :
        LET unhinted == [listed[t] EXCEPT !.hints = {}]
        IN  /\ NoWeaker(drafts[t], Derive(unhinted, {}))
            /\ \A E \in EffectChoices : NoWeaker(Derive(listed[t], E), Derive(unhinted, E))

(* At rest, the emitted file holds a draft of each tool the server has     *)
(* listed since the start, on whichever page and however often, as it was  *)
(* last listed; a file someone else may write is left out.                 *)
SheetIsWhatWasListed ==
    emits = "drafts" /\ DOMAIN listed # {} /\ (\A h \in Handlers : handling[h].at = "idle")
        => files.drafts = Holding([t \in DOMAIN listed |-> Derive(listed[t], {})])

(* What a server may not be sent that nobody vouches for, under a contract *)
(* the start reported no error on: a parameter the contract never heard    *)
(* of, however the server's listing has changed since; one whose name says *)
(* where the action lands and not how it looks; and when the tool sends    *)
(* data out, a call that gives every parameter.  A value says something    *)
(* when it has a leaf, as no Boolean, None or empty container does, and    *)
(* the leaf is not of the content the contract exempts.                    *)
CleanlyInForce(t) ==
    ~ \E d \in reported : d.severity = "error" /\ d.subject = t

Refused(t, arguments) == VerdictOf(STRICT, FindingsOnNobodys(registry, t, arguments)) = "deny"

Exempted(c, n, leaf) ==
    n \in DOMAIN c.params /\ \E p \in c.params[n].payload_paths : PathCovers(p, leaf)

Says(c, n, leaves) == \E leaf \in leaves : ~Exempted(c, n, leaf)

HasWord(n, words) == \E w \in words : <<w>> \in n.pieces

NamesADestination(n) ==
    /\ HasWord(n, {"to", "recipient", "url", "host", "path", "account"})
    /\ ~Mentions(n, PresentationTokens)

CleanServiceIsConfined ==
    up => \A t \in DOMAIN registry : CleanlyInForce(t) =>
        /\ \A s \in DOMAIN listed : \A n \in DOMAIN listed[s].types, v \in Values :
                /\ n \notin DOMAIN registry[t].params \/ NamesADestination(n)
                /\ Says(registry[t], n, v)
                => Refused(t, [x \in {n} |-> v])
        /\ CanEgress(registry[t]) =>
                \A a \in [DOMAIN registry[t].params -> Values] :
                    (\A n \in DOMAIN a : Says(registry[t], n, a[n])) => Refused(t, a)

(* Nothing is in force as it was drafted without an error at the start     *)
(* that says so: "It catches ... drafts that were never completed"         *)
(* (docs/MCP.md).  A server that volunteers a hint gives its draft effects,*)
(* and the linter takes a contract with effects for a completed one.       *)
UnfinishedDraftsAreReported ==
    up => \A t \in inForceRaw : ~CleanlyInForce(t)
=============================================================================
