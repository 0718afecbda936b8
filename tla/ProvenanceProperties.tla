------------------------ MODULE ProvenanceProperties ------------------------
(***************************************************************************)
(* What the ledger and the attribution promise, stated over the texts that *)
(* were observed and not over the tables the ledger keeps about them.      *)
(***************************************************************************)
EXTENDS Provenance

(* Every variable holds values of its kind, and no more text was taken in  *)
(* than the intake bound allows.                                           *)
TypeOK ==
    /\ step \in 0..MaxSteps
    /\ declared \subseteq Sources
    /\ \A id \in DOMAIN operands :
            operands[id] \in [value : Values, origins : SUBSET Origin]
    /\ \A o \in observations :
            o \in [origin : Origin, says : SUBSET Values, quotes : SUBSET Forms]
    /\ \A e \in entities : e \in [key : Values, phrases : SUBSET Forms, origin : Origin]
    /\ chars \in 0..MaxChars
    /\ \A sources \in DOMAIN corpus : sources \subseteq Sources /\ corpus[sources] \subseteq Forms
    /\ binding \in {"unset", "yes", "no"}
    /\ shown \subseteq DOMAIN operands

-----------------------------------------------------------------------------
(* The ledger.                                                             *)

SaidAt(id) == { o.origin : o \in { ob \in observations : Says(ob, id) } }

(* Every identifier in the observed texts is an operand, with exactly the  *)
(* places it was observed as its origins, and nothing else is one: also    *)
(* after an observation that broke off at the intake bound (_record).      *)
LedgerIsExact ==
    /\ \A o \in observations : \A v \in o.says : Known(Identity(v))
    /\ \A id \in DOMAIN operands :
            /\ Identity(operands[id].value) = id
            /\ operands[id].origins = SaidAt(id)
            /\ operands[id].origins # {}

(* The two caches, of the text of a set of sources and of whether any      *)
(* source binds references, never answer differently from a fresh look,    *)
(* whatever was observed or declared since they were filled.               *)
CachesAreCoherent ==
    /\ \A sources \in DOMAIN corpus : corpus[sources] = QuotedBy(sources)
    /\ binding # "unset" => (binding = "yes" <=> SomeSourceBinds)

(* A handle the agent holds goes on standing for the same value, keeps     *)
(* every origin it had, and, once it may fill a parameter of its kind,     *)
(* may do so for the rest of the session, whoever else says the value.     *)
HandlesKept ==
    \A id \in DOMAIN operands :
        /\ Known(id)'
        /\ operands'[id].value = operands[id].value
        /\ operands[id].origins \subseteq operands'[id].origins
        /\ IsAuthorisedFor(OfHandle(id), id[1]) => IsAuthorisedFor(OfHandle(id), id[1])'

HandlesAreStable == [][HandlesKept]_vars

-----------------------------------------------------------------------------
(* Attribution.  Evidence for a value is what the observed texts hold.     *)

Mentions(v) ==
    { o.origin : o \in { ob \in observations :
        \/ Classified(v) /\ Says(ob, Identity(v))
        \/ v \in Quotable /\ FormOf[v] \in ob.quotes } }

Supplied(v) == \E o \in Mentions(v) : SpeaksFor(o, KindOf[v])

NamedByPrincipal(e) ==
    \E ob \in observations : FromPrincipal(ob.origin) /\ ob.quotes \cap e.phrases # {}

Selected(v, collection) ==
    \E e \in entities :
        /\ e.key = v
        /\ e.origin.path \in collection
        /\ NamedByPrincipal(e)
        /\ \E o \in Mentions(v) \cup {e.origin} :
                SpeaksFor(o, Referenced) \/ SpeaksFor(o, KindOf[v])

SuppliedInParts(v) ==
    \E n \in DOMAIN SplitsOf[v] : Supplied(SplitsOf[v][n][1]) /\ Supplied(SplitsOf[v][n][2])

IsAuthorityJudgement == judgement.how \in {"typed", "handle"}

AuthorityRefused ==
    judgement.codes \cap {"unattributed_authority", "unauthorised_authority"} # {}

(* The promise of the whole mechanism: an argument that passes was said or *)
(* quoted by a source entitled to it, or is the id of a record of the      *)
(* parameter's collection that the principal named, or splits into two     *)
(* parts each of which an entitled source supplied.                        *)
NothingFromNobody ==
    IsAuthorityJudgement /\ judgement.codes = {} =>
        \/ Supplied(judgement.value)
        \/ Selected(judgement.value, judgement.parameter.collection)
        \/ SuppliedInParts(judgement.value)

(* What the egress rules are told: a value counts as chosen by the         *)
(* principal only if the principal mentioned it, or supplied the record it *)
(* is the id of, or mentioned every part of it                             *)
(* (Attribution.principal_directed).                                       *)
Chosen(v) == \E o \in Mentions(v) : FromPrincipal(o)

ChosenInParts(v) ==
    \E n \in DOMAIN SplitsOf[v] : Chosen(SplitsOf[v][n][1]) /\ Chosen(SplitsOf[v][n][2])

DirectedMeansPrincipal ==
    IsAuthorityJudgement /\ judgement.directed =>
        \/ Chosen(judgement.value)
        \/ \E e \in entities : e.key = judgement.value /\ FromPrincipal(e.origin)
        \/ ChosenInParts(judgement.value)

(* ADR-0008: an identifier the principal wrote stays usable, as text and   *)
(* as a handle, no matter how many other sources echo it.                  *)
PrincipalValuesStayUsable ==
    /\ IsAuthorityJudgement
    /\ Classified(judgement.value)
    /\ \E o \in SaidAt(Identity(judgement.value)) : FromPrincipal(o)
    => ~AuthorityRefused

GivesAway(ob, payload) ==
    \/ payload.value \in Quotable /\ FormOf[payload.value] \in ob.quotes
    \/ \E id \in payload.handles : Says(ob, id)

(* What the egress rules are told of a payload: it is confidential exactly *)
(* when a text of a confidential source, as far as it was taken in, holds  *)
(* the whole of it or says, in any spelling, a value it has a handle for.  *)
(* Whose handle that is does not matter, nor what the payload's own text   *)
(* quotes, nor which was read first (_payload_attributions).               *)
PayloadsAreTainted ==
    judgement.how = "payload" =>
        (judgement.confidential <=>
            \E ob \in observations : LabelOf[ob.origin.source].confidential /\ GivesAway(ob, judgement))

-----------------------------------------------------------------------------
(* What the documentation promises and the code does not keep.             *)

(* AUTHORITY_MODEL.md: "If the principal wrote a value, that origin        *)
(* authorises it regardless of who else echoed it."  A value the principal *)
(* wrote is one the ledger finds quoted in the principal's text.           *)
EchoChangesNothing ==
    IsAuthorityJudgement /\ Quoting(judgement.value, Principals) # {} => ~AuthorityRefused
=============================================================================
