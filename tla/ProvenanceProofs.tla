-------------------------- MODULE ProvenanceProofs --------------------------
(***************************************************************************)
(* Proofs about the operand ledger and attribution, for every set of       *)
(* sources with whatever grants, every set of values, kinds and spellings, *)
(* every directory and every order of observations, declarations and       *)
(* calls, cut off at the intake bound wherever that falls.                 *)
(***************************************************************************)
EXTENDS ProvenanceProperties, Iteration, TLAPS

(* What is said is an identifier of some kind: extraction finds no other.  *)
SaysClassified == \A o \in observations : \A v \in o.says : Classified(v)

(* Nothing is observed from a source before it is declared.                *)
ObservedDeclared == \A o \in observations : o.origin.source \in declared

(* No handle was given out that stands for nothing.                        *)
ShownKnown == shown \subseteq DOMAIN operands

(* The inductive invariant.                                                *)
LedgerInv ==
    SaysClassified /\ ObservedDeclared /\ ShownKnown /\ LedgerIsExact /\ CachesAreCoherent

-----------------------------------------------------------------------------
(* Recording.                                                              *)

(* What the items of an observation are like.                              *)
LEMMA ItemsTyped ==
    ASSUME NEW s \in Sources, NEW items \in Contents[s]
    PROVE  /\ DOMAIN items \subseteq Nat
           /\ \A n \in DOMAIN items : \A v \in items[n].says :
                    Classified(v) /\ items[n].size > 0
  <1>1. items \in Seq(ItemType)
    BY ProvenanceAssumption
  <1>2. \A n \in DOMAIN items : \A v \in items[n].says : Classified(v) /\ items[n].size > 0
    BY ProvenanceAssumption
  <1> QED
    BY <1>1, <1>2

(* The spelling a new operand gets is one of its identity, and one of      *)
(* those read.                                                             *)
LEMMA FirstSpellingSays ==
    ASSUME NEW items, NEW taken \in SUBSET Nat, NEW id \in Identified(items, taken)
    PROVE  /\ Identity(FirstSpelling(items, taken, id)) = id
           /\ \E n \in taken : FirstSpelling(items, taken, id) \in items[n].says
  <1> DEFINE T == { m \in taken : Says(items[m], id) }
             first(m) == /\ Says(items[m], id)
                         /\ \A k \in taken : Says(items[k], id) => m <= k
             n == CHOOSE m \in taken : first(m)
  <1>1. T # {}
    BY DEF Identified, Says
  <1>2. \E m \in T : \A k \in T : m <= k
    BY <1>1, LeastElement
  <1>3. \E m \in taken : first(m)
    BY <1>2
  <1>4. n \in taken /\ Says(items[n], id)
    BY <1>3
  <1>5. \E v \in items[n].says : Identity(v) = id
    BY <1>4 DEF Says
  <1> QED
    BY <1>4, <1>5 DEF FirstSpelling

LEMMA FirstSpellingIsValue ==
    ASSUME NEW items, NEW taken \in SUBSET Nat, NEW id \in Identified(items, taken),
           \A n \in taken : items[n] \in ItemType
    PROVE  FirstSpelling(items, taken, id) \in Values
    BY FirstSpellingSays DEF ItemType

(* The places an identity is said at, after an observation.                *)
LEMMA SaidAtAfter ==
    ASSUME NEW s \in Sources, NEW items \in Contents[s], Observe(s, items), NEW id
    PROVE  SaidAt(id)' = SaidAt(id) \cup OriginsIn(s, items, Taken(items), id)
  <1> DEFINE taken == Taken(items)
             texts == { n \in taken : items[n].size > 0 }
             new(n) == [origin |-> OriginOf(s, step + 1, items[n]), says |-> items[n].says,
                        quotes |-> items[n].quotes]
  <1>1. observations' = observations \cup { new(n) : n \in texts }
    BY DEF Observe
  <1>2. taken \subseteq DOMAIN items
    BY DEF Taken
  <1>3. \A n \in taken : Says(items[n], id) => n \in texts
    BY <1>2, ItemsTyped DEF Says
  <1>4. \A n \in texts : /\ Says(new(n), id) <=> Says(items[n], id)
                         /\ new(n).origin = OriginOf(s, step + 1, items[n])
    BY DEF Says
  <1>5. SaidAt(id)' = { o.origin : o \in { ob \in observations' : Says(ob, id) } }
    BY DEF SaidAt, Says, Identity
  <1> HIDE DEF taken, texts, new
  <1>6. { o.origin : o \in { ob \in observations' : Says(ob, id) } }
        = SaidAt(id) \cup { new(n).origin : n \in { m \in texts : Says(new(m), id) } }
    BY <1>1 DEF SaidAt
  <1>7. { new(n).origin : n \in { m \in texts : Says(new(m), id) } }
        = { OriginOf(s, step + 1, items[n]) : n \in { m \in taken : Says(items[m], id) } }
    BY <1>3, <1>4 DEF texts
  <1> QED
    BY <1>5, <1>6, <1>7 DEF OriginsIn, taken

-----------------------------------------------------------------------------
(* The invariant, action by action.                                        *)

LEMMA InitInv == Init => LedgerInv
  <1> SUFFICES ASSUME Init PROVE LedgerInv
    OBVIOUS
  <1>1. observations = {} /\ DOMAIN operands = {} /\ DOMAIN corpus = {} /\ binding = "unset"
    BY DEF Init, NoCache
  <1> QED
    BY <1>1 DEF Init, LedgerInv, SaysClassified, ObservedDeclared, ShownKnown, LedgerIsExact,
                CachesAreCoherent

(* An observation adds the origins of what it says to the right operands.  *)
LEMMA ObserveLedger ==
    ASSUME SaysClassified, LedgerIsExact,
           NEW s \in Sources, NEW items \in Contents[s], Observe(s, items)
    PROVE  SaysClassified' /\ LedgerIsExact'
  <1> DEFINE taken == Taken(items)
             texts == { n \in taken : items[n].size > 0 }
             ids == Identified(items, taken)
  <1>1. taken \subseteq DOMAIN items /\ taken \in SUBSET Nat
    BY ItemsTyped DEF Taken
  <1>2. operands' = Recorded(s, items, taken)
    BY DEF Observe
  <1>3. DOMAIN operands' = DOMAIN operands \cup ids
    BY <1>2 DEF Recorded
  <1>4. \A o \in observations' :
            o \in observations \/ \E n \in texts : o.says = items[n].says
    BY DEF Observe
  <1>5. SaysClassified'
    BY <1>1, <1>4, ItemsTyped DEF SaysClassified, Classified
  <1>6. ASSUME NEW o \in observations', NEW v \in o.says
        PROVE  Identity(v) \in DOMAIN operands'
    <2>1. CASE o \in observations
      BY <1>3, <2>1 DEF LedgerIsExact, Known
    <2>2. CASE \E n \in texts : o.says = items[n].says
      BY <1>3, <2>2 DEF Identified
    <2> QED
      BY <1>4, <2>1, <2>2
  <1>7. ASSUME NEW id \in DOMAIN operands'
        PROVE  /\ Identity(operands'[id].value) = id
               /\ operands'[id].origins = SaidAt(id)'
               /\ operands'[id].origins # {}
    <2>1. SaidAt(id)' = SaidAt(id) \cup OriginsIn(s, items, taken, id)
      BY SaidAtAfter
    <2>2. CASE Known(id)
      <3>1. operands'[id] = [value |-> operands[id].value,
                             origins |-> operands[id].origins
                                            \cup OriginsIn(s, items, taken, id)]
        BY <1>2, <1>3, <2>2 DEF Recorded
      <3>2. /\ Identity(operands[id].value) = id
            /\ operands[id].origins = SaidAt(id)
            /\ operands[id].origins # {}
        BY <2>2 DEF LedgerIsExact, Known
      <3> QED
        BY <2>1, <3>1, <3>2
    <2>3. CASE ~Known(id)
      <3>1. id \in ids
        BY <1>3, <2>3 DEF Known
      <3>2. operands'[id] = [value |-> FirstSpelling(items, taken, id),
                             origins |-> {} \cup OriginsIn(s, items, taken, id)]
        BY <1>2, <1>3, <2>3 DEF Recorded
      <3>3. SaidAt(id) = {}
        BY <2>3 DEF SaidAt, Says, LedgerIsExact
      <3>4. Identity(FirstSpelling(items, taken, id)) = id
        BY <1>1, <3>1, FirstSpellingSays
      <3>5. OriginsIn(s, items, taken, id) # {}
        BY <3>1 DEF OriginsIn, Identified, Says
      <3> QED
        BY <2>1, <3>2, <3>3, <3>4, <3>5
    <2> QED
      BY <2>2, <2>3
  <1> QED
    BY <1>5, <1>6, <1>7 DEF LedgerIsExact, Known, Identity

LEMMA ObserveDeclared ==
    ASSUME ObservedDeclared, NEW s, NEW items, Observe(s, items)
    PROVE  ObservedDeclared'
    BY DEF ObservedDeclared, Observe, OriginOf

LEMMA ObserveShown ==
    ASSUME ShownKnown, NEW s, NEW items, Observe(s, items)
    PROVE  ShownKnown'
  <1>1. DOMAIN operands' = DOMAIN operands \cup Identified(items, Taken(items))
    BY DEF Observe, Recorded
  <1>2. shown' \subseteq shown \cup Identified(items, Taken(items))
    BY DEF Observe, Identified
  <1> QED
    BY <1>1, <1>2 DEF ShownKnown

(* The corpus cache is dropped whenever a text was observed.               *)
LEMMA ObserveCaches ==
    ASSUME CachesAreCoherent, NEW s, NEW items, Observe(s, items)
    PROVE  CachesAreCoherent'
  <1> DEFINE texts == { n \in Taken(items) : items[n].size > 0 }
  <1>1. corpus' = CorpusAfter(texts) /\ binding' = binding /\ declared' = declared
    BY DEF Observe
  <1>2. SomeSourceBinds' <=> SomeSourceBinds
    BY <1>1 DEF SomeSourceBinds
  <1>3. CASE texts = {}
    <2>1. observations' = observations /\ corpus' = corpus
      BY <1>1, <1>3 DEF Observe, CorpusAfter
    <2> QED
      BY <1>1, <1>2, <2>1 DEF CachesAreCoherent, QuotedBy
  <1>4. CASE texts # {}
    <2>1. DOMAIN corpus' = {}
      BY <1>1, <1>4 DEF CorpusAfter, NoCache
    <2> QED
      BY <1>1, <1>2, <2>1 DEF CachesAreCoherent
  <1> QED
    BY <1>3, <1>4

(* A judgement caches what it looked up, which is what there is.           *)
LEMMA JudgeCaches ==
    ASSUME CachesAreCoherent, NEW p, NEW v, JudgeTyped(p, v)
    PROVE  CachesAreCoherent'
  <1>1. observations' = observations /\ declared' = declared
    BY DEF JudgeTyped
  <1>2. /\ SomeSourceBinds' <=> SomeSourceBinds
        /\ \A sources : QuotedBy(sources)' = QuotedBy(sources)
    BY <1>1 DEF SomeSourceBinds, QuotedBy
  <1>3. \A sources : Corpus(sources) = QuotedBy(sources)
    BY DEF Corpus, CachesAreCoherent
  <1>4. ReferencesDeclared <=> SomeSourceBinds
    BY DEF ReferencesDeclared, CachesAreCoherent
  <1>5. binding' = binding \/ binding' = (IF ReferencesDeclared THEN "yes" ELSE "no")
    BY DEF JudgeTyped
  <1>6. binding' # "unset" => (binding' = "yes" <=> SomeSourceBinds)
    BY <1>4, <1>5 DEF CachesAreCoherent
  <1>7. \/ corpus' = corpus
        \/ corpus' = [sources \in DOMAIN corpus \cup {Principals} |-> Corpus(sources)]
    BY DEF JudgeTyped
  <1>8. \A sources \in DOMAIN corpus' : corpus'[sources] = QuotedBy(sources)
    BY <1>3, <1>7 DEF CachesAreCoherent
  <1> QED
    BY <1>2, <1>6, <1>8 DEF CachesAreCoherent

(* Every step keeps the invariant.                                         *)
LEMMA NextInv == LedgerInv /\ [Next]_vars => LedgerInv'
  <1> SUFFICES ASSUME LedgerInv, [Next]_vars PROVE LedgerInv'
    OBVIOUS
  <1> USE DEF LedgerInv
  <1>1. ASSUME UNCHANGED <<operands, observations, shown>>, declared \subseteq declared'
        PROVE  SaysClassified' /\ ObservedDeclared' /\ ShownKnown' /\ LedgerIsExact'
    BY <1>1 DEF SaysClassified, Classified, ObservedDeclared, ShownKnown, LedgerIsExact, Known,
                Identity, SaidAt, Says
  <1>2. ASSUME UNCHANGED <<observations, declared, corpus, binding>>
        PROVE  CachesAreCoherent'
    BY <1>2 DEF CachesAreCoherent, QuotedBy, SomeSourceBinds
  <1>3. ASSUME NEW s \in Sources, Declare(s)
        PROVE  LedgerInv'
    <2>1. /\ UNCHANGED <<operands, observations, shown, corpus>>
          /\ binding' = "unset"
          /\ declared \subseteq declared'
      BY <1>3 DEF Declare
    <2>2. CachesAreCoherent'
      BY <2>1 DEF CachesAreCoherent, QuotedBy
    <2> QED
      BY <1>1, <2>1, <2>2
  <1>4. ASSUME NEW s \in Sources, NEW items \in Contents[s], Observe(s, items)
        PROVE  LedgerInv'
    BY <1>4, ObserveLedger, ObserveDeclared, ObserveShown, ObserveCaches
  <1>5. ASSUME NEW p \in Parameters, NEW v \in Values, JudgeTyped(p, v)
        PROVE  LedgerInv'
    <2>1. UNCHANGED <<operands, observations, shown, declared>>
      BY <1>5 DEF JudgeTyped
    <2> QED
      BY <1>1, <1>5, <2>1, JudgeCaches
  <1>6. ASSUME NEW p \in Parameters, NEW id \in shown, JudgeHandle(p, id)
        PROVE  LedgerInv'
    BY <1>1, <1>2, <1>6 DEF JudgeHandle
  <1>7. ASSUME NEW v \in Values \cup {None}, NEW ids \in Writings(v), JudgePayload(v, ids)
        PROVE  LedgerInv'
    BY <1>1, <1>2, <1>7 DEF JudgePayload
  <1>8. CASE UNCHANGED vars
    BY <1>1, <1>2, <1>8 DEF vars
  <1> QED
    BY <1>3, <1>4, <1>5, <1>6, <1>7, <1>8 DEF Next

LEMMA InvHolds == Spec => []LedgerInv
  BY InitInv, NextInv, PTL DEF Spec

(* The operands and their origins are exactly what was observed, in every  *)
(* session, those included whose observations broke off.                   *)
THEOREM LedgerCorrect == Spec => []LedgerIsExact
  <1>1. LedgerInv => LedgerIsExact
    BY DEF LedgerInv
  <1> QED
    BY <1>1, InvHolds, PTL

(* No cached answer is ever stale.                                         *)
THEOREM CachesCorrect == Spec => []CachesAreCoherent
  <1>1. LedgerInv => CachesAreCoherent
    BY DEF LedgerInv
  <1> QED
    BY <1>1, InvHolds, PTL

LEMMA HandlesStep == [Next]_vars => HandlesKept
  <1> DEFINE Keeps(id) ==
                /\ Known(id)'
                /\ operands'[id].value = operands[id].value
                /\ operands[id].origins \subseteq operands'[id].origins
             Stands(id) ==
                IsAuthorisedFor(OfHandle(id), id[1]) => IsAuthorisedFor(OfHandle(id), id[1])'
  <1>1. ASSUME [Next]_vars, NEW id \in DOMAIN operands
        PROVE  declared \subseteq declared' /\ Keeps(id)
    <2>1. CASE UNCHANGED <<operands, declared>>
      BY <2>1 DEF Known
    <2>2. ASSUME NEW s \in Sources, Declare(s)
          PROVE  declared \subseteq declared' /\ Keeps(id)
      BY <2>2 DEF Declare, Known
    <2>3. ASSUME NEW s \in Sources, NEW items \in Contents[s], Observe(s, items)
          PROVE  declared \subseteq declared' /\ Keeps(id)
      <3>1. declared' = declared /\ operands' = Recorded(s, items, Taken(items))
        BY <2>3 DEF Observe
      <3>2. id \in DOMAIN operands'
        BY <3>1 DEF Recorded
      <3>3. operands'[id] = [value |-> operands[id].value,
                             origins |-> operands[id].origins
                                            \cup OriginsIn(s, items, Taken(items), id)]
        BY <3>1, <3>2 DEF Recorded, Known
      <3> QED
        BY <3>1, <3>2, <3>3 DEF Known
    <2>4. ASSUME NEW p \in Parameters, NEW v \in Values, JudgeTyped(p, v)
          PROVE  declared \subseteq declared' /\ Keeps(id)
      BY <2>1, <2>4 DEF JudgeTyped
    <2>5. ASSUME NEW p \in Parameters, NEW handle \in shown, JudgeHandle(p, handle)
          PROVE  declared \subseteq declared' /\ Keeps(id)
      BY <2>1, <2>5 DEF JudgeHandle
    <2>6. ASSUME NEW v \in Values \cup {None}, NEW ids \in Writings(v), JudgePayload(v, ids)
          PROVE  declared \subseteq declared' /\ Keeps(id)
      BY <2>1, <2>6 DEF JudgePayload
    <2>7. CASE UNCHANGED vars
      BY <2>1, <2>7 DEF vars
    <2> HIDE DEF Keeps
    <2> QED
      BY <1>1, <2>2, <2>3, <2>4, <2>5, <2>6, <2>7 DEF Next
  <1>2. ASSUME [Next]_vars, NEW id \in DOMAIN operands
        PROVE  Stands(id)
    BY <1>1, <1>2 DEF IsAuthorisedFor, OfHandle, Attributed, SpeaksFor
  <1> QED
    BY <1>1, <1>2 DEF HandlesKept

(* Handles keep their meaning and their standing.                          *)
THEOREM HandlesCorrect == Spec => HandlesAreStable
  BY HandlesStep, PTL DEF Spec, HandlesAreStable
-----------------------------------------------------------------------------
(* Attribution.                                                            *)

(* The records of a collection the principal named, from what was observed.*)
Named(v, collection) ==
    { e \in entities : /\ e.key = v
                       /\ e.origin.path \in collection
                       /\ NamedByPrincipal(e) }

(* An attribution with nothing in it that was not observed: every origin   *)
(* is of a mention of the value or of a record with its id, and it is      *)
(* bound only if the principal named such a record.                        *)
Grounded(a, v, collection) ==
    /\ ~a.composed
    /\ a.bound \in BOOLEAN
    /\ \A o \in a.origins : o \in Mentions(v) \/ \E e \in Named(v, collection) : o = e.origin
    /\ a.bound /\ a.origins # {} => Named(v, collection) # {}

(* Records are bound by the principal's text as it is now, cached or not.  *)
LEMMA ReferencedAreNamed ==
    ASSUME CachesAreCoherent, NEW v, NEW collection
    PROVE  ReferencedEntities(v, collection) \subseteq Named(v, collection)
  <1>1. Corpus(Principals) = QuotedBy(Principals)
    BY DEF Corpus, CachesAreCoherent
  <1>2. ASSUME NEW e \in entities, e.phrases \cap QuotedBy(Principals) # {}
        PROVE  NamedByPrincipal(e)
    BY <1>2 DEF QuotedBy, Principals, NamedByPrincipal, FromPrincipal
  <1> QED
    BY <1>1, <1>2 DEF ReferencedEntities, Named

LEMMA QuotingMentions ==
    ASSUME NEW v, NEW sources
    PROVE  Quoting(v, sources) \subseteq Mentions(v)
    BY DEF Quoting, Mentions

LEMMA SaidMentions ==
    ASSUME NEW v, Classified(v)
    PROVE  SaidAt(Identity(v)) \subseteq Mentions(v)
    BY DEF SaidAt, Mentions

LEMMA BindGrounded ==
    ASSUME CachesAreCoherent, NEW v, NEW collection, NEW origins, origins \subseteq Mentions(v)
    PROVE  Grounded(BindReference(v, Attributed(origins), collection), v, collection)
  <1> DEFINE bound == ReferencesDeclared /\ ReferencedEntities(v, collection) # {}
  <1>1. BindReference(v, Attributed(origins), collection)
        = [Attributed(origins) EXCEPT !.bound = bound]
    BY Zenon DEF BindReference
  <1>2. bound => Named(v, collection) # {}
    BY ReferencedAreNamed
  <1>3. bound \in BOOLEAN
    OBVIOUS
  <1> HIDE DEF bound
  <1>4. BindReference(v, Attributed(origins), collection)
        = [origins |-> origins, composed |-> FALSE, bound |-> bound]
    BY <1>1 DEF Attributed
  <1> QED
    BY <1>2, <1>3, <1>4 DEF Grounded

LEMMA DerivationGrounded ==
    ASSUME CachesAreCoherent, NEW v, NEW collection
    PROVE  Grounded(ByDerivation(v, collection), v, collection)
  <1>1. CASE Quoting(v, Principals) # {}
    <2>1. ByDerivation(v, collection)
          = [origins |-> Quoting(v, Principals), composed |-> FALSE, bound |-> FALSE]
      BY <1>1 DEF ByDerivation, Attributed
    <2> QED
      BY <2>1, QuotingMentions DEF Grounded
  <1>2. CASE Quoting(v, Principals) = {} /\ Quoting(v, Others) # {}
    <2>1. ByDerivation(v, collection)
          = BindReference(v, Attributed(Quoting(v, Others)), collection)
      BY <1>2 DEF ByDerivation
    <2> QED
      BY <2>1, QuotingMentions, BindGrounded
  <1>3. CASE Quoting(v, Principals) = {} /\ Quoting(v, Others) = {}
    <2>1. ByDerivation(v, collection) = ByReference(v, collection)
      BY <1>3 DEF ByDerivation
    <2>2. CASE ReferencesDeclared
      <3>1. ByReference(v, collection)
            = [origins |-> { e.origin : e \in ReferencedEntities(v, collection) },
               composed |-> FALSE, bound |-> TRUE]
        BY <2>2 DEF ByReference
      <3> QED
        BY <2>1, <3>1, ReferencedAreNamed DEF Grounded
    <2>3. CASE ~ReferencesDeclared
      <3>1. ByReference(v, collection)
            = [origins |-> {}, composed |-> FALSE, bound |-> FALSE]
        BY <2>3 DEF ByReference, Attributed
      <3> QED
        BY <2>1, <3>1 DEF Grounded
    <2> QED
      BY <2>2, <2>3
  <1> QED
    BY <1>1, <1>2, <1>3

LEMMA PlainGrounded ==
    ASSUME LedgerInv, NEW v, NEW collection
    PROVE  Grounded(Plain(v, collection), v, collection)
  <1>1. CASE AsOperand(v)
    <2>1. operands[Identity(v)].origins = SaidAt(Identity(v)) /\ Classified(v)
      BY <1>1 DEF AsOperand, Known, LedgerInv, LedgerIsExact
    <2> QED
      BY <1>1, <2>1, SaidMentions, BindGrounded DEF Plain, LedgerInv
  <1>2. CASE ~AsOperand(v)
    BY <1>2, DerivationGrounded DEF Plain, LedgerInv
  <1> QED
    BY <1>1, <1>2

(* A handle is as grounded as the value it stands for.                     *)
LEMMA HandleGrounded ==
    ASSUME LedgerInv, NEW id \in DOMAIN operands, NEW collection
    PROVE  Grounded(OfHandle(id), operands[id].value, collection)
  <1> DEFINE v == operands[id].value
  <1>1. Identity(v) = id /\ operands[id].origins = SaidAt(id) /\ operands[id].origins # {}
    BY DEF LedgerInv, LedgerIsExact
  <1>2. PICK o \in observations : \E w \in o.says : Identity(w) = id
    BY <1>1 DEF SaidAt, Says
  <1>3. Classified(v)
    <2>1. PICK w \in o.says : Identity(w) = id
      BY <1>2
    <2>2. Classified(w)
      BY <2>1 DEF LedgerInv, SaysClassified
    <2> QED
      BY <1>1, <2>1, <2>2 DEF Identity, Classified
  <1>4. OfHandle(id) = [origins |-> SaidAt(Identity(v)), composed |-> FALSE, bound |-> FALSE]
    BY <1>1 DEF OfHandle, Attributed
  <1> QED
    BY <1>3, <1>4, SaidMentions DEF Grounded

(* What a grounded attribution authorises has evidence.                    *)
LEMMA GroundedSupplies ==
    ASSUME NEW a, NEW v, NEW collection, Grounded(a, v, collection),
           IsAuthorisedFor(a, KindOf[v])
    PROVE  Supplied(v) \/ Selected(v, collection)
  <1>1. PICK o \in a.origins :
            SpeaksFor(o, KindOf[v]) \/ (a.bound /\ SpeaksFor(o, Referenced))
    BY DEF IsAuthorisedFor, Grounded
  <1>2. CASE o \in Mentions(v) /\ SpeaksFor(o, KindOf[v])
    BY <1>2 DEF Supplied
  <1>3. CASE o \in Mentions(v) /\ a.bound /\ SpeaksFor(o, Referenced)
    <2>1. PICK e \in Named(v, collection) : TRUE
      BY <1>3 DEF Grounded
    <2> QED
      BY <1>3, <2>1 DEF Named, Selected
  <1>4. CASE \E e \in Named(v, collection) : o = e.origin
    BY <1>1, <1>4 DEF Named, Selected
  <1> QED
    BY <1>1, <1>2, <1>3, <1>4 DEF Grounded

(* A part of a composed value has no collection to be selected from.       *)
LEMMA ComponentSupplied ==
    ASSUME LedgerInv, NEW v, AuthorisedComponent(v)
    PROVE  Supplied(v)
  <1>1. Supplied(v) \/ Selected(v, {})
    BY DerivationGrounded, GroundedSupplies DEF AuthorisedComponent, LedgerInv
  <1> QED
    BY <1>1 DEF Selected

(* What a typed value is authorised by.                                    *)
LEMMA TypedSupplied ==
    ASSUME LedgerInv, NEW v, NEW collection, IsAuthorisedFor(OfTyped(v, collection), KindOf[v])
    PROVE  Supplied(v) \/ Selected(v, collection) \/ SuppliedInParts(v)
  <1>1. CASE IsAuthorisedFor(Plain(v, collection), KindOf[v])
    BY <1>1, PlainGrounded, GroundedSupplies
  <1>2. CASE ~IsAuthorisedFor(Plain(v, collection), KindOf[v]) /\ GoodSplits(v) # {}
    <2>1. PICK n \in DOMAIN SplitsOf[v] :
                /\ AuthorisedComponent(SplitsOf[v][n][1])
                /\ AuthorisedComponent(SplitsOf[v][n][2])
      BY <1>2 DEF GoodSplits
    <2> QED
      BY <2>1, ComponentSupplied DEF SuppliedInParts
  <1>3. CASE ~IsAuthorisedFor(Plain(v, collection), KindOf[v]) /\ GoodSplits(v) = {}
    BY <1>3 DEF OfTyped, OrComposed
  <1> QED
    BY <1>1, <1>2, <1>3

(* Only an authorised value raises no finding, whatever kinds are expected.*)
LEMMA NoCodesNoDoubt ==
    ASSUME NEW p, NEW kind, NEW a, CodesFor(p, kind, a) = {}
    PROVE  IsAuthorisedFor(a, kind)
    BY DEF CodesFor, AuthorityCodes

(* Judging observes nothing.                                               *)
LEMMA EvidenceStays ==
    ASSUME UNCHANGED <<declared, observations, entities>>, NEW v, NEW collection
    PROVE  /\ Supplied(v)' <=> Supplied(v)
           /\ Selected(v, collection)' <=> Selected(v, collection)
           /\ SuppliedInParts(v)' <=> SuppliedInParts(v)
    BY DEF Supplied, Selected, SuppliedInParts, Mentions, NamedByPrincipal, SpeaksFor, Says,
           Identity, Classified, FromPrincipal

-----------------------------------------------------------------------------
THEOREM AttributionCorrect == Spec => []NothingFromNobody
  <1>1. Init => NothingFromNobody
    BY DEF Init, NoJudgement, NothingFromNobody, IsAuthorityJudgement
  <1>2. ASSUME LedgerInv, NothingFromNobody, [Next]_vars
        PROVE  NothingFromNobody'
    <2>1. ASSUME judgement' = NoJudgement
          PROVE  NothingFromNobody'
      BY <2>1 DEF NoJudgement, NothingFromNobody, IsAuthorityJudgement
    <2>2. ASSUME NEW s \in Sources, Declare(s)
          PROVE  NothingFromNobody'
      BY <2>1, <2>2 DEF Declare
    <2>3. ASSUME NEW s \in Sources, NEW items \in Contents[s], Observe(s, items)
          PROVE  NothingFromNobody'
      BY <2>1, <2>3 DEF Observe
    <2>4. ASSUME NEW p \in Parameters, NEW v \in Values, JudgeTyped(p, v)
          PROVE  NothingFromNobody'
      <3>1. /\ UNCHANGED <<declared, observations, entities>>
            /\ judgement' = Judgement(p, v, "typed", OfTyped(v, p.collection))
        BY <2>4 DEF JudgeTyped
      <3>2. /\ judgement'.value = v
            /\ judgement'.parameter = p
            /\ judgement'.codes = CodesFor(p, KindOf[v], OfTyped(v, p.collection))
        BY <3>1 DEF Judgement
      <3>3. judgement'.codes = {} =>
                Supplied(v) \/ Selected(v, p.collection) \/ SuppliedInParts(v)
        BY <1>2, <3>2, NoCodesNoDoubt, TypedSupplied
      <3> QED
        BY <3>1, <3>2, <3>3, EvidenceStays DEF NothingFromNobody
    <2>5. ASSUME NEW p \in Parameters, NEW id \in shown, JudgeHandle(p, id)
          PROVE  NothingFromNobody'
      <3> DEFINE v == operands[id].value
      <3>1. /\ UNCHANGED <<declared, observations, entities>>
            /\ judgement' = Judgement(p, v, "handle", OfHandle(id))
        BY <2>5 DEF JudgeHandle
      <3>2. /\ judgement'.value = v
            /\ judgement'.parameter = p
            /\ judgement'.codes = CodesFor(p, KindOf[v], OfHandle(id))
        BY <3>1 DEF Judgement
      <3>3. judgement'.codes = {} => Supplied(v) \/ Selected(v, p.collection)
        BY <1>2, <2>5, <3>2, NoCodesNoDoubt, HandleGrounded, GroundedSupplies DEF LedgerInv, ShownKnown
      <3> HIDE DEF v
      <3> QED
        BY <3>1, <3>2, <3>3, EvidenceStays DEF NothingFromNobody
    <2>6. ASSUME NEW v \in Values \cup {None}, NEW ids \in Writings(v), JudgePayload(v, ids)
          PROVE  NothingFromNobody'
      BY <2>6 DEF JudgePayload, NothingFromNobody, IsAuthorityJudgement
    <2>7. CASE UNCHANGED vars
      <3>1. UNCHANGED <<declared, observations, entities, judgement>>
        BY <2>7 DEF vars
      <3> QED
        BY <1>2, <3>1, EvidenceStays DEF NothingFromNobody, IsAuthorityJudgement
    <2> QED
      BY <1>2, <2>2, <2>3, <2>4, <2>5, <2>6, <2>7 DEF Next
  <1> QED
    BY <1>1, <1>2, InvHolds, PTL DEF Spec

-----------------------------------------------------------------------------
(* The principal's words.                                                  *)

(* An attribution with a place the principal said the value at is never    *)
(* refused for want of authority.                                          *)
LEMMA PrincipalSuffices ==
    ASSUME LedgerInv, NEW p, NEW kind, NEW id, NEW a, a.origins = SaidAt(id),
           \E o \in SaidAt(id) : FromPrincipal(o)
    PROVE  /\ IsAuthorisedFor(a, kind)
           /\ CodesFor(p, kind, a)
                \cap {"unattributed_authority", "unauthorised_authority"} = {}
  <1>1. PICK o \in a.origins : FromPrincipal(o)
    OBVIOUS
  <1>2. SpeaksFor(o, kind)
    BY <1>1 DEF SaidAt, LedgerInv, ObservedDeclared, SpeaksFor, FromPrincipal
  <1>3. IsAuthorisedFor(a, kind)
    BY <1>1, <1>2 DEF IsAuthorisedFor
  <1>4. AuthorityCodes(a, kind) = {}
    BY <1>1, <1>3 DEF AuthorityCodes
  <1> QED
    BY <1>3, <1>4 DEF CodesFor

(* An identifier the principal said is looked up as an operand.            *)
LEMMA PrincipalOperand ==
    ASSUME LedgerInv, NEW v, NEW collection, Classified(v),
           \E o \in SaidAt(Identity(v)) : FromPrincipal(o)
    PROVE  /\ Plain(v, collection).origins = SaidAt(Identity(v))
           /\ OfTyped(v, collection) = Plain(v, collection)
  <1>1. AsOperand(v)
    BY DEF SaidAt, Says, LedgerInv, LedgerIsExact, AsOperand, Known
  <1>2. operands[Identity(v)].origins = SaidAt(Identity(v))
    BY <1>1 DEF AsOperand, Known, LedgerInv, LedgerIsExact
  <1>3. Plain(v, collection)
        = BindReference(v, Attributed(SaidAt(Identity(v))), collection)
    BY <1>1, <1>2 DEF Plain
  <1>4. Plain(v, collection).origins = SaidAt(Identity(v))
    BY <1>3 DEF BindReference, Attributed
  <1>5. IsAuthorisedFor(Plain(v, collection), KindOf[v])
    BY <1>4, PrincipalSuffices
  <1> QED
    BY <1>4, <1>5 DEF OfTyped, OrComposed

(* What the principal identified stays usable, whoever echoes it.          *)
THEOREM EchoesCannotRevoke == Spec => []PrincipalValuesStayUsable
  <1>1. Init => PrincipalValuesStayUsable
    BY DEF Init, NoJudgement, PrincipalValuesStayUsable, IsAuthorityJudgement
  <1>2. ASSUME LedgerInv, PrincipalValuesStayUsable, [Next]_vars
        PROVE  PrincipalValuesStayUsable'
    <2>1. ASSUME UNCHANGED observations
          PROVE  \A id : SaidAt(id)' = SaidAt(id)
      BY <2>1 DEF SaidAt, Says, Identity
    <2>2. ASSUME judgement' = NoJudgement
          PROVE  PrincipalValuesStayUsable'
      BY <2>2 DEF NoJudgement, PrincipalValuesStayUsable, IsAuthorityJudgement
    <2>3. ASSUME NEW s \in Sources, Declare(s)
          PROVE  PrincipalValuesStayUsable'
      BY <2>2, <2>3 DEF Declare
    <2>4. ASSUME NEW s \in Sources, NEW items \in Contents[s], Observe(s, items)
          PROVE  PrincipalValuesStayUsable'
      BY <2>2, <2>4 DEF Observe
    <2>5. ASSUME NEW p \in Parameters, NEW v \in Values, JudgeTyped(p, v)
          PROVE  PrincipalValuesStayUsable'
      <3>1. /\ UNCHANGED observations
            /\ judgement'.value = v
            /\ judgement'.codes = CodesFor(p, KindOf[v], OfTyped(v, p.collection))
        BY <2>5 DEF JudgeTyped, Judgement
      <3>2. Classified(v) /\ (\E o \in SaidAt(Identity(v)) : FromPrincipal(o))
            => judgement'.codes
                \cap {"unattributed_authority", "unauthorised_authority"} = {}
        BY <1>2, <3>1, PrincipalOperand, PrincipalSuffices
      <3> QED
        BY <2>1, <3>1, <3>2
        DEF PrincipalValuesStayUsable, AuthorityRefused, Classified, Identity, FromPrincipal
    <2>6. ASSUME NEW p \in Parameters, NEW id \in shown, JudgeHandle(p, id)
          PROVE  PrincipalValuesStayUsable'
      <3> DEFINE v == operands[id].value
      <3>1. /\ UNCHANGED observations
            /\ judgement'.value = v
            /\ judgement'.codes = CodesFor(p, KindOf[v], OfHandle(id))
        BY <2>6 DEF JudgeHandle, Judgement
      <3>2. Identity(v) = id /\ OfHandle(id).origins = SaidAt(id)
        BY <1>2 DEF OfHandle, Attributed, LedgerInv, ShownKnown, LedgerIsExact
      <3>3. (\E o \in SaidAt(id) : FromPrincipal(o))
            => judgement'.codes
                \cap {"unattributed_authority", "unauthorised_authority"} = {}
        BY <1>2, <3>1, <3>2, PrincipalSuffices
      <3> QED
        BY <2>1, <3>1, <3>2, <3>3
        DEF PrincipalValuesStayUsable, AuthorityRefused, Classified, Identity, FromPrincipal
    <2>7. ASSUME NEW v \in Values \cup {None}, NEW ids \in Writings(v), JudgePayload(v, ids)
          PROVE  PrincipalValuesStayUsable'
      BY <2>7 DEF JudgePayload, PrincipalValuesStayUsable, IsAuthorityJudgement
    <2>8. CASE UNCHANGED vars
      <3>1. UNCHANGED <<observations, judgement>>
        BY <2>8 DEF vars
      <3> QED
        BY <1>2, <2>1, <3>1
        DEF PrincipalValuesStayUsable, IsAuthorityJudgement, AuthorityRefused, Classified,
            Identity, FromPrincipal
    <2> QED
      BY <1>2, <2>3, <2>4, <2>5, <2>6, <2>7, <2>8 DEF Next
  <1> QED
    BY <1>1, <1>2, InvHolds, PTL DEF Spec

-----------------------------------------------------------------------------
(* What the egress rules are told.                                         *)

SuppliedRecord(v) == \E e \in entities : e.key = v /\ FromPrincipal(e.origin)

(* One principal origin of a grounded attribution is a choice of theirs.   *)
LEMMA GroundedChosen ==
    ASSUME NEW a, NEW v, NEW collection, Grounded(a, v, collection),
           \E o \in a.origins : FromPrincipal(o)
    PROVE  Chosen(v) \/ SuppliedRecord(v)
    BY DEF Grounded, Chosen, SuppliedRecord, Named

(* A composed value is chosen part by part.                                *)
LEMMA ComposedChosen ==
    ASSUME LedgerInv, NEW v \in Values, GoodSplits(v) # {},
           \A o \in ByComposition(v).origins : FromPrincipal(o)
    PROVE  ChosenInParts(v)
  <1> DEFINE first(m) == \A k \in GoodSplits(v) : m <= k
             n == CHOOSE m \in GoodSplits(v) : first(m)
             part(k) == SplitsOf[v][n][k]
  <1>1. GoodSplits(v) \in SUBSET Nat
    <2>1. SplitsOf[v] \in Seq(Values \X Values)
      BY ProvenanceAssumption
    <2> QED
      BY <2>1 DEF GoodSplits
  <1>2. \E m \in GoodSplits(v) : first(m)
    BY <1>1, LeastElement
  <1>3. n \in GoodSplits(v)
    BY <1>2
  <1>4. /\ n \in DOMAIN SplitsOf[v]
        /\ AuthorisedComponent(part(1))
        /\ AuthorisedComponent(part(2))
    BY <1>3 DEF GoodSplits
  <1>5. ByComposition(v).origins
        = ByDerivation(part(1), {}).origins \cup ByDerivation(part(2), {}).origins
    BY DEF ByComposition
  <1> HIDE DEF n
  <1>6. ASSUME NEW k \in 1..2
        PROVE  Chosen(part(k))
    <2> DEFINE a == ByDerivation(part(k), {})
    <2>1. Grounded(a, part(k), {}) /\ AuthorisedComponent(part(k))
      BY <1>4, DerivationGrounded DEF LedgerInv
    <2>2. PICK o \in a.origins : TRUE
      BY <2>1 DEF AuthorisedComponent, IsAuthorisedFor, Grounded
    <2>3. FromPrincipal(o)
      BY <1>5, <2>2
    <2>4. o \in Mentions(part(k))
      BY <2>1, <2>2 DEF Grounded, Named
    <2> QED
      BY <2>3, <2>4 DEF Chosen
  <1>7. Chosen(part(1)) /\ Chosen(part(2))
    BY <1>6
  <1> QED
    BY <1>4, <1>7 DEF ChosenInParts

LEMMA TypedChosen ==
    ASSUME LedgerInv, NEW v \in Values, NEW collection,
           PrincipalDirected(OfTyped(v, collection))
    PROVE  Chosen(v) \/ SuppliedRecord(v) \/ ChosenInParts(v)
  <1> DEFINE settled == IsAuthorisedFor(Plain(v, collection), KindOf[v]) \/ GoodSplits(v) = {}
  <1>1. CASE settled
    <2>1. OfTyped(v, collection) = Plain(v, collection)
      BY <1>1 DEF OfTyped, OrComposed
    <2>2. Grounded(Plain(v, collection), v, collection)
      BY PlainGrounded
    <2> QED
      BY <2>1, <2>2, GroundedChosen DEF PrincipalDirected, Grounded
  <1>2. CASE ~settled
    <2>1. OfTyped(v, collection) = ByComposition(v)
      BY <1>2 DEF OfTyped, OrComposed
    <2>2. ByComposition(v).composed
      BY DEF ByComposition
    <2> QED
      BY <1>2, <2>1, <2>2, ComposedChosen DEF PrincipalDirected
  <1> QED
    BY <1>1, <1>2

LEMMA ChoiceStays ==
    ASSUME UNCHANGED <<observations, entities>>, NEW v
    PROVE  /\ Chosen(v)' <=> Chosen(v)
           /\ SuppliedRecord(v)' <=> SuppliedRecord(v)
           /\ ChosenInParts(v)' <=> ChosenInParts(v)
    BY DEF Chosen, ChosenInParts, SuppliedRecord, Mentions, Says, Identity, Classified,
           FromPrincipal

(* A destination the egress rules take for the principal's choice is one,  *)
(* as a whole or in every part.                                            *)
THEOREM DirectedCorrect == Spec => []DirectedMeansPrincipal
  <1>1. Init => DirectedMeansPrincipal
    BY DEF Init, NoJudgement, DirectedMeansPrincipal, IsAuthorityJudgement
  <1>2. ASSUME LedgerInv, DirectedMeansPrincipal, [Next]_vars
        PROVE  DirectedMeansPrincipal'
    <2>1. ASSUME judgement' = NoJudgement
          PROVE  DirectedMeansPrincipal'
      BY <2>1 DEF NoJudgement, DirectedMeansPrincipal, IsAuthorityJudgement
    <2>2. ASSUME NEW s \in Sources, Declare(s)
          PROVE  DirectedMeansPrincipal'
      BY <2>1, <2>2 DEF Declare
    <2>3. ASSUME NEW s \in Sources, NEW items \in Contents[s], Observe(s, items)
          PROVE  DirectedMeansPrincipal'
      BY <2>1, <2>3 DEF Observe
    <2>4. ASSUME NEW p \in Parameters, NEW v \in Values, JudgeTyped(p, v)
          PROVE  DirectedMeansPrincipal'
      <3>1. UNCHANGED <<observations, entities>> /\ judgement'.value = v
        BY <2>4 DEF JudgeTyped, Judgement
      <3>2. judgement'.directed => PrincipalDirected(OfTyped(v, p.collection))
        BY <2>4 DEF JudgeTyped, Judgement
      <3>3. judgement'.directed => Chosen(v) \/ SuppliedRecord(v) \/ ChosenInParts(v)
        BY <1>2, <3>2, TypedChosen
      <3> QED
        BY <3>1, <3>3, ChoiceStays DEF DirectedMeansPrincipal, SuppliedRecord
    <2>5. ASSUME NEW p \in Parameters, NEW id \in shown, JudgeHandle(p, id)
          PROVE  DirectedMeansPrincipal'
      <3> DEFINE v == operands[id].value
      <3>1. UNCHANGED <<observations, entities>> /\ judgement'.value = v
        BY <2>5 DEF JudgeHandle, Judgement
      <3>2. judgement'.directed => PrincipalDirected(OfHandle(id))
        BY <2>5 DEF JudgeHandle, Judgement
      <3>3. Grounded(OfHandle(id), v, {})
        BY <1>2, HandleGrounded DEF LedgerInv, ShownKnown
      <3>4. judgement'.directed => Chosen(v) \/ SuppliedRecord(v)
        BY <3>2, <3>3, GroundedChosen DEF PrincipalDirected, Grounded
      <3> HIDE DEF v
      <3> QED
        BY <3>1, <3>4, ChoiceStays DEF DirectedMeansPrincipal, SuppliedRecord
    <2>6. ASSUME NEW v \in Values \cup {None}, NEW ids \in Writings(v), JudgePayload(v, ids)
          PROVE  DirectedMeansPrincipal'
      BY <2>6 DEF JudgePayload, DirectedMeansPrincipal, IsAuthorityJudgement
    <2>7. CASE UNCHANGED vars
      <3>1. UNCHANGED <<observations, entities, judgement>>
        BY <2>7 DEF vars
      <3> QED
        BY <1>2, <3>1, ChoiceStays DEF DirectedMeansPrincipal, IsAuthorityJudgement, SuppliedRecord
    <2> QED
      BY <1>2, <2>2, <2>3, <2>4, <2>5, <2>6, <2>7 DEF Next
  <1> QED
    BY <1>1, <1>2, InvHolds, PTL DEF Spec

-----------------------------------------------------------------------------
(* What a payload gives away.                                              *)

(* The payload of a judgement is confidential exactly when what was        *)
(* observed of a confidential source gives it away.                        *)
Tainted(payload) ==
    \E ob \in observations : LabelOf[ob.origin.source].confidential /\ GivesAway(ob, payload)

LEMMA PayloadTainted ==
    ASSUME LedgerInv, NEW v, NEW ids \in SUBSET shown, NEW payload,
           payload.value = v, payload.handles = ids
    PROVE  IsConfidential(OfPayload(v, ids)) <=> Tainted(payload)
  <1> DEFINE Secret(o) == LabelOf[o.source].confidential
  <1>1. IsConfidential(OfPayload(v, ids))
        <=> \/ \E o \in Quoting(v, declared) : Secret(o)
            \/ \E id \in ids : \E o \in operands[id].origins : Secret(o)
    BY DEF IsConfidential, OfPayload, Attributed
  <1>2. (\E o \in Quoting(v, declared) : Secret(o))
        <=> \E ob \in observations : /\ Secret(ob.origin)
                                     /\ v \in Quotable /\ FormOf[v] \in ob.quotes
    BY DEF Quoting, LedgerInv, ObservedDeclared
  <1>3. \A id \in ids : operands[id].origins = SaidAt(id)
    BY DEF LedgerInv, LedgerIsExact, ShownKnown
  <1>4. \A id : (\E o \in SaidAt(id) : Secret(o))
                <=> \E ob \in observations : Secret(ob.origin) /\ Says(ob, id)
    BY DEF SaidAt
  <1> QED
    BY <1>1, <1>2, <1>3, <1>4 DEF Tainted, GivesAway

(* Whoever ever said what a handle in a payload stands for, and whoever's  *)
(* words the payload repeats, is told to the egress rules: the origins of  *)
(* a handle are all there is, however the observations came and broke off  *)
(* (monitor.py, _payload_attributions).                                    *)
THEOREM TaintCorrect == Spec => []PayloadsAreTainted
  <1>1. Init => PayloadsAreTainted
    BY DEF Init, NoJudgement, PayloadsAreTainted
  <1>2. ASSUME PayloadsAreTainted, LedgerInv, [Next]_vars
        PROVE  PayloadsAreTainted'
    <2>1. ASSUME judgement' = NoJudgement
          PROVE  PayloadsAreTainted'
      BY <2>1 DEF NoJudgement, PayloadsAreTainted
    <2>2. ASSUME NEW s \in Sources, Declare(s)
          PROVE  PayloadsAreTainted'
      BY <2>1, <2>2 DEF Declare
    <2>3. ASSUME NEW s \in Sources, NEW items \in Contents[s], Observe(s, items)
          PROVE  PayloadsAreTainted'
      BY <2>1, <2>3 DEF Observe
    <2>4. ASSUME NEW p \in Parameters, NEW v \in Values, JudgeTyped(p, v)
          PROVE  PayloadsAreTainted'
      BY <2>4 DEF JudgeTyped, Judgement, PayloadsAreTainted
    <2>5. ASSUME NEW p \in Parameters, NEW id \in shown, JudgeHandle(p, id)
          PROVE  PayloadsAreTainted'
      BY <2>5 DEF JudgeHandle, Judgement, PayloadsAreTainted
    <2>6. ASSUME NEW v \in Values \cup {None}, NEW ids \in Writings(v), JudgePayload(v, ids)
          PROVE  PayloadsAreTainted'
      <3>1. /\ observations' = observations
            /\ judgement'.value = v
            /\ judgement'.handles = ids
            /\ judgement'.confidential = IsConfidential(OfPayload(v, ids))
        BY <2>6 DEF JudgePayload
      <3>2. ids \in SUBSET shown
        BY <2>6 DEF Writings
      <3>3. judgement'.confidential <=> Tainted(judgement')
        BY <1>2, <3>1, <3>2, PayloadTainted
      <3> QED
        BY <3>1, <3>3 DEF PayloadsAreTainted, Tainted, GivesAway, Says, Identity
    <2>7. CASE UNCHANGED vars
      <3>1. UNCHANGED <<observations, judgement>>
        BY <2>7 DEF vars
      <3> QED
        BY <1>2, <3>1 DEF PayloadsAreTainted, GivesAway, Says, Identity
    <2> QED
      BY <1>2, <2>2, <2>3, <2>4, <2>5, <2>6, <2>7 DEF Next
  <1> QED
    BY <1>1, <1>2, InvHolds, PTL DEF Spec

-----------------------------------------------------------------------------
(* Types, and the intake bound.                                            *)

(* Running totals are totals: they begin at nothing and each is the one    *)
(* before with the item at hand.                                           *)
LEMMA LengthsAre ==
    ASSUME NEW items \in Seq(ItemType)
    PROVE  /\ Lengths(items) \in [0..Len(items) -> Nat]
           /\ Lengths(items)[0] = 0
           /\ \A n \in 1..Len(items) : Lengths(items)[n] = Lengths(items)[n - 1] + items[n].size
  <1> DEFINE D == 0..Len(items)
             add == [p \in Nat \X (1..Len(items)) |-> p[1] + items[p[2]].size]
             total(g) == [n \in D |-> IF n = 0 THEN 0 ELSE g[n - 1] + items[n].size]
  <1>1. Len(items) \in Nat /\ \A n \in 1..Len(items) : items[n].size \in Nat
    <2>1. Len(items) \in Nat /\ \A n \in 1..Len(items) : items[n] \in ItemType
      OBVIOUS
    <2> QED
      BY <2>1 DEF ItemType
  <1>2. add \in [Nat \X (1..Len(items)) -> Nat]
    BY <1>1
  <1>3. \A m \in Nat : \A n \in 1..Len(items) : add[<<m, n>>] = m + items[n].size
    OBVIOUS
  <1> HIDE DEF add
  <1>4. PICK g \in [D -> Nat] : Steps(g, Len(items), 0, add)
    BY <1>1, <1>2, IterationExists
  <1>5. g = total(g)
    <2>1. ASSUME NEW n \in D PROVE g[n] = total(g)[n]
      <3>1. CASE n = 0
        BY <1>4, <3>1 DEF Steps
      <3>2. CASE n # 0
        <4>1. n \in 1..Len(items) /\ n - 1 \in D
          BY <1>1, <3>2
        <4>2. g[n] = add[<<g[n - 1], n>>] /\ g[n - 1] \in Nat
          BY <1>4, <4>1 DEF Steps
        <4> QED
          BY <1>3, <3>2, <4>1, <4>2
      <3> QED
        BY <3>1, <3>2
    <2> QED
      BY <1>4, <2>1
  <1>6. Lengths(items) = total(Lengths(items))
    BY <1>5 DEF Lengths
  <1> DEFINE f == Lengths(items)
             Differs == {n \in D : f[n] # g[n]}
  <1>7. /\ f = [n \in D |-> f[n]]
        /\ \A n \in D : f[n] = IF n = 0 THEN 0 ELSE f[n - 1] + items[n].size
    BY <1>6
  <1>8. \A n \in D : g[n] = IF n = 0 THEN 0 ELSE g[n - 1] + items[n].size
    BY <1>5
  <1> HIDE DEF f
  <1>9. ASSUME NEW n \in Differs, \A k \in Differs : n <= k PROVE FALSE
    <2>1. n \in D /\ n # 0
      BY <1>7, <1>8, <1>9
    <2>2. n - 1 \in D /\ ~(n <= n - 1)
      BY <1>1, <2>1
    <2>3. f[n - 1] = g[n - 1]
      BY <1>9, <2>2
    <2> QED
      BY <1>7, <1>8, <1>9, <2>1, <2>3
  <1>10. Differs \subseteq Nat
    BY <1>1
  <1> HIDE DEF Differs
  <1>11. Differs = {}
    BY <1>9, <1>10, LeastElement
  <1>12. f = g
    <2>1. g = [n \in D |-> g[n]]
      BY <1>4
    <2> QED
      BY <1>7, <1>11, <2>1 DEF Differs
  <1>13. 0 \in D /\ \A n \in 1..Len(items) : n \in D /\ n # 0
    BY <1>1
  <1> QED
    BY <1>4, <1>7, <1>12, <1>13 DEF f

(* An observation takes in no more than the bound leaves room for.         *)
LEMMA ObserveChars ==
    ASSUME chars \in 0..MaxChars, NEW s \in Sources, NEW items \in Contents[s], Observe(s, items)
    PROVE  chars' \in 0..MaxChars
  <1> DEFINE taken == Taken(items)
             last == Max({0} \cup taken)
  <1>1. items \in Seq(ItemType) /\ MaxChars \in Nat
    BY ProvenanceAssumption
  <1>2. taken \subseteq 0..Len(items) /\ Len(items) \in Nat
    BY <1>1 DEF Taken
  <1>3. \A n \in taken : chars + Lengths(items)[n] <= MaxChars
    BY DEF Taken
  <1>4. chars' = chars + Lengths(items)[last]
    BY DEF Observe
  <1> HIDE DEF taken
  <1>5. \E m \in {0} \cup taken : \A k \in {0} \cup taken : m >= k
    <2>1. {0} \cup taken \subseteq 0..Len(items)
      BY <1>2
    <2> HIDE DEF last
    <2> QED
      BY <1>2, <2>1, GreatestElement
  <1>6. last \in {0} \cup taken
    BY <1>5 DEF Max
  <1> HIDE DEF last
  <1>7. Lengths(items)[last] \in Nat /\ Lengths(items)[0] = 0
    BY <1>1, <1>2, <1>6, LengthsAre
  <1> QED
    BY <1>1, <1>3, <1>4, <1>6, <1>7

(* What an observation notes is of its kind.                               *)
LEMMA ObserveTypes ==
    ASSUME TypeOK, LedgerInv, NEW s \in Sources, NEW items \in Contents[s], Observe(s, items)
    PROVE  TypeOK'
  <1> DEFINE taken == Taken(items)
             texts == { n \in taken : items[n].size > 0 }
             records == { n \in taken : items[n].key # None /\ items[n].phrases # {} }
             observed(n) == [origin |-> OriginOf(s, step + 1, items[n]), says |-> items[n].says,
                             quotes |-> items[n].quotes]
             recorded(n) == [key |-> items[n].key, phrases |-> items[n].phrases,
                             origin |-> OriginOf(s, step + 1, items[n])]
  <1>1. /\ items \in Seq(ItemType)
        /\ MaxSteps \in Nat
        /\ step \in Nat
    BY ProvenanceAssumption DEF TypeOK
  <1>2. /\ taken \subseteq DOMAIN items
        /\ taken \in SUBSET Nat
        /\ \A n \in taken : items[n] \in ItemType
    BY <1>1 DEF Taken
  <1>3. step' = step + 1 /\ step' \in 0..MaxSteps /\ declared' = declared
    BY <1>1 DEF Observe
  <1>4. \A n \in taken : OriginOf(s, step + 1, items[n]) \in Origin
    BY <1>1, <1>2 DEF OriginOf, Origin, ItemType
  <1>5. ASSUME NEW id \in DOMAIN operands'
        PROVE  operands'[id] \in [value : Values, origins : SUBSET Origin]
    <2> DEFINE value == IF Known(id) THEN operands[id].value ELSE FirstSpelling(items, taken, id)
               before == IF Known(id) THEN operands[id].origins ELSE {}
               new == OriginsIn(s, items, taken, id)
    <2>1. /\ id \in DOMAIN operands \cup Identified(items, taken)
          /\ operands'[id] = [value |-> value, origins |-> before \cup new]
      BY DEF Observe, Recorded
    <2>2. new \subseteq Origin
      BY <1>4 DEF OriginsIn
    <2>3. before \subseteq Origin
      BY DEF Known, TypeOK
    <2>4. CASE Known(id)
      <3>1. value \in Values
        BY <2>4 DEF Known, TypeOK
      <3> QED
        BY <2>1, <2>2, <2>3, <3>1
    <2>5. CASE ~Known(id)
      <3>1. id \in Identified(items, taken)
        BY <2>1, <2>5 DEF Known
      <3>2. FirstSpelling(items, taken, id) \in Values
        BY <1>2, <3>1, FirstSpellingIsValue
      <3>3. value \in Values
        BY <2>5, <3>2
      <3> QED
        BY <2>1, <2>2, <2>3, <3>3
    <2> QED
      BY <2>4, <2>5
  <1>6. ASSUME NEW o \in observations'
        PROVE  o \in [origin : Origin, says : SUBSET Values, quotes : SUBSET Forms]
    <2>1. o \in observations \/ \E n \in texts : o = observed(n)
      BY DEF Observe
    <2>2. \A n \in texts : observed(n) \in [origin : Origin, says : SUBSET Values, quotes : SUBSET Forms]
      BY <1>2, <1>4 DEF ItemType
    <2> QED
      BY <2>1, <2>2 DEF TypeOK
  <1>7. ASSUME NEW e \in entities'
        PROVE  e \in [key : Values, phrases : SUBSET Forms, origin : Origin]
    <2>1. e \in entities \/ \E n \in records : e = recorded(n)
      BY DEF Observe
    <2>2. \A n \in records : recorded(n) \in [key : Values, phrases : SUBSET Forms, origin : Origin]
      BY <1>2, <1>4 DEF ItemType
    <2> QED
      BY <2>1, <2>2 DEF TypeOK
  <1>8. chars' \in 0..MaxChars
    BY ObserveChars DEF TypeOK
  <1>9. corpus' = corpus \/ corpus' = NoCache
    BY DEF Observe, CorpusAfter
  <1>10. \A sources \in DOMAIN corpus' : sources \subseteq Sources /\ corpus'[sources] \subseteq Forms
    BY <1>9 DEF NoCache, TypeOK
  <1>11. binding' = binding
    BY DEF Observe
  <1>12. shown' \subseteq DOMAIN operands'
    BY ObserveShown DEF LedgerInv, ShownKnown
  <1> HIDE DEF taken, texts, records, observed, recorded
  <1> QED
    BY <1>3, <1>5, <1>6, <1>7, <1>8, <1>10, <1>11, <1>12 DEF TypeOK, Origin

(* What a judgement caches is of its kind.                                 *)
LEMMA JudgeTypes ==
    ASSUME TypeOK, NEW p, NEW v, JudgeTyped(p, v)
    PROVE  TypeOK'
  <1>1. UNCHANGED <<declared, operands, observations, entities, chars, shown>>
    BY DEF JudgeTyped
  <1>2. step' \in 0..MaxSteps
    BY ProvenanceAssumption DEF JudgeTyped, TypeOK
  <1>3. binding' \in {"unset", "yes", "no"}
    BY DEF JudgeTyped, TypeOK
  <1>4. Principals \subseteq Sources
    BY DEF Principals, TypeOK
  <1>5. \A sources : QuotedBy(sources) \subseteq Forms
    BY DEF QuotedBy, TypeOK
  <1>6. \A sources : Corpus(sources) \subseteq Forms
    BY <1>5 DEF Corpus, TypeOK
  <1>7. \/ corpus' = corpus
        \/ corpus' = [sources \in DOMAIN corpus \cup {Principals} |-> Corpus(sources)]
    BY DEF JudgeTyped
  <1>8. \A sources \in DOMAIN corpus' : sources \subseteq Sources /\ corpus'[sources] \subseteq Forms
    BY <1>4, <1>6, <1>7 DEF TypeOK
  <1> QED
    BY <1>1, <1>2, <1>3, <1>8 DEF TypeOK, Origin

(* Whatever the sources return, the ledger's tables are of their kind and  *)
(* no session takes in more text than its bound (OperandLedger._observe).  *)
THEOREM TypesCorrect == Spec => []TypeOK
  <1>1. Init => TypeOK
    <2>1. ASSUME Init PROVE DOMAIN operands = {} /\ DOMAIN corpus = {}
      BY <2>1 DEF Init, NoCache
    <2> QED
      BY <2>1, ProvenanceAssumption DEF Init, TypeOK
  <1>2. ASSUME TypeOK, LedgerInv, [Next]_vars
        PROVE  TypeOK'
    <2>1. ASSUME UNCHANGED <<operands, observations, entities, chars, corpus, shown>>,
                 step' \in 0..MaxSteps, declared' \subseteq Sources,
                 binding' \in {"unset", "yes", "no"}
          PROVE  TypeOK'
      BY <1>2, <2>1 DEF TypeOK, Origin
    <2>2. ASSUME step < MaxSteps PROVE step + 1 \in 0..MaxSteps
      BY <1>2, <2>2, ProvenanceAssumption DEF TypeOK
    <2>3. ASSUME NEW s \in Sources, Declare(s)
          PROVE  TypeOK'
      BY <1>2, <2>1, <2>3 DEF Declare, TypeOK
    <2>4. ASSUME NEW s \in Sources, NEW items \in Contents[s], Observe(s, items)
          PROVE  TypeOK'
      BY <1>2, <2>4, ObserveTypes
    <2>5. ASSUME NEW p \in Parameters, NEW v \in Values, JudgeTyped(p, v)
          PROVE  TypeOK'
      BY <1>2, <2>5, JudgeTypes
    <2>6. ASSUME NEW p \in Parameters, NEW id \in shown, JudgeHandle(p, id)
          PROVE  TypeOK'
      BY <1>2, <2>1, <2>2, <2>6 DEF JudgeHandle, TypeOK
    <2>7. ASSUME NEW v \in Values \cup {None}, NEW ids \in Writings(v), JudgePayload(v, ids)
          PROVE  TypeOK'
      BY <1>2, <2>1, <2>2, <2>7 DEF JudgePayload, TypeOK
    <2>8. CASE UNCHANGED vars
      BY <1>2, <2>1, <2>8 DEF vars, TypeOK
    <2> QED
      BY <1>2, <2>3, <2>4, <2>5, <2>6, <2>7, <2>8 DEF Next
  <1> QED
    BY <1>1, <1>2, InvHolds, PTL DEF Spec
=============================================================================
