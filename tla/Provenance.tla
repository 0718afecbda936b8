----------------------------- MODULE Provenance -----------------------------
(***************************************************************************)
(* The operand ledger (ledger.py) and the attribution the monitor makes    *)
(* from it (monitor.py, labels.py): where does a value come from, and may  *)
(* that origin determine what a call does?                                 *)
(*                                                                         *)
(* Text is not spelled out.  A value is one spelling of something, with    *)
(* the kind the patterns give it, the key under which the ledger indexes   *)
(* it (kinds.normalise) and the form under which text is searched for it   *)
(* (case folding, spaces, numbers): two spellings may share the second and *)
(* not the first.  An observed text is the identifiers extracted from it   *)
(* and the forms it quotes as whole tokens.  Field paths and the patterns  *)
(* that cover them are sets of paths.                                      *)
(***************************************************************************)
EXTENDS Naturals, Sequences, FiniteSets, FiniteSetsExt

CONSTANTS
    Sources,    (* source ids                                              *)
    LabelOf,    (* what is declared of them: trust, sensitivity, grants    *)
    Values,     (* spellings                                               *)
    Kinds,      (* operand kinds                                           *)
    Keys,       (* normalised values                                       *)
    Forms,      (* case-folded values and phrases                          *)
    KindOf, KeyOf, FormOf,
    SplitsOf,   (* the ways to cut a value into prefix and remainder, in   *)
                (* order; none unless its kind composes and the policy     *)
                (* lets it                                                 *)
    Quotable,   (* values long enough to be a quotation                    *)
    Paths,      (* field paths                                             *)
    Contents,   (* what each source may return: sequences of items         *)
    Parameters, (* authority parameters calls may fill                     *)
    MaxChars,   (* max_indexed_chars                                       *)
    MaxSteps,   (* bound: observations and rulings                         *)
    None        (* no value                                                *)

Unclassified == "unclassified"  (* no pattern matches the value            *)
Referenced == "referenced"      (* authority over records the principal    *)
                                (* named                                   *)

GrantKind == Kinds \cup {Unclassified, Referenced}

LabelType ==
    [trust : {"untrusted", "vouched", "principal"}, confidential : BOOLEAN,
     grants : SUBSET (GrantKind \X Paths)]

(* One text of a structure, or one record of a directory: its length,      *)
(* whether it is a string value (a key or a number is never sealed), what  *)
(* it says (the identifiers in it), what it quotes, and, for a record, the *)
(* key it is known by and the phrases of its short fields.  A record of a  *)
(* list has no text of its own; its fields are items.                      *)
ItemType ==
    [path : Paths, size : Nat, string : BOOLEAN, says : SUBSET Values, quotes : SUBSET Forms,
     key : Values \cup {None}, phrases : SUBSET Forms]

ParameterType == [kinds : SUBSET GrantKind, collection : SUBSET Paths]

Identity(v) == <<KindOf[v], KeyOf[v]>>

Classified(v) == KindOf[v] # Unclassified

ASSUME ProvenanceAssumption ==
    /\ LabelOf \in [Sources -> LabelType]
    /\ KindOf \in [Values -> Kinds \cup {Unclassified}]
    /\ KeyOf \in [Values -> Keys]
    /\ FormOf \in [Values -> Forms]
    /\ SplitsOf \in [Values -> Seq(Values \X Values)]
    /\ Quotable \subseteq Values
    /\ Contents \in [Sources -> SUBSET Seq(ItemType)]
    /\ Parameters \subseteq ParameterType
    /\ MaxChars \in Nat
    /\ MaxSteps \in Nat
    /\ None \notin Values
    /\ {Unclassified, Referenced} \cap Kinds = {}
    /\ \A s \in Sources : \A items \in Contents[s] : \A n \in DOMAIN items :
            /\ items[n].says # {} \/ items[n].quotes # {} => items[n].size > 0
            /\ \A v, w \in items[n].says :
                    Classified(v) /\ (Identity(v) = Identity(w) => v = w)

VARIABLES
    step,           (* the session's _step                                 *)
    declared,       (* _sources                                            *)
    operands,       (* _by_key and _by_id: identity -> value and origins   *)
    observations,   (* _observations                                       *)
    entities,       (* _entities                                           *)
    chars,          (* _indexed_chars                                      *)
    corpus,         (* _corpus_cache: set of sources -> what they quote    *)
    binding,        (* _references_declared                                *)
    shown,          (* handles observe returned to the agent               *)
    judgement       (* the argument just judged                            *)

vars == <<step, declared, operands, observations, entities, chars, corpus, binding, shown, judgement>>

Origin == [source : Sources, step : Nat, path : Paths]

-----------------------------------------------------------------------------
(* Recording.                                                              *)

OriginOf(s, n, item) == [source |-> s, step |-> n, path |-> item.path]

(* The intake bound raises at the first text it has no room for; what was  *)
(* taken before it stays in the ledger.                                    *)
Lengths(items) ==           (* of the texts up to each item *)
    LET upto[n \in 0..Len(items)] == IF n = 0 THEN 0 ELSE upto[n - 1] + items[n].size
    IN  upto

TakenBeyond(items) ==       (* slip: the text at hand is not counted *)
    { n \in DOMAIN items : chars + Lengths(items)[n - 1] < MaxChars }

Taken(items) ==
    { n \in DOMAIN items : chars + Lengths(items)[n] <= MaxChars }

Says(item, id) == \E v \in item.says : Identity(v) = id

Identified(items, taken) == UNION { { Identity(v) : v \in items[n].says } : n \in taken }

(* The spelling under which the taken items first say an identity.         *)
FirstSpelling(items, taken, id) ==
    LET n == CHOOSE m \in taken : /\ Says(items[m], id)
                                  /\ \A k \in taken : Says(items[k], id) => m <= k
    IN  CHOOSE v \in items[n].says : Identity(v) = id

OriginsIn(s, items, taken, id) ==
    { OriginOf(s, step + 1, items[n]) : n \in { m \in taken : Says(items[m], id) } }

Known(id) == id \in DOMAIN operands

RecordedOnce(s, items, taken) ==    (* slip: a known operand is left alone *)
    [id \in DOMAIN operands \cup Identified(items, taken) |->
        IF Known(id) THEN operands[id]
        ELSE [value |-> FirstSpelling(items, taken, id),
              origins |-> OriginsIn(s, items, taken, id)]]

RecordedAnew(s, items, taken) ==    (* slip: the new spelling replaces the old *)
    [id \in DOMAIN operands \cup Identified(items, taken) |->
        IF id \notin Identified(items, taken) THEN operands[id]
        ELSE [value |-> FirstSpelling(items, taken, id),
              origins |-> (IF Known(id) THEN operands[id].origins ELSE {})
                            \cup OriginsIn(s, items, taken, id)]]

RecordedLatest(s, items, taken) ==  (* slip: the new origins replace the old *)
    [id \in DOMAIN operands \cup Identified(items, taken) |->
        IF id \notin Identified(items, taken) THEN operands[id]
        ELSE [value |-> IF Known(id) THEN operands[id].value
                                     ELSE FirstSpelling(items, taken, id),
              origins |-> OriginsIn(s, items, taken, id)]]

(* A new identity gets a handle and keeps the spelling it came with; a     *)
(* known one gets the new origins.                                         *)
Recorded(s, items, taken) ==
    [id \in DOMAIN operands \cup Identified(items, taken) |->
        [value |-> IF Known(id) THEN operands[id].value
                                ELSE FirstSpelling(items, taken, id),
         origins |-> (IF Known(id) THEN operands[id].origins ELSE {})
                        \cup OriginsIn(s, items, taken, id)]]

-----------------------------------------------------------------------------
(* Looking up.                                                             *)

Principals == { s \in declared : LabelOf[s].trust = "principal" }
Others == declared \ Principals

(* all_derivations: the observations of some sources that quote a value.   *)
Quoting(v, sources) ==
    { o.origin : o \in { ob \in observations :
        /\ v \in Quotable
        /\ ob.origin.source \in sources
        /\ FormOf[v] \in ob.quotes } }

QuotedBy(sources) ==
    UNION { ob.quotes : ob \in { o \in observations : o.origin.source \in sources } }

(* _corpus_of: what some sources quote, from the cache if it is there.     *)
Corpus(sources) == IF sources \in DOMAIN corpus THEN corpus[sources] ELSE QuotedBy(sources)

SomeSourceBinds ==
    \E s \in declared : \E p \in Paths : <<Referenced, p>> \in LabelOf[s].grants

(* _reference_binding_declared, likewise.                                  *)
ReferencesDeclared == IF binding = "unset" THEN SomeSourceBinds ELSE binding = "yes"

ReferencedAnywhere(v, collection) ==    (* slip: in whatever directory *)
    { e \in entities : e.key = v /\ e.phrases \cap Corpus(Principals) # {} }

(* The records of a collection that have this key and that the principal   *)
(* named some field of.                                                    *)
ReferencedEntities(v, collection) ==
    { e \in entities :
        /\ e.key = v
        /\ e.origin.path \in collection
        /\ e.phrases \cap Corpus(Principals) # {} }

-----------------------------------------------------------------------------
(* Attributions: the contributing origins (none: unattributed), and two    *)
(* marks, of a value composed of authorised parts and of an entity the     *)
(* principal named.                                                        *)

Attributed(origins) == [origins |-> origins, composed |-> FALSE, bound |-> FALSE]

SpeaksFor(origin, kind) ==
    /\ origin.source \in declared
    /\ \/ LabelOf[origin.source].trust = "principal"
       \/ <<kind, origin.path>> \in LabelOf[origin.source].grants

(* is_authorised_for: one origin that may supply the value is enough.      *)
IsAuthorisedFor(a, kind) ==
    \/ a.composed
    \/ \E o \in a.origins : SpeaksFor(o, kind) \/ (a.bound /\ SpeaksFor(o, Referenced))

(* principal_directed: one principal is enough for a plain value, a        *)
(* composed one needs a principal behind every part.                       *)
FromPrincipal(o) == LabelOf[o.source].trust = "principal"

DirectedByOne(a) ==     (* slip: one principal speaks for a composed value *)
    \E o \in a.origins : FromPrincipal(o)

PrincipalDirected(a) ==
    /\ a.origins # {}
    /\ IF a.composed THEN \A o \in a.origins : FromPrincipal(o)
                     ELSE \E o \in a.origins : FromPrincipal(o)

IsConfidential(a) == \E o \in a.origins : LabelOf[o.source].confidential

BindReference(v, a, collection) ==
    [a EXCEPT !.bound = ReferencesDeclared /\ ReferencedEntities(v, collection) # {}]

(* By reference alone: the value is the id of a record the principal named.*)
ByReference(v, collection) ==
    IF ReferencesDeclared
    THEN [origins |-> { e.origin : e \in ReferencedEntities(v, collection) },
          composed |-> FALSE, bound |-> TRUE]
    ELSE Attributed({})

(* By quotation, the principal's own words first.                          *)
ByDerivation(v, collection) ==
    IF Quoting(v, Principals) # {} THEN Attributed(Quoting(v, Principals))
    ELSE IF Quoting(v, Others) # {}
         THEN BindReference(v, Attributed(Quoting(v, Others)), collection)
         ELSE ByReference(v, collection)

(* A part of a composed value counts when its origins may supply it.       *)
AuthorisedComponent(v) == IsAuthorisedFor(ByDerivation(v, {}), KindOf[v])

GoodSplits(v) ==
    { n \in DOMAIN SplitsOf[v] : /\ AuthorisedComponent(SplitsOf[v][n][1])
                                 /\ AuthorisedComponent(SplitsOf[v][n][2]) }

(* The first cut whose two parts are each authorised.                      *)
ByComposition(v) ==
    LET n == CHOOSE m \in GoodSplits(v) : \A k \in GoodSplits(v) : m <= k
        left == ByDerivation(SplitsOf[v][n][1], {})
        right == ByDerivation(SplitsOf[v][n][2], {})
    IN  [origins |-> left.origins \cup right.origins, composed |-> TRUE, bound |-> FALSE]

OrComposed(v, a) ==
    IF ~IsAuthorisedFor(a, KindOf[v]) /\ GoodSplits(v) # {} THEN ByComposition(v) ELSE a

(* A value the model typed: the operand of its identity if there is one,   *)
(* the text otherwise, its parts at last.                                  *)
AsOperand(v) == Classified(v) /\ Known(Identity(v))

Plain(v, collection) ==
    IF AsOperand(v)
    THEN BindReference(v, Attributed(operands[Identity(v)].origins), collection)
    ELSE ByDerivation(v, collection)

OfTyped(v, collection) == OrComposed(v, Plain(v, collection))

(* A payload and the handles written in it: whoever its text quotes, source *)
(* by source, and whoever said what the handles stand for.                 *)
OfPayloadText(v, ids) ==    (* slip: only the text that results is looked at *)
    Attributed(Quoting(v, declared))

OfPayload(v, ids) ==
    Attributed(Quoting(v, declared) \cup UNION { operands[id].origins : id \in ids })

(* A value a handle stands for.                                            *)
OfHandle(id) == Attributed(operands[id].origins)

-----------------------------------------------------------------------------
(* Judging one authority argument that is, as a whole, a typed value or a  *)
(* handle.                                                                 *)

AuthorityCodes(a, kind) ==
    IF a.origins = {} THEN {"unattributed_authority"}
    ELSE IF ~IsAuthorisedFor(a, kind) THEN {"unauthorised_authority"}
    ELSE {}

(* A classified value is an operand of its kind and must be of a kind the  *)
(* parameter takes; with no kinds declared, or for an unclassified value   *)
(* where that is accepted, the whole value has to stand up.                *)
CodesFor(p, kind, a) ==
    LET expected == kind \in p.kinds \ {Unclassified}
        asWhole == p.kinds = {} \/ (Unclassified \in p.kinds /\ ~expected)
    IN  (IF p.kinds # {} /\ ~expected /\ (kind # Unclassified \/ ~asWhole)
            THEN {"kind_mismatch"} ELSE {})
        \cup (IF expected \/ asWhole THEN AuthorityCodes(a, kind) ELSE {})

(* Whether any attribution was made at all: an unclassified value where    *)
(* only operands of certain kinds are expected is refused unattributed.    *)
Attributes(p, kind) == kind # Unclassified \/ p.kinds = {} \/ Unclassified \in p.kinds

Judgement(p, v, how, a) ==
    [parameter |-> p, value |-> v, how |-> how,
     codes |-> CodesFor(p, KindOf[v], a),
     directed |-> Attributes(p, KindOf[v]) /\ PrincipalDirected(a),
     confidential |-> Attributes(p, KindOf[v]) /\ IsConfidential(a)]

NoJudgement == [how |-> "none"]

(* Which values were looked up as references on the way: those no operand  *)
(* or principal settled.  The parts of a cut are looked up until one cut   *)
(* is good, the remainder only after an authorised prefix.                 *)
AsksByDerivation(v) == Quoting(v, Principals) = {}

TriedParts(v) ==
    LET tried == { n \in DOMAIN SplitsOf[v] : GoodSplits(v) \cap 1..(n - 1) = {} }
    IN  { SplitsOf[v][n][1] : n \in tried }
        \cup { SplitsOf[v][n][2] : n \in { m \in tried : AuthorisedComponent(SplitsOf[v][m][1]) } }

AsksForReference(v, collection) ==
    \/ AsOperand(v)
    \/ AsksByDerivation(v)
    \/ /\ ~IsAuthorisedFor(Plain(v, collection), KindOf[v])
       /\ \E part \in TriedParts(v) : AsksByDerivation(part)

(* The corpus is built only for a record of the collection with this key.  *)
AsksForCorpus(v, collection) ==
    /\ AsOperand(v) \/ AsksByDerivation(v)
    /\ ReferencesDeclared
    /\ \E e \in entities : e.key = v /\ e.origin.path \in collection

-----------------------------------------------------------------------------
NoCache == [sources \in {} |-> {}]

(* Every text observed clears the cache.                                   *)
CorpusKept(texts) == corpus     (* slip: it is not cleared *)

CorpusAfter(texts) == IF texts = {} THEN corpus ELSE NoCache

Init ==
    /\ step = 0
    /\ declared = {}
    /\ operands = [id \in {} |-> [value |-> None, origins |-> {}]]
    /\ observations = {}
    /\ entities = {}
    /\ chars = 0
    /\ corpus = NoCache
    /\ binding = "unset"
    /\ shown = {}
    /\ judgement = NoJudgement

(* declare_source: a label is for good; declaring it again changes nothing *)
(* but the cached answer.                                                  *)
Declare(s) ==
    /\ declared' = declared \cup {s}
    /\ binding' = "unset"
    /\ judgement' = NoJudgement
    /\ UNCHANGED <<step, operands, observations, entities, chars, corpus, shown>>

(* observe: everything up to the text that exceeds the intake bound.  Only *)
(* a whole observation returns, and only an untrusted source's strings are *)
(* sealed.                                                                 *)
Observe(s, items) ==
    LET taken == Taken(items)
        texts == { n \in taken : items[n].size > 0 }
        records == { n \in taken : items[n].key # None /\ items[n].phrases # {} }
    IN  /\ step < MaxSteps
        /\ s \in declared
        /\ step' = step + 1
        /\ operands' = Recorded(s, items, taken)
        /\ observations' = observations \cup
                { [origin |-> OriginOf(s, step + 1, items[n]), says |-> items[n].says,
                   quotes |-> items[n].quotes] : n \in texts }
        /\ entities' = entities \cup
                { [key |-> items[n].key, phrases |-> items[n].phrases,
                   origin |-> OriginOf(s, step + 1, items[n])] : n \in records }
        /\ chars' = chars + Lengths(items)[Max({0} \cup taken)]
        /\ corpus' = CorpusAfter(texts)
        /\ shown' = IF LabelOf[s].trust = "untrusted" /\ taken = DOMAIN items
                    THEN shown \cup Identified(items, { n \in taken : items[n].string })
                    ELSE shown
        /\ judgement' = NoJudgement
        /\ UNCHANGED <<declared, binding>>

(* An argument the model typed.                                            *)
JudgeTyped(p, v) ==
    LET asks == Attributes(p, KindOf[v]) /\ AsksForReference(v, p.collection)
    IN  /\ step < MaxSteps
        /\ step' = step + 1
        /\ judgement' = Judgement(p, v, "typed", OfTyped(v, p.collection))
        /\ binding' = IF ~asks THEN binding ELSE IF ReferencesDeclared THEN "yes" ELSE "no"
        /\ corpus' = IF Attributes(p, KindOf[v]) /\ AsksForCorpus(v, p.collection)
                     THEN [sources \in DOMAIN corpus \cup {Principals} |-> Corpus(sources)]
                     ELSE corpus
        /\ UNCHANGED <<declared, operands, observations, entities, chars, shown>>

(* An argument that is a handle: what it stands for, with its origins.     *)
JudgeHandle(p, id) ==
    /\ step < MaxSteps
    /\ id \in shown
    /\ step' = step + 1
    /\ judgement' = Judgement(p, operands[id].value, "handle", OfHandle(id))
    /\ UNCHANGED <<declared, operands, observations, entities, chars, corpus, binding, shown>>

(* The handles a payload may be written with: that of the value it comes   *)
(* to, those of the parts of a cut, or, in a text of the model's own (no   *)
(* value: None), any.                                                      *)
Writings(v) ==
    { ids \in SUBSET shown :
        LET values == { operands[id].value : id \in ids }
        IN  \/ v = None
            \/ values \subseteq {v}
            \/ \E n \in DOMAIN SplitsOf[v] : values \subseteq {SplitsOf[v][n][1], SplitsOf[v][n][2]} }

(* A payload: no authority is asked, only what it may give away.           *)
JudgePayload(v, ids) ==
    /\ step < MaxSteps
    /\ step' = step + 1
    /\ judgement' = [how |-> "payload", value |-> v, handles |-> ids,
                     confidential |-> IsConfidential(OfPayload(v, ids))]
    /\ UNCHANGED <<declared, operands, observations, entities, chars, corpus, binding, shown>>

Next ==
    \/ \E s \in Sources : Declare(s) \/ \E items \in Contents[s] : Observe(s, items)
    \/ \E p \in Parameters :
            \/ \E v \in Values : JudgeTyped(p, v)
            \/ \E id \in shown : JudgeHandle(p, id)
    \/ \E v \in Values \cup {None} : \E ids \in Writings(v) : JudgePayload(v, ids)

Spec == Init /\ [][Next]_vars
=============================================================================
