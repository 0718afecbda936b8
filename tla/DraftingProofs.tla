--------------------------- MODULE DraftingProofs ---------------------------
(***************************************************************************)
(* Theorems about the deriver and the drafts a proxy keeps, for every      *)
(* listing of every server and every choice of an operator.                *)
(***************************************************************************)
EXTENDS DraftingProperties, Iteration, TLAPS

-----------------------------------------------------------------------------
(* The deriver.                                                            *)

(* No hint adds "read", so a tool that counts as read-only with its hints  *)
(* does so without them.                                                   *)
LEMMA HintsOnlyAddEffects ==
    ASSUME NEW E, NEW hints
    PROVE  /\ DeclaredEffects(E, {}) = E
           /\ E \subseteq DeclaredEffects(E, hints)
           /\ "read" \in DeclaredEffects(E, hints) => "read" \in E
           /\ IsReadOnly(DeclaredEffects(E, hints)) => IsReadOnly(E)
  <1>1. \A h \in DOMAIN WideningAnnotations : "read" \notin WideningAnnotations[h]
    BY DEF WideningAnnotations
  <1>2. "read" \in DeclaredEffects(E, hints) => "read" \in E
    BY <1>1 DEF DeclaredEffects
  <1>3. E \subseteq DeclaredEffects(E, hints)
    BY DEF DeclaredEffects
  <1>4. DeclaredEffects(E, {}) = E
    BY DEF DeclaredEffects
  <1>5. IsReadOnly(DeclaredEffects(E, hints)) => IsReadOnly(E)
    BY <1>2, <1>3 DEF IsReadOnly
  <1> QED
    BY <1>2, <1>3, <1>4, <1>5

(* A parameter that is checked in a tool taken to be read-only is checked  *)
(* when the tool is not: the filters are the only names that gain by it.   *)
LEMMA RoleIsMonotone ==
    ASSUME NEW n, NEW types, NEW stricter \in BOOLEAN, NEW laxer \in BOOLEAN,
           stricter => laxer,
           RoleFor(n, types, laxer) = "authority"
    PROVE  RoleFor(n, types, stricter) = "authority"
    BY DEF RoleFor

(* The one-way rule, for whatever is advertised and whatever effects are   *)
(* declared for it.                                                        *)
THEOREM OneWayRule ==
    ASSUME NEW ad, IsAdvertisement(ad), NEW E
    PROVE  NoWeaker(Derive(ad, E), Derive([ad EXCEPT !.hints = {}], E))
  <1> DEFINE un == [ad EXCEPT !.hints = {}]
             with == Derive(ad, E)
             without == Derive(un, E)
             laxer == IsReadOnly(E)
             stricter == IsReadOnly(DeclaredEffects(E, ad.hints))
  <1>1. un.hints = {} /\ un.types = ad.types
    BY DEF IsAdvertisement
  <1>2. without.effects = E /\ E \subseteq with.effects
    BY <1>1, HintsOnlyAddEffects DEF Derive
  <1>3. /\ DOMAIN with.params = DOMAIN ad.types
        /\ DOMAIN without.params = DOMAIN ad.types
    BY <1>1 DEF Derive
  <1>4. ASSUME NEW n \in DOMAIN ad.types
        PROVE  /\ with.params[n].role = RoleFor(n, ad.types[n], stricter)
               /\ without.params[n].role = RoleFor(n, ad.types[n], laxer)
    BY <1>1, HintsOnlyAddEffects DEF Derive, DraftParameter
  <1>5. stricter \in BOOLEAN /\ laxer \in BOOLEAN /\ (stricter => laxer)
    BY HintsOnlyAddEffects DEF IsReadOnly
  <1> HIDE DEF un, with, without, laxer, stricter
  <1>6. AuthorityParameters(without) \subseteq AuthorityParameters(with)
    BY <1>3, <1>4, <1>5, RoleIsMonotone DEF AuthorityParameters
  <1>7. NoWeaker(with, without)
    BY <1>2, <1>6 DEF NoWeaker
  <1> QED
    BY <1>7 DEF with, without, un
-----------------------------------------------------------------------------
(* The drafts of a running proxy.                                          *)

(* What a thread still has to draft was listed by the server.              *)
ThreadInv ==
    /\ DOMAIN handling = Handlers
    /\ \A h \in Handlers :
        /\ DOMAIN handling[h] = {"at", "todo", "text"}
        /\ handling[h].todo \in Seq(Advertised)

(* What is drafted is what was listed last, with no effects but those the  *)
(* server's hints add.                                                     *)
DraftInv ==
    /\ ThreadInv
    /\ \A t \in DOMAIN listed : listed[t] \in Advertised
    /\ drafts = [t \in DOMAIN listed |-> Derive(listed[t], {})]

USE DEF vars, processVars

LEMMA IdleThread ==
    DOMAIN Idle = {"at", "todo", "text"} /\ Idle.todo = <<>> /\ <<>> \in Seq(Advertised)
    BY DEF Idle

LEMMA DraftInit ==
    ASSUME Init
    PROVE  DraftInv
  <1>1. ThreadInv
    BY IdleThread DEF Init, ThreadInv
  <1>2. DOMAIN listed = {} /\ drafts = [t \in {} |-> UnknownTool]
    BY DEF Init, NoContracts
  <1>3. drafts = [t \in DOMAIN listed |-> Derive(listed[t], {})]
    BY <1>2
  <1> QED
    BY <1>1, <1>2, <1>3 DEF DraftInv

(* Entering one tool's draft beside its listing keeps the two in step.     *)
LEMMA DraftedTogether ==
    ASSUME NEW ad, DraftInv, drafts' = Drafted(ad), listed' = With(listed, ad.tool, ad)
    PROVE  drafts' = [t \in DOMAIN listed' |-> Derive(listed'[t], {})]
  <1>1. DOMAIN drafts = DOMAIN listed
    BY DEF DraftInv
  <1>2. DOMAIN listed' = DOMAIN listed \cup {ad.tool}
    BY DEF With
  <1>3. \A t \in DOMAIN listed' : listed'[t] = IF t = ad.tool THEN ad ELSE listed[t]
    BY DEF With
  <1>4. drafts' = [t \in DOMAIN listed \cup {ad.tool} |->
                        IF t = ad.tool THEN Derive(ad, {}) ELSE drafts[t]]
    BY <1>1 DEF Drafted, With
  <1>5. \A t \in DOMAIN listed' :
            (IF t = ad.tool THEN Derive(ad, {}) ELSE drafts[t]) = Derive(listed'[t], {})
    BY <1>2, <1>3 DEF DraftInv
  <1> QED
    BY <1>2, <1>4, <1>5

LEMMA DraftStep ==
    ASSUME DraftInv, [Next]_vars
    PROVE  DraftInv'
  <1>1. ASSUME NEW named \in BOOLEAN, NEW target \in {"none", "drafts", "contracts"},
               Start(named, target)
        PROVE  DraftInv'
    BY <1>1 DEF Start, DraftInv, ThreadInv
  <1>2. ASSUME NEW h \in Handlers, NEW page \in Pages, TakeListing(h, page)
        PROVE  DraftInv'
    <2>1. page \in Seq(Advertised)
      BY DraftingAssumption
    <2>2. ThreadInv'
      BY <1>2, <2>1 DEF TakeListing, DraftInv, ThreadInv, Idle
    <2> QED
      BY <1>2, <2>2 DEF TakeListing, DraftInv
  <1>3. ASSUME NEW h \in Handlers, DraftTool(h)
        PROVE  DraftInv'
    <2> DEFINE ad == Head(handling[h].todo)
    <2>1. handling[h].todo \in Seq(Advertised) /\ handling[h].todo # <<>>
      BY <1>3 DEF DraftTool, DraftInv, ThreadInv
    <2>2. ad \in Advertised /\ Tail(handling[h].todo) \in Seq(Advertised)
      BY <2>1
    <2>3. drafts' = Drafted(ad) /\ listed' = With(listed, ad.tool, ad)
      BY <1>3 DEF DraftTool
    <2>4. ThreadInv'
      BY <1>3, <2>2 DEF DraftTool, DraftInv, ThreadInv
    <2> HIDE DEF ad
    <2>5. drafts' = [t \in DOMAIN listed' |-> Derive(listed'[t], {})]
      BY <2>3, DraftedTogether
    <2>6. \A t \in DOMAIN listed' : listed'[t] \in Advertised
      BY <2>2, <2>3 DEF With, DraftInv
    <2> QED
      BY <2>4, <2>5, <2>6 DEF DraftInv
  <1>4. ASSUME NEW h \in Handlers, OpenFile(h)
        PROVE  DraftInv'
    <2>1. ThreadInv'
      BY <1>4, IdleThread DEF OpenFile, DraftInv, ThreadInv
    <2> QED
      BY <1>4, <2>1 DEF OpenFile, DraftInv
  <1>5. ASSUME NEW h \in Handlers, WriteFile(h)
        PROVE  DraftInv'
    <2>1. ThreadInv'
      BY <1>5, IdleThread DEF WriteFile, DraftInv, ThreadInv
    <2> QED
      BY <1>5, <2>1 DEF WriteFile, DraftInv
  <1>6. ASSUME NEW h \in Handlers, Fails(h)
        PROVE  DraftInv'
    <2>1. ThreadInv'
      BY <1>6 DEF Fails, DraftInv, ThreadInv, Idle
    <2> QED
      BY <1>6, <2>1 DEF Fails, DraftInv
  <1>7. CASE Stop
    <2>1. ThreadInv'
      BY <1>7, IdleThread DEF Stop, ThreadInv
    <2>2. DOMAIN listed' = {} /\ drafts' = [t \in {} |-> UnknownTool]
      BY <1>7 DEF Stop, NoContracts
    <2>3. drafts' = [t \in DOMAIN listed' |-> Derive(listed'[t], {})]
      BY <2>2
    <2> QED
      BY <2>1, <2>2, <2>3 DEF DraftInv
  <1>8. CASE Operate
    <2>1. UNCHANGED processVars
      BY <1>8 DEF Operate, Adopt, Complete, Reclassify, Exempt, SetDefaultRole, EditsContract, Edits
    <2> QED
      BY <2>1 DEF DraftInv, ThreadInv
  <1>9. CASE UNCHANGED vars
    BY <1>9 DEF DraftInv, ThreadInv
  <1> QED
    BY <1>1, <1>2, <1>3, <1>4, <1>5, <1>6, <1>7, <1>8, <1>9 DEF Next

(* Whatever a server lists, page by page, however often it changes its     *)
(* mind, each draft is at least as strict as the one without its hints.    *)
THEOREM HintsCorrect == Spec => []HintsOnlyRestrict
  <1>1. DraftInv => HintsOnlyRestrict
    <2> SUFFICES ASSUME DraftInv, NEW t \in DOMAIN listed, NEW E
                 PROVE  LET unhinted == [listed[t] EXCEPT !.hints = {}]
                        IN  /\ NoWeaker(drafts[t], Derive(unhinted, {}))
                            /\ NoWeaker(Derive(listed[t], E), Derive(unhinted, E))
      BY DEF HintsOnlyRestrict
    <2>1. IsAdvertisement(listed[t])
      BY DraftingAssumption DEF DraftInv
    <2>2. drafts[t] = Derive(listed[t], {})
      BY DEF DraftInv
    <2> QED
      BY <2>1, <2>2, OneWayRule
  <1> QED
    BY <1>1, DraftInit, DraftStep, PTL DEF Spec

-----------------------------------------------------------------------------
(* The emitted file, for the one inbound thread of the stdio proxy.        *)

SheetInv ==
    /\ DOMAIN files = {"drafts", "contracts"}
    /\ ~up => DOMAIN listed = {}
    /\ \A h \in Handlers :
        /\ ~up => handling[h].at = "idle"
        /\ handling[h].at \in {"drafting", "writing"} => emits # "none"
        /\ handling[h].at = "writing" => handling[h].text = drafts
        /\ handling[h].at = "idle" /\ emits = "drafts" /\ DOMAIN listed # {}
            => files.drafts = Holding(drafts)

LEMMA SheetInit ==
    ASSUME Init
    PROVE  SheetInv
    BY DEF Init, SheetInv, Idle

LEMMA SheetStep ==
    ASSUME NEW pump, Handlers = {pump}, DraftInv, SheetInv, [Next]_vars
    PROVE  SheetInv'
  <1> USE DEF SheetInv
  <1>1. ASSUME NEW named \in BOOLEAN, NEW target \in {"none", "drafts", "contracts"},
               Start(named, target)
        PROVE  SheetInv'
    BY <1>1 DEF Start
  <1>2. ASSUME NEW h \in Handlers, NEW page \in Pages, TakeListing(h, page)
        PROVE  SheetInv'
    BY <1>2 DEF TakeListing, DraftInv, ThreadInv, Idle
  <1>3. ASSUME NEW h \in Handlers, DraftTool(h)
        PROVE  SheetInv'
    <2>1. handling'[h].at = "drafting"
      BY <1>3 DEF DraftTool, DraftInv, ThreadInv
    <2> QED
      BY <1>3, <2>1 DEF DraftTool
  <1>4. ASSUME NEW h \in Handlers, OpenFile(h)
        PROVE  SheetInv'
    <2>1. DOMAIN drafts = DOMAIN listed
      BY DEF DraftInv
    <2>2. CASE DOMAIN drafts = {}
      BY <1>4, <2>1, <2>2 DEF OpenFile, DraftInv, ThreadInv, Idle
    <2>3. CASE DOMAIN drafts # {}
      BY <1>4, <2>3 DEF OpenFile, DraftInv, ThreadInv
    <2> QED
      BY <2>2, <2>3
  <1>5. ASSUME NEW h \in Handlers, WriteFile(h)
        PROVE  SheetInv'
    BY <1>5 DEF WriteFile, DraftInv, ThreadInv, Idle
  <1>6. ASSUME NEW h \in Handlers, Fails(h)
        PROVE  SheetInv'
    BY <1>6 DEF Fails, DraftInv, ThreadInv, Idle
  <1>7. CASE Stop
    BY <1>7 DEF Stop, NoContracts, Idle
  <1>8. CASE Operate
    <2>1. /\ UNCHANGED processVars
          /\ DOMAIN files' = DOMAIN files
          /\ files'.drafts = files.drafts
      BY <1>8 DEF Operate, Adopt, Complete, Reclassify, Exempt, SetDefaultRole, EditsContract, Edits
    <2> QED
      BY <2>1
  <1>9. CASE UNCHANGED vars
    BY <1>9
  <1> QED
    BY <1>1, <1>2, <1>3, <1>4, <1>5, <1>6, <1>7, <1>8, <1>9 DEF Next

(* With one thread that handles answers, the sheet an operator opens holds *)
(* each tool as the server last listed it, however many pages that took.   *)
THEOREM SheetCorrect ==
    ASSUME NEW pump, Handlers = {pump}
    PROVE  Spec => []SheetIsWhatWasListed
  <1>1. DraftInv /\ SheetInv => SheetIsWhatWasListed
    BY DEF DraftInv, SheetInv, SheetIsWhatWasListed, Holding
  <1>2. DraftInv /\ SheetInv /\ [Next]_vars => SheetInv'
    BY SheetStep
  <1> QED
    BY <1>1, <1>2, DraftInit, SheetInit, DraftStep, PTL DEF Spec

-----------------------------------------------------------------------------
(* Contracts in force.                                                     *)

(* What the start says nothing against, at the level of an error.          *)
LEMMA CleanContract ==
    ASSUME NEW contracts, NEW t \in DOMAIN contracts,
           \A d \in Report(contracts) : d.severity = "error" => d.subject # t
    PROVE  /\ contracts[t].default = "authority"
           /\ \A n \in DOMAIN contracts[t].params :
                ReadsAsAuthority(n) => contracts[t].params[n].role = "authority"
           /\ CanEgress(contracts[t]) => AuthorityParameters(contracts[t]) # {}
  <1> DEFINE c == contracts[t]
  <1>1. ASSUME NEW code, NEW parameter,
               Diagnostic("error", code, t, parameter) \in LintContract(t, c)
        PROVE  FALSE
    BY <1>1 DEF Report, LintRegistry, Diagnostic
  <1>2. c.default = "authority"
    BY <1>1 DEF LintContract, When
  <1>3. CanEgress(c) => AuthorityParameters(c) # {}
    BY <1>1 DEF LintContract, When
  <1>4. ASSUME NEW n \in DOMAIN c.params, ReadsAsAuthority(n), c.params[n].role # "authority"
        PROVE  FALSE
    <2>1. Diagnostic("error", "authority-name-downgraded", t, {n})
            \in LintParameter(t, n, c.params[n])
      BY <1>4 DEF LintParameter, When
    <2>2. LintParameter(t, n, c.params[n]) \subseteq LintContract(t, c)
      BY DEF LintContract
    <2> QED
      BY <1>1, <2>1, <2>2
  <1> QED
    BY <1>2, <1>3, <1>4

(* A call that says something where the contract checks, and nothing is    *)
(* known of what it says.  No undeclared parameter has payload paths.      *)
LEMMA UncheckedIsRefused ==
    ASSUME NEW t \in DOMAIN registry, NEW arguments, NEW n \in DOMAIN arguments,
           Parameter(registry[t], n).role = "authority",
           Says(registry[t], n, arguments[n])
    PROVE  Refused(t, arguments)
  <1>1. PICK leaf \in arguments[n] : ~Exempted(registry[t], n, leaf)
    BY DEF Says
  <1>2. leaf \in CheckedLeaves(registry[t], n, arguments[n])
    <2>1. CASE n \in DOMAIN registry[t].params
      BY <1>1, <2>1 DEF CheckedLeaves, IsPayloadLeaf, Exempted, Parameter
    <2>2. CASE n \notin DOMAIN registry[t].params
      BY <1>1, <2>2 DEF CheckedLeaves, IsPayloadLeaf, Parameter
    <2> QED
      BY <2>1, <2>2
  <1>3. "unattributed_authority" \in FindingsOnNobodys(registry, t, arguments)
    BY <1>2 DEF FindingsOnNobodys
  <1>4. DispositionFor(STRICT, "unattributed_authority") = "deny"
    BY DEF DispositionFor, STRICT, Tunable, FindingCode, LeafCode
  <1> QED
    BY <1>3, <1>4 DEF Refused, VerdictOf

LEMMA DestinationsReadAsAuthority ==
    ASSUME NEW n, NamesADestination(n)
    PROVE  ReadsAsAuthority(n)
  <1>1. PICK w \in {"to", "recipient", "url", "host", "path", "account"} : <<w>> \in n.pieces
    BY DEF NamesADestination, HasWord
  <1>2. <<w>> \in AuthorityTokens
    BY DEF AuthorityTokens, Single
  <1> QED
    BY <1>1, <1>2 DEF NamesADestination, ReadsAsAuthority, Mentions

(* What was reported stays what the linter says of what was loaded.        *)
ReportInv == up => reported = Report(registry)

LEMMA ReportStep ==
    ASSUME ReportInv, [Next]_vars
    PROVE  ReportInv'
  <1>1. ASSUME NEW named \in BOOLEAN, NEW target \in {"none", "drafts", "contracts"},
               Start(named, target)
        PROVE  ReportInv'
    BY <1>1 DEF Start, ReportInv
  <1>2. ASSUME NEW h \in Handlers, NEW page \in Pages, TakeListing(h, page)
        PROVE  ReportInv'
    BY <1>2 DEF TakeListing, ReportInv
  <1>3. ASSUME NEW h \in Handlers,
               DraftTool(h) \/ OpenFile(h) \/ WriteFile(h) \/ Fails(h)
        PROVE  ReportInv'
    BY <1>3 DEF DraftTool, OpenFile, WriteFile, Fails, ReportInv
  <1>4. CASE Stop
    BY <1>4 DEF Stop, ReportInv
  <1>5. CASE Operate
    <2>1. UNCHANGED processVars
      BY <1>5 DEF Operate, Adopt, Complete, Reclassify, Exempt, SetDefaultRole, EditsContract, Edits
    <2> QED
      BY <2>1 DEF ReportInv
  <1>6. CASE UNCHANGED vars
    BY <1>6 DEF ReportInv
  <1> QED
    BY <1>1, <1>2, <1>3, <1>4, <1>5, <1>6 DEF Next

(* A contract the start reported no error on confines its tool, whatever   *)
(* an operator wrote into it and whatever the server lists since.          *)
THEOREM ConfinementCorrect == Spec => []CleanServiceIsConfined
  <1>1. Init => ReportInv
    BY DEF Init, ReportInv
  <1>2. ReportInv => CleanServiceIsConfined
    <2> SUFFICES ASSUME ReportInv, up, NEW t \in DOMAIN registry, CleanlyInForce(t)
                 PROVE  /\ \A s \in DOMAIN listed : \A n \in DOMAIN listed[s].types, v \in Values :
                                /\ n \notin DOMAIN registry[t].params \/ NamesADestination(n)
                                /\ Says(registry[t], n, v)
                                => Refused(t, [x \in {n} |-> v])
                        /\ CanEgress(registry[t]) =>
                                \A a \in [DOMAIN registry[t].params -> Values] :
                                    (\A n \in DOMAIN a : Says(registry[t], n, a[n]))
                                        => Refused(t, a)
      BY DEF CleanServiceIsConfined
    <2>1. /\ registry[t].default = "authority"
          /\ \A n \in DOMAIN registry[t].params :
                ReadsAsAuthority(n) => registry[t].params[n].role = "authority"
          /\ CanEgress(registry[t]) => AuthorityParameters(registry[t]) # {}
      BY CleanContract DEF ReportInv, CleanlyInForce
    <2>2. ASSUME NEW n, n \notin DOMAIN registry[t].params \/ NamesADestination(n),
                 NEW v, Says(registry[t], n, v)
          PROVE  Refused(t, [x \in {n} |-> v])
      <3> DEFINE a == [x \in {n} |-> v]
      <3>1. Parameter(registry[t], n).role = "authority"
        BY <2>1, <2>2, DestinationsReadAsAuthority DEF Parameter
      <3>2. n \in DOMAIN a /\ a[n] = v
        OBVIOUS
      <3> HIDE DEF a
      <3>3. Refused(t, a)
        BY <2>2, <3>1, <3>2, UncheckedIsRefused
      <3> QED
        BY <3>3 DEF a
    <2>3. ASSUME CanEgress(registry[t]),
                 NEW a \in [DOMAIN registry[t].params -> Values],
                 \A n \in DOMAIN a : Says(registry[t], n, a[n])
          PROVE  Refused(t, a)
      <3>1. PICK n \in DOMAIN registry[t].params : registry[t].params[n].role = "authority"
        BY <2>1, <2>3 DEF AuthorityParameters
      <3>2. n \in DOMAIN a /\ Parameter(registry[t], n).role = "authority"
        BY <3>1 DEF Parameter
      <3> QED
        BY <2>3, <3>2, UncheckedIsRefused
    <2> QED
      BY <2>2, <2>3
  <1> QED
    BY <1>1, <1>2, ReportStep, PTL DEF Spec

-----------------------------------------------------------------------------
(* Types.                                                                  *)

LEMMA KindsAreNames ==
    ASSUME NEW n
    PROVE  KindsFor(n) \subseteq HintedKinds
  <1> DEFINE rows == { r \in DOMAIN KindHints :
                        \E i \in DOMAIN n.parts : n.parts[i] \in KindHints[r].words }
             first == CHOOSE r \in rows : \A q \in rows : r <= q
  <1>1. DOMAIN KindHints \subseteq Nat
    BY DEF KindHints
  <1>2. \A r \in DOMAIN KindHints : KindHints[r].kinds \subseteq HintedKinds
    BY DEF HintedKinds
  <1>3. rows \subseteq Nat
    BY <1>1
  <1>4. CASE rows = {}
    BY <1>4 DEF KindsFor
  <1>5. CASE rows # {}
    <2> HIDE DEF rows
    <2>1. \E r \in rows : \A q \in rows : r <= q
      BY <1>3, <1>5, LeastElement
    <2>2. first \in rows
      BY <2>1
    <2> HIDE DEF first
    <2>3. first \in DOMAIN KindHints
      BY <2>2 DEF rows
    <2>4. KindsFor(n) = KindHints[first].kinds
      BY <1>5 DEF KindsFor, rows, first
    <2> QED
      BY <1>2, <2>3, <2>4
  <1> QED
    BY <1>4, <1>5

LEMMA PairIsSequence ==
    ASSUME NEW S, NEW x \in S, NEW y \in S
    PROVE  <<x, y>> \in Seq(S) /\ <<>> \in Seq(S)
    OBVIOUS

LEMMA CollectionsArePatterns ==
    ASSUME NEW n \in NameType
    PROVE  CollectionFor(n) \in Seq(Segment)
  <1>1. n.tokens \in Seq(STRING)
    BY DEF NameType
  <1> DEFINE k == Len(n.tokens)
  <1>2. CASE k >= 2
    <2>1. k - 1 \in 1..k /\ k \in Nat
      BY <1>1, <1>2
    <2>2. n.tokens[k - 1] \in Segment /\ "**" \in Segment
      <3>1. ASSUME NEW S, NEW words \in Seq(S), NEW i \in 1..Len(words) PROVE words[i] \in S
        OBVIOUS
      <3>2. n.tokens[k - 1] \in STRING
        BY <1>1, <2>1, <3>1
      <3> QED
        BY <3>2 DEF Segment
    <2>3. <<"**", n.tokens[k - 1]>> \in Seq(Segment) /\ <<>> \in Seq(Segment)
      BY <2>2, PairIsSequence
    <2> QED
      BY <2>3 DEF CollectionFor
  <1>3. CASE ~(k >= 2)
    <2>1. <<>> \in Seq(Segment)
      BY PairIsSequence DEF Segment
    <2> QED
      BY <1>3, <2>1 DEF CollectionFor
  <1> QED
    BY <1>2, <1>3

(* A draft is a contract, whatever is advertised.                          *)
LEMMA DraftsAreContracts ==
    ASSUME NEW ad, IsAdvertisement(ad), NEW E, E \subseteq Effect
    PROVE  IsContract(Derive(ad, E))
  <1> DEFINE declared == DeclaredEffects(E, ad.hints)
             readOnly == IsReadOnly(declared)
             draft(n) == DraftParameter(n, ad.types[n], readOnly)
             c == Derive(ad, E)
  <1>1. declared \subseteq Effect
    <2>1. \A h \in DOMAIN WideningAnnotations : WideningAnnotations[h] \subseteq Effect
      BY DEF WideningAnnotations, Effect
    <2> QED
      BY <2>1 DEF DeclaredEffects
  <1>2. ASSUME NEW n \in DOMAIN ad.types
        PROVE  IsParameter(draft(n))
    <2> DEFINE role == RoleFor(n, ad.types[n], readOnly)
    <2>1. n \in NameType
      BY DEF IsAdvertisement
    <2>2. role \in Role
      BY DEF RoleFor, Role
    <2>3. /\ KindsFor(n) \subseteq HintedKinds
          /\ CollectionFor(n) \in Seq(Segment) /\ <<>> \in Seq(Segment)
      BY <2>1, KindsAreNames, CollectionsArePatterns, PairIsSequence DEF Segment
    <2>4. draft(n) = [role |-> role,
                      kinds |-> IF role = "authority" THEN KindsFor(n) ELSE {},
                      collection |-> IF role = "authority" THEN CollectionFor(n) ELSE <<>>,
                      payload_paths |-> {}]
      BY DEF DraftParameter
    <2> HIDE DEF role, draft
    <2>5. /\ DOMAIN draft(n) = {"role", "kinds", "collection", "payload_paths"}
          /\ draft(n).payload_paths = {}
          /\ draft(n).role = role
          /\ draft(n).kinds \subseteq HintedKinds
          /\ draft(n).collection \in Seq(Segment)
      BY <2>3, <2>4
    <2> QED
      BY <2>2, <2>5 DEF IsParameter
  <1>3. c = [effects |-> declared, default |-> "authority",
             params |-> [n \in DOMAIN ad.types |-> draft(n)]]
    BY DEF Derive
  <1> HIDE DEF declared, readOnly, draft, c
  <1>4. /\ DOMAIN c = {"effects", "default", "params"}
        /\ c.effects = declared
        /\ c.default = "authority"
        /\ DOMAIN c.params = DOMAIN ad.types
        /\ \A n \in DOMAIN ad.types : c.params[n] = draft(n)
    BY <1>3
  <1>5. IsContract(c)
    BY <1>1, <1>2, <1>4 DEF IsContract, Role, IsAdvertisement
  <1> QED
    BY <1>5 DEF c

AllContracts(contracts) == \A t \in DOMAIN contracts : IsContract(contracts[t])

(* The types, and that a text half written is of contracts as well.        *)
KindInv ==
    /\ TypeOK
    /\ DOMAIN files = {"drafts", "contracts"}
    /\ \A h \in Handlers : AllContracts(handling[h].text)

LEMMA NoneAreContracts ==
    /\ AllContracts(NoContracts) /\ DOMAIN NoContracts = {}
    /\ IsFile(Torn) /\ IsFile(Absent)
    /\ DOMAIN Torn.contracts = {} /\ DOMAIN Absent.contracts = {}
    /\ Idle.text = NoContracts /\ Idle.at = "idle"
    BY DEF AllContracts, NoContracts, IsFile, Torn, Absent, Idle

LEMMA WholeFile ==
    ASSUME NEW contracts, AllContracts(contracts)
    PROVE  IsFile(Holding(contracts)) /\ Holding(contracts).contracts = contracts
    BY DEF AllContracts, IsFile, Holding

(* The drafts of what was listed are contracts.                            *)
LEMMA DraftsTyped ==
    ASSUME NEW told, \A t \in DOMAIN told : told[t] \in Advertised,
           NEW sheet, sheet = [t \in DOMAIN told |-> Derive(told[t], {})]
    PROVE  AllContracts(sheet) /\ DOMAIN sheet = DOMAIN told
  <1>1. \A t \in DOMAIN told : IsContract(Derive(told[t], {}))
    BY DraftingAssumption, DraftsAreContracts
  <1> QED
    BY <1>1 DEF AllContracts

(* An operator's change to a contract leaves a contract.                   *)
LEMMA ChangedContracts ==
    ASSUME NEW c, IsContract(c)
    PROVE  /\ \A E \in SUBSET Effect : IsContract([c EXCEPT !.effects = E])
           /\ \A role \in Role : IsContract([c EXCEPT !.default = role])
           /\ \A n \in DOMAIN c.params, role \in Role :
                IsContract([c EXCEPT !.params[n].role = role])
           /\ \A n \in DOMAIN c.params, pattern \in Seq(Segment) :
                IsContract([c EXCEPT !.params[n].payload_paths = @ \cup {pattern}])
  <1>1. ASSUME NEW E \in SUBSET Effect PROVE IsContract([c EXCEPT !.effects = E])
    BY DEF IsContract
  <1>2. ASSUME NEW role \in Role PROVE IsContract([c EXCEPT !.default = role])
    BY DEF IsContract
  <1>3. ASSUME NEW n \in DOMAIN c.params, NEW role \in Role
        PROVE  IsContract([c EXCEPT !.params[n].role = role])
    <2> DEFINE p == [c.params[n] EXCEPT !.role = role]
               d == [c EXCEPT !.params[n].role = role]
    <2>1. IsParameter(p)
      BY DEF IsContract, IsParameter
    <2>2. /\ DOMAIN d = DOMAIN c /\ d.effects = c.effects /\ d.default = c.default
          /\ DOMAIN d.params = DOMAIN c.params
          /\ \A m \in DOMAIN c.params : d.params[m] = IF m = n THEN p ELSE c.params[m]
      BY DEF IsContract
    <2> HIDE DEF p, d
    <2>3. IsContract(d)
      BY <2>1, <2>2 DEF IsContract
    <2> QED
      BY <2>3 DEF d
  <1>4. ASSUME NEW n \in DOMAIN c.params, NEW pattern \in Seq(Segment)
        PROVE  IsContract([c EXCEPT !.params[n].payload_paths = @ \cup {pattern}])
    <2> DEFINE p == [c.params[n] EXCEPT !.payload_paths = @ \cup {pattern}]
               d == [c EXCEPT !.params[n].payload_paths = @ \cup {pattern}]
    <2>1. IsParameter(p)
      BY DEF IsContract, IsParameter
    <2>2. /\ DOMAIN d = DOMAIN c /\ d.effects = c.effects /\ d.default = c.default
          /\ DOMAIN d.params = DOMAIN c.params
          /\ \A m \in DOMAIN c.params : d.params[m] = IF m = n THEN p ELSE c.params[m]
      BY DEF IsContract
    <2> HIDE DEF p, d
    <2>3. IsContract(d)
      BY <2>1, <2>2 DEF IsContract
    <2> QED
      BY <2>3 DEF d
  <1> QED
    BY <1>1, <1>2, <1>3, <1>4

LEMMA KindInit ==
    ASSUME Init
    PROVE  KindInv
  <1>1. /\ files.drafts = Absent /\ files.contracts = Absent
        /\ DOMAIN files = {"drafts", "contracts"}
        /\ \A h \in Handlers : handling[h] = Idle
    BY DEF Init
  <1>2. DOMAIN drafts = {} /\ DOMAIN listed = {} /\ DOMAIN registry = {}
    BY DEF Init, NoContracts
  <1> QED
    BY <1>1, <1>2, NoneAreContracts DEF Init, KindInv, TypeOK, AllContracts

(* Whatever the operator does to the contract file, it holds contracts.    *)
LEMMA OperateKinds ==
    ASSUME KindInv, Operate
    PROVE  KindInv'
  <1>1. UNCHANGED processVars
    BY DEF Operate, Adopt, Complete, Reclassify, Exempt, SetDefaultRole, EditsContract, Edits
  <1>2. ASSUME NEW contracts, AllContracts(contracts), Edits(contracts),
               raw' \subseteq DOMAIN contracts
        PROVE  KindInv'
    <2>1. /\ DOMAIN files' = DOMAIN files
          /\ files'.drafts = files.drafts
          /\ files'.contracts = Holding(contracts)
      BY <1>2 DEF Edits, KindInv
    <2>2. IsFile(files'.contracts) /\ files'.contracts.contracts = contracts
      BY <1>2, <2>1, WholeFile
    <2> QED
      BY <1>1, <1>2, <2>1, <2>2 DEF KindInv, TypeOK, AllContracts, IsFile
  <1>3. ASSUME NEW t \in DOMAIN files.contracts.contracts, NEW c, IsContract(c),
               EditsContract(t, c)
        PROVE  KindInv'
    <2> DEFINE contracts == With(files.contracts.contracts, t, c)
    <2>1. AllContracts(contracts)
      BY <1>3 DEF With, AllContracts, KindInv, TypeOK, IsFile
    <2>2. DOMAIN contracts = DOMAIN files.contracts.contracts
      BY <1>3 DEF With
    <2>3. Edits(contracts) /\ raw' \subseteq DOMAIN contracts
      BY <1>3, <2>2 DEF EditsContract, KindInv, TypeOK
    <2> HIDE DEF contracts
    <2> QED
      BY <1>2, <2>1, <2>3
  <1>4. CASE Adopt
    <2>1. AllContracts(files.drafts.contracts)
      BY DEF KindInv, TypeOK, IsFile, AllContracts
    <2>2. Edits(files.drafts.contracts) /\ raw' \subseteq DOMAIN files.drafts.contracts
      BY <1>4 DEF Adopt
    <2> QED
      BY <1>2, <2>1, <2>2
  <1>5. ASSUME NEW t \in DOMAIN files.contracts.contracts,
               \/ \E E \in EffectChoices : Complete(t, E)
               \/ \E n \in DOMAIN Current(t).params, role \in Role : Reclassify(t, n, role)
               \/ \E n \in DOMAIN Current(t).params, pattern \in Exemptions : Exempt(t, n, pattern)
               \/ \E role \in Role : SetDefaultRole(t, role)
        PROVE  KindInv'
    <2>1. IsContract(Current(t))
      BY DEF KindInv, TypeOK, IsFile, Current
    <2>2. \E c : IsContract(c) /\ EditsContract(t, c)
      BY <1>5, <2>1, ChangedContracts, DraftingAssumption DEF Complete, Reclassify, Exempt, SetDefaultRole
    <2> QED
      BY <1>3, <2>2
  <1> QED
    BY <1>4, <1>5 DEF Operate

LEMMA KindStep ==
    ASSUME DraftInv, KindInv, [Next]_vars
    PROVE  KindInv'
  <1>1. AllContracts(drafts) /\ AllContracts(drafts') /\ DOMAIN drafts' = DOMAIN listed'
    <2>1. DraftInv'
      BY DraftStep
    <2>2. /\ \A t \in DOMAIN listed : listed[t] \in Advertised
          /\ drafts = [t \in DOMAIN listed |-> Derive(listed[t], {})]
      BY DEF DraftInv
    <2>3. /\ \A t \in DOMAIN listed' : listed'[t] \in Advertised
          /\ drafts' = [t \in DOMAIN listed' |-> Derive(listed'[t], {})]
      BY <2>1 DEF DraftInv
    <2> QED
      BY <2>2, <2>3, DraftsTyped
  <1>2. DOMAIN handling = Handlers
    BY DEF DraftInv, ThreadInv
  <1>3. ASSUME NEW named \in BOOLEAN, NEW target \in {"none", "drafts", "contracts"},
               Start(named, target)
        PROVE  KindInv'
    <2>1. \/ registry' = files.contracts.contracts /\ inForceRaw' = raw
          \/ registry' = NoContracts /\ inForceRaw' = {}
      <3>1. CASE named
        BY <1>3, <3>1 DEF Start
      <3>2. CASE ~named
        BY <1>3, <3>2 DEF Start
      <3> QED
        BY <3>1, <3>2
    <2>2. AllContracts(registry') /\ inForceRaw' \subseteq DOMAIN registry'
      BY <2>1, NoneAreContracts DEF KindInv, TypeOK, IsFile, AllContracts
    <2> QED
      BY <1>3, <2>2 DEF Start, KindInv, TypeOK, AllContracts, IsFile
  <1>4. ASSUME NEW h \in Handlers, NEW page \in Pages, TakeListing(h, page)
        PROVE  KindInv'
    <2>1. \A g \in Handlers : /\ handling'[g].text = handling[g].text \/ handling'[g].text = NoContracts
                              /\ handling'[g].at = handling[g].at \/ handling'[g].at = "drafting"
      BY <1>2, <1>4 DEF TakeListing, Idle
    <2> QED
      BY <1>4, <2>1, NoneAreContracts DEF TakeListing, KindInv, TypeOK, AllContracts, IsFile
  <1>5. ASSUME NEW h \in Handlers, DraftTool(h)
        PROVE  KindInv'
    <2>1. \A g \in Handlers : handling'[g].text = handling[g].text /\ handling'[g].at = handling[g].at
      BY <1>2, <1>5 DEF DraftTool, DraftInv, ThreadInv
    <2> QED
      BY <1>1, <1>5, <2>1 DEF DraftTool, KindInv, TypeOK, AllContracts, IsFile
  <1>6. ASSUME NEW h \in Handlers, OpenFile(h)
        PROVE  KindInv'
    <2>1. \A g \in Handlers :
            /\ handling'[g].text \in {handling[g].text, drafts, NoContracts}
            /\ handling'[g].at \in {handling[g].at, "writing", "idle"}
      BY <1>2, <1>6, NoneAreContracts DEF OpenFile, DraftInv, ThreadInv
    <2>2. \A g \in Handlers : AllContracts(handling'[g].text)
      BY <1>1, <2>1, NoneAreContracts DEF KindInv
    <2>3. \/ UNCHANGED <<files, raw>>
          \/ /\ DOMAIN files' = DOMAIN files
             /\ files'.drafts \in {files.drafts, Torn}
             /\ files'.contracts \in {files.contracts, Torn}
             /\ raw' = {} \/ (raw' = raw /\ files'.contracts = files.contracts)
      BY <1>6 DEF OpenFile, KindInv, TypeOK
    <2>4. /\ DOMAIN files' = {"drafts", "contracts"}
          /\ IsFile(files'.drafts) /\ IsFile(files'.contracts)
          /\ raw' \subseteq DOMAIN files'.contracts.contracts
      BY <2>3, NoneAreContracts DEF KindInv, TypeOK
    <2> QED
      BY <1>6, <2>1, <2>2, <2>4 DEF OpenFile, KindInv, TypeOK, IsFile, AllContracts
  <1>7. ASSUME NEW h \in Handlers, WriteFile(h)
        PROVE  KindInv'
    <2> DEFINE text == handling[h].text
    <2>1. \A g \in Handlers :
            /\ handling'[g].text \in {handling[g].text, NoContracts}
            /\ handling'[g].at \in {handling[g].at, "idle"}
      BY <1>2, <1>7, NoneAreContracts DEF WriteFile
    <2>2. \A g \in Handlers : AllContracts(handling'[g].text)
      BY <2>1, NoneAreContracts DEF KindInv
    <2>3. IsFile(Holding(text)) /\ Holding(text).contracts = text
      BY WholeFile DEF KindInv
    <2>4. /\ DOMAIN files' = DOMAIN files
          /\ files'.drafts \in {files.drafts, Holding(text)}
          /\ \/ files'.contracts = files.contracts /\ raw' = raw
             \/ files'.contracts = Holding(text) /\ raw' = DOMAIN text
      BY <1>7 DEF WriteFile, KindInv, TypeOK
    <2>5. /\ DOMAIN files' = {"drafts", "contracts"}
          /\ IsFile(files'.drafts) /\ IsFile(files'.contracts)
          /\ raw' \subseteq DOMAIN files'.contracts.contracts
      BY <2>3, <2>4 DEF KindInv, TypeOK
    <2> QED
      BY <1>7, <2>1, <2>2, <2>5 DEF WriteFile, KindInv, TypeOK, IsFile, AllContracts
  <1>8. ASSUME NEW h \in Handlers, Fails(h)
        PROVE  KindInv'
    <2>1. \A g \in Handlers : /\ handling'[g].text = handling[g].text \/ handling'[g].text = NoContracts
                              /\ handling'[g].at = handling[g].at \/ handling'[g].at = "dead"
      BY <1>2, <1>8 DEF Fails, Idle
    <2> QED
      BY <1>8, <2>1, NoneAreContracts DEF Fails, KindInv, TypeOK, AllContracts, IsFile
  <1>9. CASE Stop
    <2>1. \A g \in Handlers : handling'[g].text = NoContracts /\ handling'[g].at = "idle"
      BY <1>9, NoneAreContracts DEF Stop
    <2> QED
      BY <1>1, <1>9, <2>1, NoneAreContracts DEF Stop, KindInv, TypeOK, AllContracts, IsFile
  <1>10. CASE Operate
    BY <1>10, OperateKinds
  <1>11. CASE UNCHANGED vars
    BY <1>11 DEF KindInv, TypeOK, AllContracts, IsFile
  <1> QED
    BY <1>3, <1>4, <1>5, <1>6, <1>7, <1>8, <1>9, <1>10, <1>11 DEF Next

(* A draft, a file and what is in force are contracts, whatever a server   *)
(* lists and an operator writes, and the tools nobody has edited are among *)
(* those of the file (derive_contract, McpProxy._draft).                   *)
THEOREM TypesCorrect == Spec => []TypeOK
  <1>1. KindInv => TypeOK
    BY DEF KindInv
  <1> QED
    BY <1>1, DraftInit, KindInit, DraftStep, KindStep, PTL DEF Spec
=============================================================================
