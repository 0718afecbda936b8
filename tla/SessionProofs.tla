--------------------------- MODULE SessionProofs ----------------------------
(***************************************************************************)
(* Proofs about the monitor and its budgets, for every set of tools,       *)
(* budgets, calls, every policy and every bound on the session's length.   *)
(*                                                                         *)
(* Every action appends at most one record to the audit chain, so most     *)
(* invariants are statements about the records there are and the one that  *)
(* is added.  The lemmas on Append at the start say that once.             *)
(***************************************************************************)
EXTENDS SessionProperties, FiniteSetTheorems, SequenceTheorems, TLAPS

-----------------------------------------------------------------------------
(* Verdicts.                                                               *)

(* A policy gives every code a verdict, those it does not tune included.   *)
LEMMA DispositionType ==
    ASSUME NEW policy \in PolicyType, NEW code
    PROVE  DispositionFor(policy, code) \in Verdict
    BY DEF DispositionFor, PolicyType, Verdict

(* A verdict is one of the three, whatever the findings.                   *)
LEMMA VerdictType ==
    ASSUME NEW policy, NEW findings
    PROVE  VerdictOf(policy, findings) \in Verdict
    BY DEF VerdictOf, Verdict

(* Taking the worse verdict finding by finding, as the monitor does, is    *)
(* reading the verdict off the set of findings: the order in which checks  *)
(* run cannot change a decision.                                           *)
THEOREM VerdictIsWorstDisposition ==
    ASSUME NEW policy \in PolicyType, NEW findings, NEW code
    PROVE  /\ VerdictOf(policy, {}) = "allow"
           /\ VerdictOf(policy, findings \cup {code}) =
                WorseOf(VerdictOf(policy, findings), DispositionFor(policy, code))
  <1> DEFINE d == DispositionFor(policy, code)
  <1>1. VerdictOf(policy, {}) = "allow"
    BY DEF VerdictOf
  <1>2. d \in Verdict
    BY DispositionType
  <1>3. \A v \in Verdict :
            (\E c \in findings \cup {code} : DispositionFor(policy, c) = v)
            <=> (\E c \in findings : DispositionFor(policy, c) = v) \/ d = v
    OBVIOUS
  <1> HIDE DEF d
  <1>4. VerdictOf(policy, findings \cup {code}) = WorseOf(VerdictOf(policy, findings), d)
    BY <1>2, <1>3 DEF VerdictOf, WorseOf, Severity, Verdict
  <1> QED
    BY <1>1, <1>4 DEF d

-----------------------------------------------------------------------------
(* Budgets.                                                                *)

LEMMA ArgumentType ==
    ASSUME NEW b \in Budgets, NEW args \in ArgsType
    PROVE  Argument(b, args) \in ArgValue \cup {None}
    BY BudgetsAssumption DEF Argument, ArgsType, BudgetType

(* Adding amounts never leaves the numbers.                                *)
LEMMA PlusType ==
    ASSUME NEW x \in Number, NEW y \in Number
    PROVE  Plus(x, y) \in Number
    BY BudgetsAssumption DEF Plus, Number

(* What a metered call adds to a total is a number.                        *)
LEMMA DeltaType ==
    ASSUME NEW b \in Budgets, NEW contract, NEW args \in ArgsType, NEW s,
           Measures(b, contract, args)
    PROVE  Delta(b, args, s) \in Number
  <1>1. BudgetOf[b].meter \in {"calls", "sum", "distinct"}
    BY BudgetsAssumption DEF BudgetType, Meter
  <1>2. CASE BudgetOf[b].meter = "calls"
    BY <1>2 DEF Delta, Number
  <1>3. CASE BudgetOf[b].meter = "sum"
    BY <1>3, Zenon DEF Measures, Delta, IsNumeric
  <1>4. CASE BudgetOf[b].meter = "distinct"
    BY <1>4 DEF Delta, Number
  <1> QED
    BY <1>1, <1>2, <1>3, <1>4

(* Charging a call keeps totals numeric and remembers real destinations    *)
(* only: an absent argument is never counted as a place.                   *)
LEMMA ChargeType ==
    ASSUME NEW t \in TotalsType, NEW s \in SeenType, NEW contract, NEW args \in ArgsType
    PROVE  /\ TotalsAfter(contract, args, t, s) \in TotalsType
           /\ SeenAfter(contract, args, s) \in SeenType
  <1>1. ASSUME NEW b \in Budgets
        PROVE  (IF Measures(b, contract, args) THEN Plus(t[b], Delta(b, args, s)) ELSE t[b])
                    \in Number
    <2>1. t[b] \in Number
      BY DEF TotalsType
    <2> QED
      BY <2>1, DeltaType, PlusType
  <1>2. ASSUME NEW b \in Budgets
        PROVE  (IF BudgetOf[b].meter = "distinct" /\ Measures(b, contract, args)
                THEN s[b] \cup {Argument(b, args)} ELSE s[b]) \in SUBSET ArgValue
    <2>1. s[b] \in SUBSET ArgValue
      BY DEF SeenType
    <2>2. BudgetOf[b].meter = "distinct" /\ Measures(b, contract, args)
          => Argument(b, args) \in ArgValue
      BY ArgumentType DEF Measures
    <2> QED
      BY <2>1, <2>2
  <1> QED
    BY <1>1, <1>2 DEF TotalsAfter, SeenAfter, TotalsType, SeenType

(* Charging a call check found no breach for leaves every total within its *)
(* limit that was within it before.                                        *)
LEMMA UnbreachedStaysWithin ==
    ASSUME NEW t \in TotalsType, NEW s \in SeenType, NEW contract, NEW args \in ArgsType,
           Breaches(contract, args, t, s) = {},
           \A b \in Budgets : ~Exceeds(t[b], BudgetOf[b].limit)
    PROVE  \A b \in Budgets :
                ~Exceeds(TotalsAfter(contract, args, t, s)[b], BudgetOf[b].limit)
    BY DEF Breaches, TotalsAfter

-----------------------------------------------------------------------------
(* The actions, by what they do to the audit chain.                        *)

LEMMA ContractTyped ==
    ASSUME NEW call \in CallType
    PROVE  Contract(call.tool) \in ContractType
  <1>1. call.tool \in Tools
    BY DEF CallType
  <1> QED
    BY <1>1, SessionAssumption DEF Contract, ContractType, UnknownToolEffects, Effect

(* Charging a call is typed, whether or not the call is charged.           *)
LEMMA ChargeTyped ==
    ASSUME TypeOK, NEW call \in CallType, Charge(call) \/ UNCHANGED <<totals, seen>>
    PROVE  totals' \in TotalsType /\ seen' \in SeenType
  <1>1. call.args \in ArgsType
    BY DEF CallType
  <1>2. CASE Charge(call)
    BY <1>1, <1>2, ChargeType DEF Charge, TypeOK
  <1>3. CASE UNCHANGED <<totals, seen>>
    BY <1>3 DEF TypeOK
  <1> QED
    BY <1>2, <1>3

(* An admitted call is well formed and its step is the next one.           *)
LEMMA CallsTyped == Calls \subseteq CallType
  BY SessionAssumption

(* The record _finalise appends.                                           *)
LEMMA RecordTyped ==
    ASSUME TypeOK, NEW call \in CallType, NEW verdict \in Verdict,
           NEW findings \in SUBSET FindingCode
    PROVE  Record(step + 1, call, verdict, findings, "monitor") \in RecordType
  BY DEF TypeOK, Record, RecordType

(* Reading a record of the chain.                                          *)
LEMMA ChainEntry ==
    ASSUME TypeOK, NEW i \in DOMAIN audit
    PROVE  /\ audit[i] \in RecordType
           /\ i \in 1..Len(audit)
           /\ Len(audit) \in Nat
  BY LenProperties, ElementOfSeq DEF TypeOK

(* The record approve appends differs from the one it approves in verdict  *)
(* and author only.                                                        *)
LEMMA ApprovedRecord ==
    ASSUME TypeOK, NEW i \in DOMAIN audit
    PROVE  LET r == [audit[i] EXCEPT !.verdict = "allow", !.by = "human"]
           IN  /\ r \in RecordType
               /\ r.verdict = "allow"
               /\ r.by = "human"
               /\ r.step = audit[i].step
               /\ r.call = audit[i].call
               /\ r.findings = audit[i].findings
  BY ChainEntry DEF RecordType, Verdict

(* TypeOK holds throughout: in particular the totals stay numbers and the  *)
(* chain holds only decisions the monitor or a human can make.             *)
THEOREM TypeCorrect == Spec => []TypeOK
  <1>1. Init => TypeOK
    <2> SUFFICES ASSUME Init PROVE TypeOK
      OBVIOUS
    <2>1. InitTotals \in TotalsType /\ InitSeen \in SeenType
      BY DEF InitTotals, InitSeen, TotalsType, SeenType, Number
    <2>2. audit \in Seq(RecordType)
      BY EmptySeq DEF Init
    <2> QED
      BY <2>1, <2>2 DEF Init, TypeOK
  <1>2. TypeOK /\ [Next]_vars => TypeOK'
    <2> SUFFICES ASSUME TypeOK, [Next]_vars PROVE TypeOK'
      OBVIOUS
    <2>1. ASSUME NEW confidential \in BOOLEAN, Observe(confidential) PROVE TypeOK'
      BY <2>1 DEF Observe, TypeOK
    <2>2. ASSUME NEW call \in Calls, AdmitHalted(call) PROVE TypeOK'
      <3>1. Record(step + 1, call, "deny", {"session_halted"}, "monitor") \in RecordType
        BY CallsTyped, RecordTyped DEF Verdict, FindingCode, SessionCode
      <3>2. audit' \in Seq(RecordType)
        BY <2>2, <3>1, AppendProperties DEF AdmitHalted, Finalise, TypeOK
      <3> QED
        BY <2>2, <3>2 DEF AdmitHalted, Finalise, TypeOK
    <2>3. ASSUME NEW call \in Calls, AdmitDecided(call) PROVE TypeOK'
      <3> DEFINE v == VerdictOf(Policy, FindingsOn(call))
      <3>1. Record(step + 1, call, v, FindingsOn(call), "monitor") \in RecordType
        BY CallsTyped, RecordTyped, VerdictType DEF FindingsOn
      <3>2. audit' \in Seq(RecordType)
        BY <2>3, <3>1, AppendProperties DEF AdmitDecided, Finalise, TypeOK
      <3>3. totals' \in TotalsType /\ seen' \in SeenType
        BY <2>3, CallsTyped, ChargeTyped DEF AdmitDecided
      <3> QED
        BY <2>3, <3>2, <3>3 DEF AdmitDecided, Finalise, TypeOK
    <2>4. ASSUME NEW i \in DOMAIN audit, Approve(i) PROVE TypeOK'
      <3>1. audit' \in Seq(RecordType)
        BY <2>4, ApprovedRecord, AppendProperties DEF Approve, TypeOK
      <3>2. audit[i].call \in CallType
        BY ChainEntry DEF RecordType
      <3>3. totals' \in TotalsType /\ seen' \in SeenType
        BY <2>4, <3>2, ChargeTyped DEF Approve
      <3> QED
        BY <2>4, <3>1, <3>3 DEF Approve, TypeOK
    <2>5. CASE UNCHANGED vars
      BY <2>5 DEF vars, TypeOK
    <2>6. ASSUME NEW call \in Calls, AdmitFails(call) PROVE TypeOK'
      BY <2>6 DEF AdmitFails, TypeOK
    <2> QED
      BY <2>1, <2>2, <2>3, <2>4, <2>5, <2>6 DEF Next
  <1> QED
    BY <1>1, <1>2, PTL DEF Spec

-----------------------------------------------------------------------------
(* The chain and its latest record.                                        *)

(* The place of the next record.                                           *)
Latest == Len(audit) + 1

(* Appending a record leaves the others where they are, and adds its place *)
(* to the sets of places read off the chain.                               *)
LEMMA Extended ==
    ASSUME TypeOK, NEW r \in RecordType, audit' = Append(audit, r)
    PROVE  /\ DOMAIN audit' = DOMAIN audit \cup {Latest}
           /\ Latest \notin DOMAIN audit
           /\ \A i \in DOMAIN audit : audit'[i] = audit[i] /\ i \in Nat /\ i < Latest
           /\ audit'[Latest] = r
           /\ Latest \in Nat
  <1>1. audit \in Seq(RecordType)
    BY DEF TypeOK
  <1>2. /\ Len(audit) \in Nat
        /\ DOMAIN audit = 1..Len(audit)
    BY <1>1, LenProperties
  <1>3. /\ audit' \in Seq(RecordType)
        /\ Len(audit') = Len(audit) + 1
        /\ \A i \in 1..Len(audit) : audit'[i] = audit[i]
        /\ audit'[Len(audit) + 1] = r
    BY <1>1, AppendProperties
  <1>4. DOMAIN audit' = 1..(Len(audit) + 1)
    BY <1>3, LenProperties
  <1> QED
    BY <1>2, <1>3, <1>4 DEF Latest

LEMMA ExtendedSets ==
    ASSUME TypeOK, NEW r \in RecordType, audit' = Append(audit, r)
    PROVE  /\ Denied' = IF r.verdict = "deny" THEN Denied \cup {Latest} ELSE Denied
           /\ ByMonitor' = IF r.by = "monitor" THEN ByMonitor \cup {Latest} ELSE ByMonitor
           /\ Approvals' = IF r.by = "human" THEN Approvals \cup {Latest} ELSE Approvals
  BY Extended DEF Denied, ByMonitor, Approvals

(* The denials of a chain are finitely many.                               *)
LEMMA DeniedFinite ==
    ASSUME TypeOK
    PROVE  IsFiniteSet(Denied) /\ Cardinality(Denied) \in Nat
  <1>1. Len(audit) \in Nat /\ DOMAIN audit = 1..Len(audit)
    BY LenProperties DEF TypeOK
  <1>2. IsFiniteSet(DOMAIN audit)
    BY <1>1, FS_Interval
  <1>3. Denied \in SUBSET DOMAIN audit
    BY DEF Denied
  <1>4. IsFiniteSet(Denied)
    BY <1>2, <1>3, FS_Subset
  <1> QED
    BY <1>4, FS_CardinalityType

(* What _finalise does to the denials.                                     *)
LEMMA FinalisedDenials ==
    ASSUME TypeOK, NEW call \in CallType, NEW verdict \in Verdict,
           NEW findings \in SUBSET FindingCode, Finalise(call, verdict, findings)
    PROVE  Cardinality(Denied') = IF verdict = "deny" THEN Cardinality(Denied) + 1
                                                      ELSE Cardinality(Denied)
  <1> DEFINE r == Record(step + 1, call, verdict, findings, "monitor")
  <1>1. r \in RecordType
    BY RecordTyped
  <1>2. audit' = Append(audit, r)
    BY DEF Finalise
  <1>3. r.verdict = verdict
    BY DEF Record
  <1> HIDE DEF r
  <1>4. Denied' = IF verdict = "deny" THEN Denied \cup {Latest} ELSE Denied
    BY <1>1, <1>2, <1>3, ExtendedSets
  <1>5. Latest \notin Denied
    BY <1>1, <1>2, Extended DEF Denied
  <1> QED
    BY <1>4, <1>5, DeniedFinite, FS_AddElement

-----------------------------------------------------------------------------
(* The counter behind denial_channel_bits counts the denials of the chain, *)
(* and the session is halted exactly when they exceed the budget.          *)
THEOREM HaltCorrect == Spec => []HaltIsExact
  <1>1. Init => HaltIsExact
    <2> SUFFICES ASSUME Init PROVE HaltIsExact
      OBVIOUS
    <2>1. Denied = {}
      BY DEF Init, Denied
    <2> QED
      BY <2>1, FS_EmptySet, SessionAssumption DEF Init, HaltIsExact
  <1>2. TypeOK /\ HaltIsExact /\ [Next]_vars => HaltIsExact'
    <2> SUFFICES ASSUME TypeOK, HaltIsExact, [Next]_vars PROVE HaltIsExact'
      OBVIOUS
    <2>1. ASSUME NEW confidential \in BOOLEAN, Observe(confidential) PROVE HaltIsExact'
      BY <2>1 DEF Observe, HaltIsExact, Denied
    <2>2. ASSUME NEW call \in CallType, NEW verdict \in Verdict,
                 NEW findings \in SUBSET FindingCode, Finalise(call, verdict, findings)
          PROVE  HaltIsExact'
      <3>1. Cardinality(Denied') = denials'
        BY <2>2, FinalisedDenials DEF Finalise, HaltIsExact
      <3>2. halted' <=> DenialBudget >= 0 /\ denials' > DenialBudget
        <4>1. denials > DenialBudget => denials + 1 > DenialBudget
          BY SessionAssumption DEF TypeOK
        <4>2. CASE verdict = "deny"
          BY <2>2, <4>1, <4>2, Zenon DEF Finalise, HaltIsExact
        <4>3. CASE verdict # "deny"
          BY <2>2, <4>3, Zenon DEF Finalise, HaltIsExact
        <4> QED
          BY <4>2, <4>3
      <3> QED
        BY <3>1, <3>2 DEF HaltIsExact
    <2>3. ASSUME NEW call \in Calls, AdmitHalted(call) PROVE HaltIsExact'
      BY <2>2, <2>3, CallsTyped DEF AdmitHalted, Verdict, FindingCode, SessionCode
    <2>4. ASSUME NEW call \in Calls, AdmitDecided(call) PROVE HaltIsExact'
      <3>1. FindingsOn(call) \in SUBSET FindingCode
        BY DEF FindingsOn
      <3> QED
        BY <2>2, <2>4, <3>1, CallsTyped, VerdictType DEF AdmitDecided
    <2>5. ASSUME NEW i \in DOMAIN audit, Approve(i) PROVE HaltIsExact'
      <3>1. Denied' = Denied
        BY <2>5, ApprovedRecord, ExtendedSets DEF Approve
      <3> QED
        BY <2>5, <3>1 DEF Approve, HaltIsExact
    <2>6. CASE UNCHANGED vars
      BY <2>6 DEF vars, HaltIsExact, Denied
    <2>7. ASSUME NEW call \in Calls, AdmitFails(call) PROVE HaltIsExact'
      BY <2>7 DEF AdmitFails, HaltIsExact, Denied
    <2> QED
      BY <2>1, <2>3, <2>4, <2>5, <2>6, <2>7 DEF Next
  <1> QED
    BY <1>1, <1>2, TypeCorrect, PTL DEF Spec

-----------------------------------------------------------------------------
(* What every admission appends, and every approval.                       *)

LEMMA Admitted ==
    ASSUME TypeOK, NEW call \in Calls, AdmitHalted(call) \/ AdmitDecided(call)
    PROVE  \E r \in RecordType :
                /\ audit' = Append(audit, r)
                /\ r.step = step + 1
                /\ r.by = "monitor"
                /\ step' = step + 1
                /\ step < MaxSteps
  <1>1. ASSUME NEW verdict \in Verdict, NEW findings \in SUBSET FindingCode,
               Finalise(call, verdict, findings), step' = step + 1, step < MaxSteps
        PROVE  \E r \in RecordType :
                /\ audit' = Append(audit, r)
                /\ r.step = step + 1
                /\ r.by = "monitor"
                /\ step' = step + 1
                /\ step < MaxSteps
    <2> DEFINE r == Record(step + 1, call, verdict, findings, "monitor")
    <2>1. r \in RecordType
      BY CallsTyped, RecordTyped
    <2>2. audit' = Append(audit, r) /\ r.step = step + 1 /\ r.by = "monitor"
      BY <1>1 DEF Finalise, Record
    <2> QED
      BY <1>1, <2>1, <2>2
  <1>2. CASE AdmitHalted(call)
    BY <1>1, <1>2 DEF AdmitHalted, Verdict, FindingCode, SessionCode
  <1>3. CASE AdmitDecided(call)
    <2>1. FindingsOn(call) \in SUBSET FindingCode
      BY DEF FindingsOn
    <2> QED
      BY <1>1, <1>3, <2>1, VerdictType DEF AdmitDecided
  <1> QED
    BY <1>2, <1>3

LEMMA Approved ==
    ASSUME TypeOK, NEW i \in DOMAIN audit, Approve(i)
    PROVE  LET r == [audit[i] EXCEPT !.verdict = "allow", !.by = "human"]
           IN  /\ r \in RecordType
               /\ audit' = Append(audit, r)
               /\ audit[i].verdict = "escalate"
               /\ UNCHANGED step
  BY ApprovedRecord DEF Approve

-----------------------------------------------------------------------------
(* The places of the chain and their steps: the step counter is ahead of   *)
(* every record, and the monitor decides each step once.                   *)
StepsInOrder ==
    /\ step <= MaxSteps
    /\ \A i \in DOMAIN audit : audit[i].step \in 1..step
    /\ \A i, j \in ByMonitor : audit[i].step = audit[j].step => i = j

(* Every approval stands on an earlier escalation that it repeats.         *)
StandsOnEscalation(i) ==
    /\ audit[i].verdict = "allow"
    /\ \E j \in ByMonitor :
        /\ j < i
        /\ audit[j].verdict = "escalate"
        /\ audit[j] = [audit[i] EXCEPT !.verdict = "escalate", !.by = "monitor"]

ApprovalsStand == \A i \in DOMAIN audit \ ByMonitor : StandsOnEscalation(i)

ChainInv == StepsInOrder /\ ApprovalsStand

LEMMA ChainInvInit == Init => ChainInv
  BY SessionAssumption DEF Init, ChainInv, StepsInOrder, ApprovalsStand, ByMonitor

(* An admission takes a fresh step.                                        *)
LEMMA AdmitKeepsChain ==
    ASSUME TypeOK, ChainInv, NEW call \in Calls, AdmitHalted(call) \/ AdmitDecided(call)
    PROVE  ChainInv'
  <1>1. PICK r \in RecordType : /\ audit' = Append(audit, r)
                                /\ r.step = step + 1
                                /\ r.by = "monitor"
                                /\ step' = step + 1
                                /\ step < MaxSteps
    BY Admitted
  <1>2. /\ DOMAIN audit' = DOMAIN audit \cup {Latest}
        /\ Latest \notin DOMAIN audit
        /\ \A i \in DOMAIN audit : audit'[i] = audit[i] /\ i \in Nat /\ i < Latest
        /\ audit'[Latest] = r
    BY <1>1, Extended
  <1>3. ByMonitor' = ByMonitor \cup {Latest}
    BY <1>1, ExtendedSets
  <1>4. step' <= MaxSteps
    BY <1>1, SessionAssumption DEF TypeOK
  <1>5. ASSUME NEW i \in DOMAIN audit' PROVE audit'[i].step \in 1..step'
    BY <1>1, <1>2 DEF TypeOK, ChainInv, StepsInOrder
  <1>6. ASSUME NEW i \in ByMonitor', NEW j \in ByMonitor', audit'[i].step = audit'[j].step
        PROVE  i = j
    <2>1. \A k \in ByMonitor : k \in DOMAIN audit /\ audit'[k].step = audit[k].step
                              /\ audit[k].step \in 1..step
      BY <1>2 DEF ByMonitor, ChainInv, StepsInOrder
    <2>2. audit'[Latest].step = step + 1
      BY <1>1, <1>2
    <2> QED
      BY <1>3, <1>6, <2>1, <2>2 DEF ChainInv, StepsInOrder, TypeOK
  <1>7. ASSUME NEW i \in DOMAIN audit' \ ByMonitor' PROVE StandsOnEscalation(i)'
    <2>1. i \in DOMAIN audit \ ByMonitor
      BY <1>2, <1>3, <1>7
    <2>2. StandsOnEscalation(i)
      BY <2>1 DEF ChainInv, ApprovalsStand
    <2>3. \A j \in ByMonitor : j \in ByMonitor' /\ audit'[j] = audit[j]
      BY <1>2, <1>3 DEF ByMonitor
    <2> QED
      BY <1>2, <2>1, <2>2, <2>3 DEF StandsOnEscalation
  <1> QED
    BY <1>4, <1>5, <1>6, <1>7 DEF ChainInv, StepsInOrder, ApprovalsStand

(* An approval repeats the step of the escalation it stands on.            *)
LEMMA ApproveKeepsChain ==
    ASSUME TypeOK, ChainInv, NEW a \in DOMAIN audit, Approve(a)
    PROVE  ChainInv'
  <1> DEFINE r == [audit[a] EXCEPT !.verdict = "allow", !.by = "human"]
  <1>1. /\ r \in RecordType
        /\ audit' = Append(audit, r)
        /\ audit[a].verdict = "escalate"
        /\ step' = step
    BY Approved
  <1>2. /\ r.verdict = "allow"
        /\ r.by = "human"
        /\ r.step = audit[a].step
    BY ApprovedRecord
  <1>3. audit[a] \in RecordType
    BY ChainEntry
  <1>4. a \in ByMonitor
    BY <1>1 DEF ByMonitor, ChainInv, ApprovalsStand, StandsOnEscalation
  <1>5. audit[a] = [r EXCEPT !.verdict = "escalate", !.by = "monitor"]
    BY <1>1, <1>3, <1>4 DEF ByMonitor, RecordType
  <1> HIDE DEF r
  <1>6. /\ DOMAIN audit' = DOMAIN audit \cup {Latest}
        /\ Latest \notin DOMAIN audit
        /\ \A i \in DOMAIN audit : audit'[i] = audit[i] /\ i \in Nat /\ i < Latest
        /\ audit'[Latest] = r
    BY <1>1, Extended
  <1>7. ByMonitor' = ByMonitor
    BY <1>1, <1>2, ExtendedSets
  <1>8. ASSUME NEW i \in DOMAIN audit' PROVE audit'[i].step \in 1..step'
    BY <1>1, <1>2, <1>6 DEF ChainInv, StepsInOrder
  <1>9. ASSUME NEW i \in ByMonitor', NEW j \in ByMonitor', audit'[i].step = audit'[j].step
        PROVE  i = j
    BY <1>6, <1>7, <1>9 DEF ByMonitor, ChainInv, StepsInOrder
  <1>10. ASSUME NEW i \in DOMAIN audit' \ ByMonitor' PROVE StandsOnEscalation(i)'
    <2>1. CASE i = Latest
      <3>1. a \in ByMonitor' /\ a < Latest /\ audit'[a] = audit[a]
        BY <1>4, <1>6, <1>7
      <3>2. audit'[a].verdict = "escalate" /\ audit'[a] = [r EXCEPT !.verdict = "escalate",
                                                                  !.by = "monitor"]
        BY <1>1, <1>5, <3>1
      <3>3. audit'[i] = r /\ r.verdict = "allow"
        BY <1>2, <1>6, <2>1
      <3> QED
        BY <2>1, <3>1, <3>2, <3>3, Zenon DEF StandsOnEscalation
    <2>2. CASE i \in DOMAIN audit
      <3>1. StandsOnEscalation(i)
        BY <1>7, <1>10, <2>2 DEF ChainInv, ApprovalsStand
      <3> QED
        BY <1>6, <1>7, <2>2, <3>1 DEF StandsOnEscalation, ByMonitor
    <2> QED
      BY <1>6, <1>10, <2>1, <2>2
  <1> QED
    BY <1>1, <1>8, <1>9, <1>10 DEF ChainInv, StepsInOrder, ApprovalsStand

(* A step that records nothing leaves the chain as it is.                  *)
LEMMA UnrecordedKeepsChain ==
    ASSUME TypeOK, ChainInv, step' = step + 1, step < MaxSteps, audit' = audit
    PROVE  ChainInv'
  <1>1. step' = step + 1 /\ step < MaxSteps /\ audit' = audit
    OBVIOUS
  <1>2. step' <= MaxSteps
    BY <1>1, SessionAssumption DEF TypeOK
  <1>3. ASSUME NEW i \in DOMAIN audit' PROVE audit'[i].step \in 1..step'
    BY <1>1 DEF TypeOK, ChainInv, StepsInOrder
  <1>4. ByMonitor' = ByMonitor
    BY <1>1 DEF ByMonitor
  <1>5. ApprovalsStand'
    BY <1>1, <1>4 DEF ChainInv, ApprovalsStand, StandsOnEscalation
  <1> QED
    BY <1>1, <1>2, <1>3, <1>4, <1>5 DEF ChainInv, StepsInOrder

THEOREM ChainCorrect == Spec => []ChainInv
  <1>1. TypeOK /\ ChainInv /\ [Next]_vars => ChainInv'
    <2> SUFFICES ASSUME TypeOK, ChainInv, [Next]_vars PROVE ChainInv'
      OBVIOUS
    <2>1. CASE UNCHANGED vars
      <3>1. step' = step /\ audit' = audit
        BY <2>1 DEF vars
      <3>2. ByMonitor' = ByMonitor
        BY <3>1 DEF ByMonitor
      <3> QED
        BY <3>1, <3>2 DEF ChainInv, StepsInOrder, ApprovalsStand, StandsOnEscalation
    <2>2. ASSUME NEW confidential \in BOOLEAN, Observe(confidential) PROVE ChainInv'
      BY <2>2, UnrecordedKeepsChain DEF Observe
    <2>3. ASSUME NEW call \in Calls, AdmitFails(call) PROVE ChainInv'
      BY <2>3, UnrecordedKeepsChain DEF AdmitFails
    <2> QED
      BY <2>1, <2>2, <2>3, AdmitKeepsChain, ApproveKeepsChain DEF Next
  <1> QED
    BY <1>1, ChainInvInit, TypeCorrect, PTL DEF Spec

(* Only an escalation can be approved, and a denied step is never allowed  *)
(* by anyone: the monitor decided it, and decides a step once.             *)
THEOREM ApprovalsCorrect == Spec => []ApprovalsAreOfEscalations
  <1>1. ChainInv => ApprovalsAreOfEscalations
    <2> SUFFICES ASSUME ChainInv, NEW i \in DOMAIN audit \ ByMonitor, NEW j \in Denied,
                        StandsOnEscalation(i)
                 PROVE  audit[j].step # audit[i].step
      BY DEF ChainInv, ApprovalsStand, StandsOnEscalation, ApprovalsAreOfEscalations
    <2>1. j \in ByMonitor
      BY DEF Denied, ByMonitor, ChainInv, ApprovalsStand, StandsOnEscalation
    <2>2. PICK k \in ByMonitor : /\ audit[k].verdict = "escalate"
                                 /\ audit[k] = [audit[i] EXCEPT !.verdict = "escalate",
                                                                !.by = "monitor"]
      BY DEF StandsOnEscalation
    <2>3. audit[k].step = audit[i].step
      BY <2>2
    <2>4. k # j
      BY <2>2 DEF Denied
    <2> QED
      BY <2>1, <2>3, <2>4 DEF ChainInv, StepsInOrder
  <1> QED
    BY <1>1, ChainCorrect, PTL

-----------------------------------------------------------------------------
(* A limit the policy enforces is not passed by any sequence of calls of a *)
(* session without approvals: a call is charged only when check, made with *)
(* the same totals, found that none of its budgets would be passed.        *)
THEOREM LimitsCorrect == Spec => []LimitsHoldWithoutApprovals
  <1> DEFINE Within(t) == \A b \in Budgets : ~Exceeds(t[b], BudgetOf[b].limit)
  <1>1. Init => LimitsHoldWithoutApprovals
    <2>1. Within(InitTotals)
      BY BudgetsAssumption DEF InitTotals, Exceeds, BudgetType
    <2> QED
      BY <2>1 DEF Init, LimitsHoldWithoutApprovals
  <1>2. TypeOK /\ LimitsHoldWithoutApprovals /\ [Next]_vars => LimitsHoldWithoutApprovals'
    <2> SUFFICES ASSUME TypeOK, LimitsHoldWithoutApprovals, [Next]_vars,
                        Policy["budget_exceeded"] # "allow", Approvals' = {}
                 PROVE  Within(totals')
      BY DEF LimitsHoldWithoutApprovals
    <2>1. ASSUME Approvals = {} PROVE Within(totals)
      BY <2>1 DEF LimitsHoldWithoutApprovals
    <2>2. ASSUME NEW confidential \in BOOLEAN, Observe(confidential) PROVE Within(totals')
      BY <2>1, <2>2 DEF Observe, Approvals
    <2>3. ASSUME NEW call \in Calls, AdmitHalted(call) \/ AdmitDecided(call)
          PROVE  Within(totals)
      <3>1. PICK r \in RecordType : audit' = Append(audit, r) /\ r.by = "monitor"
        BY <2>3, Admitted
      <3>2. Approvals' = Approvals
        BY <3>1, ExtendedSets
      <3> QED
        BY <2>1, <3>2
    <2>4. ASSUME NEW call \in Calls, AdmitHalted(call) PROVE Within(totals')
      BY <2>3, <2>4 DEF AdmitHalted
    <2>5. ASSUME NEW call \in Calls, AdmitDecided(call) PROVE Within(totals')
      <3>1. CASE VerdictOf(Policy, FindingsOn(call)) = "allow"
        <4>1. DispositionFor(Policy, "budget_exceeded") # "allow"
          BY DEF DispositionFor, Tunable, FindingCode, SessionCode
        <4>2. DispositionFor(Policy, "budget_exceeded") \in {"escalate", "deny"}
          BY <4>1, SessionAssumption, DispositionType DEF Verdict
        <4>3. "budget_exceeded" \notin FindingsOn(call)
          BY <3>1, <4>2 DEF VerdictOf
        <4>4. Breaches(Contract(call.tool), call.args, totals, seen) = {}
          BY <4>3 DEF FindingsOn, Raises, FindingCode, SessionCode
        <4>5. call.args \in ArgsType
          BY CallsTyped DEF CallType
        <4>6. totals' = TotalsAfter(Contract(call.tool), call.args, totals, seen)
          BY <2>5, <3>1 DEF AdmitDecided, Charge
        <4> QED
          BY <2>3, <2>5, <4>4, <4>5, <4>6, UnbreachedStaysWithin DEF TypeOK
      <3>2. CASE VerdictOf(Policy, FindingsOn(call)) # "allow"
        BY <2>3, <2>5, <3>2 DEF AdmitDecided
      <3> QED
        BY <3>1, <3>2
    <2>6. ASSUME NEW i \in DOMAIN audit, Approve(i) PROVE FALSE
      <3> DEFINE r == [audit[i] EXCEPT !.verdict = "allow", !.by = "human"]
      <3>1. r \in RecordType /\ audit' = Append(audit, r) /\ r.by = "human"
        BY <2>6, ApprovedRecord DEF Approve
      <3> HIDE DEF r
      <3>2. Latest \in Approvals'
        BY <3>1, ExtendedSets
      <3> QED
        BY <3>2
    <2>7. CASE UNCHANGED vars
      BY <2>1, <2>7 DEF vars, Approvals
    <2>8. ASSUME NEW call \in Calls, AdmitFails(call) PROVE Within(totals')
      BY <2>1, <2>8 DEF AdmitFails, Approvals
    <2> QED
      BY <2>2, <2>4, <2>5, <2>6, <2>7, <2>8 DEF Next
  <1> QED
    BY <1>1, <1>2, TypeCorrect, PTL DEF Spec

-----------------------------------------------------------------------------
(* What was decided before a record does not change when others follow it. *)
LEMMA DenialsBefore ==
    ASSUME TypeOK, NEW r \in RecordType, audit' = Append(audit, r)
    PROVE  /\ \A i \in DOMAIN audit : DeniedBefore(i)' = DeniedBefore(i)
           /\ \A i : i = Latest => DeniedBefore(i)' = Denied
  <1>1. /\ \A i \in DOMAIN audit : i \in Nat /\ i < Latest
        /\ Latest \in Nat
    BY Extended
  <1>2. Denied' = IF r.verdict = "deny" THEN Denied \cup {Latest} ELSE Denied
    BY ExtendedSets
  <1>3. Denied \subseteq DOMAIN audit
    BY DEF Denied
  <1>4. ASSUME NEW i \in DOMAIN audit PROVE DeniedBefore(i)' = DeniedBefore(i)
    <2>1. ~(Latest < i)
      BY <1>1
    <2> QED
      BY <1>2, <2>1 DEF DeniedBefore
  <1>5. ASSUME NEW i, i = Latest PROVE DeniedBefore(i)' = Denied
    <2>1. ~(Latest < i) /\ \A j \in Denied : j < i
      BY <1>1, <1>3, <1>5
    <2> QED
      BY <1>2, <2>1 DEF DeniedBefore
  <1> QED
    BY <1>4, <1>5

(* What admit records: the halt alone once halted, the findings and the    *)
(* verdict on them before.                                                 *)
LEMMA Decision ==
    ASSUME TypeOK, NEW call \in Calls, AdmitHalted(call) \/ AdmitDecided(call)
    PROVE  \E verdict \in Verdict, findings \in SUBSET FindingCode :
                /\ Record(step + 1, call, verdict, findings, "monitor") \in RecordType
                /\ audit' = Append(audit, Record(step + 1, call, verdict, findings, "monitor"))
                /\ halted => verdict = "deny" /\ findings = {"session_halted"}
                /\ ~halted => /\ AdmitDecided(call)
                              /\ findings = FindingsOn(call)
                              /\ verdict = VerdictOf(Policy, FindingsOn(call))
                /\ CanMake(call)
                /\ UNCHANGED <<confidentialContext, readSteps>>
  <1>1. call \in CallType
    BY CallsTyped
  <1>2. CASE AdmitHalted(call)
    <2>1. "deny" \in Verdict /\ {"session_halted"} \in SUBSET FindingCode
      BY DEF Verdict, FindingCode, SessionCode
    <2>2. Record(step + 1, call, "deny", {"session_halted"}, "monitor") \in RecordType
      BY <1>1, <2>1, RecordTyped
    <2> QED
      BY <1>2, <2>1, <2>2 DEF AdmitHalted, Finalise
  <1>3. CASE AdmitDecided(call)
    <2>1. FindingsOn(call) \in SUBSET FindingCode
      BY DEF FindingsOn
    <2>2. VerdictOf(Policy, FindingsOn(call)) \in Verdict
      BY VerdictType
    <2>3. Record(step + 1, call, VerdictOf(Policy, FindingsOn(call)), FindingsOn(call), "monitor")
            \in RecordType
      BY <1>1, <2>1, <2>2, RecordTyped
    <2> QED
      BY <1>3, <2>1, <2>2, <2>3 DEF AdmitDecided, Finalise
  <1> QED
    BY <1>2, <1>3

(* The codes attribution raises are never those of the session's rules.    *)
LEMMA SessionCodesAreTheMonitors ==
    ASSUME NEW call \in CallType
    PROVE  call.codes \cap SessionCode = {}
    BY DEF CallType, LeafCode, SessionCode

LEMMA MonitorRecords ==
    ASSUME TypeOK, NEW r \in RecordType, audit' = Append(audit, r)
    PROVE  /\ \A i \in ByMonitor : i \in DOMAIN audit /\ audit'[i] = audit[i]
           /\ \A i \in ByMonitor' : i \in ByMonitor \/ (i = Latest /\ r.by = "monitor")
           /\ \A i : i = Latest => audit'[i] = r
  BY Extended, ExtendedSets DEF ByMonitor

(* An approval adds nothing that the monitor decided.                      *)
LEMMA ApprovalIsNotTheMonitors ==
    ASSUME TypeOK, NEW a \in DOMAIN audit, Approve(a)
    PROVE  /\ ByMonitor' = ByMonitor
           /\ \A i \in ByMonitor : audit'[i] = audit[i] /\ DeniedBefore(i)' = DeniedBefore(i)
           /\ \A i \in ByMonitor : i \in DOMAIN audit
  <1> DEFINE r == [audit[a] EXCEPT !.verdict = "allow", !.by = "human"]
  <1>1. r \in RecordType /\ audit' = Append(audit, r) /\ r.by = "human"
    BY Approved, ApprovedRecord
  <1> HIDE DEF r
  <1>2. \A i \in ByMonitor : i \in DOMAIN audit
    BY DEF ByMonitor
  <1> QED
    BY <1>1, <1>2, Extended, ExtendedSets, DenialsBefore

LEMMA SameChain ==
    ASSUME UNCHANGED audit
    PROVE  /\ ByMonitor' = ByMonitor
           /\ \A i : DeniedBefore(i)' = DeniedBefore(i)
    BY DEF ByMonitor, DeniedBefore, Denied

(* After the denial that exhausts the budget the monitor refuses whatever  *)
(* it is asked, saying nothing but that it has halted: the probing stops.  *)
(* Approvals are no decisions of the monitor and are left out.             *)
THEOREM HaltIsFinal == Spec => []NothingAdmittedAfterHalt
  <1> DEFINE Exhausted(i) == DenialBudget >= 0 /\ Cardinality(DeniedBefore(i)) > DenialBudget
             Answer(i) == IF Exhausted(i)
                          THEN audit[i].verdict = "deny" /\ audit[i].findings = {"session_halted"}
                          ELSE "session_halted" \notin audit[i].findings
  <1>1. NothingAdmittedAfterHalt <=> \A i \in ByMonitor : Answer(i)
    BY DEF NothingAdmittedAfterHalt
  <1>2. Init => NothingAdmittedAfterHalt
    BY DEF Init, NothingAdmittedAfterHalt, ByMonitor
  <1>3. TypeOK /\ HaltIsExact /\ NothingAdmittedAfterHalt /\ [Next]_vars
            => NothingAdmittedAfterHalt'
    <2> SUFFICES ASSUME TypeOK, HaltIsExact, NothingAdmittedAfterHalt, [Next]_vars,
                        NEW i \in ByMonitor'
                 PROVE  Answer(i)'
      BY DEF NothingAdmittedAfterHalt
    <2>1. ASSUME NEW call \in Calls, AdmitHalted(call) \/ AdmitDecided(call)
          PROVE  Answer(i)'
      <3>1. PICK verdict \in Verdict, findings \in SUBSET FindingCode :
                /\ Record(step + 1, call, verdict, findings, "monitor") \in RecordType
                /\ audit' = Append(audit, Record(step + 1, call, verdict, findings, "monitor"))
                /\ halted => verdict = "deny" /\ findings = {"session_halted"}
                /\ ~halted => findings = FindingsOn(call)
        BY <2>1, Decision
      <3> DEFINE r == Record(step + 1, call, verdict, findings, "monitor")
      <3>2. r.verdict = verdict /\ r.findings = findings
        BY DEF Record
      <3>3. r \in RecordType /\ audit' = Append(audit, r)
        BY <3>1
      <3> HIDE DEF r
      <3>4. CASE i \in ByMonitor
        <4>1. audit'[i] = audit[i] /\ i \in DOMAIN audit
          BY <3>3, <3>4, MonitorRecords
        <4>2. DeniedBefore(i)' = DeniedBefore(i)
          BY <3>3, <4>1, DenialsBefore
        <4> QED
          BY <3>4, <4>1, <4>2 DEF NothingAdmittedAfterHalt
      <3>5. CASE i = Latest
        <4>1. audit'[i] = r
          BY <3>3, <3>5, MonitorRecords
        <4>2. DeniedBefore(i)' = Denied
          BY <3>3, <3>5, DenialsBefore
        <4>3. Exhausted(i)' <=> halted
          BY <4>2 DEF HaltIsExact
        <4>4. ~halted => "session_halted" \notin findings
          <5>1. call.codes \cap SessionCode = {}
            BY CallsTyped, SessionCodesAreTheMonitors
          <5> QED
            BY <3>1, <5>1 DEF FindingsOn, Raises, SessionCode
        <4> QED
          BY <3>1, <3>2, <4>1, <4>3, <4>4
      <3> QED
        BY <3>3, <3>4, <3>5, MonitorRecords
    <2>2. ASSUME NEW a \in DOMAIN audit, Approve(a) PROVE Answer(i)'
      BY <2>2, ApprovalIsNotTheMonitors DEF NothingAdmittedAfterHalt
    <2>3. CASE UNCHANGED audit
      BY <2>3, SameChain DEF NothingAdmittedAfterHalt
    <2>4. ASSUME NEW confidential \in BOOLEAN, Observe(confidential) PROVE Answer(i)'
      BY <2>3, <2>4 DEF Observe
    <2>5. CASE UNCHANGED vars
      BY <2>3, <2>5 DEF vars
    <2>6. ASSUME NEW call \in Calls, AdmitFails(call) PROVE Answer(i)'
      BY <2>3, <2>6 DEF AdmitFails
    <2> QED
      BY <2>1, <2>2, <2>4, <2>5, <2>6 DEF Next
  <1> QED
    BY <1>2, <1>3, TypeCorrect, HaltCorrect, PTL DEF Spec

(* No egress decided after a denial goes unmarked.                         *)
THEOREM InfluenceIsMarked == Spec => []EgressAfterDenialIsMarked
  <1> DEFINE Marked(i) == DeniedBefore(i) # {} /\ CanEgress(audit[i].call.tool) =>
                audit[i].findings \cap {"denial_influenced_egress", "session_halted"} # {}
  <1>2. Init => EgressAfterDenialIsMarked
    BY DEF Init, EgressAfterDenialIsMarked, ByMonitor
  <1>3. TypeOK /\ HaltIsExact /\ EgressAfterDenialIsMarked /\ [Next]_vars
            => EgressAfterDenialIsMarked'
    <2> SUFFICES ASSUME TypeOK, HaltIsExact, EgressAfterDenialIsMarked, [Next]_vars,
                        NEW i \in ByMonitor'
                 PROVE  Marked(i)'
      BY DEF EgressAfterDenialIsMarked
    <2>1. ASSUME NEW call \in Calls, AdmitHalted(call) \/ AdmitDecided(call)
          PROVE  Marked(i)'
      <3>1. PICK verdict \in Verdict, findings \in SUBSET FindingCode :
                /\ Record(step + 1, call, verdict, findings, "monitor") \in RecordType
                /\ audit' = Append(audit, Record(step + 1, call, verdict, findings, "monitor"))
                /\ halted => verdict = "deny" /\ findings = {"session_halted"}
                /\ ~halted => findings = FindingsOn(call)
        BY <2>1, Decision
      <3> DEFINE r == Record(step + 1, call, verdict, findings, "monitor")
      <3>2. r.call = call /\ r.findings = findings
        BY DEF Record
      <3>3. r \in RecordType /\ audit' = Append(audit, r)
        BY <3>1
      <3> HIDE DEF r
      <3>4. CASE i \in ByMonitor
        <4>1. audit'[i] = audit[i] /\ i \in DOMAIN audit
          BY <3>3, <3>4, MonitorRecords
        <4>2. DeniedBefore(i)' = DeniedBefore(i)
          BY <3>3, <4>1, DenialsBefore
        <4> QED
          BY <3>4, <4>1, <4>2 DEF EgressAfterDenialIsMarked
      <3>5. CASE i = Latest
        <4>1. audit'[i] = r
          BY <3>3, <3>5, MonitorRecords
        <4>2. DeniedBefore(i)' = Denied
          BY <3>3, <3>5, DenialsBefore
        <4>3. Denied # {} => denials > 0
          <5>1. Denied # {} => Cardinality(Denied) # 0
            BY DeniedFinite, FS_EmptySet
          <5> QED
            BY <5>1 DEF HaltIsExact, TypeOK
        <4>4. CASE halted
          BY <3>1, <3>2, <4>1, <4>4
        <4>5. CASE ~halted /\ Denied # {} /\ CanEgress(call.tool)
          <5>1. "denial_influenced_egress" \in FindingsOn(call)
            BY <4>3, <4>5 DEF FindingsOn, Raises, FindingCode, SessionCode
          <5> QED
            BY <3>1, <3>2, <4>1, <4>5, <5>1
        <4> QED
          BY <3>2, <4>1, <4>2, <4>4, <4>5
      <3> QED
        BY <3>3, <3>4, <3>5, MonitorRecords
    <2>2. ASSUME NEW a \in DOMAIN audit, Approve(a) PROVE Marked(i)'
      BY <2>2, ApprovalIsNotTheMonitors DEF EgressAfterDenialIsMarked
    <2>3. CASE UNCHANGED audit
      BY <2>3, SameChain DEF EgressAfterDenialIsMarked
    <2>4. ASSUME NEW confidential \in BOOLEAN, Observe(confidential) PROVE Marked(i)'
      BY <2>3, <2>4 DEF Observe
    <2>5. CASE UNCHANGED vars
      BY <2>3, <2>5 DEF vars
    <2>6. ASSUME NEW call \in Calls, AdmitFails(call) PROVE Marked(i)'
      BY <2>3, <2>6 DEF AdmitFails
    <2> QED
      BY <2>1, <2>2, <2>4, <2>5, <2>6 DEF Next
  <1> QED
    BY <1>2, <1>3, TypeCorrect, HaltCorrect, PTL DEF Spec

-----------------------------------------------------------------------------
(* The confidential context is the memory of the confidential reads, all   *)
(* of which lie behind the step counter.                                   *)
ContextInv ==
    /\ confidentialContext <=> readSteps # {}
    /\ readSteps \subseteq 1..step

LEMMA ContextStep ==
    ASSUME TypeOK, ContextInv, [Next]_vars
    PROVE  ContextInv'
  <1>1. ASSUME NEW confidential \in BOOLEAN, Observe(confidential) PROVE ContextInv'
    <2>1. confidentialContext' <=> (confidentialContext \/ confidential)
      BY <1>1 DEF Observe
    <2>2. readSteps' = (IF confidential THEN readSteps \cup {step + 1} ELSE readSteps)
      BY <1>1 DEF Observe
    <2>3. readSteps' \subseteq 1..step'
      BY <1>1, <2>2 DEF Observe, ContextInv, TypeOK
    <2>4. readSteps' # {} <=> (readSteps # {} \/ confidential)
      BY <2>2
    <2> QED
      BY <2>1, <2>3, <2>4, Zenon DEF ContextInv
  <1>2. ASSUME NEW call \in Calls, AdmitHalted(call) \/ AdmitDecided(call) PROVE ContextInv'
    <2>1. step' = step + 1
      BY <1>2 DEF AdmitHalted, AdmitDecided
    <2>2. UNCHANGED <<confidentialContext, readSteps>>
      BY <1>2 DEF AdmitHalted, AdmitDecided
    <2>3. readSteps' \subseteq 1..step'
      BY <2>1, <2>2 DEF ContextInv, TypeOK
    <2> QED
      BY <2>2, <2>3 DEF ContextInv
  <1>3. ASSUME NEW a \in DOMAIN audit, Approve(a) PROVE ContextInv'
    BY <1>3 DEF Approve, ContextInv
  <1>4. CASE UNCHANGED vars
    BY <1>4 DEF vars, ContextInv
  <1>5. ASSUME NEW call \in Calls, AdmitFails(call) PROVE ContextInv'
    BY <1>5 DEF AdmitFails, ContextInv, TypeOK
  <1> QED
    BY <1>1, <1>2, <1>3, <1>4, <1>5 DEF Next

(* The session remembers having read something confidential if and only if *)
(* it has.                                                                 *)
LEMMA ContextCorrect == Spec => []ContextInv
  <1>1. Init => ContextInv
    BY DEF Init, ContextInv
  <1> QED
    BY <1>1, ContextStep, TypeCorrect, PTL DEF Spec

(* Which confidentiality findings the monitor makes on a call.             *)
LEMMA ConfidentialFindings ==
    ASSUME TypeOK, NEW call \in Calls, CanMake(call)
    PROVE  LET marked == FindingsOn(call) \cap
                            {"confidential_egress", "confidential_context_egress"} # {}
           IN  /\ CanEgress(call.tool) /\ ~call.directed /\ confidentialContext => marked
               /\ marked => confidentialContext
  <1>1. call.codes \cap SessionCode = {}
    BY CallsTyped, SessionCodesAreTheMonitors
  <1>2. {"confidential_egress", "confidential_context_egress"} \subseteq FindingCode \cap SessionCode
    BY DEF FindingCode, SessionCode
  <1>3. Raises("confidential_egress", call) <=>
            CanEgress(call.tool) /\ ~call.directed /\ call.confidential
    BY <1>1, <1>2 DEF Raises
  <1>4. Raises("confidential_context_egress", call) <=>
            CanEgress(call.tool) /\ ~call.directed /\ ~call.confidential /\ confidentialContext
    BY <1>1, <1>2 DEF Raises
  <1> QED
    BY <1>2, <1>3, <1>4 DEF FindingsOn, CanMake

(* Once something confidential was read, no undirected egress is decided   *)
(* without a finding that says so, and there is no such finding otherwise. *)
THEOREM ConfidentialityCorrect == Spec => []ConfidentialEgressIsMarked
  <1> DEFINE ReadBefore(i) == \E s \in readSteps : s < audit[i].step
             Marked(i) == audit[i].findings \cap
                            {"confidential_egress", "confidential_context_egress"} # {}
             Sound(i) ==
                /\ /\ ReadBefore(i) /\ CanEgress(audit[i].call.tool) /\ ~audit[i].call.directed
                   /\ audit[i].findings # {"session_halted"}
                   => Marked(i)
                /\ Marked(i) => ReadBefore(i)
  <1>1. Init => ConfidentialEgressIsMarked
    BY DEF Init, ConfidentialEgressIsMarked, ByMonitor
  <1>2. TypeOK /\ ChainInv /\ ContextInv /\ ConfidentialEgressIsMarked /\ [Next]_vars
            => ConfidentialEgressIsMarked'
    <2> SUFFICES ASSUME TypeOK, ChainInv, ContextInv, ConfidentialEgressIsMarked, [Next]_vars,
                        NEW i \in ByMonitor'
                 PROVE  Sound(i)'
      BY DEF ConfidentialEgressIsMarked
    <2>1. ASSUME NEW call \in Calls, AdmitHalted(call) \/ AdmitDecided(call)
          PROVE  Sound(i)'
      <3>1. PICK verdict \in Verdict, findings \in SUBSET FindingCode :
                /\ Record(step + 1, call, verdict, findings, "monitor") \in RecordType
                /\ audit' = Append(audit, Record(step + 1, call, verdict, findings, "monitor"))
                /\ halted => findings = {"session_halted"}
                /\ ~halted => findings = FindingsOn(call)
                /\ CanMake(call)
                /\ UNCHANGED <<confidentialContext, readSteps>>
        BY <2>1, Decision
      <3> DEFINE r == Record(step + 1, call, verdict, findings, "monitor")
      <3>2. r.call = call /\ r.findings = findings /\ r.step = step + 1
        BY DEF Record
      <3>3. r \in RecordType /\ audit' = Append(audit, r)
        BY <3>1
      <3> HIDE DEF r
      <3>4. CASE i \in ByMonitor
        <4>1. audit'[i] = audit[i]
          BY <3>3, <3>4, MonitorRecords
        <4>2. Sound(i)
          BY <3>4 DEF ConfidentialEgressIsMarked
        <4> QED
          BY <3>1, <4>1, <4>2
      <3>5. CASE i = Latest
        <4>1. audit'[i] = r
          BY <3>3, <3>5, MonitorRecords
        <4>2. ReadBefore(i)' <=> confidentialContext
          <5>1. ReadBefore(i)' <=> \E s \in readSteps : s < step + 1
            BY <3>1, <3>2, <4>1
          <5>2. \A s \in readSteps : s < step + 1
            BY DEF ContextInv, TypeOK
          <5>3. confidentialContext <=> \E s \in readSteps : TRUE
            BY DEF ContextInv
          <5> QED
            BY <5>1, <5>2, <5>3
        <4>3. CASE halted
          BY <3>1, <3>2, <4>1, <4>3
        <4>4. CASE ~halted
          <5>1. findings = FindingsOn(call)
            BY <3>1, <4>4
          <5>2. Marked(i)' <=> FindingsOn(call) \cap
                            {"confidential_egress", "confidential_context_egress"} # {}
            BY <3>2, <4>1, <5>1
          <5> QED
            BY <3>1, <3>2, <4>1, <4>2, <5>2, ConfidentialFindings
        <4> QED
          BY <4>3, <4>4
      <3> QED
        BY <3>3, <3>4, <3>5, MonitorRecords
    <2>2. ASSUME NEW a \in DOMAIN audit, Approve(a) PROVE Sound(i)'
      <3>1. i \in ByMonitor /\ audit'[i] = audit[i] /\ readSteps' = readSteps
        BY <2>2, ApprovalIsNotTheMonitors DEF Approve
      <3> QED
        BY <3>1 DEF ConfidentialEgressIsMarked
    <2>3. ASSUME NEW confidential \in BOOLEAN, Observe(confidential) PROVE Sound(i)'
      <3>1. audit' = audit /\ i \in ByMonitor
        BY <2>3, SameChain DEF Observe
      <3>2. i \in DOMAIN audit /\ audit[i].step \in 1..step
        BY <3>1 DEF ByMonitor, ChainInv, StepsInOrder
      <3>3. readSteps' = readSteps \/ readSteps' = readSteps \cup {step + 1}
        BY <2>3 DEF Observe
      <3>4. ~(step + 1 < audit[i].step)
        BY <3>2 DEF TypeOK
      <3>5. ReadBefore(i)' <=> ReadBefore(i)
        BY <3>1, <3>3, <3>4
      <3> QED
        BY <3>1, <3>5 DEF ConfidentialEgressIsMarked
    <2>4. CASE UNCHANGED <<audit, readSteps>>
      <3>1. audit' = audit /\ readSteps' = readSteps /\ i \in ByMonitor
        BY <2>4, SameChain
      <3> QED
        BY <3>1 DEF ConfidentialEgressIsMarked
    <2>5. CASE UNCHANGED vars
      BY <2>4, <2>5 DEF vars
    <2>6. ASSUME NEW call \in Calls, AdmitFails(call) PROVE Sound(i)'
      BY <2>4, <2>6 DEF AdmitFails
    <2> QED
      BY <2>1, <2>2, <2>3, <2>5, <2>6 DEF Next
  <1> QED
    BY <1>1, <1>2, TypeCorrect, ChainCorrect, ContextCorrect, PTL DEF Spec

-----------------------------------------------------------------------------
(* What a budget was charged for, and what it made of it.                  *)
Paid(b) == { Argument(b, audit[i].call.args) : i \in Charged(b) }

Accounted(b) ==
    /\ IsFiniteSet(Charged(b))
    /\ IsFiniteSet(Paid(b))
    /\ BudgetOf[b].meter = "calls" => totals[b] = Cardinality(Charged(b))
    /\ BudgetOf[b].meter = "distinct" => seen[b] = Paid(b) /\ totals[b] = Cardinality(Paid(b))

AccountsInv == \A b \in Budgets : Accounted(b)

(* Whether a record is one the budget is charged for.                      *)
Charges(b, r) ==
    /\ r.verdict = "allow"
    /\ r.by = "monitor" \/ r.call.tool \in Known
    /\ Measures(b, Contract(r.call.tool), r.call.args)

LEMMA ChargedExtends ==
    ASSUME TypeOK, NEW r \in RecordType, audit' = Append(audit, r), NEW b \in Budgets
    PROVE  /\ Charged(b)' = IF Charges(b, r) THEN Charged(b) \cup {Latest} ELSE Charged(b)
           /\ Paid(b)' = IF Charges(b, r) THEN Paid(b) \cup {Argument(b, r.call.args)} ELSE Paid(b)
           /\ Latest \notin Charged(b)
  <1>1. /\ DOMAIN audit' = DOMAIN audit \cup {Latest}
        /\ Latest \notin DOMAIN audit
        /\ \A i \in DOMAIN audit : audit'[i] = audit[i]
        /\ audit'[Latest] = r
    BY Extended
  <1>2. Charged(b)' = IF Charges(b, r) THEN Charged(b) \cup {Latest} ELSE Charged(b)
    BY <1>1 DEF Charged, Allowed, Charges
  <1>3. Charged(b) \subseteq DOMAIN audit
    BY DEF Charged, Allowed
  <1>4. Paid(b)' = { Argument(b, audit'[i].call.args) : i \in Charged(b)' }
    BY DEF Paid, Argument
  <1>5. \A i \in Charged(b) : Argument(b, audit'[i].call.args) = Argument(b, audit[i].call.args)
    BY <1>1, <1>3
  <1>6. Paid(b) = { Argument(b, audit[i].call.args) : i \in Charged(b) }
    BY DEF Paid
  <1>7. Paid(b)' = IF Charges(b, r) THEN Paid(b) \cup {Argument(b, r.call.args)} ELSE Paid(b)
    <2>1. CASE Charges(b, r)
      <3>1. Argument(b, audit'[Latest].call.args) = Argument(b, r.call.args)
        BY <1>1
      <3>2. Charged(b)' = Charged(b) \cup {Latest}
        BY <1>2, <2>1
      <3>3. Paid(b)' = Paid(b) \cup {Argument(b, r.call.args)}
        BY <1>4, <1>5, <1>6, <3>1, <3>2
      <3> QED
        BY <2>1, <3>3
    <2>2. CASE ~Charges(b, r)
      BY <1>2, <1>4, <1>5, <1>6, <2>2
    <2> QED
      BY <2>1, <2>2
  <1> QED
    BY <1>1, <1>2, <1>3, <1>7

(* The sum of two numbers that are not NaN is their sum.                   *)
LEMMA PlusNumbers ==
    ASSUME NEW x \in Int, NEW y \in Int
    PROVE  Plus(x, y) = x + y
    BY BudgetsAssumption DEF Plus

(* One record more, charged if and only if it is one to be charged for.    *)
LEMMA ChargeIsAccounted ==
    ASSUME TypeOK, AccountsInv, NEW r \in RecordType, audit' = Append(audit, r),
           IF r.verdict = "allow" /\ (r.by = "monitor" \/ r.call.tool \in Known)
           THEN Charge(r.call) ELSE UNCHANGED <<totals, seen>>
    PROVE  AccountsInv'
  <1> SUFFICES ASSUME NEW b \in Budgets PROVE Accounted(b)'
    BY DEF AccountsInv
  <1> DEFINE k == Contract(r.call.tool)
             args == r.call.args
             x == Argument(b, args)
  <1>1. Accounted(b)
    BY DEF AccountsInv
  <1>2. /\ Charged(b)' = IF Charges(b, r) THEN Charged(b) \cup {Latest} ELSE Charged(b)
        /\ Paid(b)' = IF Charges(b, r) THEN Paid(b) \cup {x} ELSE Paid(b)
        /\ Latest \notin Charged(b)
    BY ChargedExtends
  <1>3. /\ IsFiniteSet(Charged(b)) /\ IsFiniteSet(Paid(b))
        /\ Cardinality(Charged(b)) \in Nat /\ Cardinality(Paid(b)) \in Nat
    BY <1>1, FS_CardinalityType DEF Accounted
  <1>4. IsFiniteSet(Charged(b)') /\ IsFiniteSet(Paid(b)')
    BY <1>2, <1>3, FS_AddElement
  <1>5. CASE ~Charges(b, r)
    <2>1. totals'[b] = totals[b] /\ seen'[b] = seen[b]
      BY <1>5 DEF Charges, Charge, TotalsAfter, SeenAfter
    <2> QED
      BY <1>1, <1>2, <1>4, <1>5, <2>1 DEF Accounted
  <1>6. CASE Charges(b, r)
    <2>1. Charge(r.call) /\ Measures(b, k, args)
      BY <1>6 DEF Charges
    <2>2. totals'[b] = Plus(totals[b], Delta(b, args, seen))
      BY <2>1 DEF Charge, TotalsAfter
    <2>3. seen'[b] = IF BudgetOf[b].meter = "distinct" THEN seen[b] \cup {x} ELSE seen[b]
      BY <2>1 DEF Charge, SeenAfter
    <2>4. CASE BudgetOf[b].meter = "calls"
      <3>1. Delta(b, args, seen) = 1
        BY <2>4 DEF Delta
      <3>2. totals[b] = Cardinality(Charged(b))
        BY <1>1, <2>4 DEF Accounted
      <3>3. totals'[b] = Cardinality(Charged(b)) + 1
        BY <1>3, <2>2, <3>1, <3>2, PlusNumbers
      <3>4. Cardinality(Charged(b)') = Cardinality(Charged(b)) + 1
        BY <1>2, <1>3, <1>6, FS_AddElement
      <3> QED
        BY <1>4, <2>4, <3>3, <3>4 DEF Accounted
    <2>5. CASE BudgetOf[b].meter = "distinct"
      <3>1. Delta(b, args, seen) = IF x \in seen[b] THEN 0 ELSE 1
        BY <2>5 DEF Delta
      <3>2. seen[b] = Paid(b) /\ totals[b] = Cardinality(Paid(b))
        BY <1>1, <2>5 DEF Accounted
      <3>3. totals'[b] = Cardinality(Paid(b)) + (IF x \in Paid(b) THEN 0 ELSE 1)
        <4>1. CASE x \in Paid(b)
          BY <1>3, <2>2, <3>1, <3>2, <4>1, PlusNumbers
        <4>2. CASE x \notin Paid(b)
          BY <1>3, <2>2, <3>1, <3>2, <4>2, PlusNumbers
        <4> QED
          BY <4>1, <4>2
      <3>4. Cardinality(Paid(b)') = Cardinality(Paid(b)) + (IF x \in Paid(b) THEN 0 ELSE 1)
        <4>1. Paid(b)' = Paid(b) \cup {x}
          BY <1>2, <1>6
        <4>2. CASE x \in Paid(b)
          <5>1. Paid(b)' = Paid(b)
            BY <4>1, <4>2
          <5> QED
            BY <1>3, <4>2, <5>1
        <4>3. CASE x \notin Paid(b)
          BY <1>3, <4>1, <4>3, FS_AddElement
        <4> QED
          BY <4>2, <4>3
      <3>5. seen'[b] = Paid(b)'
        BY <1>2, <1>6, <2>3, <2>5, <3>2
      <3> QED
        BY <1>4, <2>5, <3>3, <3>4, <3>5 DEF Accounted
    <2>6. CASE BudgetOf[b].meter \notin {"calls", "distinct"}
      BY <1>4, <2>6 DEF Accounted
    <2> QED
      BY <2>4, <2>5, <2>6
  <1> QED
    BY <1>5, <1>6

(* Budgets of calls and of destinations count the calls that were          *)
(* committed, all of them and nothing else: whoever allowed them and       *)
(* whatever was refused between.  Sums are left out.                       *)
THEOREM BudgetsCorrect == Spec => []BudgetsCountCommittedCalls
  <1>1. AccountsInv => BudgetsCountCommittedCalls
    BY DEF AccountsInv, Accounted, Paid, BudgetsCountCommittedCalls
  <1>2. Init => AccountsInv
    <2> SUFFICES ASSUME Init, NEW b \in Budgets PROVE Accounted(b)
      BY DEF AccountsInv
    <2>1. Charged(b) = {}
      BY DEF Init, Charged, Allowed
    <2>2. Paid(b) = {}
      BY <2>1 DEF Paid
    <2> QED
      BY <2>1, <2>2, FS_EmptySet DEF Init, InitTotals, InitSeen, Accounted
  <1>3. TypeOK /\ AccountsInv /\ [Next]_vars => AccountsInv'
    <2> SUFFICES ASSUME TypeOK, AccountsInv, [Next]_vars PROVE AccountsInv'
      OBVIOUS
    <2>1. CASE UNCHANGED <<audit, totals, seen>>
      <3>1. \A b : Charged(b)' = Charged(b)
        BY <2>1 DEF Charged, Allowed
      <3>2. \A b : Paid(b)' = Paid(b)
        BY <2>1, <3>1 DEF Paid
      <3> QED
        BY <2>1, <3>1, <3>2 DEF AccountsInv, Accounted
    <2>2. ASSUME NEW confidential \in BOOLEAN, Observe(confidential) PROVE AccountsInv'
      BY <2>1, <2>2 DEF Observe
    <2>3. ASSUME NEW call \in Calls, AdmitHalted(call) \/ AdmitDecided(call)
          PROVE  AccountsInv'
      <3>1. PICK verdict \in Verdict, findings \in SUBSET FindingCode :
                /\ Record(step + 1, call, verdict, findings, "monitor") \in RecordType
                /\ audit' = Append(audit, Record(step + 1, call, verdict, findings, "monitor"))
                /\ halted => verdict = "deny"
                /\ ~halted => AdmitDecided(call) /\ verdict = VerdictOf(Policy, FindingsOn(call))
        BY <2>3, Decision
      <3> DEFINE r == Record(step + 1, call, verdict, findings, "monitor")
      <3>2. r.call = call /\ r.verdict = verdict /\ r.by = "monitor"
        BY DEF Record
      <3>3. r \in RecordType /\ audit' = Append(audit, r)
        BY <3>1
      <3> HIDE DEF r
      <3>4. IF verdict = "allow" THEN Charge(call) ELSE UNCHANGED <<totals, seen>>
        BY <2>3, <3>1 DEF AdmitHalted, AdmitDecided
      <3> QED
        BY <3>2, <3>3, <3>4, ChargeIsAccounted
    <2>4. ASSUME NEW a \in DOMAIN audit, Approve(a) PROVE AccountsInv'
      <3> DEFINE r == [audit[a] EXCEPT !.verdict = "allow", !.by = "human"]
      <3>1. r \in RecordType /\ audit' = Append(audit, r)
        BY <2>4, Approved
      <3>2. r.verdict = "allow" /\ r.by = "human" /\ r.call = audit[a].call
        BY ApprovedRecord
      <3> HIDE DEF r
      <3>3. IF r.call.tool \in Known THEN Charge(r.call) ELSE UNCHANGED <<totals, seen>>
        BY <2>4, <3>2 DEF Approve
      <3> QED
        BY <3>1, <3>2, <3>3, ChargeIsAccounted
    <2>5. CASE UNCHANGED vars
      BY <2>1, <2>5 DEF vars
    <2>6. ASSUME NEW call \in Calls, AdmitFails(call) PROVE AccountsInv'
      BY <2>1, <2>6 DEF AdmitFails
    <2> QED
      BY <2>2, <2>3, <2>4, <2>5, <2>6 DEF Next
  <1> QED
    BY <1>1, <1>2, <1>3, TypeCorrect, PTL DEF Spec
=============================================================================
