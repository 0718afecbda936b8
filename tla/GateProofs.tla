----------------------------- MODULE GateProofs -----------------------------
(***************************************************************************)
(* The monitor implements the gate: read as the fate of each step, every   *)
(* step of the session is a step of Gate or leaves its state alone.        *)
(***************************************************************************)
EXTENDS SessionProofs

(* Appending a record adds its step to the steps with its verdict.         *)
LEMMA FatesExtended ==
    ASSUME TypeOK, NEW r \in RecordType, audit' = Append(audit, r), NEW v
    PROVE  StepsWith(v)' = IF r.verdict = v THEN StepsWith(v) \cup {r.step} ELSE StepsWith(v)
  BY Extended DEF StepsWith

(* No step beyond the counter has a fate.                                  *)
LEMMA FreshStep ==
    ASSUME TypeOK, ChainInv, NEW v
    PROVE  step + 1 \notin StepsWith(v)
  BY DEF StepsWith, ChainInv, StepsInOrder, TypeOK

(* The step of an admission is one the gate may decide.                    *)
LEMMA DecidedStep ==
    ASSUME TypeOK, ChainInv, step < MaxSteps
    PROVE  step + 1 \in 1..MaxSteps
  BY SessionAssumption DEF TypeOK

(* _finalise, on its merits or after the halt, decides a fresh step.       *)
LEMMA FinaliseIsAGateStep ==
    ASSUME TypeOK, ChainInv, step < MaxSteps,
           NEW call \in CallType, NEW verdict \in Verdict, NEW findings \in SUBSET FindingCode,
           Finalise(call, verdict, findings), halted => verdict = "deny"
    PROVE  AsGate!GateNext
  <1> DEFINE r == Record(step + 1, call, verdict, findings, "monitor")
             s == step + 1
  <1>1. r \in RecordType /\ audit' = Append(audit, r) /\ r.verdict = verdict /\ r.step = s
    BY RecordTyped DEF Finalise, Record
  <1> HIDE DEF r
  <1>2. \A v : StepsWith(v)' = IF verdict = v THEN StepsWith(v) \cup {s} ELSE StepsWith(v)
    BY <1>1, FatesExtended
  <1>3. \A v : s \notin StepsWith(v)
    BY FreshStep
  <1>4. s \in 1..MaxSteps
    BY DecidedStep
  <1>5. s \notin AsGate!Decided
    BY <1>3 DEF AsGate!Decided
  <1> HIDE DEF s
  <1>6. CASE verdict = "allow"
    <2>1. ~halted /\ halted' = halted
      BY <1>6 DEF Finalise, TypeOK
    <2>2. AsGate!Release(s)
      BY <1>2, <1>3, <1>5, <1>6, <2>1 DEF AsGate!Release
    <2> QED
      BY <1>4, <2>2 DEF AsGate!GateNext
  <1>7. CASE verdict = "escalate"
    <2>1. ~halted /\ halted' = halted
      BY <1>7 DEF Finalise, TypeOK
    <2>2. AsGate!Hold(s)
      BY <1>2, <1>3, <1>5, <1>7, <2>1 DEF AsGate!Hold
    <2> QED
      BY <1>4, <2>2 DEF AsGate!GateNext
  <1>8. CASE verdict = "deny"
    <2>1. (~halted)' \in {~halted, FALSE}
      BY DEF Finalise, TypeOK
    <2>2. AsGate!Refuse(s)
      BY <1>2, <1>3, <1>5, <1>8, <2>1 DEF AsGate!Refuse
    <2> QED
      BY <1>4, <2>2 DEF AsGate!GateNext
  <1> QED
    BY <1>6, <1>7, <1>8 DEF Verdict

(* approve grants a held step, or repeats a permission already given.      *)
LEMMA ApproveIsAGateStep ==
    ASSUME TypeOK, ChainInv, NEW i \in DOMAIN audit, Approve(i)
    PROVE  AsGate!GateNext \/ UNCHANGED AsGate!gateVars
  <1> DEFINE r == [audit[i] EXCEPT !.verdict = "allow", !.by = "human"]
             s == audit[i].step
  <1>1. /\ r \in RecordType /\ audit' = Append(audit, r)
        /\ r.verdict = "allow" /\ r.step = s
        /\ audit[i].verdict = "escalate"
    BY Approved, ApprovedRecord
  <1> HIDE DEF r
  <1>2. \A v : StepsWith(v)' = IF v = "allow" THEN StepsWith(v) \cup {s} ELSE StepsWith(v)
    BY <1>1, FatesExtended
  <1>3. s \in StepsWith("escalate")
    BY <1>1 DEF StepsWith
  <1>4. s \in 1..MaxSteps
    BY SessionAssumption DEF TypeOK, ChainInv, StepsInOrder
  <1>5. halted' = halted
    BY DEF Approve
  <1> HIDE DEF s
  <1>6. CASE s \in StepsWith("allow")
    BY <1>2, <1>5, <1>6 DEF AsGate!gateVars
  <1>7. CASE s \notin StepsWith("allow")
    <2>1. AsGate!Grant(s)
      BY <1>2, <1>3, <1>5, <1>7 DEF AsGate!Grant
    <2> QED
      BY <1>4, <2>1 DEF AsGate!GateNext
  <1> QED
    BY <1>6, <1>7

(* Every session is a behaviour of the gate: each call is decided once, a  *)
(* refusal is for good, a human releases held calls only, and a halted     *)
(* session releases nothing by itself.                                     *)
THEOREM SessionIsAGate == Spec => ActsAsGate
  <1>1. Init => AsGate!GateInit
    BY DEF Init, AsGate!GateInit, StepsWith
  <1>2. TypeOK /\ ChainInv /\ [Next]_vars => [AsGate!GateNext]_AsGate!gateVars
    <2> SUFFICES ASSUME TypeOK, ChainInv, [Next]_vars
                 PROVE  AsGate!GateNext \/ UNCHANGED AsGate!gateVars
      OBVIOUS
    <2>1. ASSUME NEW confidential \in BOOLEAN, Observe(confidential)
          PROVE  UNCHANGED AsGate!gateVars
      BY <2>1 DEF Observe, AsGate!gateVars, StepsWith
    <2>2. ASSUME NEW call \in Calls, AdmitHalted(call) PROVE AsGate!GateNext
      BY <2>2, CallsTyped, FinaliseIsAGateStep
      DEF AdmitHalted, Verdict, FindingCode, SessionCode
    <2>3. ASSUME NEW call \in Calls, AdmitDecided(call) PROVE AsGate!GateNext
      <3>1. FindingsOn(call) \in SUBSET FindingCode
        BY DEF FindingsOn
      <3> QED
        BY <2>3, <3>1, CallsTyped, VerdictType, FinaliseIsAGateStep DEF AdmitDecided
    <2>4. ASSUME NEW i \in DOMAIN audit, Approve(i)
          PROVE  AsGate!GateNext \/ UNCHANGED AsGate!gateVars
      BY <2>4, ApproveIsAGateStep
    <2>5. CASE UNCHANGED vars
      BY <2>5 DEF vars, AsGate!gateVars, StepsWith
    <2>6. ASSUME NEW call \in Calls, AdmitFails(call) PROVE UNCHANGED AsGate!gateVars
      BY <2>6 DEF AdmitFails, AsGate!gateVars, StepsWith
    <2> QED
      BY <2>1, <2>2, <2>3, <2>4, <2>5, <2>6 DEF Next
  <1> QED
    BY <1>1, <1>2, TypeCorrect, ChainCorrect, PTL DEF Spec, ActsAsGate, AsGate!GateSpec
=============================================================================
