------------------------- MODULE SessionProperties --------------------------
(***************************************************************************)
(* What the admission monitor promises over a whole session, and what the  *)
(* documentation promises that it does not keep.                           *)
(***************************************************************************)
EXTENDS Session

(* Every variable holds values of its kind; in particular no total leaves  *)
(* the floats and no record a decision the program could not have made.    *)
TypeOK ==
    /\ step \in Nat
    /\ denials \in Nat
    /\ halted \in BOOLEAN
    /\ confidentialContext \in BOOLEAN
    /\ totals \in TotalsType
    /\ seen \in SeenType
    /\ audit \in Seq(RecordType)
    /\ readSteps \in SUBSET Nat

-----------------------------------------------------------------------------
ByMonitor == { i \in DOMAIN audit : audit[i].by = "monitor" }
Denied == { i \in DOMAIN audit : audit[i].verdict = "deny" }
Allowed == { i \in DOMAIN audit : audit[i].verdict = "allow" }
DeniedBefore(i) == { j \in Denied : j < i }

(* The counter behind denial_channel_bits and the halt agrees with the     *)
(* audit chain: as many denials were counted as recorded, and the session  *)
(* is halted exactly when there were more of them than the budget (never,  *)
(* when it is negative).                                                   *)
HaltIsExact ==
    /\ denials = Cardinality(Denied)
    /\ halted <=> (DenialBudget >= 0 /\ denials > DenialBudget)

(* The halt is final for the monitor: whatever it decides after the denial *)
(* that exhausted the budget is a refusal that says only that the session  *)
(* is halted, and before that denial no refusal says so.                   *)
NothingAdmittedAfterHalt ==
    \A i \in ByMonitor :
        LET exhausted == DenialBudget >= 0 /\ Cardinality(DeniedBefore(i)) > DenialBudget
        IN  IF exhausted
            THEN audit[i].verdict = "deny" /\ audit[i].findings = {"session_halted"}
            ELSE "session_halted" \notin audit[i].findings

(* THREAT_MODEL P01: every egress call decided after a denial carries a    *)
(* finding recording it, for as long as calls are decided at all.          *)
EgressAfterDenialIsMarked ==
    \A i \in ByMonitor :
        DeniedBefore(i) # {} /\ CanEgress(audit[i].call.tool) =>
            audit[i].findings \cap {"denial_influenced_egress", "session_halted"} # {}

(* The sound half of the confidentiality rule: once a confidential source  *)
(* was observed, no egress call to a destination the principal did not     *)
(* choose is decided without a confidentiality finding on it, and no such  *)
(* finding appears in a session that read nothing confidential.            *)
ConfidentialEgressIsMarked ==
    \A i \in ByMonitor :
        LET marked == audit[i].findings \cap
                        {"confidential_egress", "confidential_context_egress"} # {}
            readBefore == \E s \in readSteps : s < audit[i].step
        IN  /\ /\ readBefore /\ CanEgress(audit[i].call.tool) /\ ~audit[i].call.directed
               /\ audit[i].findings # {"session_halted"}
               => marked
            /\ marked => readBefore

(* A human can only turn an escalation into a permission: behind every     *)
(* approval is an earlier decision of the monitor on the same call at the  *)
(* same step that escalated it, with the same findings.  A denied step is  *)
(* never allowed by anyone.                                                *)
ApprovalsAreOfEscalations ==
    \A i \in DOMAIN audit \ ByMonitor :
        /\ audit[i].verdict = "allow"
        /\ \E j \in ByMonitor :
            /\ j < i
            /\ audit[j].verdict = "escalate"
            /\ audit[j] = [audit[i] EXCEPT !.verdict = "escalate", !.by = "monitor"]
        /\ \A j \in Denied : audit[j].step # audit[i].step

(* Read as the fate of each call, the session is a gate: each step decided *)
(* once, a refusal for good, an approval of a held call only, and nothing  *)
(* released on its merits once the gate is closed.                         *)
StepsWith(verdict) == { audit[i].step : i \in { k \in DOMAIN audit : audit[k].verdict = verdict } }

AsGate == INSTANCE Gate WITH
    Steps <- 1..MaxSteps,
    released <- StepsWith("allow"),
    refused <- StepsWith("deny"),
    awaiting <- StepsWith("escalate") \ StepsWith("allow"),
    open <- ~halted

ActsAsGate == AsGate!GateSpec

-----------------------------------------------------------------------------
Charged(b) ==
    { i \in Allowed : /\ Measures(b, Contract(audit[i].call.tool), audit[i].call.args)
                      /\ audit[i].by = "monitor" \/ audit[i].call.tool \in Known }

(* Budgets are consumed by committed actions only, and by every one of     *)
(* them: a CALLS total is the number of allowed calls in its scope, a      *)
(* DISTINCT total the number of different destinations they named.  Denied *)
(* and pending calls have spent nothing.                                   *)
BudgetsCountCommittedCalls ==
    \A b \in Budgets :
        LET paid == { Argument(b, audit[i].call.args) : i \in Charged(b) }
        IN  /\ BudgetOf[b].meter = "calls" => totals[b] = Cardinality(Charged(b))
            /\ BudgetOf[b].meter = "distinct" =>
                    seen[b] = paid /\ totals[b] = Cardinality(paid)

(* A limit the policy enforces holds at every moment of a session nobody   *)
(* approved anything in, whatever the calls and their order.               *)
LimitsHoldWithoutApprovals ==
    Policy["budget_exceeded"] # "allow" /\ Approvals = {} =>
        \A b \in Budgets : ~Exceeds(totals[b], BudgetOf[b].limit)

-----------------------------------------------------------------------------
(* Documented, and not what the code does.                                 *)

(* monitor.py:125 "budgets bound what the session may do in aggregate":    *)
(* a limit the policy says to deny beyond is never exceeded.  approve      *)
(* charges a decision that was checked before other calls were charged.    *)
LimitsHold ==
    Policy["budget_exceeded"] = "deny" =>
        \A b \in Budgets : ~Exceeds(totals[b], BudgetOf[b].limit)

(* budget.py:127 a number given as text must not be silently ignored, "it  *)
(* would look enforced": the amounts committed under a SUM budget the      *)
(* policy enforces add up to no more than its limit, those that are no     *)
(* number counting nothing.  NaN absorbs the total and every later check.  *)
SumAmount(b, i) ==
    LET v == Argument(b, audit[i].call.args) IN IF v \in Int THEN v ELSE 0

SumsAreEnforced ==
    Policy["budget_exceeded"] = "deny" =>
        \A b \in Budgets :
            BudgetOf[b].meter = "sum" =>
                LET paid[i \in 0..Len(audit)] ==
                        IF i = 0 THEN 0
                        ELSE paid[i - 1] + (IF i \in Charged(b) THEN SumAmount(b, i) ELSE 0)
                IN  paid[Len(audit)] <= BudgetOf[b].limit
=============================================================================
