------------------------------ MODULE Session -------------------------------
(***************************************************************************)
(* The admission monitor (monitor.py, class Session): the state that one   *)
(* agent's execution carries from call to call, and the operations that    *)
(* change it.                                                              *)
(*                                                                         *)
(*   Observe   content enters the context under a source's label           *)
(*   Admit     a tool call is decided, recorded and, if allowed, charged   *)
(*   Approve   a human turns one escalated decision into an allowed one    *)
(*                                                                         *)
(* What attribution says of a call's arguments is a fact about the ledger, *)
(* which has modules of its own; here it is part of the call: the finding  *)
(* codes its leaves raise, whether what it carries is confidential, and    *)
(* whether the principal chose its destination.  The monitor adds what     *)
(* depends on the history of the session: denials, confidential reads,     *)
(* budgets and the halt.                                                   *)
(***************************************************************************)
EXTENDS Budgets, Sequences, FiniteSets, Verdicts

CONSTANTS
    Known,          (* the tools a contract is declared for                *)
    EffectsOf,      (* the effects their contracts declare                 *)
    Policy,         (* the session's policy                                *)
    DenialBudget,   (* Policy.denial_budget; negative: never halt          *)
    Calls,          (* the calls the agent may make                        *)
    MaxSteps,       (* bound: observations and calls in one session        *)
    MaxApprovals    (* bound: approvals in one session                     *)

(* An attribution can only be principal-directed when every authority      *)
(* value has a principal among its origins, and the principal is           *)
(* authoritative for every kind: such a call has no attribution failure.   *)
CallType ==
    { c \in [tool : Tools, args : ArgsType, codes : SUBSET LeafCode,
             confidential : BOOLEAN, directed : BOOLEAN] :
        c.directed => c.codes \cap {"unattributed_authority", "unauthorised_authority"} = {} }

ASSUME SessionAssumption ==
    /\ Known \subseteq Tools
    /\ EffectsOf \in [Known -> SUBSET Effect]
    /\ Policy \in PolicyType
    /\ DenialBudget \in Int
    /\ \A c \in Calls : c \in CallType
    /\ MaxSteps \in Nat
    /\ MaxApprovals \in Nat

VARIABLES
    step,           (* _step                                               *)
    denials,        (* _denials                                            *)
    halted,         (* _halted                                             *)
    confidentialContext, (* _confidential_context                          *)
    totals,         (* budgets._totals                                     *)
    seen,           (* budgets._seen                                       *)
    audit,          (* the audit chain, each record with its decision      *)
    readSteps       (* history: the steps at which a confidential source   *)
                    (* was observed                                        *)

vars == <<step, denials, halted, confidentialContext, totals, seen, audit, readSteps>>

-----------------------------------------------------------------------------
(* An unknown tool is assumed to write, to egress and to be irreversible.  *)
UnknownToolEffects == {"write", "network_egress", "irreversible"}

Contract(tool) ==
    [tool |-> tool,
     effects |-> IF tool \in Known THEN EffectsOf[tool] ELSE UnknownToolEffects]

CanEgress(tool) == "network_egress" \in Contract(tool).effects

(* A decision, as returned to the caller and as recorded: the audit record *)
(* of a decision and the Decision object the caller keeps are one here.    *)
Record(s, call, verdict, findings, by) ==
    [step |-> s, call |-> call, verdict |-> verdict, findings |-> findings, by |-> by]

RecordType ==
    [step : Nat, call : CallType, verdict : Verdict, findings : SUBSET FindingCode,
     by : {"monitor", "human"}]

(* The findings on a call, given what the session remembers.               *)
Raises(code, call) ==
    LET egress == CanEgress(call.tool)
        undirected == egress /\ ~call.directed
    IN  \/ code \in call.codes
        \/ code = "unknown_tool" /\ call.tool \notin Known
        \/ code = "denial_influenced_egress" /\ egress /\ denials > 0
        \/ code = "confidential_egress" /\ undirected /\ call.confidential
        \/ /\ code = "confidential_context_egress"
           /\ undirected /\ ~call.confidential /\ confidentialContext
        \/ /\ code = "budget_exceeded"
           /\ Breaches(Contract(call.tool), call.args, totals, seen) # {}

FindingsOn(call) == { code \in FindingCode : Raises(code, call) }

(* A slip: the session halts at the denial that reaches the budget.        *)
FinaliseEarly(call, verdict, findings) ==
    /\ audit' = Append(audit, Record(step + 1, call, verdict, findings, "monitor"))
    /\ denials' = IF verdict = "deny" THEN denials + 1 ELSE denials
    /\ halted' = (halted \/ (verdict = "deny" /\ DenialBudget >= 0 /\ denials + 1 >= DenialBudget))

(* A slip: only denials in a row are counted.                              *)
FinaliseInARow(call, verdict, findings) ==
    /\ audit' = Append(audit, Record(step + 1, call, verdict, findings, "monitor"))
    /\ denials' = IF verdict = "deny" THEN denials + 1 ELSE 0
    /\ halted' = (halted \/ (verdict = "deny" /\ DenialBudget >= 0 /\ denials + 1 > DenialBudget))

(* _finalise: record the decision, count a denial, halt past the budget.   *)
Finalise(call, verdict, findings) ==
    /\ audit' = Append(audit, Record(step + 1, call, verdict, findings, "monitor"))
    /\ denials' = IF verdict = "deny" THEN denials + 1 ELSE denials
    /\ halted' = (halted \/ (verdict = "deny" /\ DenialBudget >= 0 /\ denials + 1 > DenialBudget))

Charge(call) ==
    /\ totals' = TotalsAfter(Contract(call.tool), call.args, totals, seen)
    /\ seen' = SeenAfter(Contract(call.tool), call.args, seen)

-----------------------------------------------------------------------------
Init ==
    /\ step = 0
    /\ denials = 0
    /\ halted = FALSE
    /\ confidentialContext = FALSE
    /\ totals = InitTotals
    /\ seen = InitSeen
    /\ audit = <<>>
    /\ readSteps = {}

(* A slip: the label of the last source observed replaces the earlier ones.*)
ObserveLast(confidential) ==
    /\ step < MaxSteps
    /\ step' = step + 1
    /\ confidentialContext' = confidential
    /\ readSteps' = IF confidential THEN readSteps \cup {step + 1} ELSE readSteps
    /\ UNCHANGED <<denials, halted, totals, seen, audit>>

(* observe: the label is noted before the content is walked, so a walk that*)
(* raises (the intake bound) leaves this state behind all the same.        *)
Observe(confidential) ==
    /\ step < MaxSteps
    /\ step' = step + 1
    /\ confidentialContext' = (confidentialContext \/ confidential)
    /\ readSteps' = IF confidential THEN readSteps \cup {step + 1} ELSE readSteps
    /\ UNCHANGED <<denials, halted, totals, seen, audit>>

(* A value is confidential through an origin the ledger recorded, so there *)
(* is a confidential observation behind every confidential call.           *)
CanMake(call) == call.confidential => confidentialContext

(* admit, after the halt: refused whatever it is, and counted.             *)
AdmitHalted(call) ==
    /\ step < MaxSteps
    /\ halted
    /\ CanMake(call)
    /\ step' = step + 1
    /\ Finalise(call, "deny", {"session_halted"})
    /\ UNCHANGED <<confidentialContext, totals, seen, readSteps>>

BudgetsFail(call) == CannotBeTold(Contract(call.tool), call.args, totals, seen)

(* admit breaks off where a budget's breach is told, whatever the policy   *)
(* makes of it: the step is taken, nothing is recorded, counted or charged,*)
(* and the caller gets an OverflowError in place of a decision.            *)
AdmitFails(call) ==
    /\ step < MaxSteps
    /\ ~halted
    /\ CanMake(call)
    /\ BudgetsFail(call)
    /\ step' = step + 1
    /\ UNCHANGED <<denials, halted, confidentialContext, totals, seen, audit, readSteps>>

(* admit: decided on its findings, charged when allowed.                   *)
AdmitDecided(call) ==
    /\ step < MaxSteps
    /\ ~halted
    /\ CanMake(call)
    /\ ~BudgetsFail(call)
    /\ step' = step + 1
    /\ LET verdict == VerdictOf(Policy, FindingsOn(call))
       IN  /\ Finalise(call, verdict, FindingsOn(call))
           /\ IF verdict = "allow" THEN Charge(call) ELSE UNCHANGED <<totals, seen>>
    /\ UNCHANGED <<confidentialContext, readSteps>>

Approvals == { i \in DOMAIN audit : audit[i].by = "human" }

(* A slip: whatever was not allowed can be approved.                       *)
ApproveRefused(i) ==
    /\ Cardinality(Approvals) < MaxApprovals
    /\ audit[i].verdict # "allow"
    /\ audit' = Append(audit, [audit[i] EXCEPT !.verdict = "allow", !.by = "human"])
    /\ IF audit[i].call.tool \in Known THEN Charge(audit[i].call) ELSE UNCHANGED <<totals, seen>>
    /\ UNCHANGED <<step, denials, halted, confidentialContext, readSteps>>

(* A slip: the approval is recorded as a decision of the latest step.      *)
ApproveRestamped(i) ==
    /\ Cardinality(Approvals) < MaxApprovals
    /\ audit[i].verdict = "escalate"
    /\ audit' = Append(audit, [audit[i] EXCEPT !.verdict = "allow", !.by = "human", !.step = step])
    /\ IF audit[i].call.tool \in Known THEN Charge(audit[i].call) ELSE UNCHANGED <<totals, seen>>
    /\ UNCHANGED <<step, denials, halted, confidentialContext, readSteps>>

(* approve: the caller still holds decision i.  Only an escalated one can  *)
(* be approved; a tool without a contract is not charged.                  *)
Approve(i) ==
    /\ Cardinality(Approvals) < MaxApprovals
    /\ audit[i].verdict = "escalate"
    /\ audit' = Append(audit, [audit[i] EXCEPT !.verdict = "allow", !.by = "human"])
    /\ IF audit[i].call.tool \in Known THEN Charge(audit[i].call) ELSE UNCHANGED <<totals, seen>>
    /\ UNCHANGED <<step, denials, halted, confidentialContext, readSteps>>

Next ==
    \/ \E confidential \in BOOLEAN : Observe(confidential)
    \/ \E call \in Calls : AdmitHalted(call) \/ AdmitFails(call) \/ AdmitDecided(call)
    \/ \E i \in DOMAIN audit : Approve(i)

Spec == Init /\ [][Next]_vars
=============================================================================
