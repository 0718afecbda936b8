------------------------------ MODULE Verdicts ------------------------------
(***************************************************************************)
(* Verdicts, finding codes and policies (decision.py, policy.py): what can *)
(* be wrong with a call, and what a policy makes of it.  A verdict is the  *)
(* worst disposition among the findings of the call, so that the order in  *)
(* which the monitor collects them does not matter.                        *)
(***************************************************************************)
EXTENDS Naturals

Verdict == {"allow", "escalate", "deny"}

Severity(v) == CASE v = "allow" -> 0 [] v = "escalate" -> 1 [] v = "deny" -> 2

WorseOf(v, w) == IF Severity(v) >= Severity(w) THEN v ELSE w

(* Findings about one leaf of one argument, raised by attribution.         *)
LeafCode ==
    { "unattributed_authority", "unauthorised_authority", "unknown_seal",
      "kind_mismatch", "undeclared_parameter" }

(* Findings about the call against the state of the session.               *)
SessionCode ==
    { "unknown_tool", "confidential_egress", "confidential_context_egress",
      "budget_exceeded", "denial_influenced_egress", "session_halted" }

FindingCode == LeafCode \cup SessionCode

(* The codes a policy has a disposition for.  The two others say something *)
(* to the auditor and weigh nothing in a verdict.                          *)
Tunable == FindingCode \ {"undeclared_parameter", "session_halted"}

PolicyType == [Tunable -> Verdict]

DispositionFor(policy, code) ==
    IF code \in Tunable THEN policy[code] ELSE "allow"

(* The verdict the monitor reaches by taking the worse of its verdict so   *)
(* far and the disposition of each finding, starting from "allow".         *)
VerdictOf(policy, findings) ==
    IF \E c \in findings : DispositionFor(policy, c) = "deny" THEN "deny"
    ELSE IF \E c \in findings : DispositionFor(policy, c) = "escalate" THEN "escalate"
    ELSE "allow"

(* The presets of policy.py.  STRICT denies whatever is not justified;     *)
(* SUPERVISED asks a human about attribution and budgets; OBSERVE only     *)
(* records.                                                                *)
STRICT ==
    [c \in Tunable |->
        CASE c = "confidential_egress" -> "escalate"
          [] c \in {"confidential_context_egress", "denial_influenced_egress"} -> "allow"
          [] OTHER -> "deny"]

SUPERVISED ==
    [STRICT EXCEPT !["unattributed_authority"] = "escalate",
                   !["unauthorised_authority"] = "escalate",
                   !["budget_exceeded"] = "escalate"]

OBSERVE == [c \in Tunable |-> "allow"]
=============================================================================
