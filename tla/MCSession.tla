----------------------------- MODULE MCSession ------------------------------
(***************************************************************************)
(* Instances of the monitor for TLC.  Four tools: one that egresses, one   *)
(* that moves money, one that only reads, and one nobody wrote a contract  *)
(* for.  Each set of calls is chosen so that the checks it is about meet.  *)
(***************************************************************************)
EXTENDS SessionProperties

MCTools == {"send", "pay", "read", "mystery"}
MCKnown == {"send", "pay", "read"}
MCEffectsOf ==
    [t \in MCKnown |->
        CASE t = "send" -> {"write", "network_egress"}
          [] t = "pay" -> {"financial"}
          [] t = "read" -> {"read"}]
MCParams == {"to", "amount"}

MakeCall(tool, to, amount, codes, confidential, directed) ==
    [tool |-> tool,
     args |-> [p \in MCParams |-> IF p = "to" THEN to ELSE amount],
     codes |-> codes, confidential |-> confidential, directed |-> directed]

AnyCount == [meter |-> "calls", limit |-> 4, parameter |-> "to", tools |-> {}, effects |-> {}]
Spend == [meter |-> "sum", limit |-> 3, parameter |-> "amount", tools |-> {},
          effects |-> {"financial"}]
Places == [meter |-> "distinct", limit |-> 2, parameter |-> "to", tools |-> {"send", "pay"},
           effects |-> {}]

MCBudgets == {"count", "spend", "places"}
MCBudgetOf == [b \in MCBudgets |->
    CASE b = "count" -> AnyCount [] b = "spend" -> Spend [] b = "places" -> Places]

CONSTANTS ana, bo   (* two destinations *)

(* Calls that meet the budgets: repeated and different destinations, exact *)
(* and excessive amounts, a refund, an amount that is not a number.        *)
BudgetCalls ==
    { MakeCall("pay", ana, 2, {}, FALSE, TRUE),
      MakeCall("pay", bo, 1, {}, FALSE, TRUE),
      MakeCall("pay", ana, -1, {}, FALSE, TRUE),
      MakeCall("pay", None, NaN, {}, FALSE, TRUE),
      MakeCall("pay", None, Infinite, {}, FALSE, TRUE),
      MakeCall("send", 7, ana, {}, FALSE, TRUE),
      MakeCall("pay", ana, 1, {"unattributed_authority"}, FALSE, FALSE) }

(* Calls that meet the rules on denials and confidentiality.               *)
EgressCalls ==
    { MakeCall("send", ana, None, {}, FALSE, TRUE),
      MakeCall("send", bo, None, {}, FALSE, FALSE),
      MakeCall("send", bo, None, {}, TRUE, FALSE),
      MakeCall("send", bo, None, {"unauthorised_authority"}, FALSE, FALSE),
      MakeCall("read", None, None, {"undeclared_parameter"}, TRUE, FALSE),
      MakeCall("mystery", bo, None, {}, FALSE, FALSE) }

(* Calls one of which is worth a human's approval.                         *)
ApprovalCalls ==
    { MakeCall("pay", ana, 2, {}, FALSE, TRUE),
      MakeCall("pay", bo, 2, {"unattributed_authority"}, FALSE, FALSE),
      MakeCall("send", bo, None, {"unknown_seal"}, FALSE, FALSE),
      MakeCall("mystery", ana, None, {}, FALSE, FALSE) }

(* A policy that asks about values nobody supplied and unknown tools, and  *)
(* still denies beyond a limit (policy.py:33 suggests the first).          *)
AskingPolicy ==
    [STRICT EXCEPT !["unattributed_authority"] = "escalate", !["unknown_tool"] = "escalate"]

(* That policy, asking about egress after a denial too.                    *)
MixedPolicy == [AskingPolicy EXCEPT !["denial_influenced_egress"] = "escalate"]

AnyCalls == BudgetCalls \cup EgressCalls \cup ApprovalCalls

SpendOnly == {"spend"}
SpendOnlyOf == [b \in SpendOnly |-> Spend]
=============================================================================
