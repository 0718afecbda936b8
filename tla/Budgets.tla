------------------------------ MODULE Budgets -------------------------------
(***************************************************************************)
(* The budget ledger (budget.py): aggregate limits over one session.  The  *)
(* ledger's state is a total per budget and, for DISTINCT budgets, the     *)
(* destinations already paid for; both are variables of the session that   *)
(* owns the ledger, and this module gives the two operations on them,      *)
(* check (consumes nothing) and commit.                                    *)
(*                                                                         *)
(* Numbers are Python floats.  Rounding is left out (amounts are integers) *)
(* and two values that are no integers are kept: NaN, because a comparison *)
(* with it is always false and a sum with it is again NaN, and infinity,   *)
(* which exceeds every limit and cannot be rendered as an integer.  What   *)
(* NaN does to a budget, minus infinity does as well.                      *)
(***************************************************************************)
EXTENDS Integers

CONSTANTS
    Budgets,    (* names of the session's budgets                          *)
    BudgetOf,   (* the limit, meter and scope declared under a name        *)
    Tools,      (* tool names                                              *)
    Params,     (* parameter names a call may carry                        *)
    Words,      (* argument values float() does not parse                  *)
    NaN,        (* float("nan")                                            *)
    Infinite,   (* float("inf"), which 1e400 is read as                    *)
    None        (* Python's None: no argument under that name              *)

Effect == {"read", "write", "delete", "execute", "network_egress",
           "financial", "irreversible"}

Meter == {"calls", "sum", "distinct"}

Number == Int \cup {NaN, Infinite}

ArgValue == Number \cup Words

BudgetType ==
    [meter : Meter, limit : Nat, parameter : Params,
     tools : SUBSET Tools, effects : SUBSET Effect]

ContractType == [tool : Tools, effects : SUBSET Effect]

ArgsType == [Params -> ArgValue \cup {None}]

ASSUME BudgetsAssumption ==
    /\ BudgetOf \in [Budgets -> BudgetType]
    /\ NaN \notin Int \cup Words \cup {Infinite}
    /\ Infinite \notin Int \cup Words
    /\ None \notin ArgValue

-----------------------------------------------------------------------------
TotalsType == [Budgets -> Number]
SeenType == [Budgets -> SUBSET ArgValue]

InitTotals == [b \in Budgets |-> 0]
InitSeen == [b \in Budgets |-> {}]

(* An empty scope on either axis is no restriction on that axis.           *)
AppliesTo(b, contract) ==
    /\ BudgetOf[b].tools = {} \/ contract.tool \in BudgetOf[b].tools
    /\ BudgetOf[b].effects = {} \/ BudgetOf[b].effects \cap contract.effects # {}

Argument(b, args) == args[BudgetOf[b].parameter]

IsNumeric(v) == v \in Number

(* A slip: an absent destination is metered like any other.                *)
MeasuresAbsent(b, contract, args) ==
    /\ AppliesTo(b, contract)
    /\ BudgetOf[b].meter = "sum" => IsNumeric(Argument(b, args))

(* Whether the call moves the budget's meter at all: a SUM of a value that *)
(* is no number, and a DISTINCT of an absent one, are skipped.             *)
Measures(b, contract, args) ==
    /\ AppliesTo(b, contract)
    /\ CASE BudgetOf[b].meter = "calls" -> TRUE
         [] BudgetOf[b].meter = "sum" -> IsNumeric(Argument(b, args))
         [] BudgetOf[b].meter = "distinct" -> Argument(b, args) # None

(* A slip: every call to a destination costs one.                          *)
DeltaPerCall(b, args, seen) ==
    IF BudgetOf[b].meter = "sum" THEN Argument(b, args) ELSE 1

(* Repeating a destination already paid for is free.                       *)
Delta(b, args, seen) ==
    CASE BudgetOf[b].meter = "calls" -> 1
      [] BudgetOf[b].meter = "sum" -> Argument(b, args)
      [] BudgetOf[b].meter = "distinct" -> IF Argument(b, args) \in seen[b] THEN 0 ELSE 1

Plus(x, y) ==
    IF NaN \in {x, y} THEN NaN
    ELSE IF Infinite \in {x, y} THEN Infinite
    ELSE x + y

Exceeds(x, limit) == x # NaN /\ (x = Infinite \/ x > limit)

(* A slip: the budgets spent before the call, rather than by it.           *)
BreachesBefore(contract, args, totals, seen) ==
    { b \in Budgets : /\ Measures(b, contract, args)
                      /\ Exceeds(totals[b], BudgetOf[b].limit) }

(* check: the budgets this call would take over their limit.               *)
Breaches(contract, args, totals, seen) ==
    { b \in Budgets : /\ Measures(b, contract, args)
                      /\ Exceeds(Plus(totals[b], Delta(b, args, seen)), BudgetOf[b].limit) }

(* describe: a breach is told with the total it would reach, as an integer *)
(* when it equals one.  Infinity equals itself and is none: int() raises.  *)
CannotBeTold(contract, args, totals, seen) ==
    \E b \in Breaches(contract, args, totals, seen) :
        Plus(totals[b], Delta(b, args, seen)) = Infinite

(* commit: the totals and destinations once this call is charged.          *)
TotalsAfter(contract, args, totals, seen) ==
    [b \in Budgets |->
        IF Measures(b, contract, args)
        THEN Plus(totals[b], Delta(b, args, seen))
        ELSE totals[b]]

SeenAfter(contract, args, seen) ==
    [b \in Budgets |->
        IF BudgetOf[b].meter = "distinct" /\ Measures(b, contract, args)
        THEN seen[b] \cup {Argument(b, args)}
        ELSE seen[b]]
=============================================================================
