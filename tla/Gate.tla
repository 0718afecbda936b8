-------------------------------- MODULE Gate --------------------------------
(***************************************************************************)
(* What an admission monitor promises, whatever its reasons: every call is *)
(* decided once, at a step of its own.  It is released, refused, or waits  *)
(* for a human, who may release it later.  A refused call stays refused,   *)
(* and once the gate is closed the only answer is a refusal.               *)
(***************************************************************************)
CONSTANT Steps      (* the steps a call may be decided at                  *)

VARIABLES
    released,   (* steps whose call may run                                *)
    refused,    (* steps whose call may not                                *)
    awaiting,   (* steps whose call waits for a human                      *)
    open        (* whether calls are decided on their merits               *)

gateVars == <<released, refused, awaiting, open>>

Decided == released \cup refused \cup awaiting

GateInit ==
    /\ released = {}
    /\ refused = {}
    /\ awaiting = {}
    /\ open = TRUE

Release(s) ==
    /\ open
    /\ s \notin Decided
    /\ released' = released \cup {s}
    /\ UNCHANGED <<refused, awaiting, open>>

Hold(s) ==
    /\ open
    /\ s \notin Decided
    /\ awaiting' = awaiting \cup {s}
    /\ UNCHANGED <<released, refused, open>>

(* A refusal may close the gate, and nothing opens it again.               *)
Refuse(s) ==
    /\ s \notin Decided
    /\ refused' = refused \cup {s}
    /\ open' \in {open, FALSE}
    /\ UNCHANGED <<released, awaiting>>

(* A human lets a held call through.                                       *)
Grant(s) ==
    /\ s \in awaiting
    /\ awaiting' = awaiting \ {s}
    /\ released' = released \cup {s}
    /\ UNCHANGED <<refused, open>>

GateNext == \E s \in Steps : Release(s) \/ Hold(s) \/ Refuse(s) \/ Grant(s)

GateSpec == GateInit /\ [][GateNext]_gateVars
=============================================================================
