------------------------------ MODULE MCStdio ------------------------------
(* An instance of the stdio proxy: a call and a message that is not one,     *)
(* through pipes of one message.                                             *)
EXTENDS StdioProperties

TwoRequests == 1..2
TwoKinds == <<"call", "other">>

(* The server pushes so much that all wait for each other, or it repeats an  *)
(* answer and a signal comes.                                                *)
SessionLimits ==
    { [pushes |-> 3, repeats |-> 0, signals |-> 0],
      [pushes |-> 0, repeats |-> 1, signals |-> 1] }

OneSignal == { [pushes |-> 0, repeats |-> 0, signals |-> 1] }
=============================================================================
