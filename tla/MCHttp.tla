------------------------------- MODULE MCHttp -------------------------------
(* A batch with a call, one without form and another message, a single     *)
(* call, an empty batch and a GET stream; the first two meet in the shared *)
(* tables.                                                                 *)
EXTENDS HttpProperties

MCRequests == {"batch", "single", "empty", "get"}
Call(id) == [id |-> id, kind |-> "call"]
Formless(id) == [id |-> id, kind |-> "formless"]
Other(id) == [id |-> id, kind |-> "other"]

MCBodyOf ==
    [t \in MCRequests |->
        CASE t = "batch" -> <<Call(1), Formless(None), Other(None)>>
          [] t = "single" -> <<Call(2)>>
          [] OTHER -> <<>>]
MCUntouched == {"get"}

(* A batch of two calls and a listing; enough for one to be refused.       *)
OneRequest == {"batch"}
OneBodyOf == [t \in OneRequest |-> <<Call(1), Call(2), Other(3)>>]
NoneUntouched == {}
=============================================================================
