--------------------------- MODULE HttpProperties ---------------------------
(* What the transport owes the host and the server, over all handlers.     *)
EXTENDS HttpProxy

Places == {"deciding", "taking", "sending", "relaying", "body", "stream", "done"}
Kinds == {"none", "accepted", "json", "other", "stream", "unreachable", "broken"}

(* Every variable has its type; a handler never runs past its body.        *)
TypeOK ==
    /\ pc \in [Requests -> Places]
    /\ at \in [Requests -> Nat \ {0}]
    /\ \A t \in Requests : at[t] <= Len(BodyOf[t]) + 1
    /\ forward \in [Requests -> SUBSET Messages]
    /\ answers \in [Requests -> SUBSET Calls]
    /\ verdict \in [Calls -> {"none", "allow", "refuse"}]
    /\ DOMAIN pending \subseteq Ids /\ \A i \in DOMAIN pending : pending[i] \in Calls
    /\ DOMAIN selfAnswers \subseteq Ids /\ \A i \in DOMAIN selfAnswers : selfAnswers[i] \in Calls
    /\ received \subseteq Messages
    /\ results \in [Requests -> SUBSET Messages]
    /\ labels \in [Messages -> SUBSET (Calls \cup {None})]
    /\ reply \in [Requests -> Kinds]
    /\ noted \subseteq Calls

RefusedOf(t) == {m \in Calls : m[1] = t /\ verdict[m] = "refuse"}

(* A reply the proxy composes carries exactly the refusals of the request  *)
(* it replies to, however the handlers interleave between answering a call *)
(* and taking the answer back (_respond and take_self_answer).             *)
AnswersReachTheirCaller ==
    \A t \in Requests :
        /\ answers[t] \subseteq RefusedOf(t)
        /\ reply[t] \in {"accepted", "json"} => answers[t] = RefusedOf(t)
        /\ reply[t] = "accepted" => RefusedOf(t) = {}

(* No answer stays behind in _self_answers: one that is there belongs to a *)
(* handler about to take it, also after other handlers died or timed out.  *)
AnswersAreTaken ==
    \A i \in DOMAIN selfAnswers :
        LET m == selfAnswers[i] IN pc[m[1]] = "taking" /\ m = Current(m[1])

(* The result of a call is sealed under the tool that was called the first *)
(* time it arrives, whichever response brings it and however many errors   *)
(* came before, and never under another call's tool (_pending).            *)
ResultsKeepTheirTool ==
    \A m \in Messages :
        /\ labels[m] \subseteq {m, None}
        /\ m \in Calls /\ labels[m] # {} => m \in labels[m]
        /\ m \notin Calls => labels[m] \subseteq {None}

(* The server gets a body as it was decided or not at all: every message   *)
(* of it but the calls that were refused, and each of its calls allowed    *)
(* (do_POST re-encodes what _decide returned).  This is of what            *)
(* handle_outbound takes for a call: a tools/call without an id, a name or *)
(* an object of arguments is one of the other messages, and gets there     *)
(* undecided (proxy.py:217-226).                                           *)
OnlyAllowedReachTheServer ==
    \A t \in Requests :
        LET sent == {m \in received : m[1] = t}
            whole == {m \in Messages : m[1] = t}
        IN  sent # {} => /\ sent = whole \ RefusedOf(t)
                         /\ \A m \in sent \cap Calls : verdict[m] = "allow"

(* When the server's reply has no place for refusals their loss is logged  *)
(* (note_relay_dropped), and nothing else is reported lost.                *)
DropsAreNoted ==
    /\ \A t \in Requests : reply[t] = "other" => RefusedOf(t) \subseteq noted
    /\ \A m \in noted : reply[m[1]] = "other" /\ verdict[m] = "refuse"

(* Every request is answered, closed, or has its stream open, in the end,  *)
(* whatever became of the others.                                          *)
EveryRequestIsAnswered ==
    <>(\A t \in Requests : pc[t] \in {"stream", "done"})

(* What streamable.py:276 says of a lost refusal, of every reply that was  *)
(* completed: the host gets the refusal or the log has a note of it.       *)
RefusalsAreReported ==
    \A t \in Requests :
        reply[t] \in {"json", "accepted", "other", "stream"} =>
            \/ RefusedOf(t) \subseteq noted
            \/ reply[t] \in {"json", "accepted"} /\ RefusedOf(t) \subseteq answers[t]
=============================================================================
