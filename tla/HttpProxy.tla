----------------------------- MODULE HttpProxy ------------------------------
(***************************************************************************)
(* The streamable-HTTP transport: one thread per request decides every     *)
(* message of its body through the shared proxy, sends on what was         *)
(* allowed, and puts the refusals the proxy wrote itself into the reply.   *)
(* The threads share `_pending' and `_self_answers', both keyed by request *)
(* id, and nothing else that is modelled here.                             *)
(*                                                                         *)
(* A message is <<request, position>>.  Whether the monitor allows a call  *)
(* is left open (Session models it); the server is external and answers    *)
(* what it received, in any order, in any open response, more than once.   *)
(***************************************************************************)
EXTENDS Naturals, Sequences, Functions

CONSTANTS
    Requests,   \* the HTTP requests, one handler thread each
    BodyOf,     \* the JSON-RPC messages of each: [id, kind]
    Untouched,  \* requests relayed as they are: GET, DELETE, a body not JSON
    Ids,        \* the JSON-RPC request ids they use
    None        \* no id, no tool

Messages == UNION {{<<t, n>> : n \in DOMAIN BodyOf[t]} : t \in Requests}
IdOf(m) == BodyOf[m[1]][m[2]].id

(* A call is decided if it has its form: an id, a name that is a string    *)
(* and an object of arguments.  A tools/call without one of these is sent  *)
(* on for the server to reject, and so is every other message.             *)
KindOf(m) == BodyOf[m[1]][m[2]].kind
IsCall(m) == KindOf(m) = "call"
Calls == {m \in Messages : IsCall(m)}

ASSUME RequestsAssumption ==
    /\ Untouched \subseteq Requests
    /\ None \notin Ids
    /\ BodyOf \in [Requests -> Seq([id : Ids \cup {None}, kind : {"call", "formless", "other"}])]
    /\ \A t \in Untouched : BodyOf[t] = <<>>
    /\ \A m \in Calls : IdOf(m) # None

(* JSON-RPC ids are the host's, one session belongs to one host, and a     *)
(* host does not reuse the id of a call that is outstanding.               *)
ASSUME UniqueIdsAssumption ==
    \A m \in Calls, n \in Messages : IdOf(m) = IdOf(n) => m = n

VARIABLES
    pc,           \* where each handler is
    at,           \* the position of the message it decides next
    forward,      \* the messages it will send on
    answers,      \* the refusals it has collected for its reply
    verdict,      \* what the monitor said of each call
    pending,      \* id |-> the allowed call a result is expected for
    selfAnswers,  \* id |-> the refused call whose answer waits to be taken
    received,     \* the messages the server has got
    results,      \* the messages answered in each response
    labels,       \* the tools under which results of a message were sealed
    reply,        \* the kind of reply each request got
    noted         \* the refusals whose loss was logged

proxyVars == <<verdict, pending, selfAnswers>>
vars == <<pc, at, forward, answers, proxyVars, received, results, labels, reply, noted>>

Current(t) == <<t, at[t]>>
Deciding(t) == pc[t] = "deciding" /\ at[t] <= Len(BodyOf[t])
TwoFurther(t) == at[t] + 2  (* slip: a message of the batch is skipped *)
NextMessage(t) == at[t] + 1

With(table, key, value) ==
    [i \in DOMAIN table \cup {key} |-> IF i = key THEN value ELSE table[i]]
Without(table, key) == Restrict(table, DOMAIN table \ {key})

Goto(t, place) == pc' = [pc EXCEPT ![t] = place]
Finish(t, kind) == Goto(t, "done") /\ reply' = [reply EXCEPT ![t] = kind]

Init ==
    /\ pc = [t \in Requests |-> IF t \in Untouched THEN "sending" ELSE "deciding"]
    /\ at = [t \in Requests |-> 1]
    /\ forward = [t \in Requests |-> {}]
    /\ answers = [t \in Requests |-> {}]
    /\ verdict = [m \in Calls |-> "none"]
    /\ pending = << >>
    /\ selfAnswers = << >>
    /\ received = {}
    /\ results = [t \in Requests |-> {}]
    /\ labels = [m \in Messages |-> {}]
    /\ reply = [t \in Requests |-> "none"]
    /\ noted = {}

-----------------------------------------------------------------------------
(* The host's side: _decide over the body, handle_outbound per message.    *)

Pass(t) ==
    /\ Deciding(t)
    /\ ~IsCall(Current(t))
    /\ forward' = [forward EXCEPT ![t] = @ \cup {Current(t)}]
    /\ at' = [at EXCEPT ![t] = NextMessage(t)]
    /\ UNCHANGED <<pc, answers, proxyVars, received, results, labels, reply, noted>>

Forget(m) == pending  (* slip: an allowed call is not remembered *)
Remember(m) == With(pending, IdOf(m), m)

Allow(t) ==
    /\ Deciding(t)
    /\ IsCall(Current(t))
    /\ verdict' = [verdict EXCEPT ![Current(t)] = "allow"]
    /\ pending' = Remember(Current(t))
    /\ forward' = [forward EXCEPT ![t] = @ \cup {Current(t)}]
    /\ at' = [at EXCEPT ![t] = NextMessage(t)]
    /\ UNCHANGED <<pc, answers, selfAnswers, received, results, labels, reply, noted>>

(* _respond, with no stream to write to: the answer waits under its id.    *)
OneSlot(m) == None  (* slip: one place for the last answer *)
AnswerKey(m) == IdOf(m)

Refuse(t) ==
    /\ Deciding(t)
    /\ IsCall(Current(t))
    /\ verdict' = [verdict EXCEPT ![Current(t)] = "refuse"]
    /\ selfAnswers' = With(selfAnswers, AnswerKey(Current(t)), Current(t))
    /\ Goto(t, "taking")
    /\ UNCHANGED <<at, forward, answers, pending, received, results, labels, reply, noted>>

(* The principal's context on an `initialize' does not fit the session.    *)
ContextFails(t) ==
    /\ Deciding(t)
    /\ KindOf(Current(t)) = "other"
    /\ Finish(t, "broken")
    /\ UNCHANGED <<at, forward, answers, proxyVars, received, results, labels, noted>>

(* The audit file cannot be written: the call is decided and recorded, the *)
(* exception leaves the handler and the connection closes with no reply.   *)
FlushFails(t) ==
    /\ Deciding(t)
    /\ IsCall(Current(t))
    /\ \E v \in {"allow", "refuse"} : verdict' = [verdict EXCEPT ![Current(t)] = v]
    /\ Finish(t, "broken")
    /\ UNCHANGED <<at, forward, answers, pending, selfAnswers, received, results, labels, noted>>

Held(key) == IF key \in DOMAIN selfAnswers THEN {selfAnswers[key]} ELSE {}
Peek(key) == selfAnswers  (* slip: the answer is read and not removed *)
Pop(key) == Without(selfAnswers, key)

(* take_self_answer: another acquisition of the lock, by request id.       *)
Take(t) ==
    /\ pc[t] = "taking"
    /\ answers' = [answers EXCEPT ![t] = @ \cup Held(AnswerKey(Current(t)))]
    /\ selfAnswers' = Pop(AnswerKey(Current(t)))
    /\ at' = [at EXCEPT ![t] = NextMessage(t)]
    /\ Goto(t, "deciding")
    /\ UNCHANGED <<forward, verdict, pending, received, results, labels, reply, noted>>

AllDecided(t) == pc[t] = "deciding" /\ at[t] > Len(BodyOf[t])

(* A slip: a request with nothing to send and no answer is not replied to. *)
ConcludeAnswered(t) ==
    /\ AllDecided(t)
    /\ forward[t] = {} /\ answers[t] # {}
    /\ Finish(t, "json")
    /\ UNCHANGED <<at, forward, answers, proxyVars, received, results, labels, noted>>

(* Nothing is left to send: the reply is the answers, or an empty 202.     *)
Conclude(t) ==
    /\ AllDecided(t)
    /\ forward[t] = {}
    /\ Finish(t, IF answers[t] = {} THEN "accepted" ELSE "json")
    /\ UNCHANGED <<at, forward, answers, proxyVars, received, results, labels, noted>>

WholeBody(t) == {m \in Messages : m[1] = t}  (* slip: the body as it came *)
Outgoing(t) == forward[t]

Send(t) ==
    /\ pc[t] = "sending" \/ (AllDecided(t) /\ forward[t] # {})
    /\ received' = received \cup Outgoing(t)
    /\ Goto(t, "relaying")
    /\ UNCHANGED <<at, forward, answers, proxyVars, results, labels, reply, noted>>

(* An OSError: refused before the server saw it, or a timeout after.       *)
Unreachable(t) ==
    /\ pc[t] \in {"sending", "relaying"} \/ (AllDecided(t) /\ forward[t] # {})
    /\ Finish(t, "unreachable")
    /\ UNCHANGED <<at, forward, answers, proxyVars, received, results, labels, noted>>

-----------------------------------------------------------------------------
(* The server's side: one response per request, in one of three forms.     *)

StartReply(t) ==
    /\ pc[t] = "relaying"
    /\ \E form \in {"body", "stream"} : Goto(t, form)
    /\ UNCHANGED <<at, forward, answers, proxyVars, received, results, labels, reply, noted>>

(* A slip: the loss of the answers goes without a note.                    *)
RelayOtherSilently(t) ==
    /\ pc[t] = "relaying"
    /\ Finish(t, "other")
    /\ UNCHANGED <<at, forward, answers, proxyVars, received, results, labels, noted>>

(* A page that is not JSON-RPC: nowhere to attach the answers, so say so.  *)
RelayOther(t) ==
    /\ pc[t] = "relaying"
    /\ noted' = noted \cup answers[t]
    /\ Finish(t, "other")
    /\ UNCHANGED <<at, forward, answers, proxyVars, received, results, labels>>

Open(t) == pc[t] \in {"body", "stream"}
Expected(m) == IdOf(m) # None

(* handle_inbound of a result: its path is the tool that was called, if    *)
(* the proxy still expects this id.                                        *)
Seal(m) ==
    IF IdOf(m) \in DOMAIN pending
    THEN /\ labels' = [labels EXCEPT ![m] = @ \cup {pending[IdOf(m)]}]
         /\ pending' = Without(pending, IdOf(m))
    ELSE labels' = [labels EXCEPT ![m] = @ \cup {None}] /\ UNCHANGED pending

InboundResult(t) ==
    /\ Open(t)
    /\ \E m \in received \ results[t] :
        /\ Expected(m)
        /\ Seal(m)
        /\ results' = [results EXCEPT ![t] = @ \cup {m}]
    /\ UNCHANGED <<pc, at, forward, answers, verdict, selfAnswers, received, reply, noted>>

(* The session has taken in all it may: observe raises, after the id was   *)
(* taken, and the handler is gone.                                         *)
SealFails(t) ==
    /\ Open(t)
    /\ \E m \in received \ results[t] : Expected(m) /\ Seal(m)
    /\ Finish(t, "broken")
    /\ UNCHANGED <<at, forward, answers, verdict, selfAnswers, received, results, noted>>

(* A JSON-RPC error has no result: it is passed on and stays expected.     *)
InboundError(t) ==
    /\ Open(t)
    /\ \E m \in received \ results[t] :
        /\ Expected(m)
        /\ results' = [results EXCEPT ![t] = @ \cup {m}]
    /\ UNCHANGED <<pc, at, forward, answers, proxyVars, received, labels, reply, noted>>

(* _relay_body ends by writing the results and the answers it owes.        *)
FinishBody(t) ==
    /\ pc[t] = "body"
    /\ Finish(t, "json")
    /\ UNCHANGED <<at, forward, answers, proxyVars, received, results, labels, noted>>

(* _relay_sse is not given the answers: a finished stream carries results. *)
FinishStream(t) ==
    /\ pc[t] = "stream"
    /\ Finish(t, "stream")
    /\ UNCHANGED <<at, forward, answers, proxyVars, received, results, labels, noted>>

(* The host or the server goes away before the response is written.        *)
Break(t) ==
    /\ AllDecided(t) \/ pc[t] = "relaying" \/ Open(t)
    /\ Finish(t, "broken")
    /\ UNCHANGED <<at, forward, answers, proxyVars, received, results, labels, noted>>

Step(t) ==
    \/ Pass(t) \/ Allow(t) \/ Refuse(t) \/ ContextFails(t) \/ FlushFails(t)
    \/ Take(t) \/ Conclude(t) \/ Send(t) \/ Unreachable(t) \/ StartReply(t)
    \/ RelayOther(t) \/ InboundResult(t) \/ SealFails(t) \/ InboundError(t)
    \/ FinishBody(t) \/ FinishStream(t) \/ Break(t)

Next == \E t \in Requests : Step(t)

(* Handler threads run, and every wait on the server ends at the timeout   *)
(* Upstream sets.  Nothing is assumed of the host, of the failures, or of  *)
(* how long a stream stays open.                                           *)
Advance(t) ==
    \/ Pass(t) \/ Allow(t) \/ Refuse(t) \/ Take(t) \/ Conclude(t) \/ Send(t)
    \/ Unreachable(t) \/ StartReply(t) \/ RelayOther(t) \/ FinishBody(t)

Fairness == \A t \in Requests : WF_vars(Advance(t))

Spec == Init /\ [][Next]_vars /\ Fairness
=============================================================================
