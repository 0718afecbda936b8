----------------------------- MODULE StdioProxy -----------------------------
(***************************************************************************)
(* The stdio proxy (mcp/proxy.py, run): one process between a host and a   *)
(* server it launched, with four pipes of bounded capacity.                *)
(*                                                                         *)
(*   main   reads the host, decides, answers refusals, forwards the rest;  *)
(*          in its finally clause it ends the server and flushes           *)
(*   pump   the daemon thread that seals what the server says and writes   *)
(*          it to the host                                                 *)
(*   lock   the one lock both take: to decide, to seal, to write to the    *)
(*          host and to flush; it is not reentrant                         *)
(*                                                                         *)
(* A step that can wait for another actor (a full pipe, a held lock, a     *)
(* child that has not ended) is a state of its own, because that is where  *)
(* a signal finds it.  The verdicts, and what sealing does to a message,   *)
(* are the subject of other modules.                                       *)
(***************************************************************************)
EXTENDS Naturals, Sequences, FiniteSets

CONSTANTS
    Requests,       (* the requests of the host, numbered as it sends them  *)
    KindOf,         (* "call", which is decided; "context", which states   *)
                    (* the task; "other", which is forwarded undecided: a  *)
                    (* tools/call without a name, an object of arguments   *)
                    (* or an id is one of those                            *)
    Capacity,       (* messages a pipe holds before its writer waits       *)
    Limits          (* bounds, of which a session takes one: the messages  *)
                    (* the server sends unasked, the answers it repeats,   *)
                    (* and the SIGTERM, SIGHUP and SIGINT the proxy gets   *)

ASSUME StdioAssumption ==
    /\ Requests \subseteq Nat \ {0}
    /\ KindOf \in [Requests -> {"call", "context", "other"}]
    /\ Capacity \in Nat \ {0}
    /\ Limits \subseteq [pushes : Nat, repeats : Nat, signals : Nat]

VARIABLES
    sent,           (* requests the host has sent                          *)
    hostIn,         (* what it sent and the proxy has not read             *)
    hostInOpen,     (* the host has not closed that pipe                   *)
    hostOut,        (* what the proxy wrote and the host has not read      *)
    hostOutOpen,    (* the host still holds its end                        *)
    got,            (* history: the first answers the host has read        *)
    verdict,        (* the monitor's decision on each call                 *)
    main,           (* where the main thread is                            *)
    current,        (* the request it has in hand                          *)
    unflushed,      (* an interrupted write to the server left its message *)
    pending,        (* calls allowed and not yet answered by a result      *)
    pump,           (* where the inbound thread is                         *)
    carried,        (* the message it has in hand                          *)
    asCall,         (* it was found in pending: sealed as that call's      *)
    lock,           (* who holds the lock                                  *)
    server,         (* "up"; "hung", when it no longer reads or writes and *)
                    (* ends only if killed; "dead"                         *)
    toServer,       (* its standard input                                  *)
    toServerOpen,   (* the proxy has not closed it                         *)
    fromServer,     (* its standard output                                 *)
    owed,           (* the message it is writing                           *)
    replied,        (* the requests it has answered                        *)
    ordered,        (* the last signal _shut_down sent it while it lived   *)
    left,           (* what is left of the limits                          *)
    cutShort        (* history: one of them came outside the try           *)

hostVars == <<sent, hostIn, hostInOpen, hostOut, hostOutOpen, got>>
mainVars == <<verdict, main, current, unflushed>>
pumpVars == <<pump, carried, asCall>>
serverVars == <<server, toServer, toServerOpen, fromServer, owed, replied, ordered>>
historyVars == <<left, cutShort>>
vars == <<hostVars, mainVars, pending, pumpVars, lock, serverVars, historyVars>>

None == 0
Message == [kind : {"refusal", "result", "error", "push"}, id : Requests \cup {None}, again : BOOLEAN]
Answer(kind, r) == [kind |-> kind, id |-> r, again |-> FALSE]
Nothing == Answer("push", None)

(* The request a message is the first answer to.                           *)
Answers(m) == IF m.again THEN None ELSE m.id

Trying == {"reading", "deciding", "answering", "writing", "forwarding"}
Ending == {"closing", "waiting", "joining", "flushing"}

Init ==
    /\ sent = {}
    /\ hostIn = <<>>
    /\ hostInOpen = TRUE
    /\ hostOut = <<>>
    /\ hostOutOpen = TRUE
    /\ got = <<>>
    /\ verdict = [r \in Requests |-> "none"]
    /\ main = "starting"
    /\ current = None
    /\ unflushed = FALSE
    /\ pending = {}
    /\ pump = "new"
    /\ carried = Nothing
    /\ asCall = FALSE
    /\ lock = "free"
    /\ server = "up"
    /\ toServer = <<>>
    /\ toServerOpen = TRUE
    /\ fromServer = <<>>
    /\ owed = <<>>
    /\ replied = {}
    /\ ordered = "none"
    /\ left \in Limits
    /\ cutShort = FALSE

Room(pipe) == Len(pipe) < Capacity

-----------------------------------------------------------------------------
(* The host.                                                               *)

HostSend ==
    /\ hostInOpen
    /\ Room(hostIn)
    /\ main # "exited"
    /\ \E r \in Requests \ sent :
        /\ \A s \in Requests : s < r => s \in sent
        /\ sent' = sent \cup {r}
        /\ hostIn' = Append(hostIn, r)
    /\ UNCHANGED <<hostInOpen, hostOut, hostOutOpen, got, mainVars, pending, pumpVars, lock, serverVars, historyVars>>

HostCloses ==
    /\ hostInOpen
    /\ hostInOpen' = FALSE
    /\ UNCHANGED <<sent, hostIn, hostOut, hostOutOpen, got, mainVars, pending, pumpVars, lock, serverVars, historyVars>>

HostReads ==
    /\ hostOutOpen
    /\ hostOut # <<>>
    /\ got' = IF Answers(Head(hostOut)) = None THEN got ELSE Append(got, Head(hostOut))
    /\ hostOut' = Tail(hostOut)
    /\ UNCHANGED <<sent, hostIn, hostInOpen, hostOutOpen, mainVars, pending, pumpVars, lock, serverVars, historyVars>>

HostHangsUp ==
    /\ hostOutOpen
    /\ hostOutOpen' = FALSE
    /\ hostOut' = <<>>
    /\ UNCHANGED <<sent, hostIn, hostInOpen, got, mainVars, pending, pumpVars, lock, serverVars, historyVars>>

-----------------------------------------------------------------------------
(* The main thread, inside the try.                                        *)

Goto(pc) == main' = pc

Start ==
    /\ main = "starting"
    /\ Goto("reading")
    /\ pump' = "reading"
    /\ UNCHANGED <<hostVars, verdict, current, unflushed, pending, carried, asCall, lock, serverVars, historyVars>>

(* handle_outbound: a call is decided and a statement of the task observed *)
(* under the lock; anything else goes straight to the server.              *)
ReadHost ==
    /\ main = "reading"
    /\ hostIn # <<>>
    /\ current' = Head(hostIn)
    /\ hostIn' = Tail(hostIn)
    /\ Goto(IF KindOf[Head(hostIn)] = "other" THEN "forwarding" ELSE "deciding")
    /\ UNCHANGED <<sent, hostInOpen, hostOut, hostOutOpen, got, verdict, unflushed, pending, pumpVars, lock, serverVars, historyVars>>

ReadEnd ==
    /\ main = "reading"
    /\ hostIn = <<>>
    /\ ~hostInOpen
    /\ Goto("closing")
    /\ UNCHANGED <<hostVars, verdict, current, unflushed, pending, pumpVars, lock, serverVars, historyVars>>

(* A slip: the refusal is answered inside the critical section.            *)
DecideHolding(v) ==
    /\ main = "deciding"
    /\ lock = "free"
    /\ KindOf[current] = "context" => v = "allow"
    /\ verdict' = [verdict EXCEPT ![current] = v]
    /\ pending' = IF KindOf[current] = "call" /\ v = "allow" THEN pending \cup {current} ELSE pending
    /\ Goto(IF v = "allow" THEN "forwarding" ELSE "answering")
    /\ lock' = IF v = "allow" THEN "free" ELSE "main"
    /\ UNCHANGED <<hostVars, current, unflushed, pumpVars, serverVars, historyVars>>

(* A slip: what is decided is not asked again before the call is sent on.  *)
DecideIgnored(v) ==
    /\ main = "deciding"
    /\ lock = "free"
    /\ KindOf[current] = "context" => v = "allow"
    /\ verdict' = [verdict EXCEPT ![current] = v]
    /\ pending' = IF KindOf[current] = "call" THEN pending \cup {current} ELSE pending
    /\ Goto("forwarding")
    /\ UNCHANGED <<hostVars, current, unflushed, pumpVars, lock, serverVars, historyVars>>

(* A slip: an allowed call is not entered in the table of pending calls.   *)
DecideForgetting(v) ==
    /\ main = "deciding"
    /\ lock = "free"
    /\ KindOf[current] = "context" => v = "allow"
    /\ verdict' = [verdict EXCEPT ![current] = v]
    /\ Goto(IF v = "allow" THEN "forwarding" ELSE "answering")
    /\ UNCHANGED <<hostVars, current, unflushed, pending, pumpVars, lock, serverVars, historyVars>>

(* A slip: a refused call is answered and not dropped.                     *)
DecideBoth(v) ==
    /\ main = "deciding"
    /\ lock = "free"
    /\ KindOf[current] = "context" => v = "allow"
    /\ verdict' = [verdict EXCEPT ![current] = v]
    /\ pending' = IF KindOf[current] = "call" /\ v = "allow" THEN pending \cup {current} ELSE pending
    /\ Goto(IF v = "allow" THEN "forwarding" ELSE "answering")
    /\ toServer' = IF v = "deny" /\ Room(toServer) /\ server # "dead"
                   THEN Append(toServer, current) ELSE toServer
    /\ UNCHANGED <<hostVars, current, unflushed, pumpVars, lock, server, toServerOpen, fromServer, owed, replied, ordered, historyVars>>

(* The monitor decides and the audit file is flushed in one critical       *)
(* section in which nothing waits; an allowed call is entered in _pending. *)
Decide(v) ==
    /\ main = "deciding"
    /\ lock = "free"
    /\ KindOf[current] = "context" => v = "allow"
    /\ verdict' = [verdict EXCEPT ![current] = v]
    /\ pending' = IF KindOf[current] = "call" /\ v = "allow" THEN pending \cup {current} ELSE pending
    /\ Goto(IF v = "allow" THEN "forwarding" ELSE "answering")
    /\ UNCHANGED <<hostVars, current, unflushed, pumpVars, lock, serverVars, historyVars>>

(* The audit file cannot be written, or the task passes the intake bound:  *)
(* neither exception is caught, and the finally clause runs all the same.  *)
DecideFails ==
    /\ main = "deciding"
    /\ lock = "free"
    /\ Goto("closing")
    /\ UNCHANGED <<hostVars, verdict, current, unflushed, pending, pumpVars, lock, serverVars, historyVars>>

(* A slip: the refusal is written without the lock.                        *)
LockToAnswerNot ==
    /\ main = "answering"
    /\ Goto("writing")
    /\ UNCHANGED <<hostVars, verdict, current, unflushed, pending, pumpVars, lock, serverVars, historyVars>>

LockToAnswer ==
    /\ main = "answering"
    /\ lock = "free"
    /\ lock' = "main"
    /\ Goto("writing")
    /\ UNCHANGED <<hostVars, verdict, current, unflushed, pending, pumpVars, serverVars, historyVars>>

WriteRefusal ==
    /\ main = "writing"
    /\ Room(hostOut) \/ ~hostOutOpen
    /\ IF hostOutOpen
       THEN Goto("reading") /\ hostOut' = Append(hostOut, Answer("refusal", current))
       ELSE Goto("closing") /\ UNCHANGED hostOut
    /\ lock' = "free"
    /\ current' = None
    /\ UNCHANGED <<sent, hostIn, hostInOpen, hostOutOpen, got, verdict, unflushed, pending, pumpVars, serverVars, historyVars>>

(* Written to the server without the lock; a dead server is a broken pipe. *)
Forward ==
    /\ main = "forwarding"
    /\ Room(toServer) \/ server = "dead"
    /\ IF server = "dead"
       THEN Goto("closing") /\ UNCHANGED toServer
       ELSE Goto("reading") /\ toServer' = Append(toServer, current)
    /\ current' = None
    /\ UNCHANGED <<hostVars, verdict, unflushed, pending, pumpVars, lock, server, toServerOpen, fromServer, owed, replied, ordered, historyVars>>

-----------------------------------------------------------------------------
(* The finally clause: _shut_down, reader.join, close.                     *)

(* Closing the pipe first writes what an interrupted write left behind,    *)
(* which waits for room like any write; a broken pipe is suppressed.       *)
CloseServerInput ==
    /\ main = "closing"
    /\ ~unflushed \/ Room(toServer) \/ server = "dead"
    /\ toServer' = IF unflushed /\ server # "dead" THEN Append(toServer, current) ELSE toServer
    /\ toServerOpen' = FALSE
    /\ unflushed' = FALSE
    /\ Goto("waiting")
    /\ UNCHANGED <<hostVars, verdict, current, pending, pumpVars, lock, server, fromServer, owed, replied, ordered, historyVars>>

Reap ==
    /\ main = "waiting"
    /\ server = "dead"
    /\ Goto("joining")
    /\ UNCHANGED <<hostVars, verdict, current, unflushed, pending, pumpVars, lock, serverVars, historyVars>>

(* A slip: the second signal is not the one that cannot be refused.        *)
EscalateMildly ==
    /\ main = "waiting"
    /\ server # "dead"
    /\ ordered # "kill"
    /\ ordered' = IF ordered = "none" THEN "terminate" ELSE "interrupt"
    /\ UNCHANGED <<hostVars, mainVars, pending, pumpVars, lock, server, toServer, toServerOpen, fromServer, owed, replied, historyVars>>

(* A wait runs out: terminate, then kill.                                  *)
Escalate ==
    /\ main = "waiting"
    /\ server # "dead"
    /\ ordered # "kill"
    /\ ordered' = IF ordered = "none" THEN "terminate" ELSE "kill"
    /\ UNCHANGED <<hostVars, mainVars, pending, pumpVars, lock, server, toServer, toServerOpen, fromServer, owed, replied, historyVars>>

(* A slip: the wait after the polite signal is taken for the last one.     *)
GiveUpEarly ==
    /\ main = "waiting"
    /\ server # "dead"
    /\ ordered # "none"
    /\ Goto("joining")
    /\ UNCHANGED <<hostVars, verdict, current, unflushed, pending, pumpVars, lock, serverVars, historyVars>>

(* The last wait runs out as well.                                         *)
GiveUp ==
    /\ main = "waiting"
    /\ server # "dead"
    /\ ordered = "kill"
    /\ Goto("joining")
    /\ UNCHANGED <<hostVars, verdict, current, unflushed, pending, pumpVars, lock, serverVars, historyVars>>

(* The thread is joined for five seconds and abandoned after them.         *)
Join ==
    /\ main = "joining"
    /\ Goto("flushing")
    /\ UNCHANGED <<hostVars, verdict, current, unflushed, pending, pumpVars, lock, serverVars, historyVars>>

(* The process is gone, and with it its thread, its ends of the pipes and  *)
(* what it has not read of them.                                           *)
Exit ==
    /\ Goto("exited")
    /\ pump' = "dead"
    /\ lock' = "free"
    /\ hostIn' = <<>>
    /\ toServerOpen' = FALSE
    /\ fromServer' = <<>>
    /\ UNCHANGED <<sent, hostInOpen, hostOut, hostOutOpen, got, verdict, current, unflushed, pending, carried, asCall, server, toServer, owed, replied, ordered>>

FinalFlush ==
    /\ main = "flushing"
    /\ lock = "free"
    /\ Exit
    /\ UNCHANGED historyVars

(* A signal raises SystemExit where the main thread is.  In the try it     *)
(* starts the finally clause and leaves a critical section by its with;    *)
(* before the try, and in the clause, nothing catches it.                  *)
Signal ==
    /\ left.signals > 0
    /\ left' = [left EXCEPT !.signals = @ - 1]
    /\ \/ /\ main \in Trying
          /\ Goto("closing")
          /\ lock' = IF lock = "main" THEN "free" ELSE lock
          /\ unflushed' \in IF main = "forwarding" THEN BOOLEAN ELSE {FALSE}
          /\ UNCHANGED <<hostVars, verdict, current, pending, pumpVars, serverVars, cutShort>>
       \/ /\ main \in Ending \cup {"starting"}
          /\ cutShort' = TRUE
          /\ Exit

-----------------------------------------------------------------------------
(* The inbound thread.                                                     *)

(* handle_inbound: a JSON-RPC error has nothing to seal, and leaves the    *)
(* call it answers in _pending; a result takes its call out of the table.  *)
ReadServer ==
    /\ pump = "reading"
    /\ fromServer # <<>>
    /\ LET m == Head(fromServer) IN
        /\ carried' = m
        /\ asCall' = (m.kind = "result" /\ m.id \in pending)
        /\ pending' = IF m.kind = "result" THEN pending \ {m.id} ELSE pending
        /\ pump' = IF m.kind = "error" THEN "sending" ELSE "sealing"
    /\ fromServer' = Tail(fromServer)
    /\ UNCHANGED <<hostVars, mainVars, lock, server, toServer, toServerOpen, owed, replied, ordered, historyVars>>

ReadServerEnd ==
    /\ pump = "reading"
    /\ fromServer = <<>>
    /\ server = "dead"
    /\ pump' = "dead"
    /\ UNCHANGED <<hostVars, mainVars, pending, carried, asCall, lock, serverVars, historyVars>>

Seal ==
    /\ pump = "sealing"
    /\ lock = "free"
    /\ pump' = "sending"
    /\ UNCHANGED <<hostVars, mainVars, pending, carried, asCall, lock, serverVars, historyVars>>

(* The message passes the session's intake bound: MemoryError is not one   *)
(* of the exceptions the thread catches.                                   *)
SealFails ==
    /\ pump = "sealing"
    /\ lock = "free"
    /\ pump' = "dead"
    /\ UNCHANGED <<hostVars, mainVars, pending, carried, asCall, lock, serverVars, historyVars>>

LockToSend ==
    /\ pump = "sending"
    /\ lock = "free"
    /\ lock' = "pump"
    /\ pump' = "writing"
    /\ UNCHANGED <<hostVars, mainVars, pending, carried, asCall, serverVars, historyVars>>

(* A slip: a broken pipe ends the thread with the lock still held.         *)
WriteToHostHolding ==
    /\ pump = "writing"
    /\ Room(hostOut) \/ ~hostOutOpen
    /\ IF hostOutOpen
       THEN pump' = "reading" /\ hostOut' = Append(hostOut, carried) /\ lock' = "free"
       ELSE pump' = "dead" /\ UNCHANGED <<hostOut, lock>>
    /\ carried' = Nothing
    /\ asCall' = FALSE
    /\ UNCHANGED <<sent, hostIn, hostInOpen, hostOutOpen, got, mainVars, pending, serverVars, historyVars>>

WriteToHost ==
    /\ pump = "writing"
    /\ Room(hostOut) \/ ~hostOutOpen
    /\ IF hostOutOpen
       THEN pump' = "reading" /\ hostOut' = Append(hostOut, carried)
       ELSE pump' = "dead" /\ UNCHANGED hostOut
    /\ lock' = "free"
    /\ carried' = Nothing
    /\ asCall' = FALSE
    /\ UNCHANGED <<sent, hostIn, hostInOpen, hostOutOpen, got, mainVars, pending, serverVars, historyVars>>

-----------------------------------------------------------------------------
(* The server, which is not part of the program: it answers every request, *)
(* may answer it again, pushes messages of its own, and may hang or end at *)
(* any time.  It makes up no answer to what it was not sent.               *)

ServerTakes ==
    /\ server = "up"
    /\ owed = <<>>
    /\ toServer # <<>>
    /\ toServer' = Tail(toServer)
    /\ \E kind \in {"result", "error"} : owed' = <<Answer(kind, Head(toServer))>>
    /\ replied' = replied \cup {Head(toServer)}
    /\ UNCHANGED <<hostVars, mainVars, pending, pumpVars, lock, server, toServerOpen, fromServer, ordered, historyVars>>

ServerPushes ==
    /\ server = "up"
    /\ owed = <<>>
    /\ left.pushes > 0
    /\ left' = [left EXCEPT !.pushes = @ - 1]
    /\ owed' = <<Nothing>>
    /\ UNCHANGED <<hostVars, mainVars, pending, pumpVars, lock, server, toServer, toServerOpen, fromServer, replied, ordered, cutShort>>

(* It answers once more what it has answered, with a result or an error;   *)
(* the proxy passes on whatever comes.                                     *)
ServerRepeats ==
    /\ server = "up"
    /\ owed = <<>>
    /\ left.repeats > 0
    /\ left' = [left EXCEPT !.repeats = @ - 1]
    /\ \E r \in replied, kind \in {"result", "error"} : owed' = <<[Answer(kind, r) EXCEPT !.again = TRUE]>>
    /\ UNCHANGED <<hostVars, mainVars, pending, pumpVars, lock, server, toServer, toServerOpen, fromServer, replied, ordered, cutShort>>

ServerWrites ==
    /\ server = "up"
    /\ owed # <<>>
    /\ Room(fromServer) \/ main = "exited"
    /\ fromServer' = IF main = "exited" THEN fromServer ELSE Append(fromServer, Head(owed))
    /\ owed' = <<>>
    /\ UNCHANGED <<hostVars, mainVars, pending, pumpVars, lock, server, toServer, toServerOpen, replied, ordered, historyVars>>

ServerHangs ==
    /\ server = "up"
    /\ server' = "hung"
    /\ UNCHANGED <<hostVars, mainVars, pending, pumpVars, lock, toServer, toServerOpen, fromServer, owed, replied, ordered, historyVars>>

Ends ==
    /\ server # "dead"
    /\ server' = "dead"
    /\ toServer' = <<>>
    /\ owed' = <<>>
    /\ ordered' = "none"
    /\ UNCHANGED <<hostVars, mainVars, pending, pumpVars, lock, toServerOpen, fromServer, replied, historyVars>>

ServerCrashes == Ends

ServerSeesEnd ==
    /\ server = "up"
    /\ ~toServerOpen
    /\ toServer = <<>>
    /\ owed = <<>>
    /\ Ends

ServerObeys ==
    /\ ordered = "kill" \/ (ordered = "terminate" /\ server = "up")
    /\ Ends

-----------------------------------------------------------------------------
MainStep ==
    \/ Start \/ ReadHost \/ ReadEnd \/ DecideFails
    \/ \E v \in {"allow", "deny"} : Decide(v)
    \/ LockToAnswer \/ WriteRefusal \/ Forward
    \/ CloseServerInput \/ Reap \/ Escalate \/ GiveUp \/ Join \/ FinalFlush

PumpStep == ReadServer \/ ReadServerEnd \/ Seal \/ SealFails \/ LockToSend \/ WriteToHost

Serving == ServerTakes \/ ServerWrites \/ ServerSeesEnd \/ ServerObeys

Next ==
    \/ HostSend \/ HostCloses \/ HostReads \/ HostHangsUp
    \/ MainStep
    \/ Signal
    \/ PumpStep
    \/ Serving
    \/ ServerPushes \/ ServerRepeats \/ ServerHangs \/ ServerCrashes

(* The two threads run whenever they can: no lock is asked for more often  *)
(* than there are messages, so weak fairness is enough to get it.  The     *)
(* server serves while it is up, the host goes on reading while it holds   *)
(* its end, and the kernel delivers a kill.                                *)
Fairness ==
    /\ WF_vars(MainStep)
    /\ WF_vars(PumpStep)
    /\ WF_vars(Serving)
    /\ WF_vars(HostReads)

Spec == Init /\ [][Next]_vars /\ Fairness
=============================================================================
