---------------------------- MODULE StdioProofs ----------------------------
(***************************************************************************)
(* Theorems about the stdio proxy, for all requests, any capacity of the   *)
(* pipes and any number of signals.                                        *)
(***************************************************************************)
EXTENDS StdioProperties, FiniteSetTheorems, TLAPS

(* What the main thread works on, or left in the buffer of the pipe, is a  *)
(* request.                                                                *)
InHand == main \in {"deciding", "answering", "writing", "forwarding"} \/ unflushed

(* What an interrupted write left in the buffer is there until the pipe is *)
(* closed, or the process is gone.                                         *)
LeftoverInv == unflushed => main \in {"closing", "exited"}

TypeInv ==
    /\ TypeOK
    /\ LeftoverInv
    /\ InHand => current \in Requests

LEMMA MessageTypes ==
    /\ Nothing \in Message
    /\ \A r \in Requests : \A k \in {"refusal", "result", "error"} : Answer(k, r) \in Message
    /\ \A r \in Requests : \A k \in {"result", "error"} : [Answer(k, r) EXCEPT !.again = TRUE] \in Message
    BY DEF Message, Nothing, Answer, None

(* What a message is the first answer to, and that a repeat is of none.    *)
LEMMA RepeatAnswersNothing ==
    ASSUME NEW k, NEW r
    PROVE  /\ Answers([Answer(k, r) EXCEPT !.again = TRUE]) = None
           /\ [Answer(k, r) EXCEPT !.again = TRUE].id = r
           /\ [Answer(k, r) EXCEPT !.again = TRUE].kind = k
           /\ [Answer(k, r) EXCEPT !.again = TRUE].again
    BY DEF Answers, Answer

LEMMA FirstAnswers ==
    /\ Answers(Nothing) = None
    /\ \A k, r : Answers(Answer(k, r)) = r /\ Answer(k, r).id = r /\ Answer(k, r).kind = k /\ ~Answer(k, r).again
    BY DEF Answers, Answer, Nothing

LEMMA TypeInit ==
    ASSUME Init
    PROVE  TypeInv
  <1>1. hostIn \in Seq(Requests) /\ toServer \in Seq(Requests)
    BY DEF Init
  <1>2. hostOut \in Seq(Message) /\ got \in Seq(Message)
    BY DEF Init
  <1>3. fromServer \in Seq(Message) /\ owed \in Seq(Message)
    BY DEF Init
  <1>4. carried \in Message
    BY MessageTypes DEF Init
  <1>5. left \in [pushes : Nat, repeats : Nat, signals : Nat]
    BY StdioAssumption DEF Init
  <1>6. verdict \in [Requests -> {"none", "allow", "deny"}]
    BY DEF Init
  <1> QED
    BY <1>1, <1>2, <1>3, <1>4, <1>5, <1>6
    DEF Init, TypeInv, TypeOK, LeftoverInv, InHand, Phases, Trying, Ending, None

USE DEF hostVars, mainVars, pumpVars, serverVars, historyVars, vars

(* A pipe holds messages before and after any of its ends moved.           *)
LEMMA AppendType ==
    ASSUME NEW S, NEW pipe \in Seq(S), NEW m \in S
    PROVE  Append(pipe, m) \in Seq(S)
    OBVIOUS

LEMMA PipeTypes ==
    ASSUME NEW S, NEW pipe \in Seq(S)
    PROVE  /\ \A m \in S : Append(pipe, m) \in Seq(S)
           /\ pipe # <<>> => Tail(pipe) \in Seq(S) /\ Head(pipe) \in S
           /\ <<>> \in Seq(S)
           /\ \A m \in S : <<m>> \in Seq(S)
    OBVIOUS

(* What is taken from the limits of a session was left.                    *)
LEMMA LeftTypes ==
    ASSUME NEW l \in [pushes : Nat, repeats : Nat, signals : Nat]
    PROVE  /\ l.pushes > 0 => [l EXCEPT !.pushes = @ - 1] \in [pushes : Nat, repeats : Nat, signals : Nat]
           /\ l.repeats > 0 => [l EXCEPT !.repeats = @ - 1] \in [pushes : Nat, repeats : Nat, signals : Nat]
           /\ l.signals > 0 => [l EXCEPT !.signals = @ - 1] \in [pushes : Nat, repeats : Nat, signals : Nat]
    OBVIOUS

LEMMA TypeStep ==
    ASSUME TypeInv, [Next]_vars
    PROVE  TypeInv'
  <1> USE DEF TypeInv, TypeOK, LeftoverInv, InHand, Phases, Trying, Ending
  <1>1. CASE HostSend
    BY <1>1, PipeTypes DEF HostSend
  <1>2. CASE HostCloses
    <2>1. hostInOpen' \in BOOLEAN
      BY <1>2, Zenon DEF HostCloses
    <2> QED
      BY <1>2, <2>1 DEF HostCloses
  <1>3. CASE HostReads
    BY <1>3, PipeTypes DEF HostReads
  <1>4. CASE HostHangsUp
    <2>1. hostOutOpen' \in BOOLEAN
      BY <1>4, Zenon DEF HostHangsUp
    <2>2. hostOut' \in Seq(Message)
      BY <1>4 DEF HostHangsUp
    <2> QED
      BY <1>4, <2>1, <2>2 DEF HostHangsUp
  <1>5. CASE Start
    BY <1>5 DEF Start, Goto
  <1>6. CASE ReadHost
    BY <1>6, PipeTypes DEF ReadHost, Goto
  <1>7. CASE ReadEnd
    BY <1>7 DEF ReadEnd, Goto
  <1>8. CASE DecideFails
    BY <1>8 DEF DecideFails, Goto
  <1>9. ASSUME NEW v \in {"allow", "deny"}, Decide(v) PROVE TypeInv'
    BY <1>9 DEF Decide, Goto
  <1>10. CASE LockToAnswer
    BY <1>10 DEF LockToAnswer, Goto
  <1>11. CASE WriteRefusal
    <2>1. current \in Requests /\ main' \in {"reading", "closing"}
      BY <1>11 DEF WriteRefusal, Goto
    <2>2. hostOut' = hostOut \/ hostOut' = Append(hostOut, Answer("refusal", current))
      BY <1>11 DEF WriteRefusal
    <2>3. Answer("refusal", current) \in Message
      BY <1>11, <2>1, MessageTypes
    <2>4. hostOut' \in Seq(Message)
      <3>1. hostOut \in Seq(Message)
        OBVIOUS
      <3>2. Append(hostOut, Answer("refusal", current)) \in Seq(Message)
        BY <2>3, <3>1, AppendType
      <3> QED
        BY <2>2, <3>1, <3>2
    <2>5. ~unflushed' /\ current' = None
      BY <1>11 DEF WriteRefusal
    <2> QED
      BY <1>11, <2>1, <2>4, <2>5 DEF WriteRefusal, Goto
  <1>12. CASE Forward
    <2>1. main' \in {"reading", "closing"}
      BY <1>12 DEF Forward, Goto
    <2>2. current \in Requests /\ (toServer' = toServer \/ toServer' = Append(toServer, current))
      BY <1>12 DEF Forward
    <2>3. toServer' \in Seq(Requests)
      <3>1. toServer \in Seq(Requests)
        OBVIOUS
      <3>2. Append(toServer, current) \in Seq(Requests)
        BY <2>2, <3>1, AppendType
      <3> QED
        BY <2>2, <3>1, <3>2
    <2>4. ~unflushed' /\ current' = None
      BY <1>12 DEF Forward
    <2> QED
      BY <1>12, <2>1, <2>3, <2>4 DEF Forward, Goto
  <1>13. CASE CloseServerInput
    <2>1. main' = "waiting"
      BY <1>13 DEF CloseServerInput, Goto
    <2>2. toServerOpen' \in BOOLEAN /\ unflushed' \in BOOLEAN /\ ~unflushed'
      BY <1>13, Zenon DEF CloseServerInput
    <2>3. toServer' = toServer \/ (current \in Requests /\ toServer' = Append(toServer, current))
      BY <1>13 DEF CloseServerInput
    <2>4. current \in Requests => Append(toServer, current) \in Seq(Requests)
      BY <1>13 DEF CloseServerInput
    <2>5. toServer' \in Seq(Requests)
      BY <1>13, <2>3, <2>4, Zenon
    <2> QED
      BY <1>13, <2>1, <2>2, <2>3, <2>4, <2>5 DEF CloseServerInput, Goto
  <1>14. CASE Reap
    BY <1>14 DEF Reap, Goto
  <1>15. CASE Escalate
    BY <1>15 DEF Escalate, Goto
  <1>16. CASE GiveUp
    BY <1>16 DEF GiveUp, Goto
  <1>17. CASE Join
    BY <1>17 DEF Join, Goto
  <1>18. CASE FinalFlush
    BY <1>18, PipeTypes DEF FinalFlush, Goto, Exit
  <1>19. CASE Signal
    <2>1. main' \in {"closing", "exited"}
      BY <1>19 DEF Signal, Goto, Exit
    <2>2. unflushed' \in BOOLEAN
      BY <1>19, Zenon DEF Signal, Exit
    <2>3. unflushed' => current \in Requests /\ main' \in {"closing", "exited"}
      BY <1>19 DEF Signal, Exit, Goto
    <2>4. cutShort' \in BOOLEAN /\ toServerOpen' \in BOOLEAN
      BY <1>19, Zenon DEF Signal, Exit
    <2>5. left' \in [pushes : Nat, repeats : Nat, signals : Nat]
      BY <1>19, LeftTypes DEF Signal
    <2>6. lock' \in {"free", "main", "pump"} /\ pump' \in {"new", "reading", "sealing", "sending", "writing", "dead"}
      BY <1>19 DEF Signal, Exit
    <2>7. UNCHANGED <<sent, hostInOpen, hostOut, hostOutOpen, got, verdict, current, pending, carried, asCall, server, toServer, owed, replied, ordered>>
      BY <1>19 DEF Signal, Exit
    <2>8. hostIn' \in Seq(Requests) /\ fromServer' \in Seq(Message)
      BY <1>19, PipeTypes DEF Signal, Exit
    <2> QED
      BY <1>19, <2>1, <2>2, <2>3, <2>4, <2>5, <2>6, <2>7, <2>8
  <1>20. CASE ReadServer
    BY <1>20, PipeTypes DEF ReadServer
  <1>21. CASE ReadServerEnd
    BY <1>21 DEF ReadServerEnd
  <1>22. CASE Seal
    BY <1>22 DEF Seal
  <1>23. CASE SealFails
    BY <1>23 DEF SealFails
  <1>24. CASE LockToSend
    BY <1>24 DEF LockToSend
  <1>25. CASE WriteToHost
    <2>1. pump' \in {"reading", "dead"}
      BY <1>25 DEF WriteToHost
    <2>2. hostOut' = hostOut \/ hostOut' = Append(hostOut, carried)
      BY <1>25 DEF WriteToHost
    <2>3. hostOut' \in Seq(Message)
      <3>1. hostOut \in Seq(Message) /\ carried \in Message
        OBVIOUS
      <3>2. Append(hostOut, carried) \in Seq(Message)
        BY <3>1, AppendType
      <3> QED
        BY <2>2, <3>1, <3>2
    <2>4. carried' \in Message /\ asCall' \in BOOLEAN
      BY <1>25, MessageTypes DEF WriteToHost
    <2> QED
      BY <1>25, <2>1, <2>3, <2>4 DEF WriteToHost
  <1>26. CASE ServerTakes
    <2>1. toServer # <<>> /\ toServer' = Tail(toServer)
      BY <1>26 DEF ServerTakes
    <2>2. Head(toServer) \in Requests /\ toServer' \in Seq(Requests)
      BY <1>26, <2>1, PipeTypes
    <2>3. PICK kind \in {"result", "error"} : owed' = <<Answer(kind, Head(toServer))>>
      BY <1>26 DEF ServerTakes
    <2>4. Answer(kind, Head(toServer)) \in Message
      BY <1>26, <2>2, MessageTypes
    <2>5. owed' \in Seq(Message)
      BY <1>26, <2>3, <2>4, PipeTypes
    <2> QED
      BY <1>26, <2>1, <2>2, <2>3, <2>4, <2>5 DEF ServerTakes
  <1>27. CASE ServerPushes
    <2>1. left' \in [pushes : Nat, repeats : Nat, signals : Nat]
      BY <1>27, LeftTypes DEF ServerPushes
    <2>2. owed' \in Seq(Message)
      BY <1>27, PipeTypes, MessageTypes DEF ServerPushes
    <2> QED
      BY <1>27, <2>1, <2>2 DEF ServerPushes
  <1>34. CASE ServerRepeats
    <2>1. PICK r \in replied, kind \in {"result", "error"} :
                owed' = <<[Answer(kind, r) EXCEPT !.again = TRUE]>>
      BY <1>34 DEF ServerRepeats
    <2>2. owed' \in Seq(Message)
      BY <2>1, MessageTypes, PipeTypes
    <2>3. left' \in [pushes : Nat, repeats : Nat, signals : Nat]
      BY <1>34, LeftTypes DEF ServerRepeats
    <2> QED
      BY <1>34, <2>2, <2>3 DEF ServerRepeats
  <1>28. CASE ServerWrites
    BY <1>28, PipeTypes DEF ServerWrites
  <1>29. CASE ServerHangs
    BY <1>29 DEF ServerHangs
  <1>30. CASE ServerCrashes
    BY <1>30, PipeTypes DEF ServerCrashes, Ends
  <1>31. CASE ServerSeesEnd
    BY <1>31, PipeTypes DEF ServerSeesEnd, Ends
  <1>32. CASE ServerObeys
    BY <1>32, PipeTypes DEF ServerObeys, Ends
  <1>33. CASE UNCHANGED vars
    BY <1>33
  <1> QED
    BY <1>1, <1>2, <1>3, <1>4, <1>5, <1>6, <1>7, <1>8, <1>9, <1>10, <1>11, <1>12, <1>13, <1>14, <1>15, <1>16, <1>17, <1>18, <1>19, <1>20, <1>21, <1>22, <1>23, <1>24, <1>25, <1>26, <1>27, <1>28, <1>29, <1>30, <1>31, <1>32, <1>33, <1>34 DEF Next, MainStep, PumpStep, Serving

(* The types, for every capacity and every number of requests.             *)
THEOREM TypesCorrect == Spec => []TypeOK
  <1>1. TypeInv => TypeOK
    BY DEF TypeInv
  <1> QED
    BY <1>1, TypeInit, TypeStep, PTL DEF Spec

-----------------------------------------------------------------------------
(* The lock.  The inbound thread is not there before the main thread       *)
(* starts it; without this, Start could take a writer from under its lock. *)
LockInv ==
    /\ OneWriterAtATime
    /\ main = "starting" => pump = "new"

LEMMA LockStep ==
    ASSUME LockInv, [Next]_vars
    PROVE  LockInv'
  <1> USE DEF LockInv, OneWriterAtATime, Trying, Ending
  <1>1. CASE HostSend
    BY <1>1 DEF HostSend
  <1>2. CASE HostCloses
    BY <1>2 DEF HostCloses
  <1>3. CASE HostReads
    BY <1>3 DEF HostReads
  <1>4. CASE HostHangsUp
    BY <1>4 DEF HostHangsUp
  <1>5. CASE Start
    BY <1>5 DEF Start, Goto
  <1>6. CASE ReadHost
    BY <1>6 DEF ReadHost, Goto
  <1>7. CASE ReadEnd
    BY <1>7 DEF ReadEnd, Goto
  <1>8. CASE DecideFails
    BY <1>8 DEF DecideFails, Goto
  <1>9. ASSUME NEW v \in {"allow", "deny"}, Decide(v) PROVE LockInv'
    BY <1>9 DEF Decide, Goto
  <1>10. CASE LockToAnswer
    BY <1>10 DEF LockToAnswer, Goto
  <1>11. CASE WriteRefusal
    BY <1>11 DEF WriteRefusal, Goto
  <1>12. CASE Forward
    BY <1>12 DEF Forward, Goto
  <1>13. CASE CloseServerInput
    BY <1>13 DEF CloseServerInput, Goto
  <1>14. CASE Reap
    BY <1>14 DEF Reap, Goto
  <1>15. CASE Escalate
    BY <1>15 DEF Escalate, Goto
  <1>16. CASE GiveUp
    BY <1>16 DEF GiveUp, Goto
  <1>17. CASE Join
    BY <1>17 DEF Join, Goto
  <1>18. CASE FinalFlush
    BY <1>18 DEF FinalFlush, Goto, Exit
  <1>19. CASE Signal
    BY <1>19 DEF Signal, Goto, Exit
  <1>20. CASE ReadServer
    BY <1>20 DEF ReadServer
  <1>21. CASE ReadServerEnd
    BY <1>21 DEF ReadServerEnd
  <1>22. CASE Seal
    BY <1>22 DEF Seal
  <1>23. CASE SealFails
    BY <1>23 DEF SealFails
  <1>24. CASE LockToSend
    BY <1>24 DEF LockToSend
  <1>25. CASE WriteToHost
    BY <1>25 DEF WriteToHost
  <1>26. CASE ServerTakes
    BY <1>26 DEF ServerTakes
  <1>27. CASE ServerPushes
    BY <1>27 DEF ServerPushes
  <1>34. CASE ServerRepeats
    BY <1>34 DEF ServerRepeats
  <1>28. CASE ServerWrites
    BY <1>28 DEF ServerWrites
  <1>29. CASE ServerHangs
    BY <1>29 DEF ServerHangs
  <1>30. CASE ServerCrashes
    BY <1>30 DEF ServerCrashes, Ends
  <1>31. CASE ServerSeesEnd
    BY <1>31 DEF ServerSeesEnd, Ends
  <1>32. CASE ServerObeys
    BY <1>32 DEF ServerObeys, Ends
  <1>33. CASE UNCHANGED vars
    BY <1>33
  <1> QED
    BY <1>1, <1>2, <1>3, <1>4, <1>5, <1>6, <1>7, <1>8, <1>9, <1>10, <1>11, <1>12, <1>13, <1>14, <1>15, <1>16, <1>17, <1>18, <1>19, <1>20, <1>21, <1>22, <1>23, <1>24, <1>25, <1>26, <1>27, <1>28, <1>29, <1>30, <1>31, <1>32, <1>33, <1>34 DEF Next, MainStep, PumpStep, Serving

(* The two threads never write to the host at once, and the lock is free   *)
(* whenever neither writes: no refusal, broken pipe or signal keeps it.    *)
THEOREM LockCorrect == Spec => []OneWriterAtATime
  <1>1. Init => LockInv
    BY DEF Init, LockInv, OneWriterAtATime
  <1>2. LockInv => OneWriterAtATime
    BY DEF LockInv
  <1> QED
    BY <1>1, <1>2, LockStep, PTL DEF Spec

-----------------------------------------------------------------------------
(* Where a request is.  It is not yet sent, or in one of the pipes, or in  *)
(* the hand of one of the threads, as itself or as the answer to it; or it *)
(* is nowhere, and lost.                                                   *)
Places == {"unsent", "hostIn", "main", "toServer", "owed", "fromServer", "pump", "hostOut", "got"}

Members(pipe) == { pipe[i] : i \in DOMAIN pipe }
Ids(pipe) == { Answers(pipe[i]) : i \in DOMAIN pipe }

Leftover == main = "closing" /\ unflushed
Working == main \in {"deciding", "answering", "writing", "forwarding"} \/ Leftover
Busy == pump \in {"sealing", "sending", "writing"}

At(place) ==
    Requests \cap
    CASE place = "unsent"     -> Requests \ sent
      [] place = "hostIn"     -> Members(hostIn)
      [] place = "main"       -> IF Working THEN {current} ELSE {}
      [] place = "toServer"   -> Members(toServer)
      [] place = "owed"       -> Ids(owed)
      [] place = "fromServer" -> Ids(fromServer)
      [] place = "pump"       -> IF Busy THEN {Answers(carried)} ELSE {}
      [] place = "hostOut"    -> Ids(hostOut)
      [] place = "got"        -> Ids(got)

Once(pipe) == \A i, j \in DOMAIN pipe : pipe[i] = pipe[j] => i = j
OnceAnswered(pipe) ==
    \A i, j \in DOMAIN pipe : Answers(pipe[i]) \in Requests /\ Answers(pipe[i]) = Answers(pipe[j]) => i = j

InOnePlace == \A p, q \in Places : p # q => At(p) \cap At(q) = {}

OnceInEach ==
    /\ Once(hostIn)
    /\ Once(toServer)
    /\ OnceAnswered(owed)
    /\ OnceAnswered(fromServer)
    /\ OnceAnswered(hostOut)
    /\ OnceAnswered(got)

PlaceInv == InOnePlace /\ OnceInEach /\ LeftoverInv

(* What the verdict is at each place, and that a message is a refusal if   *)
(* and only if its request was denied.                                     *)
Fits(m) == m.kind # "push" => m.id \in Requests /\ (m.kind = "refusal" <=> verdict[m.id] = "deny")

VerdictInv ==
    /\ \A r \in At("unsent") \cup At("hostIn") : verdict[r] = "none"
    /\ main = "deciding" => verdict[current] = "none"
    /\ main \in {"answering", "writing"} => verdict[current] = "deny"
    /\ main = "forwarding" \/ Leftover => verdict[current] # "deny"
    /\ \A r \in At("toServer") : verdict[r] # "deny"
    /\ \A m \in Members(owed) : Fits(m)
    /\ \A m \in Members(fromServer) : Fits(m)
    /\ Busy => Fits(carried)
    /\ \A m \in Members(hostOut) : Fits(m)
    /\ \A m \in Members(got) : Fits(m)

(* What the server repeats it has answered: it has left the proxy and the  *)
(* pipe to the server, was not denied, and its first answer is ahead of    *)
(* the repeat in every pipe.                                               *)
Upstream == At("unsent") \cup At("hostIn") \cup At("main") \cup At("toServer")
Messages == Members(owed) \cup Members(fromServer) \cup Members(hostOut) \cup Members(got)
                \cup IF Busy THEN {carried} ELSE {}

RepeatsAreBehind ==
    /\ \A i, j \in DOMAIN fromServer :
        i < j /\ fromServer[i].again => Answers(fromServer[j]) # fromServer[i].id
    /\ \A i \in DOMAIN fromServer : \A k \in DOMAIN owed :
        fromServer[i].again => Answers(owed[k]) # fromServer[i].id

RepeatInv ==
    /\ \A r \in replied : r \notin Upstream /\ verdict[r] # "deny"
    /\ \A m \in Messages : m.again => m.id \in replied
    /\ RepeatsAreBehind

(* A call is in the table from before it is sent on until its result is    *)
(* read.                                                                   *)
Awaited(r) == KindOf[r] = "call" => r \in pending

PendingInv ==
    /\ main = "forwarding" \/ Leftover => Awaited(current)
    /\ \A r \in At("toServer") \cup At("owed") \cup At("fromServer") : Awaited(r)
    /\ ResultsAreKnown

(* What appending to a pipe and reading from it do to what is in it.       *)
LEMMA AppendMembers ==
    ASSUME NEW S, NEW pipe \in Seq(S), NEW m \in S
    PROVE  /\ Members(Append(pipe, m)) = Members(pipe) \cup {m}
           /\ Once(pipe) /\ m \notin Members(pipe) => Once(Append(pipe, m))
  <1>1. /\ DOMAIN Append(pipe, m) = 1..(Len(pipe) + 1)
        /\ DOMAIN pipe = 1..Len(pipe)
        /\ Len(pipe) \in Nat
        /\ \A i \in 1..Len(pipe) : Append(pipe, m)[i] = pipe[i]
        /\ Append(pipe, m)[Len(pipe) + 1] = m
    OBVIOUS
  <1> DEFINE longer == Append(pipe, m)
  <1> HIDE DEF longer
  <1>2. 1..(Len(pipe) + 1) = 1..Len(pipe) \cup {Len(pipe) + 1}
    BY <1>1
  <1>3. Members(longer) = Members(pipe) \cup {m}
    BY <1>1, <1>2 DEF Members, longer
  <1>4. Once(pipe) /\ m \notin Members(pipe) => Once(longer)
    BY <1>1, <1>2 DEF Once, Members, longer
  <1> QED
    BY <1>3, <1>4 DEF longer

LEMMA TailMembers ==
    ASSUME NEW S, NEW pipe \in Seq(S), pipe # <<>>
    PROVE  /\ Head(pipe) \in Members(pipe)
           /\ Members(Tail(pipe)) \subseteq Members(pipe)
           /\ Once(pipe) => Once(Tail(pipe)) /\ Head(pipe) \notin Members(Tail(pipe))
  <1>1. /\ DOMAIN pipe = 1..Len(pipe)
        /\ Len(pipe) \in Nat \ {0}
        /\ DOMAIN Tail(pipe) = 1..(Len(pipe) - 1)
        /\ \A i \in 1..(Len(pipe) - 1) : Tail(pipe)[i] = pipe[i + 1]
        /\ Head(pipe) = pipe[1]
    OBVIOUS
  <1> DEFINE rest == Tail(pipe)
  <1> HIDE DEF rest
  <1>2. \A i \in DOMAIN rest : i + 1 \in DOMAIN pipe /\ i + 1 # 1 /\ rest[i] = pipe[i + 1]
    BY <1>1 DEF rest
  <1>3. Members(rest) \subseteq Members(pipe)
    BY <1>2 DEF Members
  <1>4. Head(pipe) \in Members(pipe)
    BY <1>1 DEF Members
  <1>5. ASSUME Once(pipe) PROVE Once(rest)
    <2> SUFFICES ASSUME NEW i \in DOMAIN rest, NEW j \in DOMAIN rest, rest[i] = rest[j]
                 PROVE  i = j
      BY DEF Once
    <2>1. i + 1 = j + 1
      BY <1>2, <1>5 DEF Once
    <2>2. i \in Nat /\ j \in Nat
      BY <1>1 DEF rest
    <2> QED
      BY <2>1, <2>2
  <1>6. Once(pipe) => Head(pipe) \notin Members(rest)
    BY <1>1, <1>2 DEF Once, Members
  <1> QED
    BY <1>3, <1>4, <1>5, <1>6 DEF rest

LEMMA AppendIds ==
    ASSUME NEW pipe \in Seq(Message), NEW m \in Message
    PROVE  /\ Ids(Append(pipe, m)) = Ids(pipe) \cup {Answers(m)}
           /\ OnceAnswered(pipe) /\ Answers(m) \notin Requests \cap Ids(pipe)
                => OnceAnswered(Append(pipe, m))
           /\ Members(Append(pipe, m)) = Members(pipe) \cup {m}
  <1>1. /\ DOMAIN Append(pipe, m) = 1..(Len(pipe) + 1)
        /\ DOMAIN pipe = 1..Len(pipe)
        /\ Len(pipe) \in Nat
        /\ \A i \in 1..Len(pipe) : Append(pipe, m)[i] = pipe[i]
        /\ Append(pipe, m)[Len(pipe) + 1] = m
    OBVIOUS
  <1> DEFINE longer == Append(pipe, m)
  <1> HIDE DEF longer
  <1>2. 1..(Len(pipe) + 1) = 1..Len(pipe) \cup {Len(pipe) + 1}
    BY <1>1
  <1>3. Ids(longer) = Ids(pipe) \cup {Answers(m)}
    BY <1>1, <1>2 DEF Ids, longer
  <1>4. OnceAnswered(pipe) /\ Answers(m) \notin Requests \cap Ids(pipe) => OnceAnswered(longer)
    BY <1>1, <1>2 DEF OnceAnswered, Ids, longer
  <1>5. Members(longer) = Members(pipe) \cup {m}
    BY <1>1, <1>2 DEF Members, longer
  <1> QED
    BY <1>3, <1>4, <1>5 DEF longer

LEMMA TailIds ==
    ASSUME NEW pipe \in Seq(Message), pipe # <<>>
    PROVE  /\ Answers(Head(pipe)) \in Ids(pipe)
           /\ Head(pipe) \in Members(pipe)
           /\ Ids(Tail(pipe)) \subseteq Ids(pipe)
           /\ Members(Tail(pipe)) \subseteq Members(pipe)
           /\ OnceAnswered(pipe) =>
                /\ OnceAnswered(Tail(pipe))
                /\ Answers(Head(pipe)) \notin Requests \cap Ids(Tail(pipe))
  <1>1. /\ DOMAIN pipe = 1..Len(pipe)
        /\ Len(pipe) \in Nat \ {0}
        /\ DOMAIN Tail(pipe) = 1..(Len(pipe) - 1)
        /\ \A i \in 1..(Len(pipe) - 1) : Tail(pipe)[i] = pipe[i + 1]
        /\ Head(pipe) = pipe[1]
    OBVIOUS
  <1> DEFINE rest == Tail(pipe)
  <1> HIDE DEF rest
  <1>2. \A i \in DOMAIN rest : i + 1 \in DOMAIN pipe /\ i + 1 # 1 /\ rest[i] = pipe[i + 1]
    BY <1>1 DEF rest
  <1>3. Ids(rest) \subseteq Ids(pipe) /\ Members(rest) \subseteq Members(pipe)
    BY <1>2 DEF Ids, Members
  <1>4. Answers(Head(pipe)) \in Ids(pipe) /\ Head(pipe) \in Members(pipe)
    BY <1>1 DEF Ids, Members
  <1>5. ASSUME OnceAnswered(pipe) PROVE OnceAnswered(rest)
    <2> SUFFICES ASSUME NEW i \in DOMAIN rest, NEW j \in DOMAIN rest,
                        Answers(rest[i]) \in Requests, Answers(rest[i]) = Answers(rest[j])
                 PROVE  i = j
      BY DEF OnceAnswered
    <2>1. i + 1 = j + 1
      BY <1>2, <1>5 DEF OnceAnswered
    <2>2. i \in Nat /\ j \in Nat
      BY <1>1 DEF rest
    <2> QED
      BY <2>1, <2>2
  <1>6. OnceAnswered(pipe) => Answers(Head(pipe)) \notin Requests \cap Ids(rest)
    BY <1>1, <1>2 DEF OnceAnswered, Ids
  <1> QED
    BY <1>3, <1>4, <1>5, <1>6 DEF rest

LEMMA EmptyPipe ==
    /\ Members(<<>>) = {} /\ Ids(<<>>) = {}
    /\ Once(<<>>) /\ OnceAnswered(<<>>)
    BY DEF Members, Ids, Once, OnceAnswered

LEMMA SinglePipe ==
    ASSUME NEW m
    PROVE  /\ Ids(<<m>>) = {Answers(m)}
           /\ Members(<<m>>) = {m}
           /\ OnceAnswered(<<m>>)
    BY DEF Members, Ids, OnceAnswered

-----------------------------------------------------------------------------
AtEach ==
    /\ At("unsent") = Requests \ sent
    /\ At("hostIn") = Requests \cap Members(hostIn)
    /\ At("main") = Requests \cap IF Working THEN {current} ELSE {}
    /\ At("toServer") = Requests \cap Members(toServer)
    /\ At("owed") = Requests \cap Ids(owed)
    /\ At("fromServer") = Requests \cap Ids(fromServer)
    /\ At("pump") = Requests \cap IF Busy THEN {Answers(carried)} ELSE {}
    /\ At("hostOut") = Requests \cap Ids(hostOut)
    /\ At("got") = Requests \cap Ids(got)

LEMMA AtIsAtEach == AtEach /\ AtEach'
  <1>1. AtEach
    BY DEF AtEach, At
  <1>2. AtEach'
    BY DEF AtEach, At
  <1> QED
    BY <1>1, <1>2

(* A request that leaves one place for another is still in one place.      *)
LEMMA MoveKeepsPlaces ==
    ASSUME InOnePlace, NEW from \in Places, NEW to \in Places, from # to,
           NEW r \in At(from), r \notin At(from)',
           \A p \in Places : p # to => At(p)' \subseteq At(p),
           At(to)' \subseteq At(to) \cup {r}
    PROVE  InOnePlace'
    BY DEF InOnePlace

LEMMA LossKeepsPlaces ==
    ASSUME InOnePlace, \A p \in Places : At(p)' \subseteq At(p)
    PROVE  InOnePlace'
    BY DEF InOnePlace

(* A step that loses requests, or leaves each of them where it is.         *)
LEMMA LossKeepsPlaceInv ==
    ASSUME PlaceInv, sent' = sent,
           hostIn' = hostIn \/ hostIn' = <<>>, hostOut' = hostOut \/ hostOut' = <<>>, got' = got,
           toServer' = toServer \/ toServer' = <<>>,
           owed' = owed \/ owed' = <<>> \/ (\E m : Answers(m) = None /\ owed' = <<m>>),
           fromServer' = fromServer \/ fromServer' = <<>>,
           Working' => Working /\ current' = current,
           Busy' => Busy /\ carried' = carried,
           LeftoverInv'
    PROVE  PlaceInv'
  <1>1. ASSUME NEW m, Answers(m) = None
        PROVE  Requests \cap Ids(<<m>>) = {} /\ OnceAnswered(<<m>>)
    <2>1. Ids(<<m>>) = {None} /\ OnceAnswered(<<m>>)
      BY <1>1, SinglePipe
    <2> QED
      BY <2>1, StdioAssumption DEF None
  <1>2. \A p \in Places : At(p)' \subseteq At(p)
    BY <1>1, AtIsAtEach, EmptyPipe DEF AtEach, Places
  <1>3. InOnePlace'
    BY <1>2, LossKeepsPlaces DEF PlaceInv
  <1>4. OnceInEach'
    BY <1>1, EmptyPipe DEF PlaceInv, OnceInEach
  <1> QED
    BY <1>3, <1>4 DEF PlaceInv

LEMMA HostSendPlaces ==
    ASSUME TypeInv, PlaceInv, HostSend
    PROVE  PlaceInv'
  <1>1. PICK r \in Requests \ sent : sent' = sent \cup {r} /\ hostIn' = Append(hostIn, r)
    BY DEF HostSend
  <1>2. UNCHANGED <<mainVars, pumpVars, toServer, owed, fromServer, hostOut, got>>
    BY DEF HostSend
  <1>3. r \in At("unsent") /\ r \notin At("unsent")'
    BY <1>1, AtIsAtEach DEF AtEach
  <1>4. r \notin Members(hostIn)
    BY <1>3, AtIsAtEach DEF AtEach, PlaceInv, InOnePlace, Places
  <1>5. Members(hostIn') = Members(hostIn) \cup {r} /\ Once(hostIn')
    BY <1>1, <1>4, AppendMembers DEF TypeInv, TypeOK, PlaceInv, OnceInEach
  <1>6. At("hostIn")' \subseteq At("hostIn") \cup {r}
    BY <1>5, AtIsAtEach DEF AtEach
  <1>7. \A p \in Places : p # "hostIn" => At(p)' \subseteq At(p)
    BY <1>1, <1>2, AtIsAtEach DEF AtEach, Places, Working, Leftover, Busy
  <1>8. InOnePlace'
    BY <1>3, <1>6, <1>7, MoveKeepsPlaces DEF PlaceInv, Places
  <1> QED
    BY <1>2, <1>5, <1>8 DEF PlaceInv, OnceInEach, LeftoverInv

LEMMA ReadHostPlaces ==
    ASSUME TypeInv, PlaceInv, ReadHost
    PROVE  PlaceInv'
  <1> DEFINE r == Head(hostIn)
  <1>1. /\ hostIn # <<>> /\ hostIn' = Tail(hostIn) /\ main = "reading"
        /\ current' = r /\ main' \in {"forwarding", "deciding"}
    BY DEF ReadHost, Goto
  <1>2. UNCHANGED <<unflushed, pumpVars, sent, toServer, owed, fromServer, hostOut, got>>
    BY DEF ReadHost
  <1>3. r \in Requests /\ hostIn \in Seq(Requests)
    BY <1>1, PipeTypes DEF TypeInv, TypeOK
  <1>4. /\ r \in Members(hostIn) /\ Members(hostIn') \subseteq Members(hostIn)
        /\ Once(hostIn') /\ r \notin Members(hostIn')
    BY <1>1, <1>3, TailMembers DEF PlaceInv, OnceInEach
  <1>5. r \in At("hostIn") /\ r \notin At("hostIn")'
    BY <1>3, <1>4, AtIsAtEach DEF AtEach
  <1>6. At("main")' \subseteq At("main") \cup {r}
    BY <1>1, AtIsAtEach DEF AtEach
  <1>7. \A p \in Places : p # "main" => At(p)' \subseteq At(p)
    BY <1>2, <1>4, AtIsAtEach DEF AtEach, Places, Busy
  <1>8. InOnePlace'
    BY <1>5, <1>6, <1>7, MoveKeepsPlaces DEF PlaceInv, Places
  <1>9. ~unflushed'
    BY <1>1, <1>2 DEF PlaceInv, LeftoverInv
  <1> QED
    BY <1>2, <1>4, <1>8, <1>9 DEF PlaceInv, OnceInEach, LeftoverInv

LEMMA WriteRefusalPlaces ==
    ASSUME TypeInv, PlaceInv, WriteRefusal
    PROVE  PlaceInv'
  <1> DEFINE m == Answer("refusal", current)
  <1>1. main = "writing" /\ current \in Requests /\ ~unflushed
    BY DEF WriteRefusal, TypeInv, InHand, PlaceInv, LeftoverInv
  <1>2. UNCHANGED <<sent, hostIn, unflushed, pumpVars, toServer, owed, fromServer, got>>
    BY DEF WriteRefusal
  <1>3. CASE hostOut' = hostOut /\ main' = "closing"
    BY <1>1, <1>2, <1>3, LossKeepsPlaceInv DEF Working, Leftover, Busy, LeftoverInv
  <1>4. CASE hostOut' = Append(hostOut, m) /\ main' = "reading"
    <2>1. m \in Message /\ Answers(m) = current /\ hostOut \in Seq(Message)
      BY <1>1, MessageTypes, FirstAnswers DEF TypeInv, TypeOK
    <2>2. current \in At("main") /\ current \notin At("main")'
      BY <1>1, <1>2, <1>4, AtIsAtEach DEF AtEach, Working, Leftover
    <2>3. current \notin Ids(hostOut)
      BY <1>1, <2>2, AtIsAtEach DEF AtEach, PlaceInv, InOnePlace, Places
    <2>4. Ids(hostOut') = Ids(hostOut) \cup {current} /\ OnceAnswered(hostOut')
      BY <1>4, <2>1, <2>3, AppendIds DEF PlaceInv, OnceInEach
    <2>5. At("hostOut")' \subseteq At("hostOut") \cup {current}
      BY <2>4, AtIsAtEach DEF AtEach
    <2>6. \A p \in Places : p # "hostOut" => At(p)' \subseteq At(p)
      BY <1>1, <1>2, <1>4, AtIsAtEach DEF AtEach, Places, Working, Leftover, Busy
    <2>7. InOnePlace'
      BY <2>2, <2>5, <2>6, MoveKeepsPlaces DEF PlaceInv, Places
    <2> QED
      BY <1>1, <1>2, <2>4, <2>7 DEF PlaceInv, OnceInEach, LeftoverInv
  <1> QED
    BY <1>3, <1>4 DEF WriteRefusal, Goto

(* What the main thread sends on, whole or from the buffer of the pipe.    *)
LEMMA SendingOnPlaces ==
    ASSUME TypeInv, PlaceInv, Working, current \in Requests,
           toServer' = Append(toServer, current),
           ~Working', LeftoverInv',
           UNCHANGED <<sent, hostIn, pumpVars, owed, fromServer, hostOut, got>>
    PROVE  PlaceInv'
  <1>1. current \in At("main") /\ current \notin At("main")'
    BY AtIsAtEach DEF AtEach
  <1>2. current \notin Members(toServer)
    BY <1>1, AtIsAtEach DEF AtEach, PlaceInv, InOnePlace, Places
  <1>3. Members(toServer') = Members(toServer) \cup {current} /\ Once(toServer')
    BY <1>2, AppendMembers DEF TypeInv, TypeOK, PlaceInv, OnceInEach
  <1>4. At("toServer")' \subseteq At("toServer") \cup {current}
    BY <1>3, AtIsAtEach DEF AtEach
  <1>5. \A p \in Places : p # "toServer" => At(p)' \subseteq At(p)
    BY AtIsAtEach DEF AtEach, Places, Busy
  <1>6. InOnePlace'
    BY <1>1, <1>4, <1>5, MoveKeepsPlaces DEF PlaceInv, Places
  <1> QED
    BY <1>3, <1>6 DEF PlaceInv, OnceInEach

LEMMA ForwardPlaces ==
    ASSUME TypeInv, PlaceInv, Forward
    PROVE  PlaceInv'
  <1>1. main = "forwarding" /\ current \in Requests /\ ~unflushed
    BY DEF Forward, TypeInv, InHand, PlaceInv, LeftoverInv
  <1>2. UNCHANGED <<sent, hostIn, unflushed, pumpVars, owed, fromServer, hostOut, got>>
    BY DEF Forward
  <1>3. main' \in {"reading", "closing"} /\ ~unflushed' /\ ~Working' /\ Working /\ LeftoverInv'
    BY <1>1, <1>2 DEF Forward, Goto, Working, Leftover, LeftoverInv
  <1>4. CASE toServer' = toServer
    BY <1>2, <1>3, <1>4, LossKeepsPlaceInv DEF Busy
  <1>5. CASE toServer' = Append(toServer, current)
    BY <1>1, <1>2, <1>3, <1>5, SendingOnPlaces
  <1> QED
    BY <1>4, <1>5 DEF Forward

LEMMA CloseServerInputPlaces ==
    ASSUME TypeInv, PlaceInv, CloseServerInput
    PROVE  PlaceInv'
  <1>1. UNCHANGED <<sent, hostIn, current, pumpVars, owed, fromServer, hostOut, got>>
    BY DEF CloseServerInput
  <1>2. main = "closing" /\ main' = "waiting" /\ ~unflushed' /\ ~Working' /\ LeftoverInv'
    BY DEF CloseServerInput, Goto, Working, Leftover, LeftoverInv
  <1>3. CASE toServer' = toServer
    BY <1>1, <1>2, <1>3, LossKeepsPlaceInv DEF Busy
  <1>4. CASE unflushed /\ toServer' = Append(toServer, current)
    <2>1. current \in Requests /\ Working
      BY <1>2, <1>4 DEF TypeInv, InHand, Working, Leftover
    <2> QED
      BY <1>1, <1>2, <1>4, <2>1, SendingOnPlaces
  <1> QED
    BY <1>3, <1>4 DEF CloseServerInput

LEMMA ServerTakesPlaces ==
    ASSUME TypeInv, PlaceInv, ServerTakes
    PROVE  PlaceInv'
  <1> DEFINE r == Head(toServer)
  <1>1. toServer # <<>> /\ toServer' = Tail(toServer) /\ owed = <<>>
    BY DEF ServerTakes
  <1>2. PICK kind \in {"result", "error"} : owed' = <<Answer(kind, r)>>
    BY DEF ServerTakes
  <1>3. UNCHANGED <<sent, hostIn, mainVars, pumpVars, fromServer, hostOut, got>>
    BY DEF ServerTakes
  <1>4. r \in Requests /\ toServer \in Seq(Requests)
    BY <1>1, PipeTypes DEF TypeInv, TypeOK
  <1>5. /\ r \in Members(toServer) /\ Members(toServer') \subseteq Members(toServer)
        /\ Once(toServer') /\ r \notin Members(toServer')
    BY <1>1, <1>4, TailMembers DEF PlaceInv, OnceInEach
  <1>6. Ids(owed') = {r} /\ OnceAnswered(owed')
    BY <1>2, SinglePipe, FirstAnswers
  <1>7. r \in At("toServer") /\ r \notin At("toServer")'
    BY <1>4, <1>5, AtIsAtEach DEF AtEach
  <1>8. At("owed")' \subseteq At("owed") \cup {r}
    BY <1>6, AtIsAtEach DEF AtEach
  <1>9. \A p \in Places : p # "owed" => At(p)' \subseteq At(p)
    BY <1>3, <1>5, AtIsAtEach DEF AtEach, Places, Working, Leftover, Busy
  <1>10. InOnePlace'
    BY <1>7, <1>8, <1>9, MoveKeepsPlaces DEF PlaceInv, Places
  <1> QED
    BY <1>3, <1>5, <1>6, <1>10 DEF PlaceInv, OnceInEach, LeftoverInv

(* A message that is taken from one pipe, or one hand, to another.         *)
LEMMA CarryKeepsPlaces ==
    ASSUME PlaceInv, NEW from \in Places, NEW to \in Places, from # to,
           NEW m \in Message,
           Answers(m) \in Requests => Answers(m) \in At(from) /\ Answers(m) \notin At(from)',
           \A p \in Places : p # to => At(p)' \subseteq At(p),
           At(to)' \subseteq At(to) \cup (Requests \cap {Answers(m)})
    PROVE  InOnePlace'
  <1>1. CASE Answers(m) \in Requests
    BY <1>1, MoveKeepsPlaces DEF PlaceInv
  <1>2. CASE Answers(m) \notin Requests
    BY <1>2, LossKeepsPlaces DEF PlaceInv
  <1> QED
    BY <1>1, <1>2

LEMMA ServerWritesPlaces ==
    ASSUME TypeInv, PlaceInv, ServerWrites
    PROVE  PlaceInv'
  <1> DEFINE m == Head(owed)
  <1>1. owed # <<>> /\ owed' = <<>>
    BY DEF ServerWrites
  <1>2. UNCHANGED <<sent, hostIn, mainVars, pumpVars, toServer, hostOut, got>>
    BY DEF ServerWrites
  <1>3. CASE fromServer' = fromServer
    BY <1>1, <1>2, <1>3, LossKeepsPlaceInv DEF PlaceInv, LeftoverInv, Working, Leftover, Busy
  <1>4. CASE fromServer' = Append(fromServer, m)
    <2>1. m \in Message /\ owed \in Seq(Message) /\ fromServer \in Seq(Message)
      BY <1>1, PipeTypes DEF TypeInv, TypeOK
    <2>2. Answers(m) \in Ids(owed)
      BY <1>1, <2>1, TailIds
    <2>3. Answers(m) \in Requests => Answers(m) \in At("owed") /\ Answers(m) \notin At("owed")'
      BY <1>1, <2>2, EmptyPipe, AtIsAtEach DEF AtEach
    <2>4. Answers(m) \notin Requests \cap Ids(fromServer)
      BY <2>3, AtIsAtEach DEF AtEach, PlaceInv, InOnePlace, Places
    <2>5. Ids(fromServer') = Ids(fromServer) \cup {Answers(m)} /\ OnceAnswered(fromServer')
      BY <1>4, <2>1, <2>4, AppendIds DEF PlaceInv, OnceInEach
    <2>6. At("fromServer")' \subseteq At("fromServer") \cup (Requests \cap {Answers(m)})
      BY <2>5, AtIsAtEach DEF AtEach
    <2>7. \A p \in Places : p # "fromServer" => At(p)' \subseteq At(p)
      BY <1>1, <1>2, EmptyPipe, AtIsAtEach DEF AtEach, Places, Working, Leftover, Busy
    <2>8. InOnePlace'
      BY <2>1, <2>3, <2>6, <2>7, CarryKeepsPlaces DEF Places
    <2> QED
      BY <1>1, <1>2, <2>5, <2>8, EmptyPipe DEF PlaceInv, OnceInEach, LeftoverInv
  <1> QED
    BY <1>3, <1>4 DEF ServerWrites

LEMMA ReadServerPlaces ==
    ASSUME TypeInv, PlaceInv, ReadServer
    PROVE  PlaceInv'
  <1> DEFINE m == Head(fromServer)
  <1>1. fromServer # <<>> /\ fromServer' = Tail(fromServer)
    BY DEF ReadServer
  <1>2. UNCHANGED <<sent, hostIn, mainVars, toServer, owed, hostOut, got>>
    BY DEF ReadServer
  <1>3. pump = "reading" /\ pump' \in {"sending", "sealing"} /\ carried' = m
    BY DEF ReadServer
  <1>4. m \in Message /\ fromServer \in Seq(Message)
    BY <1>1, PipeTypes DEF TypeInv, TypeOK
  <1>5. /\ Answers(m) \in Ids(fromServer) /\ Ids(fromServer') \subseteq Ids(fromServer)
        /\ OnceAnswered(fromServer') /\ Answers(m) \notin Requests \cap Ids(fromServer')
    BY <1>1, <1>4, TailIds DEF PlaceInv, OnceInEach
  <1>6. Answers(m) \in Requests => Answers(m) \in At("fromServer") /\ Answers(m) \notin At("fromServer")'
    BY <1>5, AtIsAtEach DEF AtEach
  <1>7. At("pump")' \subseteq At("pump") \cup (Requests \cap {Answers(m)})
    BY <1>3, AtIsAtEach DEF AtEach
  <1>8. \A p \in Places : p # "pump" => At(p)' \subseteq At(p)
    BY <1>2, <1>5, AtIsAtEach DEF AtEach, Places, Working, Leftover
  <1>9. InOnePlace'
    BY <1>4, <1>6, <1>7, <1>8, CarryKeepsPlaces DEF Places
  <1> QED
    BY <1>2, <1>5, <1>9 DEF PlaceInv, OnceInEach, LeftoverInv

LEMMA WriteToHostPlaces ==
    ASSUME TypeInv, PlaceInv, WriteToHost
    PROVE  PlaceInv'
  <1>1. pump = "writing"
    BY DEF WriteToHost
  <1>2. UNCHANGED <<sent, hostIn, mainVars, toServer, owed, fromServer, got>>
    BY DEF WriteToHost
  <1>3. CASE hostOut' = hostOut /\ pump' = "dead"
    BY <1>1, <1>2, <1>3, LossKeepsPlaceInv DEF PlaceInv, LeftoverInv, Working, Leftover, Busy
  <1>4. CASE hostOut' = Append(hostOut, carried) /\ pump' = "reading"
    <2>1. carried \in Message /\ hostOut \in Seq(Message)
      BY DEF TypeInv, TypeOK
    <2>2. Answers(carried) \in Requests => Answers(carried) \in At("pump") /\ Answers(carried) \notin At("pump")'
      BY <1>1, <1>4, AtIsAtEach DEF AtEach, Busy
    <2>3. Answers(carried) \notin Requests \cap Ids(hostOut)
      BY <2>2, AtIsAtEach DEF AtEach, PlaceInv, InOnePlace, Places
    <2>4. Ids(hostOut') = Ids(hostOut) \cup {Answers(carried)} /\ OnceAnswered(hostOut')
      BY <1>4, <2>1, <2>3, AppendIds DEF PlaceInv, OnceInEach
    <2>5. At("hostOut")' \subseteq At("hostOut") \cup (Requests \cap {Answers(carried)})
      BY <2>4, AtIsAtEach DEF AtEach
    <2>6. \A p \in Places : p # "hostOut" => At(p)' \subseteq At(p)
      BY <1>2, <1>4, AtIsAtEach DEF AtEach, Places, Working, Leftover, Busy
    <2>7. InOnePlace'
      BY <2>1, <2>2, <2>5, <2>6, CarryKeepsPlaces DEF Places
    <2> QED
      BY <1>2, <2>4, <2>7 DEF PlaceInv, OnceInEach, LeftoverInv
  <1> QED
    BY <1>3, <1>4 DEF WriteToHost

LEMMA HostReadsPlaces ==
    ASSUME TypeInv, PlaceInv, HostReads
    PROVE  PlaceInv'
  <1> DEFINE m == Head(hostOut)
  <1>1. /\ hostOut # <<>> /\ hostOut' = Tail(hostOut)
        /\ got' = IF Answers(m) = None THEN got ELSE Append(got, m)
    BY DEF HostReads
  <1>2. UNCHANGED <<sent, hostIn, mainVars, pumpVars, toServer, owed, fromServer>>
    BY DEF HostReads
  <1>3. m \in Message /\ hostOut \in Seq(Message) /\ got \in Seq(Message)
    BY <1>1, PipeTypes DEF TypeInv, TypeOK
  <1>4. /\ Answers(m) \in Ids(hostOut) /\ Ids(hostOut') \subseteq Ids(hostOut)
        /\ OnceAnswered(hostOut') /\ Answers(m) \notin Requests \cap Ids(hostOut')
    BY <1>1, <1>3, TailIds DEF PlaceInv, OnceInEach
  <1>5. Answers(m) \in Requests => Answers(m) \in At("hostOut") /\ Answers(m) \notin At("hostOut")'
    BY <1>4, AtIsAtEach DEF AtEach
  <1>6. Answers(m) \notin Requests \cap Ids(got)
    BY <1>5, AtIsAtEach DEF AtEach, PlaceInv, InOnePlace, Places
  <1>7. Ids(got') \subseteq Ids(got) \cup {Answers(m)} /\ OnceAnswered(got')
    <2>1. Ids(Append(got, m)) = Ids(got) \cup {Answers(m)} /\ OnceAnswered(Append(got, m))
      BY <1>3, <1>6, AppendIds DEF PlaceInv, OnceInEach
    <2> QED
      BY <1>1, <2>1 DEF PlaceInv, OnceInEach
  <1>8. At("got")' \subseteq At("got") \cup (Requests \cap {Answers(m)})
    BY <1>7, AtIsAtEach DEF AtEach
  <1>9. \A p \in Places : p # "got" => At(p)' \subseteq At(p)
    BY <1>2, <1>4, AtIsAtEach DEF AtEach, Places, Working, Leftover, Busy
  <1>10. InOnePlace'
    BY <1>3, <1>5, <1>8, <1>9, CarryKeepsPlaces DEF Places
  <1> QED
    BY <1>2, <1>4, <1>7, <1>10 DEF PlaceInv, OnceInEach, LeftoverInv

LEMMA PlaceStep ==
    ASSUME TypeInv, PlaceInv, [Next]_vars
    PROVE  PlaceInv'
  <1> USE DEF Working, Leftover, Busy, LeftoverInv
  <1>1. CASE HostSend
    BY <1>1, HostSendPlaces
  <1>2. CASE HostCloses
    BY <1>2, LossKeepsPlaceInv DEF PlaceInv, HostCloses
  <1>3. CASE HostReads
    BY <1>3, HostReadsPlaces
  <1>4. CASE HostHangsUp
    BY <1>4, LossKeepsPlaceInv DEF PlaceInv, HostHangsUp
  <1>5. CASE Start
    BY <1>5, LossKeepsPlaceInv DEF PlaceInv, Start, Goto
  <1>6. CASE ReadHost
    BY <1>6, ReadHostPlaces
  <1>7. CASE ReadEnd
    BY <1>7, LossKeepsPlaceInv DEF PlaceInv, ReadEnd, Goto
  <1>8. CASE DecideFails
    BY <1>8, LossKeepsPlaceInv DEF PlaceInv, DecideFails, Goto
  <1>9. ASSUME NEW v \in {"allow", "deny"}, Decide(v) PROVE PlaceInv'
    BY <1>9, LossKeepsPlaceInv DEF PlaceInv, Decide, Goto
  <1>10. CASE LockToAnswer
    BY <1>10, LossKeepsPlaceInv DEF PlaceInv, LockToAnswer, Goto
  <1>11. CASE WriteRefusal
    BY <1>11, WriteRefusalPlaces
  <1>12. CASE Forward
    BY <1>12, ForwardPlaces
  <1>13. CASE CloseServerInput
    BY <1>13, CloseServerInputPlaces
  <1>14. CASE Reap
    BY <1>14, LossKeepsPlaceInv DEF PlaceInv, Reap, Goto
  <1>15. CASE Escalate
    BY <1>15, LossKeepsPlaceInv DEF PlaceInv, Escalate
  <1>16. CASE GiveUp
    BY <1>16, LossKeepsPlaceInv DEF PlaceInv, GiveUp, Goto
  <1>17. CASE Join
    BY <1>17, LossKeepsPlaceInv DEF PlaceInv, Join, Goto
  <1>18. CASE FinalFlush
    BY <1>18, LossKeepsPlaceInv DEF PlaceInv, FinalFlush, Goto, Exit
  <1>19. CASE Signal
    BY <1>19, LossKeepsPlaceInv DEF PlaceInv, Signal, Goto, Exit
  <1>20. CASE ReadServer
    BY <1>20, ReadServerPlaces
  <1>21. CASE ReadServerEnd
    BY <1>21, LossKeepsPlaceInv DEF PlaceInv, ReadServerEnd
  <1>22. CASE Seal
    BY <1>22, LossKeepsPlaceInv DEF PlaceInv, Seal
  <1>23. CASE SealFails
    BY <1>23, LossKeepsPlaceInv DEF PlaceInv, SealFails
  <1>24. CASE LockToSend
    BY <1>24, LossKeepsPlaceInv DEF PlaceInv, LockToSend
  <1>25. CASE WriteToHost
    BY <1>25, WriteToHostPlaces
  <1>26. CASE ServerTakes
    BY <1>26, ServerTakesPlaces
  <1>27. CASE ServerPushes
    BY <1>27, FirstAnswers, LossKeepsPlaceInv DEF PlaceInv, ServerPushes
  <1>34. CASE ServerRepeats
    <2>1. \E m : Answers(m) = None /\ owed' = <<m>>
      BY <1>34, RepeatAnswersNothing DEF ServerRepeats
    <2> QED
      BY <1>34, <2>1, LossKeepsPlaceInv DEF PlaceInv, ServerRepeats
  <1>28. CASE ServerWrites
    BY <1>28, ServerWritesPlaces
  <1>29. CASE ServerHangs
    BY <1>29, LossKeepsPlaceInv DEF PlaceInv, ServerHangs
  <1>30. CASE ServerCrashes
    BY <1>30, LossKeepsPlaceInv DEF PlaceInv, ServerCrashes, Ends
  <1>31. CASE ServerSeesEnd
    BY <1>31, LossKeepsPlaceInv DEF PlaceInv, ServerSeesEnd, Ends
  <1>32. CASE ServerObeys
    BY <1>32, LossKeepsPlaceInv DEF PlaceInv, ServerObeys, Ends
  <1>33. CASE UNCHANGED vars
    BY <1>33, LossKeepsPlaceInv DEF PlaceInv
  <1> QED
    BY <1>1, <1>2, <1>3, <1>4, <1>5, <1>6, <1>7, <1>8, <1>9, <1>10, <1>11, <1>12, <1>13, <1>14, <1>15, <1>16, <1>17, <1>18, <1>19, <1>20, <1>21, <1>22, <1>23, <1>24, <1>25, <1>26, <1>27, <1>28, <1>29, <1>30, <1>31, <1>32, <1>33, <1>34 DEF Next, MainStep, PumpStep, Serving

-----------------------------------------------------------------------------
(* A repeat at the head of the pipe has no first answer behind it.         *)
LEMMA RepeatAtHead ==
    ASSUME RepeatsAreBehind, fromServer \in Seq(Message), fromServer # <<>>, Head(fromServer).again
    PROVE  Head(fromServer).id \notin Ids(owed) /\ Head(fromServer).id \notin Ids(Tail(fromServer))
  <1> DEFINE m == Head(fromServer)
             rest == Tail(fromServer)
  <1>1. /\ 1 \in DOMAIN fromServer /\ m = fromServer[1]
        /\ \A j \in DOMAIN rest : j + 1 \in DOMAIN fromServer /\ 1 < j + 1 /\ rest[j] = fromServer[j + 1]
    OBVIOUS
  <1>2. \A k \in DOMAIN owed : Answers(owed[k]) # m.id
    BY <1>1 DEF RepeatsAreBehind
  <1>3. \A j \in DOMAIN rest : Answers(rest[j]) # m.id
    BY <1>1 DEF RepeatsAreBehind
  <1> QED
    BY <1>2, <1>3 DEF Ids

(* A step that brings nothing upstream and lets no repeat overtake.        *)
LEMMA RepeatsKept ==
    ASSUME RepeatInv, UNCHANGED <<verdict, replied>>, Upstream' \subseteq Upstream,
           \A m \in Messages' : m \in Messages \/ ~m.again \/ m.id \in replied,
           RepeatsAreBehind'
    PROVE  RepeatInv'
    BY DEF RepeatInv

LEMMA StillBehind ==
    ASSUME TypeInv, RepeatInv,
           fromServer' = fromServer \/ fromServer' = <<>>,
           owed' = owed \/ owed' = <<>> \/ (\E m : Answers(m) \notin replied /\ owed' = <<m>>)
    PROVE  RepeatsAreBehind'
  <1>1. \A i \in DOMAIN fromServer : fromServer[i].again => fromServer[i].id \in replied
    BY DEF RepeatInv, Messages, Members
  <1>2. DOMAIN <<>> = {}
    OBVIOUS
  <1>3. \A m : DOMAIN <<m>> = {1} /\ <<m>>[1] = m
    OBVIOUS
  <1> QED
    BY <1>1, <1>2, <1>3 DEF RepeatInv, RepeatsAreBehind

LEMMA QuietKeepsRepeats ==
    ASSUME TypeInv, RepeatInv, UNCHANGED <<verdict, replied, sent, got>>,
           hostIn' = hostIn \/ hostIn' = <<>>,
           hostOut' = hostOut \/ hostOut' = <<>>,
           toServer' = toServer \/ toServer' = <<>>,
           owed' = owed \/ owed' = <<>>
                \/ (\E m : Answers(m) \notin replied /\ (m.again => m.id \in replied) /\ owed' = <<m>>),
           fromServer' = fromServer \/ fromServer' = <<>>,
           Working' => Working /\ current' = current,
           Busy' => Busy /\ carried' = carried
    PROVE  RepeatInv'
  <1>1. Upstream' \subseteq Upstream
    BY AtIsAtEach, EmptyPipe DEF AtEach, Upstream
  <1>2. \A m \in Messages' : m \in Messages \/ ~m.again \/ m.id \in replied
    BY EmptyPipe, SinglePipe DEF Messages
  <1>3. RepeatsAreBehind'
    BY StillBehind
  <1> QED
    BY <1>1, <1>2, <1>3, RepeatsKept

(* A step of the main thread, or of the host, that moves a request.        *)
LEMMA UpstreamKeepsRepeats ==
    ASSUME TypeInv, RepeatInv, UNCHANGED <<replied, owed, fromServer, got>>,
           Upstream' \subseteq Upstream,
           \A r \in replied : verdict'[r] = verdict[r],
           \A m \in Members(hostOut') : m \in Members(hostOut) \/ ~m.again,
           Busy' => Busy /\ carried' = carried
    PROVE  RepeatInv'
  <1>1. \A m \in Messages' : m \in Messages \/ ~m.again
    BY DEF Messages
  <1>2. RepeatsAreBehind'
    BY StillBehind
  <1> QED
    BY <1>1, <1>2 DEF RepeatInv

LEMMA HostSendRepeats ==
    ASSUME TypeInv, RepeatInv, HostSend
    PROVE  RepeatInv'
  <1>1. PICK r \in Requests \ sent : sent' = sent \cup {r} /\ hostIn' = Append(hostIn, r)
    BY DEF HostSend
  <1>2. UNCHANGED <<replied, mainVars, pumpVars, toServer, owed, fromServer, hostOut, got>>
    BY DEF HostSend
  <1>3. Members(hostIn') = Members(hostIn) \cup {r}
    BY <1>1, AppendMembers DEF TypeInv, TypeOK
  <1>4. Upstream' \subseteq Upstream
    BY <1>1, <1>2, <1>3, AtIsAtEach DEF AtEach, Upstream, Working, Leftover
  <1> QED
    BY <1>2, <1>4, UpstreamKeepsRepeats DEF Busy

LEMMA ReadHostRepeats ==
    ASSUME TypeInv, RepeatInv, ReadHost
    PROVE  RepeatInv'
  <1> DEFINE r == Head(hostIn)
  <1>1. hostIn # <<>> /\ hostIn' = Tail(hostIn) /\ current' = r
    BY DEF ReadHost
  <1>2. UNCHANGED <<verdict, replied, pumpVars, sent, toServer, owed, fromServer, hostOut, got>>
    BY DEF ReadHost
  <1>3. r \in Members(hostIn) /\ Members(hostIn') \subseteq Members(hostIn)
    BY <1>1, TailMembers DEF TypeInv, TypeOK
  <1>4. Upstream' \subseteq Upstream
    BY <1>1, <1>2, <1>3, AtIsAtEach DEF AtEach, Upstream
  <1> QED
    BY <1>2, <1>4, UpstreamKeepsRepeats DEF Busy

LEMMA DecideRepeats ==
    ASSUME TypeInv, RepeatInv, NEW v \in {"allow", "deny"}, Decide(v)
    PROVE  RepeatInv'
  <1>1. main = "deciding" /\ verdict' = [verdict EXCEPT ![current] = v]
    BY DEF Decide
  <1>2. UNCHANGED <<current, pumpVars, sent, hostIn, toServer, replied, owed, fromServer, hostOut, got>>
    BY DEF Decide
  <1>3. Working
    BY <1>1 DEF Working
  <1>4. Upstream' \subseteq Upstream
    BY <1>2, <1>3, AtIsAtEach DEF AtEach, Upstream
  <1>5. current \in Upstream
    BY <1>1, <1>3, AtIsAtEach DEF AtEach, Upstream, TypeInv, InHand
  <1>6. \A r \in replied : r \in Requests /\ r # current
    BY <1>5 DEF RepeatInv, TypeInv, TypeOK
  <1>7. \A r \in replied : verdict'[r] = verdict[r]
    BY <1>1, <1>6 DEF TypeInv, TypeOK
  <1> QED
    BY <1>2, <1>4, <1>7, UpstreamKeepsRepeats DEF Busy

LEMMA WriteRefusalRepeats ==
    ASSUME TypeInv, RepeatInv, PlaceInv, WriteRefusal
    PROVE  RepeatInv'
  <1> DEFINE m == Answer("refusal", current)
  <1>1. main = "writing" /\ main' \in {"reading", "closing"} /\ ~unflushed'
    BY DEF WriteRefusal, Goto, PlaceInv, LeftoverInv
  <1>2. UNCHANGED <<verdict, sent, hostIn, toServer, replied, pumpVars, owed, fromServer, got>>
    BY DEF WriteRefusal
  <1>3. ~Working'
    BY <1>1 DEF Working, Leftover
  <1>4. Upstream' \subseteq Upstream
    BY <1>2, <1>3, AtIsAtEach DEF AtEach, Upstream
  <1>5. m \in Message /\ hostOut \in Seq(Message)
    BY <1>1, MessageTypes DEF TypeInv, TypeOK, InHand
  <1>6. Members(hostOut') \subseteq Members(hostOut) \cup {m}
    BY <1>5, AppendIds DEF WriteRefusal
  <1>7. \A x \in Members(hostOut') : x \in Members(hostOut) \/ ~x.again
    BY <1>6, FirstAnswers
  <1> QED
    BY <1>2, <1>4, <1>7, UpstreamKeepsRepeats DEF Busy

LEMMA SendingOnRepeats ==
    ASSUME TypeInv, RepeatInv, Working \/ toServer' = toServer, ~Working',
           toServer' = toServer \/ (current \in Requests /\ toServer' = Append(toServer, current)),
           UNCHANGED <<verdict, sent, hostIn, replied, pumpVars, owed, fromServer, hostOut, got>>
    PROVE  RepeatInv'
  <1>1. Members(toServer') \subseteq Members(toServer) \cup IF Working THEN {current} ELSE {}
    <2>1. toServer \in Seq(Requests)
      BY DEF TypeInv, TypeOK
    <2>2. current \in Requests => Members(Append(toServer, current)) = Members(toServer) \cup {current}
      BY <2>1, AppendMembers
    <2> QED
      BY <2>2
  <1>2. Upstream' \subseteq Upstream
    BY <1>1, AtIsAtEach DEF AtEach, Upstream
  <1> QED
    BY <1>2, UpstreamKeepsRepeats DEF Busy

LEMMA ForwardRepeats ==
    ASSUME TypeInv, PlaceInv, RepeatInv, Forward
    PROVE  RepeatInv'
  <1>1. main = "forwarding" /\ current \in Requests /\ ~unflushed /\ main' \in {"reading", "closing"}
    BY DEF Forward, Goto, TypeInv, InHand, PlaceInv, LeftoverInv
  <1>2. UNCHANGED <<verdict, sent, hostIn, unflushed, replied, pumpVars, owed, fromServer, hostOut, got>>
    BY DEF Forward
  <1>3. Working /\ ~Working'
    BY <1>1, <1>2 DEF Working, Leftover
  <1>4. toServer' = toServer \/ toServer' = Append(toServer, current)
    BY DEF Forward
  <1> QED
    BY <1>1, <1>2, <1>3, <1>4, SendingOnRepeats

LEMMA CloseServerInputRepeats ==
    ASSUME TypeInv, RepeatInv, CloseServerInput
    PROVE  RepeatInv'
  <1>1. main = "closing" /\ main' = "waiting" /\ (unflushed => current \in Requests /\ Working)
    BY DEF CloseServerInput, Goto, TypeInv, InHand, Working, Leftover
  <1>2. UNCHANGED <<verdict, sent, hostIn, replied, pumpVars, owed, fromServer, hostOut, got>>
    BY DEF CloseServerInput
  <1>3. toServer' = toServer \/ (unflushed /\ toServer' = Append(toServer, current))
    BY DEF CloseServerInput
  <1>4. ~Working'
    BY <1>1 DEF Working, Leftover
  <1> QED
    BY <1>1, <1>2, <1>3, <1>4, SendingOnRepeats

(* The first answer: its request leaves the last place upstream.           *)
LEMMA ServerTakesRepeats ==
    ASSUME TypeInv, PlaceInv, VerdictInv, RepeatInv, ServerTakes
    PROVE  RepeatInv'
  <1> DEFINE r == Head(toServer)
  <1>1. toServer # <<>> /\ toServer' = Tail(toServer) /\ replied' = replied \cup {r}
    BY DEF ServerTakes
  <1>2. PICK kind \in {"result", "error"} : owed' = <<Answer(kind, r)>>
    BY DEF ServerTakes
  <1>3. UNCHANGED <<sent, hostIn, mainVars, pumpVars, fromServer, hostOut, got>>
    BY DEF ServerTakes
  <1>4. r \in Requests /\ toServer \in Seq(Requests)
    BY <1>1, PipeTypes DEF TypeInv, TypeOK
  <1>5. /\ r \in Members(toServer) /\ Members(toServer') \subseteq Members(toServer)
        /\ r \notin Members(toServer')
    BY <1>1, <1>4, TailMembers DEF PlaceInv, OnceInEach
  <1>6. r \in At("toServer") /\ r \notin At("toServer")' /\ At("toServer")' \subseteq At("toServer")
    BY <1>4, <1>5, AtIsAtEach DEF AtEach
  <1>7. At("unsent")' = At("unsent") /\ At("hostIn")' = At("hostIn") /\ At("main")' = At("main")
    BY <1>3, AtIsAtEach DEF AtEach, Working, Leftover
  <1>8. Upstream' \subseteq Upstream /\ r \in Upstream /\ r \notin Upstream'
    BY <1>6, <1>7 DEF Upstream, PlaceInv, InOnePlace, Places
  <1>9. verdict[r] # "deny" /\ r \notin replied
    BY <1>6, <1>8 DEF VerdictInv, RepeatInv
  <1>10. \A m \in Messages' : m \in Messages \/ ~m.again
    BY <1>2, <1>3, SinglePipe, FirstAnswers DEF Messages, Busy
  <1>11. RepeatsAreBehind'
    BY <1>2, <1>3, <1>9, FirstAnswers, StillBehind
  <1> QED
    BY <1>1, <1>3, <1>8, <1>9, <1>10, <1>11 DEF RepeatInv

LEMMA ServerWritesRepeats ==
    ASSUME TypeInv, RepeatInv, ServerWrites
    PROVE  RepeatInv'
  <1> DEFINE m == Head(owed)
  <1>1. owed # <<>> /\ owed' = <<>> /\ (fromServer' = fromServer \/ fromServer' = Append(fromServer, m))
    BY DEF ServerWrites
  <1>2. UNCHANGED <<sent, hostIn, mainVars, pumpVars, toServer, replied, hostOut, got>>
    BY DEF ServerWrites
  <1>3. m \in Message /\ m \in Members(owed) /\ fromServer \in Seq(Message) /\ 1 \in DOMAIN owed /\ m = owed[1]
    BY <1>1, PipeTypes, TailIds DEF TypeInv, TypeOK
  <1>4. Upstream' \subseteq Upstream
    BY <1>2, AtIsAtEach DEF AtEach, Upstream, Working, Leftover
  <1>5. Members(fromServer') \subseteq Members(fromServer) \cup {m}
    BY <1>1, <1>3, AppendIds
  <1>6. \A x \in Messages' : x \in Messages
    BY <1>1, <1>2, <1>3, <1>5, EmptyPipe DEF Messages, Busy
  <1>7. RepeatsAreBehind'
    <2>1. CASE fromServer' = fromServer
      BY <1>1, <2>1, StillBehind
    <2>2. CASE fromServer' = Append(fromServer, m)
      <3>1. /\ Len(fromServer) \in Nat /\ DOMAIN fromServer = 1..Len(fromServer)
            /\ DOMAIN fromServer' = 1..(Len(fromServer) + 1)
            /\ \A i \in 1..Len(fromServer) : fromServer'[i] = fromServer[i]
            /\ fromServer'[Len(fromServer) + 1] = m
        BY <1>3, <2>2
      <3>2. ASSUME NEW i \in DOMAIN fromServer', NEW j \in DOMAIN fromServer', i < j, fromServer'[i].again
            PROVE  Answers(fromServer'[j]) # fromServer'[i].id
        <4>1. i \in DOMAIN fromServer /\ fromServer'[i] = fromServer[i]
          BY <3>1, <3>2
        <4>2. CASE j \in DOMAIN fromServer
          BY <3>1, <3>2, <4>1, <4>2 DEF RepeatInv, RepeatsAreBehind
        <4>3. CASE j = Len(fromServer) + 1
          BY <1>3, <3>1, <3>2, <4>1, <4>3 DEF RepeatInv, RepeatsAreBehind
        <4> QED
          BY <3>1, <4>2, <4>3
      <3>3. DOMAIN owed' = {}
        BY <1>1
      <3> QED
        BY <3>2, <3>3 DEF RepeatsAreBehind
    <2> QED
      BY <1>1, <2>1, <2>2
  <1> QED
    BY <1>2, <1>4, <1>6, <1>7, RepeatsKept

LEMMA ReadServerRepeats ==
    ASSUME TypeInv, RepeatInv, ReadServer
    PROVE  RepeatInv'
  <1>1. fromServer # <<>> /\ fromServer' = Tail(fromServer) /\ carried' = Head(fromServer)
    BY DEF ReadServer
  <1>2. UNCHANGED <<sent, hostIn, mainVars, toServer, replied, owed, hostOut, got>>
    BY DEF ReadServer
  <1>3. fromServer \in Seq(Message)
    BY DEF TypeInv, TypeOK
  <1>4. carried' \in Members(fromServer) /\ Members(fromServer') \subseteq Members(fromServer)
    BY <1>1, <1>3, TailIds
  <1>5. Upstream' \subseteq Upstream
    BY <1>2, AtIsAtEach DEF AtEach, Upstream, Working, Leftover
  <1>6. \A x \in Messages' : x \in Messages
    BY <1>2, <1>4 DEF Messages
  <1>7. RepeatsAreBehind'
    <2>1. \A i \in DOMAIN fromServer' :
            i \in Nat /\ i + 1 \in DOMAIN fromServer /\ fromServer'[i] = fromServer[i + 1]
      BY <1>1, <1>3
    <2>2. DOMAIN fromServer \subseteq Nat
      BY <1>3
    <2>3. \A i, j \in DOMAIN fromServer' : i < j => i + 1 < j + 1
      BY <2>1
    <2> QED
      BY <1>2, <2>1, <2>3 DEF RepeatInv, RepeatsAreBehind
  <1> QED
    BY <1>2, <1>5, <1>6, <1>7, RepeatsKept

LEMMA WriteToHostRepeats ==
    ASSUME TypeInv, RepeatInv, WriteToHost
    PROVE  RepeatInv'
  <1>1. pump = "writing" /\ pump' \in {"reading", "dead"}
    BY DEF WriteToHost
  <1>2. UNCHANGED <<sent, hostIn, mainVars, toServer, replied, owed, fromServer, got>>
    BY DEF WriteToHost
  <1>3. Members(hostOut') \subseteq Members(hostOut) \cup {carried}
    <2>1. hostOut' = hostOut \/ hostOut' = Append(hostOut, carried)
      BY DEF WriteToHost
    <2>2. Members(Append(hostOut, carried)) = Members(hostOut) \cup {carried}
      BY AppendIds DEF TypeInv, TypeOK
    <2> QED
      BY <2>1, <2>2
  <1>4. Upstream' \subseteq Upstream
    BY <1>2, AtIsAtEach DEF AtEach, Upstream, Working, Leftover
  <1>5. \A x \in Messages' : x \in Messages
    BY <1>1, <1>2, <1>3 DEF Messages, Busy
  <1>6. RepeatsAreBehind'
    BY <1>2, StillBehind
  <1> QED
    BY <1>2, <1>4, <1>5, <1>6, RepeatsKept

LEMMA HostReadsRepeats ==
    ASSUME TypeInv, RepeatInv, HostReads
    PROVE  RepeatInv'
  <1>1. hostOut # <<>> /\ hostOut' = Tail(hostOut) /\ (got' = got \/ got' = Append(got, Head(hostOut)))
    BY DEF HostReads
  <1>2. UNCHANGED <<sent, hostIn, mainVars, pumpVars, toServer, replied, owed, fromServer>>
    BY DEF HostReads
  <1>3. Head(hostOut) \in Message /\ hostOut \in Seq(Message) /\ got \in Seq(Message)
    BY <1>1, PipeTypes DEF TypeInv, TypeOK
  <1>4. /\ Head(hostOut) \in Members(hostOut) /\ Members(hostOut') \subseteq Members(hostOut)
        /\ Members(got') \subseteq Members(got) \cup {Head(hostOut)}
    <2>1. Members(Append(got, Head(hostOut))) = Members(got) \cup {Head(hostOut)}
      BY <1>3, AppendIds
    <2>2. Head(hostOut) \in Members(hostOut) /\ Members(Tail(hostOut)) \subseteq Members(hostOut)
      BY <1>1, <1>3, TailIds
    <2> QED
      BY <1>1, <2>1, <2>2
  <1>5. Upstream' \subseteq Upstream
    BY <1>2, AtIsAtEach DEF AtEach, Upstream, Working, Leftover
  <1>6. \A x \in Messages' : x \in Messages
    BY <1>2, <1>4 DEF Messages, Busy
  <1>7. RepeatsAreBehind'
    BY <1>2, StillBehind
  <1> QED
    BY <1>2, <1>5, <1>6, <1>7, RepeatsKept

LEMMA RepeatStep ==
    ASSUME TypeInv, PlaceInv, VerdictInv, RepeatInv, [Next]_vars
    PROVE  RepeatInv'
  <1> USE DEF Working, Leftover, Busy, PlaceInv, LeftoverInv, Trying, Ending
  <1>1. CASE HostCloses
    BY <1>1, QuietKeepsRepeats DEF HostCloses
  <1>2. CASE HostHangsUp
    BY <1>2, QuietKeepsRepeats DEF HostHangsUp
  <1>3. CASE Start
    BY <1>3, QuietKeepsRepeats DEF Start, Goto
  <1>4. CASE ReadEnd
    BY <1>4, QuietKeepsRepeats DEF ReadEnd, Goto
  <1>5. CASE DecideFails
    BY <1>5, QuietKeepsRepeats DEF DecideFails, Goto
  <1>6. CASE LockToAnswer
    BY <1>6, QuietKeepsRepeats DEF LockToAnswer, Goto
  <1>7. CASE Reap
    BY <1>7, QuietKeepsRepeats DEF Reap, Goto
  <1>8. CASE Escalate
    BY <1>8, QuietKeepsRepeats DEF Escalate
  <1>9. CASE GiveUp
    BY <1>9, QuietKeepsRepeats DEF GiveUp, Goto
  <1>10. CASE Join
    BY <1>10, QuietKeepsRepeats DEF Join, Goto
  <1>11. CASE FinalFlush
    BY <1>11, QuietKeepsRepeats DEF FinalFlush, Goto, Exit
  <1>12. CASE Signal
    BY <1>12, QuietKeepsRepeats DEF Signal, Goto, Exit
  <1>13. CASE ReadServerEnd
    BY <1>13, QuietKeepsRepeats DEF ReadServerEnd
  <1>14. CASE Seal
    BY <1>14, QuietKeepsRepeats DEF Seal
  <1>15. CASE SealFails
    BY <1>15, QuietKeepsRepeats DEF SealFails
  <1>16. CASE LockToSend
    BY <1>16, QuietKeepsRepeats DEF LockToSend
  <1>17. CASE ServerHangs
    BY <1>17, QuietKeepsRepeats DEF ServerHangs
  <1>18. CASE ServerCrashes
    BY <1>18, QuietKeepsRepeats DEF ServerCrashes, Ends
  <1>19. CASE ServerSeesEnd
    BY <1>19, QuietKeepsRepeats DEF ServerSeesEnd, Ends
  <1>20. CASE ServerObeys
    BY <1>20, QuietKeepsRepeats DEF ServerObeys, Ends
  <1>21. CASE HostSend
    BY <1>21, HostSendRepeats
  <1>22. CASE ReadHost
    BY <1>22, ReadHostRepeats
  <1>23. CASE WriteRefusal
    BY <1>23, WriteRefusalRepeats
  <1>24. CASE Forward
    BY <1>24, ForwardRepeats
  <1>25. CASE CloseServerInput
    BY <1>25, CloseServerInputRepeats
  <1>26. CASE ServerTakes
    BY <1>26, ServerTakesRepeats
  <1>27. CASE ServerWrites
    BY <1>27, ServerWritesRepeats
  <1>28. CASE ReadServer
    BY <1>28, ReadServerRepeats
  <1>29. CASE WriteToHost
    BY <1>29, WriteToHostRepeats
  <1>30. CASE HostReads
    BY <1>30, HostReadsRepeats
  <1>31. ASSUME NEW v \in {"allow", "deny"}, Decide(v) PROVE RepeatInv'
    BY <1>31, DecideRepeats
  <1>32. CASE ServerPushes
    <2>1. Answers(Nothing) \notin replied /\ ~Nothing.again
      BY FirstAnswers, StdioAssumption DEF TypeInv, TypeOK, None, Nothing
    <2> QED
      BY <1>32, <2>1, QuietKeepsRepeats DEF ServerPushes
  <1>33. CASE ServerRepeats
    <2>1. PICK r \in replied, kind \in {"result", "error"} :
                owed' = <<[Answer(kind, r) EXCEPT !.again = TRUE]>>
      BY <1>33 DEF ServerRepeats
    <2>2. None \notin replied
      BY StdioAssumption DEF TypeInv, TypeOK, None
    <2>3. \E m : Answers(m) \notin replied /\ (m.again => m.id \in replied) /\ owed' = <<m>>
      <3> DEFINE m == [Answer(kind, r) EXCEPT !.again = TRUE]
      <3>1. Answers(m) = None /\ m.id = r
        BY RepeatAnswersNothing
      <3>2. owed' = <<m>>
        BY <2>1
      <3> HIDE DEF m
      <3> QED
        BY <2>1, <2>2, <3>1, <3>2
    <2>4. UNCHANGED <<hostVars, mainVars, pumpVars, toServer, fromServer, replied>>
      BY <1>33 DEF ServerRepeats
    <2> QED
      BY <2>3, <2>4, QuietKeepsRepeats
  <1>34. CASE UNCHANGED vars
    BY <1>34, QuietKeepsRepeats
  <1> QED
    BY <1>1, <1>2, <1>3, <1>4, <1>5, <1>6, <1>7, <1>8, <1>9, <1>10, <1>11, <1>12, <1>13, <1>14, <1>15, <1>16, <1>17, <1>18, <1>19, <1>20, <1>21, <1>22, <1>23, <1>24, <1>25, <1>26, <1>27, <1>28, <1>29, <1>30, <1>31, <1>32, <1>33, <1>34 DEF Next, MainStep, PumpStep, Serving

-----------------------------------------------------------------------------
(* A step that decides nothing and brings no message further.              *)
LEMMA QuietKeepsVerdicts ==
    ASSUME VerdictInv, UNCHANGED <<verdict, sent, current, got>>,
           hostIn' = hostIn \/ hostIn' = <<>>,
           hostOut' = hostOut \/ hostOut' = <<>>,
           toServer' = toServer \/ toServer' = <<>>,
           owed' = owed \/ owed' = <<>> \/ (\E m : Fits(m) /\ owed' = <<m>>),
           fromServer' = fromServer \/ fromServer' = <<>>,
           main' = "deciding" => main = "deciding",
           main' \in {"answering", "writing"} => main \in {"answering", "writing"},
           main' = "forwarding" \/ Leftover' => main = "forwarding" \/ Leftover,
           Busy' => Busy /\ carried' = carried
    PROVE  VerdictInv'
  <1>1. \A m : Fits(m) => \A x \in Members(<<m>>) : Fits(x)'
    BY SinglePipe DEF Fits
  <1>2. \A m : Fits(m)' <=> Fits(m)
    BY DEF Fits
  <1>3. /\ At("unsent")' = At("unsent") /\ At("hostIn")' \subseteq At("hostIn")
        /\ At("toServer")' \subseteq At("toServer")
    BY AtIsAtEach, EmptyPipe DEF AtEach
  <1>4. /\ \A m \in Members(owed') : Fits(m)'
        /\ \A m \in Members(fromServer') : Fits(m)'
        /\ \A m \in Members(hostOut') : Fits(m)'
        /\ \A m \in Members(got') : Fits(m)'
    BY <1>1, <1>2, EmptyPipe DEF VerdictInv
  <1>5. Busy' => Fits(carried)'
    BY DEF VerdictInv, Fits
  <1> QED
    BY <1>3, <1>4, <1>5 DEF VerdictInv

LEMMA HostSendVerdicts ==
    ASSUME TypeInv, VerdictInv, HostSend
    PROVE  VerdictInv'
  <1>1. PICK r \in Requests \ sent : sent' = sent \cup {r} /\ hostIn' = Append(hostIn, r)
    BY DEF HostSend
  <1>2. UNCHANGED <<mainVars, pumpVars, toServer, owed, fromServer, hostOut, got>>
    BY DEF HostSend
  <1>3. Members(hostIn') = Members(hostIn) \cup {r}
    BY <1>1, AppendMembers DEF TypeInv, TypeOK
  <1>4. At("unsent")' \cup At("hostIn")' \subseteq At("unsent") \cup At("hostIn")
    BY <1>1, <1>3, AtIsAtEach DEF AtEach
  <1>5. At("toServer")' = At("toServer")
    BY <1>2, AtIsAtEach DEF AtEach
  <1> QED
    BY <1>2, <1>4, <1>5 DEF VerdictInv, Fits, Busy, Leftover

LEMMA ReadHostVerdicts ==
    ASSUME TypeInv, PlaceInv, VerdictInv, ReadHost
    PROVE  VerdictInv'
  <1> DEFINE r == Head(hostIn)
  <1>1. /\ hostIn # <<>> /\ hostIn' = Tail(hostIn) /\ main = "reading"
        /\ current' = r /\ main' \in {"forwarding", "deciding"}
    BY DEF ReadHost, Goto
  <1>2. UNCHANGED <<verdict, unflushed, pumpVars, sent, toServer, owed, fromServer, hostOut, got>>
    BY DEF ReadHost
  <1>3. r \in Requests /\ hostIn \in Seq(Requests)
    BY <1>1, PipeTypes DEF TypeInv, TypeOK
  <1>4. r \in Members(hostIn) /\ Members(hostIn') \subseteq Members(hostIn)
    BY <1>1, <1>3, TailMembers
  <1>5. At("unsent")' \cup At("hostIn")' \subseteq At("unsent") \cup At("hostIn")
    BY <1>2, <1>4, AtIsAtEach DEF AtEach
  <1>6. At("toServer")' = At("toServer")
    BY <1>2, AtIsAtEach DEF AtEach
  <1>7. verdict[r] = "none"
    BY <1>3, <1>4, AtIsAtEach DEF AtEach, VerdictInv
  <1> QED
    BY <1>1, <1>2, <1>5, <1>6, <1>7 DEF VerdictInv, Fits, Busy, Leftover

(* The decision touches no other request, so none that is elsewhere.       *)
LEMMA DecideVerdicts ==
    ASSUME TypeInv, PlaceInv, VerdictInv, RepeatInv, NEW v \in {"allow", "deny"}, Decide(v)
    PROVE  VerdictInv'
  <1>1. /\ main = "deciding" /\ current \in Requests /\ ~unflushed
        /\ verdict' = [verdict EXCEPT ![current] = v]
        /\ main' = IF v = "allow" THEN "forwarding" ELSE "answering"
    BY DEF Decide, Goto, TypeInv, InHand, PlaceInv, LeftoverInv
  <1>2. UNCHANGED <<current, unflushed, pumpVars, sent, hostIn, toServer, owed, fromServer, hostOut, got>>
    BY DEF Decide
  <1>3. verdict'[current] = v /\ \A r \in Requests \ {current} : verdict'[r] = verdict[r]
    BY <1>1 DEF TypeInv, TypeOK
  <1>4. current \in At("main") /\ current \notin replied
    <2>1. current \in At("main")
      BY <1>1, AtIsAtEach DEF AtEach, Working
    <2> QED
      BY <2>1 DEF RepeatInv, Upstream
  <1>5. \A p \in Places \ {"main"} : current \notin At(p)
    BY <1>4 DEF PlaceInv, InOnePlace, Places
  <1>6. /\ At("unsent")' = At("unsent") /\ At("hostIn")' = At("hostIn")
        /\ At("toServer")' = At("toServer")
    BY <1>2, AtIsAtEach DEF AtEach
  <1>7. At("unsent") \cup At("hostIn") \cup At("toServer") \subseteq Requests \ {current}
    BY <1>5 DEF At, Places
  <1>8. /\ \A r \in At("unsent")' \cup At("hostIn")' : verdict'[r] = "none"
        /\ \A r \in At("toServer")' : verdict'[r] # "deny"
    BY <1>3, <1>6, <1>7 DEF VerdictInv
  <1>9. \A m : Fits(m) /\ m.id \notin Requests \cap {current} => Fits(m)'
    BY <1>3 DEF Fits
  <1>10. /\ current \notin Ids(owed) /\ current \notin Ids(fromServer)
         /\ current \notin Ids(hostOut) /\ current \notin Ids(got)
         /\ Busy => Answers(carried) # current
    BY <1>1, <1>5, AtIsAtEach DEF AtEach, Places
  <1>11. \A m \in Messages : m.id # current
    <2>1. \A m \in Messages : Answers(m) # current
      BY <1>10 DEF Messages, Members, Ids
    <2>2. \A m \in Messages : m.again => m.id # current
      BY <1>4 DEF RepeatInv
    <2> QED
      BY <2>1, <2>2 DEF Answers
  <1>12. /\ \A m \in Members(owed) : Fits(m)'
         /\ \A m \in Members(fromServer) : Fits(m)'
         /\ \A m \in Members(hostOut) : Fits(m)'
         /\ \A m \in Members(got) : Fits(m)'
    BY <1>9, <1>11 DEF VerdictInv, Messages
  <1>13. Busy' => Fits(carried)'
    BY <1>2, <1>9, <1>11 DEF VerdictInv, Messages, Fits, Busy
  <1>14. /\ main' # "deciding" /\ ~Leftover'
         /\ main' \in {"answering", "writing"} => verdict'[current'] = "deny"
         /\ main' = "forwarding" => verdict'[current'] # "deny"
    BY <1>1, <1>2, <1>3 DEF Leftover
  <1> QED
    BY <1>2, <1>8, <1>12, <1>13, <1>14 DEF VerdictInv

LEMMA WriteRefusalVerdicts ==
    ASSUME TypeInv, PlaceInv, VerdictInv, WriteRefusal
    PROVE  VerdictInv'
  <1> DEFINE m == Answer("refusal", current)
  <1>1. main = "writing" /\ main' \in {"reading", "closing"} /\ ~unflushed /\ current \in Requests
    BY DEF WriteRefusal, Goto, PlaceInv, LeftoverInv, TypeInv, InHand
  <1>2. UNCHANGED <<verdict, sent, hostIn, unflushed, pumpVars, toServer, owed, fromServer, got>>
    BY DEF WriteRefusal
  <1>3. hostOut' = hostOut \/ hostOut' = Append(hostOut, m)
    BY DEF WriteRefusal
  <1>4. m \in Message /\ hostOut \in Seq(Message)
    BY <1>1, MessageTypes DEF TypeInv, TypeOK
  <1>5. Members(hostOut') \subseteq Members(hostOut) \cup {m}
    BY <1>3, <1>4, AppendIds
  <1>6. \A x : x = m => Fits(x)
    BY <1>1, FirstAnswers DEF VerdictInv, Fits
  <1>7. \A x \in Members(hostOut') : Fits(x)'
    BY <1>2, <1>5, <1>6 DEF VerdictInv, Fits
  <1>8. /\ At("unsent")' = At("unsent") /\ At("hostIn")' = At("hostIn")
        /\ At("toServer")' = At("toServer")
    BY <1>2, AtIsAtEach DEF AtEach
  <1> QED
    BY <1>1, <1>2, <1>7, <1>8 DEF VerdictInv, Fits, Busy, Leftover

LEMMA SendingOnVerdicts ==
    ASSUME TypeInv, VerdictInv, main = "forwarding" \/ Leftover,
           toServer' = toServer \/ (current \in Requests /\ toServer' = Append(toServer, current)),
           main' \in {"reading", "closing", "waiting"}, ~Leftover',
           UNCHANGED <<verdict, sent, hostIn, pumpVars, owed, fromServer, hostOut, got>>
    PROVE  VerdictInv'
  <1>1. Members(toServer') \subseteq Members(toServer) \cup {current}
    <2>1. toServer \in Seq(Requests)
      BY DEF TypeInv, TypeOK
    <2>2. current \in Requests => Members(Append(toServer, current)) = Members(toServer) \cup {current}
      BY <2>1, AppendMembers
    <2> QED
      BY <2>2
  <1>2. /\ At("unsent")' = At("unsent") /\ At("hostIn")' = At("hostIn")
        /\ At("toServer")' \subseteq At("toServer") \cup {current}
    BY <1>1, AtIsAtEach DEF AtEach
  <1> QED
    BY <1>2 DEF VerdictInv, Fits, Busy

LEMMA ForwardVerdicts ==
    ASSUME TypeInv, PlaceInv, VerdictInv, Forward
    PROVE  VerdictInv'
  <1>1. main = "forwarding" /\ main' \in {"reading", "closing"} /\ ~unflushed' /\ current \in Requests
    BY DEF Forward, Goto, PlaceInv, LeftoverInv, TypeInv, InHand
  <1>2. UNCHANGED <<verdict, sent, hostIn, pumpVars, owed, fromServer, hostOut, got>>
    BY DEF Forward
  <1>3. toServer' = toServer \/ toServer' = Append(toServer, current)
    BY DEF Forward
  <1> QED
    BY <1>1, <1>2, <1>3, SendingOnVerdicts DEF Leftover

LEMMA CloseServerInputVerdicts ==
    ASSUME TypeInv, PlaceInv, VerdictInv, CloseServerInput
    PROVE  VerdictInv'
  <1>1. main = "closing" /\ main' = "waiting"
    BY DEF CloseServerInput, Goto
  <1>2. UNCHANGED <<verdict, sent, hostIn, pumpVars, owed, fromServer, hostOut, got>>
    BY DEF CloseServerInput
  <1>3. CASE unflushed
    <2>1. current \in Requests
      BY <1>3 DEF TypeInv, InHand
    <2>2. toServer' = toServer \/ toServer' = Append(toServer, current)
      BY DEF CloseServerInput
    <2> QED
      BY <1>1, <1>2, <1>3, <2>1, <2>2, SendingOnVerdicts DEF Leftover
  <1>4. CASE ~unflushed
    <2>1. toServer' = toServer
      BY <1>4 DEF CloseServerInput
    <2> QED
      BY <1>1, <1>2, <2>1, QuietKeepsVerdicts DEF Leftover, Busy, CloseServerInput
  <1> QED
    BY <1>3, <1>4

LEMMA ServerTakesVerdicts ==
    ASSUME TypeInv, VerdictInv, ServerTakes
    PROVE  VerdictInv'
  <1> DEFINE r == Head(toServer)
  <1>1. toServer # <<>> /\ toServer' = Tail(toServer)
    BY DEF ServerTakes
  <1>2. PICK kind \in {"result", "error"} : owed' = <<Answer(kind, r)>>
    BY DEF ServerTakes
  <1>3. UNCHANGED <<sent, hostIn, mainVars, pumpVars, fromServer, hostOut, got>>
    BY DEF ServerTakes
  <1>4. r \in Requests /\ toServer \in Seq(Requests)
    BY <1>1, PipeTypes DEF TypeInv, TypeOK
  <1>5. r \in Members(toServer) /\ Members(toServer') \subseteq Members(toServer)
    BY <1>1, <1>4, TailMembers
  <1>6. /\ At("unsent")' = At("unsent") /\ At("hostIn")' = At("hostIn")
        /\ At("toServer")' \subseteq At("toServer") /\ r \in At("toServer")
    BY <1>3, <1>4, <1>5, AtIsAtEach DEF AtEach
  <1>7. verdict'[r] # "deny"
    BY <1>3, <1>6 DEF VerdictInv
  <1>8. \A m \in Members(owed') : Fits(m)'
    BY <1>2, <1>4, <1>7, SinglePipe, FirstAnswers DEF Fits
  <1> QED
    BY <1>3, <1>6, <1>8 DEF VerdictInv, Fits, Busy, Leftover

(* What every message brought further keeps.                               *)
LEMMA CarryKeepsVerdicts ==
    ASSUME VerdictInv,
           UNCHANGED <<verdict, sent, hostIn, main, current, unflushed, toServer>>,
           \A m \in Members(owed') \cup Members(fromServer') \cup Members(hostOut') \cup Members(got') :
                Fits(m),
           Busy' => Fits(carried')
    PROVE  VerdictInv'
  <1>1. /\ At("unsent")' = At("unsent") /\ At("hostIn")' = At("hostIn")
        /\ At("toServer")' = At("toServer")
    BY AtIsAtEach DEF AtEach
  <1> QED
    BY <1>1 DEF VerdictInv, Fits, Leftover

LEMMA ServerWritesVerdicts ==
    ASSUME TypeInv, VerdictInv, ServerWrites
    PROVE  VerdictInv'
  <1>1. owed # <<>> /\ owed' = <<>>
    BY DEF ServerWrites
  <1>2. UNCHANGED <<sent, hostIn, mainVars, pumpVars, toServer, hostOut, got>>
    BY DEF ServerWrites
  <1>3. Head(owed) \in Message /\ Head(owed) \in Members(owed)
    BY <1>1, PipeTypes, TailIds DEF TypeInv, TypeOK
  <1>4. Members(fromServer') \subseteq Members(fromServer) \cup {Head(owed)}
    BY <1>3, AppendIds DEF ServerWrites, TypeInv, TypeOK
  <1>5. \A m \in Members(owed') \cup Members(fromServer') \cup Members(hostOut') \cup Members(got') : Fits(m)
    BY <1>1, <1>2, <1>3, <1>4, EmptyPipe DEF VerdictInv
  <1>6. Busy' => Fits(carried')
    BY <1>2 DEF VerdictInv, Busy
  <1> QED
    BY <1>2, <1>5, <1>6, CarryKeepsVerdicts

LEMMA ReadServerVerdicts ==
    ASSUME TypeInv, VerdictInv, ReadServer
    PROVE  VerdictInv'
  <1>1. fromServer # <<>> /\ fromServer' = Tail(fromServer) /\ carried' = Head(fromServer)
    BY DEF ReadServer
  <1>2. UNCHANGED <<sent, hostIn, mainVars, toServer, owed, hostOut, got>>
    BY DEF ReadServer
  <1>3. carried' \in Members(fromServer) /\ Members(fromServer') \subseteq Members(fromServer)
    BY <1>1, TailIds DEF TypeInv, TypeOK
  <1>4. \A m \in Members(owed') \cup Members(fromServer') \cup Members(hostOut') \cup Members(got') : Fits(m)
    BY <1>2, <1>3 DEF VerdictInv
  <1>5. Fits(carried')
    BY <1>3 DEF VerdictInv
  <1> QED
    BY <1>2, <1>4, <1>5, CarryKeepsVerdicts

LEMMA WriteToHostVerdicts ==
    ASSUME TypeInv, VerdictInv, WriteToHost
    PROVE  VerdictInv'
  <1>1. pump = "writing" /\ pump' \in {"reading", "dead"}
    BY DEF WriteToHost
  <1>2. UNCHANGED <<sent, hostIn, mainVars, toServer, owed, fromServer, got>>
    BY DEF WriteToHost
  <1>3. Members(hostOut') \subseteq Members(hostOut) \cup {carried}
    <2>1. hostOut' = hostOut \/ hostOut' = Append(hostOut, carried)
      BY DEF WriteToHost
    <2>2. Members(Append(hostOut, carried)) = Members(hostOut) \cup {carried}
      BY AppendIds DEF TypeInv, TypeOK
    <2> QED
      BY <2>1, <2>2
  <1>4. \A m \in Members(owed') \cup Members(fromServer') \cup Members(hostOut') \cup Members(got') : Fits(m)
    BY <1>1, <1>2, <1>3 DEF VerdictInv, Busy
  <1> QED
    BY <1>1, <1>2, <1>4, CarryKeepsVerdicts DEF Busy

LEMMA HostReadsVerdicts ==
    ASSUME TypeInv, VerdictInv, HostReads
    PROVE  VerdictInv'
  <1>1. hostOut # <<>> /\ hostOut' = Tail(hostOut) /\ (got' = got \/ got' = Append(got, Head(hostOut)))
    BY DEF HostReads
  <1>2. UNCHANGED <<sent, hostIn, mainVars, pumpVars, toServer, owed, fromServer>>
    BY DEF HostReads
  <1>3. Head(hostOut) \in Message /\ hostOut \in Seq(Message) /\ got \in Seq(Message)
    BY <1>1, PipeTypes DEF TypeInv, TypeOK
  <1>4. /\ Head(hostOut) \in Members(hostOut) /\ Members(hostOut') \subseteq Members(hostOut)
        /\ Members(got') \subseteq Members(got) \cup {Head(hostOut)}
    <2>1. Members(Append(got, Head(hostOut))) = Members(got) \cup {Head(hostOut)}
      BY <1>3, AppendIds
    <2>2. Head(hostOut) \in Members(hostOut) /\ Members(Tail(hostOut)) \subseteq Members(hostOut)
      BY <1>1, <1>3, TailIds
    <2> QED
      BY <1>1, <2>1, <2>2
  <1>5. \A m \in Members(owed') \cup Members(fromServer') \cup Members(hostOut') \cup Members(got') : Fits(m)
    BY <1>2, <1>4 DEF VerdictInv
  <1>6. Busy' => Fits(carried')
    BY <1>2 DEF VerdictInv, Busy
  <1> QED
    BY <1>2, <1>5, <1>6, CarryKeepsVerdicts

LEMMA VerdictStep ==
    ASSUME TypeInv, PlaceInv, VerdictInv, RepeatInv, [Next]_vars
    PROVE  VerdictInv'
  <1> USE DEF Leftover, Busy, Trying, Ending, PlaceInv, LeftoverInv
  <1>1. CASE HostSend
    BY <1>1, HostSendVerdicts
  <1>2. CASE HostCloses
    BY <1>2, QuietKeepsVerdicts DEF HostCloses
  <1>3. CASE HostReads
    BY <1>3, HostReadsVerdicts
  <1>4. CASE HostHangsUp
    BY <1>4, QuietKeepsVerdicts DEF HostHangsUp
  <1>5. CASE Start
    BY <1>5, QuietKeepsVerdicts DEF Start, Goto
  <1>6. CASE ReadHost
    BY <1>6, ReadHostVerdicts
  <1>7. CASE ReadEnd
    BY <1>7, QuietKeepsVerdicts DEF ReadEnd, Goto
  <1>8. CASE DecideFails
    BY <1>8, QuietKeepsVerdicts DEF DecideFails, Goto
  <1>9. ASSUME NEW v \in {"allow", "deny"}, Decide(v) PROVE VerdictInv'
    BY <1>9, DecideVerdicts
  <1>10. CASE LockToAnswer
    BY <1>10, QuietKeepsVerdicts DEF LockToAnswer, Goto
  <1>11. CASE WriteRefusal
    BY <1>11, WriteRefusalVerdicts
  <1>12. CASE Forward
    BY <1>12, ForwardVerdicts
  <1>13. CASE CloseServerInput
    BY <1>13, CloseServerInputVerdicts
  <1>14. CASE Reap
    BY <1>14, QuietKeepsVerdicts DEF Reap, Goto
  <1>15. CASE Escalate
    BY <1>15, QuietKeepsVerdicts DEF Escalate
  <1>16. CASE GiveUp
    BY <1>16, QuietKeepsVerdicts DEF GiveUp, Goto
  <1>17. CASE Join
    BY <1>17, QuietKeepsVerdicts DEF Join, Goto
  <1>18. CASE FinalFlush
    BY <1>18, QuietKeepsVerdicts DEF FinalFlush, Goto, Exit
  <1>19. CASE Signal
    BY <1>19, QuietKeepsVerdicts DEF Signal, Goto, Exit
  <1>20. CASE ReadServer
    BY <1>20, ReadServerVerdicts
  <1>21. CASE ReadServerEnd
    BY <1>21, QuietKeepsVerdicts DEF ReadServerEnd
  <1>22. CASE Seal
    BY <1>22, QuietKeepsVerdicts DEF Seal
  <1>23. CASE SealFails
    BY <1>23, QuietKeepsVerdicts DEF SealFails
  <1>24. CASE LockToSend
    BY <1>24, QuietKeepsVerdicts DEF LockToSend
  <1>25. CASE WriteToHost
    BY <1>25, WriteToHostVerdicts
  <1>26. CASE ServerTakes
    BY <1>26, ServerTakesVerdicts
  <1>27. CASE ServerPushes
    <2>1. Fits(Nothing)
      BY DEF Fits, Nothing, Answer
    <2> QED
      BY <1>27, <2>1, QuietKeepsVerdicts DEF ServerPushes
  <1>34. CASE ServerRepeats
    <2>1. PICK r \in replied, kind \in {"result", "error"} :
                owed' = <<[Answer(kind, r) EXCEPT !.again = TRUE]>>
      BY <1>34 DEF ServerRepeats
    <2>2. r \in Requests /\ verdict[r] # "deny"
      BY DEF RepeatInv, TypeInv, TypeOK
    <2>3. Fits([Answer(kind, r) EXCEPT !.again = TRUE])
      BY <2>2, RepeatAnswersNothing DEF Fits
    <2> QED
      BY <1>34, <2>1, <2>3, QuietKeepsVerdicts DEF ServerRepeats
  <1>28. CASE ServerWrites
    BY <1>28, ServerWritesVerdicts
  <1>29. CASE ServerHangs
    BY <1>29, QuietKeepsVerdicts DEF ServerHangs
  <1>30. CASE ServerCrashes
    BY <1>30, QuietKeepsVerdicts DEF ServerCrashes, Ends
  <1>31. CASE ServerSeesEnd
    BY <1>31, QuietKeepsVerdicts DEF ServerSeesEnd, Ends
  <1>32. CASE ServerObeys
    BY <1>32, QuietKeepsVerdicts DEF ServerObeys, Ends
  <1>33. CASE UNCHANGED vars
    BY <1>33, QuietKeepsVerdicts
  <1> QED
    BY <1>1, <1>2, <1>3, <1>4, <1>5, <1>6, <1>7, <1>8, <1>9, <1>10, <1>11, <1>12, <1>13, <1>14, <1>15, <1>16, <1>17, <1>18, <1>19, <1>20, <1>21, <1>22, <1>23, <1>24, <1>25, <1>26, <1>27, <1>28, <1>29, <1>30, <1>31, <1>32, <1>33, <1>34 DEF Next, MainStep, PumpStep, Serving

-----------------------------------------------------------------------------
(* Nothing leaves the table.  What goes further was waited for already.    *)
LEMMA PendingKept ==
    ASSUME PendingInv, pending \subseteq pending',
           main' = "forwarding" \/ Leftover' => Awaited(current'),
           At("toServer")' \cup At("owed")' \cup At("fromServer")'
                \subseteq At("toServer") \cup At("owed") \cup At("fromServer"),
           ResultsAreKnown'
    PROVE  PendingInv'
  <1>1. \A r : Awaited(r) => Awaited(r)'
    BY DEF Awaited
  <1>2. main' = "forwarding" \/ Leftover' => Awaited(current)'
    BY DEF Awaited
  <1> QED
    BY <1>1, <1>2 DEF PendingInv

LEMMA QuietKeepsPending ==
    ASSUME PendingInv, UNCHANGED pending,
           fromServer' = fromServer \/ fromServer' = <<>>,
           toServer' = toServer \/ toServer' = <<>>,
           owed' = owed \/ owed' = <<>> \/ (\E m : Answers(m) = None /\ owed' = <<m>>),
           main' = "forwarding" \/ Leftover' => (main = "forwarding" \/ Leftover) /\ current' = current,
           pump' = "sealing" => pump = "sealing" /\ UNCHANGED <<carried, asCall>>
    PROVE  PendingInv'
  <1>1. ASSUME NEW m, Answers(m) = None
        PROVE  Requests \cap Ids(<<m>>) = {}
    <2>1. Ids(<<m>>) = {None}
      BY <1>1, SinglePipe
    <2> QED
      BY <2>1, StdioAssumption DEF None
  <1>2. At("toServer")' \cup At("owed")' \cup At("fromServer")'
            \subseteq At("toServer") \cup At("owed") \cup At("fromServer")
    BY <1>1, AtIsAtEach, EmptyPipe DEF AtEach
  <1>3. ResultsAreKnown'
    BY DEF PendingInv, ResultsAreKnown
  <1>4. main' = "forwarding" \/ Leftover' => Awaited(current')
    BY DEF PendingInv
  <1> QED
    BY <1>2, <1>3, <1>4, PendingKept

LEMMA ReadHostPending ==
    ASSUME TypeInv, PendingInv, PlaceInv, ReadHost
    PROVE  PendingInv'
  <1> DEFINE r == Head(hostIn)
  <1>1. /\ hostIn # <<>> /\ main = "reading" /\ current' = r /\ ~unflushed
        /\ main' = IF KindOf[r] = "other" THEN "forwarding" ELSE "deciding"
    BY DEF ReadHost, Goto, PlaceInv, LeftoverInv
  <1>2. UNCHANGED <<pending, unflushed, pumpVars, toServer, owed, fromServer>>
    BY DEF ReadHost
  <1>3. main' = "forwarding" \/ Leftover' => Awaited(current')
    BY <1>1, <1>2 DEF Awaited, Leftover
  <1>4. ResultsAreKnown'
    BY <1>2 DEF PendingInv, ResultsAreKnown
  <1>5. At("toServer")' \cup At("owed")' \cup At("fromServer")'
            \subseteq At("toServer") \cup At("owed") \cup At("fromServer")
    BY <1>2, AtIsAtEach DEF AtEach
  <1> QED
    BY <1>2, <1>3, <1>4, <1>5, PendingKept

LEMMA DecidePending ==
    ASSUME TypeInv, PendingInv, PlaceInv, NEW v \in {"allow", "deny"}, Decide(v)
    PROVE  PendingInv'
  <1>1. /\ main = "deciding" /\ ~unflushed
        /\ pending' = IF KindOf[current] = "call" /\ v = "allow" THEN pending \cup {current} ELSE pending
        /\ main' = IF v = "allow" THEN "forwarding" ELSE "answering"
    BY DEF Decide, Goto, PlaceInv, LeftoverInv
  <1>2. UNCHANGED <<current, unflushed, pumpVars, toServer, owed, fromServer>>
    BY DEF Decide
  <1>3. main' = "forwarding" \/ Leftover' => (KindOf[current'] = "call" => current' \in pending')
    BY <1>1, <1>2 DEF Leftover
  <1>4. ResultsAreKnown'
    BY <1>2 DEF PendingInv, ResultsAreKnown
  <1>5. At("toServer")' = At("toServer") /\ At("owed")' = At("owed") /\ At("fromServer")' = At("fromServer")
    BY <1>2, AtIsAtEach DEF AtEach
  <1>6. \A r : Awaited(r) => Awaited(r)'
    BY <1>1 DEF Awaited
  <1>7. main' = "forwarding" \/ Leftover' => Awaited(current)'
    BY <1>3 DEF Awaited
  <1> QED
    BY <1>4, <1>5, <1>6, <1>7 DEF PendingInv

LEMMA SendingOnPending ==
    ASSUME TypeInv, PendingInv, main = "forwarding" \/ Leftover,
           toServer' = toServer \/ (current \in Requests /\ toServer' = Append(toServer, current)),
           main' \in {"reading", "closing", "waiting"}, ~Leftover',
           UNCHANGED <<pumpVars, owed, fromServer, pending>>
    PROVE  PendingInv'
  <1>1. Members(toServer') \subseteq Members(toServer) \cup {current}
    <2>1. toServer \in Seq(Requests)
      BY DEF TypeInv, TypeOK
    <2>2. current \in Requests => Members(Append(toServer, current)) = Members(toServer) \cup {current}
      BY <2>1, AppendMembers
    <2> QED
      BY <2>2
  <1>2. /\ At("owed")' = At("owed") /\ At("fromServer")' = At("fromServer")
        /\ At("toServer")' \subseteq At("toServer") \cup {current}
    BY <1>1, AtIsAtEach DEF AtEach
  <1>3. ResultsAreKnown'
    BY DEF PendingInv, ResultsAreKnown
  <1> QED
    BY <1>2, <1>3 DEF PendingInv, Awaited

LEMMA ForwardPending ==
    ASSUME TypeInv, PlaceInv, PendingInv, Forward
    PROVE  PendingInv'
  <1>1. main = "forwarding" /\ main' \in {"reading", "closing"} /\ ~unflushed' /\ current \in Requests
    BY DEF Forward, Goto, PlaceInv, LeftoverInv, TypeInv, InHand
  <1>2. UNCHANGED <<pumpVars, owed, fromServer, pending>>
    BY DEF Forward
  <1>3. toServer' = toServer \/ toServer' = Append(toServer, current)
    BY DEF Forward
  <1> QED
    BY <1>1, <1>2, <1>3, SendingOnPending DEF Leftover

LEMMA CloseServerInputPending ==
    ASSUME TypeInv, PlaceInv, PendingInv, CloseServerInput
    PROVE  PendingInv'
  <1>1. main = "closing" /\ main' = "waiting"
    BY DEF CloseServerInput, Goto
  <1>2. UNCHANGED <<current, pumpVars, owed, fromServer, pending>>
    BY DEF CloseServerInput
  <1>3. CASE unflushed
    <2>1. current \in Requests
      BY <1>3 DEF TypeInv, InHand
    <2>2. toServer' = toServer \/ toServer' = Append(toServer, current)
      BY DEF CloseServerInput
    <2> QED
      BY <1>1, <1>2, <1>3, <2>1, <2>2, SendingOnPending DEF Leftover
  <1>4. CASE ~unflushed
    <2>1. toServer' = toServer
      BY <1>4 DEF CloseServerInput
    <2> QED
      BY <1>1, <1>2, <2>1, QuietKeepsPending DEF Leftover
  <1> QED
    BY <1>3, <1>4

LEMMA ServerTakesPending ==
    ASSUME TypeInv, PendingInv, ServerTakes
    PROVE  PendingInv'
  <1> DEFINE r == Head(toServer)
  <1>1. toServer # <<>> /\ toServer' = Tail(toServer)
    BY DEF ServerTakes
  <1>2. PICK kind \in {"result", "error"} : owed' = <<Answer(kind, r)>>
    BY DEF ServerTakes
  <1>3. UNCHANGED <<mainVars, pumpVars, fromServer, pending>>
    BY DEF ServerTakes
  <1>4. r \in Requests /\ toServer \in Seq(Requests)
    BY <1>1, PipeTypes DEF TypeInv, TypeOK
  <1>5. r \in Members(toServer) /\ Members(toServer') \subseteq Members(toServer)
    BY <1>1, <1>4, TailMembers
  <1>6. At("toServer")' \cup At("owed")' \cup At("fromServer")'
            \subseteq At("toServer") \cup At("owed") \cup At("fromServer")
    BY <1>2, <1>3, <1>4, <1>5, SinglePipe, FirstAnswers, AtIsAtEach DEF AtEach
  <1>7. main' = "forwarding" \/ Leftover' => Awaited(current')
    BY <1>3 DEF PendingInv, Leftover
  <1>8. ResultsAreKnown'
    BY <1>3 DEF PendingInv, ResultsAreKnown
  <1> QED
    BY <1>3, <1>6, <1>7, <1>8, PendingKept

LEMMA ServerWritesPending ==
    ASSUME TypeInv, PendingInv, ServerWrites
    PROVE  PendingInv'
  <1>1. owed # <<>> /\ owed' = <<>>
    BY DEF ServerWrites
  <1>2. UNCHANGED <<mainVars, pumpVars, toServer, pending>>
    BY DEF ServerWrites
  <1>3. Head(owed) \in Message /\ Answers(Head(owed)) \in Ids(owed)
    BY <1>1, PipeTypes, TailIds DEF TypeInv, TypeOK
  <1>4. Ids(fromServer') \subseteq Ids(fromServer) \cup {Answers(Head(owed))}
    BY <1>3, AppendIds DEF ServerWrites, TypeInv, TypeOK
  <1>5. At("toServer")' \cup At("owed")' \cup At("fromServer")'
            \subseteq At("toServer") \cup At("owed") \cup At("fromServer")
    BY <1>1, <1>2, <1>3, <1>4, EmptyPipe, AtIsAtEach DEF AtEach
  <1>6. main' = "forwarding" \/ Leftover' => Awaited(current')
    BY <1>2 DEF PendingInv, Leftover
  <1>7. ResultsAreKnown'
    BY <1>2 DEF PendingInv, ResultsAreKnown
  <1> QED
    BY <1>2, <1>5, <1>6, <1>7, PendingKept

(* The result takes its call out of the table; no other request that waits *)
(* for its entry has the same number, whether it is the first answer or a  *)
(* repeat.                                                                 *)
LEMMA ReadServerPending ==
    ASSUME TypeInv, PlaceInv, VerdictInv, RepeatInv, PendingInv, ReadServer
    PROVE  PendingInv'
  <1> DEFINE m == Head(fromServer)
  <1>1. /\ fromServer # <<>> /\ fromServer' = Tail(fromServer) /\ carried' = m
        /\ pending' = IF m.kind = "result" THEN pending \ {m.id} ELSE pending
    BY DEF ReadServer
  <1>2. UNCHANGED <<mainVars, toServer, owed>>
    BY DEF ReadServer
  <1>3. m \in Message /\ fromServer \in Seq(Message)
    BY <1>1, PipeTypes DEF TypeInv, TypeOK
  <1>4. /\ Answers(m) \in Ids(fromServer) /\ m \in Members(fromServer)
        /\ Ids(fromServer') \subseteq Ids(fromServer)
        /\ Answers(m) \notin Requests \cap Ids(fromServer')
    BY <1>1, <1>3, TailIds DEF PlaceInv, OnceInEach
  <1>5. /\ At("toServer")' = At("toServer") /\ At("owed")' = At("owed")
        /\ At("fromServer")' \subseteq At("fromServer")
    BY <1>2, <1>4, AtIsAtEach DEF AtEach
  <1>6. m.id \notin At("main") \cup At("toServer")' \cup At("owed")' \cup At("fromServer")'
    <2>1. CASE m.id \notin Requests
      BY <2>1 DEF At
    <2>2. CASE m.id \in Requests /\ ~m.again
      <3>1. m.id \in At("fromServer") /\ m.id \notin At("fromServer")'
        BY <1>4, <2>2, AtIsAtEach DEF AtEach, Answers
      <3> QED
        BY <1>5, <3>1 DEF PlaceInv, InOnePlace, Places
    <2>3. CASE m.id \in Requests /\ m.again
      <3>1. m.id \in replied
        BY <1>4, <2>3 DEF RepeatInv, Messages
      <3>2. m.id \notin At("main") \cup At("toServer")'
        BY <1>5, <3>1 DEF RepeatInv, Upstream
      <3>3. m.id \notin Ids(owed) /\ m.id \notin Ids(fromServer')
        BY <1>1, <1>3, <2>3, RepeatAtHead DEF RepeatInv
      <3> QED
        BY <1>2, <3>2, <3>3, AtIsAtEach DEF AtEach
    <2> QED
      BY <2>1, <2>2, <2>3
  <1>8. \A r : Awaited(r) /\ r # m.id => Awaited(r)'
    BY <1>1 DEF Awaited
  <1>9. main = "forwarding" \/ Leftover => current # m.id
    <2>1. ASSUME main = "forwarding" \/ Leftover PROVE current \in At("main")
      BY <2>1, AtIsAtEach DEF AtEach, Working, Leftover, TypeInv, InHand
    <2> QED
      BY <1>6, <2>1
  <1>10. main' = "forwarding" \/ Leftover' => Awaited(current)'
    BY <1>2, <1>8, <1>9 DEF PendingInv, Leftover, Awaited
  <1>11. ResultsAreKnown'
    <2> SUFFICES ASSUME m.kind = "result", ~m.again, KindOf[m.id] = "call"
                 PROVE  asCall'
      BY <1>1 DEF ResultsAreKnown
    <2>1. m.id \in Requests
      BY <1>4 DEF VerdictInv, Fits
    <2>2. m.id \in pending
      BY <1>4, <2>1, AtIsAtEach DEF AtEach, Answers, PendingInv, Awaited
    <2>3. asCall' = (m.kind = "result" /\ m.id \in pending)
      BY DEF ReadServer
    <2> QED
      BY <2>2, <2>3
  <1> QED
    BY <1>5, <1>6, <1>8, <1>10, <1>11 DEF PendingInv

LEMMA PendingStep ==
    ASSUME TypeInv, PlaceInv, VerdictInv, RepeatInv, PendingInv, [Next]_vars
    PROVE  PendingInv'
  <1> USE DEF Leftover, Trying, Ending, PlaceInv, LeftoverInv
  <1>1. CASE HostSend
    BY <1>1, QuietKeepsPending DEF HostSend
  <1>2. CASE HostCloses
    BY <1>2, QuietKeepsPending DEF HostCloses
  <1>3. CASE HostReads
    BY <1>3, QuietKeepsPending DEF HostReads
  <1>4. CASE HostHangsUp
    BY <1>4, QuietKeepsPending DEF HostHangsUp
  <1>5. CASE Start
    BY <1>5, QuietKeepsPending DEF Start, Goto
  <1>6. CASE ReadHost
    BY <1>6, ReadHostPending
  <1>7. CASE ReadEnd
    BY <1>7, QuietKeepsPending DEF ReadEnd, Goto
  <1>8. CASE DecideFails
    BY <1>8, QuietKeepsPending DEF DecideFails, Goto
  <1>9. ASSUME NEW v \in {"allow", "deny"}, Decide(v) PROVE PendingInv'
    BY <1>9, DecidePending
  <1>10. CASE LockToAnswer
    BY <1>10, QuietKeepsPending DEF LockToAnswer, Goto
  <1>11. CASE WriteRefusal
    BY <1>11, QuietKeepsPending DEF WriteRefusal, Goto
  <1>12. CASE Forward
    BY <1>12, ForwardPending
  <1>13. CASE CloseServerInput
    BY <1>13, CloseServerInputPending
  <1>14. CASE Reap
    BY <1>14, QuietKeepsPending DEF Reap, Goto
  <1>15. CASE Escalate
    BY <1>15, QuietKeepsPending DEF Escalate
  <1>16. CASE GiveUp
    BY <1>16, QuietKeepsPending DEF GiveUp, Goto
  <1>17. CASE Join
    BY <1>17, QuietKeepsPending DEF Join, Goto
  <1>18. CASE FinalFlush
    BY <1>18, QuietKeepsPending DEF FinalFlush, Goto, Exit
  <1>19. CASE Signal
    BY <1>19, QuietKeepsPending DEF Signal, Goto, Exit
  <1>20. CASE ReadServer
    BY <1>20, ReadServerPending
  <1>21. CASE ReadServerEnd
    BY <1>21, QuietKeepsPending DEF ReadServerEnd
  <1>22. CASE Seal
    BY <1>22, QuietKeepsPending DEF Seal
  <1>23. CASE SealFails
    BY <1>23, QuietKeepsPending DEF SealFails
  <1>24. CASE LockToSend
    BY <1>24, QuietKeepsPending DEF LockToSend
  <1>25. CASE WriteToHost
    BY <1>25, QuietKeepsPending DEF WriteToHost
  <1>26. CASE ServerTakes
    BY <1>26, ServerTakesPending
  <1>27. CASE ServerPushes
    BY <1>27, FirstAnswers, QuietKeepsPending DEF ServerPushes
  <1>34. CASE ServerRepeats
    <2>1. \E m : Answers(m) = None /\ owed' = <<m>>
      BY <1>34, RepeatAnswersNothing DEF ServerRepeats
    <2> QED
      BY <1>34, <2>1, QuietKeepsPending DEF ServerRepeats
  <1>28. CASE ServerWrites
    BY <1>28, ServerWritesPending
  <1>29. CASE ServerHangs
    BY <1>29, QuietKeepsPending DEF ServerHangs
  <1>30. CASE ServerCrashes
    BY <1>30, QuietKeepsPending DEF ServerCrashes, Ends
  <1>31. CASE ServerSeesEnd
    BY <1>31, QuietKeepsPending DEF ServerSeesEnd, Ends
  <1>32. CASE ServerObeys
    BY <1>32, QuietKeepsPending DEF ServerObeys, Ends
  <1>33. CASE UNCHANGED vars
    BY <1>33, QuietKeepsPending
  <1> QED
    BY <1>1, <1>2, <1>3, <1>4, <1>5, <1>6, <1>7, <1>8, <1>9, <1>10, <1>11, <1>12, <1>13, <1>14, <1>15, <1>16, <1>17, <1>18, <1>19, <1>20, <1>21, <1>22, <1>23, <1>24, <1>25, <1>26, <1>27, <1>28, <1>29, <1>30, <1>31, <1>32, <1>33, <1>34 DEF Next, MainStep, PumpStep, Serving

(* Every request is unsent, every pipe empty and nothing decided.          *)
LEMMA SessionStarts ==
    ASSUME Init
    PROVE  TypeInv /\ PlaceInv /\ VerdictInv /\ RepeatInv /\ PendingInv
  <1>1. TypeInv
    BY TypeInit
  <1>2. ~Working /\ ~Busy /\ ~unflushed /\ ~Leftover
    BY DEF Init, Working, Leftover, Busy
  <1>3. /\ At("unsent") = Requests /\ At("hostIn") = {} /\ At("main") = {}
        /\ At("toServer") = {} /\ At("owed") = {} /\ At("fromServer") = {}
        /\ At("pump") = {} /\ At("hostOut") = {} /\ At("got") = {}
    BY <1>2, AtIsAtEach, EmptyPipe DEF AtEach, Init
  <1>4. PlaceInv
    BY <1>2, <1>3, EmptyPipe DEF Init, PlaceInv, InOnePlace, Places, OnceInEach, LeftoverInv
  <1>5. VerdictInv
    BY <1>2, <1>3, EmptyPipe DEF Init, VerdictInv
  <1>6. PendingInv
    BY <1>2, <1>3 DEF Init, PendingInv, ResultsAreKnown
  <1>7. RepeatInv
    BY <1>2, EmptyPipe DEF Init, RepeatInv, RepeatsAreBehind, Messages
  <1> QED
    BY <1>1, <1>4, <1>5, <1>6, <1>7

(* All the slots of an answer are one slot.                                *)
LEMMA OneSlot ==
    ASSUME PlaceInv, NEW r \in Requests, NEW x \in Slots(r), NEW y \in Slots(r)
    PROVE  x = y
  <1> DEFINE InPipe(pipe, name, z) == \E i \in DOMAIN pipe : Answers(pipe[i]) = r /\ z = <<name, i>>
             InPump(z) == Busy /\ Answers(carried) = r /\ z = <<"pump", 1>>
  <1>1. \A z \in Slots(r) :
            \/ InPipe(owed, "owed", z) \/ InPipe(fromServer, "fromServer", z)
            \/ InPipe(hostOut, "hostOut", z) \/ InPipe(got, "got", z) \/ InPump(z)
    BY DEF Slots, Busy
  <1>2. \A z : /\ InPipe(owed, "owed", z) => r \in At("owed")
               /\ InPipe(fromServer, "fromServer", z) => r \in At("fromServer")
               /\ InPipe(hostOut, "hostOut", z) => r \in At("hostOut")
               /\ InPipe(got, "got", z) => r \in At("got")
               /\ InPump(z) => r \in At("pump")
    BY AtIsAtEach DEF AtEach, Ids
  <1>3. /\ InPipe(owed, "owed", x) /\ InPipe(owed, "owed", y) => x = y
        /\ InPipe(fromServer, "fromServer", x) /\ InPipe(fromServer, "fromServer", y) => x = y
        /\ InPipe(hostOut, "hostOut", x) /\ InPipe(hostOut, "hostOut", y) => x = y
        /\ InPipe(got, "got", x) /\ InPipe(got, "got", y) => x = y
        /\ InPump(x) /\ InPump(y) => x = y
    BY DEF PlaceInv, OnceInEach, OnceAnswered
  <1> HIDE DEF InPipe, InPump
  <1>4. \A p, q \in Places : r \in At(p) /\ r \in At(q) => p = q
    BY DEF PlaceInv, InOnePlace
  <1>5. {"owed", "fromServer", "hostOut", "got", "pump"} \subseteq Places
    BY DEF Places
  <1> QED
    BY <1>1, <1>2, <1>3, <1>4, <1>5

LEMMA AtMostOne ==
    ASSUME NEW S, \A x, y \in S : x = y
    PROVE  Cardinality(S) <= 1
  <1>1. CASE S = {}
    BY <1>1, FS_EmptySet
  <1>2. CASE S # {}
    <2>1. PICK x \in S : S = {x}
      BY <1>2
    <2> QED
      BY <2>1, FS_Singleton
  <1> QED
    BY <1>1, <1>2

LEMMA PlacesAnswerOnce ==
    ASSUME PlaceInv, VerdictInv
    PROVE  AnsweredOnce
  <1>1. ASSUME NEW r \in Requests
        PROVE  Cardinality(Slots(r)) <= 1
    BY OneSlot, AtMostOne
  <1>2. ASSUME NEW r \in Requests, Slots(r) # {}
        PROVE  r \notin {toServer[i] : i \in DOMAIN toServer}
    <2>1. PICK p \in {"owed", "fromServer", "hostOut", "got", "pump"} : r \in At(p)
      BY <1>2, AtIsAtEach DEF AtEach, Slots, Ids, Busy
    <2>2. r \notin At("toServer")
      BY <2>1 DEF PlaceInv, InOnePlace, Places
    <2> QED
      BY <2>2, AtIsAtEach DEF AtEach, Members
  <1>3. ASSUME NEW m \in Members(hostOut) \cup Members(got), m.kind # "push"
        PROVE  (m.kind = "refusal") = (verdict[m.id] = "deny")
    <2>1. m.kind = "refusal" <=> verdict[m.id] = "deny"
      BY <1>3 DEF VerdictInv, Fits
    <2> QED
      BY <2>1
  <1> QED
    BY <1>1, <1>2, <1>3 DEF AnsweredOnce, Members

(* Wherever the first answer to a request is, it is there alone, and the   *)
(* request is not on its way to the server any more; of what was refused   *)
(* the host reads the refusal and nothing else, and a refusal of nothing   *)
(* else.  For any number of requests and any capacity, with a server that  *)
(* repeats answers and broken pipes and signals wherever they come.        *)
THEOREM AnswersCorrect == Spec => []AnsweredOnce
  <1>1. TypeInv /\ PlaceInv /\ VerdictInv => AnsweredOnce
    BY PlacesAnswerOnce
  <1> QED
    BY <1>1, SessionStarts, TypeStep, PlaceStep, RepeatStep, VerdictStep, PTL DEF Spec

(* The entry is there when the first result of a call comes, though the    *)
(* two threads take from and write to the table without the lock.          *)
THEOREM PendingCorrect == Spec => []ResultsAreKnown
  <1>1. PendingInv => ResultsAreKnown
    BY DEF PendingInv
  <1> QED
    BY <1>1, SessionStarts, TypeStep, PlaceStep, RepeatStep, VerdictStep, PendingStep, PTL DEF Spec

(* No request the monitor denied is in the pipe to the server, or in the   *)
(* hand of the thread that would put it there.                             *)
DeniedStaysHere ==
    \A r \in Requests : verdict[r] = "deny" =>
        /\ r \notin Members(toServer)
        /\ main = "forwarding" \/ Leftover => current # r

(* A call is decided once.                                                 *)
VerdictsAreFinal == [][\A r \in Requests : verdict[r] # "none" => verdict'[r] = verdict[r]]_vars

(* No call the monitor denied reaches the server: handle_outbound answers  *)
(* it itself (proxy.py:238-246).                                           *)
THEOREM DeniedIsNotForwarded == Spec => []DeniedStaysHere
  <1>1. VerdictInv => DeniedStaysHere
    BY AtIsAtEach DEF AtEach, VerdictInv, DeniedStaysHere
  <1> QED
    BY <1>1, SessionStarts, TypeStep, PlaceStep, RepeatStep, VerdictStep, PTL DEF Spec

(* A verdict is never taken back or given again: the request the main      *)
(* thread decides has not been decided before (VerdictInv), because no     *)
(* request is in two places (PlaceInv).                                    *)
THEOREM VerdictsCorrect == Spec => VerdictsAreFinal
  <1>1. ASSUME TypeInv, VerdictInv, [Next]_vars
        PROVE  \A r \in Requests : verdict[r] # "none" => verdict'[r] = verdict[r]
    <2> SUFFICES ASSUME NEW r \in Requests, verdict[r] # "none"
                 PROVE  verdict'[r] = verdict[r]
      OBVIOUS
    <2>1. ASSUME NEW v \in {"allow", "deny"}, Decide(v) PROVE verdict'[r] = verdict[r]
      BY <1>1, <2>1 DEF Decide, VerdictInv, TypeInv, TypeOK, InHand
    <2>2. CASE ~ \E v \in {"allow", "deny"} : Decide(v)
      BY <1>1, <2>2 DEF Next, MainStep, PumpStep, Serving, HostSend, HostCloses, HostReads, HostHangsUp,
            Start, ReadHost, ReadEnd, DecideFails, LockToAnswer, WriteRefusal, Forward, CloseServerInput,
            Reap, Escalate, GiveUp, Join, FinalFlush, Exit, Signal, ReadServer, ReadServerEnd, Seal,
            SealFails, LockToSend, WriteToHost, ServerTakes, ServerPushes, ServerRepeats, ServerWrites, ServerHangs,
            ServerCrashes, ServerSeesEnd, ServerObeys, Ends
    <2> QED
      BY <2>1, <2>2
  <1> QED
    BY <1>1, SessionStarts, TypeStep, PlaceStep, RepeatStep, VerdictStep, PTL DEF Spec, VerdictsAreFinal
=============================================================================
