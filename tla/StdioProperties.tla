-------------------------- MODULE StdioProperties --------------------------
(* What the stdio proxy promises the host, and what is left when it ends. *)
EXTENDS StdioProxy

Phases == Trying \cup Ending \cup {"starting", "exited"}

(* Every variable keeps the type the program gives it. *)
TypeOK ==
    /\ sent \subseteq Requests
    /\ hostIn \in Seq(Requests)
    /\ hostInOpen \in BOOLEAN
    /\ hostOut \in Seq(Message)
    /\ hostOutOpen \in BOOLEAN
    /\ got \in Seq(Message)
    /\ verdict \in [Requests -> {"none", "allow", "deny"}]
    /\ main \in Phases
    /\ current \in Requests \cup {None}
    /\ unflushed \in BOOLEAN
    /\ pending \subseteq Requests
    /\ pump \in {"new", "reading", "sealing", "sending", "writing", "dead"}
    /\ carried \in Message
    /\ asCall \in BOOLEAN
    /\ lock \in {"free", "main", "pump"}
    /\ server \in {"up", "hung", "dead"}
    /\ toServer \in Seq(Requests)
    /\ toServerOpen \in BOOLEAN
    /\ fromServer \in Seq(Message)
    /\ owed \in Seq(Message)
    /\ replied \subseteq Requests
    /\ ordered \in {"none", "terminate", "kill"}
    /\ left \in [pushes : Nat, repeats : Nat, signals : Nat]
    /\ cutShort \in BOOLEAN

-----------------------------------------------------------------------------
(* Two threads share one output stream and one lock that neither may take
   twice (proxy.py:433-437, 443-454).  Whoever holds it is writing to the
   host, so the two never write at once, and no way out of a write - a
   broken pipe, a signal - keeps it. *)
OneWriterAtATime ==
    /\ (lock = "main") = (main = "writing")
    /\ (lock = "pump") = (pump = "writing")

(* Where the first answer to r can be found: on its way from the server, in
   the hands of the pump, on its way to the host, or read. *)
Slots(r) ==
    {<<"owed", i>> : i \in {i \in DOMAIN owed : Answers(owed[i]) = r}}
        \cup {<<"fromServer", i>> : i \in {i \in DOMAIN fromServer : Answers(fromServer[i]) = r}}
        \cup {<<"pump", i>> : i \in {i \in {1} : pump \in {"sealing", "sending", "writing"} /\ Answers(carried) = r}}
        \cup {<<"hostOut", i>> : i \in {i \in DOMAIN hostOut : Answers(hostOut[i]) = r}}
        \cup {<<"got", i>> : i \in {i \in DOMAIN got : Answers(got[i]) = r}}

(* A request has one first answer, the server's or the proxy's own: a call
   the proxy answers itself does not also reach the server (proxy.py:238-246
   returns None).  A server may answer again, and the proxy passes that on
   (proxy.py:507-510), but of a refused call the host reads the refusal and
   nothing else, and no refusal of any other. *)
AnsweredOnce ==
    /\ \A r \in Requests :
        /\ Cardinality(Slots(r)) <= 1
        /\ Slots(r) # {} => r \notin {toServer[i] : i \in DOMAIN toServer}
    /\ \A m \in {hostOut[i] : i \in DOMAIN hostOut} \cup {got[i] : i \in DOMAIN got} :
        m.kind # "push" => (m.kind = "refusal") = (verdict[m.id] = "deny")

(* The main thread writes _pending (proxy.py:233) and the inbound thread
   takes from it (proxy.py:258), and neither holds the lock.  The entry is
   there when the answer comes, whatever the server repeated before it: the
   result of a call is never sealed as if nobody had asked for it.  Only
   what the server says of a call once more may be. *)
ResultsAreKnown ==
    (pump = "sealing" /\ carried.kind = "result" /\ ~carried.again /\ KindOf[carried.id] = "call") => asCall

-----------------------------------------------------------------------------
Answered(r) == \E i \in DOMAIN got : got[i].id = r

(* The inbound thread has died before the server, so that nobody takes what
   the server says: of a broken pipe, because the host hung up its reading
   end (proxy.py:511), or of the intake bound, which it does not catch. *)
Deaf == pump = "dead" /\ server # "dead"

(* What keeps an answer from the host: the session is ending, the server
   does not serve, nobody takes its answers, or the host has hung up. *)
Broken ==
    \/ main \in Ending \cup {"exited"}
    \/ server # "up"
    \/ Deaf
    \/ ~hostOutOpen

(* With pipes that fill up, a server that talks unasked and a lock held over
   a blocking write (proxy.py:437), no request waits for ever: it is answered
   or the session is broken in one of the ways named above. *)
RequestsAreAnswered ==
    \A r \in Requests : (r \in sent) ~> (Answered(r) \/ Broken)

(* When the host closes its side the proxy ends (proxy.py:486), unless the
   main thread waits to write to a server that no longer reads: it hangs, or
   it waits in turn for somebody to take what it says, and the inbound
   thread is dead.  A host that hangs up its reading end first is enough for
   that, with no fault of the server. *)
ClosingEndsTheProxy ==
    ~hostInOpen ~> (main = "exited" \/ server = "hung" \/ Deaf)

(* Once the polite request is made the child ends, however it takes it: the
   three waits of proxy.py:551-562 cannot be outlived, only cut short by a
   signal in the middle of them. *)
EscalationEndsTheChild ==
    (main = "waiting") ~> (server = "dead" \/ cutShort)

-----------------------------------------------------------------------------
(* "End the server process, whatever it thinks about that" (proxy.py:533),
   once the finally clause has started and no second signal cuts it short. *)
ShutdownEndsTheChild ==
    (main = "closing") ~> (server = "dead" \/ cutShort)
=============================================================================
