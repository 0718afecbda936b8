----------------------------- MODULE HttpProofs -----------------------------
(***************************************************************************)
(* The transport's safety properties hold for any number of handlers, any  *)
(* bodies and any server, as long as the ids of calls are unique.          *)
(***************************************************************************)
EXTENDS HttpProperties, TLAPS

(* Where a handler is says how far it got, and whether it has replied.     *)
Progress ==
    \A t \in Requests :
        /\ pc[t] = "taking" => at[t] <= Len(BodyOf[t])
        /\ pc[t] \in {"sending", "relaying", "body", "stream"} => at[t] > Len(BodyOf[t])
        /\ reply[t] = "none" <=> pc[t] # "done"
        /\ reply[t] \notin {"none", "broken"} => at[t] > Len(BodyOf[t])
        /\ reply[t] = "accepted" => answers[t] = {}

(* A handler about to take an answer finds its own under its own id.       *)
OwnAnswerWaits ==
    \A t \in Requests : pc[t] = "taking" =>
        /\ Current(t) \in Calls
        /\ verdict[Current(t)] = "refuse"
        /\ AnswerKey(Current(t)) \in DOMAIN selfAnswers
        /\ selfAnswers[AnswerKey(Current(t))] = Current(t)

(* A waiting answer is stored under its own id.                            *)
AnswersAreKeyed ==
    \A i \in DOMAIN selfAnswers : AnswerKey(selfAnswers[i]) = i

(* Calls past the handler's position are undecided.                        *)
Undecided ==
    \A m \in Calls :
        m[2] > at[m[1]] \/ (m[2] = at[m[1]] /\ pc[m[1]] = "deciding") => verdict[m] = "none"

(* The answers a handler holds are those of the calls it is done with.     *)
AnswersAreOwn ==
    \A t \in Requests :
        answers[t] = {m \in Calls : m[1] = t /\ m[2] < at[t] /\ verdict[m] = "refuse"}

(* What it will send is its own, decided, and not refused.                 *)
ForwardIsAllowed ==
    \A t \in Requests : \A m \in forward[t] :
        /\ m[1] = t /\ m[2] < at[t]
        /\ m \in Calls => verdict[m] = "allow"

ReceivedWasForwarded == \A m \in received : m \in forward[m[1]]

(* An id is expected for the call that has it, and from the moment the     *)
(* call can be sent until its first result.                                *)
PendingIsKeyed == \A i \in DOMAIN pending : IdOf(pending[i]) = i
PendingUntilResult ==
    \A t \in Requests : \A m \in forward[t] :
        m \in Calls /\ labels[m] = {} => IdOf(m) \in DOMAIN pending

HttpInv ==
    /\ TypeOK /\ Progress /\ OwnAnswerWaits /\ AnswersAreKeyed /\ AnswersAreTaken
    /\ Undecided /\ AnswersAreOwn /\ ForwardIsAllowed /\ ReceivedWasForwarded
    /\ PendingIsKeyed /\ PendingUntilResult /\ ResultsKeepTheirTool /\ DropsAreNoted

-----------------------------------------------------------------------------
LEMMA MessageForm ==
    ASSUME NEW m \in Messages
    PROVE  /\ m[1] \in Requests
           /\ m[2] \in 1..Len(BodyOf[m[1]])
           /\ m = <<m[1], m[2]>>
BY RequestsAssumption DEF Messages

LEMMA ElementOf ==
    ASSUME NEW S, NEW seq \in Seq(S), NEW n \in 1..Len(seq)
    PROVE  seq[n] \in S
OBVIOUS

LEMMA CallForm ==
    ASSUME NEW m \in Calls
    PROVE  /\ m \in Messages /\ IsCall(m)
           /\ IdOf(m) \in Ids
           /\ IdOf(m) # None
<1>1. m \in Messages /\ IsCall(m) /\ IdOf(m) # None
  BY RequestsAssumption DEF Calls
<1>2. BodyOf[m[1]][m[2]] \in [id : Ids \cup {None}, kind : {"call", "formless", "other"}]
  <2>1. BodyOf[m[1]] \in Seq([id : Ids \cup {None}, kind : {"call", "formless", "other"}])
    BY <1>1, MessageForm, RequestsAssumption
  <2>2. m[2] \in 1..Len(BodyOf[m[1]])
    BY <1>1, MessageForm
  <2> QED BY <2>1, <2>2, ElementOf
<1> QED BY <1>1, <1>2 DEF IdOf

LEMMA CurrentForm ==
    ASSUME TypeOK, NEW t \in Requests, Deciding(t)
    PROVE  /\ Current(t) \in Messages
           /\ Current(t)[1] = t /\ Current(t)[2] = at[t]
           /\ IsCall(Current(t)) => Current(t) \in Calls
           /\ at[t] \in Nat \ {0} /\ at[t] <= Len(BodyOf[t])
<1>1. at[t] \in Nat \ {0} /\ at[t] <= Len(BodyOf[t])
  BY DEF TypeOK, Deciding
<1>2. BodyOf[t] \in Seq([id : Ids \cup {None}, kind : {"call", "formless", "other"}])
  BY RequestsAssumption
<1>3. at[t] \in DOMAIN BodyOf[t]
  BY <1>1, <1>2
<1>4. Current(t) \in Messages
  BY <1>3 DEF Current, Messages
<1> QED BY <1>1, <1>4 DEF Current, Calls

(* An entry taken from a table keyed by id.                                *)
LEMMA Removed ==
    ASSUME NEW key, NEW table
    PROVE  LET new == Without(table, key) IN
           /\ DOMAIN new = DOMAIN table \ {key}
           /\ \A i \in DOMAIN table \ {key} : new[i] = table[i]
BY DEF Restrict, Without

-----------------------------------------------------------------------------
LEMMA HttpInit == Init => HttpInv
<1> SUFFICES ASSUME Init PROVE HttpInv
  OBVIOUS
<1>0. \A t \in Requests : Len(BodyOf[t]) \in Nat /\ (t \in Untouched => Len(BodyOf[t]) = 0)
  BY RequestsAssumption
<1>1. TypeOK
  BY <1>0 DEF Init, TypeOK, Places, Kinds
<1>2. Progress
  BY <1>0 DEF Init, Progress
<1>3. OwnAnswerWaits /\ AnswersAreKeyed /\ AnswersAreTaken /\ PendingIsKeyed
  BY DEF Init, OwnAnswerWaits, AnswersAreKeyed, AnswersAreTaken, PendingIsKeyed
<1>4. Undecided
  BY DEF Init, Undecided
<1>5. AnswersAreOwn
  BY DEF Init, AnswersAreOwn
<1>6. ForwardIsAllowed /\ ReceivedWasForwarded /\ PendingUntilResult
  BY DEF Init, ForwardIsAllowed, ReceivedWasForwarded, PendingUntilResult
<1>7. ResultsKeepTheirTool /\ DropsAreNoted
  BY DEF Init, ResultsKeepTheirTool, DropsAreNoted, RefusedOf
<1> QED BY <1>1, <1>2, <1>3, <1>4, <1>5, <1>6, <1>7 DEF HttpInv

-----------------------------------------------------------------------------
(* A message that is not a call moves on to what will be sent.             *)
LEMMA PassStep ==
    ASSUME HttpInv, NEW t \in Requests, Pass(t)
    PROVE  HttpInv'
<1> DEFINE cur == Current(t)
<1> USE DEF HttpInv
<1>0. /\ Deciding(t) /\ ~IsCall(cur) /\ pc[t] = "deciding"
      /\ forward' = [forward EXCEPT ![t] = @ \cup {cur}]
      /\ at' = [at EXCEPT ![t] = at[t] + 1]
      /\ UNCHANGED <<pc, answers, verdict, pending, selfAnswers, received, results, labels, reply, noted>>
  BY DEF Pass, NextMessage, proxyVars, Deciding
<1>1. /\ cur \in Messages /\ cur[1] = t /\ cur[2] = at[t]
      /\ at[t] \in Nat \ {0} /\ at[t] <= Len(BodyOf[t])
  BY <1>0, CurrentForm
<1>2. cur \notin Calls
  BY <1>0 DEF Calls
<1>3. at' \in [Requests -> Nat \ {0}] /\ at'[t] = at[t] + 1 /\ \A u \in Requests \ {t} : at'[u] = at[u]
  BY <1>0, <1>1 DEF TypeOK
<1>4. /\ forward' \in [Requests -> SUBSET Messages]
      /\ forward'[t] = forward[t] \cup {cur}
      /\ \A u \in Requests \ {t} : forward'[u] = forward[u]
  BY <1>0, <1>1 DEF TypeOK
<1> HIDE DEF cur
<1>5. TypeOK'
  <2>1. \A u \in Requests : at'[u] <= Len(BodyOf[u]) + 1
    <3>1. \A u \in Requests : at[u] <= Len(BodyOf[u]) + 1
      BY DEF TypeOK
    <3>2. Len(BodyOf[t]) \in Nat
      BY RequestsAssumption
    <3> QED BY <3>1, <3>2, <1>1, <1>3
  <2> QED BY <2>1, <1>0, <1>3, <1>4 DEF TypeOK
<1>6. Progress'
  BY <1>0, <1>3 DEF Progress
<1>7. OwnAnswerWaits' /\ AnswersAreTaken'
  <2>1. \A u \in Requests : pc[u] = "taking" => Current(u)' = Current(u) /\ u # t
    BY <1>0, <1>3 DEF Current
  <2>2. OwnAnswerWaits'
    BY <2>1, <1>0 DEF OwnAnswerWaits, AnswerKey
  <2>3. \A i \in DOMAIN selfAnswers : selfAnswers[i][1] \in Requests
    BY MessageForm, CallForm DEF TypeOK
  <2> QED BY <2>1, <2>2, <2>3, <1>0 DEF AnswersAreTaken
<1>8. AnswersAreKeyed' /\ PendingIsKeyed' /\ ResultsKeepTheirTool' /\ DropsAreNoted'
  BY <1>0 DEF AnswersAreKeyed, AnswerKey, PendingIsKeyed, ResultsKeepTheirTool, DropsAreNoted, RefusedOf
<1>9. Undecided'
  <2> SUFFICES ASSUME NEW m \in Calls,
                      m[2] > at'[m[1]] \/ (m[2] = at'[m[1]] /\ pc[m[1]] = "deciding")
               PROVE  verdict[m] = "none"
    BY <1>0 DEF Undecided
  <2>1. m[1] \in Requests /\ m[2] \in Nat
    BY CallForm, MessageForm
  <2>2. CASE m[1] = t
    BY <2>1, <2>2, <1>1, <1>3 DEF Undecided
  <2>3. CASE m[1] # t
    BY <2>1, <2>3, <1>3 DEF Undecided
  <2> QED BY <2>2, <2>3
<1>10. AnswersAreOwn'
  <2> SUFFICES ASSUME NEW u \in Requests
               PROVE  answers[u] = {m \in Calls : m[1] = u /\ m[2] < at'[u] /\ verdict[m] = "refuse"}
    BY <1>0 DEF AnswersAreOwn
  <2>1. \A m \in Calls : m[1] = u => (m[2] < at'[u] <=> m[2] < at[u])
    <3> SUFFICES ASSUME NEW m \in Calls, m[1] = u PROVE m[2] < at'[u] <=> m[2] < at[u]
      OBVIOUS
    <3>1. m[2] \in Nat /\ m = <<m[1], m[2]>>
      BY CallForm, MessageForm
    <3>2. u = t => m[2] # at[t]
      BY <3>1, <1>2 DEF cur, Current
    <3> QED BY <3>1, <3>2, <1>1, <1>3
  <2> QED BY <2>1 DEF AnswersAreOwn
<1>11. ForwardIsAllowed'
  <2>1. \A u \in Requests : \A m \in forward[u] : m[2] \in Nat
    BY MessageForm DEF TypeOK
  <2> QED BY <2>1, <1>0, <1>1, <1>2, <1>3, <1>4 DEF ForwardIsAllowed
<1>12. ReceivedWasForwarded'
  BY <1>0, <1>4, MessageForm DEF ReceivedWasForwarded, TypeOK
<1>13. PendingUntilResult'
  BY <1>0, <1>2, <1>4 DEF PendingUntilResult
<1> QED BY <1>5, <1>6, <1>7, <1>8, <1>9, <1>10, <1>11, <1>12, <1>13

(* An allowed call moves on too, and its id is expected from now on.       *)
LEMMA AllowStep ==
    ASSUME HttpInv, NEW t \in Requests, Allow(t)
    PROVE  HttpInv'
<1> DEFINE cur == Current(t)
<1> USE DEF HttpInv
<1>0. /\ Deciding(t) /\ IsCall(cur) /\ pc[t] = "deciding"
      /\ verdict' = [verdict EXCEPT ![cur] = "allow"]
      /\ pending' = With(pending, IdOf(cur), cur)
      /\ forward' = [forward EXCEPT ![t] = @ \cup {cur}]
      /\ at' = [at EXCEPT ![t] = at[t] + 1]
      /\ UNCHANGED <<pc, answers, selfAnswers, received, results, labels, reply, noted>>
  BY DEF Allow, NextMessage, Deciding, Remember
<1>1. /\ cur \in Calls /\ cur \in Messages /\ cur[1] = t /\ cur[2] = at[t]
      /\ at[t] \in Nat \ {0} /\ at[t] <= Len(BodyOf[t])
  BY <1>0, CurrentForm
<1>2. /\ verdict' \in [Calls -> {"none", "allow", "refuse"}] /\ verdict'[cur] = "allow"
      /\ \A m \in Calls \ {cur} : verdict'[m] = verdict[m]
  BY <1>0, <1>1 DEF TypeOK
<1>3. at' \in [Requests -> Nat \ {0}] /\ at'[t] = at[t] + 1 /\ \A u \in Requests \ {t} : at'[u] = at[u]
  BY <1>0, <1>1 DEF TypeOK
<1>4. /\ forward' \in [Requests -> SUBSET Messages]
      /\ forward'[t] = forward[t] \cup {cur}
      /\ \A u \in Requests \ {t} : forward'[u] = forward[u]
  BY <1>0, <1>1 DEF TypeOK
<1>pend. /\ DOMAIN pending' = {IdOf(cur)} \cup DOMAIN pending
         /\ pending'[IdOf(cur)] = cur
         /\ \A i \in DOMAIN pending : i # IdOf(cur) => pending'[i] = pending[i]
  BY <1>0 DEF With
<1>none. verdict[cur] = "none"
  BY <1>0, <1>1 DEF Undecided
<1> HIDE DEF cur
<1>5. TypeOK'
  <2>1. \A u \in Requests : at'[u] <= Len(BodyOf[u]) + 1
    <3>1. \A u \in Requests : at[u] <= Len(BodyOf[u]) + 1
      BY DEF TypeOK
    <3>2. Len(BodyOf[t]) \in Nat
      BY RequestsAssumption
    <3> QED BY <3>1, <3>2, <1>1, <1>3
  <2>2. DOMAIN pending' \subseteq Ids /\ \A i \in DOMAIN pending' : pending'[i] \in Calls
    BY <1>pend, <1>1, CallForm DEF TypeOK
  <2> QED BY <2>1, <2>2, <1>0, <1>2, <1>3, <1>4 DEF TypeOK
<1>6. Progress'
  BY <1>0, <1>3 DEF Progress
<1>7. OwnAnswerWaits' /\ AnswersAreTaken'
  <2>1. \A u \in Requests : pc[u] = "taking" => Current(u)' = Current(u) /\ u # t
    BY <1>0, <1>3 DEF Current
  <2>2. OwnAnswerWaits'
    BY <2>1, <1>0, <1>1, <1>2, <1>none DEF OwnAnswerWaits, AnswerKey
  <2>3. \A i \in DOMAIN selfAnswers : selfAnswers[i][1] \in Requests
    BY MessageForm, CallForm DEF TypeOK
  <2> QED BY <2>1, <2>2, <2>3, <1>0 DEF AnswersAreTaken
<1>8. AnswersAreKeyed' /\ ResultsKeepTheirTool'
  BY <1>0 DEF AnswersAreKeyed, AnswerKey, ResultsKeepTheirTool
<1>p. PendingIsKeyed'
  BY <1>pend DEF PendingIsKeyed
<1>d. DropsAreNoted'
  BY <1>0, <1>1, <1>2, <1>none DEF DropsAreNoted, RefusedOf, TypeOK
<1>9. Undecided'
  <2> SUFFICES ASSUME NEW m \in Calls,
                      m[2] > at'[m[1]] \/ (m[2] = at'[m[1]] /\ pc[m[1]] = "deciding")
               PROVE  verdict'[m] = "none"
    BY <1>0 DEF Undecided
  <2>1. m[1] \in Requests /\ m[2] \in Nat
    BY CallForm, MessageForm
  <2>2. CASE m[1] = t
    BY <2>1, <2>2, <1>1, <1>2, <1>3 DEF Undecided
  <2>3. CASE m[1] # t
    BY <2>1, <2>3, <1>1, <1>2, <1>3 DEF Undecided
  <2> QED BY <2>2, <2>3
<1>10. AnswersAreOwn'
  <2> SUFFICES ASSUME NEW u \in Requests
               PROVE  answers[u] = {m \in Calls : m[1] = u /\ m[2] < at'[u] /\ verdict'[m] = "refuse"}
    BY <1>0 DEF AnswersAreOwn
  <2>1. \A m \in Calls : m[1] = u =>
          (m[2] < at'[u] /\ verdict'[m] = "refuse" <=> m[2] < at[u] /\ verdict[m] = "refuse")
    <3> SUFFICES ASSUME NEW m \in Calls, m[1] = u
                 PROVE  m[2] < at'[u] /\ verdict'[m] = "refuse" <=> m[2] < at[u] /\ verdict[m] = "refuse"
      OBVIOUS
    <3>1. m[2] \in Nat /\ m = <<m[1], m[2]>>
      BY CallForm, MessageForm
    <3>2. u = t /\ m # cur => m[2] # at[t]
      BY <3>1 DEF cur, Current
    <3>3. CASE m = cur
      BY <3>3, <1>2, <1>none
    <3>4. CASE m # cur
      BY <3>1, <3>2, <3>4, <1>1, <1>2, <1>3
    <3> QED BY <3>3, <3>4
  <2> QED BY <2>1 DEF AnswersAreOwn
<1>11. ForwardIsAllowed'
  <2>1. \A u \in Requests : \A m \in forward[u] : m[2] \in Nat
    BY MessageForm DEF TypeOK
  <2> QED BY <2>1, <1>0, <1>1, <1>2, <1>3, <1>4 DEF ForwardIsAllowed
<1>12. ReceivedWasForwarded'
  BY <1>0, <1>4, MessageForm DEF ReceivedWasForwarded, TypeOK
<1>13. PendingUntilResult'
  BY <1>0, <1>pend, <1>4 DEF PendingUntilResult
<1> QED BY <1>5, <1>6, <1>7, <1>8, <1>p, <1>d, <1>9, <1>10, <1>11, <1>12, <1>13

(* The answer to a refused call is stored under an id nobody else has.     *)
LEMMA RefuseStep ==
    ASSUME HttpInv, NEW t \in Requests, Refuse(t)
    PROVE  HttpInv'
<1> DEFINE cur == Current(t)
<1> USE DEF HttpInv
<1>0. /\ Deciding(t) /\ IsCall(cur) /\ pc[t] = "deciding"
      /\ verdict' = [verdict EXCEPT ![cur] = "refuse"]
      /\ selfAnswers' = With(selfAnswers, IdOf(cur), cur)
      /\ pc' = [pc EXCEPT ![t] = "taking"]
      /\ UNCHANGED <<at, forward, answers, pending, received, results, labels, reply, noted>>
  BY DEF Refuse, Goto, Deciding, AnswerKey
<1>1. /\ cur \in Calls /\ cur \in Messages /\ cur[1] = t /\ cur[2] = at[t]
      /\ at[t] \in Nat \ {0} /\ at[t] <= Len(BodyOf[t])
  BY <1>0, CurrentForm
<1>2. /\ verdict' \in [Calls -> {"none", "allow", "refuse"}] /\ verdict'[cur] = "refuse"
      /\ \A m \in Calls \ {cur} : verdict'[m] = verdict[m]
  BY <1>0, <1>1 DEF TypeOK
<1>3. /\ pc' \in [Requests -> Places] /\ pc'[t] = "taking"
      /\ \A u \in Requests \ {t} : pc'[u] = pc[u]
  BY <1>0 DEF TypeOK, Places
<1>self. /\ DOMAIN selfAnswers' = {IdOf(cur)} \cup DOMAIN selfAnswers
         /\ selfAnswers'[IdOf(cur)] = cur
         /\ \A i \in DOMAIN selfAnswers : i # IdOf(cur) => selfAnswers'[i] = selfAnswers[i]
  BY <1>0 DEF With
<1>none. verdict[cur] = "none"
  BY <1>0, <1>1 DEF Undecided
<1>same. \A u \in Requests : Current(u)' = Current(u)
  BY <1>0 DEF Current
<1>5. TypeOK'
  <2>1. DOMAIN selfAnswers' \subseteq Ids /\ \A i \in DOMAIN selfAnswers' : selfAnswers'[i] \in Calls
    BY <1>self, <1>1, CallForm DEF TypeOK
  <2> QED BY <2>1, <1>0, <1>2, <1>3 DEF TypeOK
<1>6. Progress'
  BY <1>0, <1>1, <1>3 DEF Progress
<1>7. OwnAnswerWaits'
  <2> SUFFICES ASSUME NEW u \in Requests, pc'[u] = "taking"
               PROVE  /\ Current(u) \in Calls
                      /\ verdict'[Current(u)] = "refuse"
                      /\ IdOf(Current(u)) \in DOMAIN selfAnswers'
                      /\ selfAnswers'[IdOf(Current(u))] = Current(u)
    BY <1>same DEF OwnAnswerWaits, AnswerKey
  <2>1. CASE u = t
    BY <2>1, <1>1, <1>2, <1>self
  <2>2. CASE u # t
    <3>1. /\ Current(u) \in Calls /\ verdict[Current(u)] = "refuse"
          /\ IdOf(Current(u)) \in DOMAIN selfAnswers
          /\ selfAnswers[IdOf(Current(u))] = Current(u)
      BY <2>2, <1>3 DEF OwnAnswerWaits, AnswerKey
    <3>2. Current(u) # cur
      BY <3>1, <1>none
    <3>3. IdOf(Current(u)) # IdOf(cur)
      BY <3>1, <3>2, <1>1, UniqueIdsAssumption
    <3> QED BY <3>1, <3>2, <3>3, <1>2, <1>self
  <2> QED BY <2>1, <2>2
<1>8. AnswersAreKeyed'
  BY <1>self DEF AnswersAreKeyed, AnswerKey
<1>9. AnswersAreTaken'
  <2> SUFFICES ASSUME NEW i \in DOMAIN selfAnswers'
               PROVE  /\ pc'[selfAnswers'[i][1]] = "taking"
                      /\ selfAnswers'[i] = <<selfAnswers'[i][1], at[selfAnswers'[i][1]]>>
    BY <1>0 DEF AnswersAreTaken, Current
  <2>1. CASE i = IdOf(cur)
    BY <2>1, <1>1, <1>3, <1>self DEF Current
  <2>2. CASE i # IdOf(cur)
    <3>1. i \in DOMAIN selfAnswers /\ selfAnswers'[i] = selfAnswers[i] /\ selfAnswers[i][1] \in Requests
      BY <2>2, <1>self, CallForm, MessageForm DEF TypeOK
    <3> QED BY <3>1, <1>0, <1>3 DEF AnswersAreTaken, Current
  <2> QED BY <2>1, <2>2
<1>10. Undecided'
  <2> SUFFICES ASSUME NEW m \in Calls,
                      m[2] > at[m[1]] \/ (m[2] = at[m[1]] /\ pc'[m[1]] = "deciding")
               PROVE  verdict'[m] = "none"
    BY <1>0 DEF Undecided
  <2>1. m[1] \in Requests /\ m[2] \in Nat
    BY CallForm, MessageForm
  <2>2. m # cur
    BY <1>1, <1>3
  <2> QED BY <2>1, <2>2, <1>2, <1>3 DEF Undecided
<1>11. AnswersAreOwn'
  <2>1. \A m \in Calls : m[2] < at[m[1]] => m # cur
    BY <1>1
  <2> QED BY <2>1, <1>0, <1>2 DEF AnswersAreOwn
<1>12. ForwardIsAllowed' /\ ReceivedWasForwarded' /\ PendingUntilResult'
  <2>1. \A u \in Requests : \A m \in forward[u] : m # cur
    BY <1>1 DEF ForwardIsAllowed
  <2> QED BY <2>1, <1>0, <1>2 DEF ForwardIsAllowed, ReceivedWasForwarded, PendingUntilResult
<1>13. PendingIsKeyed' /\ ResultsKeepTheirTool'
  BY <1>0 DEF PendingIsKeyed, ResultsKeepTheirTool
<1>14. DropsAreNoted'
  <2>1. reply[t] = "none"
    BY <1>0 DEF Progress
  <2> QED BY <2>1, <1>0, <1>1, <1>2 DEF DropsAreNoted, RefusedOf, TypeOK
<1> QED BY <1>5, <1>6, <1>7, <1>8, <1>9, <1>10, <1>11, <1>12, <1>13, <1>14

(* The audit file fails: the call is decided, the handler is gone.         *)
LEMMA FlushFailsStep ==
    ASSUME HttpInv, NEW t \in Requests, FlushFails(t)
    PROVE  HttpInv'
<1> DEFINE cur == Current(t)
<1> USE DEF HttpInv
<1>0. PICK v \in {"allow", "refuse"} :
      /\ Deciding(t) /\ IsCall(cur) /\ pc[t] = "deciding"
      /\ verdict' = [verdict EXCEPT ![cur] = v]
      /\ pc' = [pc EXCEPT ![t] = "done"] /\ reply' = [reply EXCEPT ![t] = "broken"]
      /\ UNCHANGED <<at, forward, answers, pending, selfAnswers, received, results, labels, noted>>
  BY DEF FlushFails, Finish, Goto, Deciding
<1>1. /\ cur \in Calls /\ cur[1] = t /\ cur[2] = at[t] /\ at[t] \in Nat \ {0}
  BY <1>0, CurrentForm
<1>2. /\ verdict' \in [Calls -> {"none", "allow", "refuse"}]
      /\ \A m \in Calls \ {cur} : verdict'[m] = verdict[m]
  BY <1>0, <1>1 DEF TypeOK
<1>3. /\ pc' \in [Requests -> Places] /\ pc'[t] = "done"
      /\ reply' \in [Requests -> Kinds] /\ reply'[t] = "broken"
      /\ \A u \in Requests \ {t} : pc'[u] = pc[u] /\ reply'[u] = reply[u]
  BY <1>0 DEF TypeOK, Places, Kinds
<1>none. verdict[cur] = "none" /\ reply[t] = "none"
  BY <1>0, <1>1 DEF Undecided, Progress
<1>same. \A u \in Requests : Current(u)' = Current(u)
  BY <1>0 DEF Current
<1>5. TypeOK'
  BY <1>0, <1>2, <1>3 DEF TypeOK
<1>6. Progress'
  BY <1>0, <1>3 DEF Progress
<1>7. OwnAnswerWaits'
  BY <1>0, <1>2, <1>3, <1>none, <1>same DEF OwnAnswerWaits, AnswerKey
<1>8. AnswersAreKeyed' /\ PendingIsKeyed' /\ ResultsKeepTheirTool'
  BY <1>0 DEF AnswersAreKeyed, AnswerKey, PendingIsKeyed, ResultsKeepTheirTool
<1>9. AnswersAreTaken'
  <2>1. \A i \in DOMAIN selfAnswers : selfAnswers[i][1] \in Requests
    BY MessageForm, CallForm DEF TypeOK
  <2> QED BY <2>1, <1>0, <1>3, <1>same DEF AnswersAreTaken
<1>10. Undecided'
  <2> SUFFICES ASSUME NEW m \in Calls,
                      m[2] > at[m[1]] \/ (m[2] = at[m[1]] /\ pc'[m[1]] = "deciding")
               PROVE  verdict'[m] = "none"
    BY <1>0 DEF Undecided
  <2>1. m[1] \in Requests /\ m[2] \in Nat
    BY CallForm, MessageForm
  <2>2. m # cur
    BY <1>1, <1>3
  <2> QED BY <2>1, <2>2, <1>2, <1>3 DEF Undecided
<1>11. AnswersAreOwn'
  <2>1. \A m \in Calls : m[2] < at[m[1]] => m # cur
    BY <1>1
  <2> QED BY <2>1, <1>0, <1>2 DEF AnswersAreOwn
<1>12. ForwardIsAllowed' /\ ReceivedWasForwarded' /\ PendingUntilResult'
  <2>1. \A u \in Requests : \A m \in forward[u] : m # cur
    BY <1>1 DEF ForwardIsAllowed
  <2> QED BY <2>1, <1>0, <1>2 DEF ForwardIsAllowed, ReceivedWasForwarded, PendingUntilResult
<1>14. DropsAreNoted'
  <2>1. \A m \in noted : m[1] \in Requests /\ m # cur
    BY <1>none, <1>1, CallForm, MessageForm DEF DropsAreNoted, TypeOK
  <2>2. \A u \in Requests \ {t}, m \in Calls : m[1] = u => m # cur
    BY <1>1
  <2> QED BY <2>1, <2>2, <1>0, <1>2, <1>3, <1>none DEF DropsAreNoted, RefusedOf, TypeOK
<1> QED BY <1>5, <1>6, <1>7, <1>8, <1>9, <1>10, <1>11, <1>12, <1>14

(* The handler takes its own answer, and no other.                         *)
LEMMA TakeStep ==
    ASSUME HttpInv, NEW t \in Requests, Take(t)
    PROVE  HttpInv'
<1> DEFINE cur == Current(t)
<1> USE DEF HttpInv
<1>0. /\ pc[t] = "taking"
      /\ answers' = [answers EXCEPT ![t] = @ \cup Held(IdOf(cur))]
      /\ selfAnswers' = Without(selfAnswers, IdOf(cur))
      /\ at' = [at EXCEPT ![t] = at[t] + 1]
      /\ pc' = [pc EXCEPT ![t] = "deciding"]
      /\ UNCHANGED <<forward, verdict, pending, received, results, labels, reply, noted>>
  BY DEF Take, Goto, NextMessage, Pop, AnswerKey
<1>1. /\ cur \in Calls /\ cur[1] = t /\ cur[2] = at[t]
      /\ at[t] \in Nat \ {0} /\ at[t] <= Len(BodyOf[t])
      /\ verdict[cur] = "refuse" /\ Held(IdOf(cur)) = {cur}
  BY <1>0 DEF OwnAnswerWaits, TypeOK, Progress, Current, Held, AnswerKey
<1>2. /\ answers' \in [Requests -> SUBSET Calls] /\ answers'[t] = answers[t] \cup {cur}
      /\ \A u \in Requests \ {t} : answers'[u] = answers[u]
  BY <1>0, <1>1 DEF TypeOK
<1>3. /\ at' \in [Requests -> Nat \ {0}] /\ at'[t] = at[t] + 1
      /\ pc' \in [Requests -> Places] /\ pc'[t] = "deciding"
      /\ \A u \in Requests \ {t} : at'[u] = at[u] /\ pc'[u] = pc[u]
  BY <1>0, <1>1 DEF TypeOK, Places
<1>self. /\ DOMAIN selfAnswers' = DOMAIN selfAnswers \ {IdOf(cur)}
         /\ \A i \in DOMAIN selfAnswers \ {IdOf(cur)} : selfAnswers'[i] = selfAnswers[i]
  BY <1>0, Removed
<1>same. \A u \in Requests \ {t} : Current(u)' = Current(u)
  BY <1>3 DEF Current
<1> HIDE DEF cur
<1>5. TypeOK'
  <2>1. \A u \in Requests : at'[u] <= Len(BodyOf[u]) + 1
    <3>1. \A u \in Requests : at[u] <= Len(BodyOf[u]) + 1
      BY DEF TypeOK
    <3>2. Len(BodyOf[t]) \in Nat
      BY RequestsAssumption
    <3> QED BY <3>1, <3>2, <1>1, <1>3
  <2> QED BY <2>1, <1>0, <1>2, <1>3, <1>self DEF TypeOK
<1>6. Progress'
  BY <1>0, <1>2, <1>3 DEF Progress
<1>7. OwnAnswerWaits'
  <2> SUFFICES ASSUME NEW u \in Requests, pc'[u] = "taking"
               PROVE  /\ Current(u)' \in Calls
                      /\ verdict[Current(u)'] = "refuse"
                      /\ IdOf(Current(u)') \in DOMAIN selfAnswers'
                      /\ selfAnswers'[IdOf(Current(u)')] = Current(u)'
    BY <1>0 DEF OwnAnswerWaits, AnswerKey
  <2>1. u # t /\ pc[u] = "taking" /\ Current(u)' = Current(u)
    BY <1>3, <1>same
  <2>2. /\ Current(u) \in Calls /\ verdict[Current(u)] = "refuse"
        /\ IdOf(Current(u)) \in DOMAIN selfAnswers
        /\ selfAnswers[IdOf(Current(u))] = Current(u)
    BY <2>1 DEF OwnAnswerWaits, AnswerKey
  <2>3. Current(u) # cur
    BY <2>1, <1>1 DEF Current
  <2>4. IdOf(Current(u)) # IdOf(cur)
    BY <2>2, <2>3, <1>1, CallForm, UniqueIdsAssumption
  <2> QED BY <2>1, <2>2, <2>4, <1>self
<1>8. AnswersAreKeyed'
  BY <1>self DEF AnswersAreKeyed, AnswerKey
<1>9. AnswersAreTaken'
  <2> SUFFICES ASSUME NEW i \in DOMAIN selfAnswers'
               PROVE  /\ pc'[selfAnswers'[i][1]] = "taking"
                      /\ selfAnswers'[i] = <<selfAnswers'[i][1], at'[selfAnswers'[i][1]]>>
    BY DEF AnswersAreTaken, Current
  <2>1. i \in DOMAIN selfAnswers /\ i # IdOf(cur) /\ selfAnswers'[i] = selfAnswers[i]
    BY <1>self
  <2>2. /\ selfAnswers[i][1] \in Requests /\ pc[selfAnswers[i][1]] = "taking"
        /\ selfAnswers[i] = <<selfAnswers[i][1], at[selfAnswers[i][1]]>>
        /\ IdOf(selfAnswers[i]) = i
    BY <2>1, CallForm, MessageForm DEF TypeOK, AnswersAreTaken, AnswersAreKeyed, AnswerKey, Current
  <2>3. selfAnswers[i][1] # t
    BY <2>1, <2>2 DEF cur, Current
  <2> QED BY <2>1, <2>2, <2>3, <1>3
<1>10. Undecided'
  <2> SUFFICES ASSUME NEW m \in Calls,
                      m[2] > at'[m[1]] \/ (m[2] = at'[m[1]] /\ pc'[m[1]] = "deciding")
               PROVE  verdict[m] = "none"
    BY <1>0 DEF Undecided
  <2>1. m[1] \in Requests /\ m[2] \in Nat
    BY CallForm, MessageForm
  <2>2. CASE m[1] = t
    BY <2>1, <2>2, <1>1, <1>3 DEF Undecided
  <2>3. CASE m[1] # t
    BY <2>1, <2>3, <1>3 DEF Undecided
  <2> QED BY <2>2, <2>3
<1>11. AnswersAreOwn'
  <2> SUFFICES ASSUME NEW u \in Requests
               PROVE  answers'[u] = {m \in Calls : m[1] = u /\ m[2] < at'[u] /\ verdict[m] = "refuse"}
    BY <1>0 DEF AnswersAreOwn
  <2>1. CASE u # t
    BY <2>1, <1>2, <1>3 DEF AnswersAreOwn
  <2>2. CASE u = t
    <3>1. \A m \in Calls : m[1] = t => (m[2] < at[t] + 1 <=> m[2] < at[t] \/ m = cur)
      <4> SUFFICES ASSUME NEW m \in Calls, m[1] = t
                   PROVE  m[2] < at[t] + 1 <=> m[2] < at[t] \/ m = cur
        OBVIOUS
      <4>1. m[2] \in Nat /\ m = <<m[1], m[2]>>
        BY CallForm, MessageForm
      <4>2. m[2] = at[t] => m = cur
        BY <4>1 DEF cur, Current
      <4> QED BY <4>1, <4>2, <1>1
    <3>2. answers[t] = {m \in Calls : m[1] = t /\ m[2] < at[t] /\ verdict[m] = "refuse"}
      BY DEF AnswersAreOwn
    <3> QED BY <2>2, <3>1, <3>2, <1>1, <1>2, <1>3
  <2> QED BY <2>1, <2>2
<1>12. ForwardIsAllowed'
  <2>1. \A u \in Requests : \A m \in forward[u] : m[2] \in Nat
    BY MessageForm DEF TypeOK
  <2> QED BY <2>1, <1>0, <1>1, <1>3 DEF ForwardIsAllowed
<1>13. ReceivedWasForwarded' /\ PendingUntilResult' /\ PendingIsKeyed' /\ ResultsKeepTheirTool'
  BY <1>0 DEF ReceivedWasForwarded, PendingUntilResult, PendingIsKeyed, ResultsKeepTheirTool
<1>14. DropsAreNoted'
  BY <1>0 DEF DropsAreNoted, RefusedOf
<1> QED BY <1>5, <1>6, <1>7, <1>8, <1>9, <1>10, <1>11, <1>12, <1>13, <1>14

-----------------------------------------------------------------------------
(* A result takes the id of its own call out of the table, and only that.  *)
LEMMA SealTables ==
    ASSUME HttpInv, NEW m \in received, Seal(m), UNCHANGED forward
    PROVE  /\ DOMAIN pending' \subseteq Ids /\ \A i \in DOMAIN pending' : pending'[i] \in Calls
           /\ labels' \in [Messages -> SUBSET (Calls \cup {None})]
           /\ PendingIsKeyed' /\ PendingUntilResult' /\ ResultsKeepTheirTool'
<1> DEFINE label == IF IdOf(m) \in DOMAIN pending THEN m ELSE None
<1> USE DEF HttpInv
<1>1. /\ m \in Messages /\ m \in forward[m[1]] /\ m[1] \in Requests
  BY MessageForm DEF TypeOK, ReceivedWasForwarded
<1>2. IdOf(m) \in DOMAIN pending => pending[IdOf(m)] = m /\ m \in Calls
  BY <1>1, UniqueIdsAssumption DEF TypeOK, PendingIsKeyed
<1>3. /\ label \in Calls \cup {None}
      /\ IdOf(m) \in DOMAIN pending => label = m
      /\ IdOf(m) \notin DOMAIN pending => label = None
  BY <1>2
<1>4. labels' = [labels EXCEPT ![m] = @ \cup {label}]
  <2>1. CASE IdOf(m) \in DOMAIN pending
    BY <2>1, <1>2 DEF Seal
  <2>2. CASE IdOf(m) \notin DOMAIN pending
    BY <2>2 DEF Seal
  <2> QED BY <2>1, <2>2
<1>5. /\ DOMAIN pending' = DOMAIN pending \ {IdOf(m)}
      /\ \A i \in DOMAIN pending \ {IdOf(m)} : pending'[i] = pending[i]
  <2>1. CASE IdOf(m) \in DOMAIN pending
    <3>1. pending' = Without(pending, IdOf(m))
      BY <2>1 DEF Seal
    <3> QED BY <3>1, Removed
  <2>2. CASE IdOf(m) \notin DOMAIN pending
    BY <2>2 DEF Seal
  <2> QED BY <2>1, <2>2
<1> HIDE DEF label
<1>6. /\ labels' \in [Messages -> SUBSET (Calls \cup {None})]
      /\ labels'[m] = labels[m] \cup {label}
      /\ \A n \in Messages \ {m} : labels'[n] = labels[n]
  BY <1>1, <1>3, <1>4 DEF TypeOK
<1>7. DOMAIN pending' \subseteq Ids /\ \A i \in DOMAIN pending' : pending'[i] \in Calls
  BY <1>5 DEF TypeOK
<1>8. PendingIsKeyed'
  BY <1>5 DEF PendingIsKeyed
<1>9. PendingUntilResult'
  <2> SUFFICES ASSUME NEW u \in Requests, NEW n \in forward[u], n \in Calls, labels'[n] = {}
               PROVE  IdOf(n) \in DOMAIN pending'
    BY DEF PendingUntilResult
  <2>1. n # m /\ n \in Messages
    BY <1>6, CallForm
  <2>2. IdOf(n) \in DOMAIN pending
    BY <2>1, <1>6 DEF PendingUntilResult
  <2>3. IdOf(n) # IdOf(m)
    BY <2>1, <1>1, UniqueIdsAssumption
  <2> QED BY <2>2, <2>3, <1>5
<1>10. ResultsKeepTheirTool'
  <2>1. m \in Calls => m \in labels'[m]
    BY <1>1, <1>3, <1>6 DEF PendingUntilResult, ResultsKeepTheirTool
  <2>2. label \in {m, None} /\ (m \notin Calls => label = None)
    BY <1>2, <1>3
  <2> QED BY <2>1, <2>2, <1>6 DEF ResultsKeepTheirTool
<1> QED BY <1>6, <1>7, <1>8, <1>9, <1>10

(* What the steps after deciding have in common: the handler moves to      *)
(* another place or stays, perhaps replies, perhaps sends on or logs what  *)
(* it owes, perhaps takes a result in.                                     *)
LEMMA MoveStep ==
    ASSUME HttpInv, NEW t \in Requests, NEW place \in Places, NEW kind \in Kinds,
           pc[t] \notin {"taking", "done"},
           place \notin {"taking", "deciding"},
           kind = "none" <=> place # "done",
           place # "done" \/ kind # "broken" => at[t] > Len(BodyOf[t]),
           kind = "accepted" => answers[t] = {},
           pc' = [pc EXCEPT ![t] = place],
           reply' = [reply EXCEPT ![t] = kind],
           received' \in {received, received \cup forward[t]},
           noted' = IF kind = "other" THEN noted \cup answers[t] ELSE noted,
           results' \in [Requests -> SUBSET Messages],
           UNCHANGED <<pending, labels>> \/ \E m \in received : Seal(m),
           UNCHANGED <<at, forward, answers, verdict, selfAnswers>>
    PROVE  HttpInv'
<1> USE DEF HttpInv
<1>0. UNCHANGED <<at, forward, answers, verdict, selfAnswers>>
  OBVIOUS
<1>tables. /\ DOMAIN pending' \subseteq Ids /\ \A i \in DOMAIN pending' : pending'[i] \in Calls
           /\ labels' \in [Messages -> SUBSET (Calls \cup {None})]
           /\ PendingIsKeyed' /\ PendingUntilResult' /\ ResultsKeepTheirTool'
  <2>1. CASE UNCHANGED <<pending, labels>>
    BY <2>1 DEF TypeOK, PendingIsKeyed, PendingUntilResult, ResultsKeepTheirTool
  <2>2. CASE \E m \in received : Seal(m)
    BY <2>2, SealTables
  <2> QED BY <2>1, <2>2
<1>1. /\ pc' \in [Requests -> Places] /\ pc'[t] = place
      /\ reply' \in [Requests -> Kinds] /\ reply'[t] = kind
      /\ \A u \in Requests \ {t} : pc'[u] = pc[u] /\ reply'[u] = reply[u]
  BY DEF TypeOK
<1>same. \A u \in Requests : Current(u)' = Current(u)
  BY <1>0 DEF Current
<1>none. reply[t] = "none"
  BY DEF Progress
<1>2. TypeOK'
  BY <1>0, <1>1, <1>tables DEF TypeOK
<1>3. Progress'
  BY <1>0, <1>1 DEF Progress
<1>4. OwnAnswerWaits'
  BY <1>0, <1>1, <1>same DEF OwnAnswerWaits, AnswerKey
<1>5. AnswersAreTaken'
  <2>1. \A i \in DOMAIN selfAnswers : selfAnswers[i][1] \in Requests
    BY MessageForm, CallForm DEF TypeOK
  <2> QED BY <2>1, <1>0, <1>1, <1>same DEF AnswersAreTaken
<1>6. Undecided'
  <2>1. \A m \in Calls : m[1] \in Requests
    BY CallForm, MessageForm
  <2> QED BY <2>1, <1>0, <1>1 DEF Undecided
<1>7. AnswersAreKeyed' /\ AnswersAreOwn' /\ ForwardIsAllowed'
  BY <1>0 DEF AnswersAreKeyed, AnswerKey, AnswersAreOwn, ForwardIsAllowed
<1>8. ReceivedWasForwarded'
  BY <1>0 DEF ReceivedWasForwarded, ForwardIsAllowed
<1>9. DropsAreNoted'
  <2>1. ASSUME NEW u \in Requests, reply'[u] = "other" PROVE RefusedOf(u)' \subseteq noted'
    <3>1. RefusedOf(u)' = RefusedOf(u) /\ noted \subseteq noted'
      BY <1>0 DEF RefusedOf
    <3>2. CASE u = t
      <4>1. kind = "other" /\ at[t] > Len(BodyOf[t]) /\ at[t] \in Nat
        BY <2>1, <3>2, <1>1 DEF TypeOK
      <4>2. \A m \in Calls : m[1] = t => m[2] < at[t]
        BY <4>1, CallForm, MessageForm, RequestsAssumption
      <4>3. RefusedOf(t) \subseteq answers[t]
        BY <4>2 DEF RefusedOf, AnswersAreOwn
      <4> QED BY <3>1, <3>2, <4>1, <4>3
    <3>3. CASE u # t
      BY <2>1, <3>1, <3>3, <1>1 DEF DropsAreNoted
    <3> QED BY <3>2, <3>3
  <2>2. ASSUME NEW m \in noted' PROVE reply'[m[1]] = "other" /\ verdict'[m] = "refuse"
    <3>1. CASE m \in noted
      <4>1. reply[m[1]] = "other" /\ verdict[m] = "refuse" /\ m[1] \in Requests
        BY <3>1, CallForm, MessageForm DEF DropsAreNoted, TypeOK
      <4> QED BY <4>1, <1>0, <1>1, <1>none
    <3>2. CASE m \notin noted
      <4>1. kind = "other" /\ m \in answers[t]
        BY <2>2, <3>2
      <4> QED BY <4>1, <1>0, <1>1 DEF AnswersAreOwn
    <3> QED BY <3>1, <3>2
  <2> QED BY <2>1, <2>2 DEF DropsAreNoted
<1> QED BY <1>tables, <1>2, <1>3, <1>4, <1>5, <1>6, <1>7, <1>8, <1>9

-----------------------------------------------------------------------------
LEMMA HttpNext == HttpInv /\ [Next]_vars => HttpInv'
<1> SUFFICES ASSUME HttpInv, [Next]_vars PROVE HttpInv'
  OBVIOUS
<1>1. CASE UNCHANGED vars
  BY <1>1 DEF vars, proxyVars, HttpInv, TypeOK, Progress, OwnAnswerWaits, AnswersAreKeyed,
              AnswersAreTaken, Undecided, AnswersAreOwn, ForwardIsAllowed, ReceivedWasForwarded,
              PendingIsKeyed, PendingUntilResult, ResultsKeepTheirTool, DropsAreNoted, RefusedOf,
              Current, AnswerKey
<1>2. CASE Next
  <2>1. PICK t \in Requests : Step(t)
    BY <1>2 DEF Next
  <2> USE DEF Places, Kinds
  <2>2. /\ reply = [reply EXCEPT ![t] = reply[t]] /\ pc = [pc EXCEPT ![t] = pc[t]]
        /\ pc[t] \in Places /\ received \subseteq Messages
        /\ results \in [Requests -> SUBSET Messages]
        /\ pc[t] # "done" => reply[t] = "none"
        /\ pc[t] \in {"sending", "relaying", "body", "stream"} => at[t] > Len(BodyOf[t])
    BY DEF HttpInv, TypeOK, Progress
  <2>3. CASE Conclude(t)
    <3> DEFINE kind == IF answers[t] = {} THEN "accepted" ELSE "json"
    <3> QED BY <2>2, <2>3, MoveStep DEF proxyVars, Conclude, Finish, Goto, AllDecided
  <2>4. CASE Send(t)
    BY <2>2, <2>4, MoveStep DEF proxyVars, Send, Goto, AllDecided, Outgoing
  <2>5. CASE Unreachable(t)
    BY <2>2, <2>5, MoveStep DEF proxyVars, Unreachable, Finish, Goto, AllDecided
  <2>6. CASE StartReply(t)
    BY <2>2, <2>6, MoveStep DEF proxyVars, StartReply, Goto
  <2>7. CASE RelayOther(t)
    BY <2>2, <2>7, MoveStep DEF proxyVars, RelayOther, Finish, Goto
  <2>8. CASE FinishBody(t)
    BY <2>2, <2>8, MoveStep DEF proxyVars, FinishBody, Finish, Goto
  <2>9. CASE FinishStream(t)
    BY <2>2, <2>9, MoveStep DEF proxyVars, FinishStream, Finish, Goto
  <2>10. CASE Break(t)
    BY <2>2, <2>10, MoveStep DEF proxyVars, Break, Finish, Goto, Open, AllDecided
  <2>11. CASE ContextFails(t)
    BY <2>2, <2>11, MoveStep DEF proxyVars, ContextFails, Finish, Goto, Deciding
  <2>12. CASE InboundResult(t)
    BY <2>2, <2>12, MoveStep DEF proxyVars, InboundResult, Open
  <2>13. CASE SealFails(t)
    BY <2>2, <2>13, MoveStep DEF proxyVars, SealFails, Finish, Goto, Open
  <2>14. CASE InboundError(t)
    BY <2>2, <2>14, MoveStep DEF proxyVars, InboundError, Open
  <2> QED BY <2>1, <2>3, <2>4, <2>5, <2>6, <2>7, <2>8, <2>9, <2>10, <2>11,
             <2>12, <2>13, <2>14, PassStep, AllowStep, RefuseStep, FlushFailsStep, TakeStep DEF Step
<1> QED BY <1>1, <1>2 DEF Next

THEOREM HttpInvariant == Spec => []HttpInv
<1>1. Init => HttpInv
  BY HttpInit
<1>2. HttpInv /\ [Next]_vars => HttpInv'
  BY HttpNext
<1> QED BY <1>1, <1>2, PTL DEF Spec

(* However handlers interleave, a reply the proxy composes carries exactly *)
(* the refusals of the request it replies to (_decide, take_self_answer).  *)
THEOREM AnswersCorrect == Spec => []AnswersReachTheirCaller
<1>1. HttpInv => AnswersReachTheirCaller
  <2> SUFFICES ASSUME HttpInv, NEW t \in Requests
               PROVE  /\ answers[t] \subseteq RefusedOf(t)
                      /\ reply[t] \in {"accepted", "json"} => answers[t] = RefusedOf(t)
                      /\ reply[t] = "accepted" => RefusedOf(t) = {}
    BY DEF AnswersReachTheirCaller
  <2>1. answers[t] = {m \in Calls : m[1] = t /\ m[2] < at[t] /\ verdict[m] = "refuse"}
    BY DEF HttpInv, AnswersAreOwn
  <2>2. ASSUME reply[t] \in {"accepted", "json"} PROVE answers[t] = RefusedOf(t)
    <3>1. at[t] > Len(BodyOf[t]) /\ at[t] \in Nat
      BY <2>2 DEF HttpInv, Progress, TypeOK
    <3>2. \A m \in Calls : m[1] = t => m[2] < at[t]
      BY <3>1, CallForm, MessageForm, RequestsAssumption
    <3> QED BY <2>1, <3>2 DEF RefusedOf
  <2>3. reply[t] = "accepted" => answers[t] = {}
    BY DEF HttpInv, Progress
  <2> QED BY <2>1, <2>2, <2>3 DEF RefusedOf
<1> QED BY <1>1, HttpInvariant, PTL

(* No answer is left behind in _self_answers by a handler that ended.      *)
THEOREM NoAnswerIsLeft == Spec => []AnswersAreTaken
<1>1. HttpInv => AnswersAreTaken
  BY DEF HttpInv
<1> QED BY <1>1, HttpInvariant, PTL

(* A result is sealed under the tool that was called, whichever response   *)
(* brings it (handle_inbound, _pending).                                   *)
THEOREM LabelsCorrect == Spec => []ResultsKeepTheirTool
<1>1. HttpInv => ResultsKeepTheirTool
  BY DEF HttpInv
<1> QED BY <1>1, HttpInvariant, PTL

(* A handler passes over no message of its body: each it is done with it   *)
(* will send, or it is a call that was refused.                            *)
PassedIsForwarded ==
    \A t \in Requests : \A m \in Messages :
        m[1] = t /\ m[2] < at[t] => m \in forward[t] \/ (m \in Calls /\ verdict[m] = "refuse")

(* What it sends it sends at once, when all is decided.                    *)
SentTogether ==
    \A t \in Requests :
        (\E m \in received : m[1] = t) => at[t] > Len(BodyOf[t]) /\ forward[t] \subseteq received

(* A handler that goes on to its next message keeps what it passed.        *)
LEMMA PassedStep ==
    ASSUME HttpInv, PassedIsForwarded, [Next]_vars
    PROVE  PassedIsForwarded'
<1>1. ASSUME forward' = forward, at' = at, verdict' = verdict
      PROVE  PassedIsForwarded'
  BY <1>1 DEF PassedIsForwarded
<1>2. /\ \A t \in Requests : at[t] \in Nat
      /\ \A m \in Messages : m[1] \in Requests /\ m[2] \in Nat /\ m = <<m[1], m[2]>>
  BY MessageForm, RequestsAssumption DEF HttpInv, TypeOK
<1>3. ASSUME NEW t \in Requests, Deciding(t) \/ pc[t] = "taking",
             at' = [at EXCEPT ![t] = NextMessage(t)],
             forward' = forward \/ forward' = [forward EXCEPT ![t] = @ \cup {Current(t)}],
             Current(t) \in forward'[t] \/ (Current(t) \in Calls /\ verdict'[Current(t)] = "refuse"),
             verdict' = verdict \/ verdict' = [verdict EXCEPT ![Current(t)] = "allow"],
             \A m \in Messages : m[1] = t /\ m[2] < at[t] => m # Current(t)
      PROVE  PassedIsForwarded'
  <2> SUFFICES ASSUME NEW u \in Requests, NEW m \in Messages, m[1] = u, m[2] < at'[u]
               PROVE  m \in forward'[u] \/ (m \in Calls /\ verdict'[m] = "refuse")
    BY DEF PassedIsForwarded
  <2>0. forward \in [Requests -> SUBSET Messages] /\ at \in [Requests -> Nat \ {0}]
    BY DEF HttpInv, TypeOK
  <2>1. forward[u] \subseteq forward'[u]
    BY <1>3, <2>0
  <2>2. m = Current(t) \/ m[2] < at[u]
    <3>1. CASE u # t
      BY <1>3, <2>0, <3>1
    <3>2. CASE u = t
      <4>1. at'[t] = at[t] + 1
        BY <1>3, <2>0 DEF NextMessage
      <4>2. m[2] = at[t] \/ m[2] < at[t]
        BY <1>2, <3>2, <4>1
      <4> QED
        BY <1>2, <3>2, <4>2 DEF Current
    <3> QED
      BY <3>1, <3>2
  <2>3. CASE m = Current(t)
    BY <1>3, <2>3 DEF Current
  <2>4. CASE m # Current(t)
    <3>1. m \in forward[u] \/ (m \in Calls /\ verdict[m] = "refuse")
      BY <2>2, <2>4 DEF PassedIsForwarded
    <3>2. m \in Calls => verdict'[m] = verdict[m]
      BY <1>3, <2>4 DEF HttpInv, TypeOK
    <3> QED
      BY <2>1, <3>1, <3>2
  <2> QED
    BY <2>3, <2>4
<1>4. ASSUME NEW t \in Requests, Deciding(t), IsCall(Current(t)),
             forward' = forward, at' = at,
             \E v : verdict' = [verdict EXCEPT ![Current(t)] = v]
      PROVE  PassedIsForwarded'
  <2>1. \A m \in Calls : verdict[m] = "refuse" => verdict'[m] = "refuse" \/ m = Current(t)
    BY <1>4 DEF HttpInv, TypeOK
  <2>2. Current(t) \in Calls /\ ~(Current(t)[2] < at[t]) /\ Current(t)[1] = t
    BY <1>2, <1>4, CurrentForm DEF HttpInv
  <2> QED
    BY <1>4, <2>1, <2>2 DEF PassedIsForwarded
<1>5. CASE UNCHANGED vars
  BY <1>1, <1>5 DEF vars, proxyVars
<1>6. ASSUME NEW t \in Requests, Step(t)
      PROVE  PassedIsForwarded'
  <2>0. \A m \in Messages : m[1] = t /\ m[2] < at[t] => m # Current(t)
    BY <1>2 DEF Current
  <2>f. forward \in [Requests -> SUBSET Messages]
    BY DEF HttpInv, TypeOK
  <2>1. CASE Pass(t)
    <3>1. Current(t) \in forward'[t]
      BY <2>1, <2>f DEF Pass
    <3> QED
      BY <1>3, <2>0, <2>1, <3>1 DEF Pass, proxyVars
  <2>2. CASE Allow(t)
    <3>1. Current(t) \in forward'[t]
      BY <2>2, <2>f DEF Allow
    <3> QED
      BY <1>3, <2>0, <2>2, <3>1 DEF Allow
  <2>3. CASE Refuse(t)
    BY <1>4, <2>3 DEF Refuse
  <2>4. CASE FlushFails(t)
    BY <1>4, <2>4 DEF FlushFails
  <2>5. CASE Take(t)
    <3>1. Current(t) \in Calls /\ verdict'[Current(t)] = "refuse"
      BY <2>5 DEF Take, HttpInv, OwnAnswerWaits
    <3> QED
      BY <1>3, <2>0, <2>5, <3>1 DEF Take
  <2>6. CASE ContextFails(t) \/ Conclude(t) \/ Send(t) \/ Unreachable(t) \/ StartReply(t)
             \/ RelayOther(t) \/ InboundResult(t) \/ SealFails(t) \/ InboundError(t)
             \/ FinishBody(t) \/ FinishStream(t) \/ Break(t)
    BY <1>1, <2>6 DEF ContextFails, Conclude, Send, Unreachable, StartReply, RelayOther, InboundResult,
          SealFails, InboundError, FinishBody, FinishStream, Break, proxyVars
  <2> QED
    BY <1>6, <2>1, <2>2, <2>3, <2>4, <2>5, <2>6 DEF Step
<1> QED
  BY <1>5, <1>6 DEF Next

(* No handler sends before all of its body is decided, or collects after.  *)
LEMMA SentStep ==
    ASSUME HttpInv, SentTogether, [Next]_vars
    PROVE  SentTogether'
<1>1. ASSUME forward' = forward, at' = at, received' = received
      PROVE  SentTogether'
  BY <1>1 DEF SentTogether
<1>0. /\ forward \in [Requests -> SUBSET Messages] /\ at \in [Requests -> Nat \ {0}]
      /\ \A t \in Requests : Len(BodyOf[t]) \in Nat
  BY RequestsAssumption DEF HttpInv, TypeOK
<1>2. ASSUME NEW t \in Requests, at[t] <= Len(BodyOf[t]), received' = received,
             at' = [at EXCEPT ![t] = NextMessage(t)],
             forward' = forward \/ forward' = [forward EXCEPT ![t] = @ \cup {Current(t)}]
      PROVE  SentTogether'
  <2>1. ~ \E m \in received : m[1] = t
    BY <1>0, <1>2 DEF SentTogether
  <2>2. \A u \in Requests : u # t => forward'[u] = forward[u] /\ at'[u] = at[u]
    BY <1>0, <1>2
  <2> QED
    BY <1>2, <2>1, <2>2 DEF SentTogether
<1>3. CASE UNCHANGED vars
  BY <1>1, <1>3 DEF vars
<1>4. ASSUME NEW t \in Requests, Step(t)
      PROVE  SentTogether'
  <2>1. CASE Pass(t)
    BY <1>2, <2>1 DEF Pass, Deciding
  <2>2. CASE Allow(t)
    BY <1>2, <2>2 DEF Allow, Deciding
  <2>3. CASE Take(t)
    BY <1>2, <2>3 DEF Take, HttpInv, Progress
  <2>4. CASE Send(t)
    <3>1. /\ received' = received \cup forward[t] /\ forward' = forward /\ at' = at
          /\ at[t] > Len(BodyOf[t])
      BY <2>4 DEF Send, Outgoing, HttpInv, Progress, AllDecided
    <3>2. \A m \in forward[t] : m[1] = t
      BY DEF HttpInv, ForwardIsAllowed
    <3> QED
      BY <3>1, <3>2 DEF SentTogether
  <2>5. CASE Refuse(t) \/ FlushFails(t) \/ ContextFails(t) \/ Conclude(t) \/ Unreachable(t)
             \/ StartReply(t) \/ RelayOther(t) \/ InboundResult(t) \/ SealFails(t)
             \/ InboundError(t) \/ FinishBody(t) \/ FinishStream(t) \/ Break(t)
    BY <1>1, <2>5 DEF Refuse, FlushFails, ContextFails, Conclude, Unreachable, StartReply, RelayOther,
          InboundResult, SealFails, InboundError, FinishBody, FinishStream, Break
  <2> QED
    BY <1>4, <2>1, <2>2, <2>3, <2>4, <2>5 DEF Step
<1> QED
  BY <1>3, <1>4 DEF Next

(* Of a body the server gets all or nothing of what was not refused, and   *)
(* no call of it undecided (do_POST).                                      *)
THEOREM ServerSeesAllowedOnly == Spec => []OnlyAllowedReachTheServer
<1>1. ASSUME HttpInv, PassedIsForwarded, SentTogether
      PROVE  OnlyAllowedReachTheServer
  <2> SUFFICES ASSUME NEW t \in Requests, NEW some \in received, some[1] = t
               PROVE  LET sent == {m \in received : m[1] = t}
                          whole == {m \in Messages : m[1] = t}
                      IN  /\ sent = whole \ RefusedOf(t)
                          /\ \A m \in sent \cap Calls : verdict[m] = "allow"
    BY DEF OnlyAllowedReachTheServer
  <2>1. at[t] > Len(BodyOf[t]) /\ at[t] \in Nat /\ forward[t] \subseteq received
    BY <1>1 DEF SentTogether, HttpInv, TypeOK
  <2>2. \A m \in Messages : m[1] = t => m[2] < at[t]
    BY <2>1, MessageForm, RequestsAssumption
  <2>3. \A m \in received : m \in Messages /\ (m[1] = t => m \in forward[t])
    BY <1>1 DEF HttpInv, TypeOK, ReceivedWasForwarded
  <2>4. \A m \in forward[t] : m[1] = t /\ (m \in Calls => verdict[m] = "allow")
    BY <1>1 DEF HttpInv, ForwardIsAllowed
  <2>5. \A m \in Messages : m[1] = t => m \in forward[t] \/ m \in RefusedOf(t)
    BY <1>1, <2>2 DEF PassedIsForwarded, RefusedOf
  <2> QED
    BY <2>1, <2>3, <2>4, <2>5 DEF RefusedOf
<1>2. Init => PassedIsForwarded /\ SentTogether
  <2> SUFFICES ASSUME Init PROVE PassedIsForwarded /\ SentTogether
    OBVIOUS
  <2>1. \A m \in Messages : m[1] \in Requests /\ m[2] \in Nat \ {0}
    BY MessageForm, RequestsAssumption
  <2>2. received = {} /\ \A t \in Requests : at[t] = 1
    BY DEF Init
  <2> QED
    BY <2>1, <2>2 DEF PassedIsForwarded, SentTogether
<1> QED BY <1>1, <1>2, HttpInvariant, PassedStep, SentStep, PTL DEF Spec

(* A loss the proxy notices is logged, and only a loss (note_relay_dropped).*)
THEOREM DropsCorrect == Spec => []DropsAreNoted
<1>1. HttpInv => DropsAreNoted
  BY DEF HttpInv
<1> QED BY <1>1, HttpInvariant, PTL

(* A handler's place, what it has answered and what was logged are of      *)
(* their kind in every session.                                            *)
THEOREM TypesCorrect == Spec => []TypeOK
<1>1. HttpInv => TypeOK
  BY DEF HttpInv
<1> QED BY <1>1, HttpInvariant, PTL
=============================================================================
