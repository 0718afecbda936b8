---------------------------- MODULE AuditProofs ----------------------------
(***************************************************************************)
(* Theorems about the hash chain and the audit file, for any payloads and  *)
(* any number of records, sessions, failed writes and alterations.         *)
(***************************************************************************)
EXTENDS AuditProperties, SequenceTheorems, Iteration, TLAPS

-----------------------------------------------------------------------------
(* Chains.                                                                 *)

(* A chain that append made: the digest of each record is the history up   *)
(* to it.                                                                  *)
WellFormed(c) ==
    /\ c \in Seq(AuditRecord)
    /\ \A i \in 1..Len(c) :
        /\ c[i].index = i - 1
        /\ c[i].previous = IF i = 1 THEN Genesis ELSE c[i - 1].digest
        /\ c[i].digest = Append(c[i].previous, c[i].payload)
        /\ Len(c[i].digest) = i

LEMMA RecordParts ==
    ASSUME NEW r \in AuditRecord
    PROVE  /\ r.index \in Nat
           /\ r.previous \in Seq(Payloads)
           /\ r.digest \in Seq(Payloads)
           /\ r.payload \in Payloads
    BY DEF AuditRecord

LEMMA RecordEqual ==
    ASSUME NEW q \in AuditRecord, NEW r \in AuditRecord,
           q.index = r.index, q.previous = r.previous, q.digest = r.digest, q.payload = r.payload
    PROVE  q = r
    BY DEF AuditRecord

LEMMA DigestInjective ==
    ASSUME NEW p \in Seq(Payloads), NEW a \in Payloads, NEW q \in Seq(Payloads), NEW b \in Payloads,
           Append(p, a) = Append(q, b)
    PROVE  p = q /\ a = b
    BY AppendInjective

LEMMA EmptyWellFormed == WellFormed(<<>>)
    BY DEF WellFormed

LEMMA AppendKeepsWellFormed ==
    ASSUME NEW c, WellFormed(c), NEW payload \in Payloads
    PROVE  /\ WellFormed(AppendTo(c, payload))
           /\ Len(AppendTo(c, payload)) = Len(c) + 1
           /\ \A i \in 1..Len(c) : AppendTo(c, payload)[i] = c[i]
  <1> DEFINE head == HeadOf(c)
             new == [index |-> Len(c), previous |-> head,
                     digest |-> Append(head, payload), payload |-> payload]
             longer == Append(c, new)
  <1>1. c \in Seq(AuditRecord) /\ Len(c) \in Nat
    BY DEF WellFormed
  <1>2. head \in Seq(Payloads) /\ Len(head) = Len(c)
    <2>1. CASE c = <<>>
      BY <2>1 DEF HeadOf, Genesis
    <2>2. CASE c # <<>>
      <3>1. Len(c) \in 1..Len(c) /\ c[Len(c)] \in AuditRecord
        BY <1>1, <2>2
      <3> QED
        BY <3>1, <2>2, RecordParts DEF HeadOf, WellFormed
    <2> QED
      BY <2>1, <2>2
  <1>3. Append(head, payload) \in Seq(Payloads) /\ Len(Append(head, payload)) = Len(c) + 1
    BY <1>2
  <1>4. new \in AuditRecord
    BY <1>1, <1>2, <1>3 DEF AuditRecord
  <1>5. longer = AppendTo(c, payload)
    BY DEF AppendTo, Digest
  <1>6. head = IF Len(c) + 1 = 1 THEN Genesis ELSE c[Len(c)].digest
    BY <1>1 DEF HeadOf
  <1>7. /\ new.index = Len(c) /\ new.previous = head
        /\ new.digest = Append(head, payload) /\ new.payload = payload
    OBVIOUS
  <1> HIDE DEF new, head
  <1>8. /\ longer \in Seq(AuditRecord)
        /\ Len(longer) = Len(c) + 1
        /\ \A i \in 1..Len(c) : longer[i] = c[i]
        /\ longer[Len(c) + 1] = new
    BY <1>1, <1>4, AppendProperties
  <1> HIDE DEF longer
  <1>9. ASSUME NEW i \in 1..Len(longer)
        PROVE  /\ longer[i].index = i - 1
               /\ longer[i].previous = IF i = 1 THEN Genesis ELSE longer[i - 1].digest
               /\ longer[i].digest = Append(longer[i].previous, longer[i].payload)
               /\ Len(longer[i].digest) = i
    <2>1. CASE i = Len(c) + 1
      <3>1. i # 1 => longer[i - 1] = c[Len(c)]
        BY <1>1, <1>8, <2>1
      <3>2. longer[i] = new
        BY <1>8, <2>1
      <3>3. head = IF i = 1 THEN Genesis ELSE longer[i - 1].digest
        BY <1>1, <1>6, <2>1, <3>1
      <3>4. longer[i].index = i - 1
        BY <1>1, <1>7, <2>1, <3>2
      <3>5. Len(longer[i].digest) = i
        BY <1>3, <1>7, <2>1, <3>2
      <3> QED
        BY <1>7, <3>2, <3>3, <3>4, <3>5
    <2>2. CASE i \in 1..Len(c)
      <3>1. longer[i] = c[i] /\ (i # 1 => longer[i - 1] = c[i - 1])
        BY <1>1, <1>8, <2>2
      <3> QED
        BY <2>2, <3>1 DEF WellFormed
    <2> QED
      BY <1>1, <1>8, <2>1, <2>2
  <1> QED
    BY <1>5, <1>8, <1>9 DEF WellFormed

(* verify accepts what append made.                                        *)
LEMMA WellFormedVerifies ==
    ASSUME NEW c, WellFormed(c)
    PROVE  Verify(c)
  <1>1. DOMAIN c = 1..Len(c)
    BY DEF WellFormed
  <1> QED
    BY <1>1 DEF WellFormed, Verify, Recompute, Digest

-----------------------------------------------------------------------------
(* Altered records.                                                        *)

(* In whatever verify accepts, a digest is as long as its index says.      *)
LEMMA VerifiedLinks ==
    ASSUME NEW s \in Seq(AuditRecord), Verify(s)
    PROVE  \A i \in 1..Len(s) :
            /\ s[i].index = i - 1
            /\ s[i].previous = IF i = 1 THEN Genesis ELSE s[i - 1].digest
            /\ s[i].digest = Append(s[i].previous, s[i].payload)
            /\ s[i] \in AuditRecord
    BY DEF Verify, Recompute, Digest

LEMMA VerifiedLengths ==
    ASSUME NEW s \in Seq(AuditRecord), Verify(s)
    PROVE  \A i \in 1..Len(s) : Len(s[i].digest) = i
  <1> DEFINE Wrong == {i \in 1..Len(s) : Len(s[i].digest) # i}
  <1>1. Len(s) \in Nat /\ Wrong \subseteq Nat
    OBVIOUS
  <1>2. ASSUME NEW n \in Wrong, \A m \in Wrong : n <= m
        PROVE  FALSE
    <2>1. n \in 1..Len(s) /\ s[n] \in AuditRecord
      BY <1>1, VerifiedLinks
    <2>2. s[n].digest = Append(s[n].previous, s[n].payload)
      BY <2>1, VerifiedLinks
    <2>3. s[n].previous \in Seq(Payloads) /\ s[n].payload \in Payloads
      BY <2>1, RecordParts
    <2>4. Len(s[n].previous) = n - 1
      <3>1. CASE n = 1
        BY <2>1, <3>1, VerifiedLinks DEF Genesis
      <3>2. CASE n # 1
        <4>1. n - 1 \in 1..Len(s) /\ n - 1 \notin Wrong
          BY <1>1, <1>2, <2>1, <3>2
        <4>2. s[n].previous = s[n - 1].digest
          BY <2>1, <3>2, VerifiedLinks
        <4> QED
          BY <4>1, <4>2
      <3> QED
        BY <3>1, <3>2
    <2>5. Len(s[n].digest) = n
      BY <2>1, <2>2, <2>3, <2>4
    <2> QED
      BY <2>5
  <1> HIDE DEF Wrong
  <1>3. Wrong = {}
    BY <1>1, <1>2, LeastElement
  <1> QED
    BY <1>3 DEF Wrong

(* What verifies and ends in a digest that a chain holds is the beginning  *)
(* of that chain: from there back, each digest names the one before it.    *)
LEMMA VerifiedIsPrefix ==
    ASSUME NEW s \in Seq(AuditRecord), Verify(s), s # <<>>,
           NEW c, WellFormed(c), NEW m \in 1..Len(c), s[Len(s)].digest = c[m].digest
    PROVE  IsPrefix(s, c)
  <1>1. Len(s) \in Nat /\ Len(s) \in 1..Len(s) /\ Len(c) \in Nat /\ c \in Seq(AuditRecord)
    BY DEF WellFormed
  <1>2. m = Len(s)
    BY <1>1, VerifiedLengths DEF WellFormed
  <1> DEFINE Differs == {k \in 0..(Len(s) - 1) : s[Len(s) - k].digest # c[Len(s) - k].digest}
  <1>3. ASSUME NEW k \in Differs, \A j \in Differs : k <= j
        PROVE  FALSE
    <2> DEFINE i == Len(s) - k
    <2>1. k \in 0..(Len(s) - 1) /\ k # 0
      BY <1>1, <1>2
    <2>2. k - 1 \in 0..(Len(s) - 1) /\ k - 1 \notin Differs
      <3> HIDE DEF Differs
      <3>1. k - 1 \in 0..(Len(s) - 1) /\ ~(k <= k - 1)
        BY <1>1, <2>1
      <3> QED
        BY <1>3, <3>1
    <2>3. /\ i \in Nat /\ i + 1 = Len(s) - (k - 1) /\ i + 1 # 1
          /\ i \in 1..Len(s) /\ i + 1 \in 1..Len(s) /\ i \in 1..Len(c) /\ i + 1 \in 1..Len(c)
      BY <1>1, <1>2, <2>1
    <2>4. s[i + 1].digest = c[i + 1].digest
      BY <2>2, <2>3
    <2>5. s[i].digest # c[i].digest
      OBVIOUS
    <2> HIDE DEF i, Differs
    <2>6. s[i + 1].digest = Append(s[i].digest, s[i + 1].payload)
      <3>1. s[i + 1].previous = s[(i + 1) - 1].digest
        BY <2>3, VerifiedLinks
      <3>2. (i + 1) - 1 = i
        BY <2>3
      <3>3. s[i + 1].digest = Append(s[i + 1].previous, s[i + 1].payload)
        BY <2>3, VerifiedLinks
      <3> QED
        BY <3>1, <3>2, <3>3
    <2>7. c[i + 1].digest = Append(c[i].digest, c[i + 1].payload)
      <3>1. /\ c[i + 1].digest = Append(c[i + 1].previous, c[i + 1].payload)
            /\ c[i + 1].previous = IF i + 1 = 1 THEN Genesis ELSE c[(i + 1) - 1].digest
        BY <2>3 DEF WellFormed
      <3>2. (i + 1) - 1 = i
        BY <2>3
      <3> QED
        BY <2>3, <3>1, <3>2
    <2>8. /\ s[i] \in AuditRecord /\ s[i + 1] \in AuditRecord
          /\ c[i] \in AuditRecord /\ c[i + 1] \in AuditRecord
      BY <1>1, <2>3, ElementOfSeq
    <2>9. /\ s[i].digest \in Seq(Payloads) /\ s[i + 1].payload \in Payloads
          /\ c[i].digest \in Seq(Payloads) /\ c[i + 1].payload \in Payloads
      BY <2>8, RecordParts
    <2>10. Append(s[i].digest, s[i + 1].payload) = Append(c[i].digest, c[i + 1].payload)
      BY <2>4, <2>6, <2>7
    <2> DEFINE p == s[i].digest
               a == s[i + 1].payload
               q == c[i].digest
               b == c[i + 1].payload
    <2>11. p \in Seq(Payloads) /\ a \in Payloads /\ q \in Seq(Payloads) /\ b \in Payloads
      BY <2>9
    <2>12. Append(p, a) = Append(q, b)
      BY <2>10
    <2>13. p # q
      BY <2>5
    <2> HIDE DEF p, a, q, b
    <2> QED
      BY <2>11, <2>12, <2>13, DigestInjective
  <1>4. Differs \subseteq Nat
    BY <1>1
  <1>5. Differs = {}
    <2> HIDE DEF Differs
    <2> QED
      BY <1>3, <1>4, LeastElement
  <1>6. ASSUME NEW i \in 1..Len(s)
        PROVE  s[i].digest = c[i].digest
    <2>1. Len(s) - i \in 0..(Len(s) - 1) /\ Len(s) - (Len(s) - i) = i
      BY <1>1
    <2> QED
      BY <1>5, <2>1
  <1> HIDE DEF Differs
  <1>7. ASSUME NEW i \in 1..Len(s)
        PROVE  s[i] = c[i]
    <2>1. i \in 1..Len(c)
      BY <1>1, <1>2
    <2>2. s[i] \in AuditRecord /\ c[i] \in AuditRecord
      BY <1>1, <2>1, ElementOfSeq
    <2>3. s[i].index = c[i].index
      BY <2>1, VerifiedLinks DEF WellFormed
    <2>4. s[i].previous = c[i].previous
      <3>1. CASE i = 1
        BY <2>1, <3>1, VerifiedLinks DEF WellFormed
      <3>2. CASE i # 1
        <4>1. i - 1 \in 1..Len(s)
          BY <1>1, <3>2
        <4> QED
          BY <1>6, <2>1, <3>2, <4>1, VerifiedLinks DEF WellFormed
      <3> QED
        BY <3>1, <3>2
    <2>5. s[i].payload = c[i].payload
      <3>1. /\ s[i].digest = Append(s[i].previous, s[i].payload)
            /\ c[i].digest = Append(c[i].previous, c[i].payload)
        BY <2>1, VerifiedLinks DEF WellFormed
      <3>2. /\ s[i].previous \in Seq(Payloads) /\ s[i].payload \in Payloads
            /\ c[i].previous \in Seq(Payloads) /\ c[i].payload \in Payloads
        BY <2>2, RecordParts
      <3>3. Append(s[i].previous, s[i].payload) = Append(c[i].previous, c[i].payload)
        BY <1>6, <3>1
      <3> QED
        BY <3>2, <3>3, DigestInjective
    <2> QED
      BY <1>6, <2>2, <2>3, <2>4, <2>5, RecordEqual
  <1>8. Len(s) <= Len(c)
    BY <1>1, <1>2
  <1>9. SubSeq(s, 1, Len(s)) = SubSeq(c, 1, Len(s))
    BY <1>1, <1>7, <1>8
  <1> QED
    BY <1>8, <1>9 DEF IsPrefix
-----------------------------------------------------------------------------
(* The file.                                                               *)

LEMMA LinesOf ==
    ASSUME NEW s \in Seq(AuditRecord)
    PROVE  /\ Lines(s) \in Seq(Line)
           /\ Len(Lines(s)) = Len(s)
           /\ \A i \in 1..Len(s) : Lines(s)[i] = Whole(s[i])
  <1>1. \A i \in 1..Len(s) : Whole(s[i]) \in Line
    BY DEF Whole, Line
  <1>2. DOMAIN s = 1..Len(s) /\ Len(s) \in Nat
    OBVIOUS
  <1>3. Lines(s) \in [1..Len(s) -> Line]
    BY <1>1, <1>2 DEF Lines
  <1> QED
    BY <1>2, <1>3 DEF Lines

(* The records of a chain from the first that is not counted as written.   *)
LEMMA UnwrittenOf ==
    ASSUME NEW s \in Seq(AuditRecord), auditSeen \in 0..Len(s)
    PROVE  /\ Unwritten(s) \in Seq(AuditRecord)
           /\ Len(Unwritten(s)) = Len(s) - auditSeen
           /\ \A i \in 1..(Len(s) - auditSeen) : Unwritten(s)[i] = s[auditSeen + i]
  <1>1. \A i \in (auditSeen + 1)..Len(s) : s[i] \in AuditRecord
    OBVIOUS
  <1>2. auditSeen + 1 \in Int /\ Len(s) \in Int
    OBVIOUS
  <1> QED
    BY <1>1, <1>2, SubSeqProperties DEF Unwritten

FileType == file \in Seq(Line) /\ faults \in Nat /\ faultless \in BOOLEAN

LEMMA FlushEffect ==
    ASSUME NEW s \in Seq(AuditRecord), auditSeen \in 0..Len(s), FileType, Flush(s)
    PROVE  /\ FileType'
           /\ auditSeen' = Len(s)
           /\ Len(file') = Len(file) + (Len(s) - auditSeen)
           /\ \A i \in 1..Len(file) : file'[i] = file[i]
           /\ \A i \in 1..(Len(s) - auditSeen) : file'[Len(file) + i] = Whole(s[auditSeen + i])
  <1> DEFINE new == Lines(Unwritten(s))
  <1>1. /\ new \in Seq(Line)
        /\ Len(new) = Len(s) - auditSeen
        /\ \A i \in 1..(Len(s) - auditSeen) : new[i] = Whole(s[auditSeen + i])
    BY LinesOf, UnwrittenOf
  <1>2. file' = file \o new /\ file \in Seq(Line) /\ Len(file) \in Nat
    BY DEF Flush, FileType
  <1> HIDE DEF new
  <1>3. /\ file' \in Seq(Line)
        /\ Len(file') = Len(file) + Len(new)
        /\ \A i \in 1..(Len(file) + Len(new)) :
                file'[i] = IF i <= Len(file) THEN file[i] ELSE new[i - Len(file)]
    BY <1>1, <1>2, ConcatProperties
  <1>4. Len(new) \in Nat
    BY <1>1
  <1>5. ASSUME NEW i \in 1..Len(new)
        PROVE  file'[Len(file) + i] = new[i]
    <2>1. /\ Len(file) + i \in 1..(Len(file) + Len(new))
          /\ ~(Len(file) + i <= Len(file))
          /\ (Len(file) + i) - Len(file) = i
      BY <1>2, <1>4
    <2> QED
      BY <1>3, <2>1
  <1>6. \A i \in 1..Len(file) : file'[i] = file[i]
    BY <1>2, <1>3, <1>4
  <1>7. auditSeen' = Len(s)
    BY UnwrittenOf DEF Flush
  <1>8. FileType'
    BY <1>3 DEF Flush, FileType
  <1> QED
    BY <1>1, <1>3, <1>5, <1>6, <1>7, <1>8

(* A write that stops only adds lines of the session, and moves no count.  *)
LinesFrom(s) == {line \in Line : \E m \in 1..Len(s) : line.record = s[m]}

LEMMA StopEffect ==
    ASSUME NEW s \in Seq(AuditRecord), auditSeen \in 0..Len(s), FileType, FlushStops(s)
    PROVE  /\ FileType'
           /\ auditSeen' = auditSeen
           /\ faultless' = FALSE
           /\ Len(file) <= Len(file')
           /\ \A i \in 1..Len(file) : file'[i] = file[i]
           /\ \A i \in (Len(file) + 1)..Len(file') : file'[i] \in LinesFrom(s)
  <1> DEFINE U == Unwritten(s)
  <1>1. /\ U \in Seq(AuditRecord) /\ Len(U) \in Nat
        /\ \A i \in 1..Len(U) : \E m \in 1..Len(s) : U[i] = s[m]
    <2>1. \A i \in 1..(Len(s) - auditSeen) : auditSeen + i \in 1..Len(s)
      OBVIOUS
    <2> QED
      BY <2>1, UnwrittenOf
  <1>2. PICK n \in 0..Len(U), torn \in BOOLEAN :
            /\ torn => n < Len(U)
            /\ file' = file \o Lines(SubSeq(U, 1, n))
                            \o (IF torn THEN <<Torn(U[n + 1])>> ELSE <<>>)
    BY DEF FlushStops
  <1> DEFINE lines == Lines(SubSeq(U, 1, n))
             rest == IF torn THEN <<Torn(U[n + 1])>> ELSE <<>>
             new == lines \o rest
  <1> HIDE DEF U
  <1>3. lines \in Seq(LinesFrom(s))
    <2>1. /\ SubSeq(U, 1, n) \in Seq(AuditRecord)
          /\ Len(SubSeq(U, 1, n)) = n
          /\ \A i \in 1..n : SubSeq(U, 1, n)[i] = U[i] /\ i \in 1..Len(U)
      BY <1>1
    <2>2. /\ lines \in Seq(Line)
          /\ Len(lines) = n
          /\ \A i \in 1..n : lines[i] = Whole(U[i])
      BY <2>1, LinesOf
    <2> HIDE DEF lines
    <2>3. \A i \in 1..n : lines[i] \in Line /\ lines[i].record = U[i]
      BY <2>2 DEF Whole
    <2>4. \A i \in 1..n : lines[i] \in LinesFrom(s)
      BY <1>1, <2>1, <2>3 DEF LinesFrom
    <2> QED
      BY <2>2, <2>4
  <1>4. rest \in Seq(LinesFrom(s))
    <2>1. CASE torn
      <3>1. n + 1 \in 1..Len(U) /\ U[n + 1] \in AuditRecord
        BY <1>1, <1>2, <2>1
      <3>2. Torn(U[n + 1]) \in LinesFrom(s)
        BY <1>1, <3>1 DEF Torn, Line, LinesFrom
      <3> QED
        BY <2>1, <3>2
    <2>2. CASE ~torn
      BY <2>2
    <2> QED
      BY <2>1, <2>2
  <1>5. file' = (file \o lines) \o rest /\ file \in Seq(Line)
    BY <1>2 DEF FileType
  <1> HIDE DEF lines, rest
  <1>6. lines \in Seq(Line) /\ rest \in Seq(Line)
    BY <1>3, <1>4, SeqMonotonic DEF LinesFrom
  <1>7. file' = file \o new
    BY <1>5, <1>6, ConcatAssociative
  <1>8. new \in Seq(LinesFrom(s)) /\ new \in Seq(Line) /\ Len(new) \in Nat
    BY <1>3, <1>4, <1>6, ConcatProperties
  <1> HIDE DEF new
  <1>9. /\ file' \in Seq(Line)
        /\ Len(file') = Len(file) + Len(new) /\ Len(file) \in Nat
        /\ \A i \in 1..(Len(file) + Len(new)) :
                file'[i] = IF i <= Len(file) THEN file[i] ELSE new[i - Len(file)]
    BY <1>5, <1>7, <1>8, ConcatProperties
  <1>10. FileType' /\ faultless' = FALSE /\ auditSeen' = auditSeen
    <2>1. faults' = faults + 1 /\ faultless' = FALSE /\ auditSeen' = auditSeen
      BY DEF FlushStops
    <2>2. faults' \in Nat
      BY <2>1 DEF FileType
    <2>3. faultless' \in BOOLEAN
      BY <2>1
    <2> QED
      BY <1>9, <2>1, <2>2, <2>3, Zenon DEF FileType
  <1>11. ASSUME NEW i \in (Len(file) + 1)..Len(file')
         PROVE  file'[i] \in LinesFrom(s)
    <2>1. /\ i \in 1..(Len(file) + Len(new)) /\ ~(i <= Len(file))
          /\ i - Len(file) \in 1..Len(new)
      BY <1>8, <1>9
    <2>2. new[i - Len(file)] \in LinesFrom(s)
      BY <1>8, <2>1, ElementOfSeq
    <2> QED
      BY <1>9, <2>1, <2>2
  <1> QED
    BY <1>8, <1>9, <1>10, <1>11

-----------------------------------------------------------------------------
(* The session at work.  Beyond what the properties say, the count of what *)
(* was written is never ahead of the file, and in a session without faults *)
(* it is never behind the chain.                                           *)
Recorded(r) == \E j \in 1..Len(file) : file[j] = Whole(r)

TrailInv ==
    /\ FileType
    /\ WellFormed(chain)
    /\ auditSeen \in 0..Len(chain)
    /\ begun \in 0..Len(file)
    /\ forwarded \subseteq 1..Len(chain)
    /\ \A i \in 1..Len(chain) : i \in forwarded \/ i <= auditSeen => Recorded(chain[i])
    /\ faultless =>
        /\ auditSeen = Len(chain)
        /\ Len(file) = begun + Len(chain)
        /\ \A i \in 1..Len(chain) : file[begun + i] = Whole(chain[i])

(* A longer chain, or the same.                                            *)
Extends(s) ==
    /\ WellFormed(s)
    /\ Len(chain) <= Len(s)
    /\ \A i \in 1..Len(chain) : s[i] = chain[i]

LEMMA FlushKeeps ==
    ASSUME TrailInv, NEW s, Extends(s), Flush(s),
           chain' = s, begun' = begun, forwarded' \subseteq 1..Len(s)
    PROVE  TrailInv'
  <1>1. /\ s \in Seq(AuditRecord) /\ Len(s) \in Nat /\ Len(chain) \in Nat /\ Len(file) \in Nat
        /\ auditSeen \in 0..Len(chain) /\ auditSeen \in 0..Len(s) /\ begun \in 0..Len(file)
        /\ Len(chain) <= Len(s)
    BY DEF TrailInv, Extends, WellFormed, FileType
  <1>2. /\ FileType'
        /\ auditSeen' = Len(s)
        /\ Len(file') = Len(file) + (Len(s) - auditSeen)
        /\ \A i \in 1..Len(file) : file'[i] = file[i]
        /\ \A i \in 1..(Len(s) - auditSeen) : file'[Len(file) + i] = Whole(s[auditSeen + i])
    BY <1>1, FlushEffect DEF TrailInv
  <1>3. ASSUME NEW i \in 1..Len(s)
        PROVE  \E j \in 1..Len(file') : file'[j] = Whole(s[i])
    <2>1. CASE i <= auditSeen
      <3>1. i \in 1..Len(chain) /\ s[i] = chain[i]
        BY <1>1, <2>1 DEF Extends
      <3>2. PICK j \in 1..Len(file) : file[j] = Whole(chain[i])
        BY <2>1, <3>1 DEF TrailInv, Recorded
      <3>3. j \in 1..Len(file') /\ file'[j] = Whole(s[i])
        BY <1>1, <1>2, <3>1, <3>2
      <3> QED
        BY <3>3
    <2>2. CASE i > auditSeen
      <3> DEFINE k == i - auditSeen
      <3>1. k \in 1..(Len(s) - auditSeen) /\ auditSeen + k = i
        BY <1>1, <2>2
      <3>2. Len(file) + k \in 1..Len(file')
        BY <1>1, <1>2, <3>1
      <3>3. file'[Len(file) + k] = Whole(s[i])
        BY <1>2, <3>1
      <3> QED
        BY <3>2, <3>3
    <2> QED
      BY <1>1, <2>1, <2>2
  <1>4. ASSUME faultless'
        PROVE  /\ Len(file') = begun + Len(s)
               /\ \A i \in 1..Len(s) : file'[begun + i] = Whole(s[i])
    <2>1. faultless
      BY <1>4 DEF Flush
    <2>2. /\ auditSeen = Len(chain)
          /\ Len(file) = begun + Len(chain)
          /\ \A i \in 1..Len(chain) : file[begun + i] = Whole(chain[i])
      BY <2>1 DEF TrailInv
    <2>3. ASSUME NEW i \in 1..Len(s)
          PROVE  file'[begun + i] = Whole(s[i])
      <3>1. CASE i <= Len(chain)
        <4>1. i \in 1..Len(chain) /\ begun + i \in 1..Len(file)
          BY <1>1, <2>2, <3>1
        <4> QED
          BY <1>2, <2>2, <4>1 DEF Extends
      <3>2. CASE i > Len(chain)
        <4> DEFINE k == i - Len(chain)
        <4>1. /\ k \in 1..(Len(s) - auditSeen)
              /\ auditSeen + k = i /\ Len(file) + k = begun + i
          BY <1>1, <2>2, <3>2
        <4> QED
          BY <1>2, <4>1
      <3> QED
        BY <1>1, <3>1, <3>2
    <2> QED
      BY <1>1, <1>2, <2>2, <2>3
  <1>5. auditSeen' \in 0..Len(chain') /\ begun' \in 0..Len(file')
    BY <1>1, <1>2
  <1> QED
    BY <1>2, <1>3, <1>4, <1>5 DEF TrailInv, Extends, Recorded

LEMMA StopKeeps ==
    ASSUME TrailInv, NEW s, Extends(s), FlushStops(s),
           chain' = s, begun' = begun, forwarded' = forwarded
    PROVE  TrailInv'
  <1>1. /\ s \in Seq(AuditRecord) /\ Len(s) \in Nat /\ Len(chain) \in Nat /\ Len(file) \in Nat
        /\ auditSeen \in 0..Len(chain) /\ auditSeen \in 0..Len(s) /\ begun \in 0..Len(file)
        /\ Len(chain) <= Len(s) /\ forwarded \subseteq 1..Len(chain)
    BY DEF TrailInv, Extends, WellFormed, FileType
  <1>2. /\ FileType'
        /\ auditSeen' = auditSeen
        /\ faultless' = FALSE
        /\ Len(file) <= Len(file')
        /\ \A i \in 1..Len(file) : file'[i] = file[i]
    BY <1>1, StopEffect DEF TrailInv
  <1>3. Len(file') \in Nat
    BY <1>2 DEF FileType
  <1>4. ASSUME NEW i \in 1..Len(s), i \in forwarded \/ i <= auditSeen
        PROVE  \E j \in 1..Len(file') : file'[j] = Whole(s[i])
    <2>1. i \in 1..Len(chain) /\ s[i] = chain[i]
      BY <1>1, <1>4 DEF Extends
    <2>2. PICK j \in 1..Len(file) : file[j] = Whole(chain[i])
      BY <1>4, <2>1 DEF TrailInv, Recorded
    <2>3. j \in 1..Len(file') /\ file'[j] = Whole(s[i])
      BY <1>1, <1>2, <1>3, <2>1, <2>2
    <2> QED
      BY <2>3
  <1>5. /\ auditSeen' \in 0..Len(chain') /\ begun' \in 0..Len(file')
        /\ forwarded' \subseteq 1..Len(chain')
    BY <1>1, <1>2, <1>3
  <1> QED
    BY <1>2, <1>4, <1>5 DEF TrailInv, Extends, Recorded

LEMMA AppendExtends ==
    ASSUME TrailInv, NEW payload \in Payloads
    PROVE  /\ Extends(AppendTo(chain, payload))
           /\ Len(AppendTo(chain, payload)) = Len(chain) + 1
           /\ Len(chain) \in Nat /\ forwarded \subseteq 1..Len(chain)
           /\ Extends(chain)
  <1>1. WellFormed(chain)
    BY DEF TrailInv
  <1>2. Len(chain) \in Nat
    BY <1>1 DEF WellFormed
  <1> QED
    BY <1>1, <1>2, AppendKeepsWellFormed DEF TrailInv, Extends

LEMMA TrailInit ==
    ASSUME Init
    PROVE  TrailInv
  <1>1. FileType
    BY DEF Init, FileType
  <1>2. WellFormed(chain) /\ Len(chain) = 0
    BY EmptyWellFormed DEF Init
  <1> QED
    BY <1>1, <1>2 DEF Init, TrailInv

USE DEF vars, proxyVars, copyVars

LEMMA TrailStep ==
    ASSUME TrailInv, [Next]_vars
    PROVE  TrailInv'
  <1>1. ASSUME NEW payload \in Payloads, Decide(payload)
        PROVE  TrailInv'
    <2> DEFINE s == AppendTo(chain, payload)
    <2>1. /\ Extends(s) /\ Len(s) = Len(chain) + 1 /\ Len(chain) \in Nat
          /\ forwarded \subseteq 1..Len(chain)
      BY AppendExtends
    <2>2. chain' = s /\ begun' = begun
      BY <1>1 DEF Decide
    <2> HIDE DEF s
    <2>3. CASE Flush(chain')
      <3>1. forwarded' = forwarded \/ forwarded' = forwarded \cup {Len(chain')}
        BY <1>1 DEF Decide
      <3>2. Len(chain') = Len(chain) + 1 /\ 1..Len(chain) \subseteq 1..Len(s) /\ Len(chain') \in 1..Len(s)
        BY <2>1, <2>2
      <3>3. forwarded' \subseteq 1..Len(s)
        BY <2>1, <3>1, <3>2
      <3> QED
        BY <2>1, <2>2, <2>3, <3>3, FlushKeeps
    <2>4. CASE FlushStops(chain') /\ UNCHANGED forwarded
      BY <2>1, <2>2, <2>4, StopKeeps
    <2> QED
      BY <1>1, <2>3, <2>4 DEF Decide
  <1>2. CASE Close
    <2>1. /\ Extends(chain) /\ chain' = chain /\ begun' = begun
          /\ forwarded' = forwarded /\ forwarded \subseteq 1..Len(chain)
      BY <1>2 DEF Close, TrailInv, Extends
    <2>2. CASE Flush(chain)
      BY <2>1, <2>2, FlushKeeps
    <2>3. CASE FlushStops(chain)
      BY <2>1, <2>3, StopKeeps
    <2> QED
      BY <1>2, <2>2, <2>3 DEF Close
  <1>3. CASE Killed
    <2>1. begun' = begun /\ forwarded' = forwarded
      BY <1>3 DEF Killed
    <2>2. CASE UNCHANGED <<chain, auditSeen, file, faults, faultless>>
      BY <2>1, <2>2 DEF TrailInv, FileType, Recorded
    <2>3. ASSUME NEW payload \in Payloads,
                 chain' = AppendTo(chain, payload), FlushStops(chain')
          PROVE  TrailInv'
      <3> DEFINE s == AppendTo(chain, payload)
      <3>1. Extends(s) /\ chain' = s
        BY <2>3, AppendExtends
      <3> HIDE DEF s
      <3> QED
        BY <2>1, <2>3, <3>1, StopKeeps
    <2> QED
      BY <1>3, <2>2, <2>3 DEF Killed
  <1>4. CASE Restart
    <2>1. /\ chain' = <<>> /\ auditSeen' = 0 /\ begun' = Len(file) /\ forwarded' = {}
          /\ faultless' = TRUE /\ file' = file /\ faults' = faults
      BY <1>4 DEF Restart
    <2>2. FileType' /\ Len(file) \in Nat
      BY <2>1 DEF TrailInv, FileType
    <2>3. WellFormed(chain') /\ Len(chain') = 0
      BY <2>1, EmptyWellFormed
    <2> QED
      BY <2>1, <2>2, <2>3 DEF TrailInv
  <1>5. CASE UNCHANGED proxyVars
    BY <1>5 DEF TrailInv, FileType, Recorded
  <1> QED
    BY <1>1, <1>2, <1>3, <1>4, <1>5
    DEF Next, Export, Tamper, Alter, EditPayload, EditIndex, Relink, Reseal, Delete, Swap, Insert

(* A call that was sent to the server is in the file, as is whatever the   *)
(* proxy counts as written, whichever writes stopped where.                *)
THEOREM RecordsComeFirst == Spec => []NothingIsDoneOffTheRecord
  <1>1. TrailInv => NothingIsDoneOffTheRecord
    <2> SUFFICES ASSUME TrailInv, NEW i \in DOMAIN chain, i \in forwarded \/ i <= auditSeen
                 PROVE  Written(chain[i])
      BY DEF NothingIsDoneOffTheRecord
    <2>1. i \in 1..Len(chain) /\ file \in Seq(Line)
      BY DEF TrailInv, WellFormed, FileType
    <2>2. PICK j \in 1..Len(file) : file[j] = Whole(chain[i])
      BY <2>1 DEF TrailInv, Recorded
    <2> QED
      BY <2>1, <2>2 DEF Written, ToSet
  <1> QED
    BY <1>1, TrailInit, TrailStep, PTL DEF Spec

-----------------------------------------------------------------------------
(* Exported records.  Whatever is done to them, each carries a digest that *)
(* some session made.                                                      *)
PastInv ==
    /\ past \in Seq(Seq(AuditRecord))
    /\ \A i \in 1..Len(past) : WellFormed(past[i])

Made(digest) == \E c \in Sessions : \E i \in 1..Len(c) : digest = c[i].digest

Genuine == {r \in AuditRecord : Made(r.digest)}

CopyInv == copy \in Seq(Genuine)

LEMMA SessionsWellFormed ==
    ASSUME TrailInv, PastInv, NEW c \in Sessions
    PROVE  WellFormed(c)
  <1>1. DOMAIN past = 1..Len(past)
    BY DEF PastInv
  <1> QED
    BY <1>1 DEF Sessions, ToSet, TrailInv, PastInv

LEMMA RecordsGenuine ==
    ASSUME TrailInv, PastInv, NEW r \in Records
    PROVE  r \in AuditRecord /\ r \in Genuine
  <1>1. PICK c \in Sessions : r \in ToSet(c)
    BY DEF Records
  <1>2. c \in Seq(AuditRecord)
    BY SessionsWellFormed DEF WellFormed
  <1>3. PICK i \in 1..Len(c) : r = c[i]
    BY <1>1, <1>2 DEF ToSet
  <1>4. r \in AuditRecord
    BY <1>2, <1>3, ElementOfSeq
  <1> QED
    BY <1>3, <1>4 DEF Genuine, Made

(* Sessions go on and are not forgotten, so what was genuine stays it.     *)
LEMMA PastStep ==
    ASSUME TrailInv, PastInv, [Next]_vars
    PROVE  PastInv' /\ \A d : Made(d) => Made(d)'
  <1>1. CASE chain' = chain /\ past' = past
    BY <1>1 DEF PastInv, Made, Sessions
  <1>2. ASSUME NEW payload \in Payloads, chain' = AppendTo(chain, payload), past' = past
        PROVE  PastInv' /\ \A d : Made(d) => Made(d)'
    <2>1. /\ Len(chain') = Len(chain) + 1 /\ Len(chain) \in Nat
          /\ \A i \in 1..Len(chain) : chain'[i] = chain[i]
      BY <1>2, AppendExtends DEF Extends
    <2>2. ASSUME NEW d, NEW c \in Sessions, NEW i \in 1..Len(c), d = c[i].digest
          PROVE  Made(d)'
      <3>1. CASE c = chain
        <4>1. i \in 1..Len(chain') /\ d = chain'[i].digest /\ chain' \in Sessions'
          BY <2>1, <2>2, <3>1 DEF Sessions
        <4> QED
          BY <4>1 DEF Made
      <3>2. CASE c # chain
        <4>1. c \in Sessions'
          BY <1>2, <3>2 DEF Sessions
        <4> QED
          BY <2>2, <4>1 DEF Made
      <3> QED
        BY <3>1, <3>2
    <2>3. PastInv'
      BY <1>2 DEF PastInv
    <2> QED
      BY <2>2, <2>3 DEF Made
  <1>3. CASE Restart
    <2>1. past' = Append(past, chain) /\ past \in Seq(Seq(AuditRecord)) /\ chain \in Seq(AuditRecord)
      BY <1>3 DEF Restart, PastInv, TrailInv, WellFormed
    <2>2. /\ past' \in Seq(Seq(AuditRecord))
          /\ Len(past') = Len(past) + 1 /\ Len(past) \in Nat
          /\ \A i \in 1..Len(past) : past'[i] = past[i]
          /\ past'[Len(past) + 1] = chain
      BY <2>1, AppendProperties
    <2>3. PastInv'
      <3>1. ASSUME NEW i \in 1..Len(past')
            PROVE  WellFormed(past'[i])
        <4>1. i \in 1..Len(past) \/ i = Len(past) + 1
          BY <2>2
        <4> QED
          BY <2>2, <4>1 DEF PastInv, TrailInv
      <3> QED
        BY <2>2, <3>1 DEF PastInv
    <2>4. Sessions \subseteq Sessions'
      <3>1. DOMAIN past = 1..Len(past) /\ DOMAIN past' = 1..Len(past')
        BY <2>1, <2>2
      <3>2. \A i \in 1..Len(past) : i \in 1..Len(past') /\ past'[i] = past[i]
        BY <2>2
      <3>3. Len(past) + 1 \in 1..Len(past')
        BY <2>2
      <3> QED
        BY <2>2, <3>1, <3>2, <3>3 DEF Sessions, ToSet
    <2> QED
      BY <2>3, <2>4 DEF Made
  <1> QED
    BY <1>1, <1>2, <1>3
    DEF Next, Decide, Close, Killed, Export, Tamper, Alter,
        EditPayload, EditIndex, Relink, Reseal, Delete, Swap, Insert

(* One record of the copy is put in another's place.                       *)
LEMMA ReplaceGenuine ==
    ASSUME CopyInv, NEW i \in DOMAIN copy, NEW r \in Genuine
    PROVE  [copy EXCEPT ![i] = r] \in Seq(Genuine)
    BY ExceptSeq DEF CopyInv

LEMMA ChangedRecord ==
    ASSUME NEW r \in Genuine
    PROVE  /\ \A p \in Payloads : [r EXCEPT !.payload = p] \in Genuine
           /\ \A n \in Nat : [r EXCEPT !.index = n] \in Genuine
           /\ \A q \in AuditRecord : [r EXCEPT !.previous = q.previous] \in Genuine
           /\ \A q \in Genuine : [r EXCEPT !.digest = q.digest] \in Genuine
  <1>1. r \in AuditRecord /\ Made(r.digest)
    BY DEF Genuine
  <1>2. \A p \in Payloads : [r EXCEPT !.payload = p] \in AuditRecord
                            /\ [r EXCEPT !.payload = p].digest = r.digest
    BY <1>1 DEF AuditRecord
  <1>3. \A n \in Nat : [r EXCEPT !.index = n] \in AuditRecord
                       /\ [r EXCEPT !.index = n].digest = r.digest
    BY <1>1 DEF AuditRecord
  <1>4. \A q \in AuditRecord : [r EXCEPT !.previous = q.previous] \in AuditRecord
                               /\ [r EXCEPT !.previous = q.previous].digest = r.digest
    BY <1>1 DEF AuditRecord
  <1>5. \A q \in AuditRecord : [r EXCEPT !.digest = q.digest] \in AuditRecord
                               /\ [r EXCEPT !.digest = q.digest].digest = q.digest
    BY <1>1 DEF AuditRecord
  <1> QED
    BY <1>1, <1>2, <1>3, <1>4, <1>5 DEF Genuine

LEMMA TamperKeepsGenuine ==
    ASSUME TrailInv, PastInv, CopyInv, Tamper
    PROVE  copy' \in Seq(Genuine)
  <1>1. /\ DOMAIN copy = 1..Len(copy) /\ Len(copy) \in Nat
        /\ \A i \in DOMAIN copy : copy[i] \in Genuine
    BY DEF CopyInv
  <1>2. CASE EditPayload
    <2>1. PICK i \in DOMAIN copy, payload \in Payloads :
                copy' = [copy EXCEPT ![i] = [copy[i] EXCEPT !.payload = payload]]
      BY <1>2 DEF EditPayload, Alter
    <2> QED
      BY <1>1, <2>1, ChangedRecord, ReplaceGenuine
  <1>3. CASE EditIndex
    <2>1. PICK i \in DOMAIN copy, n \in 0..MaxRecords :
                copy' = [copy EXCEPT ![i] = [copy[i] EXCEPT !.index = n]]
      BY <1>3 DEF EditIndex, Alter
    <2>2. n \in Nat
      BY AuditAssumption
    <2> QED
      BY <1>1, <2>1, <2>2, ChangedRecord, ReplaceGenuine
  <1>4. CASE Relink
    <2>1. PICK i \in DOMAIN copy, r \in Records :
                copy' = [copy EXCEPT ![i] = [copy[i] EXCEPT !.previous = r.previous]]
      BY <1>4 DEF Relink, Alter
    <2> QED
      BY <1>1, <2>1, RecordsGenuine, ChangedRecord, ReplaceGenuine
  <1>5. CASE Reseal
    <2>1. PICK i \in DOMAIN copy, r \in Records :
                copy' = [copy EXCEPT ![i] = [copy[i] EXCEPT !.digest = r.digest]]
      BY <1>5 DEF Reseal, Alter
    <2> QED
      BY <1>1, <2>1, RecordsGenuine, ChangedRecord, ReplaceGenuine
  <1>6. CASE Delete
    <2>1. PICK i \in DOMAIN copy : copy' = SubSeq(copy, 1, i - 1) \o SubSeq(copy, i + 1, Len(copy))
      BY <1>6 DEF Delete, Alter, RemoveAt
    <2>2. SubSeq(copy, 1, i - 1) \in Seq(Genuine) /\ SubSeq(copy, i + 1, Len(copy)) \in Seq(Genuine)
      BY <1>1, SubSeqProperties
    <2> QED
      BY <2>1, <2>2, ConcatProperties
  <1>7. CASE Swap
    <2>1. PICK i \in DOMAIN copy, j \in DOMAIN copy :
                i < j /\ copy' = [copy EXCEPT ![i] = copy[j], ![j] = copy[i]]
      BY <1>7 DEF Swap, Alter
    <2>2. copy' \in [1..Len(copy) -> Genuine]
      BY <1>1, <2>1
    <2> QED
      BY <1>1, <2>2
  <1>8. CASE Insert
    <2>1. PICK i \in 1..(Len(copy) + 1), r \in Records :
                copy' = SubSeq(copy, 1, i - 1) \o <<r>> \o SubSeq(copy, i, Len(copy))
      BY <1>8 DEF Insert, Alter, InsertAt
    <2>2. /\ SubSeq(copy, 1, i - 1) \in Seq(Genuine)
          /\ SubSeq(copy, i, Len(copy)) \in Seq(Genuine)
      BY <1>1, SubSeqProperties
    <2>3. <<r>> \in Seq(Genuine)
      BY RecordsGenuine
    <2> QED
      BY <2>1, <2>2, <2>3, ConcatProperties
  <1> QED
    BY <1>2, <1>3, <1>4, <1>5, <1>6, <1>7, <1>8 DEF Tamper

LEMMA CopyStep ==
    ASSUME TrailInv, PastInv, CopyInv, [Next]_vars
    PROVE  CopyInv'
  <1>1. Genuine \subseteq Genuine'
    BY PastStep DEF Genuine
  <1>2. copy' \in Seq(Genuine)
    <2>1. CASE copy' = copy
      BY <2>1 DEF CopyInv
    <2>2. CASE Export
      <3>1. PICK c \in Sessions : copy' = c
        BY <2>2 DEF Export
      <3>2. c \in Seq(AuditRecord)
        BY SessionsWellFormed DEF WellFormed
      <3>3. \A i \in 1..Len(c) : c[i] \in Genuine
        BY <3>2, ElementOfSeq DEF Genuine, Made
      <3> QED
        BY <3>1, <3>2, <3>3
    <2>3. CASE Tamper
      BY <2>3, TamperKeepsGenuine
    <2> QED
      BY <2>1, <2>2, <2>3 DEF Next, Decide, Close, Killed, Restart
  <1> QED
    BY <1>1, <1>2, SeqMonotonic DEF CopyInv

(* However exported records are altered with digests that were once made,  *)
(* what verify accepts is the beginning of what one session decided.       *)
THEOREM AlterationCorrect == Spec => []AlterationIsDetected
  <1>1. Init => PastInv /\ CopyInv
    BY DEF Init, PastInv, CopyInv
  <1>2. TrailInv /\ PastInv /\ CopyInv => AlterationIsDetected
    <2> SUFFICES ASSUME TrailInv, PastInv, CopyInv, Verify(copy)
                 PROVE  \E c \in Sessions : IsPrefix(copy, c)
      BY DEF AlterationIsDetected
    <2>1. copy \in Seq(AuditRecord)
      BY SeqMonotonic DEF CopyInv, Genuine
    <2>2. CASE copy = <<>>
      <3>1. chain \in Sessions /\ Len(chain) \in Nat /\ Len(copy) = 0
        BY <2>2, SessionsWellFormed DEF Sessions, WellFormed
      <3>2. SubSeq(copy, 1, Len(copy)) = SubSeq(chain, 1, Len(copy))
        BY <3>1, SubSeqEmpty
      <3> QED
        BY <3>1, <3>2 DEF IsPrefix
    <2>3. CASE copy # <<>>
      <3>1. copy[Len(copy)] \in Genuine
        BY <2>3 DEF CopyInv
      <3>2. PICK c \in Sessions : \E m \in 1..Len(c) : copy[Len(copy)].digest = c[m].digest
        BY <3>1 DEF Genuine, Made
      <3> QED
        BY <2>1, <2>3, <3>2, SessionsWellFormed, VerifiedIsPrefix
    <2> QED
      BY <2>2, <2>3
  <1>3. TrailInv /\ PastInv /\ [Next]_vars => PastInv'
    BY PastStep
  <1> QED
    BY <1>1, <1>2, <1>3, TrailInit, TrailStep, CopyStep, PTL DEF Spec

-----------------------------------------------------------------------------
(* Types.                                                                  *)
MishapsInv ==
    /\ running \in BOOLEAN
    /\ faults \in Nat
    /\ edits \in Nat
    /\ faults + edits <= MaxMishaps

LEMMA MishapsStep ==
    ASSUME MishapsInv, [Next]_vars
    PROVE  MishapsInv'
  <1>1. running' \in BOOLEAN
    BY DEF MishapsInv, Next, Decide, Close, Killed, Restart, Export, Tamper, Alter,
           EditPayload, EditIndex, Relink, Reseal, Delete, Swap, Insert
  <1>2. CASE faults' = faults /\ edits' = edits
    BY <1>1, <1>2 DEF MishapsInv
  <1>3. ASSUME NEW s, FlushStops(s), edits' = edits
        PROVE  MishapsInv'
    <2>1. faults' = faults + 1 /\ faults + edits < MaxMishaps
      BY <1>3 DEF FlushStops
    <2> QED
      BY <1>1, <1>3, <2>1, AuditAssumption DEF MishapsInv
  <1>4. ASSUME NEW s, Alter(s)
        PROVE  MishapsInv'
    BY <1>1, <1>4, AuditAssumption DEF MishapsInv, Alter
  <1>5. CASE Tamper
    BY <1>4, <1>5 DEF Tamper, EditPayload, EditIndex, Relink, Reseal, Delete, Swap, Insert
  <1> QED
    BY <1>2, <1>3, <1>5 DEF Next, Decide, Close, Killed, Restart, Export, Flush

(* The types, for any bounds.                                              *)
THEOREM TrailTypesCorrect == Spec => []TypeOK
  <1>1. Init => PastInv /\ CopyInv /\ MishapsInv
    BY AuditAssumption DEF Init, PastInv, CopyInv, MishapsInv
  <1>2. TrailInv /\ PastInv /\ CopyInv /\ MishapsInv => TypeOK
    <2> SUFFICES ASSUME TrailInv, PastInv, CopyInv, MishapsInv
                 PROVE  TypeOK
      OBVIOUS
    <2>1. chain \in Seq(AuditRecord) /\ file \in Seq(Line) /\ faultless \in BOOLEAN
      BY DEF TrailInv, WellFormed, FileType
    <2>2. copy \in Seq(AuditRecord)
      BY SeqMonotonic DEF CopyInv, Genuine
    <2>3. auditSeen \in 0..Len(chain) /\ begun \in 0..Len(file) /\ forwarded \subseteq 1..Len(chain)
      BY DEF TrailInv
    <2>4. DOMAIN chain = 1..Len(chain)
      BY <2>1
    <2>5. faults \in 0..MaxMishaps /\ edits \in 0..MaxMishaps
      BY AuditAssumption DEF MishapsInv
    <2>6. running \in BOOLEAN /\ past \in Seq(Seq(AuditRecord))
      BY DEF MishapsInv, PastInv
    <2> QED
      BY <2>1, <2>2, <2>3, <2>4, <2>5, <2>6, Zenon DEF TypeOK
  <1>3. TrailInv /\ PastInv /\ [Next]_vars => PastInv'
    BY PastStep
  <1> QED
    BY <1>1, <1>2, <1>3, TrailInit, TrailStep, CopyStep, MishapsStep, PTL DEF Spec

-----------------------------------------------------------------------------
(* What a reader makes of the file.                                        *)

(* The lines since this session began are of its own decisions, whole or   *)
(* torn.                                                                   *)
OwnLines == \A i \in (begun + 1)..Len(file) : \E m \in 1..Len(chain) : file[i].record = chain[m]

LEMMA FlushKeepsOwn ==
    ASSUME TrailInv, OwnLines, NEW s, Extends(s), Flush(s) \/ FlushStops(s),
           chain' = s, begun' = begun
    PROVE  OwnLines'
  <1>1. /\ s \in Seq(AuditRecord) /\ Len(s) \in Nat /\ Len(chain) \in Nat /\ Len(file) \in Nat
        /\ auditSeen \in 0..Len(chain) /\ auditSeen \in 0..Len(s) /\ begun \in 0..Len(file)
        /\ Len(chain) <= Len(s)
    BY DEF TrailInv, Extends, WellFormed, FileType
  <1>2. /\ Len(file') \in Nat /\ Len(file) <= Len(file')
        /\ \A i \in 1..Len(file) : file'[i] = file[i]
        /\ \A i \in (Len(file) + 1)..Len(file') : \E m \in 1..Len(s) : file'[i].record = s[m]
    <2>1. CASE Flush(s)
      <3>1. /\ Len(file') = Len(file) + (Len(s) - auditSeen)
            /\ \A i \in 1..Len(file) : file'[i] = file[i]
            /\ \A i \in 1..(Len(s) - auditSeen) :
                    file'[Len(file) + i] = Whole(s[auditSeen + i])
        BY <1>1, <2>1, FlushEffect DEF TrailInv
      <3>2. ASSUME NEW i \in (Len(file) + 1)..Len(file')
            PROVE  \E m \in 1..Len(s) : file'[i].record = s[m]
        <4> DEFINE k == i - Len(file)
        <4>1. /\ k \in 1..(Len(s) - auditSeen) /\ Len(file) + k = i
              /\ auditSeen + k \in 1..Len(s)
          BY <1>1, <3>1
        <4>2. file'[i] = Whole(s[auditSeen + k])
          BY <3>1, <4>1
        <4> HIDE DEF k
        <4> QED
          BY <4>1, <4>2 DEF Whole
      <3>3. Len(file') \in Nat /\ Len(file) <= Len(file')
        BY <1>1, <3>1
      <3> QED
        BY <3>1, <3>2, <3>3
    <2>2. CASE FlushStops(s)
      <3>1. /\ FileType'
            /\ Len(file) <= Len(file')
            /\ \A i \in 1..Len(file) : file'[i] = file[i]
            /\ \A i \in (Len(file) + 1)..Len(file') : file'[i] \in LinesFrom(s)
        BY <1>1, <2>2, StopEffect DEF TrailInv
      <3>2. Len(file') \in Nat
        BY <3>1 DEF FileType
      <3> QED
        BY <3>1, <3>2 DEF LinesFrom
    <2> QED
      BY <2>1, <2>2
  <1>3. ASSUME NEW i \in (begun + 1)..Len(file')
        PROVE  \E m \in 1..Len(s) : file'[i].record = s[m]
    <2>1. CASE i <= Len(file)
      <3>1. i \in (begun + 1)..Len(file) /\ i \in 1..Len(file)
        BY <1>1, <1>2, <2>1
      <3>2. PICK m \in 1..Len(chain) : file[i].record = chain[m]
        BY <3>1 DEF OwnLines
      <3>3. m \in 1..Len(s) /\ s[m] = chain[m]
        BY <1>1 DEF Extends
      <3> QED
        BY <1>2, <3>1, <3>2, <3>3
    <2>2. CASE i > Len(file)
      <3>1. i \in (Len(file) + 1)..Len(file')
        BY <1>1, <1>2, <2>2
      <3> QED
        BY <1>2, <3>1
    <2> QED
      BY <1>1, <1>2, <2>1, <2>2
  <1> QED
    BY <1>3 DEF OwnLines

LEMMA OwnStep ==
    ASSUME TrailInv, OwnLines, [Next]_vars
    PROVE  OwnLines'
  <1>1. ASSUME NEW payload \in Payloads, Decide(payload)
        PROVE  OwnLines'
    <2> DEFINE s == AppendTo(chain, payload)
    <2>1. Extends(s) /\ chain' = s /\ begun' = begun
      BY <1>1, AppendExtends DEF Decide
    <2> HIDE DEF s
    <2>2. Flush(s) \/ FlushStops(s)
      BY <1>1, <2>1 DEF Decide
    <2> QED
      BY <2>1, <2>2, FlushKeepsOwn
  <1>2. CASE Close
    <2>1. Extends(chain) /\ chain' = chain /\ begun' = begun
      BY <1>2 DEF Close, TrailInv, Extends, WellFormed
    <2> QED
      BY <1>2, <2>1, FlushKeepsOwn DEF Close
  <1>3. CASE Killed
    <2>1. CASE UNCHANGED <<chain, auditSeen, file, faults, faultless>>
      BY <1>3, <2>1 DEF Killed, OwnLines
    <2>2. ASSUME NEW payload \in Payloads,
                 chain' = AppendTo(chain, payload), FlushStops(chain')
          PROVE  OwnLines'
      <3> DEFINE s == AppendTo(chain, payload)
      <3>1. Extends(s) /\ chain' = s /\ begun' = begun
        BY <1>3, <2>2, AppendExtends DEF Killed
      <3> HIDE DEF s
      <3> QED
        BY <2>2, <3>1, FlushKeepsOwn
    <2> QED
      BY <1>3, <2>1, <2>2 DEF Killed
  <1>4. CASE Restart
    <2>1. begun' = Len(file) /\ file' = file /\ Len(file) \in Nat
      BY <1>4 DEF Restart, TrailInv, FileType
    <2>2. (begun' + 1)..Len(file') = {}
      BY <2>1
    <2> QED
      BY <2>2 DEF OwnLines
  <1>5. CASE UNCHANGED proxyVars
    BY <1>5 DEF OwnLines
  <1> QED
    BY <1>1, <1>2, <1>3, <1>4, <1>5
    DEF Next, Export, Tamper, Alter, EditPayload, EditIndex, Relink, Reseal, Delete, Swap, Insert

(* Sequences of decisions of this session, none of them twice.             *)
Decisions == {chain[m] : m \in 1..Len(chain)}

Selections ==
    {s \in Seq(Decisions) : \A i, j \in 1..Len(s) : s[i] = s[j] => i = j}

LEMMA SelectionGrows ==
    ASSUME NEW s \in Selections, NEW r \in Decisions, r \notin ToSet(s)
    PROVE  Append(s, r) \in Selections
  <1>1. s \in Seq(Decisions) /\ Len(s) \in Nat
    BY DEF Selections
  <1>2. /\ Append(s, r) \in Seq(Decisions)
        /\ Len(Append(s, r)) = Len(s) + 1
        /\ \A i \in 1..Len(s) : Append(s, r)[i] = s[i]
        /\ Append(s, r)[Len(s) + 1] = r
    BY <1>1, AppendProperties
  <1>3. \A i \in 1..Len(s) : s[i] # r
    BY <1>1 DEF ToSet
  <1>4. \A i, j \in 1..Len(s) : s[i] = s[j] => i = j
    BY DEF Selections
  <1> DEFINE longer == Append(s, r)
  <1> HIDE DEF longer
  <1>5. ASSUME NEW i \in 1..(Len(s) + 1), NEW j \in 1..(Len(s) + 1), longer[i] = longer[j]
        PROVE  i = j
    <2>1. (i \in 1..Len(s) \/ i = Len(s) + 1) /\ (j \in 1..Len(s) \/ j = Len(s) + 1)
      BY <1>1
    <2> QED
      BY <1>2, <1>3, <1>4, <1>5, <2>1 DEF longer
  <1> QED
    BY <1>2, <1>5 DEF Selections, longer

(* What a reader has found after each line of this session.                *)
Found(before, k) ==
    IF Readable(begun + k) /\ file[begun + k].record \notin ToSet(before)
    THEN Append(before, file[begun + k].record) ELSE before

LEMMA ReadingUnfolds ==
    ASSUME TrailInv, OwnLines
    PROVE  \E g \in [0..(Len(file) - begun) -> Selections] :
                /\ g[0] = <<>>
                /\ \A k \in 1..(Len(file) - begun) : g[k] = Found(g[k - 1], k)
                /\ Reading = g[Len(file) - begun]
  <1> DEFINE N == Len(file) - begun
             read(before, k) == Found(before, k)
             total(f) == [k \in 0..N |-> IF k = 0 THEN <<>> ELSE read(f[k - 1], k)]
             step == [p \in Selections \X (1..N) |-> read(p[1], p[2])]
             found == CHOOSE f : f = total(f)
  <1>1. N \in Nat /\ begun \in Nat /\ Len(file) \in Nat
    BY DEF TrailInv, FileType
  <1>2. ASSUME NEW s \in Selections, NEW k \in 1..N
        PROVE  read(s, k) \in Selections
    <2>1. begun + k \in (begun + 1)..Len(file)
      BY <1>1
    <2>2. file[begun + k].record \in Decisions
      BY <2>1 DEF OwnLines, Decisions
    <2> QED
      BY <2>2, SelectionGrows DEF Found
  <1>3. <<>> \in Selections
    BY DEF Selections
  <1>4. Reading = found[N]
    BY DEF Reading, Found
  <1> HIDE DEF read, N
  <1>5. /\ step \in [Selections \X (1..N) -> Selections]
        /\ \A s \in Selections : \A k \in 1..N : step[<<s, k>>] = read(s, k)
    <2>1. \A p \in Selections \X (1..N) : read(p[1], p[2]) \in Selections
      BY <1>2
    <2> QED
      BY <2>1
  <1> HIDE DEF step
  <1>6. PICK g \in [0..N -> Selections] : Steps(g, N, <<>>, step)
    BY <1>1, <1>3, <1>5, IterationExists
  <1>7. g = total(g)
    <2>1. ASSUME NEW k \in 0..N PROVE g[k] = total(g)[k]
      <3>1. CASE k = 0
        BY <1>6, <3>1 DEF Steps
      <3>2. CASE k # 0
        <4>1. k \in 1..N /\ k - 1 \in 0..N
          BY <1>1, <3>2
        <4>2. g[k] = step[<<g[k - 1], k>>] /\ g[k - 1] \in Selections
          BY <1>6, <4>1 DEF Steps
        <4> QED
          BY <1>5, <3>2, <4>1, <4>2
      <3> QED
        BY <3>1, <3>2
    <2> QED
      BY <1>6, <2>1
  <1>8. found = total(found)
    BY <1>7
  <1> HIDE DEF found
  <1>9. \A k \in 0..N : found[k] = IF k = 0 THEN <<>> ELSE read(found[k - 1], k)
    BY <1>8
  <1>10. \A k \in 0..N : g[k] = IF k = 0 THEN <<>> ELSE read(g[k - 1], k)
    BY <1>7
  <1> DEFINE Differs == {k \in 0..N : found[k] # g[k]}
  <1>11. ASSUME NEW k \in Differs, \A m \in Differs : k <= m
         PROVE  FALSE
    <2>1. k \in 0..N /\ k # 0
      BY <1>9, <1>10
    <2>2. k - 1 \in 0..N /\ ~(k <= k - 1)
      BY <1>1, <2>1
    <2>3. found[k - 1] = g[k - 1]
      BY <1>11, <2>2
    <2> QED
      BY <1>9, <1>10, <2>1, <2>3
  <1>12. Differs \subseteq Nat
    BY <1>1
  <1> HIDE DEF Differs
  <1>13. Differs = {}
    BY <1>11, <1>12, LeastElement
  <1>14. N \in 0..N /\ found[N] = g[N]
    BY <1>1, <1>13 DEF Differs
  <1>15. g[0] = <<>> /\ \A k \in 1..N : g[k] = Found(g[k - 1], k)
    <2>1. 0 \in 0..N /\ \A k \in 1..N : k \in 0..N /\ k # 0
      BY <1>1
    <2> QED
      BY <1>10, <2>1 DEF read
  <1>16. Reading = g[N]
    BY <1>4, <1>14
  <1> QED
    BY <1>15, <1>16 DEF N

(* A reader finds decisions of this session, each once.                    *)
LEMMA ReadingIsSelection ==
    ASSUME TrailInv, OwnLines
    PROVE  Reading \in Selections
  <1>1. Len(file) - begun \in 0..(Len(file) - begun)
    BY DEF TrailInv, FileType
  <1> QED
    BY <1>1, ReadingUnfolds

(* The beginning of a chain verifies.                                      *)
LEMMA PrefixVerifies ==
    ASSUME NEW c, WellFormed(c), NEW n \in 0..Len(c)
    PROVE  Verify(SubSeq(c, 1, n))
  <1> DEFINE s == SubSeq(c, 1, n)
  <1>1. c \in Seq(AuditRecord) /\ Len(c) \in Nat
    BY DEF WellFormed
  <1>2. s \in Seq(AuditRecord) /\ DOMAIN s = 1..n /\ \A i \in 1..n : s[i] = c[i] /\ i \in 1..Len(c)
    BY <1>1
  <1> HIDE DEF s
  <1>3. ASSUME NEW i \in 1..n
        PROVE  /\ s[i].index = i - 1
               /\ s[i].previous = IF i = 1 THEN Genesis ELSE s[i - 1].digest
               /\ Recompute(s[i]) = s[i].digest
    <2>1. i # 1 => i - 1 \in 1..n
      BY <1>1
    <2>2. i # 1 => s[i - 1] = c[i - 1]
      BY <1>2, <2>1
    <2> QED
      BY <1>2, <2>2 DEF WellFormed, Recompute, Digest
  <1> QED
    BY <1>2, <1>3 DEF Verify, s

(* However writes failed, a reader who drops the repetitions finds out     *)
(* from the file alone whether the beginning of the session is all there.  *)
THEOREM LossCorrect == Spec => []LossIsVisible
  <1>1. Init => OwnLines
    BY DEF Init, OwnLines
  <1>2. TrailInv /\ OwnLines => LossIsVisible
    <2> SUFFICES ASSUME TrailInv, OwnLines
                 PROVE  Verify(Reading) <=> Reading = SubSeq(chain, 1, Len(Reading))
      BY DEF LossIsVisible
    <2> DEFINE s == Reading
    <2>1. s \in Selections
      BY ReadingIsSelection
    <2> HIDE DEF s
    <2>2. WellFormed(chain) /\ chain \in Seq(AuditRecord) /\ Len(chain) \in Nat
      BY DEF TrailInv, WellFormed
    <2>3. Decisions \subseteq AuditRecord
      BY <2>2 DEF Decisions
    <2>4. s \in Seq(Decisions) /\ s \in Seq(AuditRecord) /\ Len(s) \in Nat
      BY <2>1, <2>3, SeqMonotonic DEF Selections
    <2>5. \A i \in 1..Len(s) : \E m \in 1..Len(chain) : s[i] = chain[m]
      BY <2>4, ElementOfSeq DEF Decisions
    <2>6. ASSUME Verify(s)
          PROVE  s = SubSeq(chain, 1, Len(s))
      <3>1. CASE s = <<>>
        BY <2>2, <3>1, SubSeqEmpty
      <3>2. CASE s # <<>>
        <4>1. Len(s) \in 1..Len(s)
          BY <2>4, <3>2
        <4>2. PICK m \in 1..Len(chain) : s[Len(s)] = chain[m]
          BY <2>5, <4>1
        <4>3. IsPrefix(s, chain)
          BY <2>2, <2>4, <2>6, <3>2, <4>2, VerifiedIsPrefix
        <4>4. SubSeq(s, 1, Len(s)) = SubSeq(chain, 1, Len(s))
          BY <4>3 DEF IsPrefix
        <4>5. SubSeq(s, 1, Len(s)) = s
          BY <2>4
        <4> QED
          BY <4>4, <4>5
      <3> QED
        BY <3>1, <3>2
    <2>7. ASSUME s = SubSeq(chain, 1, Len(s))
          PROVE  Verify(s)
      <3>1. \A i \in 1..Len(s) : s[i] = chain[i]
        BY <2>4, <2>7
      <3>2. ASSUME Len(s) > Len(chain) PROVE FALSE
        <4> DEFINE i == Len(chain) + 1
        <4>1. i \in 1..Len(s)
          BY <2>2, <2>4, <3>2
        <4>2. PICK m \in 1..Len(chain) : s[i] = chain[m]
          BY <2>5, <4>1
        <4>3. m \in 1..Len(s) /\ m # i
          BY <2>2, <2>4, <3>2
        <4>4. s[m] = s[i]
          BY <3>1, <4>2, <4>3
        <4> HIDE DEF i
        <4> QED
          BY <2>1, <4>1, <4>3, <4>4 DEF Selections
      <3>3. Len(s) \in 0..Len(chain)
        BY <2>2, <2>4, <3>2
      <3> QED
        BY <2>2, <2>7, <3>3, PrefixVerifies
    <2> QED
      BY <2>6, <2>7 DEF s
  <1>3. TrailInv /\ OwnLines /\ [Next]_vars => OwnLines'
    BY OwnStep
  <1> QED
    BY <1>1, <1>2, <1>3, TrailInit, TrailStep, PTL DEF Spec

-----------------------------------------------------------------------------
(* A session none of whose writes failed.                                  *)

(* Its lines are whole, and all but perhaps the first can be read.         *)
LEMMA FaultlessLines ==
    ASSUME TrailInv, faultless, NEW k \in 1..Len(chain)
    PROVE  /\ file[begun + k].record = chain[k]
           /\ Readable(begun + k) <=> ~(k = 1 /\ BegunOnTornLine)
  <1>1. /\ Len(chain) \in Nat /\ begun \in Nat /\ Len(file) = begun + Len(chain)
        /\ \A i \in 1..Len(chain) : file[begun + i] = Whole(chain[i])
    BY DEF TrailInv, FileType, WellFormed
  <1>2. file[begun + k] = Whole(chain[k])
    BY <1>1
  <1>0. file[begun + k].record = chain[k] /\ ~file[begun + k].torn
    BY <1>2 DEF Whole
  <1>3. CASE k = 1
    <2>1. begun + k > 1 <=> begun > 0
      BY <1>1, <1>3
    <2>2. file[begun + k - 1] = file[begun]
      BY <1>1, <1>3
    <2>3. Readable(begun + k) <=> (begun > 0 => ~file[begun].torn)
      BY <1>1, <1>0, <2>1, <2>2 DEF Readable
    <2> QED
      BY <1>0, <1>3, <2>3 DEF BegunOnTornLine
  <1>4. CASE k # 1
    <2>1. k - 1 \in 1..Len(chain) /\ begun + k - 1 = begun + (k - 1)
      BY <1>1, <1>4
    <2>2. file[begun + k - 1] = Whole(chain[k - 1])
      BY <1>1, <2>1
    <2>3. ~file[begun + k - 1].torn
      BY <2>2 DEF Whole
    <2>4. Readable(begun + k)
      BY <1>1, <1>0, <2>3 DEF Readable
    <2> QED
      BY <1>0, <1>4, <2>4
  <1> QED
    BY <1>3, <1>4

(* No decision is in a chain twice.                                        *)
LEMMA RecordsDiffer ==
    ASSUME NEW c, WellFormed(c), NEW i \in 1..Len(c), NEW j \in 1..Len(c), c[i] = c[j]
    PROVE  i = j
  <1>1. c[i].index = i - 1 /\ c[j].index = j - 1
    BY DEF WellFormed
  <1> QED
    BY <1>1

(* What a reader has found after k lines is a piece of the chain.          *)
LEMMA ReadingOfFaultless ==
    ASSUME TrailInv, OwnLines, faultless
    PROVE  Reading = SubSeq(chain, IF BegunOnTornLine THEN 2 ELSE 1, Len(chain))
  <1> DEFINE N == Len(chain)
             first == IF BegunOnTornLine THEN 2 ELSE 1
             piece(k) == SubSeq(chain, first, k)
  <1>1. /\ N \in Nat /\ Len(file) - begun = N /\ WellFormed(chain)
        /\ chain \in Seq(AuditRecord) /\ first \in {1, 2}
    BY DEF TrailInv, FileType, WellFormed
  <1>2. PICK g \in [0..N -> Selections] :
            /\ g[0] = <<>>
            /\ \A k \in 1..N : g[k] = Found(g[k - 1], k)
            /\ Reading = g[N]
    BY <1>1, ReadingUnfolds
  <1>3. \A k \in 1..N : /\ file[begun + k].record = chain[k]
                        /\ Readable(begun + k) <=> ~(k = 1 /\ first = 2)
    BY FaultlessLines
  <1> HIDE DEF first
  <1>4. ASSUME NEW k \in 0..N, k < first
        PROVE  piece(k) = <<>>
    BY <1>1, <1>4, SubSeqEmpty
  <1>5. ASSUME NEW k \in 1..N, g[k - 1] = piece(k - 1)
        PROVE  g[k] = piece(k)
    <2>1. g[k] = Found(g[k - 1], k)
      BY <1>2
    <2>2. CASE k < first
      <3>1. k = 1 /\ first = 2 /\ k - 1 \in 0..N /\ k - 1 < first
        BY <1>1, <2>2
      <3>2. ~Readable(begun + k)
        BY <1>3, <3>1
      <3>3. piece(k - 1) = <<>> /\ piece(k) = <<>>
        BY <1>4, <2>2, <3>1
      <3> QED
        BY <1>5, <2>1, <3>2, <3>3 DEF Found
    <2>3. CASE ~(k < first)
      <3>1. Readable(begun + k) /\ file[begun + k].record = chain[k]
        BY <1>1, <1>3, <2>3
      <3>2. /\ Len(piece(k - 1)) = k - first /\ piece(k - 1) \in Seq(AuditRecord)
            /\ \A i \in 1..(k - first) : piece(k - 1)[i] = chain[first - 1 + i]
        BY <1>1, <2>3
      <3>3. chain[k] \notin ToSet(piece(k - 1))
        <4>1. ASSUME NEW i \in 1..(k - first), chain[first - 1 + i] = chain[k]
              PROVE  FALSE
          <5>1. first - 1 + i \in 1..N /\ first - 1 + i # k
            BY <1>1, <2>3
          <5> QED
            BY <1>1, <4>1, <5>1, RecordsDiffer
        <4>2. DOMAIN piece(k - 1) = 1..(k - first)
          BY <3>2
        <4> HIDE DEF piece
        <4> QED
          BY <3>2, <4>1, <4>2 DEF ToSet
      <3>4. piece(k) = Append(piece(k - 1), chain[k])
        <4> DEFINE longer == Append(piece(k - 1), chain[k])
        <4>1. chain[k] \in AuditRecord
          BY <1>1
        <4>2. /\ longer \in Seq(AuditRecord) /\ Len(longer) = k - first + 1
              /\ \A i \in 1..(k - first) : longer[i] = piece(k - 1)[i]
              /\ longer[k - first + 1] = chain[k]
          <5> HIDE DEF piece
          <5> QED
            BY <1>1, <2>3, <3>2, <4>1, AppendProperties
        <4>3. /\ Len(piece(k)) = k - first + 1 /\ piece(k) \in Seq(AuditRecord)
              /\ \A i \in 1..(k - first + 1) : piece(k)[i] = chain[first - 1 + i]
          BY <1>1, <2>3
        <4> HIDE DEF piece, longer
        <4>4. ASSUME NEW i \in 1..(k - first + 1)
              PROVE  piece(k)[i] = longer[i]
          <5>1. i \in 1..(k - first) \/ (i = k - first + 1 /\ first - 1 + i = k)
            BY <1>1, <2>3
          <5>2. piece(k)[i] = chain[first - 1 + i]
            BY <4>3
          <5> QED
            BY <3>2, <4>2, <5>1, <5>2
        <4>5. piece(k) = longer
          BY <4>2, <4>3, <4>4, SeqEqual
        <4> QED
          BY <4>5 DEF longer
      <3> QED
        BY <1>5, <2>1, <3>1, <3>3, <3>4 DEF Found
    <2> QED
      BY <2>2, <2>3
  <1> DEFINE Differs == {k \in 0..N : g[k] # piece(k)}
  <1>6. ASSUME NEW k \in Differs, \A m \in Differs : k <= m
        PROVE  FALSE
    <2>1. k \in 0..N /\ g[k] # piece(k)
      OBVIOUS
    <2>2. 0 \in 0..N /\ 0 < first
      BY <1>1
    <2>3. k # 0
      BY <1>2, <1>4, <2>1, <2>2
    <2>4. k \in 1..N /\ k - 1 \in 0..N /\ ~(k <= k - 1)
      BY <1>1, <2>1, <2>3
    <2>5. g[k - 1] = piece(k - 1)
      BY <1>6, <2>4
    <2> QED
      BY <1>5, <2>1, <2>4, <2>5
  <1>7. Differs \subseteq Nat
    BY <1>1
  <1> HIDE DEF Differs
  <1>8. Differs = {}
    BY <1>6, <1>7, LeastElement
  <1>9. g[N] = piece(N)
    BY <1>1, <1>8 DEF Differs
  <1> QED
    BY <1>2, <1>9 DEF first

(* A session without a failed write of its own writes its decisions once   *)
(* and in order; a reader finds them all, and they verify, unless an       *)
(* earlier session was cut off inside a line, which takes the first        *)
(* decision of this one with it and leaves nothing behind it to verify     *)
(* (_flush_audit).                                                         *)
THEOREM FaultlessCorrect == Spec => []FaultlessSessionsAreExact
  <1>1. ASSUME TrailInv, OwnLines
        PROVE  FaultlessSessionsAreExact
    <2> SUFFICES ASSUME faultless
                 PROVE  /\ SubSeq(file, begun + 1, Len(file)) = Lines(chain)
                        /\ Reading = SubSeq(chain, IF BegunOnTornLine THEN 2 ELSE 1, Len(chain))
                        /\ Verify(Reading) <=> ~BegunOnTornLine \/ Len(chain) <= 1
      BY DEF FaultlessSessionsAreExact
    <2>1. /\ WellFormed(chain) /\ FileType /\ begun \in 0..Len(file)
          /\ Len(file) = begun + Len(chain)
          /\ \A i \in 1..Len(chain) : file[begun + i] = Whole(chain[i])
      BY <1>1 DEF TrailInv
    <2>2. chain \in Seq(AuditRecord) /\ file \in Seq(Line) /\ begun \in Nat /\ Len(chain) \in Nat
      BY <2>1 DEF WellFormed, FileType
    <2>3. SubSeq(file, begun + 1, Len(file)) = Lines(chain)
      <3> DEFINE part == SubSeq(file, begun + 1, Len(file))
                 lines == Lines(chain)
      <3>1. /\ part \in Seq(Line)
            /\ Len(part) = Len(chain)
            /\ \A i \in 1..Len(chain) : part[i] = file[begun + i]
        BY <2>1, <2>2
      <3>2. /\ lines \in Seq(Line) /\ Len(lines) = Len(chain)
            /\ \A i \in 1..Len(chain) : lines[i] = Whole(chain[i])
        BY <2>2, LinesOf
      <3> HIDE DEF part, lines
      <3>3. part = lines
        BY <2>1, <3>1, <3>2, SeqEqual
      <3> QED
        BY <3>3 DEF part, lines
    <2>4. Reading = SubSeq(chain, IF BegunOnTornLine THEN 2 ELSE 1, Len(chain))
      BY <1>1, ReadingOfFaultless
    <2>5. CASE ~BegunOnTornLine
      <3>1. SubSeq(chain, 1, Len(chain)) = chain
        BY <2>2
      <3>2. Verify(chain)
        BY <2>1, WellFormedVerifies
      <3> QED
        BY <2>3, <2>4, <2>5, <3>1, <3>2
    <2>6. CASE BegunOnTornLine /\ Len(chain) <= 1
      <3>1. SubSeq(chain, 2, Len(chain)) = <<>>
        BY <2>2, <2>6, SubSeqEmpty
      <3>2. Verify(<<>>)
        BY DEF Verify
      <3> QED
        BY <2>3, <2>4, <2>6, <3>1, <3>2
    <2>7. CASE BegunOnTornLine /\ ~(Len(chain) <= 1)
      <3> DEFINE rest == SubSeq(chain, 2, Len(chain))
      <3>1. 1 \in DOMAIN rest /\ rest[1] = chain[2] /\ 2 \in 1..Len(chain)
        BY <2>2, <2>7
      <3>2. chain[2].index = 1
        BY <2>1, <3>1 DEF WellFormed
      <3> HIDE DEF rest
      <3>3. ~Verify(rest)
        BY <3>1, <3>2 DEF Verify
      <3> QED
        BY <2>3, <2>4, <2>7, <3>3 DEF rest
    <2> QED
      BY <2>5, <2>6, <2>7
  <1>2. Init => OwnLines
    BY DEF Init, OwnLines
  <1>3. TrailInv /\ OwnLines /\ [Next]_vars => OwnLines'
    BY OwnStep
  <1> QED
    BY <1>1, <1>2, <1>3, TrailInit, TrailStep, PTL DEF Spec
=============================================================================
