--------------------------- MODULE AuditProperties ---------------------------
(* What can be learnt from the audit file, and from records somebody kept. *)
EXTENDS AuditTrail

(* Every variable keeps the type the program gives it; what is counted as
   written never exceeds what there is. *)
TypeOK ==
    /\ running \in BOOLEAN
    /\ chain \in Seq(AuditRecord)
    /\ auditSeen \in 0..Len(chain)
    /\ file \in Seq(Line)
    /\ past \in Seq(Seq(AuditRecord))
    /\ begun \in 0..Len(file)
    /\ forwarded \subseteq DOMAIN chain
    /\ faults \in 0..MaxMishaps
    /\ faultless \in BOOLEAN
    /\ copy \in Seq(AuditRecord)
    /\ edits \in 0..MaxMishaps

-----------------------------------------------------------------------------
Written(record) == Whole(record) \in ToSet(file)

(* A call is sent to the server only after its record is in the file, and
   what _audit_seen counts is in the file, whatever failed in between: an
   effect without a record cannot be (proxy.py:228-236, 415-426).  In the
   file means its bytes are: behind a torn line no reader may find it. *)
NothingIsDoneOffTheRecord ==
    \A i \in DOMAIN chain : (i \in forwarded \/ i <= auditSeen) => Written(chain[i])

(* A line written right after a torn one is glued to it and read by nobody. *)
Readable(i) == ~file[i].torn /\ (i > 1 => ~file[i - 1].torn)

(* The session's records as a reader finds them: the lines that can be read,
   those that repeat an earlier one dropped. *)
Reading ==
    LET found[k \in 0..(Len(file) - begun)] ==
            IF k = 0 THEN <<>>
            ELSE LET before == found[k - 1]
                     record == file[begun + k].record
                 IN  IF Readable(begun + k) /\ record \notin ToSet(before)
                     THEN Append(before, record) ELSE before
    IN  found[Len(file) - begun]

(* An earlier session was cut off inside a line: the file is opened to be
   appended to (proxy.py:423), so this session's first record goes on it. *)
BegunOnTornLine == begun > 0 /\ file[begun].torn

(* A session none of whose own writes stopped writes its decisions, each
   once and in order, wherever the sessions before it left the file.  A
   reader finds all of them, unless one of those sessions left a torn line:
   then the first is lost with it, and nothing that follows verifies. *)
FaultlessSessionsAreExact ==
    faultless =>
        /\ SubSeq(file, begun + 1, Len(file)) = Lines(chain)
        /\ Reading = SubSeq(chain, IF BegunOnTornLine THEN 2 ELSE 1, Len(chain))
        /\ Verify(Reading) <=> ~BegunOnTornLine \/ Len(chain) <= 1

(* A failed write makes later lines repeat records and may make one
   unreadable, but it cannot forge the past: what is read verifies exactly
   when it is the beginning of what was decided, nothing left out.  A
   decision that is lost is seen to be lost, unless nothing follows it. *)
LossIsVisible ==
    Verify(Reading) <=> Reading = SubSeq(chain, 1, Len(Reading))

(* Whoever edits, reorders, deletes, inserts or splices exported records of
   any sessions, without making digests of his own, is left with something
   verify refuses, or with the beginning of what one session decided.
   (audit.py:3: "Any edit, reorder or deletion breaks verification"; the
   last records of a session can be deleted.) *)
AlterationIsDetected ==
    Verify(copy) => \E c \in Sessions : IsPrefix(copy, c)
=============================================================================
