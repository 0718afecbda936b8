----------------------------- MODULE AuditTrail -----------------------------
(***************************************************************************)
(* The audit file (proxy.py, _flush_audit and close): every decision is    *)
(* appended to the session's chain and, in the same critical section, what *)
(* the file lacks is written to it.  A write may stop anywhere: the disk   *)
(* is full, a signal arrives, the process is killed.  Each start of the    *)
(* proxy begins a chain of its own and appends to the same file.           *)
(*                                                                         *)
(* Beside it, somebody with the exported records of a session alters them, *)
(* with no digest but those that were once made.                           *)
(***************************************************************************)
EXTENDS AuditChain, SequencesExt

CONSTANTS
    Allowed,        (* the payloads that record a permission               *)
    MaxRecords,     (* bound: decisions in a session                       *)
    MaxSessions,    (* bound: starts of the proxy                          *)
    MaxMishaps      (* bound: writes that stop half way, and alterations   *)
                    (* of exported records, together                       *)

ASSUME AuditAssumption ==
    /\ Allowed \subseteq Payloads
    /\ MaxRecords \in Nat
    /\ MaxSessions \in Nat
    /\ MaxMishaps \in Nat

VARIABLES
    running,        (* the proxy is up                                     *)
    chain,          (* session.audit                                       *)
    auditSeen,      (* _audit_seen: how much of it was written             *)
    file,           (* the lines of the audit file, torn ones among them   *)
    past,           (* history: the chains of earlier sessions             *)
    begun,          (* history: the lines there were when this one started *)
    forwarded,      (* history: the calls of this session sent on          *)
    faults,         (* history: writes that stopped, over all sessions     *)
    faultless,      (* history: none of them in this session               *)
    copy,           (* exported records in somebody's hands                *)
    edits           (* how often they were altered                         *)

proxyVars == <<running, chain, auditSeen, file, past, begun, forwarded, faults, faultless>>
copyVars == <<copy, edits>>
vars == <<proxyVars, copyVars>>

(* A line is a whole record, or the beginning of one without its end.      *)
Line == [torn : BOOLEAN, record : AuditRecord]
Whole(record) == [torn |-> FALSE, record |-> record]
Torn(record) == [torn |-> TRUE, record |-> record]
Lines(records) == [i \in DOMAIN records |-> Whole(records[i])]

Init ==
    /\ running = TRUE
    /\ chain = <<>>
    /\ auditSeen = 0
    /\ file = <<>>
    /\ past = <<>>
    /\ begun = 0
    /\ forwarded = {}
    /\ faults = 0
    /\ faultless = TRUE
    /\ copy = <<>>
    /\ edits = 0

-----------------------------------------------------------------------------
(* What the file lacks of a chain.                                         *)
Unwritten(records) == SubSeq(records, auditSeen + 1, Len(records))

(* A slip: what was written is counted from the start each time.           *)
FlushAllCounted(records) ==
    /\ file' = file \o Lines(Unwritten(records))
    /\ auditSeen' = auditSeen + Len(records)
    /\ UNCHANGED <<faults, faultless>>

Flush(records) ==
    /\ file' = file \o Lines(Unwritten(records))
    /\ auditSeen' = auditSeen + Len(Unwritten(records))
    /\ UNCHANGED <<faults, faultless>>

(* The write stops after n records, perhaps inside the next; _audit_seen   *)
(* is only moved after the last one.                                       *)
FlushStops(records) ==
    /\ faults + edits < MaxMishaps
    /\ \E n \in 0..Len(Unwritten(records)) : \E torn \in BOOLEAN :
        /\ torn => n < Len(Unwritten(records))
        /\ file' = file \o Lines(SubSeq(Unwritten(records), 1, n))
                        \o (IF torn THEN <<Torn(Unwritten(records)[n + 1])>> ELSE <<>>)
    /\ faults' = faults + 1
    /\ faultless' = FALSE
    /\ UNCHANGED auditSeen

(* A slip: the call is sent on although its record could not be written.   *)
DecideRegardless(payload) ==
    /\ running
    /\ Len(chain) < MaxRecords
    /\ chain' = AppendTo(chain, payload)
    /\ \/ Flush(chain')
       \/ FlushStops(chain')
    /\ forwarded' = IF payload \in Allowed THEN forwarded \cup {Len(chain')} ELSE forwarded
    /\ UNCHANGED <<running, past, begun, copyVars>>

(* handle_outbound: the exception of a flush that stops is not caught, so  *)
(* the call is not sent on.                                                *)
Decide(payload) ==
    /\ running
    /\ Len(chain) < MaxRecords
    /\ chain' = AppendTo(chain, payload)
    /\ \/ /\ Flush(chain')
          /\ forwarded' = IF payload \in Allowed THEN forwarded \cup {Len(chain')} ELSE forwarded
       \/ /\ FlushStops(chain')
          /\ UNCHANGED forwarded
    /\ UNCHANGED <<running, past, begun, copyVars>>

(* The last flush of a proxy that ends.                                    *)
Close ==
    /\ running
    /\ running' = FALSE
    /\ Flush(chain) \/ FlushStops(chain)
    /\ UNCHANGED <<chain, past, begun, forwarded, copyVars>>

(* The process is killed, between two decisions or during a flush.         *)
Killed ==
    /\ running
    /\ running' = FALSE
    /\ \/ UNCHANGED <<chain, auditSeen, file, faults, faultless>>
       \/ \E payload \in Payloads :
            /\ Len(chain) < MaxRecords
            /\ chain' = AppendTo(chain, payload)
            /\ FlushStops(chain')
    /\ UNCHANGED <<past, begun, forwarded, copyVars>>

(* A slip: a new session goes on counting where the last one stopped.      *)
RestartCounting ==
    /\ ~running
    /\ Len(past) + 1 < MaxSessions
    /\ running' = TRUE
    /\ past' = Append(past, chain)
    /\ chain' = <<>>
    /\ begun' = Len(file)
    /\ forwarded' = {}
    /\ faultless' = TRUE
    /\ UNCHANGED <<file, auditSeen, faults, copyVars>>

Restart ==
    /\ ~running
    /\ Len(past) + 1 < MaxSessions
    /\ running' = TRUE
    /\ past' = Append(past, chain)
    /\ chain' = <<>>
    /\ auditSeen' = 0
    /\ begun' = Len(file)
    /\ forwarded' = {}
    /\ faultless' = TRUE
    /\ UNCHANGED <<file, faults, copyVars>>

-----------------------------------------------------------------------------
Sessions == {chain} \cup ToSet(past)
Records == UNION { ToSet(c) : c \in Sessions }

Alter(records) ==
    /\ faults + edits < MaxMishaps
    /\ edits' = edits + 1
    /\ copy' = records
    /\ UNCHANGED proxyVars

(* The records of a session that ended, as to_dict gives them.             *)
Export ==
    /\ ~running
    /\ copy = <<>>
    /\ \E c \in Sessions : copy' = c
    /\ UNCHANGED <<proxyVars, edits>>

EditPayload ==
    \E i \in DOMAIN copy, payload \in Payloads : Alter([copy EXCEPT ![i].payload = payload])

EditIndex ==
    \E i \in DOMAIN copy, n \in 0..MaxRecords : Alter([copy EXCEPT ![i].index = n])

Relink ==
    \E i \in DOMAIN copy, r \in Records : Alter([copy EXCEPT ![i].previous = r.previous])

Reseal ==
    \E i \in DOMAIN copy, r \in Records : Alter([copy EXCEPT ![i].digest = r.digest])

Delete ==
    \E i \in DOMAIN copy : Alter(RemoveAt(copy, i))

Swap ==
    \E i, j \in DOMAIN copy : i < j /\ Alter([copy EXCEPT ![i] = copy[j], ![j] = copy[i]])

Insert ==
    \E i \in 1..(Len(copy) + 1), r \in Records :
        Len(copy) < MaxRecords /\ Alter(InsertAt(copy, i, r))

Tamper == EditPayload \/ EditIndex \/ Relink \/ Reseal \/ Delete \/ Swap \/ Insert

-----------------------------------------------------------------------------
Next ==
    \/ \E payload \in Payloads : Decide(payload)
    \/ Close
    \/ Killed
    \/ Restart
    \/ Export
    \/ Tamper

Spec == Init /\ [][Next]_vars
=============================================================================
