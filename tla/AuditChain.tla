----------------------------- MODULE AuditChain -----------------------------
(***************************************************************************)
(* The hash chain of audit.py.  SHA-256 is taken as ideal: a digest stands *)
(* for what was hashed, so a chain's digest is the sequence of payloads    *)
(* that led to it, and two are equal only if those are.  canonical_bytes   *)
(* is one-to-one on payloads and so is left out.                           *)
(***************************************************************************)
EXTENDS Naturals, Sequences

CONSTANT Payloads   (* what a record may say *)

Genesis == <<>>

Digest(previous, payload) == Append(previous, payload)

AuditRecord == [index : Nat, previous : Seq(Payloads), digest : Seq(Payloads), payload : Payloads]

HeadOf(chain) == IF chain = <<>> THEN Genesis ELSE chain[Len(chain)].digest

AppendTo(chain, payload) ==
    Append(chain, [index |-> Len(chain), previous |-> HeadOf(chain),
                   digest |-> Digest(HeadOf(chain), payload), payload |-> payload])

Recompute(record) == Digest(record.previous, record.payload)

(* A slip: that a record follows from the one before it is not looked at.  *)
VerifyEach(records) ==
    \A i \in DOMAIN records :
        /\ records[i].index = i - 1
        /\ Recompute(records[i]) = records[i].digest

(* A slip: the chain may begin anywhere.                                   *)
VerifyRest(records) ==
    \A i \in DOMAIN records :
        /\ i > 1 => records[i].index = records[i - 1].index + 1
        /\ i > 1 => records[i].previous = records[i - 1].digest
        /\ Recompute(records[i]) = records[i].digest

Verify(records) ==
    \A i \in DOMAIN records :
        /\ records[i].index = i - 1
        /\ records[i].previous = IF i = 1 THEN Genesis ELSE records[i - 1].digest
        /\ Recompute(records[i]) = records[i].digest
=============================================================================
