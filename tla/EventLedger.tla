----------------------------- MODULE EventLedger -----------------------------
(***************************************************************************)
(* The event ledger of one retrieval (crates/evidentrail-core/ledger.rs):  *)
(* the builder that takes an adapter's envelopes one by one, and the seal  *)
(* that accepts the adapter's own account of what it acquired only if the  *)
(* builder counted the same.                                               *)
(*                                                                         *)
(* A record is a sequence of bytes.  An envelope carries its sequence      *)
(* number in the retrieval and in its lane, its bytes, its cursor and      *)
(* whether the record is complete or a fragment.  The digests that name    *)
(* records and events are modelled by what they digest, so they never      *)
(* collide.                                                                *)
(***************************************************************************)
EXTENDS Naturals, Sequences

CONSTANTS
    Newline, Return,    \* the two bytes a terminator is made of
    Marked              \* the byte a policy omits or replaces a record for

Complete == "complete"

(* The terminator of a record's bytes: "\r\n", "\n" or nothing. *)
EndsWith(bytes, tail) ==
    /\ Len(bytes) >= Len(tail)
    /\ SubSeq(bytes, Len(bytes) - Len(tail) + 1, Len(bytes)) = tail

TerminatorLength(bytes) ==
    IF EndsWith(bytes, <<Return, Newline>>) THEN 2
    ELSE IF EndsWith(bytes, <<Newline>>) THEN 1 ELSE 0

PayloadLength(bytes) == Len(bytes) - TerminatorLength(bytes)

(* The source-record identity digests the envelope's position, never its bytes. *)
SourceRecordId(envelope) ==
    <<envelope.sequence, envelope.laneSequence, envelope.cursor, envelope.state>>

(* A deterministic policy keeps a record exactly, keeps its terminator only, *)
(* or omits it.                                                              *)
Policies == {"source_exact", "post_policy", "omitted"}

Authorize(policy, bytes) ==
    IF \E i \in DOMAIN bytes : bytes[i] = Marked THEN policy ELSE "source_exact"

AuthorizedBytes(basis, bytes) ==
    CASE basis = "source_exact" -> bytes
      [] basis = "post_policy" -> SubSeq(bytes, PayloadLength(bytes) + 1, Len(bytes))
      [] basis = "omitted" -> << >>

NewBuilder ==
    [nextSequence |-> 0, nextLaneSequence |-> 0, entries |-> << >>,
     records |-> 0, payload |-> 0, source |-> 0, sawFragment |-> FALSE]

(* What accept refuses: a sequence number out of turn, a record already taken. *)
Accepts(b, envelope) ==
    /\ envelope.sequence = b.nextSequence
    /\ envelope.laneSequence = b.nextLaneSequence
    /\ \A i \in DOMAIN b.entries : b.entries[i].id # SourceRecordId(envelope)

\* Mutant: the bytes kept are counted instead of the bytes taken.
AcceptedCountsKept(b, envelope, policy) ==
    LET basis == Authorize(policy, envelope.bytes) IN
    [b EXCEPT
        !.nextSequence = envelope.sequence + 1,
        !.nextLaneSequence = envelope.laneSequence + 1,
        !.entries = Append(@, [id |-> SourceRecordId(envelope), cursor |-> envelope.cursor,
                               state |-> envelope.state, basis |-> basis,
                               bytes |-> AuthorizedBytes(basis, envelope.bytes)]),
        !.records = @ + 1,
        !.payload = @ + PayloadLength(envelope.bytes),
        !.source = @ + Len(AuthorizedBytes(basis, envelope.bytes)),
        !.sawFragment = @ \/ envelope.state # Complete]

(* What accept records: the assignment of the record and, unless the policy *)
(* omits it, its event.                                                     *)
Accepted(b, envelope, policy) ==
    LET basis == Authorize(policy, envelope.bytes) IN
    [b EXCEPT
        !.nextSequence = envelope.sequence + 1,
        !.nextLaneSequence = envelope.laneSequence + 1,
        !.entries = Append(@, [id |-> SourceRecordId(envelope), cursor |-> envelope.cursor,
                               state |-> envelope.state, basis |-> basis,
                               bytes |-> AuthorizedBytes(basis, envelope.bytes)]),
        !.records = @ + 1,
        !.payload = @ + PayloadLength(envelope.bytes),
        !.source = @ + Len(envelope.bytes),
        !.sawFragment = @ \/ envelope.state # Complete]

(* The receipt joins every expected record with exactly one outcome. *)
Reconciles(b) ==
    \A i, j \in DOMAIN b.entries : b.entries[i].id = b.entries[j].id => i = j

(* seal: the completion's counts must be the builder's. *)
Seals(b, completion) ==
    /\ completion.records = b.records
    /\ completion.payload = b.payload
    /\ completion.source = b.source
    /\ ~(completion.complete /\ b.sawFragment)
    /\ Reconciles(b)

=============================================================================
