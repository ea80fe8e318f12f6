--------------------------- MODULE LocalAcquisition ---------------------------
(***************************************************************************)
(* The acquisition of one local file (crates/evidentrail-local-file):      *)
(* preflight opens the planned path twice and keeps the first descriptor,  *)
(* execution streams the planned snapshot byte by byte into the event      *)
(* ledger, checks the descriptor again and writes a completion, and the    *)
(* caller seals the ledger with it.                                        *)
(*                                                                         *)
(* Meanwhile another process may write the file or put another one under   *)
(* its path, the caller may cancel, and the deadline may pass.  Every read *)
(* may be interrupted or fail; the sink may refuse a record, or take it    *)
(* and answer with an acknowledgement that does not verify.                *)
(***************************************************************************)
EXTENDS EventLedger

CONSTANTS
    Byte,               \* the bytes a file is made of
    Contents,           \* the contents a file may have when it is planned
    Setups,             \* the caps a plan may set, with the policy of the sink
    Planned, Other,     \* the planned file, and another put under its path
    Written,            \* the bytes another process writes into the planned file
    MaxChanges          \* how often the planned file is written during the run

(* LocalFilePlanCapsV1: none is zero, and a record's cap is within the file's. *)
Caps ==
    {c \in [source : Nat \ {0}, records : Nat \ {0}, perRecord : Nat \ {0}] :
        c.perRecord <= c.source}

ASSUME AcquisitionAssumption ==
    /\ {Newline, Return, Marked} \subseteq Byte
    /\ Contents \subseteq Seq(Byte) /\ Written \subseteq Byte
    /\ Setups \subseteq Caps \X Policies
    /\ Planned # Other
    /\ MaxChanges \in Nat

VARIABLES
    file,           \* the two files: bytes, and the stamp every change moves
    path,           \* the file the planned path leads to
    cancelled,      \* the caller has cancelled
    expired,        \* the deadline has passed
    pc,             \* where the acquisition is
    planned,        \* the bytes of the file when it was planned
    caps, policy,   \* what the plan sets and the policy of the sink
    fd,             \* the file behind the retained descriptor
    outcome,        \* the flags of StreamOutcomeV1 that are set
    bytesRead,      \* its bytes_read, and the descriptor's offset
    record, state,  \* the record being gathered, and the state it is sent with
    acked,          \* what the sink has acknowledged
    ledger,         \* the builder behind the sink
    completion,     \* the completion execution returned
    sealed,         \* what sealing answered
    late            \* reads and sink calls made after cancellation or deadline

environment == <<file, path, cancelled, expired>>
plan == <<planned, caps, policy>>
stream == <<outcome, bytesRead, record, state, acked, ledger>>
vars == <<environment, pc, plan, fd, stream, completion, sealed, late>>

NotYet == "not_yet"
NoCompletion == [returned |-> FALSE, refused |-> FALSE]

(* The facts of stat(2) a snapshot compares; a change of the file moves its stamp. *)
SnapshotOf(f) == [file |-> f, size |-> Len(file[f].bytes), stamp |-> file[f].stamp]

PlannedSnapshot == [file |-> Planned, size |-> Len(planned), stamp |-> 0]
HighWater == PlannedSnapshot.size
ReadLimit == IF HighWater < caps.source THEN HighWater ELSE caps.source

Preflighting == {"open_first", "open_second", "retain"}
Starting == {"start", "revalidate"}

Init ==
    /\ planned \in Contents
    /\ \E setup \in Setups : caps = setup[1] /\ policy = setup[2]
    /\ file = [f \in {Planned, Other} |->
                  [bytes |-> IF f = Planned THEN planned ELSE << >>, stamp |-> 0]]
    /\ path = Planned
    /\ cancelled = FALSE /\ expired = FALSE
    /\ pc = "open_first"
    /\ fd = NotYet
    /\ outcome = {} /\ bytesRead = 0 /\ record = << >> /\ state = Complete
    /\ acked = [records |-> 0, payload |-> 0, source |-> 0, first |-> << >>, final |-> << >>]
    /\ ledger = NewBuilder
    /\ completion = NoCompletion /\ sealed = NotYet
    /\ late = [reads |-> 0, sinks |-> 0]

-----------------------------------------------------------------------------
(* Preflight and the checks before the first byte. *)

GoesOn(next) == pc' = next /\ UNCHANGED completion
Refuses == pc' = "done" /\ completion' = [NoCompletion EXCEPT !.refused = TRUE]

(* The path is opened and must lead to the planned snapshot; the descriptor stays. *)
OpenFirst ==
    /\ pc = "open_first"
    /\ fd' = path
    /\ IF SnapshotOf(path) = PlannedSnapshot THEN GoesOn("open_second") ELSE Refuses
    /\ UNCHANGED <<environment, plan, stream, sealed, late>>

(* It is opened again, and the second descriptor is dropped. *)
OpenSecond ==
    /\ pc = "open_second"
    /\ IF SnapshotOf(path) = PlannedSnapshot THEN GoesOn("retain") ELSE Refuses
    /\ UNCHANGED <<environment, plan, fd, stream, sealed, late>>

Retain ==
    /\ pc = "retain"
    /\ IF SnapshotOf(fd) = PlannedSnapshot THEN GoesOn("start") ELSE Refuses
    /\ UNCHANGED <<environment, plan, fd, stream, sealed, late>>

\* Mutant: the same file of the same length is taken for unchanged.
DescriptorValidBySize(offset) ==
    fd = Planned /\ SnapshotOf(fd).size = HighWater /\ bytesRead = offset

(* validate_retained_descriptors, besides what cannot change while the   *)
(* authority's leases are held: the snapshot and the descriptor's offset. *)
DescriptorValid(offset) == SnapshotOf(fd) = PlannedSnapshot /\ bytesRead = offset

(* Execution validates its facts and the descriptor, and the descriptor again. *)
Start ==
    /\ pc = "start"
    /\ IF HighWater <= caps.source /\ caps.perRecord <= caps.source /\ DescriptorValid(0)
       THEN GoesOn("revalidate") ELSE Refuses
    /\ UNCHANGED <<environment, plan, fd, stream, sealed, late>>

Revalidate ==
    /\ pc = "revalidate"
    /\ IF DescriptorValid(0) THEN GoesOn("stream") ELSE Refuses
    /\ UNCHANGED <<environment, plan, fd, stream, sealed, late>>

(* A clock, the authority's validity or a system call fails one of the steps above. *)
Refused ==
    /\ pc \in Preflighting \cup Starting
    /\ Refuses
    /\ UNCHANGED <<environment, plan, fd, stream, sealed, late>>

-----------------------------------------------------------------------------
(* Streaming: stream_exact_snapshot and emit_record. *)

\* Mutant: cancellation is not looked at.
CheckpointUncancelled == IF expired THEN {"wall_time_cap"} ELSE {}

\* Mutant: the deadline is looked at only with a record in hand.
CheckpointInRecord ==
    IF cancelled THEN {"cancelled"}
    ELSE IF expired /\ record # << >> THEN {"wall_time_cap"} ELSE {}

(* What a checkpoint observes: cancellation first, then the deadline. *)
Checkpoint ==
    IF cancelled THEN {"cancelled"} ELSE IF expired THEN {"wall_time_cap"} ELSE {}

(* In the loop every flag set so far stops content reads. *)
LoopsUnlessStopped(flags, next) == pc' = IF flags = {} THEN next ELSE "flush"

LateBy(what) ==
    late' = IF cancelled \/ expired THEN [late EXCEPT ![what] = @ + 1] ELSE late

Begin ==
    /\ pc = "stream"
    /\ outcome' = Checkpoint
    /\ pc' = IF outcome' = {} THEN "loop" ELSE "verify"
    /\ UNCHANGED <<environment, plan, fd, bytesRead, record, state, acked, ledger,
                   completion, sealed, late>>

EndOfSnapshot ==
    /\ pc = "loop" /\ bytesRead = HighWater
    /\ pc' = "flush"
    /\ UNCHANGED <<environment, plan, fd, stream, completion, sealed, late>>

\* Mutant: one record more than the cap.
AtCapOneMore == acked.records > caps.records \/ bytesRead = ReadLimit

AtCap == acked.records >= caps.records \/ bytesRead = ReadLimit

CapReached ==
    /\ pc = "loop" /\ bytesRead # HighWater
    /\ AtCap
    /\ outcome' = outcome \cup
           IF acked.records >= caps.records THEN {"record_count_cap"} ELSE {"source_byte_cap"}
    /\ pc' = "flush"
    /\ UNCHANGED <<environment, plan, fd, bytesRead, record, state, acked, ledger,
                   completion, sealed, late>>

BeforeRead ==
    /\ pc = "loop" /\ bytesRead # HighWater
    /\ ~AtCap
    /\ outcome' = outcome \cup Checkpoint
    /\ LoopsUnlessStopped(outcome', "read")
    /\ UNCHANGED <<environment, plan, fd, bytesRead, record, state, acked, ledger,
                   completion, sealed, late>>

(* One byte is read.  A newline ends the record; a record at its cap stops *)
(* the stream unless it ends the snapshot too.                             *)
ReadByte ==
    /\ pc = "read" /\ bytesRead < Len(file[fd].bytes)
    /\ LET byte == file[fd].bytes[bytesRead + 1]
           full == Len(record) + 1 >= caps.perRecord /\ bytesRead + 1 < HighWater
       IN  /\ record' = Append(record, byte)
           /\ outcome' = outcome \cup Checkpoint \cup
                  IF Checkpoint = {} /\ byte # Newline /\ full
                  THEN {"per_record_byte_cap"} ELSE {}
           /\ LoopsUnlessStopped(outcome', IF byte = Newline THEN "emit" ELSE "loop")
    /\ bytesRead' = bytesRead + 1
    /\ LateBy("reads")
    /\ UNCHANGED <<environment, plan, fd, state, acked, ledger, completion, sealed>>

(* The file ends before the snapshot does, or the read fails. *)
ReadStops ==
    /\ pc = "read"
    /\ \E flag \in {"unexpected_eof", "read_error"} :
          /\ flag = "unexpected_eof" => bytesRead >= Len(file[fd].bytes)
          /\ outcome' = outcome \cup {flag} \cup Checkpoint
    /\ pc' = "flush"
    /\ UNCHANGED <<environment, plan, fd, bytesRead, record, state, acked, ledger,
                   completion, sealed, late>>

ReadInterrupted ==
    /\ pc = "read"
    /\ outcome' = outcome \cup Checkpoint
    /\ LoopsUnlessStopped(outcome', "loop")
    /\ UNCHANGED <<environment, plan, fd, bytesRead, record, state, acked, ledger,
                   completion, sealed, late>>

(* The checkpoint before the sink is noted and does not hold the record back. *)
Emit ==
    /\ pc = "emit"
    /\ outcome' = outcome \cup Checkpoint
    /\ state' = Complete
    /\ pc' = "sink"
    /\ UNCHANGED <<environment, plan, fd, bytesRead, record, acked, ledger,
                   completion, sealed, late>>

SinkUnavailable == outcome \cap {"sink_stopped", "adapter_stopped"} # {}

(* After the loop: is what was gathered a whole record? *)
LastIsComplete ==
    \/ record[Len(record)] = Newline
    \/ /\ bytesRead = HighWater
       /\ outcome \cap {"source_byte_cap", "per_record_byte_cap", "read_error",
                         "unexpected_eof"} = {}

FragmentReason ==
    IF "source_byte_cap" \in outcome THEN "source_byte_cap"
    ELSE IF "per_record_byte_cap" \in outcome THEN "per_record_byte_cap"
    ELSE IF outcome \cap {"read_error", "unexpected_eof"} # {} THEN "source_read_error"
    ELSE IF "cancelled" \in outcome THEN "cancelled"
    ELSE IF "wall_time_cap" \in outcome THEN "wall_time_cap" ELSE "other"

Flush ==
    /\ pc = "flush"
    /\ IF record = << >> \/ SinkUnavailable
       THEN pc' = "verify" /\ UNCHANGED <<outcome, state>>
       ELSE /\ pc' = "sink_last"
            /\ state' = IF LastIsComplete THEN Complete ELSE FragmentReason
            /\ outcome' = outcome \cup Checkpoint \cup
                              IF LastIsComplete THEN {} ELSE {"saw_fragment"}
    /\ UNCHANGED <<environment, plan, fd, bytesRead, record, acked, ledger,
                   completion, sealed, late>>

Envelope ==
    [sequence |-> acked.records, laneSequence |-> acked.records, bytes |-> record,
     cursor |-> <<bytesRead - Len(record), bytesRead>>, state |-> state]

(* The sink takes the record and acknowledges it, refuses it, or takes it and *)
(* answers with an acknowledgement of something else.                         *)
Sink ==
    /\ pc \in {"sink", "sink_last"}
    /\ \E answer \in {"acknowledged", "refused", "forged"} :
          LET taken == answer # "refused" /\ Accepts(ledger, Envelope)
              accepted == taken /\ answer = "acknowledged"
          IN  /\ ledger' = IF taken THEN Accepted(ledger, Envelope, policy) ELSE ledger
              /\ acked' = IF ~accepted THEN acked ELSE
                     [records |-> acked.records + 1,
                      payload |-> acked.payload + PayloadLength(record),
                      source |-> acked.source + Len(record),
                      first |-> IF acked.first = << >> THEN Envelope.cursor ELSE acked.first,
                      final |-> Envelope.cursor]
              /\ outcome' = outcome \cup Checkpoint \cup
                     IF accepted THEN {} ELSE {"sink_stopped"}
    /\ record' = << >>
    /\ IF pc = "sink" THEN LoopsUnlessStopped(outcome', "loop") ELSE pc' = "verify"
    /\ LateBy("sinks")
    /\ UNCHANGED <<environment, plan, fd, bytesRead, state, completion, sealed>>

-----------------------------------------------------------------------------
(* The end of execute_with, finish_execution, and the seal. *)

(* The descriptor is validated where the stream left it; a system call may fail it. *)
Verify ==
    /\ pc = "verify"
    /\ \E verified \in {DescriptorValid(bytesRead), FALSE} :
          outcome' = outcome
              \cup (IF ~SinkUnavailable /\ bytesRead # acked.source
                    THEN {"adapter_stopped"} ELSE {})
              \cup (IF verified THEN {} ELSE {"unverified"})
    /\ pc' = "finish"
    /\ UNCHANGED <<environment, plan, fd, bytesRead, record, state, acked, ledger,
                   completion, sealed, late>>

\* Mutant: a fragment is not a reason of its own.
ReasonsNoFragment(flags) ==
    LET named ==
        (flags \cap {"source_byte_cap", "record_count_cap", "wall_time_cap", "cancelled"})
        \cup (IF flags \cap {"read_error", "unexpected_eof"} # {} THEN {"source_read_error"} ELSE {})
        \cup (IF "unverified" \in flags THEN {"source_changed"} ELSE {})
        \cup (IF "sink_stopped" \in flags THEN {"sink_failure"} ELSE {})
        \cup (IF flags \cap {"adapter_stopped", "wall_clock_failed"} # {} THEN {"other"} ELSE {})
    IN  IF named = {} THEN {"source_changed"} ELSE named

(* The reasons and error codes a set of flags is reported with; several flags *)
(* may share one.                                                             *)
Reasons(flags) ==
    LET named ==
        (flags \cap {"source_byte_cap", "record_count_cap", "wall_time_cap", "cancelled"})
        \cup (IF flags \cap {"read_error", "unexpected_eof"} # {} THEN {"source_read_error"} ELSE {})
        \cup (IF "unverified" \in flags THEN {"source_changed"} ELSE {})
        \cup (IF flags \cap {"saw_fragment", "per_record_byte_cap"} # {} THEN {"record_truncated"} ELSE {})
        \cup (IF "sink_stopped" \in flags THEN {"sink_failure"} ELSE {})
        \cup (IF flags \cap {"adapter_stopped", "wall_clock_failed"} # {} THEN {"other"} ELSE {})
    IN  IF named = {} THEN {"source_changed"} ELSE named

ErrorCodes(flags) ==
    (IF "sink_stopped" \in flags THEN {"sink_failure"} ELSE {})
    \cup (IF flags \cap {"adapter_stopped", "wall_clock_failed"} # {} THEN {"adapter_invariant"} ELSE {})
    \cup (IF flags \cap {"read_error", "unexpected_eof"} # {} THEN {"source_read_failure"} ELSE {})
    \cup (IF "unverified" \in flags THEN {"source_changed"} ELSE {})

AdapterOutcome(flags) ==
    IF "sink_stopped" \in flags THEN "sink_stopped"
    ELSE IF flags \cap {"adapter_stopped", "wall_clock_failed"} # {} THEN "adapter_stopped"
    ELSE IF "cancelled" \in flags THEN "cancelled"
    ELSE IF "wall_time_cap" \in flags THEN "deadline_exceeded"
    ELSE IF flags \cap {"read_error", "unexpected_eof", "unverified"} # {} THEN "source_stopped"
    ELSE "finished"

FullyAcquired(flags) == flags = {} /\ bytesRead = HighWater /\ acked.source = HighWater

CompletionOf(flags) ==
    LET full == FullyAcquired(flags) IN
    [returned |-> TRUE, refused |-> FALSE, complete |-> full,
     records |-> acked.records, payload |-> acked.payload, source |-> acked.source,
     first |-> acked.first, final |-> acked.final,
     highWater |-> "unverified" \notin flags,
     reasons |-> IF full THEN {} ELSE Reasons(flags),
     errors |-> IF full THEN {} ELSE ErrorCodes(flags),
     outcome |-> IF full THEN "finished" ELSE AdapterOutcome(flags)]

(* FetchCompletion::new refuses an account that contradicts itself. *)
Consistent(c) ==
    /\ c.payload <= c.source
    /\ c.complete => c.outcome = "finished" /\ c.errors = {}

(* The last checkpoint, and the wall clock, which may have gone backwards. *)
Finish ==
    /\ pc = "finish"
    /\ \E clock \in {{}, {"wall_clock_failed"}} :
          outcome' = outcome \cup Checkpoint \cup clock
    /\ IF Consistent(CompletionOf(outcome'))
       THEN pc' = "seal" /\ completion' = CompletionOf(outcome') ELSE Refuses
    /\ UNCHANGED <<environment, plan, fd, bytesRead, record, state, acked, ledger, sealed, late>>

Seal ==
    /\ pc = "seal"
    /\ sealed' = IF Seals(ledger, completion) THEN "sealed" ELSE "refused"
    /\ pc' = "done"
    /\ UNCHANGED <<environment, plan, fd, stream, completion, late>>

-----------------------------------------------------------------------------
(* Everything else that happens meanwhile, for as long as it can be observed. *)

Observing == {"open_first", "open_second", "retain", "start", "revalidate", "stream", "loop",
              "read", "emit", "sink", "flush", "sink_last", "verify"}

(* What becomes of a file another process appends to, writes a byte of, or *)
(* cuts short.                                                             *)
Rewritten(old) ==
    {Append(old, b) : b \in Written}
    \cup {[old EXCEPT ![i] = b] : i \in DOMAIN old, b \in Written}
    \cup {SubSeq(old, 1, n) : n \in 0 .. Len(old)}

(* Every change moves the stamp. *)
Write ==
    /\ pc \in Observing /\ file[Planned].stamp < MaxChanges
    /\ \E new \in Rewritten(file[Planned].bytes) :
          file' = [file EXCEPT ![Planned] = [bytes |-> new, stamp |-> @.stamp + 1]]
    /\ UNCHANGED <<path, cancelled, expired, pc, plan, fd, stream, completion, sealed, late>>

(* Another file is put under the path, or the planned one put back. *)
Rename ==
    /\ pc \in Preflighting
    /\ path' \in {Planned, Other} \ {path}
    /\ UNCHANGED <<file, cancelled, expired, pc, plan, fd, stream, completion, sealed, late>>

Cancel ==
    /\ pc \in Observing \cup {"finish"} /\ ~cancelled
    /\ cancelled' = TRUE
    /\ UNCHANGED <<file, path, expired, pc, plan, fd, stream, completion, sealed, late>>

(* The deadline is counted from the start of execution. *)
Expire ==
    /\ pc \in (Observing \cup {"finish"}) \ (Preflighting \cup {"start"}) /\ ~expired
    /\ expired' = TRUE
    /\ UNCHANGED <<file, path, cancelled, pc, plan, fd, stream, completion, sealed, late>>

Acquires ==
    \/ OpenFirst \/ OpenSecond \/ Retain \/ Start \/ Revalidate \/ Refused
    \/ Begin \/ EndOfSnapshot \/ CapReached \/ BeforeRead
    \/ ReadByte \/ ReadStops \/ ReadInterrupted
    \/ Emit \/ Flush \/ Sink \/ Verify \/ Finish \/ Seal

Done == pc = "done" /\ UNCHANGED vars

Next == Acquires \/ Write \/ Rename \/ Cancel \/ Expire \/ Done

Spec == Init /\ [][Next]_vars

(* Calls return and time passes. *)
FairSpec == Spec /\ WF_vars(Acquires) /\ WF_vars(Expire)

-----------------------------------------------------------------------------
(* Properties. *)

(* Where the last record the ledger took ends. *)
Taken ==
    IF ledger.entries = << >> THEN 0 ELSE ledger.entries[Len(ledger.entries)].cursor[2]

(* The records in the ledger tile the bytes read from the start of the file:  *)
(* each begins where the one before it ends, holds no more bytes than the     *)
(* per-record cap, and only the last may be a fragment; no more of them are   *)
(* taken than the record cap, and what was read and not yet taken is the      *)
(* record in hand, unless the sink failed.  A byte the loop of                *)
(* stream_exact_snapshot dropped, sent twice or sent past a cap breaks it.    *)
RecordsTile ==
    /\ \A i \in DOMAIN ledger.entries :
          LET e == ledger.entries[i] IN
          /\ e.cursor[1] = (IF i = 1 THEN 0 ELSE ledger.entries[i - 1].cursor[2])
          /\ e.cursor[1] < e.cursor[2] /\ e.cursor[2] <= e.cursor[1] + caps.perRecord
          /\ e.state # Complete => i = Len(ledger.entries)
    /\ Len(ledger.entries) <= caps.records
    /\ "sink_stopped" \notin outcome => bytesRead = Taken + Len(record)

(* An entry is a line of the planned file: kept exactly it holds that file's *)
(* bytes, and a complete record runs to the next newline or to the end.      *)
IsLine(e) ==
    /\ e.basis = "source_exact" => e.bytes = SubSeq(planned, e.cursor[1] + 1, e.cursor[2])
    /\ \A i \in e.cursor[1] + 1 .. e.cursor[2] - 1 : planned[i] # Newline
    /\ e.state = Complete => planned[e.cursor[2]] = Newline \/ e.cursor[2] = HighWater

(* A completion that names the high-water mark says the file was still the    *)
(* planned one after the last read.  Then every record in the ledger is a     *)
(* line of the file as it was planned, whatever was written to it, and        *)
(* whatever was put under its path, before, between or after the reads.  A    *)
(* complete acquisition moreover seals and holds the planned file to its last *)
(* byte in complete lines.                                                    *)
CompletionHonest ==
    completion.returned =>
        /\ completion.highWater => \A i \in DOMAIN ledger.entries : IsLine(ledger.entries[i])
        /\ completion.complete =>
              /\ completion.highWater /\ sealed # "refused"
              /\ Taken = HighWater
              /\ \A i \in DOMAIN ledger.entries : ledger.entries[i].state = Complete

(* The adapter and the ledger count apart, and seal compares: unless the sink *)
(* failed, the two accounts of an acquisition agree however it was stopped.   *)
AccountsAgree ==
    sealed = "refused" => "sink_failure" \in completion.reasons

(* An acquisition that is not complete says why: it has a reason, the source  *)
(* is called changed only when the last check failed and never for want of    *)
(* another reason, and one that finished by itself was stopped short of the   *)
(* end by a cap.                                                              *)
ReasonsAccount ==
    completion.returned => (~completion.complete =>
        /\ completion.reasons # {}
        /\ "source_changed" \in completion.reasons <=> ~completion.highWater
        /\ completion.outcome = "finished" =>
              /\ completion.reasons \subseteq {"record_count_cap", "record_truncated"}
              /\ completion.source < HighWater)

(* Cancellation and the deadline are looked at around every read and every   *)
(* sink call: once either has come, at most one more byte is read and at     *)
(* most one more record sent.                                                *)
StopsPromptly == late.reads <= 1 /\ late.sinks <= 1

(* The acquisition ends, though every read may be interrupted again: the     *)
(* deadline bounds the retries.                                              *)
Terminates == <>(pc = "done")

=============================================================================
