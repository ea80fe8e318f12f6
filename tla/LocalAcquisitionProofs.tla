----------------------- MODULE LocalAcquisitionProofs -----------------------
(***************************************************************************)
(* The acquisition of a local file, for every file, every cap and every    *)
(* interleaving with those who write it: what is in hand at each step of   *)
(* the loop (Shape), that the records tile what was read (Tiling), and     *)
(* that the adapter and the ledger count alike (Counting).                 *)
(*                                                                         *)
(* From these, what a completion says of the file: that a verified one     *)
(* names lines of the planned file (Hand, Reading), that a stopped one     *)
(* stopped in time (Stopping), and that an incomplete one says why         *)
(* (Stated).                                                               *)
(***************************************************************************)
EXTENDS LocalAcquisition, TLAPS

\* A leaf that names no prover is given to Zenon
USE ZenonT(60)

Early == Preflighting \cup Starting \cup {"stream"}
Sending == {"loop", "read", "emit", "sink", "sink_last"}
Ended == {"verify", "finish", "seal", "done"}

Fields == {"nextSequence", "nextLaneSequence", "entries", "records", "payload",
           "source", "sawFragment"}

entries == ledger.entries

\* The record in hand at each step, within the caps
Shape ==
  /\ planned \in Contents /\ caps \in Caps
  /\ bytesRead \in Nat /\ bytesRead <= ReadLimit
  /\ \E T : record \in Seq(T)
  /\ Len(record) <= caps.perRecord
  /\ acked.records \in Nat
  /\ pc \in Early => record = <<>> /\ outcome = {}
  /\ pc \in {"loop", "read"} => outcome = {}
  /\ pc = "loop" => Len(record) < caps.perRecord \/ bytesRead = HighWater
  /\ pc = "read" => bytesRead < ReadLimit /\ Len(record) < caps.perRecord
  /\ pc \in {"emit", "sink", "sink_last"} => record # <<>>
  /\ pc = "read" \/ record # <<>> => acked.records < caps.records
  /\ pc \in Sending => "sink_stopped" \notin outcome
  /\ pc = "sink" => state = Complete

\* Checkpoints observe no failure of the sink.
LEMMA CheckpointFlags == Checkpoint \subseteq {"cancelled", "wall_time_cap"}
  BY DEF Checkpoint

\* The high-water mark and the read limit are lengths of the planned file.
LEMMA Limits ==
  ASSUME planned \in Contents, caps \in Caps
  PROVE  /\ HighWater = Len(planned) /\ HighWater \in Nat
         /\ ReadLimit \in Nat /\ ReadLimit <= HighWater
         /\ caps.perRecord \in Nat \ {0} /\ caps.records \in Nat \ {0}
<1>1. planned \in Seq(Byte)
  BY AcquisitionAssumption
<1>2. HighWater = Len(planned) /\ HighWater \in Nat
  BY <1>1, SMTT(60) DEF HighWater, PlannedSnapshot
<1>3. caps.source \in Nat /\ caps.perRecord \in Nat \ {0} /\ caps.records \in Nat \ {0}
  BY DEF Caps
<1> QED
  BY <1>2, <1>3, SMTT(60) DEF ReadLimit

\* The bounds that the plan fixes do not move.
LEMMA LimitsFixed ==
  ASSUME UNCHANGED plan
  PROVE  HighWater' = HighWater /\ ReadLimit' = ReadLimit /\ UNCHANGED <<planned, caps>>
  BY DEF plan, HighWater, ReadLimit, PlannedSnapshot

\* Nothing is in hand before the first read.
LEMMA InitShape == Init => Shape
<1> SUFFICES ASSUME Init PROVE Shape
  OBVIOUS
<1>1. planned \in Contents /\ caps \in Caps
  BY AcquisitionAssumption DEF Init
<1>2. bytesRead = 0 /\ record = <<>> /\ acked.records = 0 /\ pc = "open_first" /\ outcome = {}
  BY DEF Init
<1>3. <<>> \in Seq({})
  BY SMTT(60)
<1> QED
  BY <1>1, <1>2, <1>3, Limits, SMTT(60) DEF Shape, Early, Sending, Preflighting

\* A step that neither reads nor sends keeps what is in hand.
LEMMA QuietShape ==
  ASSUME Shape, UNCHANGED <<plan, bytesRead, record, acked>>,
         pc' \in Early => pc \in Early /\ outcome' = {},
         pc' \in {"loop", "read"} => outcome' = {},
         pc' = "loop" => pc \in {"loop", "read"} \/ record = <<>>,
         pc' = "read" => \/ pc = "read"
                         \/ pc = "loop" /\ bytesRead # HighWater /\ ~AtCap,
         pc' \in {"emit", "sink", "sink_last"} =>
           pc \in {"emit", "sink", "sink_last"} \/ record # <<>>,
         pc' \in Sending => "sink_stopped" \notin outcome',
         pc' = "sink" => state' = Complete
  PROVE  Shape'
<1>1. HighWater' = HighWater /\ ReadLimit' = ReadLimit /\ UNCHANGED <<planned, caps>>
  BY LimitsFixed
<1>2. /\ ReadLimit \in Nat /\ ReadLimit <= HighWater /\ HighWater \in Nat
      /\ caps.perRecord \in Nat \ {0} /\ caps.records \in Nat \ {0}
  BY Limits DEF Shape
<1>3. bytesRead \in Nat /\ bytesRead <= ReadLimit /\ acked.records \in Nat
  BY DEF Shape
<1>4. \/ Len(record) \in Nat /\ Len(record) <= caps.perRecord
  BY SMTT(60) DEF Shape
<1>5. pc' = "loop" => Len(record) < caps.perRecord \/ bytesRead = HighWater
  <2>1. record = <<>> => Len(record) = 0
    BY SMTT(60)
  <2> QED
    BY <1>2, <1>3, <1>4, <2>1, SMTT(60) DEF Shape
<1>6. pc' = "read" => /\ bytesRead < ReadLimit /\ Len(record) < caps.perRecord
                      /\ acked.records < caps.records
  BY <1>2, <1>3, <1>4, SMTT(60) DEF Shape, AtCap
<1>7. pc' \in Early => record = <<>> /\ outcome' = {}
  BY DEF Shape
<1>8. pc' \in {"emit", "sink", "sink_last"} => record # <<>>
  BY DEF Shape
<1> QED
  BY <1>1, <1>5, <1>6, <1>7, <1>8 DEF Shape

\* What Sink does besides the ledger and its acknowledgement.
LEMMA SinkFrame ==
  ASSUME Sink
  PROVE  /\ UNCHANGED <<environment, plan, fd, bytesRead, state, completion, sealed>>
         /\ record' = <<>> /\ pc \in {"sink", "sink_last"}
         /\ pc' \in {"verify", "flush"} \/ (pc' = "loop" /\ outcome' = {})
         /\ pc = "sink_last" => pc' = "verify"
         /\ pc' = "verify" => pc = "sink_last"
<1>1. /\ UNCHANGED <<environment, plan, fd, bytesRead, state, completion, sealed>>
      /\ record' = <<>> /\ pc \in {"sink", "sink_last"}
      /\ IF pc = "sink" THEN LoopsUnlessStopped(outcome', "loop") ELSE pc' = "verify"
  BY DEF Sink
<1> QED
  BY <1>1 DEF LoopsUnlessStopped

\* The sink refuses the record, takes it unacknowledged, or takes it.
LEMMA SinkAnswers ==
  ASSUME Sink
  PROVE  \/ /\ ledger' = ledger /\ acked' = acked
            /\ outcome' = outcome \cup Checkpoint \cup {"sink_stopped"}
         \/ /\ ledger' = Accepted(ledger, Envelope, policy) /\ acked' = acked
            /\ outcome' = outcome \cup Checkpoint \cup {"sink_stopped"}
         \/ /\ ledger' = Accepted(ledger, Envelope, policy)
            /\ acked'.records = acked.records + 1
            /\ acked'.payload = acked.payload + PayloadLength(record)
            /\ acked'.source = acked.source + Len(record)
            /\ outcome' = outcome \cup Checkpoint
<1> DEFINE Takes(answer) == answer # "refused" /\ Accepts(ledger, Envelope)
<1>1. PICK answer \in {"acknowledged", "refused", "forged"} :
        LET accepted == Takes(answer) /\ answer = "acknowledged"
        IN  /\ ledger' = IF Takes(answer) THEN Accepted(ledger, Envelope, policy) ELSE ledger
            /\ acked' = IF ~accepted THEN acked ELSE
                   [records |-> acked.records + 1,
                    payload |-> acked.payload + PayloadLength(record),
                    source |-> acked.source + Len(record),
                    first |-> IF acked.first = << >> THEN Envelope.cursor ELSE acked.first,
                    final |-> Envelope.cursor]
            /\ outcome' = outcome \cup Checkpoint \cup
                   IF accepted THEN {} ELSE {"sink_stopped"}
  BY DEF Sink
<1>2. CASE ~Takes(answer)
  BY <1>1, <1>2
<1>3. CASE Takes(answer) /\ answer # "acknowledged"
  BY <1>1, <1>3
<1>4. CASE Takes(answer) /\ answer = "acknowledged"
  BY <1>1, <1>4
<1> QED
  BY <1>2, <1>3, <1>4

\* Every step keeps the record in hand within the caps.
LEMMA StepShape == Shape /\ [Next]_vars => Shape'
<1> SUFFICES ASSUME Shape, [Next]_vars PROVE Shape'
  OBVIOUS
<1> USE DEF Early, Sending, Preflighting, Starting
<1>1. CASE OpenFirst \/ OpenSecond \/ Retain \/ Start \/ Revalidate \/ Refused
  <2>1. /\ UNCHANGED <<plan, stream>>
        /\ pc \in Preflighting \cup Starting /\ pc' \in Early \cup {"done"}
    BY <1>1 DEF OpenFirst, OpenSecond, Retain, Start, Revalidate, Refused, GoesOn, Refuses
  <2>2. UNCHANGED <<plan, bytesRead, record, acked, outcome>>
    BY <2>1 DEF stream
  <2> QED
    BY <2>1, <2>2, QuietShape DEF Shape
<1>2. CASE Begin
  BY <1>2, CheckpointFlags, QuietShape DEF Begin, Shape
<1>3. CASE EndOfSnapshot \/ CapReached
  BY <1>3, QuietShape DEF EndOfSnapshot, CapReached, stream
<1>4. CASE BeforeRead
  BY <1>4, CheckpointFlags, QuietShape DEF BeforeRead, LoopsUnlessStopped, Shape
<1>5. CASE ReadByte
  <2> DEFINE byte == file[fd].bytes[bytesRead + 1]
             full == Len(record) + 1 >= caps.perRecord /\ bytesRead + 1 < HighWater
  <2> HIDE DEF byte
  <2>1. /\ pc = "read" /\ bytesRead' = bytesRead + 1 /\ record' = Append(record, byte)
        /\ outcome' = outcome \cup Checkpoint \cup
               IF Checkpoint = {} /\ byte # Newline /\ full THEN {"per_record_byte_cap"} ELSE {}
        /\ pc' = IF outcome' = {} THEN IF byte = Newline THEN "emit" ELSE "loop" ELSE "flush"
        /\ UNCHANGED <<plan, acked>>
    BY <1>5 DEF ReadByte, LoopsUnlessStopped, byte
  <2>2. HighWater' = HighWater /\ ReadLimit' = ReadLimit /\ UNCHANGED <<planned, caps>>
    BY <2>1, LimitsFixed
  <2>3. /\ ReadLimit \in Nat /\ ReadLimit <= HighWater /\ HighWater \in Nat
        /\ caps.perRecord \in Nat \ {0}
    BY Limits DEF Shape
  <2>4. PICK T : record \in Seq(T)
    BY DEF Shape
  <2>5. /\ record' \in Seq(T \cup {byte}) /\ Len(record') = Len(record) + 1 /\ record' # <<>>
        /\ Len(record) \in Nat
    BY <2>1, <2>4, SMTT(60)
  <2>6. /\ bytesRead \in Nat /\ bytesRead < ReadLimit /\ Len(record) < caps.perRecord
        /\ acked.records \in Nat /\ acked.records < caps.records
        /\ outcome = {} /\ planned \in Contents /\ caps \in Caps
    BY <2>1 DEF Shape
  <2>7. pc' = "loop" => Len(record') < caps.perRecord \/ bytesRead' = HighWater
    <3>1. SUFFICES ASSUME pc' = "loop" PROVE ~full
      BY <2>1, <2>3, <2>5, <2>6, SMTT(60)
    <3>2. outcome' = {} /\ byte # Newline
      BY <2>1, <3>1
    <3>3. Checkpoint = {}
      BY <2>1, <3>2
    <3> QED
      BY <2>1, <3>2, <3>3
  <2>8. pc' = "emit" \/ pc' = "loop" \/ pc' = "flush"
    BY <2>1
  <2>9. pc' # "flush" => outcome' = {}
    BY <2>1
  <2>10. bytesRead' \in Nat /\ bytesRead' <= ReadLimit /\ Len(record') <= caps.perRecord
    BY <2>1, <2>3, <2>5, <2>6, SMTT(60)
  <2>11. \E U : record' \in Seq(U)
    BY <2>5
  <2> HIDE DEF full
  <2> QED
    BY <2>1, <2>2, <2>5, <2>6, <2>7, <2>8, <2>9, <2>10, <2>11 DEF Shape
<1>6. CASE ReadStops
  BY <1>6, QuietShape DEF ReadStops
<1>7. CASE ReadInterrupted
  BY <1>7, CheckpointFlags, QuietShape DEF ReadInterrupted, LoopsUnlessStopped
<1>8. CASE Emit
  BY <1>8, CheckpointFlags, QuietShape DEF Emit, Shape
<1>9. CASE Flush
  <2>1. /\ UNCHANGED <<plan, bytesRead, record, acked>>
        /\ \/ pc' = "verify"
           \/ pc' = "sink_last" /\ record # <<>> /\ "sink_stopped" \notin outcome'
    BY <1>9, CheckpointFlags DEF Flush, SinkUnavailable
  <2> QED
    BY <2>1, QuietShape
<1>10. CASE Sink
  <2>1. /\ UNCHANGED plan /\ bytesRead' = bytesRead /\ record' = <<>>
        /\ pc' \in {"verify", "flush"} \/ (pc' = "loop" /\ outcome' = {})
    BY <1>10, SinkFrame
  <2>2. acked' = acked \/ acked'.records = acked.records + 1
    BY <1>10, SinkAnswers
  <2>3. HighWater' = HighWater /\ ReadLimit' = ReadLimit /\ UNCHANGED <<planned, caps>>
    BY <2>1, LimitsFixed
  <2>4. acked.records \in Nat /\ caps.perRecord \in Nat \ {0}
    BY Limits DEF Shape
  <2>5. <<>> \in Seq({}) /\ Len(<<>>) = 0
    BY SMTT(60)
  <2> QED
    BY <2>1, <2>2, <2>3, <2>4, <2>5, SMTT(60) DEF Shape
<1>11. CASE Verify \/ Finish \/ Seal
  BY <1>11, QuietShape DEF Verify, Finish, Seal, Refuses, stream
<1>12. CASE Write \/ Rename \/ Cancel \/ Expire \/ Done \/ UNCHANGED vars
  <2>1. UNCHANGED <<plan, stream, pc>>
    BY <1>12 DEF Write, Rename, Cancel, Expire, Done, vars
  <2>2. UNCHANGED <<bytesRead, record, acked, outcome, state>>
    BY <2>1 DEF stream
  <2>3. pc' = "read" => pc = "read"
    BY <2>1
  <2> QED
    BY <2>1, <2>2, <2>3, QuietShape DEF Shape
<1> QED
  BY <1>1, <1>2, <1>3, <1>4, <1>5, <1>6, <1>7, <1>8, <1>9, <1>10, <1>11, <1>12
  DEF Next, Acquires

-----------------------------------------------------------------------------
(* Tiling. *)

\* Record i of the sequence s starts where the one before it ends.
Joined(s, i) ==
  /\ s[i].cursor[1] \in Nat /\ s[i].cursor[2] \in Nat
  /\ s[i].cursor[1] = IF i = 1 THEN 0 ELSE s[i - 1].cursor[2]
  /\ s[i].cursor[1] < s[i].cursor[2] /\ s[i].cursor[2] <= s[i].cursor[1] + caps.perRecord

AllComplete == \A i \in DOMAIN entries : entries[i].state = Complete

Tiling ==
  /\ DOMAIN ledger = Fields /\ \E T : entries \in Seq(T)
  /\ \A i \in DOMAIN entries : Joined(entries, i)
  /\ \A i \in DOMAIN entries : entries[i].state # Complete => i = Len(entries)
  /\ Len(entries) <= caps.records
  /\ "sink_stopped" \notin outcome =>
       bytesRead = Taken + Len(record) /\ Len(entries) = acked.records
  /\ pc \notin Ended \/ "saw_fragment" \notin outcome => AllComplete
  /\ pc = "sink_last" /\ state # Complete => "saw_fragment" \in outcome

\* What the builder holds once it has taken a record.
LEMMA AcceptedFields ==
  ASSUME NEW b, DOMAIN b = Fields, NEW envelope, NEW pol
  PROVE  LET a == Accepted(b, envelope, pol) IN
         /\ DOMAIN a = Fields
         /\ \E e : /\ a.entries = Append(b.entries, e)
                   /\ e.cursor = envelope.cursor /\ e.state = envelope.state
                   /\ e.id = SourceRecordId(envelope)
                   /\ e.basis = Authorize(pol, envelope.bytes)
                   /\ e.bytes = AuthorizedBytes(e.basis, envelope.bytes)
         /\ a.records = b.records + 1
         /\ a.payload = b.payload + PayloadLength(envelope.bytes)
         /\ a.source = b.source + Len(envelope.bytes)
         /\ a.sawFragment = (b.sawFragment \/ envelope.state # Complete)
<1> DEFINE a == Accepted(b, envelope, pol)
           basis == Authorize(pol, envelope.bytes)
           e == [id |-> SourceRecordId(envelope), cursor |-> envelope.cursor,
                 state |-> envelope.state, basis |-> basis,
                 bytes |-> AuthorizedBytes(basis, envelope.bytes)]
<1>1. a = [b EXCEPT
             !.nextSequence = envelope.sequence + 1,
             !.nextLaneSequence = envelope.laneSequence + 1,
             !.entries = Append(@, e),
             !.records = @ + 1,
             !.payload = @ + PayloadLength(envelope.bytes),
             !.source = @ + Len(envelope.bytes),
             !.sawFragment = @ \/ envelope.state # Complete]
  BY DEF Accepted
<1>2. /\ e.cursor = envelope.cursor /\ e.state = envelope.state
      /\ e.id = SourceRecordId(envelope) /\ e.basis = basis
      /\ e.bytes = AuthorizedBytes(basis, envelope.bytes)
  OBVIOUS
<1> HIDE DEF a, e, basis
<1>3. /\ DOMAIN a = Fields /\ a.entries = Append(b.entries, e)
      /\ a.records = b.records + 1
      /\ a.payload = b.payload + PayloadLength(envelope.bytes)
      /\ a.source = b.source + Len(envelope.bytes)
  BY <1>1 DEF Fields
<1>4. a.sawFragment = (b.sawFragment \/ envelope.state # Complete)
  BY <1>1 DEF Fields
<1> QED
  BY <1>2, <1>3, <1>4 DEF a, basis

\* Nothing is taken at the start.
LEMMA InitTiling == Init => Tiling
<1> SUFFICES ASSUME Init PROVE Tiling
  OBVIOUS
<1>1. /\ entries = <<>> /\ DOMAIN ledger = Fields
  BY DEF Init, NewBuilder, entries, Fields
<1>2. <<>> \in Seq({}) /\ Len(<<>>) = 0 /\ DOMAIN <<>> = {}
  BY SMTT(60)
<1>3. bytesRead = 0 /\ record = <<>> /\ acked.records = 0 /\ pc = "open_first"
  BY DEF Init
<1>4. caps.records \in Nat
  BY InitShape, Limits DEF Shape
<1>5. Taken = 0
  BY <1>1 DEF Taken, entries
<1> QED
  BY <1>1, <1>2, <1>3, <1>4, <1>5, SMTT(60) DEF Tiling, AllComplete

\* A step that neither reads nor sends keeps the tiling.
LEMMA QuietTiling ==
  ASSUME Tiling, UNCHANGED <<caps, bytesRead, record, acked, ledger>>,
         outcome \subseteq outcome',
         pc' \notin Ended => pc \notin Ended,
         pc' = "sink_last" /\ state' # Complete =>
           \/ pc = "sink_last" /\ state # Complete
           \/ "saw_fragment" \in outcome'
  PROVE  Tiling'
<1>1. entries' = entries /\ Taken' = Taken
  BY DEF entries, Taken
<1>2. AllComplete' = AllComplete
  BY <1>1 DEF AllComplete
<1>3. \A i \in DOMAIN entries : Joined(entries, i)' = Joined(entries, i)
  BY <1>1 DEF Joined
<1> QED
  BY <1>1, <1>2, <1>3 DEF Tiling

\* A record that starts where the last one ends continues the tiling.
LEMMA AppendJoined ==
  ASSUME NEW T, NEW s \in Seq(T), NEW e, NEW lo \in Nat, NEW hi \in Nat,
         e.cursor = <<lo, hi>>, lo < hi, hi <= lo + caps.perRecord,
         lo = IF s = <<>> THEN 0 ELSE s[Len(s)].cursor[2],
         \A i \in DOMAIN s : Joined(s, i)
  PROVE  \A i \in DOMAIN Append(s, e) : Joined(Append(s, e), i)
<1> DEFINE t == Append(s, e)
<1>1. /\ Len(s) \in Nat /\ DOMAIN s = 1 .. Len(s)
      /\ DOMAIN t = 1 .. Len(s) + 1 /\ t[Len(s) + 1] = e
      /\ \A i \in 1 .. Len(s) : t[i] = s[i]
      /\ Len(s) = 0 <=> s = <<>>
  BY SMTT(60)
<1>2. e.cursor[1] = lo /\ e.cursor[2] = hi
  BY SMTT(60)
<1> HIDE DEF t
<1>3. ASSUME NEW i \in 1 .. Len(s) PROVE Joined(t, i)
  <2>1. t[i] = s[i] /\ (i # 1 => t[i - 1] = s[i - 1])
    BY <1>1, SMTT(60)
  <2>2. Joined(s, i)
    BY <1>1
  <2> QED
    BY <2>1, <2>2 DEF Joined
<1>4. Joined(t, Len(s) + 1)
  <2>1. lo = IF Len(s) + 1 = 1 THEN 0 ELSE t[Len(s)].cursor[2]
    BY <1>1, SMTT(60)
  <2> QED
    BY <1>1, <1>2, <2>1, SMTT(60) DEF Joined
<1> QED
  BY <1>1, <1>3, <1>4, SMTT(60) DEF t

\* Every step keeps the tiling.
LEMMA StepTiling == Shape /\ Tiling /\ [Next]_vars => Tiling'
<1> SUFFICES ASSUME Shape, Tiling, [Next]_vars PROVE Tiling'
  OBVIOUS
<1> USE DEF Ended
<1>1. CASE OpenFirst \/ OpenSecond \/ Retain \/ Start \/ Revalidate \/ Refused
  <2>1. /\ UNCHANGED <<plan, stream>>
        /\ pc \in Preflighting \cup Starting /\ pc' \in Early \cup {"done"}
    BY <1>1 DEF OpenFirst, OpenSecond, Retain, Start, Revalidate, Refused, GoesOn, Refuses,
                Early, Preflighting, Starting
  <2>2. UNCHANGED <<caps, bytesRead, record, acked, ledger, outcome>>
    BY <2>1 DEF stream, plan
  <2> QED
    BY <2>1, <2>2, QuietTiling DEF Early, Preflighting, Starting
<1>2. CASE Begin
  BY <1>2, QuietTiling DEF Begin, plan, Shape, Early
<1>3. CASE EndOfSnapshot \/ CapReached
  BY <1>3, QuietTiling DEF EndOfSnapshot, CapReached, stream, plan
<1>4. CASE BeforeRead
  BY <1>4, QuietTiling DEF BeforeRead, LoopsUnlessStopped, plan
<1>5. CASE ReadByte
  <2>1. /\ pc = "read" /\ pc' \in {"emit", "loop", "flush"}
        /\ bytesRead' = bytesRead + 1 /\ outcome \subseteq outcome'
        /\ UNCHANGED <<caps, acked, ledger, state>>
    BY <1>5 DEF ReadByte, LoopsUnlessStopped, plan
  <2>2. Len(record') = Len(record) + 1 /\ Len(record) \in Nat
    BY <1>5, SMTT(60) DEF ReadByte, Shape
  <2>3. entries' = entries /\ Taken' = Taken
    BY <2>1 DEF entries, Taken
  <2>4. AllComplete' = AllComplete
    BY <2>3 DEF AllComplete
  <2>5. \A i \in DOMAIN entries : Joined(entries, i)' = Joined(entries, i)
    BY <2>1, <2>3 DEF Joined
  <2>6. "sink_stopped" \notin outcome => bytesRead' = Taken + Len(record')
    <3>1. SUFFICES ASSUME "sink_stopped" \notin outcome PROVE bytesRead + 1 = Taken + (Len(record) + 1)
      BY <2>1, <2>2
    <3>2. Taken \in Nat
      BY <2>2, SMTT(60) DEF Tiling, Joined, Taken, entries
    <3> QED
      BY <2>2, <3>1, <3>2, SMTT(60) DEF Tiling
  <2> QED
    BY <2>1, <2>3, <2>4, <2>5, <2>6 DEF Tiling
<1>6. CASE ReadStops
  BY <1>6, QuietTiling DEF ReadStops, plan
<1>7. CASE ReadInterrupted
  BY <1>7, QuietTiling DEF ReadInterrupted, LoopsUnlessStopped, plan
<1>8. CASE Emit
  BY <1>8, QuietTiling DEF Emit, plan
<1>9. CASE Flush
  <2>1. /\ pc = "flush" /\ UNCHANGED <<caps, bytesRead, record, acked, ledger>>
        /\ outcome \subseteq outcome'
        /\ \/ pc' = "verify"
           \/ pc' = "sink_last" /\ (state' = Complete \/ "saw_fragment" \in outcome')
    BY <1>9 DEF Flush, plan
  <2> QED
    BY <2>1, QuietTiling
<1>10. CASE Sink
  <2>1. /\ UNCHANGED <<caps, bytesRead, state>> /\ record' = <<>>
        /\ pc \in {"sink", "sink_last"} /\ pc' \in {"verify", "flush", "loop"}
        /\ pc' = "verify" => pc = "sink_last"
    BY <1>10, SinkFrame DEF plan
  <2>2. PICK T : entries \in Seq(T)
    BY DEF Tiling
  <2>3. "sink_stopped" \notin outcome /\ record # <<>> /\ acked.records < caps.records
    BY <2>1 DEF Shape, Sending
  <2>4. /\ Len(record) \in Nat \ {0} /\ Len(record) <= caps.perRecord
        /\ acked.records \in Nat /\ bytesRead \in Nat
    BY <2>3, SMTT(60) DEF Shape
  <2>5. bytesRead = Taken + Len(record) /\ Len(entries) = acked.records /\ Taken \in Nat
    BY <2>2, <2>3, <2>4, SMTT(60) DEF Tiling, Joined, Taken, entries
  <2>6. caps.records \in Nat /\ caps.perRecord \in Nat
    BY Limits DEF Shape
  <2>7. AllComplete
    BY <2>1 DEF Tiling
  <2>8. outcome \subseteq outcome'
    BY <1>10, SinkAnswers
  <2>9. state # Complete => pc = "sink_last" /\ "saw_fragment" \in outcome'
    BY <2>1, <2>8 DEF Tiling, Shape
  <2>10. CASE ledger' = ledger /\ "sink_stopped" \in outcome'
    <3>1. entries' = entries /\ AllComplete' = AllComplete
      BY <2>10 DEF entries, AllComplete
    <3>2. \A i \in DOMAIN entries : Joined(entries, i)' = Joined(entries, i)
      BY <2>1, <3>1 DEF Joined
    <3> QED
      BY <2>1, <2>7, <2>10, <3>1, <3>2 DEF Tiling
  <2>11. CASE ledger' = Accepted(ledger, Envelope, policy)
    <3>1. PICK e : /\ entries' = Append(entries, e) /\ DOMAIN ledger' = Fields
                   /\ e.cursor = Envelope.cursor /\ e.state = Envelope.state
      BY <2>11, AcceptedFields, SMTT(60) DEF Tiling, entries
    <3>2. e.cursor = <<Taken, bytesRead>> /\ e.state = state
      <4>1. bytesRead - Len(record) = Taken
        BY <2>4, <2>5, SMTT(60)
      <4> QED
        BY <3>1, <4>1 DEF Envelope
    <3>3. \A i \in DOMAIN entries' : Joined(entries', i)
      <4>1. Taken < bytesRead /\ bytesRead <= Taken + caps.perRecord
        BY <2>4, <2>5, <2>6, SMTT(60)
      <4>2. Taken = IF entries = <<>> THEN 0 ELSE entries[Len(entries)].cursor[2]
        BY DEF Taken, entries
      <4>3. \A i \in DOMAIN entries : Joined(entries, i)
        BY DEF Tiling
      <4> QED
        BY <2>2, <2>4, <2>5, <3>1, <3>2, <4>1, <4>2, <4>3, AppendJoined
    <3>4. /\ entries' \in Seq(T \cup {e}) /\ Len(entries') = Len(entries) + 1
          /\ Len(entries) \in Nat /\ DOMAIN entries' = 1 .. Len(entries) + 1
          /\ DOMAIN entries = 1 .. Len(entries)
          /\ entries'[Len(entries) + 1] = e /\ \A i \in 1 .. Len(entries) : entries'[i] = entries[i]
      BY <2>2, <3>1, SMTT(60)
    <3>5. Taken' = bytesRead
      <4>1. entries' # <<>> /\ entries'[Len(entries')].cursor[2] = bytesRead
        BY <3>2, <3>4, SMTT(60)
      <4> QED
        BY <4>1 DEF Taken, entries
    <3>6. \A i \in DOMAIN entries' : entries'[i].state # Complete => i = Len(entries')
      BY <2>7, <3>4, SMTT(60) DEF AllComplete
    <3>7. state = Complete => AllComplete'
      BY <2>7, <3>2, <3>4, SMTT(60) DEF AllComplete
    <3>8. "sink_stopped" \notin outcome' => Len(entries') = acked'.records
      BY <1>10, <2>5, <3>4, SinkAnswers
    <3>9. Len(entries') <= caps.records
      BY <2>3, <2>4, <2>5, <2>6, <3>4, SMTT(60)
    <3>10. bytesRead' = Taken' + Len(record')
      BY <2>1, <2>4, <3>5, SMTT(60)
    <3>11. \A i \in DOMAIN entries' : Joined(entries, i)'
      BY <2>1, <3>3 DEF Joined
    <3>12. pc' \notin Ended \/ "saw_fragment" \notin outcome' => state = Complete
      BY <2>1, <2>9, <1>10, SinkFrame
    <3>13. \E U : entries' \in Seq(U)
      BY <3>4
    <3> QED
      BY <2>1, <3>1, <3>6, <3>7, <3>8, <3>9, <3>10, <3>11, <3>12, <3>13 DEF Tiling
  <2> QED
    BY <1>10, <2>10, <2>11, SinkAnswers
<1>11. CASE Verify \/ Finish \/ Seal
  BY <1>11, QuietTiling DEF Verify, Finish, Seal, Refuses, stream, plan
<1>12. CASE Write \/ Rename \/ Cancel \/ Expire \/ Done \/ UNCHANGED vars
  <2>1. UNCHANGED <<plan, stream, pc>>
    BY <1>12 DEF Write, Rename, Cancel, Expire, Done, vars
  <2>2. UNCHANGED <<caps, bytesRead, record, acked, ledger, outcome, state>>
    BY <2>1 DEF stream, plan
  <2> QED
    BY <2>1, <2>2, QuietTiling
<1> QED
  BY <1>1, <1>2, <1>3, <1>4, <1>5, <1>6, <1>7, <1>8, <1>9, <1>10, <1>11, <1>12
  DEF Next, Acquires

\* The tiling is what the model checker checks.
LEMMA TilingTiles == Tiling => RecordsTile
  BY DEF Tiling, RecordsTile, Joined, entries

\* The records the ledger takes of a local file tile the bytes read from its
\* start, within the caps, whatever is written to the file meanwhile, wherever
\* the stream stops and whatever the sink answers (stream_exact_snapshot).
THEOREM RecordsAlwaysTile == Spec => []RecordsTile
<1>1. Init => Shape /\ Tiling
  BY InitShape, InitTiling
<1>2. Shape /\ Tiling /\ [Next]_vars => Shape' /\ Tiling'
  BY StepShape, StepTiling
<1> QED
  BY <1>1, <1>2, TilingTiles, PTL DEF Spec

-----------------------------------------------------------------------------
(* Counting. *)

\* Unless the sink has failed, the two accounts are the same; a fragment the
\* ledger has seen the adapter has noted, and a completion is the adapter's account.
Counting ==
  /\ "sink_stopped" \notin outcome =>
       /\ acked.records = ledger.records /\ acked.payload = ledger.payload
       /\ acked.source = ledger.source
  /\ "saw_fragment" \notin outcome => ledger.sawFragment = FALSE
  /\ \A i \in DOMAIN entries : entries[i].id[1] = i - 1
  /\ pc = "seal" =>
       /\ completion.records = acked.records /\ completion.payload = acked.payload
       /\ completion.source = acked.source
       /\ completion.complete => outcome = {}
       /\ "sink_stopped" \in outcome => "sink_failure" \in completion.reasons
  /\ pc # "done" => sealed = NotYet
  /\ AccountsAgree

\* Both accounts start at nothing.
LEMMA InitCounting == Init => Counting
  BY SMTT(60) DEF Init, Counting, NewBuilder, entries, AccountsAgree, NotYet

\* A step that does not send, finish or seal keeps the accounts.
LEMMA QuietCounting ==
  ASSUME Counting, UNCHANGED <<acked, ledger, sealed>>, outcome \subseteq outcome',
         \/ pc # "done" /\ pc' # "seal"
         \/ UNCHANGED <<pc, outcome, completion>>
  PROVE  Counting'
<1>1. entries' = entries
  BY DEF entries
<1>2. AccountsAgree'
  BY DEF Counting, AccountsAgree, NotYet
<1>3. pc' # "done" => sealed' = NotYet
  BY DEF Counting
<1> QED
  BY <1>1, <1>2, <1>3 DEF Counting

\* Record numbers are positions, so no two identities are equal.
LEMMA CountingReconciles ==
  ASSUME Counting, Tiling PROVE Reconciles(ledger)
<1>1. \A i \in DOMAIN entries : i \in Nat /\ entries[i].id[1] = i - 1
  BY SMTT(60) DEF Counting, Tiling
<1>2. ASSUME NEW i \in DOMAIN entries, NEW j \in DOMAIN entries,
             entries[i].id = entries[j].id
      PROVE  i = j
  BY <1>1, <1>2, SMTT(60)
<1> QED
  BY <1>2 DEF Reconciles, entries

\* A failure of the sink is among the reasons.
LEMMA SinkFailureNamed ==
  ASSUME NEW flags, "sink_stopped" \in flags
  PROVE  "sink_failure" \in Reasons(flags)
  BY DEF Reasons

\* Every step keeps the accounts.
LEMMA StepCounting == Shape /\ Tiling /\ Counting /\ [Next]_vars => Counting'
<1> SUFFICES ASSUME Shape, Tiling, Counting, [Next]_vars PROVE Counting'
  OBVIOUS
<1>1. CASE OpenFirst \/ OpenSecond \/ Retain \/ Start \/ Revalidate \/ Refused
  <2>1. /\ UNCHANGED <<stream, sealed>> /\ pc # "done" /\ pc' # "seal"
    BY <1>1 DEF OpenFirst, OpenSecond, Retain, Start, Revalidate, Refused, GoesOn, Refuses,
                Preflighting, Starting
  <2>2. UNCHANGED <<acked, ledger, outcome>>
    BY <2>1 DEF stream
  <2> QED
    BY <2>1, <2>2, QuietCounting
<1>2. CASE Begin
  BY <1>2, QuietCounting DEF Begin, Shape, Early
<1>3. CASE EndOfSnapshot \/ CapReached
  BY <1>3, QuietCounting DEF EndOfSnapshot, CapReached, stream
<1>4. CASE BeforeRead
  BY <1>4, QuietCounting DEF BeforeRead, LoopsUnlessStopped
<1>5. CASE ReadByte
  BY <1>5, QuietCounting DEF ReadByte, LoopsUnlessStopped
<1>6. CASE ReadStops
  BY <1>6, QuietCounting DEF ReadStops
<1>7. CASE ReadInterrupted
  BY <1>7, QuietCounting DEF ReadInterrupted, LoopsUnlessStopped
<1>8. CASE Emit
  BY <1>8, QuietCounting DEF Emit
<1>9. CASE Flush
  BY <1>9, QuietCounting DEF Flush
<1>10. CASE Sink
  <2>1. /\ UNCHANGED <<state, sealed, completion>>
        /\ pc \in {"sink", "sink_last"} /\ pc' \in {"verify", "flush", "loop"}
    BY <1>10, SinkFrame
  <2>2. outcome \subseteq outcome'
    BY <1>10, SinkAnswers
  <2>3. CASE ledger' = ledger /\ acked' = acked
    BY <2>1, <2>2, <2>3, QuietCounting
  <2>4. CASE ledger' = Accepted(ledger, Envelope, policy)
    <3>1. PICK e : entries' = Append(entries, e) /\ e.id = SourceRecordId(Envelope)
      BY <2>4, AcceptedFields, SMTT(60) DEF Tiling, entries
    <3>2. "sink_stopped" \notin outcome
      BY <2>1 DEF Shape, Sending
    <3>3. e.id[1] = Len(entries)
      BY <3>1, <3>2, SMTT(60) DEF SourceRecordId, Envelope, Tiling
    <3>4. \A i \in DOMAIN entries' : entries'[i].id[1] = i - 1
      <4>1. PICK T : entries \in Seq(T)
        BY DEF Tiling
      <4>2. /\ Len(entries) \in Nat /\ DOMAIN entries' = 1 .. Len(entries) + 1
            /\ DOMAIN entries = 1 .. Len(entries)
            /\ entries'[Len(entries) + 1] = e
            /\ \A i \in 1 .. Len(entries) : entries'[i] = entries[i]
        BY <3>1, <4>1, SMTT(60)
      <4> QED
        BY <3>3, <4>2, SMTT(60) DEF Counting
    <3>5. /\ Envelope.bytes = record /\ Envelope.state = state
      BY DEF Envelope
    <3> DEFINE a == Accepted(ledger, Envelope, policy)
    <3>6. /\ a.records = ledger.records + 1
          /\ a.payload = ledger.payload + PayloadLength(Envelope.bytes)
          /\ a.source = ledger.source + Len(Envelope.bytes)
          /\ a.sawFragment = (ledger.sawFragment \/ Envelope.state # Complete)
      <4>1. DOMAIN ledger = Fields
        BY DEF Tiling
      <4> QED
        BY <4>1, AcceptedFields, SMTT(60)
    <3> HIDE DEF a
    <3>7. /\ ledger'.records = ledger.records + 1
          /\ ledger'.payload = ledger.payload + PayloadLength(record)
          /\ ledger'.source = ledger.source + Len(record)
          /\ ledger'.sawFragment = (ledger.sawFragment \/ Envelope.state # Complete)
      BY <2>4, <3>5, <3>6 DEF a
    <3>8. "saw_fragment" \notin outcome' => ledger'.sawFragment = FALSE
      <4>1. SUFFICES ASSUME "saw_fragment" \notin outcome'
                     PROVE  ledger.sawFragment = FALSE /\ state = Complete
        BY <3>5, <3>7
      <4> QED
        BY <2>1, <2>2, <4>1 DEF Counting, Tiling, Shape
    <3>9. "sink_stopped" \notin outcome' =>
            /\ acked'.records = ledger'.records /\ acked'.payload = ledger'.payload
            /\ acked'.source = ledger'.source
      BY <1>10, <3>2, <3>7, SinkAnswers DEF Counting
    <3>10. AccountsAgree' /\ sealed' = NotYet
      BY <2>1 DEF Counting, AccountsAgree, NotYet
    <3> QED
      BY <2>1, <3>4, <3>8, <3>9, <3>10 DEF Counting
  <2> QED
    BY <1>10, <2>3, <2>4, SinkAnswers
<1>11. CASE Verify
  BY <1>11, QuietCounting DEF Verify
<1>12. CASE Finish
  <2>1. /\ pc = "finish" /\ UNCHANGED <<acked, ledger, sealed>> /\ outcome \subseteq outcome'
        /\ \/ pc' = "done"
           \/ pc' = "seal" /\ completion' = CompletionOf(outcome')
    BY <1>12 DEF Finish, Refuses
  <2>2. CASE pc' = "done"
    BY <2>1, <2>2, QuietCounting
  <2>3. CASE pc' = "seal" /\ completion' = CompletionOf(outcome')
    <3>1. /\ completion'.records = acked.records /\ completion'.payload = acked.payload
          /\ completion'.source = acked.source
      BY <2>3 DEF CompletionOf
    <3>2. completion'.complete = FullyAcquired(outcome')
      BY <2>3 DEF CompletionOf
    <3>3. completion'.complete => outcome' = {}
      BY <3>2 DEF FullyAcquired
    <3>4. "sink_stopped" \in outcome' => "sink_failure" \in completion'.reasons
      <4>1. SUFFICES ASSUME "sink_stopped" \in outcome'
                     PROVE  "sink_failure" \in completion'.reasons
        OBVIOUS
      <4>2. ~FullyAcquired(outcome')
        BY <4>1 DEF FullyAcquired
      <4>3. completion'.reasons = Reasons(outcome')
        BY <2>3, <4>2 DEF CompletionOf
      <4> QED
        BY <4>1, <4>3, SinkFailureNamed
    <3>5. entries' = entries /\ sealed' = NotYet /\ AccountsAgree'
      BY <2>1 DEF Counting, AccountsAgree, entries, NotYet
    <3> QED
      BY <2>1, <2>3, <3>1, <3>3, <3>4, <3>5 DEF Counting
  <2> QED
    BY <2>1, <2>2, <2>3
<1>13. CASE Seal
  <2>1. /\ pc = "seal" /\ pc' = "done" /\ UNCHANGED <<stream, completion>>
        /\ sealed' = IF Seals(ledger, completion) THEN "sealed" ELSE "refused"
    BY <1>13 DEF Seal
  <2>2. UNCHANGED <<outcome, acked, ledger, entries>>
    BY <2>1 DEF stream, entries
  <2>3. "sink_stopped" \notin outcome => Seals(ledger, completion)
    <3>1. completion.complete => ledger.sawFragment = FALSE
      BY <2>1 DEF Counting
    <3> QED
      BY <2>1, <3>1, CountingReconciles DEF Counting, Seals
  <2>4. AccountsAgree'
    BY <2>1, <2>2, <2>3 DEF Counting, AccountsAgree
  <2> QED
    BY <2>1, <2>2, <2>4 DEF Counting
<1>14. CASE Write \/ Rename \/ Cancel \/ Expire \/ Done \/ UNCHANGED vars
  <2>1. UNCHANGED <<stream, pc, completion, sealed>>
    BY <1>14 DEF Write, Rename, Cancel, Expire, Done, vars
  <2>2. UNCHANGED <<acked, ledger, outcome>>
    BY <2>1 DEF stream
  <2> QED
    BY <2>1, <2>2, QuietCounting
<1> QED
  BY <1>1, <1>2, <1>3, <1>4, <1>5, <1>6, <1>7, <1>8, <1>9, <1>10, <1>11, <1>12, <1>13, <1>14
  DEF Next, Acquires

\* However an acquisition is stopped, sealing refuses its completion only when
\* the completion itself names a failure of the sink (finish_execution, seal).
THEOREM AccountsAlwaysAgree == Spec => []AccountsAgree
<1>1. Init => Shape /\ Tiling /\ Counting
  BY InitShape, InitTiling, InitCounting
<1>2. Shape /\ Tiling /\ Counting /\ [Next]_vars => Shape' /\ Tiling' /\ Counting'
  BY StepShape, StepTiling, StepCounting
<1>3. Counting => AccountsAgree
  BY DEF Counting
<1> QED
  BY <1>1, <1>2, <1>3, PTL DEF Spec

-----------------------------------------------------------------------------
(* Reading. *)

\* The record in hand is at most one line, and a whole one when it is sent as one.
Hand ==
  /\ Len(record) <= bytesRead
  /\ \A i \in 1 .. Len(record) - 1 : record[i] # Newline
  /\ pc \in {"loop", "read"} => \A i \in 1 .. Len(record) : record[i] # Newline
  /\ pc \in {"emit", "sink"} => record[Len(record)] = Newline
  /\ pc = "sink_last" /\ state = Complete =>
       record[Len(record)] = Newline \/ bytesRead = HighWater
  /\ pc \in {"verify", "finish"} => record = <<>> \/ SinkUnavailable
  /\ pc \in Early => entries = <<>>

\* Nothing is in hand and nothing taken at the start.
LEMMA InitHand == Init => Hand
<1> SUFFICES ASSUME Init PROVE Hand
  OBVIOUS
<1>1. record = <<>> /\ bytesRead = 0 /\ pc = "open_first" /\ entries = <<>>
  BY DEF Init, NewBuilder, entries
<1>2. Len(record) = 0
  BY <1>1
<1> QED
  BY <1>1, <1>2, SMTT(60) DEF Hand

\* A step that neither reads nor sends keeps the line in hand.
LEMMA QuietHand ==
  ASSUME Hand, UNCHANGED <<plan, bytesRead, record, ledger>>, outcome \subseteq outcome',
         pc' \in {"loop", "read"} => pc \in {"loop", "read"} \/ record = <<>>,
         pc' \in {"emit", "sink"} => pc \in {"emit", "sink"},
         pc' = "sink_last" /\ state' = Complete =>
           \/ pc = "sink_last" /\ state = Complete
           \/ record[Len(record)] = Newline \/ bytesRead = HighWater,
         pc' \in {"verify", "finish"} =>
           pc \in {"verify", "finish"} \/ record = <<>> \/ SinkUnavailable,
         pc' \in Early => pc \in Early
  PROVE  Hand'
<1>1. HighWater' = HighWater /\ entries' = entries
  BY LimitsFixed DEF entries
<1>2. SinkUnavailable => SinkUnavailable'
  BY DEF SinkUnavailable
<1>3. record = <<>> => Len(record) = 0
  BY SMTT(60)
<1>4. pc' \in {"loop", "read"} => \A i \in 1 .. Len(record) : record[i] # Newline
  BY <1>3, SMTT(60) DEF Hand
<1> QED
  BY <1>1, <1>2, <1>4 DEF Hand

\* No reason for a fragment is taken for completeness.
LEMMA FragmentIsNamed == FragmentReason # Complete
  BY DEF FragmentReason, Complete

\* Every step keeps the line in hand.
LEMMA StepHand == Shape /\ Hand /\ [Next]_vars => Hand'
<1> SUFFICES ASSUME Shape, Hand, [Next]_vars PROVE Hand'
  OBVIOUS
<1> USE DEF Early, Preflighting, Starting
<1>1. CASE OpenFirst \/ OpenSecond \/ Retain \/ Start \/ Revalidate \/ Refused
  <2>1. /\ UNCHANGED <<plan, stream>>
        /\ pc \in Preflighting \cup Starting /\ pc' \in Early \cup {"done"}
    BY <1>1 DEF OpenFirst, OpenSecond, Retain, Start, Revalidate, Refused, GoesOn, Refuses
  <2>2. UNCHANGED <<bytesRead, record, ledger, outcome>>
    BY <2>1 DEF stream
  <2> QED
    BY <2>1, <2>2, QuietHand
<1>2. CASE Begin
  BY <1>2, QuietHand DEF Begin, Shape
<1>3. CASE EndOfSnapshot \/ CapReached
  BY <1>3, QuietHand DEF EndOfSnapshot, CapReached, stream
<1>4. CASE BeforeRead
  BY <1>4, QuietHand DEF BeforeRead, LoopsUnlessStopped
<1>5. CASE ReadByte
  <2> DEFINE byte == file[fd].bytes[bytesRead + 1]
  <2>1. /\ pc = "read" /\ bytesRead' = bytesRead + 1 /\ record' = Append(record, byte)
        /\ pc' = IF outcome' = {} THEN IF byte = Newline THEN "emit" ELSE "loop" ELSE "flush"
        /\ UNCHANGED <<ledger, state>>
    BY <1>5 DEF ReadByte, LoopsUnlessStopped
  <2> HIDE DEF byte
  <2>2. PICK T : record \in Seq(T)
    BY DEF Shape
  <2>3. /\ Len(record) \in Nat /\ Len(record') = Len(record) + 1
        /\ record'[Len(record) + 1] = byte
        /\ \A i \in 1 .. Len(record) : record'[i] = record[i]
    BY <2>1, <2>2, SMTT(60)
  <2>4. \A i \in 1 .. Len(record) : record[i] # Newline
    BY <2>1 DEF Hand
  <2>5. Len(record') <= bytesRead'
    BY <2>1, <2>3, SMTT(60) DEF Hand, Shape
  <2>6. /\ pc' \in {"emit", "loop", "flush"}
        /\ pc' = "emit" => byte = Newline
        /\ pc' = "loop" => byte # Newline
    BY <2>1
  <2> QED
    BY <2>3, <2>4, <2>5, <2>6, SMTT(60) DEF Hand
<1>6. CASE ReadStops
  BY <1>6, QuietHand DEF ReadStops
<1>7. CASE ReadInterrupted
  BY <1>7, QuietHand DEF ReadInterrupted, LoopsUnlessStopped
<1>8. CASE Emit
  BY <1>8, QuietHand DEF Emit
<1>9. CASE Flush
  <2>1. /\ UNCHANGED <<plan, bytesRead, record, ledger>> /\ outcome \subseteq outcome'
        /\ \/ pc' = "verify" /\ (record = <<>> \/ SinkUnavailable)
           \/ pc' = "sink_last" /\ state' = IF LastIsComplete THEN Complete ELSE FragmentReason
    BY <1>9 DEF Flush
  <2>2. pc' = "sink_last" /\ state' = Complete =>
          record[Len(record)] = Newline \/ bytesRead = HighWater
    BY <2>1, FragmentIsNamed DEF LastIsComplete
  <2> QED
    BY <2>1, <2>2, QuietHand
<1>10. CASE Sink
  <2>1. bytesRead' = bytesRead /\ record' = <<>> /\ pc' \in {"verify", "flush", "loop"}
    BY <1>10, SinkFrame
  <2>2. Len(record') = 0
    BY <2>1
  <2> QED
    BY <2>1, <2>2, SMTT(60) DEF Hand, Shape
<1>11. CASE Verify \/ Finish \/ Seal
  BY <1>11, QuietHand DEF Verify, Finish, Seal, Refuses, stream
<1>12. CASE Write \/ Rename \/ Cancel \/ Expire \/ Done \/ UNCHANGED vars
  <2>1. UNCHANGED <<plan, stream, pc>>
    BY <1>12 DEF Write, Rename, Cancel, Expire, Done, vars
  <2>2. UNCHANGED <<bytesRead, record, ledger, outcome, state>>
    BY <2>1 DEF stream
  <2> QED
    BY <2>1, <2>2, QuietHand
<1> QED
  BY <1>1, <1>2, <1>3, <1>4, <1>5, <1>6, <1>7, <1>8, <1>9, <1>10, <1>11, <1>12
  DEF Next, Acquires

\* As long as the descriptor is of the planned file and nobody has written to
\* it, what was read is what was planned; a verified end says this was so to
\* the last read, since no change takes the stamp back.
Untouched == fd = Planned /\ file[Planned].stamp = 0

ReadsPlanned == \A i \in 1 .. Len(record) : record[i] = planned[bytesRead - Len(record) + i]

Lines == \A i \in DOMAIN entries : IsLine(entries[i])

Reading ==
  /\ Planned \in DOMAIN file /\ file[Planned].stamp \in Nat
  /\ file[Planned].stamp = 0 => file[Planned].bytes = planned
  /\ pc \in Observing /\ Untouched => ReadsPlanned /\ Lines
  /\ pc = "finish" /\ "unverified" \notin outcome => Lines
  /\ pc \notin {"seal", "done"} => ~completion.returned
  /\ completion.returned /\ completion.highWater => Lines
  /\ completion.returned /\ completion.complete =>
       /\ completion.highWater /\ completion.reasons = {}
       /\ Taken = HighWater /\ AllComplete

\* The file starts as it was planned.
LEMMA InitReading == Init => Reading
<1> SUFFICES ASSUME Init PROVE Reading
  OBVIOUS
<1>1. /\ Planned \in DOMAIN file /\ file[Planned].stamp = 0 /\ file[Planned].bytes = planned
      /\ pc = "open_first" /\ record = <<>> /\ entries = <<>>
  BY DEF Init, NewBuilder, entries
<1>2. ~completion.returned
  BY DEF Init, NoCompletion
<1>3. Len(record) = 0 /\ DOMAIN entries = {}
  BY <1>1, SMTT(60)
<1>4. ReadsPlanned /\ Lines
  BY <1>3, SMTT(60) DEF ReadsPlanned, Lines
<1> QED
  BY <1>1, <1>2, <1>4, SMTT(60) DEF Reading

\* A line stays one: the plan does not change.
LEMMA LinesKept ==
  ASSUME UNCHANGED <<plan, ledger>>
  PROVE  Lines' = Lines /\ AllComplete' = AllComplete /\ Taken' = Taken
<1>1. entries' = entries /\ UNCHANGED planned /\ HighWater' = HighWater
  BY LimitsFixed DEF entries
<1>2. \A e : IsLine(e)' = IsLine(e)
  BY <1>1 DEF IsLine
<1> QED
  BY <1>1, <1>2 DEF Lines, AllComplete, Taken, entries

\* Nothing is in hand or taken before the stream begins.
LEMMA EarlyReads ==
  ASSUME Shape, Hand, pc \in Early PROVE ReadsPlanned /\ Lines
<1>1. record = <<>> /\ entries = <<>>
  BY DEF Shape, Hand
<1>2. Len(record) = 0 /\ DOMAIN entries = {}
  BY <1>1, SMTT(60)
<1> QED
  BY <1>2, SMTT(60) DEF ReadsPlanned, Lines

\* A step that neither reads, sends, verifies nor finishes keeps what was read.
LEMMA QuietReading ==
  ASSUME Reading, Shape, Hand, UNCHANGED <<plan, bytesRead, record, ledger>>,
         UNCHANGED file, UNCHANGED fd \/ pc \in Early, UNCHANGED completion,
         pc' \in Observing => pc \in Observing,
         pc' = "finish" => pc = "finish" /\ UNCHANGED outcome,
         pc' \in {"seal", "done"} \/ pc \notin {"seal", "done"}
  PROVE  Reading'
<1>1. Lines' = Lines /\ AllComplete' = AllComplete /\ Taken' = Taken /\ HighWater' = HighWater
  BY LinesKept, LimitsFixed
<1>2. UNCHANGED planned
  BY DEF plan
<1>3. ReadsPlanned' = ReadsPlanned
  BY <1>2 DEF ReadsPlanned
<1>4. pc' \in Observing /\ Untouched' => ReadsPlanned /\ Lines
  BY EarlyReads DEF Reading, Untouched
<1> QED
  BY <1>1, <1>2, <1>3, <1>4 DEF Reading

\* A refusal leaves no completion behind.
LEMMA RefusedReading ==
  ASSUME Reading, UNCHANGED <<plan, ledger, file>>, Refuses PROVE Reading'
<1>1. ~completion'.returned /\ pc' = "done"
  BY DEF Refuses, NoCompletion
<1>2. UNCHANGED planned
  BY DEF plan
<1> QED
  BY <1>1, <1>2 DEF Reading, Observing

\* Bytes kept exactly are the bytes taken.
LEMMA ExactBytes ==
  ASSUME NEW bytes PROVE AuthorizedBytes("source_exact", bytes) = bytes
  BY DEF AuthorizedBytes

\* A record read from the planned bytes and sent is a line of them.
LEMMA SentIsLine ==
  ASSUME Shape, Hand, ReadsPlanned, pc \in {"sink", "sink_last"}, NEW e,
         e.cursor = Envelope.cursor, e.state = Envelope.state,
         e.bytes = AuthorizedBytes(e.basis, Envelope.bytes)
  PROVE  IsLine(e)
<1> DEFINE lo == bytesRead - Len(record)
<1>1. planned \in Seq(Byte) /\ bytesRead <= Len(planned) /\ Len(planned) \in Nat
  BY AcquisitionAssumption, Limits, SMTT(60) DEF Shape
<1>2. PICK T : record \in Seq(T)
  BY DEF Shape
<1>3. /\ Len(record) \in Nat \ {0} /\ bytesRead \in Nat /\ Len(record) <= bytesRead
      /\ lo \in Nat /\ bytesRead = lo + Len(record)
  BY <1>2, SMTT(60) DEF Shape, Hand
<1>4. /\ e.cursor[1] = lo /\ e.cursor[2] = bytesRead /\ e.state = state
      /\ e.bytes = AuthorizedBytes(e.basis, record)
  BY SMTT(60) DEF Envelope
<1> HIDE DEF lo
<1>5. \A i \in 1 .. Len(record) : record[i] = planned[lo + i]
  BY DEF ReadsPlanned, lo
<1>6. e.basis = "source_exact" => e.bytes = SubSeq(planned, lo + 1, bytesRead)
  <2> DEFINE cut == SubSeq(planned, lo + 1, bytesRead)
  <2>1. cut = [i \in 1 .. Len(record) |-> planned[lo + i]]
    <3>1. /\ cut \in Seq(Byte) /\ Len(cut) = Len(record)
          /\ \A i \in 1 .. Len(record) : cut[i] = planned[lo + i]
      BY <1>1, <1>3, SMTT(60)
    <3> QED
      BY <3>1, SMTT(60)
  <2>2. record = [i \in 1 .. Len(record) |-> planned[lo + i]]
    BY <1>2, <1>5, SMTT(60)
  <2> QED
    BY <1>4, <2>1, <2>2, ExactBytes, SMTT(60)
<1>7. \A i \in lo + 1 .. bytesRead - 1 : planned[i] # Newline
  <2>1. SUFFICES ASSUME NEW i \in lo + 1 .. bytesRead - 1 PROVE planned[i] # Newline
    OBVIOUS
  <2>2. i - lo \in 1 .. Len(record) - 1 /\ i - lo \in 1 .. Len(record) /\ lo + (i - lo) = i
    BY <1>3, <2>1, SMTT(60)
  <2> QED
    BY <1>5, <2>2 DEF Hand
<1>8. state = Complete => planned[bytesRead] = Newline \/ bytesRead = HighWater
  <2>1. Len(record) \in 1 .. Len(record) /\ record[Len(record)] = planned[bytesRead]
    BY <1>3, <1>5, SMTT(60)
  <2> QED
    BY <2>1 DEF Hand
<1> QED
  BY <1>4, <1>6, <1>7, <1>8 DEF IsLine

\* Every step keeps what was read true to the plan.
LEMMA StepReading == Shape /\ Tiling /\ Hand /\ Reading /\ [Next]_vars => Reading'
<1> SUFFICES ASSUME Shape, Tiling, Hand, Reading, [Next]_vars PROVE Reading'
  OBVIOUS
<1> USE DEF Observing
<1>1. CASE OpenFirst \/ OpenSecond \/ Retain \/ Start \/ Revalidate \/ Refused
  <2>1. /\ UNCHANGED <<environment, plan, stream>> /\ pc \in Preflighting \cup Starting
        /\ Refuses \/ (pc' \in Early /\ UNCHANGED completion)
    BY <1>1 DEF OpenFirst, OpenSecond, Retain, Start, Revalidate, Refused, GoesOn,
                Early, Preflighting, Starting
  <2>2. UNCHANGED <<file, bytesRead, record, ledger, outcome>>
    BY <2>1 DEF stream, environment
  <2>3. pc \in Early /\ pc \in Observing
    BY <2>1 DEF Early, Preflighting, Starting
  <2>4. CASE pc' \in Early /\ UNCHANGED completion
    BY <2>1, <2>2, <2>3, <2>4, QuietReading DEF Early, Preflighting, Starting
  <2> QED
    BY <2>1, <2>2, <2>4, RefusedReading
<1>2. CASE Begin
  BY <1>2, QuietReading DEF Begin, environment
<1>3. CASE EndOfSnapshot \/ CapReached
  BY <1>3, QuietReading DEF EndOfSnapshot, CapReached, stream, environment
<1>4. CASE BeforeRead
  BY <1>4, QuietReading DEF BeforeRead, LoopsUnlessStopped, environment
<1>5. CASE ReadByte
  <2> DEFINE byte == file[fd].bytes[bytesRead + 1]
  <2>1. /\ pc = "read" /\ bytesRead' = bytesRead + 1 /\ record' = Append(record, byte)
        /\ pc' \in {"emit", "loop", "flush"}
        /\ UNCHANGED <<plan, ledger, file, fd, completion>>
    BY <1>5 DEF ReadByte, LoopsUnlessStopped, environment
  <2>2. Lines' = Lines /\ UNCHANGED planned
    BY <2>1, LinesKept DEF plan
  <2>3. Untouched => byte = planned[bytesRead + 1]
    BY DEF Reading, Untouched
  <2> HIDE DEF byte
  <2>4. PICK T : record \in Seq(T)
    BY DEF Shape
  <2>5. /\ Len(record) \in Nat /\ Len(record') = Len(record) + 1
        /\ record'[Len(record) + 1] = byte
        /\ \A i \in 1 .. Len(record) : record'[i] = record[i]
    BY <2>1, <2>4, SMTT(60)
  <2>6. bytesRead \in Nat
    BY DEF Shape
  <2>7. ASSUME Untouched PROVE ReadsPlanned'
    <3>1. ReadsPlanned
      BY <2>1, <2>7 DEF Reading
    <3>2. bytesRead' - Len(record') = bytesRead - Len(record)
      BY <2>1, <2>5, <2>6, SMTT(60)
    <3>3. ASSUME NEW i \in 1 .. Len(record') PROVE record'[i] = planned[bytesRead - Len(record) + i]
      <4>1. CASE i \in 1 .. Len(record)
        BY <2>5, <3>1, <4>1 DEF ReadsPlanned
      <4>2. CASE i = Len(record) + 1
        <5>1. bytesRead - Len(record) + i = bytesRead + 1
          BY <2>5, <2>6, <4>2, SMTT(60)
        <5> QED
          BY <2>3, <2>5, <2>7, <4>2, <5>1
      <4> QED
        BY <2>5, <4>1, <4>2, SMTT(60)
    <3> QED
      BY <2>2, <3>2, <3>3 DEF ReadsPlanned
  <2>8. Untouched' = Untouched
    BY <2>1 DEF Untouched
  <2>9. ~completion'.returned
    BY <2>1 DEF Reading
  <2> QED
    BY <2>1, <2>2, <2>7, <2>8, <2>9 DEF Reading
<1>6. CASE ReadStops
  BY <1>6, QuietReading DEF ReadStops, environment
<1>7. CASE ReadInterrupted
  BY <1>7, QuietReading DEF ReadInterrupted, LoopsUnlessStopped, environment
<1>8. CASE Emit
  BY <1>8, QuietReading DEF Emit, environment
<1>9. CASE Flush
  BY <1>9, QuietReading DEF Flush, environment
<1>10. CASE Sink
  <2>1. /\ UNCHANGED <<environment, plan, fd, bytesRead, completion>> /\ record' = <<>>
        /\ pc \in {"sink", "sink_last"} /\ pc' \in {"verify", "flush", "loop"}
    BY <1>10, SinkFrame
  <2>2. UNCHANGED <<file, planned>> /\ Untouched' = Untouched /\ HighWater' = HighWater
    BY <2>1, LimitsFixed DEF environment, Untouched
  <2>3. ReadsPlanned'
    <3>1. Len(record') = 0
      BY <2>1
    <3> QED
      BY <3>1, SMTT(60) DEF ReadsPlanned
  <2>4. ASSUME Untouched PROVE Lines'
    <3>1. ReadsPlanned /\ Lines
      BY <2>1, <2>4 DEF Reading
    <3>2. CASE ledger' = ledger
      BY <2>1, <3>1, <3>2, LinesKept
    <3>3. CASE ledger' = Accepted(ledger, Envelope, policy)
      <4>1. PICK e : /\ entries' = Append(entries, e)
                     /\ e.cursor = Envelope.cursor /\ e.state = Envelope.state
                     /\ e.bytes = AuthorizedBytes(e.basis, Envelope.bytes)
        BY <3>3, AcceptedFields, SMTT(60) DEF Tiling, entries
      <4>2. IsLine(e)
        BY <2>1, <3>1, <4>1, SentIsLine
      <4>3. PICK T : entries \in Seq(T)
        BY DEF Tiling
      <4>4. /\ Len(entries) \in Nat /\ DOMAIN entries' = 1 .. Len(entries) + 1
            /\ DOMAIN entries = 1 .. Len(entries)
            /\ entries'[Len(entries) + 1] = e
            /\ \A i \in 1 .. Len(entries) : entries'[i] = entries[i]
        BY <4>1, <4>3, SMTT(60)
      <4>5. \A i \in DOMAIN entries' : IsLine(entries'[i])
        BY <3>1, <4>2, <4>4, SMTT(60) DEF Lines
      <4> QED
        BY <4>5, <2>2 DEF Lines, IsLine
    <3> QED
      BY <1>10, <3>2, <3>3, SinkAnswers
  <2>5. ~completion'.returned
    BY <2>1 DEF Reading
  <2> QED
    BY <2>1, <2>2, <2>3, <2>4, <2>5 DEF Reading
<1>11. CASE Verify
  <2>1. /\ pc = "verify" /\ pc' = "finish"
        /\ UNCHANGED <<plan, ledger, file, fd, completion>>
    BY <1>11 DEF Verify, environment
  <2>2. "unverified" \notin outcome' => DescriptorValid(bytesRead)
    <3>1. PICK verified \in {DescriptorValid(bytesRead), FALSE} :
            outcome' = outcome
              \cup (IF ~SinkUnavailable /\ bytesRead # acked.source
                    THEN {"adapter_stopped"} ELSE {})
              \cup (IF verified THEN {} ELSE {"unverified"})
      BY <1>11 DEF Verify
    <3>2. ~verified => "unverified" \in outcome'
      BY <3>1
    <3>3. verified => DescriptorValid(bytesRead)
      BY <3>1
    <3> QED
      BY <3>2, <3>3
  <2>3. DescriptorValid(bytesRead) => Untouched
    BY DEF DescriptorValid, SnapshotOf, PlannedSnapshot, Untouched
  <2>4. Lines' = Lines /\ UNCHANGED planned
    BY <2>1, LinesKept DEF plan
  <2>5. ~completion'.returned
    BY <2>1 DEF Reading
  <2> QED
    BY <2>1, <2>2, <2>3, <2>4, <2>5 DEF Reading
<1>12. CASE Finish
  <2>1. /\ pc = "finish" /\ UNCHANGED <<plan, ledger, file, bytesRead, acked>>
        /\ outcome \subseteq outcome'
        /\ \/ Refuses
           \/ pc' = "seal" /\ completion' = CompletionOf(outcome')
    BY <1>12 DEF Finish, environment
  <2>2. CASE Refuses
    BY <2>1, <2>2, RefusedReading
  <2>3. CASE pc' = "seal" /\ completion' = CompletionOf(outcome')
    <3>1. /\ Lines' = Lines /\ AllComplete' = AllComplete /\ Taken' = Taken
          /\ HighWater' = HighWater /\ UNCHANGED planned
      BY <2>1, LinesKept, LimitsFixed
    <3>2. /\ completion'.highWater = ("unverified" \notin outcome')
          /\ completion'.complete = FullyAcquired(outcome')
      BY <2>3 DEF CompletionOf
    <3>3. completion'.highWater => Lines
      BY <2>1, <3>2 DEF Reading
    <3>4. ASSUME completion'.complete
          PROVE  /\ completion'.highWater /\ completion'.reasons = {}
                 /\ Taken = HighWater /\ AllComplete
      <4>1. FullyAcquired(outcome')
        BY <3>2, <3>4
      <4>2. outcome' = {} /\ outcome = {} /\ bytesRead = HighWater
        BY <2>1, <4>1 DEF FullyAcquired
      <4>3. completion'.reasons = {}
        BY <2>3, <4>1 DEF CompletionOf
      <4>4. record = <<>> /\ Len(record) = 0
        BY <2>1, <4>2 DEF Hand, SinkUnavailable
      <4>5. AllComplete /\ bytesRead = Taken + Len(record)
        BY <4>2 DEF Tiling
      <4>6. Taken \in Nat
        <5>1. PICK T : entries \in Seq(T)
          BY DEF Tiling
        <5> QED
          BY <5>1, SMTT(60) DEF Tiling, Joined, Taken, entries
      <4>7. "unverified" \notin outcome'
        BY <4>2
      <4>8. completion'.highWater
        BY <3>2, <4>7
      <4>9. Taken = HighWater
        BY <4>2, <4>4, <4>5, <4>6, SMTT(60)
      <4> QED
        BY <4>3, <4>5, <4>8, <4>9
    <3> QED
      BY <2>1, <2>3, <3>1, <3>3, <3>4 DEF Reading
  <2> QED
    BY <2>1, <2>2, <2>3
<1>13. CASE Seal
  BY <1>13, QuietReading DEF Seal, stream, environment
<1>14. CASE Write
  <2>1. UNCHANGED <<pc, plan, ledger, completion>> /\ pc \in Observing
    BY <1>14 DEF Write, stream
  <2>2. Planned \in DOMAIN file' /\ file'[Planned].stamp = file[Planned].stamp + 1
    <3>1. \E new : file' = [file EXCEPT ![Planned] = [bytes |-> new, stamp |-> @.stamp + 1]]
      BY <1>14 DEF Write
    <3> QED
      BY <3>1, SMTT(60) DEF Reading
  <2>3. file'[Planned].stamp \in Nat /\ file'[Planned].stamp # 0
    BY <2>2, SMTT(60) DEF Reading
  <2>4. ~Untouched' /\ ~completion'.returned
    BY <2>1, <2>3 DEF Untouched, Reading
  <2> QED
    BY <2>1, <2>2, <2>3, <2>4 DEF Reading
<1>15. CASE Rename \/ Cancel \/ Expire \/ Done \/ UNCHANGED vars
  <2>1. UNCHANGED <<file, pc, plan, fd, stream, completion>>
    BY <1>15 DEF Rename, Cancel, Expire, Done, vars, environment
  <2>2. UNCHANGED <<bytesRead, record, ledger, outcome>>
    BY <2>1 DEF stream
  <2> QED
    BY <2>1, <2>2, QuietReading
<1> QED
  BY <1>1, <1>2, <1>3, <1>4, <1>5, <1>6, <1>7, <1>8, <1>9, <1>10, <1>11, <1>12, <1>13, <1>14,
     <1>15
  DEF Next, Acquires

\* A completion that names the high-water mark is of the planned file, whoever
\* wrote to it meanwhile: every record the ledger holds is a line of it, and a
\* complete acquisition seals and holds all of them (the second validation of
\* the descriptor in execute_with, finish_execution).
THEOREM CompletionAlwaysHonest == Spec => []CompletionHonest
<1> DEFINE IInv == Shape /\ Tiling /\ Counting /\ Hand /\ Reading
<1>1. Init => IInv
  BY InitShape, InitTiling, InitCounting, InitHand, InitReading
<1>2. IInv /\ [Next]_vars => IInv'
  BY StepShape, StepTiling, StepCounting, StepHand, StepReading
<1>3. IInv => CompletionHonest
  <2>1. SUFFICES ASSUME Counting, Reading, completion.returned
                 PROVE  /\ completion.highWater =>
                             \A i \in DOMAIN ledger.entries : IsLine(ledger.entries[i])
                        /\ completion.complete =>
                             /\ completion.highWater /\ sealed # "refused"
                             /\ Taken = HighWater
                             /\ \A i \in DOMAIN ledger.entries : ledger.entries[i].state = Complete
    BY DEF CompletionHonest
  <2>2. completion.highWater => Lines
    BY <2>1 DEF Reading
  <2>3. completion.complete => /\ completion.highWater /\ completion.reasons = {}
                               /\ Taken = HighWater /\ AllComplete
    BY <2>1 DEF Reading
  <2>4. completion.complete => sealed # "refused"
    BY <2>1, <2>3 DEF Counting, AccountsAgree
  <2> QED
    BY <2>2, <2>3, <2>4 DEF Lines, AllComplete, entries
<1> QED
  BY <1>1, <1>2, <1>3, PTL DEF Spec

-----------------------------------------------------------------------------
(* Stopping. *)

\* A late read has set a flag, and a late sink call has left nothing to send.
Stopping ==
  /\ DOMAIN late = {"reads", "sinks"} /\ late.reads \in {0, 1} /\ late.sinks \in {0, 1}
  /\ late.reads = 1 => outcome # {}
  /\ late.sinks = 1 => record = <<>> /\ pc \in {"flush"} \cup Ended

\* What LateBy counts is noted by the next checkpoint.
LEMMA LateCounts ==
  ASSUME NEW what \in {"reads", "sinks"}, LateBy(what), DOMAIN late = {"reads", "sinks"},
         late[what] = 0
  PROVE  /\ DOMAIN late' = {"reads", "sinks"} /\ late'[what] \in {0, 1}
         /\ late'[what] = 1 => Checkpoint # {}
         /\ \A other \in {"reads", "sinks"} \ {what} : late'[other] = late[other]
<1>1. CASE cancelled \/ expired
  BY <1>1, SMTT(60) DEF LateBy, Checkpoint
<1>2. CASE ~(cancelled \/ expired)
  BY <1>2, SMTT(60) DEF LateBy
<1> QED
  BY <1>1, <1>2

\* Every step keeps late calls to one.
LEMMA StepStopping == Shape /\ Stopping /\ [Next]_vars => Stopping'
<1> SUFFICES ASSUME Shape, Stopping, [Next]_vars PROVE Stopping'
  OBVIOUS
<1> USE DEF Ended
<1>1. CASE OpenFirst \/ OpenSecond \/ Retain \/ Start \/ Revalidate \/ Refused
  <2>1. UNCHANGED <<stream, late>> /\ pc \in Preflighting \cup Starting
    BY <1>1 DEF OpenFirst, OpenSecond, Retain, Start, Revalidate, Refused,
                Preflighting, Starting
  <2> QED
    BY <2>1 DEF Stopping, stream, Preflighting, Starting
<1>2. CASE Begin
  BY <1>2 DEF Begin, Stopping, Shape, Early
<1>3. CASE EndOfSnapshot \/ CapReached \/ BeforeRead \/ ReadStops \/ ReadInterrupted \/ Emit
  <2>1. /\ UNCHANGED <<record, late>> /\ outcome \subseteq outcome'
        /\ pc \in {"loop", "read", "emit"}
    BY <1>3 DEF EndOfSnapshot, CapReached, BeforeRead, ReadStops, ReadInterrupted, Emit, stream
  <2> QED
    BY <2>1 DEF Stopping
<1>4. CASE ReadByte
  <2>1. /\ pc = "read" /\ LateBy("reads") /\ Checkpoint \subseteq outcome'
    BY <1>4 DEF ReadByte
  <2>2. late.reads = 0 /\ late.sinks = 0
    BY <2>1 DEF Stopping, Shape
  <2> QED
    BY <2>1, <2>2, LateCounts DEF Stopping
<1>5. CASE Flush
  <2>1. /\ UNCHANGED <<record, late>> /\ outcome \subseteq outcome' /\ pc = "flush"
        /\ record = <<>> => pc' = "verify"
    BY <1>5 DEF Flush
  <2> QED
    BY <2>1 DEF Stopping
<1>6. CASE Sink
  <2>1. /\ record' = <<>> /\ pc \in {"sink", "sink_last"}
        /\ pc' \in {"verify", "flush"} \/ (pc' = "loop" /\ outcome' = {})
    BY <1>6, SinkFrame
  <2>2. Checkpoint \subseteq outcome' /\ outcome \subseteq outcome'
    BY <1>6, SinkAnswers
  <2>3. LateBy("sinks")
    BY <1>6 DEF Sink
  <2>4. late.sinks = 0
    BY <2>1 DEF Stopping
  <2> QED
    BY <2>1, <2>2, <2>3, <2>4, LateCounts DEF Stopping
<1>7. CASE Verify \/ Finish \/ Seal
  <2>1. /\ UNCHANGED <<record, late>> /\ outcome \subseteq outcome' /\ pc' \in Ended
    BY <1>7 DEF Verify, Finish, Seal, Refuses, stream
  <2> QED
    BY <2>1 DEF Stopping
<1>8. CASE Write \/ Rename \/ Cancel \/ Expire \/ Done \/ UNCHANGED vars
  <2>1. UNCHANGED <<stream, pc, late>>
    BY <1>8 DEF Write, Rename, Cancel, Expire, Done, vars
  <2> QED
    BY <2>1 DEF Stopping, stream
<1> QED
  BY <1>1, <1>2, <1>3, <1>4, <1>5, <1>6, <1>7, <1>8 DEF Next, Acquires

\* After cancellation or the deadline at most one more byte is read and at
\* most one more record sent, whatever the file and the caps (the checkpoints
\* of stream_exact_snapshot and emit_record).
THEOREM AlwaysStopsPromptly == Spec => []StopsPromptly
<1>1. Init => Shape /\ Stopping
  BY InitShape, SMTT(60) DEF Init, Stopping
<1>2. Shape /\ Stopping /\ [Next]_vars => Shape' /\ Stopping'
  BY StepShape, StepStopping
<1>3. Stopping => StopsPromptly
  BY SMTT(60) DEF Stopping, StopsPromptly
<1> QED
  BY <1>1, <1>2, <1>3, PTL DEF Spec

-----------------------------------------------------------------------------
(* Reasons. *)

Flags == {"cancelled", "wall_time_cap", "record_count_cap", "per_record_byte_cap",
          "read_error", "unexpected_eof", "saw_fragment", "sink_stopped", "adapter_stopped",
          "unverified", "wall_clock_failed"}

Failed == outcome \cap {"read_error", "unexpected_eof"} # {}

\* Each flag that stops the stream short of the end says so truly, the byte cap
\* of the source is never one of them, and without a flag the end was reached.
Stated ==
  /\ outcome \subseteq Flags
  /\ pc \notin Preflighting \cup {"start", "done"} => HighWater <= caps.source
  /\ outcome \cap {"record_count_cap", "per_record_byte_cap"} # {} => bytesRead < HighWater
  /\ "saw_fragment" \in outcome => bytesRead < HighWater \/ Failed
  /\ pc \in {"flush", "sink_last", "verify", "finish"} /\ outcome = {} => bytesRead = HighWater
  /\ pc = "finish" /\ ~SinkUnavailable => bytesRead = acked.source
  /\ pc \notin {"seal", "done"} => ~completion.returned
  /\ ReasonsAccount

\* No flag is set at the start.
LEMMA InitStated == Init => Stated
  BY SMTT(60) DEF Init, Stated, Preflighting, NoCompletion, ReasonsAccount

\* A step that only adds flags that are true keeps them stated.
LEMMA QuietStated ==
  ASSUME Stated, Shape, UNCHANGED <<plan, bytesRead>>, outcome \subseteq outcome',
         outcome' \subseteq Flags,
         outcome' \cap {"record_count_cap", "per_record_byte_cap"} \subseteq outcome
           \/ bytesRead < HighWater,
         "saw_fragment" \in outcome' =>
           "saw_fragment" \in outcome \/ bytesRead < HighWater \/ Failed,
         pc' \in {"flush", "sink_last", "verify"} =>
           pc \in {"flush", "sink_last", "verify"} \/ outcome' # {} \/ bytesRead = HighWater,
         pc' = "finish" => pc = "finish" /\ UNCHANGED <<outcome, acked>>,
         pc' \in Preflighting \cup {"start", "done"}
           \/ pc \notin Preflighting \cup {"start", "done"} \/ HighWater <= caps.source,
         \/ UNCHANGED completion /\ (pc' \in {"seal", "done"} \/ pc \notin {"seal", "done"})
         \/ Refuses
  PROVE  Stated'
<1>1. HighWater' = HighWater /\ UNCHANGED <<planned, caps>>
  BY LimitsFixed
<1>2. Failed => Failed'
  BY DEF Failed
<1>3. pc' \notin {"seal", "done"} => ~completion'.returned
  BY DEF Stated, Refuses
<1>4. ReasonsAccount'
  <2>1. CASE UNCHANGED completion
    BY <1>1, <2>1 DEF Stated, ReasonsAccount
  <2>2. CASE Refuses
    <3>1. ~completion'.returned
      BY <2>2 DEF Refuses, NoCompletion
    <3> QED
      BY <3>1 DEF ReasonsAccount
  <2> QED
    BY <2>1, <2>2
<1>5. pc' = "finish" /\ ~SinkUnavailable' => bytesRead' = acked'.source
  BY DEF Stated, SinkUnavailable
<1>6. pc' \in {"flush", "sink_last", "verify", "finish"} /\ outcome' = {} => bytesRead = HighWater
  <2>1. outcome' = {} => outcome = {}
    OBVIOUS
  <2> QED
    BY <2>1 DEF Stated
<1>7. pc' \notin Preflighting \cup {"start", "done"} => HighWater <= caps.source
  BY DEF Stated
<1>8. outcome' \cap {"record_count_cap", "per_record_byte_cap"} # {} => bytesRead < HighWater
  BY DEF Stated
<1>9. "saw_fragment" \in outcome' => bytesRead < HighWater \/ Failed
  BY DEF Stated
<1> QED
  BY <1>1, <1>2, <1>3, <1>4, <1>5, <1>6, <1>7, <1>8, <1>9 DEF Stated

\* The reasons of flags that do not include the source's byte cap.
LEMMA ReasonsOfFlags ==
  ASSUME NEW flags, flags \subseteq Flags
  PROVE  /\ Reasons(flags) # {}
         /\ flags # {} => ("source_changed" \in Reasons(flags) <=> "unverified" \in flags)
         /\ flags # {} /\ AdapterOutcome(flags) = "finished" =>
              /\ flags \subseteq {"record_count_cap", "per_record_byte_cap", "saw_fragment"}
              /\ Reasons(flags) \subseteq {"record_count_cap", "record_truncated"}
<1> DEFINE named ==
      (flags \cap {"source_byte_cap", "record_count_cap", "wall_time_cap", "cancelled"})
      \cup (IF flags \cap {"read_error", "unexpected_eof"} # {} THEN {"source_read_error"} ELSE {})
      \cup (IF "unverified" \in flags THEN {"source_changed"} ELSE {})
      \cup (IF flags \cap {"saw_fragment", "per_record_byte_cap"} # {} THEN {"record_truncated"} ELSE {})
      \cup (IF "sink_stopped" \in flags THEN {"sink_failure"} ELSE {})
      \cup (IF flags \cap {"adapter_stopped", "wall_clock_failed"} # {} THEN {"other"} ELSE {})
<1>1. Reasons(flags) = IF named = {} THEN {"source_changed"} ELSE named
  BY DEF Reasons
<1>2. flags # {} => named # {}
  <2>1. SUFFICES ASSUME NEW f \in flags PROVE named # {}
    OBVIOUS
  <2>2. f \in Flags
    BY <2>1
  <2> QED
    BY <2>1, <2>2 DEF Flags
<1>3. "source_changed" \in named <=> "unverified" \in flags
  OBVIOUS
<1>4. ASSUME AdapterOutcome(flags) = "finished"
      PROVE  flags \cap {"sink_stopped", "adapter_stopped", "wall_clock_failed", "cancelled",
                         "wall_time_cap", "read_error", "unexpected_eof", "unverified"} = {}
  BY <1>4 DEF AdapterOutcome
<1>5. ASSUME AdapterOutcome(flags) = "finished"
      PROVE  /\ flags \subseteq {"record_count_cap", "per_record_byte_cap", "saw_fragment"}
             /\ named \subseteq {"record_count_cap", "record_truncated"}
  <2>1. flags \subseteq {"record_count_cap", "per_record_byte_cap", "saw_fragment"}
    BY <1>4, <1>5 DEF Flags
  <2> QED
    BY <2>1
<1> HIDE DEF named
<1> QED
  BY <1>1, <1>2, <1>3, <1>5

\* The account of flags that are true states the reasons truly.
LEMMA FinishStates ==
  ASSUME Shape, Stated, pc = "finish", NEW flags, outcome \subseteq flags,
         flags \subseteq outcome \cup {"cancelled", "wall_time_cap", "wall_clock_failed"}
  PROVE  LET c == CompletionOf(flags) IN
         ~c.complete =>
            /\ c.reasons # {}
            /\ "source_changed" \in c.reasons <=> ~c.highWater
            /\ c.outcome = "finished" =>
                 /\ c.reasons \subseteq {"record_count_cap", "record_truncated"}
                 /\ c.source < HighWater
<1> DEFINE c == CompletionOf(flags)
<1>1. /\ c.complete = FullyAcquired(flags)
      /\ c.highWater = ("unverified" \notin flags)
  BY DEF CompletionOf
<1>2. SUFFICES ASSUME ~FullyAcquired(flags)
               PROVE  /\ c.reasons # {}
                      /\ "source_changed" \in c.reasons <=> ~c.highWater
                      /\ c.outcome = "finished" =>
                           /\ c.reasons \subseteq {"record_count_cap", "record_truncated"}
                           /\ c.source < HighWater
  BY <1>1
<1>3. /\ c.reasons = Reasons(flags) /\ c.outcome = AdapterOutcome(flags)
      /\ c.source = acked.source
  BY <1>2 DEF CompletionOf
<1> HIDE DEF c
<1>4. flags \subseteq Flags
  BY DEF Stated, Flags
<1>5. flags # {}
  <2>1. SUFFICES ASSUME flags = {} PROVE FullyAcquired(flags)
    BY <1>2
  <2>2. outcome = {}
    BY <2>1
  <2>3. bytesRead = HighWater /\ ~SinkUnavailable
    BY <2>2 DEF Stated, SinkUnavailable
  <2> QED
    BY <2>1, <2>3 DEF Stated, FullyAcquired
<1>6. "source_changed" \in c.reasons <=> ~c.highWater
  <2>1. "source_changed" \in Reasons(flags) <=> "unverified" \in flags
    BY <1>4, <1>5, ReasonsOfFlags
  <2> QED
    BY <1>1, <1>3, <2>1
<1>7. ASSUME c.outcome = "finished"
      PROVE  /\ c.reasons \subseteq {"record_count_cap", "record_truncated"}
             /\ c.source < HighWater
  <2>1. /\ flags \subseteq {"record_count_cap", "per_record_byte_cap", "saw_fragment"}
        /\ Reasons(flags) \subseteq {"record_count_cap", "record_truncated"}
    BY <1>3, <1>4, <1>5, <1>7, ReasonsOfFlags
  <2>2. PICK f \in flags : f \in outcome
    BY <1>5, <2>1
  <2>3. ~Failed /\ ~SinkUnavailable
    BY <2>1 DEF Failed, SinkUnavailable
  <2>4. bytesRead < HighWater
    BY <2>1, <2>2, <2>3 DEF Stated
  <2> QED
    BY <1>3, <2>1, <2>3, <2>4 DEF Stated
<1> QED
  BY <1>3, <1>4, <1>6, <1>7, ReasonsOfFlags

\* Every step keeps the flags true.
LEMMA StepStated == Shape /\ Stated /\ [Next]_vars => Stated'
<1> SUFFICES ASSUME Shape, Stated, [Next]_vars PROVE Stated'
  OBVIOUS
<1>0. outcome \subseteq Flags /\ Checkpoint \subseteq Flags
  BY CheckpointFlags DEF Stated, Flags
<1>1. CASE OpenFirst \/ OpenSecond \/ Retain \/ Revalidate \/ Refused
  <2>1. /\ UNCHANGED <<plan, stream>>
        /\ \/ Refuses
           \/ UNCHANGED completion /\ pc = "revalidate" /\ pc' = "stream"
           \/ UNCHANGED completion /\ pc \in Preflighting /\ pc' \in Preflighting \cup {"start"}
    BY <1>1 DEF OpenFirst, OpenSecond, Retain, Revalidate, Refused, GoesOn, Preflighting
  <2>2. UNCHANGED <<bytesRead, outcome>>
    BY <2>1 DEF stream
  <2>3. Refuses => pc' = "done"
    BY DEF Refuses
  <2> QED
    BY <1>0, <2>1, <2>2, <2>3, QuietStated DEF Preflighting
<1>2. CASE Start
  <2>1. /\ UNCHANGED <<plan, stream>>
        /\ \/ Refuses
           \/ UNCHANGED completion /\ pc = "start" /\ pc' = "revalidate" /\ HighWater <= caps.source
    BY <1>2 DEF Start, GoesOn
  <2>2. UNCHANGED <<bytesRead, outcome>>
    BY <2>1 DEF stream
  <2>3. Refuses => pc' = "done"
    BY DEF Refuses
  <2> QED
    BY <1>0, <2>1, <2>2, <2>3, QuietStated DEF Preflighting
<1>3. CASE Begin
  <2>1. outcome = {}
    BY <1>3 DEF Begin, Shape, Early
  <2> QED
    BY <1>0, <1>3, <2>1, CheckpointFlags, QuietStated DEF Begin, Preflighting
<1>4. CASE EndOfSnapshot
  BY <1>0, <1>4, QuietStated DEF EndOfSnapshot, stream, Preflighting
<1>5. CASE CapReached
  <2>1. /\ pc = "loop" /\ pc' = "flush" /\ UNCHANGED <<plan, bytesRead, acked, completion>>
        /\ bytesRead # HighWater /\ AtCap
        /\ outcome' = outcome \cup
             IF acked.records >= caps.records THEN {"record_count_cap"} ELSE {"source_byte_cap"}
    BY <1>5 DEF CapReached
  <2>2. /\ HighWater \in Nat /\ ReadLimit \in Nat /\ ReadLimit <= HighWater
        /\ bytesRead \in Nat /\ bytesRead <= ReadLimit /\ caps.source \in Nat
    BY Limits DEF Shape, Caps
  <2>3. HighWater <= caps.source
    BY <2>1 DEF Stated, Preflighting
  <2>4. ReadLimit = HighWater
    BY <2>2, <2>3, SMTT(60) DEF ReadLimit
  <2>5. outcome' = outcome \cup {"record_count_cap"}
    BY <2>1, <2>4 DEF AtCap
  <2>6. bytesRead < HighWater
    BY <2>1, <2>2, SMTT(60)
  <2> QED
    BY <1>0, <2>1, <2>5, <2>6, QuietStated DEF Flags, Preflighting
<1>6. CASE BeforeRead
  BY <1>0, <1>6, CheckpointFlags, QuietStated DEF BeforeRead, LoopsUnlessStopped, Preflighting
<1>7. CASE ReadByte
  <2> DEFINE byte == file[fd].bytes[bytesRead + 1]
             full == Len(record) + 1 >= caps.perRecord /\ bytesRead + 1 < HighWater
  <2> HIDE DEF byte
  <2>1. /\ pc = "read" /\ bytesRead' = bytesRead + 1 /\ UNCHANGED <<plan, acked, completion>>
        /\ outcome' = outcome \cup Checkpoint \cup
               IF Checkpoint = {} /\ byte # Newline /\ full THEN {"per_record_byte_cap"} ELSE {}
        /\ pc' \in {"emit", "loop", "flush"} /\ (pc' = "flush" => outcome' # {})
    BY <1>7 DEF ReadByte, LoopsUnlessStopped, byte
  <2>2. outcome = {}
    BY <2>1 DEF Shape
  <2>3. HighWater' = HighWater /\ UNCHANGED <<planned, caps>>
    BY <2>1, LimitsFixed
  <2>4. /\ outcome' \subseteq Flags /\ "saw_fragment" \notin outcome'
        /\ outcome' \cap {"record_count_cap", "per_record_byte_cap"} # {} => bytesRead' < HighWater
    BY <2>1, <2>2, CheckpointFlags DEF Flags
  <2>5. HighWater <= caps.source /\ ~completion'.returned
    BY <2>1 DEF Stated, Preflighting
  <2>6. ReasonsAccount'
    BY <2>5 DEF ReasonsAccount
  <2> QED
    BY <2>1, <2>3, <2>4, <2>5, <2>6 DEF Stated
<1>8. CASE ReadStops
  <2>1. /\ pc = "read" /\ pc' = "flush" /\ UNCHANGED <<plan, bytesRead, completion>>
        /\ \E flag \in {"unexpected_eof", "read_error"} :
             outcome' = outcome \cup {flag} \cup Checkpoint
    BY <1>8 DEF ReadStops
  <2> QED
    BY <1>0, <2>1, CheckpointFlags, QuietStated DEF Flags, Preflighting
<1>9. CASE ReadInterrupted
  BY <1>0, <1>9, CheckpointFlags, QuietStated DEF ReadInterrupted, LoopsUnlessStopped, Preflighting
<1>10. CASE Emit
  BY <1>0, <1>10, CheckpointFlags, QuietStated DEF Emit, Preflighting
<1>11. CASE Flush
  <2>1. /\ pc = "flush" /\ pc' \in {"verify", "sink_last"} /\ UNCHANGED <<plan, bytesRead, completion>>
        /\ outcome \subseteq outcome'
        /\ outcome' \subseteq outcome \cup Checkpoint \cup {"saw_fragment"}
        /\ "saw_fragment" \in outcome' => "saw_fragment" \in outcome \/ ~LastIsComplete
    BY <1>11, CheckpointFlags DEF Flush
  <2>2. ~LastIsComplete => bytesRead < HighWater \/ Failed
    <3>1. "source_byte_cap" \notin outcome
      BY <1>0 DEF Flags
    <3>2. bytesRead \in Nat /\ HighWater \in Nat /\ bytesRead <= HighWater
      BY Limits, SMTT(60) DEF Shape
    <3> QED
      BY <3>1, <3>2, SMTT(60) DEF LastIsComplete, Stated, Failed
  <2>3. outcome' \cap {"record_count_cap", "per_record_byte_cap"} \subseteq outcome
    BY <2>1, CheckpointFlags
  <2>4. outcome' \subseteq Flags
    BY <1>0, <2>1 DEF Flags
  <2> QED
    BY <2>1, <2>2, <2>3, <2>4, QuietStated DEF Preflighting
<1>12. CASE Sink
  <2>1. /\ UNCHANGED <<plan, bytesRead, completion>>
        /\ pc \in {"sink", "sink_last"}
        /\ pc' \in {"verify", "flush"} \/ (pc' = "loop" /\ outcome' = {})
        /\ pc' = "verify" => pc = "sink_last"
    BY <1>12, SinkFrame
  <2>2. /\ outcome \subseteq outcome'
        /\ outcome' \subseteq outcome \cup Checkpoint \cup {"sink_stopped"}
    BY <1>12, SinkAnswers
  <2>3. pc' = "flush" => outcome' # {}
    <3>1. pc' = "flush" => pc = "sink"
      BY <1>12, <2>1, SinkFrame
    <3>2. pc = "sink" => LoopsUnlessStopped(outcome', "loop")
      BY <1>12 DEF Sink
    <3> QED
      BY <3>1, <3>2 DEF LoopsUnlessStopped
  <2> QED
    BY <1>0, <2>1, <2>2, <2>3, CheckpointFlags, QuietStated DEF Flags, Preflighting
<1>13. CASE Verify
  <2>1. /\ pc = "verify" /\ pc' = "finish" /\ UNCHANGED <<plan, bytesRead, acked, completion>>
    BY <1>13 DEF Verify
  <2>2. /\ outcome \subseteq outcome'
        /\ outcome' \subseteq outcome \cup {"adapter_stopped", "unverified"}
        /\ ~SinkUnavailable /\ bytesRead # acked.source => "adapter_stopped" \in outcome'
    <3>1. \E verified : outcome' = outcome
              \cup (IF ~SinkUnavailable /\ bytesRead # acked.source
                    THEN {"adapter_stopped"} ELSE {})
              \cup (IF verified THEN {} ELSE {"unverified"})
      BY <1>13 DEF Verify
    <3> QED
      BY <3>1
  <2>3. ~SinkUnavailable' => bytesRead = acked.source
    BY <2>2 DEF SinkUnavailable
  <2>4. HighWater' = HighWater /\ UNCHANGED <<planned, caps>>
    BY <2>1, LimitsFixed
  <2>5. /\ outcome' \subseteq Flags
        /\ outcome' \cap {"record_count_cap", "per_record_byte_cap"} \subseteq outcome
        /\ "saw_fragment" \in outcome' => "saw_fragment" \in outcome
        /\ outcome' = {} => outcome = {}
        /\ Failed => Failed'
    BY <1>0, <2>2 DEF Flags, Failed
  <2>6. HighWater <= caps.source /\ ~completion'.returned
    BY <2>1 DEF Stated, Preflighting
  <2>7. ReasonsAccount'
    BY <2>6 DEF ReasonsAccount
  <2> QED
    BY <2>1, <2>3, <2>4, <2>5, <2>6, <2>7 DEF Stated
<1>14. CASE Finish
  <2>1. /\ pc = "finish" /\ UNCHANGED <<plan, bytesRead, acked>>
        /\ \E clock \in {{}, {"wall_clock_failed"}} : outcome' = outcome \cup Checkpoint \cup clock
        /\ \/ Refuses
           \/ pc' = "seal" /\ completion' = CompletionOf(outcome')
    BY <1>14 DEF Finish
  <2>2. /\ outcome \subseteq outcome'
        /\ outcome' \subseteq outcome \cup {"cancelled", "wall_time_cap", "wall_clock_failed"}
    BY <2>1, CheckpointFlags
  <2>3. /\ outcome' \subseteq Flags
        /\ outcome' \cap {"record_count_cap", "per_record_byte_cap"} \subseteq outcome
        /\ "saw_fragment" \in outcome' => "saw_fragment" \in outcome
    BY <1>0, <2>2 DEF Flags
  <2>4. CASE Refuses
    <3>1. pc' = "done"
      BY <2>4 DEF Refuses
    <3> QED
      BY <2>1, <2>2, <2>3, <2>4, <3>1, QuietStated
  <2>5. CASE pc' = "seal" /\ completion' = CompletionOf(outcome')
    <3>1. HighWater' = HighWater /\ UNCHANGED <<planned, caps>>
      BY <2>1, LimitsFixed
    <3>2. ReasonsAccount'
      BY <2>1, <2>2, <2>5, <3>1, FinishStates DEF ReasonsAccount
    <3>3. HighWater <= caps.source
      BY <2>1 DEF Stated, Preflighting
    <3>4. Failed => Failed'
      BY <2>2 DEF Failed
    <3> QED
      BY <2>1, <2>3, <2>5, <3>1, <3>2, <3>3, <3>4 DEF Stated
  <2> QED
    BY <2>1, <2>4, <2>5
<1>15. CASE Seal
  BY <1>0, <1>15, QuietStated DEF Seal, stream
<1>16. CASE Write \/ Rename \/ Cancel \/ Expire \/ Done \/ UNCHANGED vars
  <2>1. UNCHANGED <<pc, plan, stream, completion>>
    BY <1>16 DEF Write, Rename, Cancel, Expire, Done, vars
  <2>2. UNCHANGED <<bytesRead, outcome, acked>>
    BY <2>1 DEF stream
  <2> QED
    BY <1>0, <2>1, <2>2, QuietStated
<1> QED
  BY <1>1, <1>2, <1>3, <1>4, <1>5, <1>6, <1>7, <1>8, <1>9, <1>10, <1>11, <1>12, <1>13, <1>14,
     <1>15, <1>16
  DEF Next, Acquires

\* An acquisition that is not complete says why: never for want of a reason that
\* the source changed, and finished short of the end only by a cap
\* (finish_execution, for every combination of flags a stream can end with).
THEOREM ReasonsAlwaysAccount == Spec => []ReasonsAccount
<1>1. Init => Shape /\ Stated
  BY InitShape, InitStated
<1>2. Shape /\ Stated /\ [Next]_vars => Shape' /\ Stated'
  BY StepShape, StepStated
<1>3. Stated => ReasonsAccount
  BY DEF Stated
<1> QED
  BY <1>1, <1>2, <1>3, PTL DEF Spec
=============================================================================
