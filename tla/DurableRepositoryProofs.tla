---------------------- MODULE DurableRepositoryProofs ----------------------
(***************************************************************************)
(* The durable repository keeps its promises, for any number of batches,   *)
(* bodies, processes and crashes.                                          *)
(*                                                                         *)
(* The invariant goes on from that of DurableRepositorySteps.  FramesInv:  *)
(* the nonces from the counter on are unused, and those of the last        *)
(* reservation have sealed only what it was made for.  CommitInv: what the *)
(* owner was told is on disk, and what the Keychain committed to is whole. *)
(* PublicationInv: who has come how far with the publication.  Of a        *)
(* repository used as the product uses it, ProductInv says what recovery   *)
(* can meet, and SyncedInv which files may be lost with the power.         *)
(***************************************************************************)
EXTENDS DurableRepositorySteps

\* A leaf that names no prover is given to Zenon
USE ZenonT(60)

----------------------------------------------------------------------------
(* Frames *)

\* A frame: its key and nonce, and what was sealed with them
Frames == [key : Nat, first : Nat, slot : Slots, body : Bodies, prior : Chains]

\* Nonces at and above the counter are unused, and the frames under the reserved one are
\* those of the reservation.
FramesInv ==
  /\ frames \subseteq Frames
  /\ \A f \in frames : f.key <= keys /\ DOMAIN f.prior = 0 .. f.slot - 1
  /\ entry # None =>
       /\ entry.key = keys
       /\ entry.last = None => entry.high = 0
       /\ entry.last # None => entry.first < entry.high
       /\ \A f \in frames : f.key = entry.key =>
            /\ f.first < entry.high
            /\ f.first = entry.first =>
                 /\ f.slot = entry.last.slot /\ f.body = entry.last.body
                 /\ staging # None => f.prior = Prior(staging, f.slot)
  /\ NoncesUnique

\* There is one chain before the first segment.
LEMMA EmptyChain ==
  ASSUME NEW dir
  PROVE  /\ Prior(dir, 0) \in Chains /\ DOMAIN Prior(dir, 0) = 0 .. 0 - 1
         /\ \A c \in Chains : DOMAIN c = 0 .. 0 - 1 => c = Prior(dir, 0)
<1>1. 0 \in Slots
  BY DurableAssumption, SMTT(60) DEF Slots, SealSlot
<1>2. Prior(dir, 0) \in [0 .. 0 - 1 -> Links \cup {None}]
  BY SMTT(60) DEF Prior
<1>3. ASSUME NEW c \in Chains, DOMAIN c = 0 .. 0 - 1 PROVE c = Prior(dir, 0)
  <2>1. c \in [0 .. 0 - 1 -> Links \cup {None}]
    BY <1>3 DEF Chains
  <2>2. QED
    BY <2>1, <1>2, SMTT(60)
<1>4. QED
  BY <1>1, <1>2, <1>3 DEF Chains

\* A step that seals no frame keeps the counters above all frames.
LEMMA FramesStill ==
  ASSUME FramesInv, NEW p \in Procs, Still(p)
  PROVE  FramesInv'
<1>1. staging' # None => staging # None /\ \A s \in Slots : Prior(staging', s) = Prior(staging, s)
  BY DEF Still, Prior
<1>2. NoncesUnique'
  BY DEF FramesInv, NoncesUnique, Still
<1>3. QED
  BY <1>1, <1>2 DEF FramesInv, Still, Frames

\* The directory that begin makes has no chain, as the frames of its request have none.
LEMMA FramesBegin ==
  ASSUME ControlInv, PlacesInv, FilesInv, FramesInv, NEW p \in Procs,
         BeginDirectory(p) \/ BeginLock(p)
  PROVE  FramesInv'
<1>1. UNCHANGED <<entry, keys, frames>>
  BY DEF BeginDirectory, BeginLock
<1>2. pc[p] \in {"begun", "matched", "lock"} /\ Placed(p) /\ StoreInv
  BY DEF BeginDirectory, BeginLock, At, PlacesInv
<1>3. stage = Request
  BY <1>2 DEF ControlInv, Suits, Entitled
<1>4. ASSUME NEW f \in frames, entry # None, f.key = entry.key, f.first = entry.first, staging' # None
      PROVE  f.prior = Prior(staging', f.slot)
  <2>1. f \in Frames /\ entry \in Entries /\ DOMAIN f.prior = 0 .. f.slot - 1
    BY <1>2, <1>4 DEF StoreInv, FramesInv
  <2>2. entry.last # None /\ f.slot = entry.last.slot
    BY <1>4, <2>1, SMTT(60) DEF FramesInv, Frames
  <2>3. CASE staging = None
    <3>1. f.slot <= stage /\ f.slot \in Slots
      BY <1>4, <2>1, <2>2 DEF FilesInv, Reached, Frames
    <3>2. f.slot = 0
      BY <1>3, <3>1, SMTT(60) DEF Request, Slots
    <3>3. QED
      BY <2>1, <3>2, EmptyChain DEF Frames
  <2>4. CASE staging # None
    <3>1. staging'.file = staging.file
      BY <1>2, <2>4, LockedDirectory DEF BeginDirectory, BeginLock, StoreInv
    <3>2. QED
      BY <1>4, <2>4, <3>1 DEF FramesInv, Prior
  <2>5. QED
    BY <2>3, <2>4
<1>5. NoncesUnique'
  BY <1>1 DEF FramesInv, NoncesUnique
<1>6. QED
  BY <1>1, <1>4, <1>5 DEF FramesInv

\* Writing a segment leaves the chain before it, and with it the reserved frame.
LEMMA FramesWrite ==
  ASSUME ControlInv, PlacesInv, FilesInv, FramesInv, NEW p \in Procs, Write(p)
  PROVE  FramesInv'
<1>1. UNCHANGED <<entry, keys, frames>> /\ pc[p] = "write"
  BY DEF Write, At
<1>2. CASE entry = None \/ staging = None
  <2>1. Still(p)
    BY <1>2, ReturnAt DEF Write, Still
  <2>2. QED
    BY <2>1, FramesStill
<1>3. CASE entry # None /\ staging # None
  <2>1. \A s \in Slots : s <= stage => Prior(staging', s) = Prior(staging, s)
    BY <1>3, Written
  <2>2. entry.last = Reservation(p) /\ job[p].slot = stage /\ stage \in Slots
    BY <1>1, <1>3, SegmentCall DEF FilesInv, SegmentSteps
  <2>3. entry.last.slot = stage
    BY <2>2, SMTT(60) DEF Reservation
  <2>4. NoncesUnique'
    BY <1>1 DEF FramesInv, NoncesUnique
  <2>5. QED
    BY <1>1, <1>3, <2>1, <2>2, <2>3, <2>4, SMTT(60) DEF FramesInv, Slots
<1>4. QED
  BY <1>2, <1>3

\* The frame of a repeated reservation is the frame that was sealed before.
LEMMA FramesReserve ==
  ASSUME ControlInv, PlacesInv, FilesInv, FramesInv, NEW p \in Procs, Reserve(p)
  PROVE  FramesInv'
<1>1. pc[p] = "reserve" /\ UNCHANGED <<keys, staging>>
  BY DEF Reserve, At, disk
<1>2. /\ p = Owner /\ job[p].slot = stage /\ stage \in Slots /\ job[p].body \in Bodies
      /\ Reservation(p) \in Reservations /\ Placed(p) /\ StoreInv
      /\ job[p].op \in SegmentOps \cup {"begin"} /\ (job[p].op \in SegmentOps => AtSegment(p))
  BY <1>1, SegmentCall DEF SegmentSteps
<1>3. CASE pc'[p] = "idle"
  <2>1. UNCHANGED <<entry, frames>>
    BY <1>3, ProceedAt, SMTT(60) DEF Reserve
  <2>2. Still(p)
    BY <1>1, <1>3, <2>1 DEF Still
  <2>3. QED
    BY <2>2, FramesStill
<1>4. CASE pc'[p] # "idle"
  <2> DEFINE f == [key |-> entry.key, first |-> entry'.first, slot |-> stage,
                   body |-> job[p].body, prior |-> Prior(staging, stage)]
  <2>1. /\ entry # None /\ entry' = Reserved(entry, Reservation(p)) /\ frames' = frames \cup {f}
    BY <1>2, <1>4, ReturnAt DEF Reserve
  <2>2. entry \in Entries
    BY <1>2, <2>1 DEF StoreInv
  <2>3. /\ entry' \in Entries /\ entry' # None /\ entry'.key = entry.key
        /\ entry'.last = Reservation(p)
        /\ entry.last = Reservation(p) => entry' = entry
        /\ entry.last # Reservation(p) => entry'.first = entry.high /\ entry'.high = entry.high + 1
    BY <1>2, <2>1, <2>2, ReservedEntry
  <2>4. Prior(staging, stage) \in Chains /\ DOMAIN Prior(staging, stage) = 0 .. stage - 1
    <3>1. CASE staging = None
      <4>1. stage = 0
        BY <1>1, <1>2, <3>1 DEF Placed, Locked, ControlInv, Entitled, Request
      <4>2. QED
        BY <4>1, EmptyChain
    <3>2. CASE staging # None
      BY <1>2, <3>2, PriorChain DEF StoreInv, Prior
    <3>3. QED
      BY <3>1, <3>2
  <2>5. f \in Frames
    BY <1>2, <2>2, <2>3, <2>4 DEF Frames, Entries
  <2>6. /\ f.key = entry.key /\ f.first = entry'.first /\ f.slot = stage /\ f.body = job[p].body
        /\ f.prior = Prior(staging, stage)
    OBVIOUS
  <2> HIDE DEF f
  <2>7. Reservation(p).slot = stage /\ Reservation(p).body = job[p].body
    BY <1>2 DEF Reservation
  <2>8. entry.high \in Nat /\ entry.first \in Nat /\ entry.key = keys /\ keys \in Nat
    BY <1>2, <2>1, <2>2 DEF Entries, FramesInv, StoreInv
  <2>9. entry'.first < entry'.high
    BY <2>1, <2>3, <2>8, AbsenceAssumption, <1>2, SMTT(60) DEF FramesInv
  <2>10. ASSUME NEW g \in frames, g.key = entry.key, g.first = entry'.first
         PROVE  g = f
    <3>1. g \in Frames /\ DOMAIN g.prior = 0 .. g.slot - 1
      BY <2>10 DEF FramesInv
    <3>2. entry' = entry
      BY <2>1, <2>3, <2>8, <2>10, SMTT(60) DEF FramesInv
    <3>3. /\ g.slot = stage /\ g.body = job[p].body
          /\ staging # None => g.prior = Prior(staging, stage)
      BY <2>1, <2>3, <2>7, <2>10, <3>2 DEF FramesInv
    <3>4. g.prior = Prior(staging, stage)
      <4>1. CASE staging = None
        <5>1. stage = 0
          BY <1>1, <1>2, <4>1 DEF Placed, Locked, ControlInv, Entitled, Request
        <5>2. QED
          BY <3>1, <3>3, <5>1, EmptyChain DEF Frames
      <4>2. QED
        BY <3>3, <4>1
    <3>5. QED
      BY <2>5, <2>6, <2>10, <3>1, <3>3, <3>4, SMTT(60) DEF Frames
  <2>11. NoncesUnique'
    BY <2>1, <2>6, <2>10, SMTT(60) DEF FramesInv, NoncesUnique
  <2>12. ASSUME NEW g \in frames', g.key = entry'.key
         PROVE  /\ g.first < entry'.high
                /\ g.first = entry'.first => g = f
    BY <2>1, <2>3, <2>6, <2>8, <2>9, <2>10, <2>12, SMTT(60) DEF FramesInv, Frames
  <2>13. QED
    BY <1>1, <1>2, <2>1, <2>3, <2>4, <2>5, <2>6, <2>7, <2>8, <2>9, <2>11, <2>12, AbsenceAssumption, SMTT(60)
       DEF FramesInv
<1>5. QED
  BY <1>3, <1>4

\* No step uses a nonce for a second frame.
LEMMA FramesStep ==
  ControlInv /\ PlacesInv /\ FilesInv /\ FramesInv /\ [Next]_vars => FramesInv'
<1> SUFFICES ASSUME ControlInv, PlacesInv, FilesInv, FramesInv, [Next]_vars PROVE FramesInv'
  OBVIOUS
<1>1. CASE UNCHANGED <<entry, keys, staging, frames>>
  BY <1>1, SMTT(60) DEF FramesInv, NoncesUnique, Prior
<1>2. ASSUME NEW p \in Procs, Work(p) PROVE FramesInv'
  BY <1>2, WorkStill, FramesStill, FramesBegin, FramesReserve, FramesWrite
<1>3. ASSUME NEW b \in Bodies, BeginCall(b), entry = None PROVE FramesInv'
  <2>1. /\ keys' = keys + 1 /\ keys \in Nat /\ frames' = frames
        /\ entry' # None => entry'.key = keys' /\ entry'.last = None /\ entry'.high = 0
    BY <1>3, SMTT(60) DEF BeginCall, PlacesInv, StoreInv
  <2>2. NoncesUnique'
    BY <2>1 DEF FramesInv, NoncesUnique
  <2>3. QED
    BY <2>1, <2>2, SMTT(60) DEF FramesInv, Frames
<1>4. ASSUME OwnerCall PROVE FramesInv'
  <2>1. \/ \E b \in Bodies : BeginCall(b) /\ entry = None
        \/ UNCHANGED <<entry, keys, staging, frames>>
    BY <1>4 DEF OwnerCall, BeginCall, BatchCall, DataCall, SealCall, PublishCall, world, disk
  <2>2. QED
    BY <1>1, <1>3, <2>1
<1>5. CASE Tick \/ UNCHANGED vars
  BY <1>1, <1>5 DEF Tick, vars, world, disk
<1>6. QED
  BY <1>2, <1>4, <1>5, CallStill, FramesStill DEF Next

\* What a step of a call does to the record of the result.
LEMMA RecordWork ==
  ASSUME ControlInv, PlacesInv, NEW p \in Procs, Work(p), entry' # None
  PROVE  /\ entry # None /\ entry \in Entries /\ entry'.key = entry.key
         /\ ~Advance(p) => entry'.data = entry.data /\ entry'.products = entry.products
         /\ ~Advance(p) => \/ entry'.state = entry.state
                           \/ entry.state = Sealed /\ entry'.state = Published
         /\ Advance(p) =>
              \/ /\ job[p].op = "data" /\ entry.state = Open /\ entry'.state = DataCommitted
                 /\ entry.data = None /\ entry'.data = Manifest(staging.file[DataSlot])
                 /\ entry'.products = entry.products
              \/ /\ job[p].op = "seal" /\ entry.state = DataCommitted /\ entry'.state = Sealed
                 /\ entry'.data = entry.data
                 /\ entry.products = None /\ entry'.products = staging.file[SealSlot]
         /\ entry.publisher # None => entry'.publisher = entry.publisher
<1> DEFINE Goal == /\ entry # None /\ entry \in Entries /\ entry'.key = entry.key
                   /\ entry'.data = entry.data /\ entry'.products = entry.products
                   /\ \/ entry'.state = entry.state
                      \/ entry.state = Sealed /\ entry'.state = Published
                   /\ entry.publisher # None => entry'.publisher = entry.publisher
<1>1. StoreInv
  BY DEF PlacesInv
<1>2. ASSUME Reserve(p) PROVE Goal
  <2>1. Reservation(p) \in Reservations
    BY <1>2, SegmentCall DEF Reserve, At, SegmentSteps
  <2>2. entry # None /\ entry \in Entries /\ entry' \in {entry, Reserved(entry, Reservation(p))}
    BY <1>1, <1>2 DEF Reserve, StoreInv
  <2>3. QED
    BY <2>1, <2>2, ReservedEntry, SMTT(60)
<1>3. ASSUME Complete(p) PROVE Goal
  <2>1. entry # None /\ entry \in Entries /\ entry' \in {entry, [entry EXCEPT !.pending = FALSE]}
    BY <1>1, <1>3 DEF Complete, StoreInv
  <2>2. QED
    BY <2>1 DEF Entries
<1>4. ASSUME Generation(p) \/ Publish(p) PROVE Goal
  <2>1. /\ entry \in Entries /\ entry # None /\ entry.state = Sealed
        /\ job[p].op \in {"publish", "recover"}
    BY <1>4, PublishingCall DEF Generation, Publish, At, PublishSteps
  <2>2. \/ entry' \in {entry, PublishEntry(entry)}
        \/ entry' = ClaimEntry(entry, job[p].op) /\ entry.publisher \in {None, job[p].op}
    BY <1>4 DEF Generation, Publish, PublishEntry, ClaimEntry
  <2>3. QED
    BY <2>1, <2>2, PublishedEntry, ClaimedEntry, SMTT(60)
<1>5. ASSUME Advance(p) PROVE
        /\ entry # None /\ entry \in Entries /\ entry'.key = entry.key
        /\ \/ /\ job[p].op = "data" /\ entry.state = Open /\ entry'.state = DataCommitted
              /\ entry.data = None /\ entry'.data = Manifest(staging.file[DataSlot])
              /\ entry'.products = entry.products
           \/ /\ job[p].op = "seal" /\ entry.state = DataCommitted /\ entry'.state = Sealed
              /\ entry'.data = entry.data
              /\ entry.products = None /\ entry'.products = staging.file[SealSlot]
        /\ entry'.publisher = entry.publisher
  <2>1. pc[p] = "advance" /\ job[p].op \in {"data", "seal"}
    BY <1>5 DEF Advance, At, ControlInv, Suits
  <2>2. /\ job[p].slot \in Slots
        /\ job[p].slot = IF job[p].op = "data" THEN DataSlot ELSE SealSlot
    BY <2>1, SegmentCall DEF ControlInv, Entitled, SegmentSteps, Writes
  <2>3. /\ entry # None /\ entry.state = StateFor(job[p].op) /\ staging # None
        /\ staging.file[job[p].slot] # None
    BY <2>1 DEF PlacesInv, Placed, AtSegment, SegmentOps, Locked
  <2>4. entry \in Entries /\ staging.file[job[p].slot] \in Segments
    BY <1>1, <2>2, <2>3 DEF StoreInv, Directories
  <2>5. CASE job[p].op = "data"
    <3>1. entry' = DataEntry(entry, Manifest(staging.file[DataSlot]))
      BY <1>5, <2>2, <2>5 DEF Advance, DataEntry
    <3>2. Manifest(staging.file[DataSlot]) \in Manifests
      BY <2>2, <2>4, <2>5 DEF Manifest, Manifests, Segments
    <3>3. entry.state = Open /\ entry.data = None
      BY <1>1, <2>3, <2>5 DEF StateFor, StoreInv
    <3>4. QED
      BY <2>3, <2>4, <2>5, <3>1, <3>2, <3>3, CommittedEntry
  <2>6. CASE job[p].op = "seal"
    <3>1. entry' = SealEntry(entry, staging.file[SealSlot]) /\ staging.file[SealSlot] \in Segments
      BY <1>5, <2>2, <2>4, <2>6, DurableAssumption, SMTT(60) DEF Advance, SealEntry, SealSlot, DataSlot
    <3>2. entry.state = DataCommitted /\ entry.products = None
      BY <1>1, <2>3, <2>6, SMTT(60) DEF StateFor, StoreInv, DataCommitted, Sealed
    <3>3. QED
      BY <2>3, <2>4, <2>6, <3>1, <3>2, SealedEntry
  <2>7. QED
    BY <2>1, <2>5, <2>6
<1>6. ASSUME ~Reserve(p), ~Complete(p), ~Generation(p), ~Publish(p), ~Advance(p) PROVE Goal
  <2>1. entry' = entry
    BY <1>6 DEF Work, BeginDirectory, BeginLock, Write, Sync, Commitment, Fill, Settle, Rename,
       Flush, Quarantine, Forget, DestroyKey, Erase
  <2>2. QED
    BY <1>1, <2>1 DEF StoreInv
<1>7. ~Advance(p) => Goal
  BY <1>2, <1>3, <1>4, <1>6
<1> HIDE DEF Goal
<1>8. CASE Advance(p)
  BY <1>5, <1>8
<1>9. CASE ~Advance(p)
  BY <1>7, <1>9 DEF Goal
<1>10. QED
  BY <1>8, <1>9

----------------------------------------------------------------------------
(* Commits *)

\* An acknowledgement
Acks == [key : Nat, slot : 1 .. Batches, body : Bodies]

\* A result whose files are about to be erased has no acknowledged batch; all others
\* have their files.
CommitInv ==
  /\ acked \subseteq Acks
  /\ \A a \in acked : a.key <= keys
  /\ \A p \in Procs : pc[p] = "erase" /\ entry # None => \A a \in acked : a.key # entry.key
  /\ AcksSurvive
  /\ CommittedWhole

\* The step acknowledges and commits nothing, and keeps every file.
Carried ==
  /\ acked' = acked /\ keys' = keys
  /\ entry' # None =>
       /\ entry # None /\ entry'.key = entry.key
       /\ entry'.data = entry.data /\ entry'.products = entry.products
       /\ \/ entry'.state = entry.state
          \/ entry.state = Sealed /\ entry'.state = Published
       /\ \A dir \in {staging, final} : dir # None =>
            \E new \in {staging', final'} :
              new # None /\ new.file = dir.file /\ (dir.lock => new.lock)
       /\ \A p \in Procs : pc'[p] = "erase" => pc[p] = "erase"

\* Such a step keeps what was acknowledged and committed.
LEMMA CommitCarried ==
  ASSUME CommitInv, Carried
  PROVE  CommitInv'
<1>1. AcksSurvive'
  <2> SUFFICES ASSUME NEW a \in acked', entry' # None, entry'.key = a.key
               PROVE  \E new \in {staging', final'} :
                        new # None /\ new.file[a.slot] # None /\ new.file[a.slot].body = a.body
    BY DEF AcksSurvive
  <2>1. PICK dir \in {staging, final} :
          dir # None /\ dir.file[a.slot] # None /\ dir.file[a.slot].body = a.body
    BY DEF CommitInv, AcksSurvive, Carried
  <2>2. PICK new \in {staging', final'} : new # None /\ new.file = dir.file
    BY <2>1 DEF Carried
  <2>3. QED
    BY <2>1, <2>2
<1>2. CommittedWhole'
  <2> DEFINE Whole(dir, e) ==
        /\ Locked(dir)
        /\ dir.file[DataSlot] # None /\ Manifest(dir.file[DataSlot]) = e.data
        /\ \A s \in 0 .. Batches : Link(dir.file[s]) = e.data.prior[s]
        /\ e.state >= Sealed => dir.file[SealSlot] = e.products
  <2> SUFFICES ASSUME entry' # None, entry'.state >= DataCommitted
               PROVE  \E new \in {staging', final'} : Whole(new, entry')
    BY DEF CommittedWhole
  <2>1. PICK dir \in {staging, final} : Whole(dir, entry)
    BY SMTT(60) DEF CommitInv, CommittedWhole, Carried, DataCommitted, Sealed, Published
  <2>2. PICK new \in {staging', final'} : new # None /\ new.file = dir.file /\ new.lock
    BY <2>1 DEF Carried, Locked
  <2>3. Whole(new, entry')
    BY <2>1, <2>2, SMTT(60) DEF Carried, Locked, Sealed, Published
  <2>4. QED
    BY <2>3
<1>3. QED
  BY <1>1, <1>2 DEF CommitInv, Carried

\* Only complete_nonce_reservation acknowledges a batch.
LEMMA AckWork ==
  ASSUME ControlInv, NEW p \in Procs, Work(p)
  PROVE  \/ acked' = acked
         \/ /\ Complete(p) /\ job[p].op = "batch" /\ entry # None /\ entry.last = Reservation(p)
            /\ acked' = acked \cup {[key |-> entry.key, slot |-> job[p].slot, body |-> job[p].body]}
<1>1. ASSUME NEW step, Proceed(p, step) PROVE acked' = acked
  BY <1>1 DEF Proceed, Goto
<1>2. ASSUME NEW r, Return(p, r), r # "ok" \/ job[p].op # "batch" PROVE acked' = acked
  BY <1>2 DEF Return, Answer
<1>3. CASE Complete(p)
  <2>1. CASE entry # None /\ entry.last = Reservation(p)
    BY <1>1, <1>3, <2>1 DEF Complete, Return, Answer
  <2>2. CASE ~(entry # None /\ entry.last = Reservation(p))
    BY <1>2, <1>3, <2>2 DEF Complete
  <2>3. QED
    BY <2>1, <2>2
<1>4. CASE Advance(p) \/ Publish(p) \/ Erase(p)
  <2>1. job[p].op # "batch"
    BY <1>4 DEF Advance, Publish, Erase, At, ControlInv, Suits, PublishSteps
  <2>2. QED
    BY <1>2, <1>4, <2>1 DEF Advance, Publish, Erase
<1>5. CASE BeginDirectory(p) \/ BeginLock(p) \/ Reserve(p) \/ Write(p) \/ Sync(p)
  BY <1>1, <1>2, <1>5 DEF BeginDirectory, BeginLock, Reserve, Write, Sync
<1>6. CASE Generation(p) \/ Commitment(p) \/ Fill(p) \/ Settle(p) \/ Rename(p) \/ Flush(p)
  BY <1>1, <1>2, <1>6 DEF Generation, Commitment, Fill, Settle, Rename, Flush
<1>7. CASE Quarantine(p) \/ Forget(p) \/ DestroyKey(p)
  BY <1>1, <1>2, <1>7 DEF Quarantine, Forget, DestroyKey
<1>8. QED
  BY <1>3, <1>4, <1>5, <1>6, <1>7 DEF Work

\* Which steps of a call reach complete, erase, settle and rename.
LEMMA WorkArrives ==
  ASSUME ControlInv, NEW p \in Procs, Work(p)
  PROVE  /\ pc[p] # "idle" /\ Aside(p)
         /\ pc'[p] = "complete" => BeginDirectory(p) \/ Sync(p)
         /\ pc'[p] = "erase" => DestroyKey(p)
         /\ pc'[p] \in {"settle", "rename"} => Commitment(p) \/ Fill(p) \/ Settle(p)
<1>1. Aside(p)
  BY WorkControl
<1>2. ASSUME NEW step, Proceed(p, step) PROVE pc'[p] = step
  BY <1>2, ProceedAt
<1>3. ASSUME NEW r, Return(p, r) PROVE pc'[p] = "idle"
  BY <1>3, ReturnAt
<1>4. CASE BeginDirectory(p) \/ BeginLock(p) \/ Reserve(p) \/ Write(p) \/ Sync(p)
  BY <1>1, <1>2, <1>3, <1>4 DEF BeginDirectory, BeginLock, Reserve, Write, Sync, At
<1>5. CASE Complete(p) \/ Advance(p) \/ Generation(p)
  BY <1>1, <1>2, <1>3, <1>5 DEF Complete, Advance, Generation, At
<1>6. CASE Commitment(p) \/ Fill(p) \/ Settle(p)
  BY <1>1, <1>2, <1>3, <1>6 DEF Commitment, Fill, Settle, At
<1>7. CASE Rename(p) \/ Flush(p) \/ Publish(p)
  BY <1>1, <1>2, <1>3, <1>7 DEF Rename, Flush, Publish, At
<1>8. CASE Quarantine(p) \/ Forget(p) \/ DestroyKey(p) \/ Erase(p)
  BY <1>1, <1>2, <1>3, <1>8 DEF Quarantine, Forget, DestroyKey, Erase, At
<1>9. QED
  BY <1>4, <1>5, <1>6, <1>7, <1>8 DEF Work

\* A step of a call reaches erase only when it has destroyed the key.
LEMMA EraseWork ==
  ASSUME ControlInv, NEW p \in Procs, Work(p), entry' # None, NEW q \in Procs, pc'[q] = "erase"
  PROVE  pc[q] = "erase" /\ q # p
<1>1. q # p
  BY WorkArrives DEF DestroyKey
<1>2. QED
  BY <1>1, WorkArrives DEF Aside

\* The owner is in begin.
Begins == pc[Owner] # "idle" /\ job[Owner].op = "begin"

\* What the other steps do: a call begins or returns at once, a process dies, time passes.
LEMMA CallArrives ==
  ASSUME ControlInv, [Next]_vars, \A p \in Procs : ~Work(p)
  PROVE  /\ acked' = acked
         /\ \A q \in Procs : pc'[q] \in {"erase", "settle", "rename"} => pc'[q] = pc[q]
         /\ Begins' => Begins \/ \E b \in Bodies : BeginCall(b)
         /\ pc'[Owner] = "complete" /\ job'[Owner].op = "batch" =>
              \/ pc[Owner] = "complete" /\ job'[Owner] = job[Owner]
              \/ pc[Owner] = "idle" /\ stage \in 1 .. Batches /\ BatchStep(stage) = "complete"
         /\ \A q \in Procs : out'[q].op = "recover" =>
              out'[q] = out[q] \/ \E context \in BOOLEAN : out'[q].result = RecoverStep(context)
         /\ \/ UNCHANGED <<entry, keys, disk, frames>>
            \/ \E b \in Bodies : BeginCall(b) /\ entry = None
<1> USE DurableAssumption
<1> DEFINE Calm ==
      /\ acked' = acked
      /\ \A q \in Procs : pc'[q] \in {"erase", "settle", "rename"} => pc'[q] = pc[q]
      /\ Begins' => Begins \/ \E b \in Bodies : BeginCall(b)
      /\ pc'[Owner] = "complete" /\ job'[Owner].op = "batch" =>
           \/ pc[Owner] = "complete" /\ job'[Owner] = job[Owner]
           \/ pc[Owner] = "idle" /\ stage \in 1 .. Batches /\ BatchStep(stage) = "complete"
      /\ \A q \in Procs : out'[q].op = "recover" =>
           out'[q] = out[q] \/ \E context \in BOOLEAN : out'[q].result = RecoverStep(context)
<1>1. ASSUME NEW p \in Procs, NEW j, NEW step, NEW locks, Enter(p, j, step, locks), Aside(p),
             step \notin {"erase", "settle", "rename"}, j.op = "batch" => step # "ok",
             p = Owner /\ j.op = "begin" => \E b \in Bodies : BeginCall(b),
             p = Owner /\ j.op = "batch" /\ step = "complete" =>
               pc[Owner] = "idle" /\ stage \in 1 .. Batches /\ BatchStep(stage) = "complete",
             j.op = "recover" => \E context \in BOOLEAN : step = RecoverStep(context)
      PROVE  Calm
  <2>1. acked' = acked /\ \E a \in {NoAnswer, [op |-> j.op, result |-> step]} :
                            out' = [out EXCEPT ![p] = a]
    BY <1>1 DEF Enter, Goto, Answer
  <2>2. pc'[p] = "idle" \/ (pc'[p] = step /\ job'[p] = j)
    BY <1>1, EnterAt
  <2>3. \A q \in Procs : q # p => pc'[q] = pc[q] /\ job'[q] = job[q]
    BY <1>1 DEF Aside
  <2>4. \A q \in Procs : out'[q].op = "recover" =>
          out'[q] = out[q] \/ \E context \in BOOLEAN : out'[q].result = RecoverStep(context)
    <3>1. \A q \in Procs : q # p => out'[q] = out[q]
      BY <2>1 DEF ControlInv
    <3>2. \/ out'[p].op # "recover"
          \/ out'[p].op = j.op /\ out'[p].result = step
      BY <2>1, SMTT(60) DEF ControlInv, NoAnswer
    <3>3. QED
      BY <1>1, <3>1, <3>2
  <2>5. QED
    BY <1>1, <2>1, <2>2, <2>3, <2>4 DEF Begins
<1>2. ASSUME OwnerCall PROVE Calm
  <2>1. Aside(Owner) /\ Owner \in Procs
    BY <1>2, OwnerControl, DurableAssumption
  <2>2. ASSUME NEW b \in Bodies, BeginCall(b) PROVE Calm
    <3>1. CASE entry = None
      <4>1. Enter(Owner, Job("begin", Request, b), "begun", {"repo"})
        BY <2>2, <3>1 DEF BeginCall, Enter, Steps
      <4>2. QED
        BY <1>1, <2>1, <2>2, <4>1, SMTT(60) DEF Job
    <3>2. CASE entry # None
      <4>1. \E step \in {"matched", "conflict"} :
              Enter(Owner, Job("begin", Request, b), step, {"repo"})
        BY <2>2, <3>2 DEF BeginCall
      <4>2. QED
        BY <1>1, <2>1, <2>2, <4>1 DEF Job
    <3>3. QED
      BY <3>1, <3>2
  <2>3. ASSUME NEW b \in Bodies, NEW slot \in 1 .. Batches, BatchCall(slot, b) PROVE Calm
    <3>1. BatchStep(slot) \notin {"erase", "settle", "rename", "ok"}
      BY DEF BatchStep
    <3>2. QED
      BY <1>1, <2>1, <2>3, <3>1 DEF BatchCall, OwnerCalls, Job
  <2>4. ASSUME NEW b \in Bodies, DataCall(b) PROVE Calm
    <3>1. DataStep(b) \notin {"erase", "settle", "rename"} /\ Job("data", DataSlot, b).op = "data"
      BY DEF DataStep, Job
    <3>2. QED
      BY <1>1, <2>1, <2>4, <3>1 DEF DataCall
  <2>5. ASSUME NEW b \in Bodies, SealCall(b) PROVE Calm
    <3>1. SealStep(b) \notin {"erase", "settle", "rename"} /\ Job("seal", SealSlot, b).op = "seal"
      BY DEF SealStep, Job
    <3>2. QED
      BY <1>1, <2>1, <2>5, <3>1 DEF SealCall
  <2>6. ASSUME PublishCall PROVE Calm
    <3>1. /\ PublishStep \notin {"erase", "settle", "rename"}
          /\ Job("publish", PublishStage, None).op = "publish"
      BY DEF PublishStep, Job
    <3>2. QED
      BY <1>1, <2>1, <2>6, <3>1 DEF PublishCall
  <2>7. QED
    BY <1>2, <2>2, <2>3, <2>4, <2>5, <2>6 DEF OwnerCall
<1>3. ASSUME NEW p \in Procs, NEW context \in BOOLEAN, RecoverCall(p, context) PROVE Calm
  <2>1. /\ RecoverStep(context) \notin {"erase", "settle", "rename"}
        /\ Job("recover", 0, None).op = "recover"
    BY DEF RecoverStep, RecoverSealed, Job
  <2>2. QED
    BY <1>1, <1>3, <2>1, RecoverControl DEF RecoverCall
<1>4. ASSUME NEW p \in Procs, DestroyCall(p) PROVE Calm
  <2>1. /\ DestroyStep \notin {"erase", "settle", "rename"}
        /\ Job("destroy", 0, None).op = "destroy"
    BY DEF DestroyStep, Job
  <2>2. \E locks : Enter(p, Job("destroy", 0, None), DestroyStep, locks)
    BY <1>4 DEF DestroyCall
  <2>3. QED
    BY <1>1, <1>4, <2>1, <2>2, DestroyControl
<1>5. ASSUME NEW p \in Procs, ExpandCall(p) \/ Crash(p) PROVE Calm
  <2>1. /\ acked' = acked /\ pc'[p] = "idle" /\ Aside(p)
        /\ \E a \in {NoAnswer, [op |-> "expand", result |-> ExpandStep]} :
             out' = [out EXCEPT ![p] = a]
    BY <1>5, ExpandControl, CrashControl DEF ExpandCall, Crash, Answer, Release, ControlInv, Job
  <2>2. QED
    BY <2>1, SMTT(60) DEF Aside, Begins, ControlInv, NoAnswer
<1>6. ASSUME Tick \/ UNCHANGED vars PROVE Calm
  <2>1. UNCHANGED <<acked, pc, job, out>>
    BY <1>6 DEF Tick, vars, control
  <2>2. QED
    BY <2>1 DEF Begins
<1>7. Calm
  BY <1>2, <1>3, <1>4, <1>5, <1>6 DEF Next
<1>8. \/ UNCHANGED <<entry, keys, disk, frames>>
      \/ \E b \in Bodies : BeginCall(b) /\ entry = None
  <2>1. CASE OwnerCall
    BY <2>1 DEF OwnerCall, BeginCall, BatchCall, DataCall, SealCall, PublishCall, world
  <2>2. CASE \E p \in Procs : \/ \E context \in BOOLEAN : RecoverCall(p, context)
                              \/ DestroyCall(p) \/ ExpandCall(p) \/ Crash(p)
    BY <2>2 DEF RecoverCall, DestroyCall, ExpandCall, Crash, world
  <2>3. CASE Tick \/ UNCHANGED vars
    BY <2>3 DEF Tick, vars, world
  <2>4. QED
    BY <2>1, <2>2, <2>3 DEF Next
<1>9. QED
  BY <1>7, <1>8

\* The steps of a call that keep every file while the key exists.
LEMMA FilesCarried ==
  ASSUME ControlInv, PlacesInv, NEW p \in Procs, Work(p), entry' # None,
         ~Write(p), ~Quarantine(p), ~Erase(p), NEW dir \in {staging, final}, dir # None
  PROVE  \E new \in {staging', final'} :
           new # None /\ new.file = dir.file /\ (dir.lock => new.lock)
<1>1. StoreInv
  BY DEF PlacesInv
<1>2. CASE BeginDirectory(p) \/ BeginLock(p)
  <2>1. final' = final
    BY <1>2 DEF BeginDirectory, BeginLock
  <2>2. staging # None => staging' \in {staging, WithLock(staging)}
    BY <1>2 DEF BeginDirectory, BeginLock
  <2>3. staging # None => staging' # None /\ staging'.file = staging.file
                          /\ (staging.lock => staging'.lock)
    BY <1>1, <2>2, LockedDirectory DEF StoreInv
  <2>4. QED
    BY <2>1, <2>3
<1>3. CASE Rename(p)
  BY <1>1, <1>3 DEF Rename, StoreInv
<1>4. CASE ~BeginDirectory(p) /\ ~BeginLock(p) /\ ~Rename(p)
  <2>1. final' = final /\ (staging' = None => staging = None)
    <3>1. CASE Advance(p) \/ Publish(p) \/ Forget(p) \/ DestroyKey(p)
      BY <3>1 DEF Advance, Publish, Forget, DestroyKey, disk
    <3>2. CASE \/ Reserve(p) \/ Sync(p) \/ Complete(p)
               \/ Generation(p) \/ Commitment(p) \/ Fill(p) \/ Settle(p) \/ Flush(p)
      BY <3>2, PlacesReserve, PlacesWrite, PlacesComplete, PlacesPublishing DEF Alike
    <3>3. QED
      BY <1>4, <3>1, <3>2 DEF Work
  <2>2. QED
    BY <1>4, <2>1, WorkStill DEF Still, Reserve, disk
<1>5. QED
  BY <1>2, <1>3, <1>4

\* write_segment adds a segment beside the ones that were acknowledged and committed.
LEMMA CommitWrite ==
  ASSUME ControlInv, PlacesInv, FilesInv, CommitInv, NEW p \in Procs, Write(p)
  PROVE  CommitInv'
<1>1. Work(p) /\ pc[p] = "write" /\ UNCHANGED <<entry, keys, final>>
  BY DEF Work, Write, At
<1>2. /\ stage \in Slots /\ Placed(p) /\ StoreInv /\ job[p].op \in SegmentOps \cup {"begin"}
      /\ job[p].op \in SegmentOps => AtSegment(p)
  BY <1>1, SegmentCall DEF SegmentSteps
<1>3. acked' = acked
  BY <1>1, AckWork DEF Complete, At
<1>4. \A q \in Procs : pc'[q] = "erase" /\ entry' # None => pc[q] = "erase"
  BY <1>1, EraseWork
<1>5. CASE entry = None \/ staging = None
  <2>1. Carried
    BY <1>1, <1>3, <1>4, <1>5 DEF Write, Carried
  <2>2. QED
    BY <2>1, CommitCarried
<1>6. CASE entry # None /\ staging # None
  <2>1. /\ staging' # None /\ staging'.lock = staging.lock /\ staging.file[stage] = None
        /\ \A s \in Slots : s # stage => staging'.file[s] = staging.file[s]
    BY <1>6, Written
  <2>2. AcksSurvive'
    <3> SUFFICES ASSUME NEW a \in acked, entry.key = a.key
                 PROVE  \E new \in {staging', final'} :
                          new # None /\ new.file[a.slot] # None /\ new.file[a.slot].body = a.body
      BY <1>1, <1>3 DEF AcksSurvive
    <3>1. a.slot \in Slots
      BY DurableAssumption, SMTT(60) DEF CommitInv, Acks, Slots, SealSlot
    <3>2. PICK dir \in {staging, final} :
            dir # None /\ dir.file[a.slot] # None /\ dir.file[a.slot].body = a.body
      BY <1>6 DEF CommitInv, AcksSurvive
    <3>3. QED
      BY <1>1, <2>1, <3>1, <3>2
  <2>3. CommittedWhole'
    <3> SUFFICES ASSUME entry.state >= DataCommitted
                 PROVE  CommittedWhole'
      BY <1>1 DEF CommittedWhole
    <3>1. job[p].op = "seal"
      <4>1. CASE job[p].op = "begin"
        BY <1>1, <1>2, <1>6, <4>1, StartStore, SMTT(60) DEF ControlInv, Entitled, Open, DataCommitted
      <4>2. CASE job[p].op \in SegmentOps
        BY <1>2, <4>2, SMTT(60) DEF Placed, StateFor, SegmentOps, Open, DataCommitted
      <4>3. QED
        BY <1>2, <4>1, <4>2
    <3>2. stage = SealSlot /\ entry.state = DataCommitted /\ final = None
      BY <1>1, <1>2, <1>6, <3>1 DEF ControlInv, Entitled, Placed, StateFor, SegmentOps, StoreInv,
         Open, DataCommitted, Sealed
    <3>3. /\ Locked(staging)
          /\ staging.file[DataSlot] # None /\ Manifest(staging.file[DataSlot]) = entry.data
          /\ \A s \in 0 .. Batches : Link(staging.file[s]) = entry.data.prior[s]
      BY <1>6, <3>2 DEF CommitInv, CommittedWhole, Locked
    <3>4. \A s \in 0 .. DataSlot : staging'.file[s] = staging.file[s]
      BY <2>1, <3>2, DurableAssumption, SMTT(60) DEF Slots, SealSlot, DataSlot
    <3>5. DataSlot \in 0 .. DataSlot /\ 0 .. Batches \subseteq 0 .. DataSlot
      BY DurableAssumption, SMTT(60) DEF DataSlot
    <3>6. /\ Locked(staging')
          /\ staging'.file[DataSlot] # None /\ Manifest(staging'.file[DataSlot]) = entry.data
          /\ \A s \in 0 .. Batches : Link(staging'.file[s]) = entry.data.prior[s]
      BY <2>1, <3>3, <3>4, <3>5 DEF Locked
    <3>7. QED
      BY <1>1, <3>2, <3>6, SMTT(60) DEF CommittedWhole, DataCommitted, Sealed
  <2>4. QED
    BY <1>1, <1>3, <1>4, <2>2, <2>3 DEF CommitInv
<1>7. QED
  BY <1>5, <1>6

\* A batch is acknowledged with the bytes that its file holds.
LEMMA CommitComplete ==
  ASSUME ControlInv, PlacesInv, FilesInv, FramesInv, CommitInv, NEW p \in Procs, Complete(p),
         job[p].op = "batch", entry # None, entry.last = Reservation(p), entry' # None,
         acked' = acked \cup {[key |-> entry.key, slot |-> job[p].slot, body |-> job[p].body]}
  PROVE  CommitInv'
<1>1. Work(p) /\ pc[p] = "complete" /\ UNCHANGED <<keys, staging, final>>
  BY DEF Work, Complete, At, disk
<1>2. /\ p = Owner /\ job[p].slot \in 1 .. Batches /\ job[p].body \in Bodies /\ StoreInv
      /\ Placed(p) /\ AtSegment(p)
  BY <1>1, SegmentCall DEF ControlInv, Entitled, SegmentSteps, SegmentOps, Writes
<1>3. /\ entry'.key = entry.key /\ entry'.data = entry.data /\ entry'.products = entry.products
      /\ entry'.state = entry.state \/ (entry.state = Sealed /\ entry'.state = Published)
      /\ entry \in Entries /\ entry.key = keys /\ keys \in Nat
  BY <1>1, <1>2, RecordWork DEF Complete, Advance, At, FramesInv, StoreInv
<1>4. staging # None /\ staging.file[job[p].slot] # None
  BY <1>1, <1>2 DEF Placed, Locked
<1>5. staging.file[job[p].slot].body = job[p].body
  BY <1>4, AbsenceAssumption, SegmentCall, <1>1, SMTT(60) DEF FilesInv, Reservation, SegmentSteps
<1> DEFINE a == [key |-> entry.key, slot |-> job[p].slot, body |-> job[p].body]
<1>6. a \in Acks
  BY <1>2, <1>3 DEF Acks
<1>7. a.key = entry.key /\ a.slot = job[p].slot /\ a.body = job[p].body /\ acked' = acked \cup {a}
  OBVIOUS
<1> HIDE DEF a
<1>8. AcksSurvive'
  BY <1>1, <1>3, <1>4, <1>5, <1>7 DEF CommitInv, AcksSurvive
<1>9. CommittedWhole'
  BY <1>1, <1>3, SMTT(60) DEF CommitInv, CommittedWhole, DataCommitted, Sealed, Published
<1>10. \A q \in Procs : pc'[q] # "erase"
  <2>1. pc[p] # "idle"
    BY <1>1
  <2>2. QED
    BY <1>1, <2>1, EraseWork, Company
<1>11. QED
  BY <1>1, <1>3, <1>6, <1>7, <1>8, <1>9, <1>10, SMTT(60) DEF CommitInv

\* commit_data and seal commit to what is on disk.
LEMMA CommitAdvance ==
  ASSUME ControlInv, PlacesInv, FilesInv, CommitInv, NEW p \in Procs, Advance(p)
  PROVE  CommitInv'
<1> USE DurableAssumption
<1>1. Work(p) /\ pc[p] = "advance" /\ UNCHANGED <<keys, staging, final>>
  BY DEF Work, Advance, At, disk
<1>2. acked' = acked
  BY <1>1, AckWork DEF Complete, At
<1>3. StoreInv /\ AtSegment(p) /\ Placed(p)
  BY <1>1, SegmentCall DEF ControlInv, Suits, SegmentOps
<1>4. /\ entry # None /\ Locked(staging) /\ staging # None
      /\ staging.file[job[p].slot] # None
      /\ entry.state = StateFor(job[p].op)
  BY <1>1, <1>3 DEF Placed, Locked
<1>5. final = None
  BY <1>3, <1>4 DEF StoreInv
<1>6. CASE entry' = None
  BY <1>1, <1>2, <1>6 DEF CommitInv, AcksSurvive, CommittedWhole
<1>7. CASE entry' # None
  <2>1. entry'.key = entry.key
    BY <1>1, <1>7, RecordWork
  <2>2. \A q \in Procs : pc'[q] = "erase" => pc[q] = "erase"
    BY <1>1, <1>7, EraseWork
  <2>3. AcksSurvive'
    BY <1>1, <1>2, <1>4, <2>1 DEF CommitInv, AcksSurvive
  <2>4. CommittedWhole'
    <3>1. \/ /\ job[p].op = "data" /\ entry'.state = DataCommitted
             /\ entry'.data = Manifest(staging.file[DataSlot])
          \/ /\ job[p].op = "seal" /\ entry.state = DataCommitted /\ entry'.data = entry.data
             /\ entry'.products = staging.file[SealSlot]
      BY <1>1, <1>7, RecordWork
    <3>2. CASE job[p].op = "data"
      <4>1. staging.file[DataSlot] # None /\ DataSlot \in Slots
        BY <1>1, <1>4, <3>2, SMTT(60) DEF ControlInv, Entitled, Writes, Slots, SealSlot, DataSlot
      <4>2. staging.file[DataSlot].prior = Prior(staging, DataSlot)
        BY <1>4, <4>1 DEF FilesInv, ChainHolds
      <4>3. \A s \in 0 .. Batches : Prior(staging, DataSlot)[s] = Link(staging.file[s])
        BY SMTT(60) DEF Prior, DataSlot
      <4>4. Manifest(staging.file[DataSlot]).prior = Prior(staging, DataSlot)
        BY <4>2 DEF Manifest
      <4>5. QED
        BY <1>1, <1>4, <3>1, <3>2, <4>1, <4>3, <4>4, SMTT(60) DEF CommittedWhole, Locked, DataCommitted, Sealed
    <3>3. CASE job[p].op = "seal"
      <4>1. /\ staging.file[DataSlot] # None /\ Manifest(staging.file[DataSlot]) = entry.data
            /\ \A s \in 0 .. Batches : Link(staging.file[s]) = entry.data.prior[s]
        BY <1>4, <1>5, <3>1, <3>3, SMTT(60) DEF CommitInv, CommittedWhole, Locked, DataCommitted
      <4>2. QED
        BY <1>1, <1>4, <3>1, <3>3, <4>1 DEF CommittedWhole, Locked
    <3>4. QED
      BY <3>1, <3>2, <3>3
  <2>5. \A q \in Procs : pc'[q] = "erase" => \A a \in acked' : a.key # entry'.key
    BY <1>2, <1>4, <2>1, <2>2 DEF CommitInv
  <2>6. QED
    BY <1>1, <1>2, <2>3, <2>4, <2>5 DEF CommitInv
<1>8. QED
  BY <1>6, <1>7

\* A directory goes only when no acknowledged batch of the present key is in it.
LEMMA CommitRemove ==
  ASSUME ControlInv, PlacesInv, FilesInv, CommitInv, NEW p \in Procs, Quarantine(p) \/ Erase(p)
  PROVE  CommitInv'
<1>1. Work(p) /\ pc[p] \in {"quarantine", "erase"} /\ UNCHANGED <<entry, keys>>
  BY DEF Work, Quarantine, Erase, At
<1>2. acked' = acked
  BY <1>1, AckWork DEF Complete, At
<1>3. StoreInv /\ Placed(p)
  BY DEF PlacesInv
<1>4. \A q \in Procs : pc'[q] = "erase" /\ entry' # None => pc[q] = "erase"
  BY <1>1, EraseWork
<1>5. entry # None => ~(entry.state >= DataCommitted)
  BY <1>1, <1>3, SMTT(60) DEF Placed, StoreInv, Locked, Open, DataCommitted
<1>6. ASSUME NEW a \in acked, entry # None PROVE entry.key # a.key
  <2>1. CASE pc[p] = "erase"
    BY <1>6, <2>1 DEF CommitInv
  <2>2. CASE pc[p] = "quarantine"
    <3>1. final = None /\ ~Locked(staging)
      BY <1>3, <1>6, <2>2 DEF Placed
    <3>2. a.slot \in Slots
      BY <1>6, DurableAssumption, SMTT(60) DEF CommitInv, Acks, Slots, SealSlot
    <3>3. QED
      BY <1>6, <3>1, <3>2 DEF CommitInv, AcksSurvive, FilesInv, Locked
  <2>3. QED
    BY <1>1, <2>1, <2>2
<1>7. QED
  BY <1>1, <1>2, <1>4, <1>5, <1>6 DEF CommitInv, AcksSurvive, CommittedWhole

\* What was acknowledged or committed is kept by every step.
LEMMA CommitStep ==
  ControlInv /\ PlacesInv /\ FilesInv /\ FramesInv /\ CommitInv /\ [Next]_vars => CommitInv'
<1> SUFFICES ASSUME ControlInv, PlacesInv, FilesInv, FramesInv, CommitInv, [Next]_vars
             PROVE  CommitInv'
  OBVIOUS
<1>1. ASSUME NEW p \in Procs, Work(p) PROVE CommitInv'
  <2>1. CASE Write(p) \/ Advance(p) \/ Quarantine(p) \/ Erase(p)
    BY <2>1, CommitWrite, CommitAdvance, CommitRemove
  <2>2. CASE acked' # acked
    <3>1. /\ Complete(p) /\ job[p].op = "batch" /\ entry # None /\ entry.last = Reservation(p)
          /\ acked' = acked \cup {[key |-> entry.key, slot |-> job[p].slot, body |-> job[p].body]}
      BY <1>1, <2>2, AckWork
    <3>2. entry' # None
      BY <3>1, PlacesComplete DEF Alike
    <3>3. QED
      BY <3>1, <3>2, CommitComplete
  <2>3. CASE acked' = acked /\ ~Write(p) /\ ~Advance(p) /\ ~Quarantine(p) /\ ~Erase(p)
    <3>1. keys' = keys
      BY <1>1, <2>3, WorkStill DEF Still, BeginDirectory, BeginLock, Reserve
    <3>2. Carried
      <4>1. CASE entry' = None
        BY <2>3, <3>1, <4>1 DEF Carried
      <4>2. CASE entry' # None
        <5>1. /\ entry # None /\ entry'.key = entry.key
              /\ entry'.data = entry.data /\ entry'.products = entry.products
              /\ \/ entry'.state = entry.state
                 \/ entry.state = Sealed /\ entry'.state = Published
          BY <1>1, <2>3, <4>2, RecordWork
        <5>2. \A q \in Procs : pc'[q] = "erase" => pc[q] = "erase"
          BY <1>1, <4>2, EraseWork
        <5>3. \A dir \in {staging, final} : dir # None =>
                \E new \in {staging', final'} :
                  new # None /\ new.file = dir.file /\ (dir.lock => new.lock)
          BY <1>1, <2>3, <4>2, FilesCarried
        <5>4. QED
          BY <2>3, <3>1, <5>1, <5>2, <5>3 DEF Carried
      <4>3. QED
        BY <4>1, <4>2
    <3>3. QED
      BY <3>2, CommitCarried
  <2>4. QED
    BY <2>1, <2>2, <2>3
<1>2. ASSUME \A p \in Procs : ~Work(p) PROVE CommitInv'
  <2>1. /\ acked' = acked
        /\ \A q \in Procs : pc'[q] = "erase" => pc[q] = "erase"
        /\ \/ UNCHANGED <<entry, keys, disk>>
           \/ \E b \in Bodies : BeginCall(b) /\ entry = None
    BY <1>2, CallArrives
  <2>2. CASE UNCHANGED <<entry, keys, disk>>
    BY <2>1, <2>2, CommitCarried DEF Carried, disk
  <2>3. ASSUME NEW b \in Bodies, BeginCall(b), entry = None PROVE CommitInv'
    <3>1. /\ keys' = keys + 1 /\ keys \in Nat
          /\ entry' # None => entry'.key = keys + 1 /\ entry'.state = Open
      BY <2>3, SMTT(60) DEF BeginCall, PlacesInv, StoreInv
    <3>2. \A a \in acked : a.key \in Nat /\ a.key <= keys
      BY DEF CommitInv, Acks
    <3>3. QED
      BY <2>1, <3>1, <3>2, SMTT(60) DEF CommitInv, AcksSurvive, CommittedWhole, Open, DataCommitted
  <2>4. QED
    BY <2>1, <2>2, <2>3
<1>3. QED
  BY <1>1, <1>2

----------------------------------------------------------------------------
(* Publication *)

\* The commitment is written before the rename, and is that of the products after it.
PublicationInv ==
  /\ \A p \in Procs : pc[p] \in {"settle", "rename"} => staging.commitment = entry.products
  /\ final # None /\ entry # None => final.commitment = entry.products


\* The directory is renamed and published with the commitment of the recorded products.
LEMMA PublicationStep ==
  ControlInv /\ PlacesInv /\ PublicationInv /\ [Next]_vars => PublicationInv'
<1> SUFFICES ASSUME ControlInv, PlacesInv, PublicationInv, [Next]_vars
             PROVE  PublicationInv'
  OBVIOUS
<1>1. StoreInv
  BY DEF PlacesInv
<1>2. ASSUME NEW p \in Procs, Work(p) PROVE PublicationInv'
  <2>1. pc[p] # "idle" /\ Aside(p)
    BY <1>2, WorkArrives
  <2>2. ASSUME NEW q \in Procs, pc'[q] \in {"settle", "rename"} PROVE q = p
    <3>1. SUFFICES ASSUME q # p PROVE FALSE
      OBVIOUS
    <3>2. pc[q] \in {"settle", "rename"}
      BY <2>1, <2>2, <3>1 DEF Aside
    <3>3. job[q].op \in {"publish", "recover"} /\ pc[q] # "idle"
      BY <3>2, PublishingCall DEF PublishSteps
    <3>4. QED
      BY <2>1, <3>1, <3>3, Company
  <2>3. pc'[p] \in {"settle", "rename"} => staging'.commitment = entry'.products
    <3>1. SUFFICES ASSUME pc'[p] \in {"settle", "rename"}
                   PROVE  staging'.commitment = entry'.products
      OBVIOUS
    <3>2. Commitment(p) \/ Fill(p) \/ Settle(p)
      BY <1>2, <3>1, WorkArrives
    <3>3. staging \in Directories /\ entry' = entry
      BY <1>1, <3>2 DEF Commitment, Fill, Settle, At, PlacesInv, Placed, StoreInv
    <3>4. CASE Commitment(p)
      BY <3>1, <3>3, <3>4, ProceedAt, ReturnAt, SMTT(60) DEF Commitment
    <3>5. CASE Fill(p)
      BY <3>3, <3>5 DEF Fill, Directories
    <3>6. CASE Settle(p)
      BY <3>3, <3>6 DEF Settle, Directories, At, PublicationInv
    <3>7. QED
      BY <3>2, <3>4, <3>5, <3>6
  <2>4. final' # None /\ entry' # None => final'.commitment = entry'.products
    <3>1. SUFFICES ASSUME final' # None, entry' # None
                   PROVE  final'.commitment = entry'.products
      OBVIOUS
    <3>2. CASE Rename(p)
      BY <1>2, <3>2 DEF Rename, At, PublicationInv
    <3>3. CASE ~Rename(p)
      <4>1. final' = final
        BY <1>2, <3>1, <3>3 DEF Work, BeginDirectory, BeginLock, Reserve, Write, Sync, Complete,
           Advance, Generation, Commitment, Fill, Settle, Flush, Publish, Quarantine, Forget,
           DestroyKey, Erase, disk
      <4>2. entry # None /\ (entry'.products = entry.products \/ entry.state = DataCommitted)
        BY <1>2, <3>1, RecordWork
      <4>3. entry'.products = entry.products
        BY <1>1, <3>1, <4>1, <4>2, SMTT(60) DEF StoreInv, DataCommitted, Sealed
      <4>4. QED
        BY <3>1, <4>1, <4>2, <4>3 DEF PublicationInv
    <3>4. QED
      BY <3>2, <3>3
  <2>5. QED
    BY <2>2, <2>3, <2>4 DEF PublicationInv
<1>3. ASSUME \A p \in Procs : ~Work(p) PROVE PublicationInv'
  <2>1. /\ \A q \in Procs : pc'[q] \in {"settle", "rename"} => pc'[q] = pc[q]
        /\ \/ UNCHANGED <<entry, keys, disk>>
           \/ \E b \in Bodies : BeginCall(b) /\ entry = None
    BY <1>3, CallArrives
  <2>2. CASE UNCHANGED <<entry, keys, disk>>
    BY <2>1, <2>2 DEF PublicationInv, disk
  <2>3. ASSUME NEW b \in Bodies, BeginCall(b), entry = None PROVE PublicationInv'
    <3>1. final' = None
      BY <1>1, <2>3, StartStore DEF BeginCall, OwnerCalls, disk
    <3>2. \A q \in Procs : pc[q] \notin {"settle", "rename"}
      BY <2>3, PublishingCall DEF PublishSteps
    <3>3. QED
      BY <2>1, <3>1, <3>2 DEF PublicationInv
  <2>4. QED
    BY <2>1, <2>2, <2>3
<1>4. QED
  BY <1>2, <1>3

----------------------------------------------------------------------------
(* Every result *)

\* What holds in every state.
RepositoryInv ==
  ControlInv /\ PlacesInv /\ FilesInv /\ FramesInv /\ CommitInv /\ PublicationInv

\* A repository without the result satisfies all of it.
LEMMA RepositoryInit == Init => RepositoryInv
<1> SUFFICES ASSUME Init PROVE RepositoryInv
  OBVIOUS
<1> USE DurableAssumption
<1>1. ControlInv
  <2>1. NoJob \in Jobs
    BY SMTT(60) DEF NoJob, Jobs
  <2>2. QED
    BY <2>1, SMTT(60) DEF Init, ControlInv, Told, NoAnswer, Writes, Request, Over, PublishStage, SealSlot
<1>2. PlacesInv
  BY DEF Init, PlacesInv, StoreInv, Placed, AtSegment, SegmentSteps, PublishSteps
<1>3. FilesInv
  BY DEF Init, FilesInv
<1>4. FramesInv
  BY DEF Init, FramesInv, NoncesUnique
<1>5. CommitInv /\ PublicationInv
  BY DEF Init, CommitInv, PublicationInv, AcksSurvive, CommittedWhole
<1>6. QED
  BY <1>1, <1>2, <1>3, <1>4, <1>5 DEF RepositoryInv

\* Together the six invariants are inductive.
LEMMA RepositoryAlways == Spec => []RepositoryInv
<1>1. RepositoryInv /\ [Next]_vars => RepositoryInv'
  BY ControlStep, PlacesStep, FilesStep, FramesStep, CommitStep, PublicationStep DEF RepositoryInv
<1>2. QED
  BY <1>1, RepositoryInit, PTL DEF Spec

\* A published result is visible.
LEMMA PublishedIsVisible == RepositoryInv => PublishedVisible
<1> SUFFICES ASSUME RepositoryInv, entry # None, entry.state = Published
             PROVE  Visible
  BY DEF PublishedVisible
<1>1. final # None /\ staging = None
  BY DEF RepositoryInv, PlacesInv, StoreInv
<1>2. final.commitment = entry.products
  BY <1>1 DEF RepositoryInv, PublicationInv
<1>3. final.file[SealSlot] = entry.products
  BY <1>1, SMTT(60) DEF RepositoryInv, CommitInv, CommittedWhole, Locked, DataCommitted, Sealed, Published
<1>4. QED
  BY <1>1, <1>2, <1>3 DEF Visible

\* Under one key no nonce ever seals two different frames, however calls are
\* interrupted, repeated with other bytes or answered with an error
\* (reserve_nonce_range, complete_nonce_reservation).
THEOREM NoncesAlwaysUnique == Spec => []NoncesUnique
<1>1. RepositoryInv => NoncesUnique
  BY DEF RepositoryInv, FramesInv
<1>2. QED
  BY <1>1, RepositoryAlways, PTL

\* A batch whose commit_batch returned stays on disk, with the bytes that were
\* acknowledged, for as long as its key exists.
THEOREM AcksAlwaysSurvive == Spec => []AcksSurvive
<1>1. RepositoryInv => AcksSurvive
  BY DEF RepositoryInv, CommitInv
<1>2. QED
  BY <1>1, RepositoryAlways, PTL

\* What the authority says was committed is always on disk as it was committed
\* (commit_data, seal; publish, quarantine and destroy move or remove directories).
THEOREM CommittedAlwaysWhole == Spec => []CommittedWhole
<1>1. RepositoryInv => CommittedWhole
  BY DEF RepositoryInv, CommitInv
<1>2. QED
  BY <1>1, RepositoryAlways, PTL

\* A published result always passes verify_visible: the commitment it renamed and
\* the sealed products are the ones the authority recorded.
THEOREM PublishedAlwaysVisible == Spec => []PublishedVisible
<1>1. QED
  BY PublishedIsVisible, RepositoryAlways, PTL

\* The record of a result moves only forward, and what it has committed to is not
\* replaced (commit_data, seal, reserve_publication_generation, publish).
THEOREM RecordAlwaysFixed == Spec => RecordFixed
<1> DEFINE Fixed ==
      entry # None /\ entry' # None =>
        /\ entry'.key = entry.key
        /\ entry'.state >= entry.state
        /\ entry.data # None => entry'.data = entry.data
        /\ entry.products # None => entry'.products = entry.products
        /\ entry.publisher # None => entry'.publisher = entry.publisher
<1>1. ASSUME RepositoryInv, [Next]_vars PROVE Fixed
  <2> SUFFICES ASSUME entry # None, entry' # None PROVE Fixed
    OBVIOUS
  <2>1. ControlInv /\ PlacesInv /\ entry \in Entries
    BY <1>1 DEF RepositoryInv, PlacesInv, StoreInv
  <2>2. entry.state \in Int
    BY <2>1, SMTT(60) DEF Entries, Open, Published
  <2>3. ASSUME NEW p \in Procs, Work(p) PROVE Fixed
    BY <2>1, <2>2, <2>3, RecordWork, SMTT(60) DEF Open, DataCommitted, Sealed, Published
  <2>4. ASSUME \A p \in Procs : ~Work(p) PROVE Fixed
    BY <1>1, <2>1, <2>2, <2>4, CallArrives, SMTT(60)
  <2>5. QED
    BY <2>3, <2>4
<1>2. RepositoryInv /\ [Next]_vars => [Fixed]_vars
  BY <1>1
<1> HIDE DEF Fixed
<1>3. Spec => [][Fixed]_vars
  BY <1>2, RepositoryAlways, PTL DEF Spec
<1>4. QED
  BY <1>3 DEF RecordFixed, Fixed

----------------------------------------------------------------------------
(* The product *)

\* The product begins a result once.  A second directory is never quarantined under a
\* name in use, and a key is gone before its files.
ProductInv ==
  /\ keys = 0 => entry = None /\ staging = None /\ final = None
  /\ stage = Request /\ ~Begins => keys = 0
  /\ Begins => keys # 0
  /\ "staging" \in quarantined => staging = None /\ stage # Request
  /\ "final" \in quarantined => final = None /\ entry = None /\ stage # Request
  /\ \A p \in Procs : pc[p] = "erase" => entry = None
  /\ NeverCorrupt

\* The product writes each segment in one call, so the one it completes was synced by
\* that call.
SyncedInv ==
  /\ (pc[Owner] = "idle" \/ job[Owner].op \notin Writes) /\ stage # Over /\ staging # None =>
       \A s \in Slots : staging.file[s] # None => s < stage
  /\ pc[Owner] = "complete" /\ job[Owner].op = "batch" => job[Owner].slot \notin staging.soft
  /\ \A a \in acked : entry # None /\ entry.key = a.key => a.slot < stage
  /\ AcksSynced

\* The product gives a result up on the first error: its progress never goes back, and
\* a write it is in ends the result, goes on, or succeeds.
LEMMA ProductMoves ==
  ASSUME Client = "product", ControlInv, [Next]_vars
  PROVE  /\ stage' >= stage
         /\ pc[Owner] # "idle" /\ job[Owner].op \in Writes =>
              \/ pc'[Owner] # "idle" /\ job'[Owner] = job[Owner] /\ stage' = stage
              \/ pc'[Owner] = "idle" /\ stage' = Over
              \/ pc'[Owner] = "idle" /\ stage' = stage + 1 /\ Told'
<1> USE DurableAssumption
<1> DEFINE Goal ==
      /\ stage' >= stage
      /\ pc[Owner] # "idle" /\ job[Owner].op \in Writes =>
           \/ pc'[Owner] # "idle" /\ job'[Owner] = job[Owner] /\ stage' = stage
           \/ pc'[Owner] = "idle" /\ stage' = Over
           \/ pc'[Owner] = "idle" /\ stage' = stage + 1 /\ Told'
<1>1. stage \in Int /\ stage <= Over /\ Over \in Int
  BY SMTT(60) DEF ControlInv, Request, Over, PublishStage, SealSlot
<1>2. ASSUME NEW p \in Procs, Work(p) PROVE Goal
  <2>1. /\ pc[p] # "idle" /\ Aside(p) /\ (Goes(p) \/ Ends(p))
        /\ job[p].op \in Writes => p = Owner /\ job[p].slot = stage
    BY <1>2, WorkMoves, WorkControl DEF ControlInv, Entitled
  <2>2. CASE Goes(p)
    <3>1. stage' = stage /\ pc'[p] # "idle" /\ job'[p] = job[p]
      BY <2>2, ProceedAt DEF Goes, Proceed, Goto, Steps
    <3>2. QED
      BY <1>1, <2>1, <3>1, SMTT(60) DEF Aside
  <2>3. CASE Ends(p)
    <3>1. PICK r : Return(p, r)
      BY <2>3 DEF Ends
    <3>2. pc'[p] = "idle" /\ out'[p] = [op |-> job[p].op, result |-> r]
      BY <3>1 DEF Return, Answer, Release, ControlInv
    <3>3. CASE job[p].op \in Writes
      <4>1. stage' = Over \/ (r = "ok" /\ stage' = stage + 1)
        BY <2>1, <3>1, <3>3 DEF Return, Answer, Writes
      <4>2. r = "ok" => Told'
        BY <2>1, <3>2, <3>3, SMTT(60) DEF Told
      <4>3. QED
        BY <1>1, <2>1, <3>2, <3>3, <4>1, <4>2, SMTT(60)
    <3>4. CASE job[p].op \notin Writes
      <4>1. stage' \in {stage, Over} /\ (p # Owner => stage' = stage)
        BY <3>1, <3>4 DEF Return, Answer
      <4>2. p # Owner => pc'[Owner] = pc[Owner] /\ job'[Owner] = job[Owner]
        BY <2>1 DEF Aside
      <4>3. QED
        BY <1>1, <3>2, <3>4, <4>1, <4>2, SMTT(60)
    <3>5. QED
      BY <3>3, <3>4
  <2>4. QED
    BY <2>1, <2>2, <2>3
<1>3. ASSUME NEW p \in Procs, Aside(p), stage' \in {stage, stage + 1, Over},
             p # Owner => stage' = stage,
             p = Owner => pc[p] = "idle" \/ (pc'[p] = "idle" /\ stage' = Over)
      PROVE  Goal
  <2>1. p # Owner => pc'[Owner] = pc[Owner] /\ job'[Owner] = job[Owner]
    BY <1>3 DEF Aside
  <2>2. QED
    BY <1>1, <1>3, <2>1, SMTT(60)
<1>4. ASSUME NEW p, NEW j, NEW step, NEW locks, Enter(p, j, step, locks)
      PROVE  /\ stage' \in {stage, stage + 1, Over}
             /\ p # Owner /\ j.op \notin Writes => stage' = stage
  BY <1>4 DEF Enter, Goto, Answer
<1>5. ASSUME OwnerCall PROVE Goal
  <2>1. Aside(Owner) /\ pc[Owner] = "idle"
    BY <1>5, OwnerControl
  <2>2. ASSUME NEW b \in Bodies, BeginCall(b) PROVE stage' \in {stage, stage + 1, Over}
    BY <1>4, <2>2 DEF BeginCall, Goto
  <2>3. ASSUME NEW b \in Bodies, NEW slot \in 1 .. Batches, BatchCall(slot, b)
        PROVE  stage' \in {stage, stage + 1, Over}
    BY <1>4, <2>3 DEF BatchCall
  <2>4. ASSUME NEW b \in Bodies, DataCall(b) \/ SealCall(b) \/ PublishCall
        PROVE  stage' \in {stage, stage + 1, Over}
    BY <1>4, <2>4 DEF DataCall, SealCall, PublishCall
  <2>5. ASSUME PublishCall PROVE stage' \in {stage, stage + 1, Over}
    BY <1>4, <2>5 DEF PublishCall
  <2>6. QED
    BY <1>3, <1>5, <2>1, <2>2, <2>3, <2>4, <2>5 DEF OwnerCall
<1>6. ASSUME NEW p \in Procs, NEW context \in BOOLEAN, RecoverCall(p, context) PROVE Goal
  <2>1. Job("recover", 0, None).op \notin Writes
    BY DEF Job, Writes
  <2>2. QED
    BY <1>3, <1>4, <1>6, <2>1, RecoverControl DEF RecoverCall, At
<1>7. ASSUME NEW p \in Procs, DestroyCall(p) PROVE Goal
  <2>1. Job("destroy", 0, None).op \notin Writes
    BY DEF Job, Writes
  <2>2. /\ \E locks : Enter(p, Job("destroy", 0, None), DestroyStep, locks)
        /\ pc[p] = "idle" /\ Aside(p)
    BY <1>7, DestroyControl DEF DestroyCall, At
  <2>3. QED
    BY <1>3, <1>4, <2>1, <2>2
<1>8. ASSUME NEW p \in Procs, ExpandCall(p) PROVE Goal
  BY <1>3, <1>8, ExpandControl DEF ExpandCall, Answer, Job, Writes, At
<1>9. ASSUME NEW p \in Procs, Crash(p) PROVE Goal
  <2>1. /\ Aside(p) /\ pc'[p] = "idle" /\ (p # Owner => stage' = stage)
        /\ p = Owner => stage' = Over
    BY <1>9, CrashControl DEF Crash, StageAfterCrash, Release, ControlInv
  <2>2. QED
    BY <1>3, <2>1
<1>10. ASSUME Tick \/ UNCHANGED vars PROVE Goal
  <2>1. UNCHANGED <<stage, pc, job>>
    BY <1>10 DEF Tick, vars, control
  <2>2. QED
    BY <1>1, <2>1, SMTT(60)
<1> HIDE DEF Goal
<1>11. Goal
  BY <1>2, <1>5, <1>6, <1>7, <1>8, <1>9, <1>10 DEF Next
<1>12. QED
  BY <1>11 DEF Goal

\* What a step of a call does to the directories and the quarantine.
LEMMA WorkStores ==
  ASSUME ControlInv, PlacesInv, NEW p \in Procs, Work(p)
  PROVE  /\ keys' = keys
         /\ staging' # None => staging # None \/ BeginDirectory(p)
         /\ final' # None => final # None \/ Rename(p)
         /\ quarantined' # quarantined => Quarantine(p)
<1>1. keys' = keys /\ (staging' # None => staging # None \/ BeginDirectory(p))
  <2>1. CASE BeginDirectory(p) \/ BeginLock(p) \/ Reserve(p) \/ Write(p)
    BY <2>1 DEF BeginDirectory, BeginLock, Reserve, Write, disk, PlacesInv, Placed, At
  <2>2. CASE ~BeginDirectory(p) /\ ~BeginLock(p) /\ ~Reserve(p) /\ ~Write(p)
    BY <2>2, WorkStill DEF Still
  <2>3. QED
    BY <2>1, <2>2
<1>2. /\ final' # None => final # None \/ Rename(p)
      /\ quarantined' # quarantined => Quarantine(p)
  <2>1. CASE BeginDirectory(p) \/ BeginLock(p) \/ Reserve(p) \/ Write(p) \/ Sync(p) \/ Complete(p)
    BY <2>1 DEF BeginDirectory, BeginLock, Reserve, Write, Sync, Complete, disk
  <2>2. CASE Advance(p) \/ Generation(p) \/ Commitment(p) \/ Fill(p) \/ Settle(p)
    BY <2>2 DEF Advance, Generation, Commitment, Fill, Settle, disk
  <2>3. CASE \/ Rename(p) \/ Flush(p) \/ Publish(p)
             \/ Quarantine(p) \/ Forget(p) \/ DestroyKey(p) \/ Erase(p)
    BY <2>3 DEF Rename, Flush, Publish, Quarantine, Forget, DestroyKey, Erase, disk
  <2>4. QED
    BY <2>1, <2>2, <2>3 DEF Work
<1>3. QED
  BY <1>1, <1>2

\* What a step of a recovery may answer.
LEMMA WorkAnswers ==
  ASSUME ControlInv, NEW p \in Procs, Work(p), NEW q \in Procs, out'[q].op = "recover"
  PROVE  \/ out'[q] = out[q]
         \/ out'[q].result \notin {"rollback", "cleanup"}
         \/ /\ Quarantine(p)
            /\ \/ staging # None /\ "staging" \in quarantined
               \/ final # None /\ "final" \in quarantined
<1>1. CASE q # p
  BY <1>1, WorkMoves DEF Goes, Ends, Proceed, Goto, Return, Answer, ControlInv
<1>2. CASE q = p
  <2>1. ASSUME NEW step, Proceed(p, step) PROVE FALSE
    BY <1>2, <2>1 DEF Proceed, Goto, ControlInv, NoAnswer
  <2>2. ASSUME NEW r, Return(p, r) PROVE out'[q].result = r /\ job[p].op = "recover"
    BY <1>2, <2>2 DEF Return, Answer, ControlInv
  <2>3. CASE Quarantine(p)
    BY <2>1, <2>2, <2>3, SMTT(60) DEF Quarantine
  <2>4. CASE Generation(p)
    BY <2>1, <2>2, <2>4, SMTT(60) DEF Generation
  <2>5. CASE BeginDirectory(p) \/ BeginLock(p) \/ Reserve(p) \/ Write(p) \/ Sync(p)
    BY <2>1, <2>2, <2>5, SMTT(60) DEF BeginDirectory, BeginLock, Reserve, Write, Sync
  <2>6. CASE Complete(p) \/ Advance(p) \/ Commitment(p) \/ Fill(p) \/ Settle(p) \/ Rename(p)
    BY <2>1, <2>2, <2>6, SMTT(60) DEF Complete, Advance, Commitment, Fill, Settle, Rename
  <2>7. CASE Flush(p) \/ Publish(p) \/ Forget(p) \/ DestroyKey(p) \/ Erase(p)
    BY <2>1, <2>2, <2>7, SMTT(60) DEF Flush, Publish, Forget, DestroyKey, Erase
  <2>8. QED
    BY <2>3, <2>4, <2>5, <2>6, <2>7 DEF Work
<1>3. QED
  BY <1>1, <1>2

\* recover never takes what it finds for a rollback.
LEMMA RecoverSound ==
  ASSUME RepositoryInv, NEW context \in BOOLEAN
  PROVE  RecoverStep(context) \notin {"rollback", "cleanup"}
<1>1. StoreInv /\ CommittedWhole /\ PublishedVisible
  BY PublishedIsVisible DEF RepositoryInv, PlacesInv, CommitInv
<1>2. CASE entry # None /\ entry.state = DataCommitted
  <2>1. final = None /\ staging # None /\ Manifest(staging.file[DataSlot]) = entry.data
    BY <1>1, <1>2, SMTT(60) DEF StoreInv, CommittedWhole, Locked, DataCommitted, Sealed
  <2>2. QED
    BY <1>2, <2>1 DEF RecoverStep, Open, DataCommitted
<1>3. CASE entry # None /\ entry.state = Sealed
  <2>1. \E dir \in {staging, final} : dir # None /\ dir.file[SealSlot] = entry.products
    BY <1>1, <1>3, SMTT(60) DEF CommittedWhole, Locked, DataCommitted, Sealed
  <2>2. QED
    BY <1>1, <1>3, <2>1, SMTT(60) DEF RecoverStep, RecoverSealed, StoreInv, Open, DataCommitted, Sealed
<1>4. CASE entry # None /\ entry.state = Published
  BY <1>1, <1>4, SMTT(60) DEF RecoverStep, PublishedVisible, Open, DataCommitted, Sealed, Published
<1>5. CASE entry = None \/ entry.state = Open
  BY <1>5 DEF RecoverStep, Open, DataCommitted
<1>6. QED
  BY <1>1, <1>2, <1>3, <1>4, <1>5, SMTT(60) DEF StoreInv, Entries, Open, DataCommitted, Sealed, Published

\* begin is the owner's, at the start of the result; its steps come before any other call's.
LEMMA BeginsAtStart ==
  ASSUME ControlInv
  PROVE  /\ Begins => stage = Request /\ repo = Owner
         /\ \A p \in Procs : BeginDirectory(p) \/ BeginLock(p) => p = Owner /\ Begins
<1>1. Begins => stage = Request /\ repo = Owner
  BY DurableAssumption DEF Begins, ControlInv, Entitled, Writes
<1>2. ASSUME NEW p \in Procs, BeginDirectory(p) \/ BeginLock(p) PROVE p = Owner /\ Begins
  BY <1>2 DEF BeginDirectory, BeginLock, At, Begins, ControlInv, Suits, Entitled, Writes
<1>3. QED
  BY <1>1, <1>2

\* The product's steps inside a call
LEMMA ProductWork ==
  ASSUME Client = "product", RepositoryInv, ProductInv, [Next]_vars, NEW p \in Procs, Work(p)
  PROVE  ProductInv'
<1>1. ControlInv /\ PlacesInv /\ StoreInv /\ Placed(p)
  BY DEF RepositoryInv, PlacesInv
<1>2. /\ keys' = keys
      /\ staging' # None => staging # None \/ BeginDirectory(p)
      /\ final' # None => final # None \/ Rename(p)
      /\ quarantined' # quarantined => Quarantine(p)
  BY <1>1, WorkStores
<1>3. entry' # None => entry # None
  BY <1>1, RecordWork
<1>4. Rename(p) => entry # None
  BY <1>1 DEF Rename, At, Placed, PublishSteps
<1>5. /\ stage' = Request => stage = Request /\ (Begins => Begins')
      /\ Begins' => Begins
  <2>1. stage' = Request => stage = Request /\ (Begins => Begins')
    BY <1>1, ProductMoves, DurableAssumption, SMTT(60) DEF Begins, Writes, ControlInv, Request, Over,
       PublishStage, SealSlot
  <2>2. Begins' => Begins
    <3>1. CASE p = Owner
      BY <1>1, <3>1, WorkMoves, ProceedAt, ReturnAt DEF Begins, Goes, Ends
    <3>2. CASE p # Owner
      BY <1>1, <3>2, WorkControl, DurableAssumption DEF Aside, Begins
    <3>3. QED
      BY <3>1, <3>2
  <2>3. QED
    BY <2>1, <2>2
<1>6. keys' = 0 => entry' = None /\ staging' = None /\ final' = None
  BY <1>1, <1>2, <1>3, <1>4, BeginsAtStart DEF ProductInv
<1>7. /\ stage' = Request /\ ~Begins' => keys' = 0
      /\ Begins' => keys' # 0
  BY <1>2, <1>5 DEF ProductInv
<1>8. Quarantine(p) /\ stage = Request => staging = None /\ final = None
  <2>1. Quarantine(p) => ~Begins
    BY <1>1, BeginsAtStart DEF Quarantine, At, Begins, ControlInv, Suits, Entitled
  <2>2. QED
    BY <2>1 DEF ProductInv
<1>9. "staging" \in quarantined' => staging' = None /\ stage' # Request
  <2>1. CASE "staging" \in quarantined
    BY <1>1, <1>2, <1>5, <2>1, BeginsAtStart DEF ProductInv
  <2>2. CASE "staging" \in quarantined' /\ "staging" \notin quarantined
    BY <1>2, <1>5, <1>8, <2>2 DEF Quarantine
  <2>3. QED
    BY <2>1, <2>2
<1>10. "final" \in quarantined' => final' = None /\ entry' = None /\ stage' # Request
  <2>1. CASE "final" \in quarantined
    BY <1>2, <1>3, <1>4, <1>5, <2>1 DEF ProductInv
  <2>2. CASE "final" \in quarantined' /\ "final" \notin quarantined
    <3>1. Quarantine(p) /\ final # None /\ final' = None /\ entry' = entry
      BY <1>2, <2>2, SMTT(60) DEF Quarantine
    <3>2. entry = None
      BY <1>1, <3>1 DEF Quarantine, At, Placed
    <3>3. QED
      BY <1>5, <1>8, <3>1, <3>2
  <2>3. QED
    BY <2>1, <2>2
<1>11. \A q \in Procs : pc'[q] = "erase" => entry' = None
  BY <1>1, <1>3, EraseWork DEF ProductInv
<1>12. NeverCorrupt'
  BY <1>1, WorkAnswers DEF ProductInv, NeverCorrupt
<1>13. QED
  BY <1>6, <1>7, <1>9, <1>10, <1>11, <1>12 DEF ProductInv

\* Every step of the product keeps its invariant.
LEMMA ProductStep ==
  ASSUME Client = "product"
  PROVE  RepositoryInv /\ ProductInv /\ [Next]_vars => ProductInv'
<1> SUFFICES ASSUME RepositoryInv, ProductInv, [Next]_vars PROVE ProductInv'
  OBVIOUS
<1>1. CASE \E p \in Procs : Work(p)
  BY <1>1, ProductWork
<1>2. CASE \A p \in Procs : ~Work(p)
  <2>1. ControlInv /\ PlacesInv /\ keys \in Nat
    BY DEF RepositoryInv, PlacesInv, StoreInv
  <2>2. /\ \A q \in Procs : pc'[q] = "erase" => pc[q] = "erase"
        /\ Begins' => Begins \/ \E b \in Bodies : BeginCall(b)
        /\ \A q \in Procs : out'[q].op = "recover" =>
             out'[q] = out[q] \/ \E context \in BOOLEAN : out'[q].result = RecoverStep(context)
        /\ \/ UNCHANGED <<entry, keys, disk>>
           \/ \E b \in Bodies : BeginCall(b) /\ entry = None
    BY <1>2, <2>1, CallArrives
  <2>3. stage' = Request => stage = Request /\ (Begins => Begins')
    BY <2>1, ProductMoves, DurableAssumption, SMTT(60) DEF Begins, Writes, ControlInv, Request, Over,
       PublishStage, SealSlot
  <2>4. NeverCorrupt'
    BY <2>2, RecoverSound DEF ProductInv, NeverCorrupt
  <2>5. CASE UNCHANGED <<entry, keys, disk>>
    <3>1. Begins' => keys # 0
      <4>1. ASSUME NEW b \in Bodies, BeginCall(b) PROVE entry # None
        BY <2>1, <2>5, <4>1, SMTT(60) DEF BeginCall
      <4>2. QED
        BY <2>2, <4>1 DEF ProductInv
    <3>2. QED
      BY <2>2, <2>3, <2>4, <2>5, <3>1 DEF ProductInv, disk
  <2>6. ASSUME NEW b \in Bodies, BeginCall(b), entry = None PROVE ProductInv'
    <3>1. /\ stage = Request /\ pc[Owner] = "idle" /\ repo = None /\ keys' = keys + 1
          /\ UNCHANGED <<staging, final, quarantined>>
      BY <2>6 DEF BeginCall, OwnerCalls, disk
    <3>2. Begins'
      BY <2>1, <2>6, DurableAssumption, SMTT(60) DEF BeginCall, Goto, ControlInv, Begins, Job
    <3>3. staging = None /\ final = None
      BY <3>1 DEF ProductInv, Begins
    <3>4. \A q \in Procs : pc[q] # "erase"
      BY <2>1, <3>1, <3>3, DurableAssumption DEF ControlInv, Suits, Entitled, PlacesInv, Placed,
         Locked
    <3>5. QED
      BY <2>1, <2>2, <2>4, <3>1, <3>2, <3>4, SMTT(60) DEF ProductInv
  <2>7. QED
    BY <2>2, <2>5, <2>6
<1>3. QED
  BY <1>1, <1>2

\* What a step of a call leaves unsynced.
LEMMA WorkSoft ==
  ASSUME ControlInv, PlacesInv, NEW p \in Procs, Work(p), staging' # None
  PROVE  \/ staging'.soft = {}
         \/ /\ staging # None
            /\ \/ staging'.soft \subseteq staging.soft \cup {LockFile, CommitmentFile}
               \/ Write(p) /\ staging'.soft \subseteq staging.soft \cup {job[p].slot}
<1>1. StoreInv
  BY DEF PlacesInv
<1>2. CASE BeginDirectory(p) \/ BeginLock(p)
  <2>1. staging' = EmptyDir \/ (staging \in Directories /\ staging' \in {staging, WithLock(staging)})
    BY <1>1, <1>2 DEF BeginDirectory, BeginLock, StoreInv, PlacesInv, Placed, At
  <2>2. staging' = EmptyDir => staging'.soft = {}
    BY SMTT(60) DEF EmptyDir
  <2>3. staging \in Directories => staging # None
    BY AbsenceAssumption
  <2>4. QED
    BY <2>1, <2>2, <2>3, LockedDirectory, SMTT(60)
<1>3. CASE Write(p)
  <2>1. staging \in Directories /\ staging # None
    BY <1>1, <1>3 DEF Write, StoreInv
  <2>2. staging'.soft \subseteq staging.soft \cup {job[p].slot}
    BY <1>3, <2>1 DEF Write, Directories
  <2>3. QED
    BY <1>3, <2>1, <2>2
<1>4. CASE Sync(p) \/ Settle(p)
  BY <1>1, <1>4, SMTT(60) DEF Sync, Settle, At, PlacesInv, Placed, StoreInv, Directories
<1>5. CASE Commitment(p) \/ Fill(p)
  <2>1. staging \in Directories /\ staging # None
    BY <1>1, <1>5 DEF Commitment, Fill, At, PlacesInv, Placed, StoreInv
  <2>2. \/ staging' = [staging EXCEPT !.commitment = Torn, !.soft = @ \cup {CommitmentFile}]
        \/ staging' \in {staging, [staging EXCEPT !.commitment = entry.products]}
    BY <1>5 DEF Commitment, Fill
  <2>3. staging'.soft \in {staging.soft, staging.soft \cup {CommitmentFile}}
    BY <2>1, <2>2 DEF Directories
  <2>4. QED
    BY <2>1, <2>3, SMTT(60)
<1>6. CASE ~(\/ BeginDirectory(p) \/ BeginLock(p) \/ Write(p) \/ Sync(p)
             \/ Settle(p) \/ Commitment(p) \/ Fill(p))
  <2>1. staging' = staging
    BY <1>6 DEF Work, Reserve, Complete, Advance, Generation, Rename, Flush, Publish, Quarantine,
       Forget, DestroyKey, Erase, disk
  <2>2. QED
    BY <2>1
<1>7. QED
  BY <1>2, <1>3, <1>4, <1>5, <1>6

\* Only the owner's writes and begin touch the segments of the staging directory.
LEMMA WorkFiles ==
  ASSUME ControlInv, PlacesInv, NEW p \in Procs, Work(p), staging' # None,
         pc[Owner] = "idle" \/ job[Owner].op \notin Writes
  PROVE  staging # None /\ staging'.file = staging.file
<1>1. ASSUME BeginDirectory(p) \/ BeginLock(p) \/ Write(p) PROVE FALSE
  <2>1. pc[p] # "idle" /\ job[p].op \in SegmentOps \cup {"begin"}
    BY <1>1 DEF BeginDirectory, BeginLock, Write, At, ControlInv, Suits, SegmentSteps
  <2>2. p = Owner /\ job[p].op \in Writes
    BY <2>1 DEF ControlInv, Entitled, Writes, SegmentOps
  <2>3. QED
    BY <2>1, <2>2
<1>2. CASE Reserve(p)
  BY <1>2 DEF Reserve, disk
<1>3. CASE ~Reserve(p)
  BY <1>1, <1>3, WorkStill DEF Still
<1>4. QED
  BY <1>2, <1>3

\* Every step of the product keeps acknowledged batches synced.
LEMMA SyncedStep ==
  ASSUME Client = "product"
  PROVE  RepositoryInv /\ SyncedInv /\ [Next]_vars /\ ControlInv' /\ FilesInv' => SyncedInv'
<1> SUFFICES ASSUME RepositoryInv, SyncedInv, [Next]_vars, ControlInv', FilesInv'
             PROVE  SyncedInv'
  OBVIOUS
<1> USE DurableAssumption
<1>1. /\ ControlInv /\ PlacesInv /\ StoreInv /\ CommitInv
      /\ stage \in Int /\ stage' \in Int /\ stage' <= Over /\ stage <= Over /\ Over \in Int
  BY SMTT(60) DEF RepositoryInv, PlacesInv, ControlInv, Request, Over, PublishStage, SealSlot
<1>2. /\ stage' >= stage
      /\ pc[Owner] # "idle" /\ job[Owner].op \in Writes =>
           \/ pc'[Owner] # "idle" /\ job'[Owner] = job[Owner] /\ stage' = stage
           \/ pc'[Owner] = "idle" /\ stage' = Over
           \/ pc'[Owner] = "idle" /\ stage' = stage + 1 /\ Told'
  BY <1>1, ProductMoves
<1>3. \A a \in acked : a.slot \in 1 .. Batches /\ a.key \in Nat /\ a.key <= keys
  BY <1>1 DEF CommitInv, Acks
<1>4. ASSUME pc'[Owner] = "idle" \/ job'[Owner].op \notin Writes, stage' # Over, staging' # None,
             pc[Owner] = "idle" \/ job[Owner].op \notin Writes =>
               staging # None /\ staging'.file = staging.file
      PROVE  \A s \in Slots : staging'.file[s] # None => s < stage'
  <2>1. CASE pc[Owner] # "idle" /\ job[Owner].op \in Writes
    <3>1. Told'
      BY <1>2, <1>4, <2>1
    <3>2. QED
      BY <1>4, <3>1 DEF FilesInv, Reached
  <2>2. CASE pc[Owner] = "idle" \/ job[Owner].op \notin Writes
    <3>1. stage # Over
      BY <1>1, <1>2, <1>4, SMTT(60)
    <3>2. \A s \in Slots : staging.file[s] # None => s < stage
      BY <1>4, <2>2, <3>1 DEF SyncedInv
    <3>3. QED
      BY <1>1, <1>2, <1>4, <2>2, <3>2, SMTT(60) DEF Slots
  <2>3. QED
    BY <2>1, <2>2
<1>5. ASSUME NEW p \in Procs, Work(p) PROVE SyncedInv'
  <2>1. /\ pc[p] # "idle" /\ Aside(p)
        /\ pc'[p] = "complete" => BeginDirectory(p) \/ Sync(p)
        /\ Goes(p) \/ Ends(p)
    BY <1>1, <1>5, WorkArrives, WorkMoves
  <2>2. entry' # None => entry # None /\ entry'.key = entry.key
    BY <1>1, <1>5, RecordWork
  <2>3. ASSUME pc'[Owner] = "complete", job'[Owner].op = "batch"
        PROVE  job'[Owner].slot \notin staging'.soft
    <3>1. CASE p = Owner
      <4>1. job'[p] = job[p]
        BY <1>1, <2>1, <2>3, <3>1, ProceedAt, ReturnAt DEF Goes, Ends
      <4>2. Sync(p)
        BY <1>1, <2>1, <2>3, <3>1, <4>1, BeginsAtStart DEF Begins
      <4>3. staging' = [staging EXCEPT !.soft = {}] /\ staging \in Directories
        BY <1>1, <2>3, <3>1, <4>2, ReturnAt DEF Sync, StoreInv
      <4>4. staging'.soft = {}
        BY <4>3 DEF Directories
      <4>5. QED
        BY <4>4
    <3>2. CASE p # Owner
      <4>1. pc[Owner] = "complete" /\ job[Owner].op = "batch"
        BY <2>1, <2>3, <3>2 DEF Aside
      <4>2. QED
        BY <1>1, <2>1, <3>2, <4>1, Company
    <3>3. QED
      BY <3>1, <3>2
  <2>4. CASE acked' = acked
    <3>1. \A a \in acked' : entry' # None /\ entry'.key = a.key => a.slot < stage'
      BY <1>1, <1>2, <1>3, <2>2, <2>4, SMTT(60) DEF SyncedInv
    <3>2. AcksSynced'
      <4> SUFFICES ASSUME NEW a \in acked', entry' # None, entry'.key = a.key, staging' # None
                   PROVE  a.slot \notin staging'.soft
        BY DEF AcksSynced
      <4>1. /\ staging # None => a.slot \notin staging.soft
            /\ a.slot < stage /\ a.slot \in Nat
        BY <1>3, <2>2, <2>4, SMTT(60) DEF SyncedInv, AcksSynced
      <4>2. Write(p) => job[p].slot = stage
        BY <1>1 DEF Write, At, ControlInv, Suits, Entitled, Writes, SegmentSteps, SegmentOps
      <4>3. a.slot \notin {LockFile, CommitmentFile}
        BY <4>1, SMTT(60) DEF LockFile, CommitmentFile
      <4>4. QED
        BY <1>1, <1>5, <4>1, <4>2, <4>3, WorkSoft, SMTT(60)
    <3>3. QED
      BY <1>1, <1>4, <1>5, <2>3, <3>1, <3>2, WorkFiles DEF SyncedInv
  <2>5. CASE acked' # acked
    <3>1. /\ Complete(p) /\ job[p].op = "batch" /\ entry # None /\ entry.last = Reservation(p)
          /\ acked' = acked \cup {[key |-> entry.key, slot |-> job[p].slot, body |-> job[p].body]}
      BY <1>1, <1>5, <2>5, AckWork
    <3>2. p = Owner /\ job[p].slot = stage /\ stage <= Batches
      <4>1. pc[p] # "idle"
        BY <3>1 DEF Complete, At
      <4>2. Entitled(p, job[p], repo, res, stage)
        BY <1>1, <4>1 DEF ControlInv
      <4>3. p = Owner /\ job[p].slot = stage /\ stage \in 1 .. Batches
        BY <3>1, <4>2 DEF Entitled, Writes
      <4>4. stage <= Batches
        BY <4>3, SMTT(60)
      <4>5. QED
        BY <4>3, <4>4
    <3>3. /\ Return(p, "ok") /\ pc[Owner] = "complete" /\ staging' = staging
      BY <3>1, <3>2 DEF Complete, At, disk
    <3>4. stage' = stage + 1
      BY <3>1, <3>2, <3>3 DEF Return, Answer, Writes
    <3>5. stage \notin staging.soft
      BY <3>1, <3>2, <3>3 DEF SyncedInv
    <3>6. \A a \in acked' : a \in acked \/ a.slot = stage
      BY <3>1, <3>2, SMTT(60)
    <3>7. \A a \in acked' : entry' # None /\ entry'.key = a.key => a.slot < stage'
      BY <1>1, <1>3, <2>2, <3>4, <3>6, SMTT(60) DEF SyncedInv
    <3>8. AcksSynced'
      BY <2>2, <3>3, <3>5, <3>6 DEF SyncedInv, AcksSynced
    <3>9. QED
      BY <1>1, <1>4, <1>5, <2>3, <3>7, <3>8, WorkFiles DEF SyncedInv
  <2>6. QED
    BY <2>4, <2>5
<1>6. ASSUME \A p \in Procs : ~Work(p) PROVE SyncedInv'
  <2>1. /\ acked' = acked
        /\ pc'[Owner] = "complete" /\ job'[Owner].op = "batch" =>
             \/ pc[Owner] = "complete" /\ job'[Owner] = job[Owner]
             \/ pc[Owner] = "idle" /\ stage \in 1 .. Batches /\ BatchStep(stage) = "complete"
        /\ \/ UNCHANGED <<entry, keys, disk>>
           \/ \E b \in Bodies : BeginCall(b) /\ entry = None
    BY <1>1, <1>6, CallArrives
  <2>2. /\ staging' = staging
        /\ entry' # None => \/ entry # None /\ entry'.key = entry.key
                            \/ entry'.key = keys + 1
    BY <2>1, SMTT(60) DEF BeginCall, disk
  <2>3. keys \in Nat
    BY <1>1 DEF StoreInv
  <2>4. ASSUME pc'[Owner] = "complete", job'[Owner].op = "batch"
        PROVE  job'[Owner].slot \notin staging'.soft
    <3>1. CASE pc[Owner] = "complete" /\ job'[Owner] = job[Owner]
      BY <2>2, <2>4, <3>1 DEF SyncedInv
    <3>2. CASE pc[Owner] = "idle" /\ stage \in 1 .. Batches /\ BatchStep(stage) = "complete"
      <4>1. staging # None /\ staging.file[stage] # None
        BY <3>2 DEF BatchStep, Locked
      <4>2. stage \in Slots /\ stage # Over
        BY <3>2, SMTT(60) DEF Slots, SealSlot, Over, PublishStage
      <4>3. stage < stage
        BY <3>2, <4>1, <4>2 DEF SyncedInv
      <4>4. QED
        BY <3>2, <4>3, SMTT(60)
    <3>3. QED
      BY <2>1, <2>4, <3>1, <3>2
  <2>5. \A a \in acked' : entry' # None /\ entry'.key = a.key => a.slot < stage'
    BY <1>1, <1>2, <1>3, <2>1, <2>2, <2>3, SMTT(60) DEF SyncedInv
  <2>6. AcksSynced'
    BY <1>3, <2>1, <2>2, <2>3, SMTT(60) DEF SyncedInv, AcksSynced
  <2>7. QED
    BY <1>4, <2>2, <2>4, <2>5, <2>6 DEF SyncedInv
<1>7. QED
  BY <1>5, <1>6

\* With the product's client the two invariants hold in every state.
LEMMA ProductAlways ==
  ASSUME Client = "product"
  PROVE  Spec => [](RepositoryInv /\ ProductInv /\ SyncedInv)
<1>1. Init => ProductInv /\ SyncedInv
  <2> SUFFICES ASSUME Init PROVE ProductInv /\ SyncedInv
    OBVIOUS
  <2>1. pc[Owner] = "idle" /\ \A p \in Procs : pc[p] = "idle" /\ out[p].op = "none"
    BY DurableAssumption DEF Init, NoAnswer
  <2>2. ProductInv
    BY <2>1 DEF Init, ProductInv, NeverCorrupt, Begins
  <2>3. SyncedInv
    BY <2>1 DEF Init, SyncedInv, AcksSynced
  <2>4. QED
    BY <2>2, <2>3
<1>2. RepositoryInv /\ RepositoryInv' /\ ProductInv /\ SyncedInv /\ [Next]_vars
        => ProductInv' /\ SyncedInv'
  <2>1. RepositoryInv' => ControlInv' /\ FilesInv'
    BY DEF RepositoryInv
  <2>2. QED
    BY <2>1, ProductStep, SyncedStep
<1>3. QED
  BY <1>1, <1>2, RepositoryAlways, PTL DEF Spec

\* The product, whose processes may die at any step, never makes recover report
\* corruption, nor leaves what it cannot clean up (recover, quarantine_owned).
THEOREM RecoveryNeverCorrupt ==
  ASSUME Client = "product"
  PROVE  Spec => []NeverCorrupt
<1>1. ProductInv => NeverCorrupt
  BY DEF ProductInv
<1>2. QED
  BY <1>1, ProductAlways, PTL

\* The product never acknowledges a batch whose directory entry is not synced
\* (commit_batch: write_segment and sync_directory come before the completion).
THEOREM AcksAlwaysSynced ==
  ASSUME Client = "product"
  PROVE  Spec => []AcksSynced
<1>1. SyncedInv => AcksSynced
  BY DEF SyncedInv
<1>2. QED
  BY <1>1, ProductAlways, PTL

\* The product never removes the last directory of a result whose key exists, unless
\* into quarantine (destroy: authority.destroy before remove_dir_all).
THEOREM KeyAlwaysFirst ==
  ASSUME Client = "product"
  PROVE  Spec => KeyFirst
<1>1. RepositoryInv /\ ProductInv /\ [Next]_vars => [ErasedAfterKey]_vars
  <2> SUFFICES ASSUME RepositoryInv, ProductInv, [Next]_vars, Storage # None,
                      staging' = None, final' = None
               PROVE  entry' = None \/ quarantined' # quarantined
    BY DEF ErasedAfterKey
  <2>1. ASSUME NEW p \in Procs, Work(p) PROVE entry' = None \/ quarantined' # quarantined
    <3>1. CASE Erase(p)
      BY <3>1 DEF Erase, At, ProductInv
    <3>2. CASE Quarantine(p)
      BY <3>2 DEF Quarantine, Storage
    <3>3. CASE entry' # None /\ ~Erase(p) /\ ~Quarantine(p)
      <4>1. ControlInv /\ PlacesInv
        BY DEF RepositoryInv
      <4>2. CASE Write(p)
        BY <4>1, <4>2, PlacesWrite DEF Alike, Storage
      <4>3. CASE ~Write(p)
        BY <2>1, <3>3, <4>1, <4>3, FilesCarried DEF Storage
      <4>4. QED
        BY <4>2, <4>3
    <3>4. QED
      BY <3>1, <3>2, <3>3
  <2>2. ASSUME \A p \in Procs : ~Work(p) PROVE FALSE
    <3>1. ControlInv
      BY DEF RepositoryInv
    <3>2. UNCHANGED disk
      BY <2>2, <3>1, CallArrives DEF BeginCall
    <3>3. QED
      BY <3>2 DEF disk, Storage
  <2>3. QED
    BY <2>1, <2>2
<1>2. QED
  BY <1>1, ProductAlways, PTL DEF Spec, KeyFirst
=============================================================================
