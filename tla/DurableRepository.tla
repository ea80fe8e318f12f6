------------------------- MODULE DurableRepository -------------------------
(***************************************************************************)
(* One result of the durable repository (DurableRepositoryV2), from begin  *)
(* to publication and destruction.                                         *)
(*                                                                         *)
(* The Keychain holds the result's authority: its key, lifecycle state and *)
(* nonce counters.  The disk holds its encrypted segments, in a staging    *)
(* directory that publication renames to the final one.  The two are       *)
(* separate stores: every Keychain call, file write, directory sync and    *)
(* rename is a step of its own, and a process may die between any two.     *)
(* soft and moving say what was written and not yet synced: a process      *)
(* death keeps it, nothing more is promised.                               *)
(*                                                                         *)
(* One process, the Owner, creates the result: the request, Batches        *)
(* batches, the data commit, the sealed products, publication.  Any other  *)
(* process that opened the same root may recover, read or destroy it.      *)
(***************************************************************************)
EXTENDS Integers

CONSTANTS
  Procs, Owner,  \* the processes; the one that creates the result
  Bodies,        \* what a caller may write in a segment
  Batches,       \* number of batches
  MaxKeys,       \* bound: how often the result may be begun anew
  MaxCrashes,    \* bound: process deaths
  Client,        \* what the owner does when a call fails, or it was restarted
  None,          \* no process, no value
  Torn           \* a file created and not yet written

ASSUME DurableAssumption ==
  /\ Owner \in Procs /\ None \notin Procs \cup Bodies
  /\ Batches \in Nat /\ MaxKeys \in Nat /\ MaxCrashes \in Nat
  \* give the result up, or repeat the call
  /\ Client \in {"product", "retrying"}

\* ResultLifecycleStateV1
Open == 1
DataCommitted == 2
Sealed == 3
Published == 4

\* The segments of a result, in their order: the request, the batches, ...
Request == 0
DataSlot == Batches + 1
SealSlot == Batches + 2
Slots == 0 .. SealSlot
LockFile == -1
CommitmentFile == -2
PublishStage == SealSlot + 1
Over == PublishStage + 1

\* The values of the two stores.  None is the absence of each of them.
Links == [first : Nat, body : Bodies]
Chains == UNION {[0 .. s - 1 -> Links \cup {None}] : s \in Slots}
Segments == [first : Nat, body : Bodies, prior : Chains]
Directories == [lock : BOOLEAN, file : [Slots -> Segments \cup {None}],
                commitment : Segments \cup {None, Torn}, soft : SUBSET Int]
Reservations == [slot : Slots, body : Bodies]
Manifests == [body : Bodies, prior : Chains]
Entries == [key : Nat, request : Bodies, state : Open .. Published, high : Nat,
            pending : BOOLEAN, last : Reservations \cup {None}, first : Nat,
            data : Manifests \cup {None}, products : Segments \cup {None},
            publisher : {None, "publish", "recover"}]

ASSUME AbsenceAssumption ==
  None \notin Segments \cup Directories \cup Reservations \cup Entries

VARIABLES
  entry,         \* the Keychain entry of the result
  keys,          \* keys made so far
  staging,       \* the directory .open-<result>
  final,         \* the directory r-<result>
  moving,        \* the rename to final is not yet synced
  quarantined,   \* quarantine names in use
  repo,          \* holder of .repository.lock
  res,           \* holder of the result's .result.lock
  pc, job,       \* where each process is, in which call
  out,           \* what its last call returned
  stage,         \* the owner's progress: the slot to write next
  acked,         \* batches acknowledged to the owner
  frames,        \* every frame ever sealed, with its key and nonce
  clock,         \* fresh, aged (past the recovery grace) or expired
  crashes

disk == <<staging, final, moving, quarantined>>
world == <<entry, keys, disk, frames, clock, crashes>>
control == <<repo, res, pc, job, out, stage, acked>>
vars == <<world, control>>

NoJob == [op |-> "none", slot |-> 0, body |-> None]
NoAnswer == [op |-> "none", result |-> "none"]
Job(op, slot, body) == [op |-> op, slot |-> slot, body |-> body]

EmptyDir == [lock |-> FALSE, file |-> [s \in Slots |-> None],
             commitment |-> None, soft |-> {}]

Init ==
  /\ entry = None /\ keys = 0
  /\ staging = None /\ final = None /\ moving = FALSE /\ quarantined = {}
  /\ repo = None /\ res = None
  /\ pc = [p \in Procs |-> "idle"] /\ job = [p \in Procs |-> NoJob]
  /\ out = [p \in Procs |-> NoAnswer]
  /\ stage = Request /\ acked = {} /\ frames = {}
  /\ clock = "fresh" /\ crashes = 0

----------------------------------------------------------------------------
(* What the segments of a directory say. *)

Link(f) == IF f = None THEN None ELSE [first |-> f.first, body |-> f.body]

\* last_chain_position: the frames before a segment
Prior(dir, slot) == [s \in 0 .. slot - 1 |-> Link(dir.file[s])]

ChainHolds(dir) ==
  \A s \in Slots : dir.file[s] # None => dir.file[s].prior = Prior(dir, s)

Manifest(f) == [body |-> f.body, prior |-> f.prior]

Storage == IF staging # None THEN staging ELSE final

Locked(dir) == dir # None /\ dir.lock

\* verify_visible
Visible ==
  /\ final # None
  /\ staging = None
  /\ final.commitment = entry.products
  /\ final.file[SealSlot] = entry.products

----------------------------------------------------------------------------
(* Calls and their return. *)

Goto(p, j, step, locks) ==
  /\ pc' = [pc EXCEPT ![p] = step]
  /\ job' = [job EXCEPT ![p] = j]
  /\ repo' = IF "repo" \in locks THEN p ELSE repo
  /\ res' = IF "res" \in locks THEN p ELSE res
  /\ out' = [out EXCEPT ![p] = NoAnswer]
  /\ UNCHANGED <<stage, acked>>

Release(p) ==
  /\ pc' = [pc EXCEPT ![p] = "idle"]
  /\ job' = [job EXCEPT ![p] = NoJob]
  /\ repo' = IF repo = p THEN None ELSE repo
  /\ res' = IF res = p THEN None ELSE res

Writes == {"begin", "batch", "data", "seal", "publish"}

Answer(p, j, r) ==
  /\ Release(p)
  /\ out' = [out EXCEPT ![p] = [op |-> j.op, result |-> r]]
  /\ stage' = IF p = Owner /\ j.op = "destroy" THEN Over
              ELSE IF j.op \notin Writes THEN stage
              ELSE IF r = "ok" THEN (IF j.slot = stage THEN stage + 1 ELSE stage)
              ELSE IF Client = "product" THEN Over ELSE stage
  /\ acked' = IF j.op = "batch" /\ r = "ok"
                THEN acked \cup {[key |-> entry.key, slot |-> j.slot, body |-> j.body]}
                ELSE acked

Proceed(p, step) == Goto(p, job[p], step, {})
Return(p, r) == Answer(p, job[p], r)

At(p, step) == pc[p] = step

Steps == {"begun", "matched", "lock", "reserve", "write", "sync", "complete", "advance",
          "generation", "commitment", "fill", "settle", "rename", "flush", "publish",
          "quarantine", "unkey", "erase", "forget"}

\* A call either goes on, with its locks, or returns at once.
Enter(p, j, step, locks) ==
  IF step \in Steps THEN Goto(p, j, step, locks) ELSE Answer(p, j, step)

OwnerCalls(slot) == pc[Owner] = "idle" /\ slot = stage

----------------------------------------------------------------------------
(* begin *)

\* authority.begin
BeginCall(b) ==
  LET j == Job("begin", Request, b) IN
  /\ OwnerCalls(Request)
  /\ repo = None
  /\ \/ /\ entry = None
        /\ keys < MaxKeys
        /\ keys' = keys + 1
        /\ entry' = [key |-> keys + 1, request |-> b, state |-> Open, high |-> 0,
                     pending |-> FALSE, last |-> None, first |-> 0,
                     data |-> None, products |-> None, publisher |-> None]
        /\ Goto(Owner, j, "begun", {"repo"})
     \/ /\ entry # None
        /\ Enter(Owner, j, IF entry.request = b THEN "matched" ELSE "conflict", {"repo"})
        /\ UNCHANGED <<entry, keys>>
  /\ UNCHANGED <<disk, frames, clock, crashes>>

WithLock(dir) == [dir EXCEPT !.lock = TRUE,
                             !.soft = IF dir.lock THEN @ ELSE @ \cup {LockFile}]

BeginDirectory(p) ==
  /\ pc[p] \in {"begun", "matched"}
  /\ \/ /\ staging = None
        /\ staging' = EmptyDir
        /\ Proceed(p, "lock")
     \/ /\ staging # None
        /\ At(p, "begun")
        /\ staging' = staging
        /\ Return(p, "conflict")
     \/ /\ staging # None
        /\ At(p, "matched")
        /\ staging' = WithLock(staging)
        /\ Proceed(p, IF staging.file[Request] = None THEN "reserve" ELSE "complete")
  /\ UNCHANGED <<entry, keys, final, moving, quarantined, frames, clock, crashes>>

BeginLock(p) ==
  /\ At(p, "lock")
  /\ staging' = WithLock(staging)
  /\ Proceed(p, "reserve")
  /\ UNCHANGED <<entry, keys, final, moving, quarantined, frames, clock, crashes>>

----------------------------------------------------------------------------
(* Writing a segment: reserve its nonces, write, sync, complete. *)

Reservation(p) == [slot |-> job[p].slot, body |-> job[p].body]

\* mutant: the counter does not advance
ReservedTwice(e, r) ==
  IF e.last = r THEN e ELSE [e EXCEPT !.last = r, !.first = e.high, !.pending = TRUE]

\* reserve_nonce_range: the last operation gets its range again
Reserved(e, r) ==
  IF e.last = r
    THEN e
    ELSE [e EXCEPT !.last = r, !.first = e.high, !.high = e.high + 1, !.pending = TRUE]

Reserve(p) ==
  /\ At(p, "reserve")
  /\ \/ /\ entry = None
        /\ Return(p, "unavailable")
        /\ UNCHANGED <<entry, frames>>
     \/ /\ entry # None
        /\ entry.last # Reservation(p) /\ entry.pending
        /\ Return(p, "conflict")
        /\ UNCHANGED <<entry, frames>>
     \/ /\ entry # None
        /\ entry.last = Reservation(p) \/ ~entry.pending
        /\ entry' = Reserved(entry, Reservation(p))
        /\ frames' = frames \cup
             {[key |-> entry.key, first |-> entry'.first, slot |-> job[p].slot,
               body |-> job[p].body, prior |-> Prior(staging, job[p].slot)]}
        /\ Proceed(p, "write")
  /\ UNCHANGED <<keys, disk, clock, crashes>>

\* mutant: no sync before the acknowledgement
WriteUnsynced(p) ==
  /\ At(p, "write")
  /\ entry # None /\ staging # None
  /\ staging' = [staging EXCEPT
       !.file[job[p].slot] = [first |-> entry.first, body |-> job[p].body,
                              prior |-> Prior(staging, job[p].slot)],
       !.soft = @ \cup {job[p].slot}]
  /\ Proceed(p, "complete")
  /\ UNCHANGED <<entry, keys, final, moving, quarantined, frames, clock, crashes>>

\* write_segment: the file appears whole, by a rename
Write(p) ==
  /\ At(p, "write")
  /\ \/ /\ entry = None \/ staging = None
        /\ staging' = staging
        /\ Return(p, "unavailable")
     \/ /\ entry # None
        /\ staging # None
        /\ staging.file[job[p].slot] = None
        /\ staging' = [staging EXCEPT
             !.file[job[p].slot] = [first |-> entry.first, body |-> job[p].body,
                                    prior |-> Prior(staging, job[p].slot)],
             !.soft = @ \cup {job[p].slot}]
        /\ Proceed(p, "sync")
  /\ UNCHANGED <<entry, keys, final, moving, quarantined, frames, clock, crashes>>

Sync(p) ==
  /\ At(p, "sync")
  /\ \/ /\ staging = None
        /\ staging' = staging
        /\ Return(p, "unavailable")
     \/ /\ staging # None
        /\ staging' = [staging EXCEPT !.soft = {}]
        /\ Proceed(p, "complete")
  /\ UNCHANGED <<entry, keys, final, moving, quarantined, frames, clock, crashes>>

\* mutant: the operation and its bytes are not compared with the reservation
CompleteAny(p) ==
  /\ At(p, "complete")
  /\ entry # None
  /\ entry' = [entry EXCEPT !.pending = FALSE]
  /\ IF job[p].slot <= Batches THEN Return(p, "ok") ELSE Proceed(p, "advance")
  /\ UNCHANGED <<keys, disk, frames, clock, crashes>>

\* complete_nonce_reservation
Complete(p) ==
  /\ At(p, "complete")
  /\ \/ /\ entry = None
        /\ entry' = entry
        /\ Return(p, "unavailable")
     \/ /\ entry # None
        /\ entry.last # Reservation(p)
        /\ entry' = entry
        /\ Return(p, "conflict")
     \/ /\ entry # None
        /\ entry.last = Reservation(p)
        /\ entry' = [entry EXCEPT !.pending = FALSE]
        /\ IF job[p].slot <= Batches THEN Return(p, "ok") ELSE Proceed(p, "advance")
  /\ UNCHANGED <<keys, disk, frames, clock, crashes>>

\* authority.commit_data, authority.seal
Advance(p) ==
  /\ At(p, "advance")
  /\ entry' = IF job[p].slot = DataSlot
                THEN [entry EXCEPT !.state = DataCommitted,
                                   !.data = Manifest(staging.file[DataSlot])]
                ELSE [entry EXCEPT !.state = Sealed,
                                   !.products = staging.file[SealSlot]]
  /\ Return(p, "ok")
  /\ UNCHANGED <<keys, disk, frames, clock, crashes>>

----------------------------------------------------------------------------
(* commit_batch, commit_data, seal: where a call goes. *)

BatchStep(slot) ==
  IF ~Locked(staging) \/ entry = None THEN "unavailable"
  ELSE IF entry.state # Open THEN "state"
  ELSE IF staging.file[slot] # None THEN "complete"
  ELSE IF \E s \in 1 .. slot - 1 : staging.file[s] = None THEN "ordinal"
  ELSE IF ~ChainHolds(staging) THEN "mismatch"
  ELSE "reserve"

DataStep(b) ==
  IF ~Locked(Storage) \/ entry = None THEN "unavailable"
  ELSE IF entry.state >= DataCommitted THEN
    IF Storage.file[DataSlot] = None THEN "read"
    ELSE IF Storage.file[DataSlot].body # b THEN "conflict"
    ELSE IF Manifest(Storage.file[DataSlot]) # entry.data THEN "conflict" ELSE "ok"
  ELSE IF staging = None \/ staging.file[Request] = None THEN "read"
  ELSE IF staging.file[DataSlot] # None THEN
    IF Manifest(staging.file[DataSlot]) = [body |-> b, prior |-> Prior(staging, DataSlot)]
      THEN "complete" ELSE "conflict"
  ELSE IF ~ChainHolds(staging) THEN "mismatch"
  ELSE "reserve"

SealStep(b) ==
  IF ~Locked(Storage) \/ entry = None THEN "unavailable"
  ELSE IF entry.state >= Sealed THEN
    IF Storage.file[SealSlot] = None THEN "read"
    ELSE IF Storage.file[SealSlot].body # b THEN "conflict"
    ELSE IF Storage.file[SealSlot] # entry.products THEN "conflict" ELSE "ok"
  ELSE IF entry.state # DataCommitted THEN "state"
  ELSE IF staging = None \/ staging.file[DataSlot] = None THEN "read"
  ELSE IF staging.file[SealSlot] # None THEN
    IF staging.file[SealSlot].body = b THEN "complete" ELSE "conflict"
  ELSE IF ~ChainHolds(staging) THEN "mismatch"
  ELSE "reserve"

BatchCall(slot, b) ==
  /\ OwnerCalls(slot)
  /\ res = None
  /\ Enter(Owner, Job("batch", slot, b), BatchStep(slot), {"res"})
  /\ UNCHANGED world

DataCall(b) ==
  /\ OwnerCalls(DataSlot)
  /\ res = None
  /\ Enter(Owner, Job("data", DataSlot, b), DataStep(b), {"res"})
  /\ UNCHANGED world

SealCall(b) ==
  /\ OwnerCalls(SealSlot)
  /\ res = None
  /\ Enter(Owner, Job("seal", SealSlot, b), SealStep(b), {"res"})
  /\ UNCHANGED world

----------------------------------------------------------------------------
(* publish *)

PublishStep ==
  IF ~Locked(Storage) \/ entry = None THEN "unavailable"
  ELSE IF entry.state = Published THEN
    IF ~Visible THEN "rollback"
    ELSE IF entry.publisher = "publish" THEN "ok" ELSE "conflict"
  ELSE IF entry.state # Sealed THEN "state"
  ELSE IF Storage.file[SealSlot] = None THEN "read"
  ELSE IF Storage.file[SealSlot] # entry.products THEN "mismatch"
  ELSE "generation"

PublishCall ==
  /\ OwnerCalls(PublishStage)
  /\ repo = None /\ res = None
  /\ Enter(Owner, Job("publish", PublishStage, None), PublishStep, {"repo", "res"})
  /\ UNCHANGED world

\* mutant: the authority publishes before the rename
GenerationPublishes(p) ==
  /\ At(p, "generation")
  /\ entry.publisher \in {None, job[p].op}
  /\ entry' = [entry EXCEPT !.publisher = job[p].op]
  /\ Proceed(p, "publish")
  /\ UNCHANGED <<keys, disk, frames, clock, crashes>>

\* mutant: a second operation takes the reservation over
GenerationTakenOver(p) ==
  /\ At(p, "generation")
  /\ entry' = [entry EXCEPT !.publisher = job[p].op]
  /\ IF job[p].op = "recover" THEN Proceed(p, "publish")
     ELSE IF staging # None THEN Proceed(p, "commitment") ELSE Proceed(p, "flush")
  /\ UNCHANGED <<keys, disk, frames, clock, crashes>>

\* reserve_publication_generation: one publisher per result
Generation(p) ==
  /\ At(p, "generation")
  /\ \/ /\ entry.publisher \notin {None, job[p].op}
        /\ entry' = entry
        /\ Return(p, "conflict")
     \/ /\ entry.publisher \in {None, job[p].op}
        /\ entry' = [entry EXCEPT !.publisher = job[p].op]
        /\ IF job[p].op = "recover" THEN Proceed(p, "publish")
           ELSE IF staging # None THEN Proceed(p, "commitment")
           ELSE IF final.commitment = entry.products THEN Proceed(p, "flush")
           ELSE Return(p, "rollback")
  /\ UNCHANGED <<keys, disk, frames, clock, crashes>>

\* ensure_commitment creates the file, then writes it
Commitment(p) ==
  /\ At(p, "commitment")
  /\ \/ /\ staging.commitment = None
        /\ staging' = [staging EXCEPT !.commitment = Torn, !.soft = @ \cup {CommitmentFile}]
        /\ Proceed(p, "fill")
     \/ /\ staging.commitment = Torn
        /\ staging' = staging
        /\ Return(p, "read")
     \/ /\ staging.commitment = entry.products
        /\ staging' = staging
        /\ Proceed(p, "settle")
  /\ UNCHANGED <<entry, keys, final, moving, quarantined, frames, clock, crashes>>

Fill(p) ==
  /\ At(p, "fill")
  /\ staging' = [staging EXCEPT !.commitment = entry.products]
  /\ Proceed(p, "settle")
  /\ UNCHANGED <<entry, keys, final, moving, quarantined, frames, clock, crashes>>

Settle(p) ==
  /\ At(p, "settle")
  /\ staging' = [staging EXCEPT !.soft = {}]
  /\ Proceed(p, "rename")
  /\ UNCHANGED <<entry, keys, final, moving, quarantined, frames, clock, crashes>>

Rename(p) ==
  /\ At(p, "rename")
  /\ final = None
  /\ final' = staging
  /\ staging' = None
  /\ moving' = TRUE
  /\ Proceed(p, "flush")
  /\ UNCHANGED <<entry, keys, quarantined, frames, clock, crashes>>

Flush(p) ==
  /\ At(p, "flush")
  /\ moving' = FALSE
  /\ Proceed(p, IF job[p].op = "recover" THEN "generation" ELSE "publish")
  /\ UNCHANGED <<entry, keys, staging, final, quarantined, frames, clock, crashes>>

\* authority.publish
Publish(p) ==
  /\ At(p, "publish")
  /\ entry' = [entry EXCEPT !.state = Published]
  /\ Return(p, IF job[p].op = "recover" THEN "completed" ELSE "ok")
  /\ UNCHANGED <<keys, disk, frames, clock, crashes>>

----------------------------------------------------------------------------
(* recover, destroy, expand *)

\* mutant: a result that was already renamed is not looked for
RecoverSealedStaging(dir) ==
  IF staging = None THEN "rollback"
  ELSE IF dir.file[SealSlot] # entry.products THEN "rollback"
  ELSE "commitment"

RecoverSealed(dir) ==
  IF dir = None THEN "rollback"
  ELSE IF dir.file[SealSlot] = None THEN "read"
  ELSE IF dir.file[SealSlot] # entry.products THEN "rollback"
  ELSE IF staging # None THEN "commitment"
  ELSE "generation"

\* mutant: data that cannot be resumed is quarantined
RecoverStepQuarantines(context) ==
  IF entry = None THEN
    IF staging = None /\ final = None THEN "absent" ELSE "quarantine"
  ELSE IF clock = "expired" THEN "unkey"
  ELSE IF entry.state = DataCommitted /\ ~context THEN "quarantine"
  ELSE "reissue"

\* mutant: only published results expire
RecoverStepPublishedExpires(context) ==
  IF entry = None THEN
    IF staging = None /\ final = None THEN "absent" ELSE "quarantine"
  ELSE IF clock = "expired" /\ entry.state = Published THEN "unkey"
  ELSE "resume open"

\* context: the caller passes the build context the data was committed with
RecoverStep(context) ==
  IF entry = None THEN
    IF staging = None /\ final = None THEN "absent" ELSE "quarantine"
  ELSE IF \/ \E dir \in {staging, final} : dir # None /\ ~dir.lock
          \/ staging # None /\ final # None THEN "quarantine"
  ELSE IF clock = "expired" THEN "unkey"
  ELSE IF entry.state = Open THEN
    IF staging # None THEN "resume open"
    ELSE IF clock = "aged" THEN "forget" ELSE "absent"
  ELSE IF entry.state = DataCommitted THEN
    IF staging = None THEN "rollback"
    ELSE IF ~context \/ entry.pending THEN "reissue"
    ELSE IF staging.file[DataSlot] = None THEN "read"
    ELSE IF Manifest(staging.file[DataSlot]) # entry.data THEN "rollback"
    ELSE "resume compilation"
  ELSE IF entry.state = Sealed THEN RecoverSealed(IF final # None THEN final ELSE staging)
  ELSE IF Visible THEN "visible" ELSE "rollback"

RecoverCall(p, context) ==
  /\ At(p, "idle")
  /\ repo = None /\ res = None
  /\ Enter(p, Job("recover", 0, None), RecoverStep(context), {"repo", "res"})
  /\ UNCHANGED world

\* quarantine_owned, one directory after the other
Quarantine(p) ==
  /\ At(p, "quarantine")
  /\ \/ /\ staging # None /\ "staging" \notin quarantined
        /\ staging' = None /\ final' = final
        /\ quarantined' = quarantined \cup {"staging"}
        /\ Proceed(p, "quarantine")
     \/ /\ staging = None /\ final # None /\ "final" \notin quarantined
        /\ final' = None /\ staging' = staging
        /\ quarantined' = quarantined \cup {"final"}
        /\ Proceed(p, "quarantine")
     \/ /\ \/ staging # None /\ "staging" \in quarantined
           \/ staging = None /\ final # None /\ "final" \in quarantined
        /\ UNCHANGED <<staging, final, quarantined>>
        /\ Return(p, "cleanup")
     \/ /\ staging = None /\ final = None
        /\ UNCHANGED <<staging, final, quarantined>>
        /\ Return(p, "quarantined")
  /\ UNCHANGED <<entry, keys, moving, frames, clock, crashes>>

\* An open result without a directory, past the grace period
Forget(p) ==
  /\ At(p, "forget")
  /\ entry' = None
  /\ Return(p, "absent")
  /\ UNCHANGED <<keys, disk, frames, clock, crashes>>

\* mutant: the files go first
DestroyStepFiles == "erase"

DestroyStep ==
  IF final # None THEN (IF final.lock THEN "unkey" ELSE "unavailable")
  ELSE IF staging # None THEN (IF staging.lock THEN "unkey" ELSE "unavailable")
  ELSE "unkey"

\* The owner may give up; others destroy what has expired.
DestroyCall(p) ==
  LET lock == IF staging = None /\ final = None THEN "repo" ELSE "res" IN
  /\ At(p, "idle")
  /\ \/ p = Owner /\ stage \notin {Request, Over}
     \/ clock = "expired"
  /\ IF lock = "repo" THEN repo = None ELSE res = None
  /\ Enter(p, Job("destroy", 0, None), DestroyStep, {lock})
  /\ UNCHANGED world

\* authority.destroy, before any file goes
DestroyKey(p) ==
  /\ At(p, "unkey")
  /\ entry' = None
  /\ Proceed(p, "erase")
  /\ UNCHANGED <<keys, disk, frames, clock, crashes>>

Erase(p) ==
  /\ At(p, "erase")
  /\ staging' = None
  /\ final' = None
  /\ moving' = FALSE
  /\ Return(p, IF job[p].op = "recover" THEN "expired" ELSE "ok")
  /\ UNCHANGED <<entry, keys, quarantined, frames, clock, crashes>>

ExpandStep ==
  IF ~Locked(final) \/ entry = None THEN "unavailable"
  ELSE IF entry.state # Published \/ clock = "expired" THEN "unavailable"
  ELSE IF ~Visible THEN "rollback"
  ELSE IF \E s \in 1 .. DataSlot : final.file[s] = None THEN "read"
  ELSE "ok"

ExpandCall(p) ==
  /\ At(p, "idle")
  /\ res = None
  /\ Answer(p, Job("expand", 0, None), ExpandStep)
  /\ UNCHANGED world

----------------------------------------------------------------------------
(* Time and process deaths. *)

Tick ==
  /\ clock # "expired"
  /\ clock' = IF clock = "fresh" THEN "aged" ELSE "expired"
  /\ UNCHANGED <<entry, keys, disk, frames, crashes, control>>

\* The caller may not have noted the last acknowledgement.
StageAfterCrash ==
  IF Client = "product" THEN {Over}
  ELSE IF out[Owner].op \in Writes /\ out[Owner].result = "ok" THEN {stage, stage - 1}
  ELSE {stage}

Crash(p) ==
  /\ crashes < MaxCrashes
  /\ pc[p] # "idle" \/ p = Owner
  /\ crashes' = crashes + 1
  /\ Release(p)
  /\ out' = [out EXCEPT ![p] = NoAnswer]
  /\ stage' \in IF p = Owner THEN StageAfterCrash ELSE {stage}
  /\ UNCHANGED <<entry, keys, disk, frames, clock, acked>>

Work(p) ==
  \/ BeginDirectory(p) \/ BeginLock(p)
  \/ Reserve(p) \/ Write(p) \/ Sync(p) \/ Complete(p) \/ Advance(p)
  \/ Generation(p) \/ Commitment(p) \/ Fill(p) \/ Settle(p) \/ Rename(p)
  \/ Flush(p) \/ Publish(p)
  \/ Quarantine(p) \/ Forget(p) \/ DestroyKey(p) \/ Erase(p)

OwnerCall ==
  \/ \E b \in Bodies : \/ BeginCall(b) \/ DataCall(b) \/ SealCall(b)
                       \/ \E slot \in 1 .. Batches : BatchCall(slot, b)
  \/ PublishCall

Next ==
  \/ OwnerCall
  \/ \E p \in Procs :
       \/ Work(p)
       \/ \E context \in BOOLEAN : RecoverCall(p, context)
       \/ DestroyCall(p) \/ ExpandCall(p) \/ Crash(p)
  \/ Tick

Spec == Init /\ [][Next]_vars

----------------------------------------------------------------------------
(* Properties *)

\* Under one key no nonce is used for two different frames, whatever operations
\* are interrupted and repeated, with the same bytes or others
\* (reserve_nonce_range, complete_nonce_reservation).
NoncesUnique ==
  \A f, g \in frames : f.key = g.key /\ f.first = g.first => f = g

\* A batch whose commit_batch returned is on disk, with the bytes that were
\* acknowledged, for as long as the key exists.
AcksSurvive ==
  \A a \in acked : entry # None /\ entry.key = a.key =>
    \E dir \in {staging, final} :
      dir # None /\ dir.file[a.slot] # None /\ dir.file[a.slot].body = a.body

\* What the authority says was committed is on disk as it was committed: the
\* request and batches the data manifest chains, the manifest itself and, from
\* Sealed on, the products.
CommittedWhole ==
  entry # None /\ entry.state >= DataCommitted =>
    \E dir \in {staging, final} :
      /\ Locked(dir)
      /\ dir.file[DataSlot] # None /\ Manifest(dir.file[DataSlot]) = entry.data
      /\ \A s \in 0 .. Batches : Link(dir.file[s]) = entry.data.prior[s]
      /\ entry.state >= Sealed => dir.file[SealSlot] = entry.products

\* A published result passes verify_visible: publish and recover change the
\* authority only after commitment and directory are in place.
PublishedVisible == entry # None /\ entry.state = Published => Visible

\* Ciphertext is removed only after its key: destroy and expiry call
\* authority.destroy before remove_dir_all.
ErasedAfterKey ==
  Storage # None /\ staging' = None /\ final' = None
    => entry' = None \/ quarantined' # quarantined
KeyFirst == [][ErasedAfterKey]_vars

\* The record of a result moves only forward, and what it has committed to (data,
\* products, the operation that publishes) is not replaced.
RecordFixed ==
  [][entry # None /\ entry' # None =>
       /\ entry'.key = entry.key
       /\ entry'.state >= entry.state
       /\ entry.data # None => entry'.data = entry.data
       /\ entry.products # None => entry'.products = entry.products
       /\ entry.publisher # None => entry'.publisher = entry.publisher]_vars

\* A batch is acknowledged only when its directory entry has been synced
\* (commit_batch).
AcksSynced ==
  \A a \in acked : entry # None /\ entry.key = a.key /\ staging # None
                     => a.slot \notin staging.soft

\* The death of a process never looks like corruption to recover, nor leaves
\* something that it cannot clean up.
NeverCorrupt ==
  \A p \in Procs : out[p].op = "recover" => out[p].result \notin {"rollback", "cleanup"}

\* recover completes the publication of a sealed result: what an interrupted
\* publish left behind is neither refused as another operation's nor unreadable.
RecoveryConverges ==
  \A p \in Procs : out[p].op = "recover" => out[p].result \notin {"conflict", "read"}

\* Processes finish the call they are in, and reconcile again and again: at every
\* start and before every tool call (reconcile_startup, cleanup_expired).
RecoverCalls(p) == \E context \in BOOLEAN : RecoverCall(p, context)
Fairness == \A p \in Procs : WF_vars(Work(p)) /\ WF_vars(RecoverCalls(p))
LiveSpec == Spec /\ Fairness

\* Once a result has expired its key and its directories go, whatever state the
\* crashes left them in (recover).
ExpiredErased ==
  clock = "expired" ~> entry = None /\ staging = None /\ final = None
=============================================================================
