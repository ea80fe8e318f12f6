-------------------------- MODULE PackedRepository --------------------------
(***************************************************************************)
(* One result of the packed repository (DurablePackedRepositoryV3).        *)
(*                                                                         *)
(* Records are gathered into pages, pages into packs; a pack is one file   *)
(* of the result's directory, and the packs form a chain.  Every pack is   *)
(* written in the same five steps: its nonces are reserved in the          *)
(* Keychain, its frames are sealed into a temporary file, the file is      *)
(* renamed, the directory is synced, and the reservation is acknowledged.  *)
(* A process may die before any step of any call; resume builds a store    *)
(* again from the packs it finds and from the Keychain record.             *)
(*                                                                         *)
(* plan holds the steps the running call has still to make.  The chain of  *)
(* commitments, and each digest, is the sequence of what it commits to.    *)
(***************************************************************************)
EXTENDS PageSequences

CONSTANTS
  Records,                             \* records of the stream
  Bodies, Size,                        \* contents of a record; their bytes
  PageRecords, PageBytes,              \* limits of a page
  PackFrames, PackRecords, PackBytes,  \* limits of a pack
  RecordInterval, ByteInterval,        \* how often a checkpoint is due
  MaxCrashes,                          \* bound: process deaths
  None

ASSUME PackedAssumption ==
  /\ Records \in Nat \ {0} /\ PageBytes <= PackBytes
  /\ \A b \in Bodies : Size[b] \in 1 .. PackBytes
  /\ PageRecords <= PackRecords /\ 0 < PackFrames
  /\ 0 < RecordInterval /\ 0 < ByteInterval

PackSteps == {"descriptor", "records", "event_index", "lane_index",
              "manifest", "checkpoint", "aliases"}

\* A pack of the result's directory; its nonces start at first
PackFiles == [kind : PackSteps, ordinal : Nat, frames : Seq(Seq(Bodies)), first : Nat]
Directories == [name : {"open", "published"}, packs : Seq(PackFiles),
                temp : BOOLEAN, soft : BOOLEAN]

ASSUME AbsenceAssumption == None \notin Seq(Bodies) \cup Directories

\* RetainedEventStoreStateV3, and the states of the Keychain record
Empty == 0
Open == 1
DataCommitted == 2
Sealed == 3
Published == 4

VARIABLES
  record,   \* the Keychain's record of the result
  dir,      \* the result's directory
  store,    \* the store object of the running process
  call,     \* the call it is in
  plan,     \* the steps the call has still to make
  at,       \* where the first of them is, when it writes a pack
  arg,      \* the record or the alias the call was given
  frames,   \* every frame sealed so far, with its nonce
  acked,    \* the records under a checkpoint the caller was told of
  begun,    \* begin has returned
  refused,  \* the pack that was refused its nonces, and the one in its way
  crashes

vars == <<record, dir, store, call, plan, at, arg, frames, acked, begun,
          refused, crashes>>

\* No reservation was made yet
NoBinding == [pack |-> [kind |-> "none", ordinal |-> 0, frames |-> <<>>],
              prior |-> <<>>]

NewRecord == [state |-> Open, high |-> 0, pending |-> FALSE, last |-> NoBinding,
              first |-> 0, data |-> None, chain |-> None, publisher |-> None]
NewDirectory == [name |-> "open", packs |-> <<>>, temp |-> FALSE, soft |-> FALSE]
NewStore == [state |-> Empty, taken |-> <<>>, paged |-> 0, pack |-> <<>>,
             objects |-> <<>>, manifest |-> None, final |-> FALSE,
             dueRecords |-> RecordInterval, dueBytes |-> ByteInterval]

Init ==
  /\ record = None /\ dir = None /\ store = None
  /\ call = "none" /\ plan = <<>> /\ at = "start" /\ arg = None
  /\ frames = {} /\ acked = <<>> /\ begun = FALSE /\ refused = None
  /\ crashes = 0

----------------------------------------------------------------------------
(* Pages and packs. *)

Bytes(records) == FoldFunction(LAMBDA b, n : n + Size[b], 0, records)

\* The records accepted and not yet in a page: pending_arena
Page(s) == SubSeq(s.taken, s.paged + 1, Len(s.taken))

\* append: the record does not fit in the page that is being filled
Exceeds(s, b) ==
  /\ Page(s) # <<>>
  /\ \/ Len(Page(s)) = PageRecords
     \/ Bytes(Page(s)) + Size[b] > PageBytes

Full(page) == Len(page) = PageRecords \/ Bytes(page) >= PageBytes

\* flush_page: the page does not fit in the pack that is being filled
Overflows(pack, page) ==
  /\ pack # <<>>
  /\ \/ Bytes(FlattenSeq(pack)) + Bytes(page) > PackBytes
     \/ Len(FlattenSeq(pack)) + Len(page) > PackRecords
     \/ Len(pack) = PackFrames

CheckpointDue(s) ==
  Len(s.taken) >= s.dueRecords \/ Bytes(s.taken) >= s.dueBytes

\* The first multiples of the intervals past what was taken
NextCheckpoint(s) ==
  [s EXCEPT !.dueRecords = (Len(s.taken) \div RecordInterval + 1) * RecordInterval,
            !.dueBytes = (Bytes(s.taken) \div ByteInterval + 1) * ByteInterval]

Has(packs, kind) == \E i \in DOMAIN packs : packs[i].kind = kind

\* reconstruct_page: the records of the record packs, in their order
RecordsOf(packs) ==
  FlattenSeq(FlattenSeq([i \in DOMAIN packs |->
    IF packs[i].kind = "records" THEN packs[i].frames ELSE <<>>]))

PagesOf(packs) ==
  FlattenSeq([i \in DOMAIN packs |->
    IF packs[i].kind = "records" THEN packs[i].frames ELSE <<>>])

ManifestOf(packs) ==
  IF Has(packs, "manifest")
  THEN packs[CHOOSE i \in DOMAIN packs : packs[i].kind = "manifest"].frames[1]
  ELSE None

\* final_checkpoint_present
FinalCheckpoint(packs) ==
  \E i, j \in DOMAIN packs :
    i < j /\ packs[i].kind = "manifest" /\ packs[j].kind = "checkpoint"

\* The pack the step at the head of plan writes: its kind, its logical
\* ordinal and its frames
PackOf(s, step) ==
  CASE step = "records" -> [kind |-> step, ordinal |-> Len(PagesOf(s.objects)),
                            frames |-> s.pack]
    [] step = "checkpoint" -> [kind |-> step, ordinal |-> Len(s.objects),
                               frames |-> <<s.taken>>]
    [] step = "aliases" -> [kind |-> step, ordinal |-> 0, frames |-> << <<arg>> >>]
    [] step = "descriptor" -> [kind |-> step, ordinal |-> 0, frames |-> << <<>> >>]
    [] OTHER -> [kind |-> step, ordinal |-> 0, frames |-> <<s.taken>>]

\* mutant: the digest leaves out the contents of the frames
BindingByPlace(pack, prior) ==
  [pack |-> [pack EXCEPT !.frames = [i \in DOMAIN pack.frames |-> <<>>]],
   prior |-> prior]

\* The digest a reservation is bound to
Binding(pack, prior) == [pack |-> pack, prior |-> prior]

Installed(pack, first) ==
  [kind |-> pack.kind, ordinal |-> pack.ordinal, frames |-> pack.frames,
   first |-> first]

\* binding_digest and operation of an installed pack
BindingOf(packs, i) ==
  Binding([kind |-> packs[i].kind, ordinal |-> packs[i].ordinal,
           frames |-> packs[i].frames], SubSeq(packs, 1, i - 1))

----------------------------------------------------------------------------
(* Calls. *)

Idle == store # None /\ plan = <<>>

Start(c, steps) == call' = c /\ plan' = steps /\ at' = "start"

Done == plan' = Tail(plan) /\ at' = "start"

\* The first step of the running call is step
Doing(step) == plan # <<>> /\ Head(plan) = step

\* The call fails and its caller drops the store
Drop == store' = None /\ Start("none", <<>>)

Begin ==
  /\ store = None
  /\ dir # None => dir.packs = <<>>
  /\ record = None => frames = {}
  /\ record' = IF record = None THEN NewRecord ELSE record
  /\ store' = NewStore
  /\ Start("begin", <<"directory", "descriptor">>)
  /\ UNCHANGED <<dir, arg, frames, acked, begun, refused, crashes>>

MakeDirectory ==
  /\ Doing("directory")
  /\ dir' = IF dir = None THEN NewDirectory ELSE [dir EXCEPT !.temp = FALSE]
  /\ store' = [store EXCEPT !.state = Open]
  /\ Done
  /\ UNCHANGED <<record, call, arg, frames, acked, begun, refused, crashes>>

AppendPlan(s, b) == (IF Exceeds(s, b) THEN <<"page">> ELSE <<>>) \o <<"push">>

AppendRecord(b) ==
  /\ Idle /\ store.state = Open /\ Len(store.taken) < Records
  /\ arg' = b
  /\ Start("append", AppendPlan(store, b))
  /\ UNCHANGED <<record, dir, store, frames, acked, begun, refused, crashes>>

\* mutant: the checkpoint is written before the records it counts
PushPlanCheckpointFirst(s) ==
  (IF Full(Page(s)) \/ CheckpointDue(s) THEN <<"page">> ELSE <<>>)
  \o (IF CheckpointDue(s) THEN <<"checkpoint", "records">> ELSE <<>>)

PushPlan(s) ==
  (IF Full(Page(s)) \/ CheckpointDue(s) THEN <<"page">> ELSE <<>>)
  \o (IF CheckpointDue(s) THEN <<"records", "checkpoint">> ELSE <<>>)

Push ==
  /\ Doing("push")
  /\ store' = [store EXCEPT !.taken = Append(@, arg)]
  /\ Start("append", PushPlan(store'))
  /\ UNCHANGED <<record, dir, arg, frames, acked, begun, refused, crashes>>

\* flush_page: a pack that has no room for the page is written first
FlushPage ==
  /\ Doing("page")
  /\ IF Overflows(store.pack, Page(store))
     THEN /\ plan' = <<"records">> \o plan /\ at' = "start"
          /\ UNCHANGED store
     ELSE /\ store' = [store EXCEPT !.pack = Append(@, Page(store)),
                                    !.paged = Len(store.taken)]
          /\ Done
  /\ UNCHANGED <<record, dir, call, arg, frames, acked, begun, refused, crashes>>

\* Index packs a dead process left are compared, not written again
FinishPlan(s) ==
  IF s.manifest # None
  THEN (IF s.final THEN <<>> ELSE <<"checkpoint">>) \o <<"commit">>
  ELSE (IF Page(s) # <<>> THEN <<"page">> ELSE <<>>)
       \o (IF Page(s) # <<>> \/ s.pack # <<>> THEN <<"records">> ELSE <<>>)
       \o (IF Has(s.objects, "event_index") THEN <<>> ELSE <<"event_index">>)
       \o (IF Has(s.objects, "lane_index") THEN <<>> ELSE <<"lane_index">>)
       \o <<"manifest", "checkpoint", "commit">>

FinishAcquisition ==
  /\ Idle /\ store.state = Open /\ Len(store.taken) = Records
  /\ store.manifest \in {None, store.taken}
  /\ Start("finish", FinishPlan(store))
  /\ UNCHANGED <<record, dir, store, arg, frames, acked, begun, refused, crashes>>

PublishPlan == <<"aliases", "seal", "generation", "rename", "publish">>

SealAndPublish(b) ==
  /\ Idle /\ store.state = DataCommitted
  /\ arg' = b
  /\ Start("publish", PublishPlan)
  /\ UNCHANGED <<record, dir, store, frames, acked, begun, refused, crashes>>

DestroyPlan == <<"unkey", "erase">>

DestroyAuthorityFirst ==
  /\ Idle
  /\ Start("destroy", DestroyPlan)
  /\ UNCHANGED <<record, dir, store, arg, frames, acked, begun, refused, crashes>>

\* A step fails, and the caller gives the result up
GiveUp ==
  /\ plan # <<>> /\ call \in {"append", "finish", "publish"}
  /\ Start("destroy", DestroyPlan)
  /\ UNCHANGED <<record, dir, store, arg, frames, acked, begun, refused, crashes>>

----------------------------------------------------------------------------
(* write_pack *)

Writing(step) == plan # <<>> /\ Head(plan) \in PackSteps /\ at = step

Pack == PackOf(store, Head(plan))

\* reserve_nonce_range: one nonce for each frame and one for the pack's own
\* directory; the last reservation is repeated, another one is refused while
\* it is pending
Reserved(r, binding) ==
  IF r.last = binding THEN r
  ELSE [r EXCEPT !.high = @ + Len(binding.pack.frames) + 1, !.first = r.high,
                 !.last = binding, !.pending = TRUE]

ReserveNonces ==
  /\ Writing("start")
  /\ record.pending => record.last = Binding(Pack, store.objects)
  /\ record' = Reserved(record, Binding(Pack, store.objects))
  /\ at' = "temporary"
  /\ UNCHANGED <<dir, store, call, plan, arg, frames, acked, begun, refused, crashes>>

NoncesRefused ==
  /\ Writing("start")
  /\ record.pending /\ record.last # Binding(Pack, store.objects)
  /\ refused' = [wanted |-> Pack, held |-> record.last.pack]
  /\ Drop
  /\ UNCHANGED <<record, dir, arg, frames, acked, begun, crashes>>

WriteTemporary ==
  /\ Writing("temporary")
  /\ frames' = frames \cup
       {[nonce |-> record.first + i, frame |-> i, pack |-> Pack,
         prior |-> store.objects] : i \in 0 .. Len(Pack.frames)}
  /\ dir' = [dir EXCEPT !.temp = TRUE]
  /\ at' = "install"
  /\ UNCHANGED <<record, store, call, plan, arg, acked, begun, refused, crashes>>

InstallPack ==
  /\ Writing("install")
  /\ dir' = [dir EXCEPT !.temp = FALSE, !.soft = TRUE,
                        !.packs = Append(@, Installed(Pack, record.first))]
  /\ at' = "sync"
  /\ UNCHANGED <<record, store, call, plan, arg, frames, acked, begun, refused, crashes>>

SyncDirectory ==
  /\ Writing("sync")
  /\ dir' = [dir EXCEPT !.soft = FALSE]
  /\ at' = "acknowledge"
  /\ UNCHANGED <<record, store, call, plan, arg, frames, acked, begun, refused, crashes>>

\* The store after the pack was written: the chain grows, and what the
\* caller of write_pack notes
Written(s, pack) ==
  LET t == [s EXCEPT !.objects = Append(@, Installed(pack, record.first))]
  IN CASE pack.kind = "records" -> [t EXCEPT !.pack = <<>>]
       [] pack.kind = "checkpoint" -> NextCheckpoint(t)
       [] OTHER -> t

AcknowledgeNonces ==
  /\ Writing("acknowledge")
  /\ record' = [record EXCEPT !.pending = FALSE]
  /\ store' = Written(store, Pack)
  /\ acked' = IF Head(plan) = "checkpoint" THEN store.taken ELSE acked
  /\ begun' = (begun \/ Head(plan) = "descriptor")
  /\ Done
  /\ UNCHANGED <<dir, call, arg, frames, refused, crashes>>

----------------------------------------------------------------------------
(* The steps that change the Keychain record or the directory's name. *)

CommitData ==
  /\ Doing("commit")
  /\ record.state = Open /\ ~record.pending
  /\ record' = [record EXCEPT !.state = DataCommitted, !.data = store.taken]
  /\ store' = [store EXCEPT !.state = DataCommitted, !.manifest = store.taken,
                            !.final = TRUE]
  /\ Done
  /\ UNCHANGED <<dir, call, arg, frames, acked, begun, refused, crashes>>

Seal ==
  /\ Doing("seal")
  /\ record.state = DataCommitted /\ ~record.pending
  /\ record' = [record EXCEPT !.state = Sealed, !.chain = store.objects]
  /\ store' = [store EXCEPT !.state = Sealed]
  /\ Done
  /\ UNCHANGED <<dir, call, arg, frames, acked, begun, refused, crashes>>

ReserveGeneration ==
  /\ Doing("generation")
  /\ record.publisher \in {None, store.objects}
  /\ record' = [record EXCEPT !.publisher = store.objects]
  /\ Done
  /\ UNCHANGED <<dir, store, call, arg, frames, acked, begun, refused, crashes>>

RenameResult ==
  /\ Doing("rename")
  /\ dir.name = "open"
  /\ dir' = [dir EXCEPT !.name = "published"]
  /\ Done
  /\ UNCHANGED <<record, store, call, arg, frames, acked, begun, refused, crashes>>

PublishRecord ==
  /\ Doing("publish")
  /\ record.state = Sealed /\ ~record.pending
  /\ record.publisher = store.objects
  /\ record' = [record EXCEPT !.state = Published]
  /\ store' = [store EXCEPT !.state = Published]
  /\ Done
  /\ UNCHANGED <<dir, call, arg, frames, acked, begun, refused, crashes>>

DestroyKey ==
  /\ Doing("unkey")
  /\ record' = None
  /\ Done
  /\ UNCHANGED <<dir, store, call, arg, frames, acked, begun, refused, crashes>>

EraseDirectory ==
  /\ Doing("erase")
  /\ dir' = None
  /\ Drop
  /\ UNCHANGED <<record, arg, frames, acked, begun, refused, crashes>>

----------------------------------------------------------------------------
(* Restart. *)

\* The checks of resume: the chain starts with the descriptor, the manifest
\* counts the records found, and what the Keychain committed to is there
Accepts(d) ==
  /\ d # None /\ d.packs # <<>>
  /\ d.packs[1].kind = "descriptor"
  /\ ManifestOf(d.packs) \in {None, RecordsOf(d.packs)}
  /\ record.state >= DataCommitted =>
       FinalCheckpoint(d.packs) /\ record.data = ManifestOf(d.packs)
  /\ record.state >= Sealed => record.chain = d.packs
  /\ record.state = Published => record.publisher = d.packs

Reopened(packs) ==
  NextCheckpoint(
    [NewStore EXCEPT !.state = record.state, !.taken = RecordsOf(packs),
                     !.paged = Len(RecordsOf(packs)), !.objects = packs,
                     !.manifest = ManifestOf(packs),
                     !.final = FinalCheckpoint(packs)])

\* mutant: the pending reservation of an installed pack is left pending
ResumePlanPending(d) ==
  LET sealing == record.state = DataCommitted /\ Has(d.packs, "aliases")
      publishing == sealing \/ record.state = Sealed
  IN (IF sealing THEN <<"seal">> ELSE <<>>)
     \o (IF publishing THEN <<"generation">> ELSE <<>>)
     \o (IF publishing /\ d.name = "open" THEN <<"rename">> ELSE <<>>)
     \o (IF publishing THEN <<"publish">> ELSE <<>>)

\* A pending reservation whose pack is installed is acknowledged; a result
\* past its data commit is taken on as far as its packs allow
ResumePlan(d) ==
  LET held == record.pending /\ \E i \in DOMAIN d.packs :
                                  BindingOf(d.packs, i) = record.last
      sealing == record.state = DataCommitted /\ Has(d.packs, "aliases")
      publishing == sealing \/ record.state = Sealed
  IN (IF held THEN <<"complete">> ELSE <<>>)
     \o (IF sealing THEN <<"seal">> ELSE <<>>)
     \o (IF publishing THEN <<"generation">> ELSE <<>>)
     \o (IF publishing /\ d.name = "open" THEN <<"rename">> ELSE <<>>)
     \o (IF publishing THEN <<"publish">> ELSE <<>>)

Resume ==
  /\ store = None /\ record # None
  /\ Accepts(dir)
  /\ dir' = [dir EXCEPT !.temp = FALSE, !.soft = FALSE]
  /\ store' = Reopened(dir.packs)
  /\ Start("resume", ResumePlan(dir))
  /\ UNCHANGED <<record, arg, frames, acked, begun, refused, crashes>>

\* NotFound and CorruptIndex: there is no store
ResumeFails ==
  /\ store = None
  /\ record # None => ~Accepts(dir)
  /\ UNCHANGED vars

CompletePending ==
  /\ Doing("complete")
  /\ record' = [record EXCEPT !.pending = FALSE]
  /\ Done
  /\ UNCHANGED <<dir, store, call, arg, frames, acked, begun, refused, crashes>>

Crash ==
  /\ store # None /\ crashes < MaxCrashes
  /\ crashes' = crashes + 1
  /\ Drop
  /\ UNCHANGED <<record, dir, arg, frames, acked, begun, refused>>

Calls ==
  \/ Begin
  \/ Resume
  \/ ResumeFails
  \/ FinishAcquisition
  \/ DestroyAuthorityFirst
  \/ GiveUp
  \/ \E b \in Bodies : AppendRecord(b)
  \/ \E b \in Bodies : SealAndPublish(b)

Writes ==
  \/ ReserveNonces
  \/ NoncesRefused
  \/ WriteTemporary
  \/ InstallPack
  \/ SyncDirectory
  \/ AcknowledgeNonces

Steps ==
  \/ MakeDirectory
  \/ Push
  \/ FlushPage
  \/ CommitData
  \/ Seal
  \/ ReserveGeneration
  \/ RenameResult
  \/ PublishRecord
  \/ DestroyKey
  \/ EraseDirectory
  \/ CompletePending

Next == Calls \/ Writes \/ Steps \/ Crash

Spec == Init /\ [][Next]_vars

----------------------------------------------------------------------------
(* Properties *)

\* A nonce seals one frame: what was sealed under the same nonce is of the
\* same pack with the same contents at the same place of the chain, whatever
\* records a restarted caller gives (write_pack, reserve_nonce_range).
PackedNoncesUnique ==
  \A f, g \in frames : f.nonce = g.nonce => f = g

\* From the return of begin until the key is destroyed, and wherever the
\* process dies, resume accepts what is on disk and finds every record that
\* was under a checkpoint, and only a pack whose reservation is pending may
\* be unsynced.  Once the Keychain says the data is committed the
\* packs are whole: all records, both indexes, the last checkpoint.  Once it
\* says published, the directory has its published name and its aliases
\* (append, finish_acquisition, publish, and resume in any of them).
ResumeFindsAll ==
  begun /\ record # None =>
    /\ Accepts(dir) /\ IsPrefix(acked, RecordsOf(dir.packs))
    /\ dir.soft => record.pending
    /\ record.state >= DataCommitted =>
         /\ Len(RecordsOf(dir.packs)) = Records
         /\ Has(dir.packs, "event_index") /\ Has(dir.packs, "lane_index")
    /\ record.state = Published =>
         dir.name = "published" /\ Last(dir.packs).kind = "aliases"

\* A reservation that a dead process left for anything but a checkpoint stands in
\* the way of one pack only, its own: what resume rebuilds writes that pack next,
\* and is refused only when the caller forms other contents for it
\* (reserve_nonce_range, resume).
RefusedForOnePack ==
  refused # None /\ refused.held.kind # "checkpoint" =>
    /\ refused.held.kind = refused.wanted.kind
    /\ refused.held.ordinal = refused.wanted.ordinal

\* "It completes interrupted nonce ... transitions": after a restart no reservation
\* of the dead process, checkpoints included, keeps another pack from being written.
RestartCompletesNonces ==
  refused # None =>
    /\ refused.held.kind = refused.wanted.kind
    /\ refused.held.ordinal = refused.wanted.ordinal
=============================================================================
