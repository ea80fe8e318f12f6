----------------------- MODULE PackedRepositoryProofs -----------------------
(***************************************************************************)
(* What a packed result promises across process deaths, for every number   *)
(* of records, every limit of pages and packs, and every number of deaths: *)
(* no nonce seals two different frames, resume finds everything that was   *)
(* acknowledged, and a store is refused its nonces for one pack only.      *)
(*                                                                         *)
(* Nonces: those below the first of the last reservation are never handed  *)
(* out again, and those of the last reservation have sealed only the       *)
(* frames of the pack it is bound to (IInv).                               *)
(*                                                                         *)
(* Resume: the packs on disk are always a chain that resume accepts; the   *)
(* Keychain record is behind the disk by at most the pack of its pending   *)
(* reservation; and what is left of the plan of the call that runs says    *)
(* how far the store is from the disk (ChainInv).                          *)
(***************************************************************************)
EXTENDS PackedRepository, SequenceTheorems, WellFoundedInduction, TLAPS

\* A leaf that names no prover is given to Zenon
USE ZenonT(60)

WorkSteps == PackSteps \cup {"directory", "page", "push", "commit", "seal",
                             "generation", "rename", "publish", "complete"}

Destroying ==
  call = "destroy" /\ (plan = DestroyPlan \/ (plan = <<"erase">> /\ record = None))

\* The calls keep their steps to themselves: the key is destroyed by a destroy
PlanInv == plan \in Seq(WorkSteps) \/ Destroying

\* A call may use the store and the Keychain record
Working == IF plan = <<>> THEN store # None ELSE plan # <<"erase">>

\* The pack that is being filled is a sequence of pages
Filling == "pack" \in DOMAIN store /\ \E T : store.pack \in Seq(T)

\* The i-th frame sealed under a reservation
Sealing(first, binding, i) ==
  [nonce |-> first + i, frame |-> i, pack |-> binding.pack,
   prior |-> binding.prior]

\* The last reservation, and what was sealed under it and before it
Reservation ==
  /\ "high" \in DOMAIN record /\ "first" \in DOMAIN record
  /\ "last" \in DOMAIN record
  /\ record.high \in Nat /\ record.first \in Nat
  /\ record.last # NoBinding =>
       record.high = record.first + Len(record.last.pack.frames) + 1
  /\ \A f \in frames :
       /\ f.nonce \in Nat /\ f.nonce < record.high
       /\ f.nonce >= record.first =>
            f = Sealing(record.first, record.last, f.nonce - record.first)

\* The pack that is about to be sealed is the one its nonces are bound to
Bound == at = "temporary" => record.last = Binding(Pack, store.objects)

IInv ==
  /\ PackedNoncesUnique
  /\ PlanInv
  /\ record = None \/ Reservation
  /\ Working => Reservation /\ Filling
  /\ Bound

\* A pack has a finite number of frames, and is none of the packs a new
\* record knows of.
LEMMA PackIsFinite ==
  ASSUME Filling, NEW step \in PackSteps
  PROVE  /\ Len(PackOf(store, step).frames) \in Nat
         /\ PackOf(store, step).kind = step
  BY SMTT(60) DEF Filling, PackOf, PackSteps

\* What a binding is made of, and that it differs from that of a new record.
LEMMA BindingOfPack ==
  ASSUME Filling, NEW step \in PackSteps, NEW prior
  PROVE  LET b == Binding(PackOf(store, step), prior) IN
         b # NoBinding /\ b.pack = PackOf(store, step) /\ b.prior = prior
<1>1. PackOf(store, step).kind # "none"
  BY PackIsFinite DEF PackSteps
<1> QED
  BY <1>1, SMTT(60) DEF Binding, NoBinding

\* The steps a call still has to make are steps of calls, whatever the call
\* was given and finds.
LEMMA PlansAreSteps ==
  /\ \A s, b : AppendPlan(s, b) \in Seq(WorkSteps)
  /\ \A s : PushPlan(s) \in Seq(WorkSteps)
  /\ \A s : FinishPlan(s) \in Seq(WorkSteps)
  /\ PublishPlan \in Seq(WorkSteps)
  /\ \A d : ResumePlan(d) \in Seq(WorkSteps)
<1>0. \A s, t \in Seq(WorkSteps) : s \o t \in Seq(WorkSteps)
  BY SMTT(60)
<1>1. /\ <<>> \in Seq(WorkSteps)
      /\ \A x \in WorkSteps : <<x>> \in Seq(WorkSteps)
      /\ \A x, y \in WorkSteps : <<x, y>> \in Seq(WorkSteps)
      /\ \A x, y, z \in WorkSteps : <<x, y, z>> \in Seq(WorkSteps)
  BY SMTT(60)
<1>2. /\ {"directory", "page", "push", "commit", "seal", "generation",
          "rename", "publish", "complete", "descriptor", "records",
          "event_index", "lane_index", "manifest", "checkpoint",
          "aliases"} \subseteq WorkSteps
  BY DEF WorkSteps, PackSteps
<1> HIDE DEF WorkSteps
<1>3. \A s, b : AppendPlan(s, b) \in Seq(WorkSteps)
  BY <1>0, <1>1, <1>2 DEF AppendPlan
<1>4. \A s : PushPlan(s) \in Seq(WorkSteps)
  BY <1>0, <1>1, <1>2 DEF PushPlan
<1>5. \A s : FinishPlan(s) \in Seq(WorkSteps)
  BY <1>0, <1>1, <1>2 DEF FinishPlan
<1>6. PublishPlan \in Seq(WorkSteps)
  BY <1>2, SMTT(60) DEF PublishPlan
<1>7. \A d : ResumePlan(d) \in Seq(WorkSteps)
  BY <1>0, <1>1, <1>2 DEF ResumePlan
<1> QED
  BY <1>3, <1>4, <1>5, <1>6, <1>7

\* The rest of the steps of a call are steps of a call.
LEMMA RestOfPlan ==
  ASSUME PlanInv, plan # <<>>, Head(plan) # "unkey", Head(plan) # "erase"
  PROVE  plan \in Seq(WorkSteps) /\ Tail(plan) \in Seq(WorkSteps)
  BY SMTT(60) DEF PlanInv, Destroying, DestroyPlan

\* A plan that starts with a step of a call works on the store and the record.
LEMMA DoingIsWorking ==
  ASSUME IInv, plan # <<>>, Head(plan) # "erase"
  PROVE  Reservation /\ Filling
  BY SMTT(60) DEF IInv, Working

\* The steps that touch neither the Keychain record nor the sealed frames.
LEMMA QuietStep ==
  ASSUME IInv, UNCHANGED <<record, frames>>, at' # "temporary",
         PlanInv', Working' => Reservation /\ Filling'
  PROVE  IInv'
  BY DEF IInv, PackedNoncesUnique, Reservation, Bound

\* The steps that change other fields of the Keychain record than those of
\* the last reservation.
LEMMA RecordStep ==
  ASSUME IInv, Reservation, Filling', PlanInv', at' # "temporary", frames' = frames,
         \A x \in {"high", "first", "last"} :
           x \in DOMAIN record' /\ record'[x] = record[x]
  PROVE  IInv'
<1>1. Reservation'
  BY DEF Reservation
<1> QED
  BY <1>1 DEF IInv, PackedNoncesUnique, Bound

\* Nothing changes in a step that changes no variable.
LEMMA Stuttering == IInv /\ UNCHANGED vars => IInv'
<1> SUFFICES ASSUME IInv, UNCHANGED vars PROVE IInv'
  OBVIOUS
<1>1. /\ UNCHANGED <<record, store, call, plan, at, arg, frames>>
  BY DEF vars
<1>2. \A step : PackOf(store, step)' = PackOf(store, step)
  BY <1>1 DEF PackOf
<1>3. Bound'
  BY <1>1, <1>2 DEF IInv, Bound, Pack, Binding
<1>4. PlanInv' /\ PackedNoncesUnique'
  BY <1>1 DEF IInv, PlanInv, Destroying, PackedNoncesUnique
<1>5. /\ Reservation' = Reservation /\ Filling' = Filling /\ Working' = Working
      /\ (record = None)' = (record = None)
  BY <1>1 DEF Reservation, Filling, Working
<1> QED
  BY <1>3, <1>4, <1>5 DEF IInv

\* A new result has no nonces, no packs and no call but begin.
LEMMA InitIInv == Init => IInv
  BY SMTT(60) DEF Init, IInv, PackedNoncesUnique, PlanInv, Working, Bound

\* Every call starts with a plan of its own; begin makes the record and the
\* store, resume the store.
LEMMA CallsKeepIInv == IInv /\ Calls => IInv'
<1> SUFFICES ASSUME IInv, Calls PROVE IInv'
  OBVIOUS
<1> USE DEF Start
<1>0. Idle => Reservation /\ Filling
  BY DEF Idle, IInv, Working
<1>1. CASE Begin
  <2>1. plan' \in Seq(WorkSteps) /\ Filling' /\ at' = "start"
    BY <1>1, SMTT(60) DEF Begin, NewStore, Filling, WorkSteps, PackSteps
  <2>2. CASE record = None
    <3>1. Reservation'
      BY <1>1, <2>2 DEF Begin, NewRecord, Reservation
    <3> QED
      BY <1>1, <2>1, <3>1 DEF Begin, IInv, PlanInv, Bound, PackedNoncesUnique
  <2>3. CASE record # None
    BY <1>1, <2>1, <2>3, QuietStep DEF Begin, IInv, PlanInv
  <2> QED
    BY <2>2, <2>3
<1>2. CASE Resume
  <2>1. plan' \in Seq(WorkSteps) /\ at' = "start"
    BY <1>2, PlansAreSteps DEF Resume
  <2>2. Filling'
    <3>1. "pack" \in DOMAIN NewStore /\ NewStore.pack = <<>>
      BY DEF NewStore
    <3>2. "pack" \in DOMAIN store' /\ store'.pack = NewStore.pack
      BY <1>2, <3>1 DEF Resume, Reopened, NextCheckpoint
    <3>3. <<>> \in Seq({})
      BY SMTT(60)
    <3> QED
      BY <3>1, <3>2, <3>3 DEF Filling
  <2> QED
    BY <1>2, <2>1, <2>2, QuietStep DEF Resume, IInv, PlanInv
<1>3. CASE ResumeFails
  BY <1>3, Stuttering DEF ResumeFails
<1>4. CASE FinishAcquisition
  BY <1>0, <1>4, PlansAreSteps, QuietStep DEF FinishAcquisition, PlanInv, Filling
<1>5. CASE DestroyAuthorityFirst
  BY <1>0, <1>5, QuietStep
     DEF DestroyAuthorityFirst, PlanInv, Destroying, Filling
<1>6. CASE GiveUp
  <2>1. plan # <<"erase">>
    BY <1>6, SMTT(60) DEF GiveUp, IInv, PlanInv, Destroying, WorkSteps, PackSteps
  <2>2. Reservation /\ Filling
    BY <1>6, <2>1 DEF GiveUp, IInv, Working
  <2> QED
    BY <1>6, <2>2, QuietStep DEF GiveUp, PlanInv, Destroying, Filling
<1>7. ASSUME NEW b \in Bodies, AppendRecord(b) PROVE IInv'
  BY <1>0, <1>7, PlansAreSteps, QuietStep DEF AppendRecord, PlanInv, Filling
<1>8. ASSUME NEW b \in Bodies, SealAndPublish(b) PROVE IInv'
  BY <1>0, <1>8, PlansAreSteps, QuietStep DEF SealAndPublish, PlanInv, Filling
<1> QED
  BY <1>1, <1>2, <1>3, <1>4, <1>5, <1>6, <1>7, <1>8 DEF Calls

\* A pack gets the nonces of the last reservation only when that was made for
\* the same pack at the same place; otherwise nonces past all others.
LEMMA WritesKeepIInv == IInv /\ Writes => IInv'
<1> SUFFICES ASSUME IInv, Writes PROVE IInv'
  OBVIOUS
<1> DEFINE step == Head(plan)
           binding == Binding(Pack, store.objects)
<1>1. plan # <<>> /\ step \in PackSteps
  BY DEF Writes, ReserveNonces, NoncesRefused, WriteTemporary, InstallPack,
         SyncDirectory, AcknowledgeNonces, Writing
<1>2. step # "erase" /\ step # "unkey"
  BY <1>1 DEF PackSteps
<1>3. Reservation /\ Filling
  BY <1>1, <1>2, DoingIsWorking
<1>4. plan \in Seq(WorkSteps) /\ Tail(plan) \in Seq(WorkSteps)
  BY <1>1, <1>2, RestOfPlan DEF IInv
<1>5. Len(Pack.frames) \in Nat /\ Pack.kind = step
  BY <1>1, <1>3, PackIsFinite DEF Pack
<1>6. /\ binding # NoBinding
      /\ binding.pack = Pack /\ binding.prior = store.objects
  BY <1>1, <1>3, BindingOfPack DEF Pack
<1>7. CASE ReserveNonces
  <2> HIDE DEF binding
  <2>1. /\ record' = Reserved(record, binding) /\ at' = "temporary"
        /\ UNCHANGED <<dir, store, call, plan, arg, frames>>
    BY <1>7 DEF ReserveNonces, binding
  <2>2. Reservation' /\ record'.last = binding
    <3>1. CASE record.last = binding
      BY <1>3, <2>1, <3>1 DEF Reserved, Reservation
    <3>2. CASE record.last # binding
      <4>1. /\ "high" \in DOMAIN record' /\ "first" \in DOMAIN record'
            /\ "last" \in DOMAIN record' /\ record'.last = binding
            /\ record'.high = record.high + Len(Pack.frames) + 1
            /\ record'.first = record.high
        BY <1>3, <1>6, <2>1, <3>2 DEF Reserved, Reservation
      <4>2. \A f \in frames : f.nonce \in Nat /\ f.nonce < record.high
        BY <1>3 DEF Reservation
      <4>3. record.high \in Nat
        BY <1>3 DEF Reservation
      <4> HIDE DEF binding
      <4> QED
        BY <1>5, <1>6, <2>1, <4>1, <4>2, <4>3, SMTT(60) DEF Reservation
    <3> QED
      BY <3>1, <3>2
  <2>3. Bound' /\ Filling' /\ PlanInv' /\ PackedNoncesUnique'
    BY <1>3, <1>4, <2>1, <2>2
       DEF Bound, binding, Pack, PackOf, Binding, Filling, PlanInv, IInv,
           PackedNoncesUnique
  <2> QED
    BY <2>2, <2>3 DEF IInv
<1>8. CASE NoncesRefused
  <2>1. plan' = <<>> /\ store' = None /\ at' = "start" /\ UNCHANGED <<record, frames>>
    BY <1>8 DEF NoncesRefused, Drop, Start
  <2> QED
    BY <2>1, QuietStep, SMTT(60) DEF PlanInv, Working
<1>9. CASE WriteTemporary
  <2>1. /\ UNCHANGED <<record, store, call, plan, arg>> /\ at' = "install"
        /\ frames' = frames \cup {[nonce |-> record.first + i, frame |-> i,
             pack |-> Pack, prior |-> store.objects] : i \in 0 .. Len(Pack.frames)}
    BY <1>9 DEF WriteTemporary
  <2>2. record.last = binding
    BY <1>9 DEF WriteTemporary, Writing, IInv, Bound
  <2> DEFINE new == {Sealing(record.first, record.last, i) :
                       i \in 0 .. Len(Pack.frames)}
  <2>3. frames' = frames \cup new
    BY <1>6, <2>1, <2>2 DEF Sealing
  <2>4. \A f \in frames' :
          /\ f.nonce \in Nat /\ f.nonce < record.high
          /\ f.nonce >= record.first =>
               f = Sealing(record.first, record.last, f.nonce - record.first)
    <3>1. \A f \in frames :
            /\ f.nonce \in Nat /\ f.nonce < record.high
            /\ f.nonce >= record.first =>
                 f = Sealing(record.first, record.last, f.nonce - record.first)
      BY <1>3 DEF Reservation
    <3>2. /\ record.first \in Nat
          /\ record.high = record.first + Len(Pack.frames) + 1
      BY <1>3, <1>6, <2>2 DEF Reservation
    <3>3. ASSUME NEW i \in 0 .. Len(Pack.frames),
                 NEW f, f = Sealing(record.first, record.last, i)
          PROVE  /\ f.nonce \in Nat /\ f.nonce < record.high
                 /\ f.nonce - record.first = i
      <4>1. f.nonce = record.first + i
        BY <3>3 DEF Sealing
      <4> QED
        BY <1>5, <3>2, <4>1, SMTT(60)
    <3> QED
      BY <2>3, <3>1, <3>3
  <2>5. PackedNoncesUnique'
    <3> SUFFICES ASSUME NEW f \in frames', NEW g \in frames', f.nonce = g.nonce
                 PROVE  f = g
      BY DEF PackedNoncesUnique
    <3>1. CASE f.nonce >= record.first
      BY <2>4, <3>1
    <3>2. CASE ~(f.nonce >= record.first)
      <4>1. \A x \in new : x.nonce >= record.first
        <5>1. \A i \in 0 .. Len(Pack.frames) :
                Sealing(record.first, record.last, i).nonce >= record.first
          BY <1>3, <1>5, SMTT(60) DEF Sealing, Reservation
        <5> QED
          BY <5>1
      <4>2. f \in frames /\ g \in frames
        BY <2>3, <3>2, <4>1
      <4> QED
        BY <4>2 DEF IInv, PackedNoncesUnique
    <3> QED
      BY <3>1, <3>2
  <2>6. Reservation'
    BY <1>3, <2>1, <2>4 DEF Reservation
  <2>7. Bound' /\ Filling' /\ PlanInv'
    BY <1>3, <1>4, <2>1 DEF Bound, Filling, PlanInv
  <2> QED
    BY <2>5, <2>6, <2>7 DEF IInv
<1>10. CASE InstallPack \/ SyncDirectory
  BY <1>3, <1>4, <1>10, QuietStep DEF InstallPack, SyncDirectory, PlanInv, Filling
<1>11. CASE AcknowledgeNonces
  <2>1. /\ record' = [record EXCEPT !.pending = FALSE] /\ frames' = frames
        /\ store' = Written(store, Pack) /\ plan' = Tail(plan) /\ at' = "start"
    BY <1>11 DEF AcknowledgeNonces, Done
  <2>2. Filling'
    BY <1>3, <2>1, SMTT(60) DEF Written, NextCheckpoint, Filling
  <2> QED
    BY <1>3, <1>4, <2>1, <2>2, RecordStep DEF Reservation, PlanInv
<1> QED
  BY <1>7, <1>8, <1>9, <1>10, <1>11 DEF Writes

\* The other steps leave the reservation alone, or destroy it with the key.
LEMMA StepsKeepIInv == IInv /\ Steps => IInv'
<1> SUFFICES ASSUME IInv, Steps PROVE IInv'
  OBVIOUS
<1> USE DEF Doing, Done
<1>1. ASSUME plan # <<>>, Head(plan) # "unkey", Head(plan) # "erase"
      PROVE  /\ Reservation /\ Filling
             /\ plan \in Seq(WorkSteps) /\ Tail(plan) \in Seq(WorkSteps)
  BY <1>1, RestOfPlan, DoingIsWorking DEF IInv
<1>2. CASE MakeDirectory
  BY <1>1, <1>2, QuietStep DEF MakeDirectory, PlanInv, Filling
<1>3. CASE Push
  <2>1. Filling'
    BY <1>1, <1>3 DEF Push, Filling
  <2> QED
    BY <1>1, <1>3, <2>1, QuietStep, PlansAreSteps DEF Push, Start, PlanInv
<1>4. CASE FlushPage
  <2>1. Filling'
    <3>1. PICK T : store.pack \in Seq(T)
      BY <1>1, <1>4 DEF FlushPage, Filling
    <3>2. Append(store.pack, Page(store)) \in Seq(T \cup {Page(store)})
      BY <3>1, SMTT(60)
    <3>3. /\ "pack" \in DOMAIN store'
          /\ store'.pack \in {store.pack, Append(store.pack, Page(store))}
      BY <1>1, <1>4 DEF FlushPage, Filling
    <3> QED
      BY <3>1, <3>2, <3>3 DEF Filling
  <2>2. plan' \in Seq(WorkSteps) /\ at' = "start"
    <3>1. <<"records">> \in Seq(WorkSteps)
      BY SMTT(60) DEF WorkSteps, PackSteps
    <3>2. plan \in Seq(WorkSteps) /\ Tail(plan) \in Seq(WorkSteps)
      BY <1>1, <1>4 DEF FlushPage
    <3>3. <<"records">> \o plan \in Seq(WorkSteps)
      BY <3>1, <3>2, SMTT(60)
    <3> QED
      BY <1>4, <3>2, <3>3 DEF FlushPage
  <2> QED
    BY <1>1, <1>4, <2>1, <2>2, QuietStep DEF FlushPage, PlanInv
<1>5. CASE CommitData
  BY <1>1, <1>5, RecordStep DEF CommitData, PlanInv, Filling, Reservation
<1>6. CASE Seal
  BY <1>1, <1>6, RecordStep DEF Seal, PlanInv, Filling, Reservation
<1>7. CASE ReserveGeneration
  BY <1>1, <1>7, RecordStep DEF ReserveGeneration, PlanInv, Filling, Reservation
<1>8. CASE RenameResult
  BY <1>1, <1>8, QuietStep DEF RenameResult, PlanInv, Filling
<1>9. CASE PublishRecord
  BY <1>1, <1>9, RecordStep DEF PublishRecord, PlanInv, Filling, Reservation
<1>10. CASE CompletePending
  BY <1>1, <1>10, RecordStep DEF CompletePending, PlanInv, Filling, Reservation
<1>11. CASE DestroyKey
  <2>1. call = "destroy" /\ plan = <<"unkey", "erase">>
    BY <1>11, SMTT(60) DEF DestroyKey, IInv, PlanInv, Destroying, DestroyPlan, WorkSteps,
                 PackSteps
  <2>2. plan' = <<"erase">> /\ call' = "destroy" /\ record' = None
        /\ at' = "start" /\ frames' = frames
    BY <1>11, <2>1, SMTT(60) DEF DestroyKey
  <2> QED
    BY <2>2 DEF IInv, PlanInv, Destroying, Working, Bound, PackedNoncesUnique
<1>12. CASE EraseDirectory
  BY <1>12, QuietStep, SMTT(60) DEF EraseDirectory, Drop, Start, PlanInv, Working
<1> QED
  BY <1>2, <1>3, <1>4, <1>5, <1>6, <1>7, <1>8, <1>9, <1>10, <1>11, <1>12 DEF Steps

\* Every step keeps what is known of nonces and plans: the calls, the writes of
\* a pack, the steps of a call and the death of a process.
LEMMA NextKeepsIInv == IInv /\ [Next]_vars => IInv'
<1> SUFFICES ASSUME IInv, [Next]_vars PROVE IInv'
  OBVIOUS
<1>1. CASE Crash
  BY <1>1, QuietStep, SMTT(60) DEF Crash, Drop, Start, PlanInv, Working
<1>2. CASE UNCHANGED vars
  BY <1>2, Stuttering
<1> QED
  BY <1>1, <1>2, CallsKeepIInv, WritesKeepIInv, StepsKeepIInv DEF Next

\* No two different frames are sealed under one nonce of a result: whatever
\* process dies where, and whatever records the caller gives afterwards, a
\* pack that is written again gets its old nonces only with its old contents
\* at its old place (write_pack, reserve_nonce_range).
THEOREM NoncesNeverShared == Spec => []PackedNoncesUnique
<1>1. IInv => PackedNoncesUnique
  BY DEF IInv
<1> QED
  BY InitIInv, NextKeepsIInv, <1>1, PTL DEF Spec

-----------------------------------------------------------------------------
(***************************************************************************)
(* What FlattenSeq makes of pages and packs                                *)
(***************************************************************************)

\* Induction over the natural numbers, for the numbers of a set.
LEMMA Inductive ==
  ASSUME NEW S, 0 \in S, \A n \in S \cap Nat : n + 1 \in S
  PROVE  Nat \subseteq S
<1> SUFFICES ASSUME Nat \ S # {} PROVE FALSE
  OBVIOUS
<1> DEFINE R == OpToRel(<, Nat)
           T == Nat \ S
<1>1. PICK x \in T : \A y \in T : ~(<<y, x>> \in R)
  <2>1. IsWellFoundedOn(R, Nat)
    BY NatLessThanWellFounded
  <2> HIDE DEF R
  <2> QED BY <2>1, WFMin
<1>2. x # 0 /\ x \in Nat
  OBVIOUS
<1>3. x - 1 \in Nat /\ x - 1 < x /\ (x - 1) + 1 = x
  BY <1>2, SMTT(60)
<1>4. <<x - 1, x>> \in R
  BY <1>2, <1>3, SMTT(60) DEF OpToRel
<1>5. x - 1 \in S
  BY <1>1, <1>3, <1>4
<1> QED
  BY <1>2, <1>3, <1>5

\* The function FlattenSeq is defined with.
Flat(ss, f) ==
  f = [i \in 1 .. Len(ss) |-> IF i = 1 THEN ss[i] ELSE f[i - 1] \o ss[i]]

\* The function FlattenSeq chooses exists: the records of one pack after the
\* other can be put together (PagesOf, RecordsOf).
LEMMA FlatExists ==
  ASSUME NEW T PROVE \A ss \in Seq(T) : \E f : Flat(ss, f)
<1> DEFINE S == {n \in Nat : \A ss \in Seq(T) : Len(ss) = n => \E f : Flat(ss, f)}
<1>1. 0 \in S
  <2> SUFFICES ASSUME NEW ss \in Seq(T), Len(ss) = 0 PROVE \E f : Flat(ss, f)
    OBVIOUS
  <2>1. Flat(ss, <<>>)
    BY SMTT(60) DEF Flat
  <2> QED
    BY <2>1
<1>2. \A n \in S \cap Nat : n + 1 \in S
  <2> SUFFICES ASSUME NEW n \in S, n \in Nat, NEW ss \in Seq(T), Len(ss) = n + 1
               PROVE  \E f : Flat(ss, f)
    <3>1. \A n \in Nat : n + 1 \in Nat
      BY SMTT(60)
    <3> QED BY <3>1
  <2>1. PICK tt \in Seq(T), x \in T : ss = Append(tt, x)
    <3>1. ss # <<>>
      BY SMTT(60)
    <3> QED BY <3>1, SequenceEmptyOrAppend
  <2>2. Len(tt) = n /\ \A i \in 1 .. n : ss[i] = tt[i]
    BY <2>1, SMTT(60)
  <2>3. PICK f : Flat(tt, f)
    BY <2>2
  <2> DEFINE g == [i \in 1 .. n + 1 |-> IF i \in 1 .. n THEN f[i]
                     ELSE IF i = 1 THEN ss[i] ELSE f[n] \o ss[i]]
  <2>4. Flat(ss, g)
    <3>1. f = [i \in 1 .. n |-> IF i = 1 THEN tt[i] ELSE f[i - 1] \o tt[i]]
      BY <2>2, <2>3 DEF Flat
    <3>2. ASSUME NEW i \in 1 .. n + 1
          PROVE  g[i] = IF i = 1 THEN ss[i] ELSE g[i - 1] \o ss[i]
      <4>1. CASE i \in 1 .. n
        <5>1. g[i] = f[i] /\ ss[i] = tt[i] /\ (i # 1 => g[i - 1] = f[i - 1])
          BY <2>2, <4>1, SMTT(60)
        <5> QED
          BY <3>1, <4>1, <5>1
      <4>2. CASE i \notin 1 .. n
        <5>1. i = n + 1 /\ (i # 1 => i - 1 \in 1 .. n /\ i - 1 = n)
          BY <4>2, SMTT(60)
        <5>2. i # 1 => g[i - 1] = f[n]
          BY <5>1, SMTT(60)
        <5> QED
          BY <4>2, <5>2
      <4> QED
        BY <4>1, <4>2
    <3> QED
      BY <3>2 DEF Flat
  <2> QED
    BY <2>4
<1>3. Nat \subseteq S
  <2> HIDE DEF S
  <2> QED BY <1>1, <1>2, Inductive
<1>4. \A ss \in Seq(T) : Len(ss) \in Nat
  BY LenProperties
<1> QED
  BY <1>3, <1>4

\* What FlattenSeq makes of the first sequences does not depend on the ones
\* that follow: an installed pack leaves the records before it alone.
LEMMA FlatAgrees ==
  ASSUME NEW T, NEW ss \in Seq(T), NEW x \in T, NEW f, NEW g,
         Flat(ss, f), Flat(Append(ss, x), g)
  PROVE  \A i \in 1 .. Len(ss) : f[i] = g[i]
<1> DEFINE S == {i \in Nat : i \in 1 .. Len(ss) => f[i] = g[i]}
<1>0. /\ Len(ss) \in Nat /\ Len(Append(ss, x)) = Len(ss) + 1
      /\ \A i \in 1 .. Len(ss) : Append(ss, x)[i] = ss[i]
  BY SMTT(60)
<1>1. 0 \in S
  BY SMTT(60)
<1>2. ASSUME NEW n \in S \cap Nat PROVE n + 1 \in S
  <2> SUFFICES ASSUME n + 1 \in 1 .. Len(ss) PROVE f[n + 1] = g[n + 1]
    BY SMTT(60)
  <2> DEFINE i == n + 1
  <2>1. /\ i \in 1 .. Len(ss) + 1 /\ Append(ss, x)[i] = ss[i]
        /\ i - 1 = n /\ (i # 1 => n \in 1 .. Len(ss))
    BY <1>0, SMTT(60)
  <2>2. /\ f[i] = IF i = 1 THEN ss[i] ELSE f[i - 1] \o ss[i]
        /\ g[i] = IF i = 1 THEN Append(ss, x)[i] ELSE g[i - 1] \o Append(ss, x)[i]
    <3> HIDE DEF i
    <3> QED BY <1>0, <2>1 DEF Flat, i
  <2>3. i # 1 => f[n] = g[n]
    BY <2>1
  <2> HIDE DEF i
  <2> QED
    BY <2>1, <2>2, <2>3 DEF i
<1>3. Nat \subseteq S
  <2> HIDE DEF S
  <2> QED BY <1>1, <1>2, Inductive
<1> QED
  BY <1>0, <1>3, SMTT(60)

\* FlattenSeq takes the last value of that function: all records of the packs
\* resume reads, or none when there is no pack.
LEMMA FlattenIs ==
  ASSUME NEW T, NEW ss \in Seq(T)
  PROVE  /\ Len(ss) = 0 => FlattenSeq(ss) = <<>>
         /\ Len(ss) > 0 => \E f : Flat(ss, f) /\ FlattenSeq(ss) = f[Len(ss)]
<1>0. Len(ss) = 0 <=> ss = <<>>
  BY SMTT(60)
<1>1. Len(ss) = 0 => FlattenSeq(ss) = <<>>
  BY <1>0 DEF FlattenSeq
<1> DEFINE h == CHOOSE f : Flat(ss, f)
<1>2. Flat(ss, h)
  BY FlatExists
<1>3. ASSUME Len(ss) > 0 PROVE FlattenSeq(ss) = h[Len(ss)]
  <2>1. ss # <<>>
    BY <1>3, SMTT(60)
  <2> QED
    BY <2>1 DEF FlattenSeq, Flat
<1> QED
  BY <1>1, <1>2, <1>3

\* One more page, or the pages of one more pack, come after all the others.
LEMMA FlattenAppend ==
  ASSUME NEW T, NEW ss \in Seq(Seq(T)), NEW x \in Seq(T)
  PROVE  FlattenSeq(Append(ss, x)) = FlattenSeq(ss) \o x
<1> DEFINE n == Len(ss)
           tt == Append(ss, x)
<1>1. n \in Nat /\ Len(tt) = n + 1 /\ tt[n + 1] = x /\ tt \in Seq(Seq(T))
  BY SMTT(60)
<1>2. PICK g : Flat(tt, g) /\ FlattenSeq(tt) = g[n + 1]
  <2>1. Len(tt) > 0
    BY <1>1, SMTT(60)
  <2> HIDE DEF tt, n
  <2> QED BY <1>1, <2>1, FlattenIs
<1>3. g[n + 1] = IF n = 0 THEN x ELSE g[n] \o x
  <2>1. n + 1 \in 1 .. n + 1 /\ (n + 1) - 1 = n /\ (n + 1 = 1 <=> n = 0)
    BY <1>1, SMTT(60)
  <2> HIDE DEF tt, n
  <2> QED BY <1>1, <1>2, <2>1 DEF Flat
<1>4. CASE n = 0
  BY <1>2, <1>3, <1>4, FlattenIs, ConcatEmptySeq
<1>5. CASE n # 0
  <2>1. PICK f : Flat(ss, f) /\ FlattenSeq(ss) = f[n]
    BY <1>1, <1>5, FlattenIs, SMTT(60)
  <2>2. f[n] = g[n]
    BY <1>1, <1>2, <1>5, <2>1, FlatAgrees, SMTT(60)
  <2> QED
    BY <1>2, <1>3, <1>5, <2>1, <2>2
<1> QED
  BY <1>4, <1>5

\* Pages of records are put together to records.
LEMMA FlattenType ==
  ASSUME NEW T PROVE \A ss \in Seq(Seq(T)) : FlattenSeq(ss) \in Seq(T)
<1> DEFINE S == {n \in Nat : \A ss \in Seq(Seq(T)) : Len(ss) = n => FlattenSeq(ss) \in Seq(T)}
<1>1. 0 \in S
  BY FlattenIs, EmptySeq
<1>2. ASSUME NEW n \in S \cap Nat PROVE n + 1 \in S
  <2> SUFFICES ASSUME NEW ss \in Seq(Seq(T)), Len(ss) = n + 1
               PROVE  FlattenSeq(ss) \in Seq(T)
    <3>1. n + 1 \in Nat
      BY SMTT(60)
    <3> QED BY <3>1
  <2>1. PICK tt \in Seq(Seq(T)), x \in Seq(T) : ss = Append(tt, x)
    <3>1. ss # <<>>
      BY SMTT(60)
    <3> QED BY <3>1, SequenceEmptyOrAppend
  <2>2. Len(tt) = n
    BY <2>1, SMTT(60)
  <2> QED
    BY <2>1, <2>2, FlattenAppend, ConcatProperties
<1>3. Nat \subseteq S
  <2> HIDE DEF S
  <2> QED BY <1>1, <1>2, Inductive
<1>4. \A ss \in Seq(Seq(T)) : Len(ss) \in Nat
  BY LenProperties
<1> QED
  BY <1>3, <1>4

\* The records of two runs of pages are those of the first and then those of
\* the second (the packs of the chain, then the pack that is filled).
LEMMA FlattenConcat ==
  ASSUME NEW T, NEW aa \in Seq(Seq(T))
  PROVE  \A ss \in Seq(Seq(T)) : FlattenSeq(aa \o ss) = FlattenSeq(aa) \o FlattenSeq(ss)
<1> DEFINE G(ss) == FlattenSeq(aa \o ss) = FlattenSeq(aa) \o FlattenSeq(ss)
           S == {n \in Nat : \A ss \in Seq(Seq(T)) : Len(ss) = n => G(ss)}
<1>0. FlattenSeq(aa) \in Seq(T)
  BY FlattenType
<1>1. 0 \in S
  <2> SUFFICES ASSUME NEW ss \in Seq(Seq(T)), Len(ss) = 0 PROVE G(ss)
    OBVIOUS
  <2>1. ss = <<>> /\ aa \o ss = aa
    BY SMTT(60)
  <2> QED
    BY <1>0, <2>1, FlattenIs, ConcatEmptySeq
<1>2. ASSUME NEW n \in S \cap Nat PROVE n + 1 \in S
  <2> SUFFICES ASSUME NEW ss \in Seq(Seq(T)), Len(ss) = n + 1 PROVE G(ss)
    <3>1. n + 1 \in Nat
      BY SMTT(60)
    <3> QED BY <3>1
  <2>1. PICK tt \in Seq(Seq(T)), x \in Seq(T) : ss = Append(tt, x)
    <3>1. ss # <<>>
      BY SMTT(60)
    <3> QED BY <3>1, SequenceEmptyOrAppend
  <2>2. Len(tt) = n
    BY <2>1, SMTT(60)
  <2>3. aa \o ss = Append(aa \o tt, x) /\ aa \o tt \in Seq(Seq(T))
    BY <2>1, SMTT(60)
  <2>4. FlattenSeq(aa \o ss) = (FlattenSeq(aa) \o FlattenSeq(tt)) \o x
    <3>1. G(tt)
      <4> HIDE DEF G
      <4> QED BY <2>2
    <3>2. FlattenSeq(Append(aa \o tt, x)) = FlattenSeq(aa \o tt) \o x
      <4> HIDE DEF S, G
      <4> QED BY <2>3, FlattenAppend
    <3> QED
      BY <2>3, <3>1, <3>2
  <2>5. FlattenSeq(tt) \in Seq(T)
    BY FlattenType
  <2>6. FlattenSeq(ss) = FlattenSeq(tt) \o x
    BY <2>1, FlattenAppend
  <2>7. (FlattenSeq(aa) \o FlattenSeq(tt)) \o x = FlattenSeq(aa) \o (FlattenSeq(tt) \o x)
    <3> HIDE DEF S, G
    <3> QED BY <1>0, <2>5, SMTT(60)
  <2> QED
    BY <2>4, <2>6, <2>7
<1>3. Nat \subseteq S
  <2> HIDE DEF S
  <2> QED BY <1>1, <1>2, Inductive
<1>4. \A ss \in Seq(Seq(T)) : Len(ss) \in Nat
  BY LenProperties
<1> QED
  BY <1>3, <1>4

-----------------------------------------------------------------------------
(***************************************************************************)
(* The chain of packs                                                      *)
(***************************************************************************)

\* A pack as it is formed from the store
Packs == [kind : PackSteps, ordinal : Nat, frames : Seq(Seq(Bodies))]

\* The packs a restarted process would find
Found == IF dir = None THEN <<>> ELSE dir.packs

\* A chain resume accepts: the descriptor first; no index before all records
\* are there, the lane index after the event index, the manifest after both,
\* and the aliases last
Chain(c) ==
  /\ c \in Seq(PackFiles)
  /\ c # <<>> => c[1].kind = "descriptor"
  /\ Len(RecordsOf(c)) <= Records
  /\ Has(c, "event_index") => Len(RecordsOf(c)) = Records
  /\ Has(c, "lane_index") => Has(c, "event_index")
  /\ Has(c, "manifest") => Has(c, "lane_index")
  /\ \A i \in DOMAIN c : c[i].kind = "manifest" => c[i].frames[1] = RecordsOf(c)
  /\ Has(c, "aliases") => Last(c).kind = "aliases"

\* A pack that may be the next of a chain
Fits(c, p) ==
  /\ p \in Packs /\ ~Has(c, "aliases")
  /\ (p.kind = "descriptor") <=> (c = <<>>)
  /\ p.kind = "records" =>
       /\ p.ordinal = Len(PagesOf(c)) /\ FlattenSeq(p.frames) # <<>>
       /\ Len(RecordsOf(c)) + Len(FlattenSeq(p.frames)) <= Records
  /\ p.kind \notin {"records", "checkpoint"} => p.ordinal = 0
  /\ p.kind = "event_index" =>
       Len(RecordsOf(c)) = Records /\ ~Has(c, "event_index")
  /\ p.kind = "lane_index" => Has(c, "event_index") /\ ~Has(c, "lane_index")
  /\ p.kind = "manifest" =>
       /\ Has(c, "lane_index") /\ ~Has(c, "manifest")
       /\ p.frames[1] = RecordsOf(c)
  /\ p.kind = "aliases" => FinalCheckpoint(c)

\* An installed pack has the kind and the frames it was formed with
\* (write_pack).
LEMMA InstalledType ==
  ASSUME NEW p \in Packs, NEW first \in Nat
  PROVE  /\ Installed(p, first) \in PackFiles
         /\ Installed(p, first).kind = p.kind /\ Installed(p, first).frames = p.frames
  BY DEF Installed, PackFiles, Packs

\* The records resume reads from a chain are records.
LEMMA RecordsType ==
  ASSUME NEW c \in Seq(PackFiles)
  PROVE  PagesOf(c) \in Seq(Seq(Bodies)) /\ RecordsOf(c) \in Seq(Bodies)
<1> DEFINE G(x) == IF x.kind = "records" THEN x.frames ELSE <<>>
           ss == [i \in DOMAIN c |-> G(c[i])]
<1>1. \A x \in PackFiles : G(x) \in Seq(Seq(Bodies))
  BY EmptySeq DEF PackFiles
<1>2. Len(c) \in Nat /\ DOMAIN c = 1 .. Len(c) /\ \A i \in DOMAIN c : c[i] \in PackFiles
  BY SMTT(60)
<1>3. ss \in Seq(Seq(Seq(Bodies)))
  <2> HIDE DEF G
  <2> QED BY <1>1, <1>2, SMTT(60)
<1>4. PagesOf(c) = FlattenSeq(ss) /\ RecordsOf(c) = FlattenSeq(PagesOf(c))
  BY DEF PagesOf, RecordsOf
<1>5. FlattenSeq(ss) \in Seq(Seq(Bodies))
  <2> HIDE DEF ss
  <2> QED BY <1>3, FlattenType
<1> QED
  BY <1>4, <1>5, FlattenType

\* Installing a pack adds its pages when it holds records, and none otherwise.
LEMMA PagesAppend ==
  ASSUME NEW c \in Seq(PackFiles), NEW p \in PackFiles
  PROVE  /\ PagesOf(c) \in Seq(Seq(Bodies))
         /\ PagesOf(Append(c, p)) =
              PagesOf(c) \o (IF p.kind = "records" THEN p.frames ELSE <<>>)
<1> DEFINE G(x) == IF x.kind = "records" THEN x.frames ELSE <<>>
           ss == [i \in DOMAIN c |-> G(c[i])]
           d == Append(c, p)
<1>1. \A x \in PackFiles : G(x) \in Seq(Seq(Bodies))
  BY EmptySeq DEF PackFiles
<1>2. /\ Len(c) \in Nat /\ DOMAIN c = 1 .. Len(c) /\ \A i \in DOMAIN c : c[i] \in PackFiles
      /\ DOMAIN d = 1 .. Len(c) + 1 /\ d[Len(c) + 1] = p
      /\ \A i \in 1 .. Len(c) : d[i] = c[i]
  BY SMTT(60)
<1>3. ss \in Seq(Seq(Seq(Bodies)))
  <2> HIDE DEF G
  <2> QED BY <1>1, <1>2, SMTT(60)
<1>4. [i \in DOMAIN d |-> G(d[i])] = Append(ss, G(p))
  <2> HIDE DEF G, d
  <2> QED BY <1>1, <1>2, <1>3, SMTT(60)
<1>5. PagesOf(c) = FlattenSeq(ss) /\ PagesOf(d) = FlattenSeq([i \in DOMAIN d |-> G(d[i])])
  BY DEF PagesOf
<1>6. FlattenSeq(Append(ss, G(p))) = FlattenSeq(ss) \o G(p)
  <2> HIDE DEF G, ss
  <2> QED BY <1>1, <1>3, FlattenAppend
<1>7. FlattenSeq(ss) \in Seq(Seq(Bodies))
  <2> HIDE DEF ss
  <2> QED BY <1>3, FlattenType
<1> QED
  BY <1>4, <1>5, <1>6, <1>7

\* Installing a pack adds the records of its pages when it holds records, and
\* leaves the records resume finds alone otherwise.
LEMMA RecordsAppend ==
  ASSUME NEW c \in Seq(PackFiles), NEW p \in PackFiles
  PROVE  /\ RecordsOf(c) \in Seq(Bodies)
         /\ RecordsOf(Append(c, p)) =
              IF p.kind = "records" THEN RecordsOf(c) \o FlattenSeq(p.frames)
              ELSE RecordsOf(c)
<1>1. \A d : RecordsOf(d) = FlattenSeq(PagesOf(d))
  BY DEF RecordsOf, PagesOf
<1>2. PagesOf(c) \in Seq(Seq(Bodies)) /\ RecordsOf(c) \in Seq(Bodies)
  BY <1>1, PagesAppend, FlattenType
<1>3. CASE p.kind = "records"
  <2>1. PagesOf(Append(c, p)) = PagesOf(c) \o p.frames
    BY <1>3, PagesAppend
  <2>2. p.frames \in Seq(Seq(Bodies))
    BY DEF PackFiles
  <2> QED
    BY <1>1, <1>2, <1>3, <2>1, <2>2, FlattenConcat
<1>4. CASE p.kind # "records"
  <2>1. PagesOf(Append(c, p)) = PagesOf(c) \o <<>>
    BY <1>4, PagesAppend
  <2>2. PagesOf(c) \o <<>> = PagesOf(c)
    BY <1>2, SMTT(60)
  <2> QED
    BY <1>1, <1>2, <1>4, <2>1, <2>2
<1> QED
  BY <1>2, <1>3, <1>4

\* Installing a pack adds its kind to the chain; the checkpoint that follows
\* the manifest is the final one.
LEMMA HasAppend ==
  ASSUME NEW c \in Seq(PackFiles), NEW p \in PackFiles
  PROVE  /\ \A kind : Has(Append(c, p), kind) <=> Has(c, kind) \/ p.kind = kind
         /\ FinalCheckpoint(Append(c, p)) <=>
              FinalCheckpoint(c) \/ (p.kind = "checkpoint" /\ Has(c, "manifest"))
<1> DEFINE d == Append(c, p)
           n == Len(c)
<1>1. /\ n \in Nat /\ DOMAIN c = 1 .. n /\ DOMAIN d = 1 .. n + 1 /\ d[n + 1] = p
      /\ \A i \in 1 .. n : d[i] = c[i]
  BY SMTT(60)
<1>2. /\ DOMAIN d = DOMAIN c \cup {n + 1} /\ n + 1 \notin DOMAIN c
      /\ \A i \in DOMAIN c : i < n + 1 /\ ~(n + 1 < i) /\ ~(n + 1 < n + 1)
      /\ ~(n + 1 < n + 1)
  BY <1>1, SMTT(60)
<1> HIDE DEF d, n
<1>3. \A kind : Has(d, kind) <=> Has(c, kind) \/ p.kind = kind
  BY <1>1, <1>2 DEF Has
<1>4. FinalCheckpoint(c) => FinalCheckpoint(d)
  BY <1>1, <1>2 DEF FinalCheckpoint
<1>5. p.kind = "checkpoint" /\ Has(c, "manifest") => FinalCheckpoint(d)
  BY <1>1, <1>2 DEF FinalCheckpoint, Has
<1>6. ASSUME FinalCheckpoint(d), ~FinalCheckpoint(c)
      PROVE  p.kind = "checkpoint" /\ Has(c, "manifest")
  <2>1. PICK i, j \in DOMAIN d :
               i < j /\ d[i].kind = "manifest" /\ d[j].kind = "checkpoint"
    BY <1>6 DEF FinalCheckpoint
  <2>2. i \in DOMAIN c
    BY <1>2, <2>1
  <2>3. j = n + 1
    BY <1>1, <1>2, <1>6, <2>1, <2>2 DEF FinalCheckpoint
  <2> QED
    BY <1>1, <2>1, <2>2, <2>3 DEF Has
<1> QED
  BY <1>3, <1>4, <1>5, <1>6 DEF d

\* A directory without packs is a chain: no records, no pack of any kind.
LEMMA EmptyChain ==
  /\ Chain(<<>>) /\ RecordsOf(<<>>) = <<>> /\ \A kind : ~Has(<<>>, kind)
  /\ ~FinalCheckpoint(<<>>)
<1>1. \A kind : ~Has(<<>>, kind)
  BY SMTT(60) DEF Has
<1>2. RecordsOf(<<>>) = <<>>
  <2>1. [i \in DOMAIN <<>> |-> IF <<>>[i].kind = "records" THEN <<>>[i].frames ELSE <<>>] = <<>>
    BY SMTT(60)
  <2>2. Len(<<>>) = 0 /\ <<>> \in Seq({})
    BY EmptySeq
  <2>3. FlattenSeq(<<>>) = <<>>
    BY <2>2, FlattenIs
  <2> QED
    BY <2>1, <2>3 DEF RecordsOf
<1>3. ~FinalCheckpoint(<<>>)
  BY SMTT(60) DEF FinalCheckpoint
<1>4. <<>> \in Seq(PackFiles) /\ DOMAIN <<>> = {} /\ Len(<<>>) <= Records
  BY PackedAssumption, SMTT(60)
<1> QED
  BY <1>1, <1>2, <1>3, <1>4 DEF Chain

\* The manifest that resume reads, if there is one, lists the records it
\* finds.
LEMMA ManifestIs ==
  ASSUME NEW c, Chain(c)
  PROVE  /\ Has(c, "manifest") => ManifestOf(c) = RecordsOf(c) /\ ManifestOf(c) # None
         /\ ~Has(c, "manifest") => ManifestOf(c) = None
<1>1. RecordsOf(c) # None
  BY RecordsType, AbsenceAssumption DEF Chain
<1>2. ASSUME Has(c, "manifest") PROVE ManifestOf(c) = RecordsOf(c)
  <2> DEFINE i == CHOOSE i \in DOMAIN c : c[i].kind = "manifest"
  <2>1. i \in DOMAIN c /\ c[i].kind = "manifest"
    BY <1>2 DEF Has
  <2>2. c[i].frames[1] = RecordsOf(c)
    <3> HIDE DEF i
    <3> QED BY <2>1 DEF Chain
  <2> QED
    BY <1>2, <2>2 DEF ManifestOf
<1>3. ~Has(c, "manifest") => ManifestOf(c) = None
  BY DEF ManifestOf
<1> QED
  BY <1>1, <1>2, <1>3

\* A pack of records fits only while records are missing in the chain.
LEMMA RoomLeft ==
  ASSUME NEW c, Chain(c), NEW p, Fits(c, p), p.kind = "records"
  PROVE  Len(RecordsOf(c)) # Records
<1>1. /\ p \in Packs /\ FlattenSeq(p.frames) # <<>>
      /\ Len(RecordsOf(c)) + Len(FlattenSeq(p.frames)) <= Records
  BY DEF Fits
<1>2. FlattenSeq(p.frames) \in Seq(Bodies)
  BY <1>1, FlattenType DEF Packs
<1>3. Len(FlattenSeq(p.frames)) \in Nat \ {0}
  BY <1>1, <1>2, EmptySeq
<1> QED
  BY <1>1, <1>3, PackedAssumption, SMTT(60)

\* At the end of a chain one pack fits that is not a checkpoint: its kind and
\* ordinal follow from the packs before it.
LEMMA OneFits ==
  ASSUME NEW c, Chain(c), NEW p, NEW q, Fits(c, p), Fits(c, q),
         p.kind # "checkpoint", q.kind # "checkpoint"
  PROVE  p.kind = q.kind /\ p.ordinal = q.ordinal
<1>1. \A x : Fits(c, x) /\ x.kind = "records" => Len(RecordsOf(c)) # Records
  BY RoomLeft
<1>2. FinalCheckpoint(c) => Has(c, "manifest")
  BY DEF FinalCheckpoint, Has
<1>3. /\ Has(c, "event_index") => Len(RecordsOf(c)) = Records
      /\ Has(c, "lane_index") => Has(c, "event_index")
      /\ Has(c, "manifest") => Has(c, "lane_index")
  BY DEF Chain
<1>4. p.kind \in PackSteps /\ q.kind \in PackSteps
  BY DEF Fits, Packs
<1>5. c = <<>> => ~Has(c, "event_index") /\ Len(RecordsOf(c)) # Records
  <2>1. Len(<<>>) = 0 /\ Records # 0
    BY EmptySeq, PackedAssumption, SMTT(60)
  <2> QED
    BY <2>1, EmptyChain
<1> DEFINE S(x) ==
      /\ x.kind = "descriptor" => c = <<>>
      /\ c = <<>> => x.kind = "descriptor"
      /\ x.kind = "records" => Len(RecordsOf(c)) # Records
      /\ x.kind = "event_index" => Len(RecordsOf(c)) = Records /\ ~Has(c, "event_index")
      /\ x.kind = "lane_index" => Has(c, "event_index") /\ ~Has(c, "lane_index")
      /\ x.kind = "manifest" => Has(c, "lane_index") /\ ~Has(c, "manifest")
      /\ x.kind = "aliases" => Has(c, "manifest")
      /\ x.kind = "records" => x.ordinal = Len(PagesOf(c))
      /\ x.kind # "records" /\ x.kind # "checkpoint" => x.ordinal = 0
<1>6. \A x : Fits(c, x) => S(x)
  BY <1>1, <1>2 DEF Fits
<1>7. S(p) /\ S(q)
  BY <1>6
<1>8. p.kind = q.kind
  BY <1>3, <1>4, <1>7, SMTT(60) DEF PackSteps
<1> QED
  BY <1>7, <1>8

\* A pack that fits makes a chain of a chain: what write_pack installs, resume
\* accepts.
LEMMA ChainAppend ==
  ASSUME NEW c, Chain(c), NEW p, Fits(c, p), NEW first \in Nat
  PROVE  Chain(Append(c, Installed(p, first)))
<1> DEFINE e == Installed(p, first)
           d == Append(c, e)
           more == FlattenSeq(p.frames)
<1>1. /\ c \in Seq(PackFiles) /\ p \in Packs /\ e \in PackFiles
      /\ e.kind = p.kind /\ e.frames = p.frames
  BY InstalledType DEF Chain, Fits
<1>2. /\ Len(c) \in Nat /\ DOMAIN c = 1 .. Len(c) /\ d \in Seq(PackFiles)
      /\ Len(d) = Len(c) + 1 /\ DOMAIN d = 1 .. Len(c) + 1
      /\ d[Len(c) + 1] = e /\ \A i \in 1 .. Len(c) : d[i] = c[i]
  BY <1>1, SMTT(60)
<1>3. /\ RecordsOf(c) \in Seq(Bodies)
      /\ RecordsOf(d) = IF p.kind = "records" THEN RecordsOf(c) \o more ELSE RecordsOf(c)
  BY <1>1, RecordsAppend
<1>4. \A kind : Has(d, kind) <=> Has(c, kind) \/ p.kind = kind
  BY <1>1, HasAppend
<1>5. /\ more \in Seq(Bodies)
      /\ Len(RecordsOf(c) \o more) = Len(RecordsOf(c)) + Len(more)
      /\ Len(RecordsOf(c)) \in Nat /\ Len(more) \in Nat
      /\ more # <<>> => Len(more) # 0
  <2>1. more \in Seq(Bodies)
    BY <1>1, FlattenType DEF Packs
  <2> HIDE DEF more
  <2> QED
    BY <1>3, <2>1, SMTT(60)
<1> SUFFICES Chain(d)
  OBVIOUS
<1> HIDE DEF d, e, more
<1>6. Len(RecordsOf(d)) <= Records
  <2>1. CASE p.kind = "records"
    BY <1>3, <1>5, <2>1 DEF Fits, more
  <2> QED
    BY <1>3, <2>1 DEF Chain
<1>7. d # <<>> => d[1].kind = "descriptor"
  <2>1. CASE c = <<>>
    <3>1. Len(c) = 0
      BY <2>1, EmptySeq
    <3>2. d[1] = e
      BY <1>2, <3>1, SMTT(60)
    <3> QED
      BY <1>1, <2>1, <3>2 DEF Fits
  <2>2. CASE c # <<>>
    <3>1. 1 \in 1 .. Len(c)
      BY <1>1, <2>2, SMTT(60)
    <3> QED
      BY <1>2, <2>2, <3>1 DEF Chain
  <2> QED
    BY <2>1, <2>2
<1>8. CASE p.kind = "records"
  <2>1. ~Has(c, "event_index")
    <3>1. Len(RecordsOf(c)) # Records
      BY <1>8, RoomLeft
    <3> QED
      BY <3>1 DEF Chain
  <2>2. ~Has(c, "lane_index") /\ ~Has(c, "manifest") /\ ~Has(c, "aliases")
    BY <2>1 DEF Chain, Fits
  <2>3. \A i \in DOMAIN d : d[i].kind # "manifest"
    BY <1>4, <1>8, <2>2 DEF Has
  <2> QED
    BY <1>2, <1>4, <1>6, <1>7, <1>8, <2>1, <2>2, <2>3 DEF Chain
<1>9. CASE p.kind # "records"
  <2>1. RecordsOf(d) = RecordsOf(c)
    BY <1>3, <1>9
  <2>2. /\ Has(d, "event_index") => Len(RecordsOf(d)) = Records
        /\ Has(d, "lane_index") => Has(d, "event_index")
        /\ Has(d, "manifest") => Has(d, "lane_index")
    BY <1>4, <2>1 DEF Chain, Fits
  <2>3. ASSUME NEW i \in DOMAIN d, d[i].kind = "manifest"
        PROVE  d[i].frames[1] = RecordsOf(d)
    <3>1. CASE i \in DOMAIN c
      BY <1>2, <2>1, <2>3, <3>1 DEF Chain
    <3>2. CASE i \notin DOMAIN c
      <4>1. i = Len(c) + 1
        BY <1>2, <3>2, SMTT(60)
      <4> QED
        BY <1>1, <1>2, <2>1, <2>3, <4>1 DEF Fits
    <3> QED
      BY <3>1, <3>2
  <2>4. Has(d, "aliases") => Last(d).kind = "aliases"
    <3>1. Last(d) = e
      BY <1>2 DEF Last
    <3> QED
      BY <1>1, <1>4, <3>1 DEF Fits
  <2> QED
    BY <1>2, <1>6, <1>7, <2>2, <2>3, <2>4 DEF Chain
<1> QED
  BY <1>8, <1>9

-----------------------------------------------------------------------------
(***************************************************************************)
(* The inductive invariant of disk, record and store                       *)
(***************************************************************************)

\* The fields of the store and of the Keychain record
StoreFields == {"state", "taken", "paged", "pack", "objects", "manifest",
                "final", "dueRecords", "dueBytes"}
RecordFields == {"state", "high", "pending", "last", "first", "data", "chain",
                 "publisher"}

\* The last rename of a pack is not yet synced
Soft == dir # None /\ dir.soft

\* What is on disk, whether or not there is a process and a key
Disk ==
  /\ dir \in Directories \cup {None} /\ Chain(Found)
  /\ Soft => Found # <<>>
  /\ acked \in Seq(Bodies)
  /\ begun \/ acked # <<>> \/ at \in {"install", "sync", "acknowledge"} => frames # {}

\* The Keychain record agrees with what is on disk
Ledger ==
  /\ DOMAIN record = RecordFields
  /\ record.state \in Open .. Published /\ record.pending \in BOOLEAN
  /\ record.last # NoBinding =>
       /\ record.last = Binding(record.last.pack, record.last.prior)
       /\ record.last.pack \in Packs
       /\ ~record.pending => Len(record.last.prior) < Len(Found)
  /\ record.pending =>
       /\ record.last # NoBinding /\ Chain(record.last.prior)
       /\ Fits(record.last.prior, record.last.pack)
       /\ \/ Found = record.last.prior
          \/ Found = Append(record.last.prior,
                            Installed(record.last.pack, record.first))
  /\ Soft => record.pending
  /\ IsPrefix(acked, RecordsOf(Found))
  /\ begun => Found # <<>>
  /\ record.state >= DataCommitted =>
       FinalCheckpoint(Found) /\ record.data = RecordsOf(Found)
  /\ Has(Found, "aliases") => record.state >= DataCommitted
  /\ record.state >= Sealed =>
       record.chain = Found /\ Has(Found, "aliases") /\ ~record.pending
  /\ record.state = Published =>
       record.publisher = Found /\ dir # None /\ dir.name = "published"

\* A call is building the result
Building == Working /\ plan # DestroyPlan

\* What was taken is in the chain, in the pack or in the page that is filled
Stored ==
  /\ DOMAIN store = StoreFields
  /\ store.taken \in Seq(Bodies) /\ Len(store.taken) <= Records
  /\ store.paged \in 0 .. Len(store.taken)
  /\ store.pack \in Seq(Seq(Bodies))
  /\ store.pack # <<>> => FlattenSeq(store.pack) # <<>>
  /\ SubSeq(store.taken, 1, store.paged) =
       RecordsOf(store.objects) \o FlattenSeq(store.pack)
  /\ Chain(store.objects)

\* How far the pack that is being written has come
Located ==
  /\ at \in {"start", "temporary", "install", "sync", "acknowledge"}
  /\ at \in {"start", "temporary", "install"} => Found = store.objects
  /\ at \in {"sync", "acknowledge"} =>
       Found = Append(store.objects, Installed(Pack, record.first))
  /\ at # "start" =>
       /\ plan # <<>> /\ Head(plan) \in PackSteps
       /\ record.pending /\ record.last = Binding(Pack, store.objects)
  /\ at = "start" /\ record.pending =>
       record.last.prior = store.objects \/ Doing("complete")
  /\ Soft => at = "sync"
  /\ dir # None \/ Doing("directory")

\* The rests of the plans of append and of finish_acquisition
CommitPlan == <<"commit">>
CheckPlan == <<"checkpoint", "commit">>
ManifestPlan == <<"manifest", "checkpoint", "commit">>
LanePlan == <<"lane_index", "manifest", "checkpoint", "commit">>
IndexPlan == <<"event_index", "lane_index", "manifest", "checkpoint", "commit">>
LastPlan == <<"records", "event_index", "lane_index", "manifest", "checkpoint",
              "commit">>
DuePlan == <<"records", "checkpoint">>
AfterPage == {<<>>, <<"push">>, DuePlan, LastPlan}

\* The chain has no pack of a kind
Lacks(kind) == ~Has(store.objects, kind)

\* Records are still taken
Taking ==
  /\ store.state = Open /\ store.objects # <<>> /\ Lacks("event_index")
  /\ store.manifest = None /\ ~store.final

\* There is room for the record that is appended
CanPush == arg \in Bodies /\ Len(store.taken) < Records

\* The page that is filled has records, and rest may follow its flush
Flushing(rest) ==
  /\ store.paged < Len(store.taken) /\ rest \in AfterPage
  /\ rest = <<"push">> => CanPush
  /\ rest = LastPlan => Len(store.taken) = Records

\* All records are in the chain
Whole ==
  /\ store.state = Open /\ store.objects # <<>>
  /\ Len(store.taken) = Records /\ store.paged = Records /\ store.pack = <<>>

\* No call is running, or none that changes what is stored
Resting ==
  /\ store.objects # <<>>
  /\ store.state = Open =>
       /\ store.manifest = None <=> Lacks("manifest")
       /\ store.final <=> FinalCheckpoint(store.objects)
  /\ store.state = DataCommitted => Lacks("aliases")

\* The pack of the pending reservation is installed
Held == record.pending /\ Found # record.last.prior

\* What remains once the generation is reserved
Ending(rest) ==
  /\ ~Lacks("aliases")
  /\ \/ rest = <<"rename", "publish">>
     \/ rest = <<"publish">> /\ dir.name = "published"

\* What holds when step is the first of the plan
Due(step) ==
  /\ step = "directory" => plan = <<"directory", "descriptor">> /\ store = NewStore
  /\ step = "descriptor" =>
       plan = <<"descriptor">> /\ store = [NewStore EXCEPT !.state = Open]
  /\ step = "push" => plan = <<"push">> /\ Taking /\ CanPush
  /\ step = "page" => Taking /\ Flushing(Tail(plan))
  /\ step = "records" =>
       /\ Taking /\ store.pack # <<>>
       /\ LET rest == Tail(plan) IN
          \/ rest # <<>> /\ Head(rest) = "page" /\ Flushing(Tail(rest))
          \/ /\ store.paged = Len(store.taken)
             /\ rest = <<"checkpoint">> \/ (rest = IndexPlan /\ Len(store.taken) = Records)
  /\ step = "event_index" => plan = IndexPlan /\ Whole /\ Lacks("event_index")
  /\ step = "lane_index" =>
       plan = LanePlan /\ Whole /\ ~Lacks("event_index") /\ Lacks("lane_index")
  /\ step = "manifest" =>
       plan = ManifestPlan /\ Whole /\ ~Lacks("lane_index") /\ Lacks("manifest")
  /\ step = "checkpoint" =>
       \/ /\ plan = <<"checkpoint">> /\ Taking
          /\ store.paged = Len(store.taken) /\ store.pack = <<>>
          /\ at = "start" => ~record.pending
       \/ /\ plan = CheckPlan /\ Whole /\ ~Lacks("manifest")
          /\ ~FinalCheckpoint(store.objects)
  /\ step = "commit" => plan = CommitPlan /\ Whole /\ FinalCheckpoint(store.objects)
  /\ step = "aliases" =>
       /\ plan = PublishPlan /\ arg \in Bodies
       /\ store.state = DataCommitted /\ Lacks("aliases")
  /\ step = "complete" =>
       /\ Held
       /\ \/ Tail(plan) = <<>> /\ Resting
          \/ /\ Tail(plan) # <<>> /\ Head(Tail(plan)) = "seal"
             /\ Tail(Tail(plan)) # <<>> /\ Head(Tail(Tail(plan))) = "generation"
             /\ store.state = DataCommitted /\ Ending(Tail(Tail(Tail(plan))))
  /\ step = "seal" =>
       /\ Tail(plan) # <<>> /\ Head(Tail(plan)) = "generation"
       /\ store.state = DataCommitted /\ Ending(Tail(Tail(plan)))
  /\ step = "generation" => store.state = Sealed /\ Ending(Tail(plan))
  /\ step \in {"rename", "publish"} =>
       /\ store.state = Sealed /\ Ending(plan)
       /\ record.publisher = store.objects

\* Where the store is in its call
Placed ==
  /\ IF plan = <<>> THEN Resting ELSE Due(Head(plan))
  /\ store.state = IF Doing("directory") THEN Empty ELSE record.state
  /\ Doing("directory") => record.state = Open

\* Disk, record and store agree; what they agree on depends on how far the
\* call that runs has come
ChainInv ==
  /\ Disk /\ RefusedForOnePack
  /\ record # None \/ Working => Ledger
  /\ Building => Stored /\ Located /\ Placed

\* What is left of the plans of append and finish_acquisition after their
\* first steps.
LEMMA PlanTails ==
  /\ <<"push">> # <<>> /\ Head(<<"push">>) = "push" /\ Tail(<<"push">>) = <<>>
  /\ <<"checkpoint">> # <<>> /\ Head(<<"checkpoint">>) = "checkpoint"
  /\ Tail(<<"checkpoint">>) = <<>>
  /\ CommitPlan # <<>> /\ Head(CommitPlan) = "commit" /\ Tail(CommitPlan) = <<>>
  /\ CheckPlan # <<>> /\ Head(CheckPlan) = "checkpoint" /\ Tail(CheckPlan) = CommitPlan
  /\ ManifestPlan # <<>> /\ Head(ManifestPlan) = "manifest"
  /\ Tail(ManifestPlan) = CheckPlan
  /\ LanePlan # <<>> /\ Head(LanePlan) = "lane_index" /\ Tail(LanePlan) = ManifestPlan
  /\ IndexPlan # <<>> /\ Head(IndexPlan) = "event_index" /\ Tail(IndexPlan) = LanePlan
  /\ LastPlan # <<>> /\ Head(LastPlan) = "records" /\ Tail(LastPlan) = IndexPlan
  /\ DuePlan # <<>> /\ Head(DuePlan) = "records" /\ Tail(DuePlan) = <<"checkpoint">>
<1>1. /\ <<"push">> # <<>> /\ Head(<<"push">>) = "push" /\ Tail(<<"push">>) = <<>>
      /\ <<"checkpoint">> # <<>> /\ Head(<<"checkpoint">>) = "checkpoint"
      /\ Tail(<<"checkpoint">>) = <<>>
  BY SMTT(60)
<1>2. /\ CommitPlan # <<>> /\ Head(CommitPlan) = "commit" /\ Tail(CommitPlan) = <<>>
      /\ CheckPlan # <<>> /\ Head(CheckPlan) = "checkpoint" /\ Tail(CheckPlan) = CommitPlan
      /\ DuePlan # <<>> /\ Head(DuePlan) = "records" /\ Tail(DuePlan) = <<"checkpoint">>
  BY SMTT(60) DEF CommitPlan, CheckPlan, DuePlan
<1>3. ManifestPlan # <<>> /\ Head(ManifestPlan) = "manifest" /\ Tail(ManifestPlan) = CheckPlan
  BY SMTT(60) DEF CheckPlan, ManifestPlan
<1>4. LanePlan # <<>> /\ Head(LanePlan) = "lane_index" /\ Tail(LanePlan) = ManifestPlan
  BY SMTT(60) DEF LanePlan, ManifestPlan
<1>5. IndexPlan # <<>> /\ Head(IndexPlan) = "event_index" /\ Tail(IndexPlan) = LanePlan
  BY SMTT(60) DEF LanePlan, IndexPlan
<1>6. LastPlan # <<>> /\ Head(LastPlan) = "records" /\ Tail(LastPlan) = IndexPlan
  BY SMTT(60) DEF LastPlan, IndexPlan
<1> QED
  BY <1>1, <1>2, <1>3, <1>4, <1>5, <1>6

\* A step before a plan.
LEMMA PlanCons ==
  ASSUME NEW S, NEW s \in Seq(S), NEW x \in S
  PROVE  /\ <<>> \o s = s
         /\ <<x>> \o s # <<>> /\ <<x>> \o s \in Seq(S)
         /\ Head(<<x>> \o s) = x /\ Tail(<<x>> \o s) = s
         /\ s # <<>> => s = <<Head(s)>> \o Tail(s)
  BY SMTT(60)

\* The plans of finish_acquisition are put together step by step.
LEMMA PlanJoins ==
  /\ {<<>>, <<"push">>, <<"page">>, <<"records">>, <<"commit">>, <<"checkpoint">>} \subseteq Seq(WorkSteps)
  /\ {CommitPlan, CheckPlan, ManifestPlan, LanePlan, IndexPlan, LastPlan, DuePlan}
       \subseteq Seq(WorkSteps)
  /\ <<"checkpoint">> \o CommitPlan = CheckPlan
  /\ <<"lane_index">> \o ManifestPlan = LanePlan
  /\ (<<"event_index">> \o <<"lane_index">>) \o ManifestPlan = IndexPlan
  /\ ((<<"records">> \o <<"event_index">>) \o <<"lane_index">>) \o ManifestPlan = LastPlan
  /\ (((<<"page">> \o <<"records">>) \o <<"event_index">>) \o <<"lane_index">>) \o ManifestPlan
       = <<"page">> \o LastPlan
<1>1. {<<>>, <<"push">>, <<"page">>, <<"records">>, <<"commit">>, <<"checkpoint">>} \subseteq Seq(WorkSteps)
  BY SMTT(60) DEF WorkSteps, PackSteps
<1>2. {CommitPlan, CheckPlan, DuePlan} \subseteq Seq(WorkSteps)
  BY SMTT(60) DEF WorkSteps, PackSteps, CommitPlan, CheckPlan, DuePlan
<1>3. {ManifestPlan, LanePlan} \subseteq Seq(WorkSteps)
  BY SMTT(60) DEF WorkSteps, PackSteps, ManifestPlan, LanePlan
<1>4. {IndexPlan, LastPlan} \subseteq Seq(WorkSteps)
  BY SMTT(60) DEF WorkSteps, PackSteps, IndexPlan, LastPlan
<1>5. ASSUME NEW s \in Seq(WorkSteps), s # <<>> PROVE <<Head(s)>> \o Tail(s) = s
  BY PlanCons, <1>5, SMTT(60)
<1>6. <<"checkpoint">> \o CommitPlan = CheckPlan
  BY <1>2, <1>5, PlanTails
<1>7. <<"lane_index">> \o ManifestPlan = LanePlan
  BY <1>3, <1>5, PlanTails
<1>8. <<"event_index">> \o LanePlan = IndexPlan
  BY <1>4, <1>5, PlanTails
<1>9. <<"records">> \o IndexPlan = LastPlan
  BY <1>4, <1>5, PlanTails
<1> DEFINE p == <<"page">>
           r == <<"records">>
           e == <<"event_index">>
           l == <<"lane_index">>
<1>10. \A x, y, s \in Seq(WorkSteps) : (x \o y) \o s = x \o (y \o s)
  BY SMTT(60)
<1>16. \A x, y \in Seq(WorkSteps) : x \o y \in Seq(WorkSteps)
  BY SMTT(60)
<1>11. /\ p \in Seq(WorkSteps) /\ r \in Seq(WorkSteps)
       /\ e \in Seq(WorkSteps) /\ l \in Seq(WorkSteps)
       /\ ManifestPlan \in Seq(WorkSteps) /\ LanePlan \in Seq(WorkSteps)
       /\ IndexPlan \in Seq(WorkSteps)
  BY <1>1, <1>3, <1>4, SMTT(60) DEF WorkSteps, PackSteps
<1>12. l \o ManifestPlan = LanePlan /\ e \o LanePlan = IndexPlan /\ r \o IndexPlan = LastPlan
  BY <1>7, <1>8, <1>9
<1> HIDE DEF p, r, e, l
<1>13. /\ (e \o l) \o ManifestPlan = e \o (l \o ManifestPlan)
       /\ ((r \o e) \o l) \o ManifestPlan = (r \o e) \o (l \o ManifestPlan)
       /\ (r \o e) \o LanePlan = r \o (e \o LanePlan)
  <2>1. r \o e \in Seq(WorkSteps)
    BY <1>16, <1>11
  <2>2. (e \o l) \o ManifestPlan = e \o (l \o ManifestPlan)
    BY <1>11, SMTT(60)
  <2>3. ((r \o e) \o l) \o ManifestPlan = (r \o e) \o (l \o ManifestPlan)
    BY <1>10, <1>11, <2>1
  <2>4. (r \o e) \o LanePlan = r \o (e \o LanePlan)
    BY <1>11, SMTT(60)
  <2> QED
    BY <2>2, <2>3, <2>4
<1>14. /\ (((p \o r) \o e) \o l) \o ManifestPlan = ((p \o r) \o e) \o (l \o ManifestPlan)
       /\ ((p \o r) \o e) \o LanePlan = (p \o r) \o (e \o LanePlan)
       /\ (p \o r) \o IndexPlan = p \o (r \o IndexPlan)
  <2>1. p \o r \in Seq(WorkSteps)
    BY <1>16, <1>11
  <2>2. (p \o r) \o e \in Seq(WorkSteps)
    BY <1>16, <1>11, <2>1
  <2>3. (((p \o r) \o e) \o l) \o ManifestPlan = ((p \o r) \o e) \o (l \o ManifestPlan)
    BY <1>10, <1>11, <2>2
  <2>4. ((p \o r) \o e) \o LanePlan = (p \o r) \o (e \o LanePlan)
    BY <1>10, <1>11, <2>1
  <2>5. (p \o r) \o IndexPlan = p \o (r \o IndexPlan)
    BY <1>11, SMTT(60)
  <2> QED
    BY <2>3, <2>4, <2>5
<1>15. /\ (e \o l) \o ManifestPlan = IndexPlan
       /\ ((r \o e) \o l) \o ManifestPlan = LastPlan
       /\ (((p \o r) \o e) \o l) \o ManifestPlan = p \o LastPlan
  BY <1>12, <1>13, <1>14
<1> QED
  BY <1>1, <1>2, <1>3, <1>4, <1>6, <1>7, <1>15 DEF p, r, e, l

\* publish has the last three steps of a resume that finds the aliases.
LEMMA PublishTails ==
  /\ PublishPlan # <<>> /\ Head(PublishPlan) = "aliases"
  /\ Tail(PublishPlan) # <<>> /\ Head(Tail(PublishPlan)) = "seal"
  /\ Tail(Tail(PublishPlan)) # <<>> /\ Head(Tail(Tail(PublishPlan))) = "generation"
  /\ Tail(Tail(Tail(PublishPlan))) = <<"rename", "publish">>
<1> DEFINE p2 == <<"seal", "generation", "rename", "publish">>
           p3 == <<"generation", "rename", "publish">>
<1>1. PublishPlan # <<>> /\ Head(PublishPlan) = "aliases" /\ Tail(PublishPlan) = p2
  BY SMTT(60) DEF PublishPlan
<1>2. p2 # <<>> /\ Head(p2) = "seal" /\ Tail(p2) = p3
  BY SMTT(60)
<1>3. p3 # <<>> /\ Head(p3) = "generation" /\ Tail(p3) = <<"rename", "publish">>
  BY SMTT(60)
<1> QED
  BY <1>1, <1>2, <1>3

\* A step of a call is not a step of destroy.
LEMMA DoingIsBuilding ==
  ASSUME plan # <<>>, Head(plan) # "unkey", Head(plan) # "erase"
  PROVE  Building
<1>1. /\ DestroyPlan # <<>> /\ Head(DestroyPlan) = "unkey"
      /\ <<"erase">> # <<>> /\ Head(<<"erase">>) = "erase"
  BY SMTT(60) DEF DestroyPlan
<1> QED
  BY <1>1 DEF Building, Working

\* A step that changes neither the record nor the directory leaves the two in
\* agreement.
LEMMA LedgerKept ==
  ASSUME Ledger, UNCHANGED <<record, dir, acked, begun>>
  PROVE  Ledger'
<1>1. UNCHANGED <<Found, Soft>>
  BY DEF Found, Soft
<1> QED
  BY <1>1 DEF Ledger

\* A step that leaves the directory, the sealed frames and the acknowledged
\* records alone leaves the disk as it was.
LEMMA DiskKept ==
  ASSUME Disk, UNCHANGED <<dir, acked, begun>>, frames \subseteq frames',
         at' \in {"install", "sync", "acknowledge"} => frames' # {}
  PROVE  Disk'
<1>1. UNCHANGED <<Found, Soft>>
  BY DEF Found, Soft
<1>2. begun' \/ acked' # <<>> => frames' # {}
  BY DEF Disk
<1> QED
  BY <1>1, <1>2 DEF Disk

\* The process is gone, or its store is: nothing but the disk and the record
\* is left to agree.
LEMMA DroppedStore ==
  ASSUME ChainInv, UNCHANGED <<record, dir, acked, begun, frames>>, Drop,
         RefusedForOnePack'
  PROVE  ChainInv'
<1>1. store' = None /\ plan' = <<>> /\ at' = "start"
  BY DEF Drop, Start
<1>2. ~Working' /\ ~Building'
  BY <1>1 DEF Working, Building
<1>3. Disk'
  BY <1>1, DiskKept DEF ChainInv
<1>4. record' # None => Ledger'
  BY LedgerKept DEF ChainInv
<1> QED
  BY <1>2, <1>3, <1>4 DEF ChainInv

\* A call starts, or makes a step in memory: disk and record still agree.
LEMMA MemoryStep ==
  ASSUME ChainInv, Building, at = "start", ~Doing("complete"), ~Doing("directory"),
         UNCHANGED <<record, dir, acked, begun, frames, refused>>, at' = "start",
         store'.objects = store.objects, Stored', Placed'
  PROVE  ChainInv'
<1>1. UNCHANGED <<Found, Soft>>
  BY DEF Found, Soft
<1>2. Disk' /\ RefusedForOnePack'
  BY DiskKept DEF ChainInv, RefusedForOnePack
<1>3. Ledger'
  BY LedgerKept DEF ChainInv, Building
<1>4. Located'
  <2>1. Located
    BY DEF ChainInv
  <2>2. Found' = store'.objects /\ ~Soft' /\ dir' # None
    BY <1>1, <2>1 DEF Located
  <2>3. record'.pending => record'.last.prior = store'.objects
    BY <2>1 DEF Located
  <2> QED
    BY <2>2, <2>3 DEF Located
<1> QED
  BY <1>2, <1>3, <1>4 DEF ChainInv

-----------------------------------------------------------------------------
(***************************************************************************)
(* append and finish_acquisition                                           *)
(***************************************************************************)

\* What was taken is counted: in the chain, in the pack, in the page.
LEMMA StoreCounts ==
  ASSUME Stored
  PROVE  /\ store.objects \in Seq(PackFiles) /\ RecordsOf(store.objects) \in Seq(Bodies)
         /\ FlattenSeq(store.pack) \in Seq(Bodies)
         /\ Len(RecordsOf(store.objects)) \in Nat /\ Len(FlattenSeq(store.pack)) \in Nat
         /\ Len(RecordsOf(store.objects)) + Len(FlattenSeq(store.pack)) = store.paged
         /\ Len(store.taken) \in Nat /\ store.paged \in Nat
         /\ store.paged <= Len(store.taken) /\ Len(store.taken) <= Records
         /\ Page(store) \in Seq(Bodies)
         /\ Page(store) = <<>> <=> store.paged = Len(store.taken)
<1>1. store.objects \in Seq(PackFiles) /\ RecordsOf(store.objects) \in Seq(Bodies)
  BY RecordsType DEF Stored, Chain
<1>2. FlattenSeq(store.pack) \in Seq(Bodies)
  BY FlattenType DEF Stored
<1>3. /\ store.taken \in Seq(Bodies) /\ Len(store.taken) <= Records
      /\ store.paged \in 0 .. Len(store.taken)
      /\ SubSeq(store.taken, 1, store.paged) =
           RecordsOf(store.objects) \o FlattenSeq(store.pack)
  BY DEF Stored
<1>4. Len(SubSeq(store.taken, 1, store.paged)) = store.paged
  BY <1>3, SMTT(60)
<1>5. Len(RecordsOf(store.objects) \o FlattenSeq(store.pack)) =
        Len(RecordsOf(store.objects)) + Len(FlattenSeq(store.pack))
  BY <1>1, <1>2, SMTT(60)
<1>6. /\ Page(store) \in Seq(Bodies)
      /\ Page(store) = <<>> <=> store.paged = Len(store.taken)
  <2>1. \A s \in Seq(Bodies) : \A n \in 0 .. Len(s) :
          /\ SubSeq(s, n + 1, Len(s)) \in Seq(Bodies)
          /\ Len(SubSeq(s, n + 1, Len(s))) = Len(s) - n
          /\ Len(s) - n = 0 <=> n = Len(s)
    BY SMTT(60)
  <2>2. \A s \in Seq(Bodies) : s = <<>> <=> Len(s) = 0
    BY SMTT(60)
  <2>3. /\ Page(store) \in Seq(Bodies) /\ Len(Page(store)) = Len(store.taken) - store.paged
        /\ Len(store.taken) - store.paged = 0 <=> store.paged = Len(store.taken)
    BY <1>3, <2>1 DEF Page
  <2> QED
    BY <2>2, <2>3
<1>7. /\ Len(store.taken) \in Nat /\ store.paged \in Nat
      /\ store.paged <= Len(store.taken)
  BY <1>3, SMTT(60)
<1>8. Len(RecordsOf(store.objects)) \in Nat /\ Len(FlattenSeq(store.pack)) \in Nat
  BY <1>1, <1>2, LenProperties
<1> QED
  BY <1>1, <1>2, <1>3, <1>4, <1>5, <1>6, <1>7, <1>8

\* With nothing in the pack and in the page, the chain has what was taken.
LEMMA AllInChain ==
  ASSUME Stored, store.paged = Len(store.taken), store.pack = <<>>
  PROVE  RecordsOf(store.objects) = store.taken
<1>1. /\ store.taken \in Seq(Bodies)
      /\ SubSeq(store.taken, 1, store.paged) = RecordsOf(store.objects) \o FlattenSeq(<<>>)
  BY DEF Stored
<1>2. FlattenSeq(<<>>) = <<>>
  BY FlattenIs, EmptySeq
<1>3. RecordsOf(store.objects) \in Seq(Bodies)
  BY StoreCounts
<1>4. RecordsOf(store.objects) \o <<>> = RecordsOf(store.objects)
  BY <1>3, SMTT(60)
<1>5. SubSeq(store.taken, 1, Len(store.taken)) = store.taken
  BY <1>1, SMTT(60)
<1> QED
  BY <1>1, <1>2, <1>4, <1>5

\* With all records in the chain, nothing is left to be paged or packed.
LEMMA NothingLeft ==
  ASSUME Stored, Len(RecordsOf(store.objects)) = Records
  PROVE  Len(store.taken) = Records /\ store.paged = Records /\ store.pack = <<>>
<1>1. /\ Len(store.taken) = Records /\ store.paged = Records
      /\ Len(FlattenSeq(store.pack)) = 0
  BY StoreCounts, PackedAssumption, SMTT(60)
<1>2. FlattenSeq(store.pack) = <<>>
  BY <1>1, StoreCounts, EmptySeq
<1> QED
  BY <1>1, <1>2 DEF Stored

\* The indexes are written once all records are in the chain.
LEMMA IndexesLast ==
  ASSUME Stored, Len(store.taken) < Records \/ store.paged < Len(store.taken)
                 \/ store.pack # <<>>
  PROVE  Lacks("event_index") /\ Lacks("lane_index") /\ Lacks("manifest")
         /\ ~FinalCheckpoint(store.objects)
<1>1. Len(RecordsOf(store.objects)) # Records
  <2> SUFFICES ASSUME Len(RecordsOf(store.objects)) = Records PROVE FALSE
    OBVIOUS
  <2>1. Len(store.taken) = Records /\ store.paged = Records /\ store.pack = <<>>
    BY NothingLeft
  <2> QED
    BY <2>1, PackedAssumption, SMTT(60)
<1>2. Lacks("event_index") /\ Lacks("lane_index") /\ Lacks("manifest")
  BY <1>1 DEF Stored, Chain, Lacks
<1> QED
  BY <1>2 DEF FinalCheckpoint, Has, Lacks

\* No call is running.
LEMMA IdleFacts ==
  ASSUME ChainInv, Idle
  PROVE  /\ Building /\ at = "start" /\ ~Doing("complete") /\ ~Doing("directory")
         /\ Stored /\ Resting /\ store.state = record.state
<1>1. Building
  <2>1. DestroyPlan # <<>>
    BY SMTT(60) DEF DestroyPlan
  <2> QED
    BY <2>1 DEF Building, Working, Idle
<1> QED
  BY <1>1 DEF ChainInv, Located, Placed, Doing, Idle

\* append: the record is pushed, after the page when it does not fit there.
LEMMA AppendKeeps ==
  ASSUME ChainInv, NEW b \in Bodies, AppendRecord(b)
  PROVE  ChainInv'
<1>1. /\ store.state = Open /\ Len(store.taken) < Records
      /\ arg' = b /\ plan' = AppendPlan(store, b) /\ at' = "start"
      /\ UNCHANGED <<record, dir, store, frames, acked, begun, refused>>
  BY DEF AppendRecord, Start
<1>2. /\ Building /\ at = "start" /\ ~Doing("complete") /\ ~Doing("directory")
      /\ Stored /\ Resting /\ store.state = record.state
  BY IdleFacts DEF AppendRecord
<1>3. Taking /\ CanPush'
  BY <1>1, <1>2, IndexesLast DEF Taking, CanPush, Resting
<1>4. Taking' /\ Stored'
  BY <1>1, <1>2, <1>3 DEF Taking, Stored, Lacks
<1>5. /\ <<>> \o <<"push">> = <<"push">>
      /\ LET p == <<"page">> \o <<"push">> IN
         p # <<>> /\ Head(p) = "page" /\ Tail(p) = <<"push">>
  <2>1. "page" \in WorkSteps /\ <<"push">> \in Seq(WorkSteps)
    BY PlanJoins DEF WorkSteps
  <2> QED
    BY <2>1, PlanCons
<1>6. Placed'
  <2>1. CASE Exceeds(store, b)
    <3>1. plan' = <<"page">> \o <<"push">>
      BY <1>1, <2>1 DEF AppendPlan
    <3>2. plan' # <<>> /\ Head(plan') = "page" /\ Tail(plan') = <<"push">>
      BY <1>5, <3>1
    <3>3. store.paged < Len(store.taken)
      <4>1. Page(store) # <<>>
        BY <2>1 DEF Exceeds
      <4>2. /\ store.paged # Len(store.taken) /\ store.paged <= Len(store.taken)
            /\ Len(store.taken) \in Nat /\ store.paged \in Nat
        BY <1>2, <4>1, StoreCounts
      <4> QED
        BY <4>2, SMTT(60)
    <3>4. Flushing(Tail(plan))'
      <4>1. LastPlan # <<"push">>
        BY PlanTails
      <4> QED
        BY <1>1, <1>3, <3>2, <3>3, <4>1 DEF Flushing, AfterPage
    <3> QED
      BY <1>1, <1>2, <1>4, <3>2, <3>4 DEF Placed, Due, Doing
  <2>2. CASE ~Exceeds(store, b)
    <3>1. plan' = <<"push">>
      BY <1>1, <1>5, <2>2 DEF AppendPlan
    <3>2. plan' # <<>> /\ Head(plan') = "push"
      BY <3>1, PlanTails
    <3> QED
      BY <1>1, <1>2, <1>3, <1>4, <3>1, <3>2 DEF Placed, Due, Doing
  <2> QED
    BY <2>1, <2>2
<1> QED
  BY <1>1, <1>2, <1>4, <1>6, MemoryStep

\* finish_acquisition: what a dead process left is taken up where it ended.
LEMMA FinishKeeps ==
  ASSUME ChainInv, FinishAcquisition
  PROVE  ChainInv'
<1>1. /\ store.state = Open /\ Len(store.taken) = Records
      /\ plan' = FinishPlan(store) /\ at' = "start"
      /\ UNCHANGED <<record, dir, store, arg, frames, acked, begun, refused>>
  BY DEF FinishAcquisition, Start
<1>2. /\ Building /\ at = "start" /\ ~Doing("complete") /\ ~Doing("directory")
      /\ Stored /\ Resting /\ store.state = record.state
  BY IdleFacts DEF FinishAcquisition
<1>3. Stored' /\ \A kind : Lacks(kind)' = Lacks(kind)
  BY <1>1, <1>2 DEF Stored, Lacks
<1>4. ASSUME ~Lacks("event_index") PROVE Whole /\ Page(store) = <<>>
  <2>1. Len(RecordsOf(store.objects)) = Records
    BY <1>2, <1>4 DEF Stored, Chain, Lacks
  <2>2. Len(store.taken) = Records /\ store.paged = Records /\ store.pack = <<>>
    BY <1>2, <2>1, NothingLeft
  <2> QED
    BY <1>1, <1>2, <2>2, StoreCounts DEF Whole, Resting
<1>5. /\ ~Lacks("lane_index") => ~Lacks("event_index")
      /\ ~Lacks("manifest") => ~Lacks("lane_index")
      /\ FinalCheckpoint(store.objects) => ~Lacks("manifest")
  BY <1>2 DEF Stored, Chain, Lacks, FinalCheckpoint, Has
<1>6. /\ store.manifest = None <=> Lacks("manifest")
      /\ store.final <=> FinalCheckpoint(store.objects)
      /\ store.objects # <<>>
  BY <1>1, <1>2 DEF Resting
<1>7. ASSUME plan' # <<>>, Due(Head(plan))', Head(plan') # "directory" PROVE Placed'
  BY <1>1, <1>2, <1>7 DEF Placed, Doing
<1>8. Whole => Whole'
  BY <1>1 DEF Whole
<1>9. CASE ~Lacks("manifest")
  <2>1. Whole'
    BY <1>4, <1>5, <1>8, <1>9
  <2>2. CASE store.final
    <3>1. plan' = CommitPlan
      <4>1. <<>> \o <<"commit">> = <<"commit">>
        BY SMTT(60)
      <4> QED
        BY <1>1, <1>6, <1>9, <2>2, <4>1 DEF FinishPlan, CommitPlan
    <3>2. FinalCheckpoint(store.objects)'
      BY <1>1, <1>6, <2>2
    <3>3. plan' # <<>> /\ Head(plan') = "commit"
      BY <3>1, PlanTails
    <3>4. Due("commit")'
      BY <2>1, <3>1, <3>2 DEF Due
    <3> QED
      BY <1>1, <1>2, <1>3, <1>7, <3>3, <3>4, MemoryStep
  <2>3. CASE ~store.final
    <3>1. plan' = CheckPlan
      <4>1. <<"checkpoint">> \o <<"commit">> = CheckPlan
        BY PlanJoins DEF CommitPlan
      <4> QED
        BY <1>1, <1>6, <1>9, <2>3, <4>1 DEF FinishPlan
    <3>2. ~FinalCheckpoint(store.objects)'
      BY <1>1, <1>6, <2>3
    <3>3. plan' # <<>> /\ Head(plan') = "checkpoint"
      BY <3>1, PlanTails
    <3>4. Due("checkpoint")'
      BY <1>3, <1>9, <2>1, <3>1, <3>2 DEF Due
    <3> QED
      BY <1>1, <1>2, <1>3, <1>7, <3>3, <3>4, MemoryStep
  <2> QED
    BY <2>2, <2>3
<1>10. CASE Lacks("manifest")
  <2> DEFINE e == IF Has(store.objects, "event_index") THEN <<>> ELSE <<"event_index">>
             l == IF Has(store.objects, "lane_index") THEN <<>> ELSE <<"lane_index">>
             g == IF Page(store) # <<>> THEN <<"page">> ELSE <<>>
             r == IF Page(store) # <<>> \/ store.pack # <<>> THEN <<"records">> ELSE <<>>
  <2>1. plan' = g \o r \o e \o l \o ManifestPlan
    BY <1>1, <1>6, <1>10 DEF FinishPlan, ManifestPlan
  <2>0. /\ <<>> \o <<>> = <<>> /\ <<>> \o <<"lane_index">> = <<"lane_index">>
        /\ <<>> \o <<"event_index">> = <<"event_index">>
        /\ <<>> \o <<"records">> = <<"records">> /\ <<>> \o ManifestPlan = ManifestPlan
    <3>1. \A s \in Seq(WorkSteps) : <<>> \o s = s
      BY SMTT(60)
    <3>2. <<"event_index">> \in Seq(WorkSteps) /\ <<"lane_index">> \in Seq(WorkSteps)
      BY SMTT(60) DEF WorkSteps, PackSteps
    <3> QED
      BY <3>1, <3>2, PlanJoins
  <2>2. CASE ~Lacks("event_index")
    <3>1. Whole' /\ g = <<>> /\ r = <<>> /\ e = <<>>
      BY <1>4, <1>8, <2>2 DEF Whole, Lacks
    <3>2. CASE Lacks("lane_index")
      <4>1. l = <<"lane_index">>
        BY <3>2 DEF Lacks
      <4>2. <<>> \o <<>> \o <<>> \o <<"lane_index">> \o ManifestPlan = LanePlan
        BY <2>0, PlanJoins
      <4>3. plan' = LanePlan /\ plan' # <<>> /\ Head(plan') = "lane_index"
        BY <2>1, <3>1, <4>1, <4>2, PlanTails
      <4>4. Due("lane_index")'
        BY <1>3, <2>2, <3>1, <3>2, <4>3 DEF Due
      <4> QED
        BY <1>1, <1>2, <1>3, <1>7, <4>3, <4>4, MemoryStep
    <3>3. CASE ~Lacks("lane_index")
      <4>1. l = <<>>
        BY <3>3 DEF Lacks
      <4>2. <<>> \o <<>> \o <<>> \o <<>> \o ManifestPlan = ManifestPlan
        BY <2>0, PlanJoins
      <4>3. plan' = ManifestPlan /\ plan' # <<>> /\ Head(plan') = "manifest"
        BY <2>1, <3>1, <4>1, <4>2, PlanTails
      <4>4. Due("manifest")'
        BY <1>3, <1>10, <3>1, <3>3, <4>3 DEF Due
      <4> QED
        BY <1>1, <1>2, <1>3, <1>7, <4>3, <4>4, MemoryStep
    <3> QED
      BY <3>2, <3>3
  <2>3. CASE Lacks("event_index")
    <3>1. e = <<"event_index">> /\ l = <<"lane_index">>
      BY <1>5, <2>3 DEF Lacks
    <3>2. Taking'
      BY <1>1, <1>3, <1>5, <1>6, <1>10, <2>3 DEF Taking
    <3>3. CASE Page(store) # <<>>
      <4>1. <<"page">> \o <<"records">> \o <<"event_index">> \o <<"lane_index">> \o ManifestPlan
              = <<"page">> \o LastPlan
        BY PlanJoins
      <4>2. g = <<"page">> /\ r = <<"records">>
        BY <3>3
      <4>3. plan' = <<"page">> \o LastPlan
        BY <2>1, <3>1, <4>1, <4>2
      <4>4. /\ <<"page">> \o LastPlan # <<>> /\ Head(<<"page">> \o LastPlan) = "page"
            /\ Tail(<<"page">> \o LastPlan) = LastPlan
        <5>1. "page" \in WorkSteps /\ LastPlan \in Seq(WorkSteps)
          BY PlanJoins DEF WorkSteps
        <5> QED
          BY <5>1, PlanCons
      <4>5. store.paged < Len(store.taken)
        <5>1. /\ store.paged # Len(store.taken) /\ store.paged <= Len(store.taken)
              /\ Len(store.taken) \in Nat /\ store.paged \in Nat
          BY <1>2, <3>3, StoreCounts
        <5> QED
          BY <5>1, SMTT(60)
      <4>6. LastPlan # <<"push">>
        BY PlanTails
      <4>7. Flushing(Tail(plan))'
        BY <1>1, <4>3, <4>4, <4>5, <4>6 DEF Flushing, AfterPage
      <4>8. Due("page")'
        BY <3>2, <4>7 DEF Due
      <4> QED
        BY <1>1, <1>2, <1>3, <1>7, <4>3, <4>4, <4>8, MemoryStep
    <3>4. CASE Page(store) = <<>>
      <4>1. store.paged = Len(store.taken) /\ g = <<>>
        BY <1>2, <3>4, StoreCounts
      <4>2. CASE store.pack # <<>>
        <5>1. <<>> \o <<"records">> \o <<"event_index">> \o <<"lane_index">> \o ManifestPlan
                = LastPlan
          BY <2>0, PlanJoins
        <5>2. r = <<"records">>
          BY <4>2
        <5>3. plan' = LastPlan
          BY <2>1, <3>1, <4>1, <5>1, <5>2
        <5>4. plan' # <<>> /\ Head(plan') = "records" /\ Tail(plan') = IndexPlan
          BY <5>3, PlanTails
        <5>5. Due("records")'
          BY <1>1, <3>2, <4>1, <4>2, <5>4 DEF Due
        <5> QED
          BY <1>1, <1>2, <1>3, <1>7, <5>4, <5>5, MemoryStep
      <4>3. CASE store.pack = <<>>
        <5>1. <<>> \o <<>> \o <<"event_index">> \o <<"lane_index">> \o ManifestPlan
                = IndexPlan
          BY <2>0, PlanJoins
        <5>2. r = <<>>
          BY <3>4, <4>3
        <5>3. plan' = IndexPlan
          BY <2>1, <3>1, <4>1, <5>1, <5>2
        <5>4. plan' # <<>> /\ Head(plan') = "event_index"
          BY <5>3, PlanTails
        <5>5. Whole'
          BY <1>1, <1>6, <4>1, <4>3 DEF Whole
        <5>6. Due("event_index")'
          BY <1>3, <2>3, <5>3, <5>5 DEF Due
        <5> QED
          BY <1>1, <1>2, <1>3, <1>7, <5>4, <5>6, MemoryStep
      <4> QED
        BY <4>2, <4>3
    <3> QED
      BY <3>3, <3>4
  <2> QED
    BY <2>2, <2>3
<1> QED
  BY <1>9, <1>10

-----------------------------------------------------------------------------
(***************************************************************************)
(* The steps in memory, and destroy                                        *)
(***************************************************************************)

\* The plans that may follow the flush of a page differ from one another.
LEMMA PlansDiffer ==
  /\ LastPlan # <<"push">> /\ DuePlan # <<"push">> /\ DuePlan # LastPlan
  /\ LastPlan # <<>> /\ DuePlan # <<>> /\ <<"push">> # <<>>
<1>1. IndexPlan # <<"checkpoint">>
  BY PlanTails
<1>2. DuePlan # LastPlan
  BY <1>1, PlanTails
<1> QED
  BY <1>2, PlanTails

\* The states of the record are told apart.
LEMMA StatesDiffer ==
  /\ Open # DataCommitted /\ Open # Sealed /\ Open # Published /\ DataCommitted # Sealed
  /\ DataCommitted # Published /\ Sealed # Published /\ Empty # Open
  BY SMTT(60) DEF Empty, Open, DataCommitted, Sealed, Published

\* A sequence is what comes before a place and what comes after it.
LEMMA SplitAt ==
  ASSUME NEW S, NEW s \in Seq(S), NEW n \in 0 .. Len(s)
  PROVE  s = SubSeq(s, 1, n) \o SubSeq(s, n + 1, Len(s))
<1>1. 1 \in 1 .. Len(s) + 1 /\ n \in 1 - 1 .. Len(s) /\ Len(s) \in n .. Len(s)
  BY SMTT(60)
<1>2. SubSeq(s, 1, n) \o SubSeq(s, n + 1, Len(s)) = SubSeq(s, 1, Len(s))
  BY <1>1, ConcatAdjacentSubSeq
<1> QED
  BY <1>2, SubSeqFull

\* A call in memory finds the store, the record and the disk as the last step
\* left them.
LEMMA DoingFacts ==
  ASSUME IInv, ChainInv, NEW step, Doing(step), step # "unkey", step # "erase"
  PROVE  /\ Building /\ Stored /\ Located /\ Ledger /\ Due(step)
         /\ step # "directory" => store.state = record.state
         /\ step \notin PackSteps => at = "start"
         /\ plan \in Seq(WorkSteps) /\ Tail(plan) \in Seq(WorkSteps)
<1>1. plan # <<>> /\ Head(plan) = step
  BY DEF Doing
<1>2. Building
  BY <1>1, DoingIsBuilding
<1>3. Stored /\ Located /\ Placed /\ Ledger
  BY <1>2 DEF ChainInv, Building
<1>4. Due(step) /\ (step # "directory" => store.state = record.state)
  BY <1>1, <1>3 DEF Placed, Doing
<1>5. step \notin PackSteps => at = "start"
  BY <1>1, <1>3 DEF Located
<1>6. plan \in Seq(WorkSteps) /\ Tail(plan) \in Seq(WorkSteps)
  BY <1>1, RestOfPlan DEF IInv
<1> QED
  BY <1>2, <1>3, <1>4, <1>5, <1>6

\* seal_and_publish starts with the aliases.
LEMMA PublishKeeps ==
  ASSUME ChainInv, NEW b \in Bodies, SealAndPublish(b)
  PROVE  ChainInv'
<1>1. /\ store.state = DataCommitted /\ arg' = b /\ plan' = PublishPlan /\ at' = "start"
      /\ UNCHANGED <<record, dir, store, frames, acked, begun, refused>>
  BY DEF SealAndPublish, Start
<1>2. /\ Building /\ at = "start" /\ ~Doing("complete") /\ ~Doing("directory")
      /\ Stored /\ Resting /\ store.state = record.state
  BY IdleFacts DEF SealAndPublish
<1>3. Stored' /\ Lacks("aliases")'
  BY <1>1, <1>2 DEF Stored, Lacks, Resting
<1>4. plan' # <<>> /\ Head(plan') = "aliases"
  BY <1>1, PublishTails
<1>5. Due("aliases")'
  BY <1>1, <1>3 DEF Due
<1>6. Placed'
  BY <1>1, <1>2, <1>4, <1>5 DEF Placed, Doing
<1> QED
  BY <1>1, <1>2, <1>3, <1>6, MemoryStep

\* A pushed record is the last of the page.
LEMMA PushKeeps ==
  ASSUME IInv, ChainInv, Push
  PROVE  ChainInv'
<1>1. /\ Doing("push") /\ store' = [store EXCEPT !.taken = Append(@, arg)]
      /\ plan' = PushPlan(store') /\ at' = "start"
      /\ UNCHANGED <<record, dir, arg, frames, acked, begun, refused>>
  BY DEF Push, Start
<1>2. /\ Building /\ Stored /\ Due("push") /\ store.state = record.state
  <2>1. /\ Doing("push") /\ "push" # "unkey" /\ "push" # "erase"
        /\ "push" # "directory"
    BY <1>1
  <2> QED
    BY <2>1, DoingFacts DEF Doing
<1>3. at = "start"
  <2>1. Doing("push") /\ "push" \notin PackSteps
    BY <1>1 DEF PackSteps
  <2> QED
    BY <2>1, DoingFacts
<1>4. Taking /\ arg \in Bodies /\ Len(store.taken) < Records
  BY <1>2 DEF Due, CanPush
<1>5. ~Doing("complete") /\ ~Doing("directory")
  BY <1>1 DEF Doing
<1>6. /\ DOMAIN store' = StoreFields /\ store'.taken = Append(store.taken, arg)
      /\ \A x \in StoreFields \ {"taken"} : store'[x] = store[x]
  BY <1>1, <1>2 DEF Stored, StoreFields
<1>7. /\ store'.paged = store.paged /\ store'.pack = store.pack
      /\ store'.objects = store.objects /\ store'.state = store.state
      /\ store'.manifest = store.manifest /\ store'.final = store.final
  BY <1>6 DEF StoreFields
<1>8. /\ Append(store.taken, arg) \in Seq(Bodies)
      /\ Len(Append(store.taken, arg)) <= Records
      /\ store.paged \in 0 .. Len(Append(store.taken, arg))
      /\ store.paged < Len(Append(store.taken, arg))
      /\ SubSeq(Append(store.taken, arg), 1, store.paged) =
           SubSeq(store.taken, 1, store.paged)
  <2>1. store.taken \in Seq(Bodies) /\ store.paged \in 0 .. Len(store.taken)
    BY <1>2 DEF Stored
  <2> QED
    BY <1>4, <2>1, PackedAssumption, SMTT(60)
<1>9. Stored'
  BY <1>2, <1>6, <1>7, <1>8 DEF Stored
<1>10. Taking'
  BY <1>4, <1>7 DEF Taking, Lacks
<1>11. CASE plan' = <<>>
  <2>1. Lacks("manifest") /\ ~FinalCheckpoint(store.objects)
    BY <1>2, <1>4, IndexesLast
  <2>2. Resting'
    BY <1>4, <1>7, <2>1, StatesDiffer DEF Resting, Taking, Lacks
  <2>3. Placed'
    BY <1>1, <1>2, <1>7, <1>11, <2>2 DEF Placed, Doing
  <2> QED
    BY <1>1, <1>2, <1>3, <1>5, <1>7, <1>9, <2>3, MemoryStep
<1>12. ASSUME plan' # <<>>, Head(plan') = "page", Tail(plan') \in {<<>>, DuePlan}
       PROVE  ChainInv'
  <2>1. Flushing(Tail(plan))'
    BY <1>6, <1>7, <1>8, <1>12, PlansDiffer DEF Flushing, AfterPage
  <2>2. Due("page")'
    BY <1>10, <2>1 DEF Due
  <2>3. Placed'
    BY <1>1, <1>2, <1>7, <1>12, <2>2 DEF Placed, Doing
  <2> QED
    BY <1>1, <1>2, <1>3, <1>5, <1>7, <1>9, <2>3, MemoryStep
<1>13. /\ <<>> \o <<>> = <<>>
       /\ \A s \in {<<>>, DuePlan} :
            <<"page">> \o s # <<>> /\ Head(<<"page">> \o s) = "page" /\ Tail(<<"page">> \o s) = s
  <2>1. {<<>>, DuePlan} \subseteq Seq(WorkSteps) /\ "page" \in WorkSteps
    BY PlanJoins DEF WorkSteps
  <2>2. <<>> \o <<>> = <<>>
    BY SMTT(60)
  <2> QED
    BY <2>1, <2>2, PlanCons
<1>14. CASE CheckpointDue(store')
  <2>1. plan' = <<"page">> \o DuePlan
    BY <1>1, <1>14 DEF PushPlan, DuePlan
  <2> QED
    BY <1>12, <1>13, <2>1
<1>15. CASE ~CheckpointDue(store') /\ Full(Page(store'))
  <2>1. plan' = <<"page">> \o <<>>
    BY <1>1, <1>15 DEF PushPlan
  <2> QED
    BY <1>12, <1>13, <2>1
<1>16. CASE ~CheckpointDue(store') /\ ~Full(Page(store'))
  <2>1. plan' = <<>>
    BY <1>1, <1>13, <1>16 DEF PushPlan
  <2> QED
    BY <1>11, <2>1
<1> QED
  BY <1>14, <1>15, <1>16

\* flush_page puts the page in the pack, or first has the pack written.
LEMMA FlushKeeps ==
  ASSUME IInv, ChainInv, FlushPage
  PROVE  ChainInv'
<1>1. /\ Doing("page") /\ at' = "start"
      /\ UNCHANGED <<record, dir, arg, frames, acked, begun, refused>>
  BY DEF FlushPage, Done
<1>2. /\ Building /\ Stored /\ Due("page") /\ store.state = record.state
      /\ plan \in Seq(WorkSteps) /\ plan # <<>> /\ Head(plan) = "page"
  BY <1>1, DoingFacts DEF Doing
<1>3. at = "start"
  <2>1. Doing("page") /\ "page" \notin PackSteps
    BY <1>1 DEF PackSteps
  <2> QED
    BY <2>1, DoingFacts
<1>4. Taking /\ Flushing(Tail(plan))
  BY <1>2 DEF Due
<1>5. ~Doing("complete") /\ ~Doing("directory")
  BY <1>1 DEF Doing
<1>6. CASE Overflows(store.pack, Page(store))
  <2>1. plan' = <<"records">> \o plan /\ store' = store /\ store.pack # <<>>
    BY <1>6 DEF FlushPage, Overflows
  <2>2. plan' # <<>> /\ Head(plan') = "records" /\ Tail(plan') = plan
    <3>1. "records" \in WorkSteps
      BY DEF WorkSteps, PackSteps
    <3>2. LET p == <<"records">> \o plan IN
          p # <<>> /\ Head(p) = "records" /\ Tail(p) = plan
      BY <1>2, <3>1, PlanCons
    <3> QED
      BY <2>1, <3>2
  <2>3. Stored' /\ Taking'
    BY <1>2, <1>4, <2>1 DEF Stored, Taking, Lacks
  <2>4. Flushing(Tail(Tail(plan)))'
    BY <1>1, <1>4, <2>1, <2>2 DEF Flushing, CanPush
  <2>5. Due("records")'
    BY <1>2, <2>1, <2>2, <2>3, <2>4 DEF Due
  <2>6. Placed'
    BY <1>1, <1>2, <2>1, <2>2, <2>5 DEF Placed, Doing
  <2> QED
    BY <1>1, <1>2, <1>3, <1>5, <2>1, <2>3, <2>6, MemoryStep
<1>7. CASE ~Overflows(store.pack, Page(store))
  <2> DEFINE page == Page(store)
  <2>1. /\ store' = [store EXCEPT !.pack = Append(@, page), !.paged = Len(store.taken)]
        /\ plan' = Tail(plan)
    BY <1>7 DEF FlushPage, Done
  <2>2. /\ DOMAIN store' = StoreFields /\ store'.pack = Append(store.pack, page)
        /\ store'.paged = Len(store.taken) /\ store'.taken = store.taken
        /\ store'.objects = store.objects /\ store'.state = store.state
        /\ store'.manifest = store.manifest /\ store'.final = store.final
    BY <1>2, <2>1 DEF Stored, StoreFields
  <2>3. /\ page \in Seq(Bodies) /\ page # <<>> /\ FlattenSeq(store.pack) \in Seq(Bodies)
        /\ store.pack \in Seq(Seq(Bodies)) /\ Len(store.taken) \in Nat
        /\ RecordsOf(store.objects) \in Seq(Bodies) /\ store.taken \in Seq(Bodies)
        /\ store.paged \in 0 .. Len(store.taken)
    <3>1. store.paged # Len(store.taken)
      <4>1. store.paged < Len(store.taken) /\ store.paged \in Nat /\ Len(store.taken) \in Nat
        BY <1>2, <1>4, StoreCounts DEF Flushing
      <4> QED
        BY <4>1, SMTT(60)
    <3> QED
      BY <1>2, <3>1, StoreCounts DEF Stored
  <2>4. FlattenSeq(Append(store.pack, page)) = FlattenSeq(store.pack) \o page
    BY <2>3, FlattenAppend
  <2> HIDE DEF page
  <2>5. store.taken = SubSeq(store.taken, 1, store.paged) \o page
    BY <2>3, SplitAt DEF page, Page
  <2>6. store.taken = (RecordsOf(store.objects) \o FlattenSeq(store.pack)) \o page
    BY <1>2, <2>5 DEF Stored
  <2>7. (RecordsOf(store.objects) \o FlattenSeq(store.pack)) \o page =
          RecordsOf(store.objects) \o (FlattenSeq(store.pack) \o page)
    BY <2>3, SMTT(60)
  <2>8. SubSeq(store.taken, 1, Len(store.taken)) = store.taken
        /\ Len(store.taken) \in 0 .. Len(store.taken)
    BY <2>3, SMTT(60)
  <2>9. /\ Append(store.pack, page) \in Seq(Seq(Bodies)) /\ Append(store.pack, page) # <<>>
        /\ FlattenSeq(store.pack) \o page # <<>>
    BY <2>3, SMTT(60)
  <2>10. Stored'
    BY <1>2, <2>2, <2>4, <2>6, <2>7, <2>8, <2>9 DEF Stored
  <2>11. Taking'
    BY <1>4, <2>2 DEF Taking, Lacks
  <2> DEFINE rest == Tail(plan)
  <2>12. rest \in AfterPage /\ (rest = <<"push">> => CanPush)
         /\ (rest = LastPlan => Len(store.taken) = Records)
    BY <1>4 DEF Flushing
  <2>13. Placed'
    <3>1. CASE rest = <<>>
      <4>1. Lacks("manifest") /\ ~FinalCheckpoint(store.objects)
        BY <1>2, <1>4, IndexesLast DEF Flushing
      <4>2. Resting'
        BY <1>4, <2>2, <4>1, StatesDiffer DEF Resting, Taking, Lacks
      <4> QED
        BY <1>1, <1>2, <2>1, <2>2, <3>1, <4>2 DEF Placed, Doing
    <3>2. CASE rest = <<"push">>
      <4>1. CanPush'
        BY <1>1, <2>2, <2>12, <3>2 DEF CanPush
      <4>2. Due("push")'
        BY <2>1, <2>11, <3>2, <4>1 DEF Due
      <4> QED
        BY <1>1, <1>2, <2>1, <2>2, <3>2, <4>2, PlanTails DEF Placed, Doing
    <3>3. CASE rest = DuePlan
      <4>1. Due("records")'
        BY <2>1, <2>2, <2>9, <2>11, <3>3, PlanTails DEF Due
      <4> QED
        BY <1>1, <1>2, <2>1, <2>2, <3>3, <4>1, PlanTails DEF Placed, Doing
    <3>4. CASE rest = LastPlan
      <4>1. Due("records")'
        BY <2>1, <2>2, <2>9, <2>11, <2>12, <3>4, PlanTails DEF Due
      <4> QED
        BY <1>1, <1>2, <2>1, <2>2, <3>4, <4>1, PlanTails DEF Placed, Doing
    <3> QED
      BY <2>12, <3>1, <3>2, <3>3, <3>4 DEF AfterPage
  <2> QED
    BY <1>1, <1>2, <1>3, <1>5, <2>2, <2>10, <2>13, MemoryStep
<1> QED
  BY <1>6, <1>7

\* A call that is given up leaves record and disk to destroy.
LEMMA DestroyKeeps ==
  ASSUME ChainInv, IInv, DestroyAuthorityFirst \/ GiveUp
  PROVE  ChainInv'
<1>1. /\ plan' = DestroyPlan /\ at' = "start"
      /\ UNCHANGED <<record, dir, store, arg, frames, acked, begun, refused>>
  BY DEF DestroyAuthorityFirst, GiveUp, Start
<1>2. Working
  <2>1. CASE DestroyAuthorityFirst
    BY <2>1 DEF DestroyAuthorityFirst, Idle, Working
  <2>2. CASE GiveUp
    <3>1. <<"erase">> \notin Seq(WorkSteps)
      BY SMTT(60) DEF WorkSteps, PackSteps
    <3>2. plan \in Seq(WorkSteps) /\ plan # <<>>
      BY <2>2 DEF GiveUp, IInv, PlanInv, Destroying
    <3> QED
      BY <3>1, <3>2 DEF Working
  <2> QED
    BY <2>1, <2>2
<1>3. Ledger'
  BY <1>1, <1>2, LedgerKept DEF ChainInv
<1>4. Disk' /\ RefusedForOnePack'
  BY <1>1, DiskKept DEF ChainInv, RefusedForOnePack
<1>5. ~Building'
  BY <1>1 DEF Building
<1> QED
  BY <1>3, <1>4, <1>5 DEF ChainInv

-----------------------------------------------------------------------------
(***************************************************************************)
(* Writing a pack                                                          *)
(***************************************************************************)

\* The record's states are ordered as the result goes through them.
LEMMA StatesOrdered ==
  /\ ~(Open >= DataCommitted) /\ ~(Open >= Sealed) /\ ~(DataCommitted >= Sealed)
  /\ DataCommitted >= DataCommitted /\ Sealed >= Sealed /\ Sealed >= DataCommitted
  /\ Published >= Sealed /\ Published >= DataCommitted
  /\ {Open, DataCommitted, Sealed, Published} \subseteq Open .. Published
  /\ \A s \in Open .. Published : s \in {Open, DataCommitted, Sealed, Published}
  BY SMTT(60) DEF Open, DataCommitted, Sealed, Published

\* The packs on disk are the same, and so is the record.
LEMMA LedgerSame ==
  ASSUME Ledger, UNCHANGED <<record, acked, begun, Found>>, Soft' => record.pending,
         dir # None =>
           dir' # None /\ (dir.name = "published" => dir'.name = "published")
  PROVE  Ledger'
  BY DEF Ledger

\* What a step of write_pack finds.
LEMMA WriteFacts ==
  ASSUME IInv, ChainInv, NEW step, Writing(step)
  PROVE  /\ plan # <<>> /\ Head(plan) \in PackSteps /\ at = step
         /\ Building /\ Stored /\ Located /\ Ledger /\ Disk /\ Due(Head(plan))
         /\ store.state = record.state /\ ~Doing("directory") /\ ~Doing("complete")
         /\ dir \in Directories /\ dir # None /\ Filling
         /\ record.first \in Nat /\ record.high \in Nat
<1>1. plan # <<>> /\ Head(plan) \in PackSteps /\ at = step
  BY DEF Writing
<1>2. /\ Head(plan) # "unkey" /\ Head(plan) # "erase" /\ Head(plan) # "directory"
      /\ Head(plan) # "complete"
  BY <1>1 DEF PackSteps
<1>3. Building
  BY <1>1, <1>2, DoingIsBuilding
<1>4. Stored /\ Located /\ Placed /\ Ledger /\ Disk
  BY <1>3 DEF ChainInv, Building
<1>5. /\ Due(Head(plan)) /\ store.state = record.state
      /\ ~Doing("directory") /\ ~Doing("complete")
  BY <1>1, <1>2, <1>4 DEF Placed, Doing
<1>6. dir # None /\ dir \in Directories
  BY <1>4, <1>5 DEF Located, Disk
<1>7. Reservation /\ Filling
  BY <1>1, <1>2, DoingIsWorking
<1>8. record.first \in Nat /\ record.high \in Nat
  BY <1>7 DEF Reservation
<1> QED
  BY <1>1, <1>3, <1>4, <1>5, <1>6, <1>7, <1>8

\* The pack that is formed from the store.
LEMMA PackShape ==
  ASSUME Stored, Head(plan) \in PackSteps, Due(Head(plan))
  PROVE  /\ Pack \in Packs /\ Pack.kind = Head(plan)
         /\ Pack.kind = "records" =>
              Pack.ordinal = Len(PagesOf(store.objects)) /\ Pack.frames = store.pack
         /\ Pack.kind \notin {"records", "checkpoint"} => Pack.ordinal = 0
         /\ Pack.kind = "manifest" => Pack.frames[1] = store.taken
<1>1. /\ store.objects \in Seq(PackFiles) /\ store.taken \in Seq(Bodies)
      /\ store.pack \in Seq(Seq(Bodies))
  BY DEF Stored, Chain
<1>2. Len(PagesOf(store.objects)) \in Nat /\ Len(store.objects) \in Nat
  BY <1>1, RecordsType, LenProperties
<1>3. \A x \in Seq(Bodies) : <<x>> \in Seq(Seq(Bodies)) /\ <<x>>[1] = x
  BY SMTT(60)
<1>4. <<>> \in Seq(Bodies) /\ \A b \in Bodies : <<b>> \in Seq(Bodies)
  BY SMTT(60)
<1>5. 0 \in Nat
  BY SMTT(60)
<1>6. CASE Head(plan) = "records"
  <2>1. Pack = [kind |-> "records", ordinal |-> Len(PagesOf(store.objects)),
                frames |-> store.pack]
    BY <1>6 DEF Pack, PackOf
  <2> QED
    BY <1>1, <1>2, <1>6, <2>1 DEF Packs, PackSteps
<1>7. CASE Head(plan) = "checkpoint"
  <2>1. Pack = [kind |-> "checkpoint", ordinal |-> Len(store.objects),
                frames |-> <<store.taken>>]
    BY <1>7 DEF Pack, PackOf
  <2>2. <<store.taken>> \in Seq(Seq(Bodies))
    BY <1>1, SMTT(60)
  <2> QED
    BY <1>2, <1>7, <2>1, <2>2 DEF Packs, PackSteps
<1>8. CASE Head(plan) = "aliases"
  <2>1. Pack = [kind |-> "aliases", ordinal |-> 0, frames |-> << <<arg>> >>]
    BY <1>8 DEF Pack, PackOf
  <2>2. arg \in Bodies
    BY <1>8 DEF Due
  <2>3. << <<arg>> >> \in Seq(Seq(Bodies))
    BY <2>2, SMTT(60)
  <2> QED
    BY <1>5, <1>8, <2>1, <2>3 DEF Packs, PackSteps
<1>9. CASE Head(plan) = "descriptor"
  <2>1. Pack = [kind |-> "descriptor", ordinal |-> 0, frames |-> << <<>> >>]
    BY <1>9 DEF Pack, PackOf
  <2>2. << <<>> >> \in Seq(Seq(Bodies))
    BY SMTT(60)
  <2> QED
    BY <1>5, <1>9, <2>1, <2>2 DEF Packs, PackSteps
<1>10. CASE Head(plan) \in {"event_index", "lane_index", "manifest"}
  <2>1. Pack = [kind |-> Head(plan), ordinal |-> 0, frames |-> <<store.taken>>]
    BY <1>10 DEF Pack, PackOf
  <2>2. <<store.taken>> \in Seq(Seq(Bodies)) /\ <<store.taken>>[1] = store.taken
    BY <1>1, SMTT(60)
  <2> QED
    BY <1>5, <1>10, <2>1, <2>2 DEF Packs, PackSteps
<1> QED
  BY <1>6, <1>7, <1>8, <1>9, <1>10 DEF PackSteps

\* The pack that is about to be reserved for fits at the end of the chain, and
\* the record is not yet sealed.
LEMMA FitsNow ==
  ASSUME IInv, ChainInv, Writing("start")
  PROVE  Fits(store.objects, Pack) /\ record.state \in {Open, DataCommitted}
<1>1. /\ Head(plan) \in PackSteps /\ Stored /\ Located /\ Ledger /\ Due(Head(plan))
      /\ store.state = record.state /\ Found = store.objects
  BY WriteFacts DEF Located
<1>2. /\ Pack \in Packs /\ Pack.kind = Head(plan)
      /\ Pack.kind = "records" =>
           Pack.ordinal = Len(PagesOf(store.objects)) /\ Pack.frames = store.pack
      /\ Pack.kind \notin {"records", "checkpoint"} => Pack.ordinal = 0
      /\ Pack.kind = "manifest" => Pack.frames[1] = store.taken
  BY <1>1, PackShape
<1>3. store.state = Open => Lacks("aliases")
  BY <1>1, StatesOrdered DEF Ledger, Lacks
<1>4. Whole => /\ RecordsOf(store.objects) = store.taken
               /\ Len(RecordsOf(store.objects)) = Records
               /\ store.objects # <<>> /\ store.state = Open
  BY <1>1, AllInChain DEF Whole
<1> DEFINE kind == Head(plan)
<1>5. CASE kind = "descriptor"
  <2>1. store = [NewStore EXCEPT !.state = Open]
    BY <1>1, <1>5 DEF Due
  <2>2. store.objects = <<>> /\ store.state = Open
    BY <2>1 DEF NewStore
  <2> QED
    BY <1>1, <1>2, <1>3, <1>5, <2>2 DEF Fits, Lacks
<1>6. CASE kind = "records"
  <2>1. Taking /\ store.pack # <<>>
    BY <1>1, <1>6 DEF Due
  <2>2. FlattenSeq(store.pack) # <<>>
    BY <1>1, <2>1 DEF Stored
  <2>3. Len(RecordsOf(store.objects)) + Len(FlattenSeq(store.pack)) <= Records
    BY <1>1, StoreCounts, PackedAssumption, SMTT(60)
  <2> QED
    BY <1>1, <1>2, <1>3, <1>6, <2>1, <2>2, <2>3 DEF Fits, Lacks, Taking
<1>7. CASE kind = "event_index"
  <2>1. Whole /\ Lacks("event_index")
    BY <1>1, <1>7 DEF Due
  <2> QED
    BY <1>1, <1>2, <1>3, <1>4, <1>7, <2>1 DEF Fits, Lacks
<1>8. CASE kind = "lane_index"
  <2>1. Whole /\ ~Lacks("event_index") /\ Lacks("lane_index")
    BY <1>1, <1>8 DEF Due
  <2> QED
    BY <1>1, <1>2, <1>3, <1>4, <1>8, <2>1 DEF Fits, Lacks
<1>9. CASE kind = "manifest"
  <2>1. Whole /\ ~Lacks("lane_index") /\ Lacks("manifest")
    BY <1>1, <1>9 DEF Due
  <2> QED
    BY <1>1, <1>2, <1>3, <1>4, <1>9, <2>1 DEF Fits, Lacks
<1>10. CASE kind = "checkpoint"
  <2>1. store.state = Open /\ store.objects # <<>>
    BY <1>1, <1>10 DEF Due, Taking, Whole
  <2> QED
    BY <1>1, <1>2, <1>3, <1>10, <2>1 DEF Fits, Lacks
<1>11. CASE kind = "aliases"
  <2>1. store.state = DataCommitted /\ Lacks("aliases")
    BY <1>1, <1>11 DEF Due
  <2>2. FinalCheckpoint(store.objects)
    BY <1>1, <2>1, StatesOrdered DEF Ledger
  <2>3. store.objects # <<>>
    BY <2>2, EmptyChain
  <2> QED
    BY <1>1, <1>2, <1>11, <2>1, <2>2, <2>3 DEF Fits, Lacks
<1> QED
  BY <1>1, <1>5, <1>6, <1>7, <1>8, <1>9, <1>10, <1>11 DEF PackSteps

\* While the pack is written the call stays where it is.
LEMMA StillDue ==
  ASSUME plan # <<>>, Head(plan) \in PackSteps, Due(Head(plan)),
         store.state = record.state, ~Doing("directory"),
         UNCHANGED <<store, plan, arg>>, at' # "start", record'.state = record.state
  PROVE  Placed'
<1>1. /\ Head(plan) # "complete" /\ Head(plan) # "seal" /\ Head(plan) # "generation"
      /\ Head(plan) # "rename" /\ Head(plan) # "publish"
      /\ Head(plan) # "directory"
  BY DEF PackSteps
<1>2. Taking' = Taking /\ Whole' = Whole /\ CanPush' = CanPush
      /\ \A k : Lacks(k)' = Lacks(k)
  BY DEF Taking, Whole, CanPush, Lacks
<1>3. \A rest : Flushing(rest)' = Flushing(rest)
  BY <1>2 DEF Flushing
<1> DEFINE k == Head(plan)
<1>4. /\ k = "page" => (Taking /\ Flushing(Tail(plan)))'
      /\ k = "push" => (plan = <<"push">> /\ Taking /\ CanPush)'
      /\ k = "descriptor" =>
           (plan = <<"descriptor">> /\ store = [NewStore EXCEPT !.state = Open])'
  BY <1>2, <1>3 DEF Due, NewStore
<1>5. Due(Head(plan))'
  BY <1>1, <1>2, <1>3, <1>4 DEF Due
<1> QED
  BY <1>5 DEF Placed, Doing

\* The pack's nonces are those of its own pending reservation, or new ones.
LEMMA ReserveKeeps ==
  ASSUME IInv, ChainInv, ReserveNonces
  PROVE  ChainInv'
<1> DEFINE b == Binding(Pack, store.objects)
<1>1. /\ Writing("start") /\ (record.pending => record.last = b)
      /\ record' = Reserved(record, b) /\ at' = "temporary"
      /\ UNCHANGED <<dir, store, plan, arg, frames, acked, begun, refused>>
  BY DEF ReserveNonces
<1>2. /\ plan # <<>> /\ Head(plan) \in PackSteps /\ at = "start"
      /\ Stored /\ Located /\ Ledger /\ Disk /\ Due(Head(plan))
      /\ store.state = record.state /\ ~Doing("directory")
      /\ dir # None /\ Filling /\ Found = store.objects /\ ~Soft
  <2>1. /\ plan # <<>> /\ Head(plan) \in PackSteps /\ at = "start"
        /\ Stored /\ Located /\ Ledger /\ Disk /\ Due(Head(plan))
        /\ store.state = record.state /\ ~Doing("directory")
        /\ dir # None /\ Filling
    BY <1>1, WriteFacts
  <2> QED
    BY <2>1 DEF Located
<1>3. Fits(store.objects, Pack) /\ record.state \in {Open, DataCommitted}
  BY <1>1, FitsNow
<1>4. b # NoBinding /\ b.pack = Pack /\ b.prior = store.objects
  BY <1>2, BindingOfPack DEF Pack
<1>5. UNCHANGED <<Found, Soft, Pack>> /\ b' = b
  BY <1>1 DEF Found, Soft, Pack, PackOf, Binding
<1>6. Ledger' /\ record'.pending /\ record'.last = b /\ record'.state = record.state
  <2> HIDE DEF b
  <2>1. CASE record.last = b
    <3>1. record' = record
      BY <1>1, <2>1 DEF Reserved
    <3>2. record.pending
      <4>1. store.objects \in Seq(PackFiles)
        BY <1>2 DEF Stored, Chain
      <4>2. ~(Len(store.objects) < Len(store.objects))
        BY <4>1, SMTT(60)
      <4> QED
        BY <1>2, <1>4, <2>1, <4>2 DEF Ledger
    <3>3. Ledger'
      BY <1>1, <1>2, <3>1, LedgerKept
    <3> QED
      BY <2>1, <3>1, <3>2, <3>3
  <2>2. CASE record.last # b
    <3>1. record' = [record EXCEPT !.high = @ + Len(b.pack.frames) + 1, !.first = record.high,
                                   !.last = b, !.pending = TRUE]
      BY <1>1, <2>2 DEF Reserved
    <3>2. /\ DOMAIN record' = RecordFields /\ record'.pending = TRUE /\ record'.last = b
          /\ record'.state = record.state /\ record'.data = record.data
          /\ record'.chain = record.chain /\ record'.publisher = record.publisher
      BY <1>2, <3>1 DEF Ledger, RecordFields
    <3>3. b = Binding(b.pack, b.prior) /\ Pack \in Packs
      BY <1>3, <1>4 DEF b, Fits
    <3>4. ~(record.state >= Sealed) /\ record.state # Published
      BY <1>3, StatesOrdered, StatesDiffer
    <3>5. Ledger'
      <4>1. Chain(store.objects)
        BY <1>2 DEF Stored
      <4> QED
        BY <1>1, <1>2, <1>3, <1>4, <1>5, <3>2, <3>3, <3>4, <4>1 DEF Ledger
    <3> QED
      BY <3>2, <3>5
  <2> QED
    BY <2>1, <2>2
<1>7. Located'
  BY <1>1, <1>2, <1>5, <1>6 DEF Located
<1>8. Disk' /\ RefusedForOnePack' /\ Stored'
  BY <1>1, <1>2, DiskKept DEF ChainInv, RefusedForOnePack, Stored
<1>9. Placed'
  BY <1>1, <1>2, <1>6, StillDue
<1> QED
  BY <1>6, <1>7, <1>8, <1>9 DEF ChainInv

\* Another pack's reservation is pending: one for the same kind and ordinal, or
\* one of a checkpoint.
LEMMA RefuseKeeps ==
  ASSUME IInv, ChainInv, NoncesRefused
  PROVE  ChainInv'
<1> DEFINE held == record.last.pack
<1>1. /\ Writing("start") /\ record.pending
      /\ refused' = [wanted |-> Pack, held |-> held] /\ Drop
      /\ UNCHANGED <<record, dir, frames, acked, begun>>
  BY DEF NoncesRefused
<1>2. /\ Head(plan) \in PackSteps /\ at = "start" /\ Stored /\ Located /\ Ledger
      /\ Due(Head(plan)) /\ ~Doing("complete") /\ Chain(store.objects)
  BY <1>1, WriteFacts DEF Stored
<1>3. Fits(store.objects, Pack)
  BY <1>1, FitsNow
<1>4. Fits(store.objects, held)
  BY <1>1, <1>2 DEF Located, Ledger
<1> HIDE DEF held
<1>5. Pack.kind = Head(plan)
  BY <1>2, PackShape
<1>6. ASSUME held.kind # "checkpoint" PROVE Pack.kind # "checkpoint"
  <2> SUFFICES ASSUME Head(plan) = "checkpoint" PROVE FALSE
    BY <1>5
  <2>1. /\ Whole /\ ~Lacks("manifest") /\ ~FinalCheckpoint(store.objects)
    BY <1>1, <1>2 DEF Due
  <2>2. ~Lacks("lane_index") /\ ~Lacks("event_index")
    BY <1>2, <2>1 DEF Chain, Lacks
  <2>3. Len(RecordsOf(store.objects)) = Records /\ store.objects # <<>>
    BY <1>2, <2>1, AllInChain DEF Whole
  <2>4. held.kind # "records"
    BY <1>2, <1>4, <2>3, RoomLeft
  <2>5. held.kind \in PackSteps
    BY <1>4 DEF Fits, Packs
  <2> QED
    BY <1>4, <1>6, <2>1, <2>2, <2>3, <2>4, <2>5 DEF Fits, Lacks, PackSteps
<1>7. held.kind # "checkpoint" => held.kind = Pack.kind /\ held.ordinal = Pack.ordinal
  BY <1>2, <1>3, <1>4, <1>6, OneFits
<1>8. refused'.wanted = Pack /\ refused'.held = held
  BY <1>1
<1>9. RefusedForOnePack'
  BY <1>7, <1>8 DEF RefusedForOnePack
<1> QED
  BY <1>1, <1>9, DroppedStore

\* The pack is sealed into a temporary file.
LEMMA TemporaryKeeps ==
  ASSUME IInv, ChainInv, WriteTemporary
  PROVE  ChainInv'
<1>1. /\ Writing("temporary") /\ dir' = [dir EXCEPT !.temp = TRUE] /\ at' = "install"
      /\ UNCHANGED <<record, store, plan, arg, acked, begun, refused>>
      /\ frames' = frames \cup
           {[nonce |-> record.first + i, frame |-> i, pack |-> Pack,
             prior |-> store.objects] : i \in 0 .. Len(Pack.frames)}
  BY DEF WriteTemporary
<1>2. /\ plan # <<>> /\ Head(plan) \in PackSteps /\ at = "temporary"
      /\ Stored /\ Located /\ Ledger /\ Disk /\ Due(Head(plan))
      /\ store.state = record.state /\ ~Doing("directory")
      /\ dir # None /\ dir \in Directories /\ Filling
  BY <1>1, WriteFacts
<1>3. frames' # {}
  <2>1. Len(Pack.frames) \in Nat
    BY <1>2, PackIsFinite DEF Pack
  <2>2. 0 \in 0 .. Len(Pack.frames)
    BY <2>1, SMTT(60)
  <2> QED
    BY <1>1, <2>2
<1>4. /\ dir' \in Directories /\ dir'.packs = dir.packs /\ dir'.soft = dir.soft
      /\ dir'.name = dir.name /\ dir' # None
  BY <1>1, <1>2, AbsenceAssumption DEF Directories
<1>5. UNCHANGED <<Found, Soft, Pack>>
  BY <1>1, <1>2, <1>4 DEF Found, Soft, Pack, PackOf
<1>6. Ledger'
  BY <1>1, <1>2, <1>4, <1>5, LedgerSame DEF Ledger
<1>7. Disk' /\ RefusedForOnePack' /\ Stored'
  BY <1>1, <1>2, <1>3, <1>4, <1>5 DEF Disk, ChainInv, RefusedForOnePack, Stored
<1>8. Located'
  <2>1. Binding(Pack, store.objects)' = Binding(Pack, store.objects)
    BY <1>1, <1>5 DEF Binding
  <2> QED
    BY <1>1, <1>2, <1>4, <1>5, <2>1 DEF Located
<1>9. Placed'
  BY <1>1, <1>2, StillDue
<1> QED
  BY <1>6, <1>7, <1>8, <1>9 DEF ChainInv

\* The rename of the directory entry is made durable.
LEMMA SyncKeeps ==
  ASSUME IInv, ChainInv, SyncDirectory
  PROVE  ChainInv'
<1>1. /\ Writing("sync") /\ dir' = [dir EXCEPT !.soft = FALSE] /\ at' = "acknowledge"
      /\ UNCHANGED <<record, store, plan, arg, frames, acked, begun, refused>>
  BY DEF SyncDirectory
<1>2. /\ plan # <<>> /\ Head(plan) \in PackSteps /\ at = "sync"
      /\ Stored /\ Located /\ Ledger /\ Disk /\ Due(Head(plan))
      /\ store.state = record.state /\ ~Doing("directory")
      /\ dir # None /\ dir \in Directories
  BY <1>1, WriteFacts
<1>3. /\ dir' \in Directories /\ dir'.packs = dir.packs /\ dir'.soft = FALSE
      /\ dir'.name = dir.name /\ dir' # None
  BY <1>1, <1>2, AbsenceAssumption DEF Directories
<1>4. UNCHANGED <<Found, Pack>> /\ ~Soft'
  BY <1>1, <1>2, <1>3 DEF Found, Soft, Pack, PackOf
<1>5. Ledger'
  BY <1>1, <1>2, <1>3, <1>4, LedgerSame
<1>6. Disk' /\ RefusedForOnePack' /\ Stored'
  BY <1>1, <1>2, <1>3, <1>4 DEF Disk, ChainInv, RefusedForOnePack, Stored
<1>7. Located'
  <2>1. Binding(Pack, store.objects)' = Binding(Pack, store.objects)
    BY <1>1, <1>4 DEF Binding
  <2>2. Installed(Pack, record.first)' = Installed(Pack, record.first)
    BY <1>1, <1>4 DEF Installed
  <2> QED
    BY <1>1, <1>2, <1>3, <1>4, <2>1, <2>2 DEF Located
<1>8. Placed'
  BY <1>1, <1>2, StillDue
<1> QED
  BY <1>5, <1>6, <1>7, <1>8 DEF ChainInv

\* What is the beginning of a sequence is the beginning of a longer one.
LEMMA PrefixGrows ==
  ASSUME NEW S, NEW a \in Seq(S), NEW s \in Seq(S), NEW t \in Seq(S)
  PROVE  /\ IsPrefix(a, s) => IsPrefix(a, s \o t)
         /\ IsPrefix(s, s) /\ IsPrefix(<<>>, s)
<1>1. IsPrefix(s, s)
  BY SMTT(60) DEF IsPrefix
<1>2. IsPrefix(<<>>, s)
  BY SMTT(60) DEF IsPrefix
<1>3. ASSUME IsPrefix(a, s) PROVE IsPrefix(a, s \o t)
  <2>1. /\ Len(a) \in Nat /\ Len(s) \in Nat /\ Len(t) \in Nat /\ Len(a) <= Len(s)
        /\ a = SubSeq(s, 1, Len(a))
    BY <1>3, SMTT(60) DEF IsPrefix
  <2>2. Len(s \o t) = Len(s) + Len(t)
    BY SMTT(60)
  <2>3. Len(a) <= Len(s \o t)
    BY <2>1, <2>2, SMTT(60)
  <2>4. SubSeq(s \o t, 1, Len(a)) = SubSeq(s, 1, Len(a))
    <3>1. CASE Len(a) = 0
      <4>1. 1 \in Int /\ 0 \in Int /\ 0 < 1
        BY SMTT(60)
      <4> QED
        BY <3>1, <4>1, SubSeqEmpty
    <3>2. CASE Len(a) # 0
      <4>1. 1 \in 1 .. Len(s) /\ Len(a) \in 1 .. Len(s)
        BY <2>1, <3>2, SMTT(60)
      <4> QED
        BY <4>1, SubSeqOfConcat1
    <3> QED
      BY <3>1, <3>2
  <2> QED
    BY <2>1, <2>3, <2>4 DEF IsPrefix
<1> QED
  BY <1>1, <1>2, <1>3

\* The pack of the pending reservation is the last of a chain.
LEMMA PendingFits ==
  ASSUME IInv, ChainInv, NEW step, Writing(step), step # "start"
  PROVE  /\ record.pending /\ record.last = Binding(Pack, store.objects)
         /\ record.last # NoBinding
         /\ record.last.pack = Pack /\ record.last.prior = store.objects
         /\ Fits(store.objects, Pack) /\ Pack \in Packs /\ Pack.kind = Head(plan)
         /\ Installed(Pack, record.first) \in PackFiles
         /\ ~(record.state >= Sealed) /\ record.state # Published
         /\ (Head(plan) # "aliases" => ~(record.state >= DataCommitted))
         /\ (Head(plan) = "aliases" => record.state >= DataCommitted)
<1>1. /\ Head(plan) \in PackSteps /\ Stored /\ Located /\ Ledger /\ at # "start"
      /\ Due(Head(plan)) /\ store.state = record.state /\ record.first \in Nat
  BY WriteFacts
<1>2. record.pending /\ record.last = Binding(Pack, store.objects)
  BY <1>1 DEF Located
<1>3. record.last.pack = Pack /\ record.last.prior = store.objects
  <2>1. /\ Binding(Pack, store.objects).pack = Pack
        /\ Binding(Pack, store.objects).prior = store.objects
    BY DEF Binding
  <2> QED
    BY <1>2, <2>1
<1>4. Fits(store.objects, Pack) /\ ~(record.state >= Sealed) /\ record.last # NoBinding
  BY <1>1, <1>2, <1>3 DEF Ledger
<1>5. Pack \in Packs /\ Pack.kind = Head(plan)
  BY <1>1, PackShape
<1>6. Installed(Pack, record.first) \in PackFiles
  BY <1>1, <1>5, InstalledType
<1>7. record.state # Published
  BY <1>4, StatesOrdered
<1>8. Head(plan) = "aliases" => record.state >= DataCommitted
  BY <1>1, StatesOrdered DEF Due
<1>9. ASSUME Head(plan) # "aliases" PROVE record.state = Open
  <2>1. Head(plan) = "descriptor" => store.state = Open
    BY <1>1 DEF Due, NewStore
  <2> QED
    BY <1>1, <1>9, <2>1 DEF Due, PackSteps, Taking, Whole
<1> QED
  BY <1>2, <1>3, <1>4, <1>5, <1>6, <1>7, <1>8, <1>9, StatesOrdered

\* The pack gets its name; it is the last of the chain.
LEMMA InstallKeeps ==
  ASSUME IInv, ChainInv, InstallPack
  PROVE  ChainInv'
<1> DEFINE e == Installed(Pack, record.first)
<1>1. /\ Writing("install") /\ at' = "sync"
      /\ dir' = [dir EXCEPT !.temp = FALSE, !.soft = TRUE, !.packs = Append(@, e)]
      /\ UNCHANGED <<record, store, plan, arg, frames, acked, begun, refused>>
  BY DEF InstallPack
<1>2. /\ plan # <<>> /\ Head(plan) \in PackSteps /\ at = "install"
      /\ Stored /\ Located /\ Ledger /\ Disk /\ Due(Head(plan))
      /\ store.state = record.state /\ ~Doing("directory")
      /\ dir # None /\ dir \in Directories /\ record.first \in Nat
  BY <1>1, WriteFacts
<1>3. /\ record.pending /\ record.last = Binding(Pack, store.objects)
      /\ record.last.pack = Pack /\ record.last.prior = store.objects
      /\ Fits(store.objects, Pack) /\ Pack.kind = Head(plan) /\ e \in PackFiles
      /\ ~(record.state >= Sealed) /\ record.state # Published
      /\ (Head(plan) # "aliases" => ~(record.state >= DataCommitted))
      /\ (Head(plan) = "aliases" => record.state >= DataCommitted)
      /\ Pack \in Packs /\ record.last # NoBinding
  BY <1>1, PendingFits
<1>4. Found = store.objects /\ Chain(store.objects) /\ store.objects \in Seq(PackFiles)
  BY <1>2 DEF Located, Stored, Chain
<1>5. e.kind = Pack.kind /\ e.frames = Pack.frames
  BY <1>2, <1>3, InstalledType
<1>6. Chain(Append(store.objects, e))
  BY <1>2, <1>3, <1>4, ChainAppend
<1>7. UNCHANGED <<Pack, Binding(Pack, store.objects), e>>
  BY <1>1 DEF Pack, PackOf, Binding, Installed
<1> HIDE DEF e
<1>8. /\ dir' \in Directories /\ dir'.packs = Append(store.objects, e) /\ dir'.soft = TRUE
      /\ dir'.name = dir.name /\ dir' # None
  <2>1. dir.packs = store.objects
    BY <1>2, <1>4 DEF Found
  <2>2. Append(store.objects, e) \in Seq(PackFiles)
    BY <1>6 DEF Chain
  <2> QED
    BY <1>1, <1>2, <2>1, <2>2, AbsenceAssumption DEF Directories
<1>9. Found' = Append(store.objects, e) /\ Soft'
  BY <1>8 DEF Found, Soft
<1>10. Append(store.objects, e) # <<>>
  BY <1>3, <1>4, SMTT(60)
<1>11. Disk' /\ RefusedForOnePack' /\ Stored'
  <2>1. Disk'
    BY <1>1, <1>2, <1>6, <1>8, <1>9, <1>10 DEF Disk
  <2> QED
    BY <1>1, <1>2, <2>1 DEF ChainInv, RefusedForOnePack, Stored
<1>12. /\ RecordsOf(store.objects) \in Seq(Bodies)
       /\ RecordsOf(Append(store.objects, e)) =
            IF e.kind = "records" THEN RecordsOf(store.objects) \o FlattenSeq(e.frames)
            ELSE RecordsOf(store.objects)
  BY <1>3, <1>4, RecordsAppend
<1>13. IsPrefix(acked, RecordsOf(Append(store.objects, e)))
  <2>1. IsPrefix(acked, RecordsOf(store.objects)) /\ acked \in Seq(Bodies)
    BY <1>2, <1>4 DEF Ledger, Disk
  <2>2. FlattenSeq(e.frames) \in Seq(Bodies)
    BY <1>3, FlattenType DEF PackFiles
  <2> QED
    BY <1>12, <2>1, <2>2, PrefixGrows
<1>14. /\ \A kind : Has(Append(store.objects, e), kind) <=> Has(store.objects, kind) \/ e.kind = kind
       /\ FinalCheckpoint(store.objects) => FinalCheckpoint(Append(store.objects, e))
  BY <1>3, <1>4, HasAppend
<1>15. Ledger'
  <2>1. record.state >= DataCommitted =>
          /\ FinalCheckpoint(Append(store.objects, e))
          /\ record.data = RecordsOf(Append(store.objects, e))
    BY <1>2, <1>3, <1>4, <1>5, <1>12, <1>14 DEF Ledger
  <2>2. Has(Append(store.objects, e), "aliases") => record.state >= DataCommitted
    BY <1>2, <1>3, <1>4, <1>5, <1>14 DEF Ledger
  <2>3. Found' = Append(record'.last.prior, Installed(record'.last.pack, record'.first))
    BY <1>1, <1>3, <1>9 DEF e
  <2> QED
    BY <1>1, <1>2, <1>3, <1>9, <1>10, <1>13, <2>1, <2>2, <2>3 DEF Ledger
<1>16. Located'
  BY <1>1, <1>2, <1>3, <1>7, <1>8, <1>9 DEF Located, e
<1>17. Placed'
  BY <1>1, <1>2, StillDue
<1> QED
  BY <1>11, <1>15, <1>16, <1>17 DEF ChainInv

\* What write_pack and its callers change in the store.
LEMMA WrittenFields ==
  ASSUME Stored
  PROVE  LET w == Written(store, Pack) IN
         /\ DOMAIN w = StoreFields
         /\ w.objects = Append(store.objects, Installed(Pack, record.first))
         /\ w.pack = IF Pack.kind = "records" THEN <<>> ELSE store.pack
         /\ w.taken = store.taken /\ w.paged = store.paged /\ w.state = store.state
         /\ w.manifest = store.manifest /\ w.final = store.final
<1> DEFINE t == [store EXCEPT !.objects = Append(@, Installed(Pack, record.first))]
           w == Written(store, Pack)
<1>1. /\ DOMAIN t = StoreFields
      /\ t.objects = Append(store.objects, Installed(Pack, record.first))
      /\ t.pack = store.pack /\ t.taken = store.taken /\ t.paged = store.paged
      /\ t.state = store.state /\ t.manifest = store.manifest /\ t.final = store.final
  BY DEF Stored, StoreFields
<1>2. w = IF Pack.kind = "records" THEN [t EXCEPT !.pack = <<>>]
          ELSE IF Pack.kind = "checkpoint" THEN NextCheckpoint(t) ELSE t
  BY DEF Written
<1> HIDE DEF t, w
<1>3. CASE Pack.kind = "records"
  <2>1. w = [t EXCEPT !.pack = <<>>]
    BY <1>2, <1>3
  <2> QED
    BY <1>1, <1>3, <2>1 DEF StoreFields, w
<1>4. CASE Pack.kind = "checkpoint"
  <2>1. w = NextCheckpoint(t)
    BY <1>2, <1>4
  <2> QED
    BY <1>1, <1>4, <2>1 DEF StoreFields, NextCheckpoint, w
<1>5. CASE Pack.kind # "records" /\ Pack.kind # "checkpoint"
  <2>1. w = t
    BY <1>2, <1>5
  <2> QED
    BY <1>1, <1>5, <2>1 DEF w
<1> QED
  BY <1>3, <1>4, <1>5

\* The reservation is done with, and the store knows of its pack.
LEMMA AcknowledgeKeeps ==
  ASSUME IInv, ChainInv, AcknowledgeNonces
  PROVE  ChainInv'
<1> DEFINE e == Installed(Pack, record.first)
           c == store.objects
           d == Append(c, e)
<1>1. /\ Writing("acknowledge") /\ at' = "start" /\ plan' = Tail(plan)
      /\ record' = [record EXCEPT !.pending = FALSE]
      /\ store' = Written(store, Pack)
      /\ acked' = (IF Head(plan) = "checkpoint" THEN store.taken ELSE acked)
      /\ begun' = (begun \/ Head(plan) = "descriptor")
      /\ UNCHANGED <<dir, arg, frames, refused>>
  BY DEF AcknowledgeNonces, Done
<1>2. /\ plan # <<>> /\ Head(plan) \in PackSteps /\ at = "acknowledge"
      /\ Stored /\ Located /\ Ledger /\ Disk /\ Due(Head(plan))
      /\ store.state = record.state
      /\ dir # None /\ dir \in Directories /\ record.first \in Nat
  BY <1>1, WriteFacts
<1>3. /\ record.last.pack = Pack /\ record.last.prior = c /\ record.last # NoBinding
      /\ Pack.kind = Head(plan) /\ e \in PackFiles /\ Pack \in Packs
      /\ ~(record.state >= Sealed) /\ record.state # Published
      /\ (Head(plan) # "aliases" => ~(record.state >= DataCommitted))
      /\ (Head(plan) = "aliases" => record.state >= DataCommitted)
  BY <1>1, PendingFits
<1>4. /\ Found = d /\ Chain(c) /\ c \in Seq(PackFiles) /\ ~Soft /\ Chain(d)
  <2>1. Found = d /\ ~Soft
    BY <1>2 DEF Located
  <2> QED
    BY <1>2, <2>1 DEF Stored, Chain, Disk
<1>5. e.kind = Pack.kind /\ e.frames = Pack.frames
  BY <1>2, <1>3, InstalledType
<1>6. /\ DOMAIN store' = StoreFields /\ store'.objects = d
      /\ store'.pack = (IF Head(plan) = "records" THEN <<>> ELSE store.pack)
      /\ store'.taken = store.taken /\ store'.paged = store.paged
      /\ store'.state = store.state /\ store'.manifest = store.manifest
      /\ store'.final = store.final
  BY <1>1, <1>2, <1>3, WrittenFields
<1> HIDE DEF e
<1>7. d # <<>> /\ Len(c) < Len(d)
  BY <1>3, <1>4, SMTT(60)
<1>8. /\ \A kind : Has(d, kind) <=> Has(c, kind) \/ e.kind = kind
      /\ FinalCheckpoint(d) <=> FinalCheckpoint(c) \/ (e.kind = "checkpoint" /\ Has(c, "manifest"))
  BY <1>3, <1>4, HasAppend
<1>9. /\ RecordsOf(c) \in Seq(Bodies)
      /\ RecordsOf(d) = IF e.kind = "records" THEN RecordsOf(c) \o FlattenSeq(e.frames)
                        ELSE RecordsOf(c)
  BY <1>3, <1>4, RecordsAppend
<1> HIDE DEF d, c
<1>10. Head(plan) = "checkpoint" => RecordsOf(d) = store.taken /\ store.taken \in Seq(Bodies)
  <2>1. Head(plan) = "checkpoint" => store.paged = Len(store.taken) /\ store.pack = <<>>
    BY <1>2 DEF Due, Whole
  <2>2. Head(plan) = "checkpoint" => RecordsOf(c) = store.taken
    BY <1>2, <2>1, AllInChain DEF c
  <2> QED
    BY <1>2, <1>3, <1>5, <1>9, <2>2 DEF Stored
<1>11. UNCHANGED <<Found, Soft>>
  BY <1>1 DEF Found, Soft
<1>12. /\ DOMAIN record' = RecordFields /\ record'.pending = FALSE
       /\ \A x \in RecordFields \ {"pending"} : record'[x] = record[x]
  BY <1>1, <1>2 DEF Ledger, RecordFields
<1>13. /\ record'.last = record.last /\ record'.state = record.state
       /\ record'.data = record.data /\ record'.first = record.first
       /\ record'.chain = record.chain /\ record'.publisher = record.publisher
  BY <1>12 DEF RecordFields
<1>14. IsPrefix(acked', RecordsOf(d)) /\ acked' \in Seq(Bodies)
  <2>1. CASE Head(plan) = "checkpoint"
    BY <1>1, <1>10, <2>1, PrefixGrows
  <2>2. CASE Head(plan) # "checkpoint"
    BY <1>1, <1>2, <1>4, <2>2 DEF Ledger, Disk
  <2> QED
    BY <2>1, <2>2
<1>15. Disk' /\ RefusedForOnePack'
  <2>1. frames' # {}
    BY <1>1, <1>2 DEF Disk
  <2>2. Disk'
    BY <1>1, <1>2, <1>11, <1>14, <2>1 DEF Disk
  <2> QED
    BY <1>1, <2>2 DEF ChainInv, RefusedForOnePack
<1>16. Ledger'
  BY <1>1, <1>2, <1>3, <1>4, <1>7, <1>11, <1>12, <1>13, <1>14 DEF Ledger, c
<1>17. Stored'
  <2>1. RecordsOf(d) \o FlattenSeq(store'.pack) = RecordsOf(c) \o FlattenSeq(store.pack)
    <3>1. CASE Head(plan) = "records"
      <4>1. e.frames = store.pack
        BY <1>2, <1>3, <1>5, <3>1, PackShape
      <4>2. FlattenSeq(<<>>) = <<>>
        BY FlattenIs, EmptySeq
      <4>3. FlattenSeq(store.pack) \in Seq(Bodies)
        BY <1>2, StoreCounts
      <4>4. (RecordsOf(c) \o FlattenSeq(store.pack)) \o <<>> = RecordsOf(c) \o FlattenSeq(store.pack)
        BY <1>9, <4>3, SMTT(60)
      <4> QED
        BY <1>3, <1>5, <1>6, <1>9, <3>1, <4>1, <4>2, <4>4
    <3>2. CASE Head(plan) # "records"
      BY <1>3, <1>5, <1>6, <1>9, <3>2
    <3> QED
      BY <3>1, <3>2
  <2>2. store'.pack \in Seq(Seq(Bodies)) /\ (store'.pack # <<>> => FlattenSeq(store'.pack) # <<>>)
    BY <1>2, <1>6, EmptySeq DEF Stored
  <2> QED
    BY <1>2, <1>4, <1>6, <2>1, <2>2 DEF Stored, c
<1>18. Located'
  BY <1>1, <1>2, <1>4, <1>6, <1>11, <1>12 DEF Located
<1>19. \A kind : Lacks(kind)' <=> Lacks(kind) /\ kind # Head(plan)
  BY <1>3, <1>5, <1>6, <1>8 DEF Lacks, c
<1>20. /\ ~Lacks("lane_index") => ~Lacks("event_index")
       /\ ~Lacks("manifest") => ~Lacks("lane_index")
       /\ FinalCheckpoint(c) => ~Lacks("manifest")
  BY <1>4 DEF Chain, Lacks, FinalCheckpoint, Has, c
<1>21. FinalCheckpoint(store'.objects) <=>
         FinalCheckpoint(c) \/ (Head(plan) = "checkpoint" /\ ~Lacks("manifest"))
  BY <1>3, <1>5, <1>6, <1>8 DEF Lacks, c
<1>22. store'.state = record'.state
  BY <1>2, <1>6, <1>13
<1>23. Whole => Whole'
  BY <1>6, <1>7 DEF Whole
<1>24. store'.objects # <<>>
  BY <1>6, <1>7
<1>25. ASSUME plan' # <<>>, Head(plan') # "directory", Due(Head(plan))' PROVE Placed'
  BY <1>22, <1>25 DEF Placed, Doing
<1>26. ASSUME plan' = <<>>, Resting' PROVE Placed'
  BY <1>22, <1>26 DEF Placed, Doing
<1>27. Placed'
  <2>1. CASE Head(plan) = "descriptor"
    <3>1. plan = <<"descriptor">> /\ store = [NewStore EXCEPT !.state = Open]
      BY <1>2, <2>1 DEF Due
    <3>2. plan' = <<>>
      BY <1>1, <3>1, SMTT(60)
    <3>3. /\ store.manifest = None /\ store.final = FALSE /\ store.objects = <<>>
          /\ store.state = Open
      BY <3>1 DEF NewStore
    <3>4. Lacks("manifest") /\ ~FinalCheckpoint(c)
      BY <3>3, EmptyChain DEF Lacks, c
    <3>5. Resting'
      BY <1>6, <1>19, <1>21, <1>24, <2>1, <3>3, <3>4, StatesDiffer DEF Resting
    <3> QED
      BY <1>26, <3>2, <3>5
  <2>2. CASE Head(plan) = "records"
    <3> DEFINE rest == Tail(plan)
    <3>1. Taking
      BY <1>2, <2>2 DEF Due
    <3>2. Taking' /\ store'.pack = <<>>
      BY <1>6, <1>19, <1>24, <2>2, <3>1 DEF Taking
    <3>3. CASE rest # <<>> /\ Head(rest) = "page" /\ Flushing(Tail(rest))
      <4>1. Flushing(Tail(plan))'
        BY <1>1, <1>6, <3>3 DEF Flushing, CanPush
      <4>2. Due("page")'
        BY <3>2, <4>1 DEF Due
      <4> QED
        BY <1>1, <1>25, <3>3, <4>2
    <3>4. CASE rest = <<"checkpoint">> /\ store.paged = Len(store.taken)
      <4>1. Due("checkpoint")'
        BY <1>1, <1>6, <1>12, <3>2, <3>4 DEF Due
      <4> QED
        BY <1>1, <1>25, <3>4, <4>1, PlanTails
    <3>5. CASE rest = IndexPlan /\ store.paged = Len(store.taken) /\ Len(store.taken) = Records
      <4>1. Whole'
        BY <1>6, <1>24, <3>1, <3>2, <3>5 DEF Whole, Taking
      <4>2. Due("event_index")'
        BY <1>1, <3>2, <3>5, <4>1 DEF Due, Taking
      <4> QED
        BY <1>1, <1>25, <3>5, <4>2, PlanTails
    <3> QED
      BY <1>2, <2>2, <3>3, <3>4, <3>5 DEF Due
  <2>3. CASE Head(plan) = "event_index"
    <3>1. plan = IndexPlan /\ Whole /\ Lacks("event_index")
      BY <1>2, <2>3 DEF Due
    <3>2. plan' = LanePlan
      BY <1>1, <3>1, PlanTails
    <3>3. ~Lacks("event_index")' /\ Lacks("lane_index")'
      BY <1>19, <1>20, <2>3, <3>1
    <3>4. Due("lane_index")'
      BY <1>23, <3>1, <3>2, <3>3 DEF Due
    <3> QED
      BY <1>25, <3>2, <3>4, PlanTails
  <2>4. CASE Head(plan) = "lane_index"
    <3>1. plan = LanePlan /\ Whole /\ Lacks("lane_index")
      BY <1>2, <2>4 DEF Due
    <3>2. plan' = ManifestPlan
      BY <1>1, <3>1, PlanTails
    <3>3. ~Lacks("lane_index")' /\ Lacks("manifest")'
      BY <1>19, <1>20, <2>4, <3>1
    <3>4. Due("manifest")'
      BY <1>23, <3>1, <3>2, <3>3 DEF Due
    <3> QED
      BY <1>25, <3>2, <3>4, PlanTails
  <2>5. CASE Head(plan) = "manifest"
    <3>1. plan = ManifestPlan /\ Whole /\ Lacks("manifest")
      BY <1>2, <2>5 DEF Due
    <3>2. plan' = CheckPlan
      BY <1>1, <3>1, PlanTails
    <3>3. ~Lacks("manifest")' /\ ~FinalCheckpoint(store'.objects)
      BY <1>19, <1>20, <1>21, <2>5, <3>1
    <3>4. Due("checkpoint")'
      BY <1>23, <3>1, <3>2, <3>3 DEF Due
    <3> QED
      BY <1>25, <3>2, <3>4, PlanTails
  <2>6. CASE Head(plan) = "checkpoint" /\ plan = <<"checkpoint">> /\ Taking
    <3>1. plan' = <<>>
      BY <1>1, <2>6, PlanTails
    <3>2. Lacks("manifest")' /\ ~FinalCheckpoint(store'.objects)
      BY <1>19, <1>20, <1>21, <2>6 DEF Taking
    <3>3. Resting'
      BY <1>6, <1>24, <2>6, <3>2, StatesDiffer DEF Resting, Taking
    <3> QED
      BY <1>26, <3>1, <3>3
  <2>7. CASE Head(plan) = "checkpoint" /\ plan = CheckPlan /\ Whole /\ ~Lacks("manifest")
    <3>1. plan' = CommitPlan
      BY <1>1, <2>7, PlanTails
    <3>2. Due("commit")'
      BY <1>21, <1>23, <2>7, <3>1 DEF Due
    <3> QED
      BY <1>25, <3>1, <3>2, PlanTails
  <2>8. CASE Head(plan) = "aliases"
    <3>1. plan = PublishPlan /\ store.state = DataCommitted
      BY <1>2, <2>8 DEF Due
    <3>2. /\ plan' # <<>> /\ Head(plan') = "seal" /\ Tail(plan') # <<>>
          /\ Head(Tail(plan')) = "generation"
          /\ Tail(Tail(plan')) = <<"rename", "publish">>
      BY <1>1, <3>1, PublishTails
    <3>3. Ending(Tail(Tail(plan)))'
      BY <1>19, <2>8, <3>2 DEF Ending
    <3>4. Due("seal")'
      BY <1>6, <3>1, <3>2, <3>3 DEF Due
    <3> QED
      BY <1>25, <3>2, <3>4
  <2> QED
    BY <1>2, <2>1, <2>2, <2>3, <2>4, <2>5, <2>6, <2>7, <2>8 DEF PackSteps, Due
<1> QED
  BY <1>15, <1>16, <1>17, <1>18, <1>27 DEF ChainInv

-----------------------------------------------------------------------------
(***************************************************************************)
(* Committing and publishing                                               *)
(***************************************************************************)

\* The record says the data is committed once the final checkpoint is in the
\* chain (commit_data).
LEMMA CommitKeeps ==
  ASSUME IInv, ChainInv, CommitData
  PROVE  ChainInv'
<1>1. /\ Doing("commit") /\ record.state = Open /\ ~record.pending
      /\ record' = [record EXCEPT !.state = DataCommitted, !.data = store.taken]
      /\ store' = [store EXCEPT !.state = DataCommitted, !.manifest = store.taken,
                                !.final = TRUE]
      /\ plan' = Tail(plan) /\ at' = "start"
      /\ UNCHANGED <<dir, arg, frames, acked, begun, refused>>
  BY DEF CommitData, Done
<1>2. Stored /\ Located /\ Ledger /\ Due("commit") /\ at = "start"
  <2>1. /\ "commit" # "unkey" /\ "commit" # "erase" /\ "commit" \notin PackSteps
    BY DEF PackSteps
  <2> QED
    BY <1>1, <2>1, DoingFacts DEF Doing
<1>3. plan' = <<>> /\ Whole /\ FinalCheckpoint(store.objects)
  BY <1>1, <1>2, PlanTails DEF Due
<1>4. Found = store.objects /\ ~Soft /\ dir # None
  BY <1>1, <1>2 DEF Located, Doing
<1>5. UNCHANGED <<Found, Soft>>
  BY <1>1 DEF Found, Soft
<1>6. RecordsOf(Found) = store.taken
  BY <1>2, <1>3, <1>4, AllInChain DEF Whole
<1>7. Lacks("aliases")
  BY <1>1, <1>2, <1>4, StatesOrdered DEF Ledger, Lacks
<1>8. /\ DOMAIN record' = RecordFields /\ record'.state = DataCommitted
      /\ record'.data = store.taken /\ record'.pending = record.pending
      /\ record'.last = record.last /\ record'.first = record.first
      /\ record'.chain = record.chain /\ record'.publisher = record.publisher
  BY <1>1, <1>2 DEF Ledger, RecordFields
<1>9. Ledger'
  <2>1. DataCommitted \in Open .. Published
    BY StatesOrdered
  <2> QED
    BY <1>1, <1>2, <1>3, <1>4, <1>5, <1>6, <1>8, <2>1, StatesOrdered, StatesDiffer DEF Ledger
<1>10. /\ DOMAIN store' = StoreFields /\ store'.state = DataCommitted
       /\ store'.taken = store.taken /\ store'.paged = store.paged
       /\ store'.pack = store.pack /\ store'.objects = store.objects
  BY <1>1, <1>2 DEF Stored, StoreFields
<1>11. Stored' /\ Lacks("aliases")'
  BY <1>2, <1>7, <1>10 DEF Stored, Lacks
<1>12. Located'
  BY <1>1, <1>4, <1>5, <1>8, <1>10 DEF Located
<1>13. Placed'
  <2>1. Resting'
    BY <1>3, <1>10, <1>11, StatesDiffer DEF Resting, Whole
  <2> QED
    BY <1>3, <1>8, <1>10, <2>1 DEF Placed, Doing
<1>14. Disk' /\ RefusedForOnePack'
  BY <1>1, DiskKept DEF ChainInv, RefusedForOnePack
<1> QED
  BY <1>9, <1>11, <1>12, <1>13, <1>14 DEF ChainInv

\* The record gets the chain's last commitment (seal).
LEMMA SealKeeps ==
  ASSUME IInv, ChainInv, Seal
  PROVE  ChainInv'
<1>1. /\ Doing("seal") /\ record.state = DataCommitted /\ ~record.pending
      /\ record' = [record EXCEPT !.state = Sealed, !.chain = store.objects]
      /\ store' = [store EXCEPT !.state = Sealed]
      /\ plan' = Tail(plan) /\ at' = "start"
      /\ UNCHANGED <<dir, arg, frames, acked, begun, refused>>
  BY DEF Seal, Done
<1>2. Stored /\ Located /\ Ledger /\ Due("seal") /\ at = "start"
  <2>1. /\ "seal" # "unkey" /\ "seal" # "erase" /\ "seal" \notin PackSteps
    BY DEF PackSteps
  <2> QED
    BY <1>1, <2>1, DoingFacts DEF Doing
<1>3. plan' # <<>> /\ Head(plan') = "generation" /\ Ending(Tail(plan'))
  BY <1>1, <1>2 DEF Due
<1>4. Found = store.objects /\ ~Soft /\ dir # None
  BY <1>1, <1>2 DEF Located, Doing
<1>5. UNCHANGED <<Found, Soft>>
  BY <1>1 DEF Found, Soft
<1>6. /\ DOMAIN record' = RecordFields /\ record'.state = Sealed
      /\ record'.data = record.data /\ record'.pending = record.pending
      /\ record'.last = record.last /\ record'.first = record.first
      /\ record'.chain = store.objects /\ record'.publisher = record.publisher
  BY <1>1, <1>2 DEF Ledger, RecordFields
<1>7. Ledger'
  <2>1. Sealed \in Open .. Published /\ record.state >= DataCommitted
    BY <1>1, StatesOrdered
  <2>2. Has(Found, "aliases")
    BY <1>3, <1>4 DEF Ending, Lacks
  <2> QED
    BY <1>1, <1>2, <1>4, <1>5, <1>6, <2>1, <2>2, StatesOrdered, StatesDiffer DEF Ledger
<1>8. /\ DOMAIN store' = StoreFields /\ store'.state = Sealed
      /\ store'.taken = store.taken /\ store'.paged = store.paged
      /\ store'.pack = store.pack /\ store'.objects = store.objects
  BY <1>1, <1>2 DEF Stored, StoreFields
<1>9. Stored' /\ Ending(Tail(plan))'
  BY <1>1, <1>2, <1>3, <1>8 DEF Stored, Ending, Lacks
<1>10. Located'
  BY <1>1, <1>4, <1>5, <1>6, <1>8 DEF Located
<1>11. Placed'
  <2>1. Due("generation")'
    BY <1>8, <1>9 DEF Due
  <2> QED
    BY <1>3, <1>6, <1>8, <2>1 DEF Placed, Doing
<1>12. Disk' /\ RefusedForOnePack'
  BY <1>1, DiskKept DEF ChainInv, RefusedForOnePack
<1> QED
  BY <1>7, <1>9, <1>10, <1>11, <1>12 DEF ChainInv

\* The last two steps of a publication.
LEMMA EndTails ==
  /\ <<"rename", "publish">> # <<>> /\ Head(<<"rename", "publish">>) = "rename"
  /\ Tail(<<"rename", "publish">>) = <<"publish">>
  /\ <<"publish">> # <<>> /\ Head(<<"publish">>) = "publish" /\ Tail(<<"publish">>) = <<>>
  BY SMTT(60)

\* The generation is reserved for the chain that was sealed
\* (reserve_generation).
LEMMA GenerationKeeps ==
  ASSUME IInv, ChainInv, ReserveGeneration
  PROVE  ChainInv'
<1>1. /\ Doing("generation")
      /\ record' = [record EXCEPT !.publisher = store.objects]
      /\ plan' = Tail(plan) /\ at' = "start"
      /\ UNCHANGED <<dir, store, arg, frames, acked, begun, refused>>
  BY DEF ReserveGeneration, Done
<1>2. /\ Stored /\ Located /\ Ledger /\ Due("generation") /\ at = "start"
      /\ store.state = record.state
  <2>1. /\ "generation" # "unkey" /\ "generation" # "erase" /\ "generation" \notin PackSteps
        /\ "generation" # "directory"
    BY DEF PackSteps
  <2> QED
    BY <1>1, <2>1, DoingFacts DEF Doing
<1>3. store.state = Sealed /\ Ending(plan')
  BY <1>1, <1>2 DEF Due
<1>4. Found = store.objects /\ ~Soft /\ dir # None
      /\ (record.pending => record.last.prior = store.objects)
  BY <1>1, <1>2 DEF Located, Doing
<1>5. UNCHANGED <<Found, Soft>>
  BY <1>1 DEF Found, Soft
<1>6. /\ DOMAIN record' = RecordFields /\ record'.state = record.state
      /\ record'.data = record.data /\ record'.pending = record.pending
      /\ record'.last = record.last /\ record'.first = record.first
      /\ record'.chain = record.chain /\ record'.publisher = store.objects
  BY <1>1, <1>2 DEF Ledger, RecordFields
<1>7. Ledger'
  BY <1>1, <1>2, <1>4, <1>5, <1>6 DEF Ledger
<1>8. Stored' /\ Ending(plan)'
  BY <1>1, <1>2, <1>3 DEF Stored, Ending, Lacks
<1>9. Located'
  BY <1>1, <1>4, <1>5, <1>6 DEF Located
<1>10. Placed'
  <2>1. plan' # <<>> /\ Head(plan') \in {"rename", "publish"}
    BY <1>3, EndTails DEF Ending
  <2>2. \A step \in {"rename", "publish"} : Due(step)'
    BY <1>1, <1>3, <1>6, <1>8 DEF Due
  <2>3. Due(Head(plan))'
    BY <2>1, <2>2
  <2> QED
    BY <1>1, <1>2, <1>6, <2>1, <2>3 DEF Placed, Doing
<1>11. Disk' /\ RefusedForOnePack'
  BY <1>1, DiskKept DEF ChainInv, RefusedForOnePack
<1> QED
  BY <1>7, <1>8, <1>9, <1>10, <1>11 DEF ChainInv

\* The directory gets its published name.
LEMMA RenameKeeps ==
  ASSUME IInv, ChainInv, RenameResult
  PROVE  ChainInv'
<1>1. /\ Doing("rename") /\ dir' = [dir EXCEPT !.name = "published"]
      /\ plan' = Tail(plan) /\ at' = "start"
      /\ UNCHANGED <<record, store, arg, frames, acked, begun, refused>>
  BY DEF RenameResult, Done
<1>2. /\ Stored /\ Located /\ Ledger /\ Due("rename") /\ at = "start"
      /\ store.state = record.state /\ Disk
  <2>1. /\ "rename" # "unkey" /\ "rename" # "erase" /\ "rename" \notin PackSteps
        /\ "rename" # "directory"
    BY DEF PackSteps
  <2> QED
    BY <1>1, <2>1, DoingFacts DEF Doing, ChainInv
<1>3. /\ store.state = Sealed /\ Ending(plan) /\ record.publisher = store.objects
      /\ plan' = <<"publish">>
  <2>1. store.state = Sealed /\ Ending(plan) /\ record.publisher = store.objects
    BY <1>2 DEF Due
  <2>2. plan = <<"rename", "publish">>
    BY <1>1, <2>1, EndTails DEF Ending, Doing
  <2> QED
    BY <1>1, <2>1, <2>2, EndTails
<1>4. Found = store.objects /\ ~Soft /\ dir # None /\ dir \in Directories
      /\ (record.pending => record.last.prior = store.objects)
  BY <1>1, <1>2 DEF Located, Doing, Disk
<1>5. /\ dir' \in Directories /\ dir'.packs = dir.packs /\ dir'.soft = dir.soft
      /\ dir'.name = "published" /\ dir' # None
  BY <1>1, <1>4, AbsenceAssumption DEF Directories
<1>6. UNCHANGED <<Found, Soft>>
  BY <1>4, <1>5 DEF Found, Soft
<1>7. Ledger'
  BY <1>1, <1>2, <1>4, <1>5, <1>6, LedgerSame
<1>8. Stored' /\ Ending(plan)'
  BY <1>1, <1>2, <1>3, <1>5 DEF Stored, Ending, Lacks
<1>9. Located'
  BY <1>1, <1>4, <1>5, <1>6 DEF Located
<1>10. Placed'
  <2>1. plan' # <<>> /\ Head(plan') = "publish"
    BY <1>3, EndTails
  <2>2. Due("publish")'
    BY <1>1, <1>3, <1>8 DEF Due
  <2> QED
    BY <1>1, <1>2, <2>1, <2>2 DEF Placed, Doing
<1>11. Disk' /\ RefusedForOnePack'
  <2>1. Disk'
    BY <1>1, <1>2, <1>4, <1>5, <1>6 DEF Disk
  <2> QED
    BY <1>1, <2>1 DEF ChainInv, RefusedForOnePack
<1> QED
  BY <1>7, <1>8, <1>9, <1>10, <1>11 DEF ChainInv

\* The record says published once the directory has its name.
LEMMA PublishedKeeps ==
  ASSUME IInv, ChainInv, PublishRecord
  PROVE  ChainInv'
<1>1. /\ Doing("publish") /\ record.state = Sealed /\ ~record.pending
      /\ record.publisher = store.objects
      /\ record' = [record EXCEPT !.state = Published]
      /\ store' = [store EXCEPT !.state = Published]
      /\ plan' = Tail(plan) /\ at' = "start"
      /\ UNCHANGED <<dir, arg, frames, acked, begun, refused>>
  BY DEF PublishRecord, Done
<1>2. Stored /\ Located /\ Ledger /\ Due("publish") /\ at = "start"
  <2>1. /\ "publish" # "unkey" /\ "publish" # "erase" /\ "publish" \notin PackSteps
    BY DEF PackSteps
  <2> QED
    BY <1>1, <2>1, DoingFacts DEF Doing
<1>3. Ending(plan) /\ plan' = <<>> /\ dir.name = "published"
  <2>1. Ending(plan)
    BY <1>2 DEF Due
  <2>2. plan = <<"publish">> /\ dir.name = "published"
    BY <1>1, <2>1, EndTails DEF Ending, Doing
  <2> QED
    BY <1>1, <2>1, <2>2, EndTails
<1>4. Found = store.objects /\ ~Soft /\ dir # None
  BY <1>1, <1>2 DEF Located, Doing
<1>5. UNCHANGED <<Found, Soft>>
  BY <1>1 DEF Found, Soft
<1>6. /\ DOMAIN record' = RecordFields /\ record'.state = Published
      /\ record'.data = record.data /\ record'.pending = record.pending
      /\ record'.last = record.last /\ record'.first = record.first
      /\ record'.chain = record.chain /\ record'.publisher = record.publisher
  BY <1>1, <1>2 DEF Ledger, RecordFields
<1>7. Ledger'
  <2>1. /\ Published \in Open .. Published /\ Published >= DataCommitted
        /\ record.state >= DataCommitted /\ record.state >= Sealed
    BY <1>1, StatesOrdered
  <2> QED
    BY <1>1, <1>2, <1>3, <1>4, <1>5, <1>6, <2>1 DEF Ledger
<1>8. /\ DOMAIN store' = StoreFields /\ store'.state = Published
      /\ store'.taken = store.taken /\ store'.paged = store.paged
      /\ store'.pack = store.pack /\ store'.objects = store.objects
  BY <1>1, <1>2 DEF Stored, StoreFields
<1>9. Stored'
  BY <1>2, <1>8 DEF Stored
<1>10. Located'
  BY <1>1, <1>4, <1>5, <1>6, <1>8 DEF Located
<1>11. Placed'
  <2>1. store.objects # <<>>
    BY <1>3, EmptyChain DEF Ending, Lacks
  <2>2. Resting'
    BY <1>8, <2>1, StatesDiffer DEF Resting
  <2> QED
    BY <1>3, <1>6, <1>8, <2>2 DEF Placed, Doing
<1>12. Disk' /\ RefusedForOnePack'
  BY <1>1, DiskKept DEF ChainInv, RefusedForOnePack
<1> QED
  BY <1>7, <1>9, <1>10, <1>11, <1>12 DEF ChainInv

\* resume acknowledges the pending reservation of a pack it found.
LEMMA CompleteKeeps ==
  ASSUME IInv, ChainInv, CompletePending
  PROVE  ChainInv'
<1>1. /\ Doing("complete") /\ record' = [record EXCEPT !.pending = FALSE]
      /\ plan' = Tail(plan) /\ at' = "start"
      /\ UNCHANGED <<dir, store, arg, frames, acked, begun, refused>>
  BY DEF CompletePending, Done
<1>2. /\ Stored /\ Located /\ Ledger /\ Due("complete") /\ at = "start"
      /\ store.state = record.state
  <2>1. /\ "complete" # "unkey" /\ "complete" # "erase" /\ "complete" \notin PackSteps
        /\ "complete" # "directory"
    BY DEF PackSteps
  <2> QED
    BY <1>1, <2>1, DoingFacts DEF Doing
<1>3. /\ record.pending /\ Chain(record.last.prior)
      /\ Found = Append(record.last.prior, Installed(record.last.pack, record.first))
  BY <1>2 DEF Due, Held, Ledger
<1>4. Len(record.last.prior) < Len(Found)
  <2>1. record.last.prior \in Seq(PackFiles)
    BY <1>3 DEF Chain
  <2> QED
    BY <1>3, <2>1, SMTT(60)
<1>5. Found = store.objects /\ ~Soft /\ dir # None
  BY <1>1, <1>2 DEF Located, Doing
<1>6. UNCHANGED <<Found, Soft>>
  BY <1>1 DEF Found, Soft
<1>7. /\ DOMAIN record' = RecordFields /\ record'.state = record.state
      /\ record'.data = record.data /\ record'.pending = FALSE
      /\ record'.last = record.last /\ record'.first = record.first
      /\ record'.chain = record.chain /\ record'.publisher = record.publisher
  BY <1>1, <1>2 DEF Ledger, RecordFields
<1>8. Ledger'
  BY <1>1, <1>2, <1>4, <1>5, <1>6, <1>7 DEF Ledger
<1>9. Stored'
  BY <1>1, <1>2 DEF Stored
<1>10. Located'
  BY <1>1, <1>5, <1>6, <1>7 DEF Located
<1>11. Placed'
  <2>1. CASE Tail(plan) = <<>> /\ Resting
    <3>1. Resting'
      BY <1>1, <2>1 DEF Resting, Lacks
    <3> QED
      BY <1>1, <1>2, <1>7, <2>1, <3>1 DEF Placed, Doing
  <2>2. CASE /\ Tail(plan) # <<>> /\ Head(Tail(plan)) = "seal"
             /\ Tail(Tail(plan)) # <<>> /\ Head(Tail(Tail(plan))) = "generation"
             /\ store.state = DataCommitted /\ Ending(Tail(Tail(Tail(plan))))
    <3>1. Ending(Tail(Tail(plan)))'
      BY <1>1, <2>2 DEF Ending, Lacks
    <3>2. Due("seal")'
      BY <1>1, <2>2, <3>1 DEF Due
    <3> QED
      BY <1>1, <1>2, <1>7, <2>2, <3>2 DEF Placed, Doing
  <2> QED
    BY <1>2, <2>1, <2>2 DEF Due
<1>12. Disk' /\ RefusedForOnePack'
  BY <1>1, DiskKept DEF ChainInv, RefusedForOnePack
<1> QED
  BY <1>8, <1>9, <1>10, <1>11, <1>12 DEF ChainInv

-----------------------------------------------------------------------------
(***************************************************************************)
(* begin, destroy and process deaths                                       *)
(***************************************************************************)

\* The store that begin makes.
LEMMA NewStoreStored ==
  ASSUME NEW x, \/ x = Empty /\ store' = NewStore
                \/ store' = [NewStore EXCEPT !.state = x]
  PROVE  Stored' /\ store'.objects = <<>> /\ store'.state = x
<1>1. /\ DOMAIN store' = StoreFields /\ store'.taken = <<>> /\ store'.paged = 0
      /\ store'.pack = <<>> /\ store'.objects = <<>> /\ store'.state = x
  <2>1. CASE x = Empty /\ store' = NewStore
    BY <2>1 DEF NewStore, StoreFields
  <2>2. CASE store' = [NewStore EXCEPT !.state = x]
    BY <2>2 DEF NewStore, StoreFields
  <2> QED
    BY <2>1, <2>2
<1>2. /\ <<>> \in Seq(Bodies) /\ Len(<<>>) <= Records /\ 0 \in 0 .. Len(<<>>)
      /\ <<>> \in Seq(Seq(Bodies)) /\ SubSeq(<<>>, 1, 0) = <<>> /\ <<>> \o <<>> = <<>>
  BY PackedAssumption, SMTT(60)
<1>3. FlattenSeq(<<>>) = <<>>
  BY FlattenIs, EmptySeq
<1> QED
  BY <1>1, <1>2, <1>3, EmptyChain DEF Stored

\* begin starts a result, or one of which nothing was installed.
LEMMA BeginKeeps ==
  ASSUME ChainInv, Begin
  PROVE  ChainInv'
<1>1. /\ dir # None => dir.packs = <<>>
      /\ record = None => frames = {}
      /\ record' = (IF record = None THEN NewRecord ELSE record)
      /\ store' = NewStore /\ plan' = <<"directory", "descriptor">> /\ at' = "start"
      /\ UNCHANGED <<dir, arg, frames, acked, begun, refused>>
  BY DEF Begin, Start
<1>2. Disk
  BY DEF ChainInv
<1>3. Found = <<>> /\ ~Soft /\ UNCHANGED <<Found, Soft>>
  BY <1>1, <1>2 DEF Found, Soft, Disk
<1>4. /\ Ledger' /\ record'.state = Open
      /\ record'.pending => record'.last.prior = <<>>
  <2>1. CASE record = None
    <3>1. ~begun' /\ acked' = <<>>
      BY <1>1, <1>2, <2>1 DEF Disk
    <3>2. /\ DOMAIN record' = RecordFields /\ record'.state = Open
          /\ record'.pending = FALSE /\ record'.last = NoBinding
      BY <1>1, <2>1 DEF NewRecord, RecordFields
    <3>3. IsPrefix(<<>>, RecordsOf(<<>>))
      <4>1. <<>> \in Seq({})
        BY EmptySeq
      <4>2. RecordsOf(<<>>) = <<>>
        BY EmptyChain
      <4> QED
        BY <4>1, <4>2, PrefixGrows
    <3>4. Ledger'
      BY <1>3, <3>1, <3>2, <3>3, EmptyChain, StatesOrdered, StatesDiffer DEF Ledger
    <3> QED
      BY <3>2, <3>4
  <2>2. CASE record # None
    <3>1. Ledger /\ record' = record
      BY <1>1, <2>2 DEF ChainInv
    <3>2. Ledger'
      BY <1>1, <3>1, LedgerKept
    <3>3. record.state = Open
      <4>1. ~(record.state >= DataCommitted)
        BY <1>3, <3>1, EmptyChain DEF Ledger
      <4> QED
        BY <3>1, <4>1, StatesOrdered DEF Ledger
    <3>4. ASSUME record.pending PROVE record.last.prior = <<>>
      <4>1. /\ record.last.prior \in Seq(PackFiles)
            /\ \/ record.last.prior = <<>>
               \/ <<>> = Append(record.last.prior, Installed(record.last.pack, record.first))
        BY <1>3, <3>1, <3>4 DEF Ledger, Chain
      <4>2. ASSUME NEW s \in Seq(PackFiles), NEW e PROVE Append(s, e) # <<>>
        <5>1. Len(Append(s, e)) = Len(s) + 1 /\ Len(s) \in Nat
          BY SMTT(60)
        <5> QED
          BY <5>1, EmptySeq, SMTT(60)
      <4> QED
        BY <4>1, <4>2
    <3> QED
      BY <3>1, <3>2, <3>3, <3>4
  <2> QED
    BY <2>1, <2>2
<1>5. Stored' /\ store'.objects = <<>> /\ store'.state = Empty
  BY <1>1, NewStoreStored
<1>6. plan' # <<>> /\ Head(plan') = "directory"
  BY <1>1, SMTT(60)
<1>7. Located'
  BY <1>1, <1>3, <1>4, <1>5, <1>6 DEF Located, Doing
<1>8. Placed'
  <2>1. Due("directory")'
    BY <1>1 DEF Due
  <2> QED
    BY <1>4, <1>5, <1>6, <2>1 DEF Placed, Doing
<1>9. Disk' /\ RefusedForOnePack'
  BY <1>1, <1>2, DiskKept DEF ChainInv, RefusedForOnePack
<1> QED
  BY <1>4, <1>5, <1>7, <1>8, <1>9 DEF ChainInv

\* The directory is made, or cleared of a temporary file.
LEMMA DirectoryKeeps ==
  ASSUME IInv, ChainInv, MakeDirectory
  PROVE  ChainInv'
<1>1. /\ Doing("directory")
      /\ dir' = (IF dir = None THEN NewDirectory ELSE [dir EXCEPT !.temp = FALSE])
      /\ store' = [store EXCEPT !.state = Open] /\ plan' = Tail(plan) /\ at' = "start"
      /\ UNCHANGED <<record, arg, frames, acked, begun, refused>>
  BY DEF MakeDirectory, Done
<1>2. /\ Stored /\ Located /\ Ledger /\ Due("directory") /\ at = "start" /\ Disk
      /\ record.state = Open
  <2>1. /\ "directory" # "unkey" /\ "directory" # "erase" /\ "directory" \notin PackSteps
    BY DEF PackSteps
  <2>2. Building /\ Stored /\ Located /\ Ledger /\ Due("directory") /\ at = "start"
    BY <1>1, <2>1, DoingFacts
  <2> QED
    BY <1>1, <2>2 DEF ChainInv, Placed
<1>3. store = NewStore /\ plan' = <<"descriptor">>
  <2>1. store = NewStore /\ plan = <<"directory", "descriptor">>
    BY <1>2 DEF Due
  <2>2. Tail(<<"directory", "descriptor">>) = <<"descriptor">>
    BY SMTT(60)
  <2> QED
    BY <1>1, <2>1, <2>2
<1>4. Stored' /\ store'.objects = <<>> /\ store'.state = Open
      /\ store' = [NewStore EXCEPT !.state = Open]
  <2>1. store' = [NewStore EXCEPT !.state = Open]
    BY <1>1, <1>3
  <2> QED
    BY <2>1, NewStoreStored
<1>5. Found = <<>> /\ ~Soft /\ (record.pending => record.last.prior = <<>>)
  <2>1. store.objects = <<>>
    BY <1>3 DEF NewStore
  <2> QED
    BY <1>1, <1>2, <2>1 DEF Located, Doing
<1>6. /\ dir' \in Directories /\ dir'.packs = <<>> /\ dir'.soft = FALSE /\ dir' # None
      /\ dir # None => dir'.name = dir.name
  <2>1. CASE dir = None
    <3>1. dir' = NewDirectory
      BY <1>1, <2>1
    <3>2. <<>> \in Seq(PackFiles)
      BY EmptySeq
    <3>3. NewDirectory.packs = <<>> /\ NewDirectory.soft = FALSE
      BY DEF NewDirectory
    <3>4. NewDirectory \in Directories
      BY <3>2 DEF NewDirectory, Directories
    <3> QED
      BY <2>1, <3>1, <3>3, <3>4, AbsenceAssumption
  <2>2. CASE dir # None
    <3>1. dir' = [dir EXCEPT !.temp = FALSE] /\ dir \in Directories
      BY <1>1, <1>2, <2>2 DEF Disk
    <3>2. dir.packs = <<>> /\ ~dir.soft
      BY <1>5, <2>2 DEF Found, Soft
    <3>3. dir.soft = FALSE
      BY <3>1, <3>2 DEF Directories
    <3> QED
      BY <3>1, <3>2, <3>3, AbsenceAssumption DEF Directories
  <2> QED
    BY <2>1, <2>2
<1>7. Found' = <<>> /\ ~Soft'
  BY <1>6 DEF Found, Soft
<1>8. Ledger'
  BY <1>1, <1>2, <1>5, <1>6, <1>7, LedgerSame
<1>9. plan' # <<>> /\ Head(plan') = "descriptor"
  BY <1>3, SMTT(60)
<1>10. Located'
  BY <1>1, <1>4, <1>5, <1>6, <1>7 DEF Located
<1>11. Placed'
  <2>1. Due("descriptor")'
    BY <1>3, <1>4 DEF Due
  <2> QED
    BY <1>1, <1>2, <1>4, <1>9, <2>1 DEF Placed, Doing
<1>12. Disk' /\ RefusedForOnePack'
  <2>1. Disk'
    BY <1>1, <1>2, <1>6, <1>7, EmptyChain DEF Disk
  <2> QED
    BY <1>1, <2>1 DEF ChainInv, RefusedForOnePack
<1> QED
  BY <1>4, <1>8, <1>10, <1>11, <1>12 DEF ChainInv

\* destroy deletes the key before the directory.
LEMMA UnkeyKeeps ==
  ASSUME IInv, ChainInv, DestroyKey
  PROVE  ChainInv'
<1>1. /\ Doing("unkey") /\ record' = None /\ plan' = Tail(plan) /\ at' = "start"
      /\ UNCHANGED <<dir, store, arg, frames, acked, begun, refused>>
  BY DEF DestroyKey, Done
<1>2. plan = <<"unkey", "erase">>
  BY <1>1, SMTT(60) DEF IInv, PlanInv, Destroying, DestroyPlan, WorkSteps, PackSteps, Doing
<1>3. plan' = <<"erase">> /\ <<"erase">> # <<>>
  BY <1>1, <1>2, SMTT(60)
<1>4. ~Working' /\ ~Building'
  BY <1>3 DEF Working, Building
<1>5. Disk' /\ RefusedForOnePack'
  BY <1>1, DiskKept DEF ChainInv, RefusedForOnePack
<1> QED
  BY <1>1, <1>4, <1>5 DEF ChainInv

\* Nothing is left of a result that was destroyed.
LEMMA EraseKeeps ==
  ASSUME IInv, ChainInv, EraseDirectory
  PROVE  ChainInv'
<1>1. /\ Doing("erase") /\ dir' = None /\ store' = None /\ plan' = <<>> /\ at' = "start"
      /\ UNCHANGED <<record, arg, frames, acked, begun, refused>>
  BY DEF EraseDirectory, Drop, Start
<1>2. record = None
  BY <1>1, SMTT(60) DEF IInv, PlanInv, Destroying, DestroyPlan, WorkSteps, PackSteps, Doing
<1>3. ~Working' /\ ~Building'
  BY <1>1 DEF Working, Building
<1>4. Found' = <<>> /\ ~Soft'
  BY <1>1 DEF Found, Soft
<1>5. Disk'
  BY <1>1, <1>4, EmptyChain DEF ChainInv, Disk
<1> QED
  BY <1>1, <1>2, <1>3, <1>5 DEF ChainInv, RefusedForOnePack

\* A process dies: its store is gone, the disk and the record stay.
LEMMA CrashKeeps ==
  ASSUME ChainInv, Crash
  PROVE  ChainInv'
<1>1. Drop /\ UNCHANGED <<record, dir, arg, frames, acked, begun, refused>>
  BY DEF Crash
<1>2. RefusedForOnePack'
  BY <1>1 DEF ChainInv, RefusedForOnePack
<1> QED
  BY <1>1, <1>2, DroppedStore

\* A resume that fails changes nothing.
LEMMA StutterKeeps ==
  ASSUME ChainInv, UNCHANGED vars
  PROVE  ChainInv'
<1>1. UNCHANGED <<record, dir, store, plan, at, arg, frames, acked, begun, refused>>
  BY DEF vars
<1>2. UNCHANGED <<Found, Soft, Pack>>
  BY <1>1 DEF Found, Soft, Pack, PackOf
<1>3. Disk' /\ RefusedForOnePack'
  BY <1>1, DiskKept DEF ChainInv, RefusedForOnePack, Disk
<1>4. record' # None \/ Working' => Ledger'
  BY <1>1, LedgerKept DEF ChainInv, Working
<1>5. Building' => Building
  BY <1>1 DEF Building, Working
<1>6. Stored => Stored'
  BY <1>1 DEF Stored
<1>7. Located => Located'
  <2>1. /\ Binding(Pack, store.objects)' = Binding(Pack, store.objects)
        /\ Installed(Pack, record.first)' = Installed(Pack, record.first)
    BY <1>1, <1>2 DEF Binding, Installed
  <2> QED
    BY <1>1, <1>2, <2>1 DEF Located, Doing
<1>8. Placed => Placed'
  <2>1. /\ Taking' = Taking /\ Whole' = Whole /\ CanPush' = CanPush
        /\ Resting' = Resting /\ Held' = Held
        /\ \A k : Lacks(k)' = Lacks(k)
    BY <1>1, <1>2 DEF Taking, Whole, CanPush, Lacks, Resting, Held
  <2>2. \A rest : Flushing(rest)' = Flushing(rest) /\ Ending(rest)' = Ending(rest)
    BY <1>1, <2>1 DEF Flushing, Ending
  <2>3. \A step : Due(step) => Due(step)'
    <3> SUFFICES ASSUME NEW step, Due(step) PROVE Due(step)'
      OBVIOUS
    <3>1. /\ step = "directory" => (plan = <<"directory", "descriptor">> /\ store = NewStore)'
          /\ step = "descriptor" =>
               (plan = <<"descriptor">> /\ store = [NewStore EXCEPT !.state = Open])'
          /\ step = "push" => (plan = <<"push">> /\ Taking /\ CanPush)'
          /\ step = "page" => (Taking /\ Flushing(Tail(plan)))'
      BY <1>1, <2>1, <2>2 DEF Due
    <3>2. /\ step = "event_index" => (plan = IndexPlan /\ Whole /\ Lacks("event_index"))'
          /\ step = "lane_index" =>
               (plan = LanePlan /\ Whole /\ ~Lacks("event_index") /\ Lacks("lane_index"))'
          /\ step = "manifest" =>
               (plan = ManifestPlan /\ Whole /\ ~Lacks("lane_index") /\ Lacks("manifest"))'
          /\ step = "commit" =>
               (plan = CommitPlan /\ Whole /\ FinalCheckpoint(store.objects))'
      BY <1>1, <2>1 DEF Due
    <3>3. /\ step = "seal" =>
               (/\ Tail(plan) # <<>> /\ Head(Tail(plan)) = "generation"
                /\ store.state = DataCommitted /\ Ending(Tail(Tail(plan))))'
          /\ step = "generation" => (store.state = Sealed /\ Ending(Tail(plan)))'
          /\ step \in {"rename", "publish"} =>
               (/\ store.state = Sealed /\ Ending(plan)
                /\ record.publisher = store.objects)'
      BY <1>1, <2>2 DEF Due
    <3> QED
      BY <1>1, <2>1, <2>2, <3>1, <3>2, <3>3 DEF Due
  <2> QED
    BY <1>1, <2>1, <2>3 DEF Placed, Doing
<1> QED
  BY <1>3, <1>4, <1>5, <1>6, <1>7, <1>8 DEF ChainInv

-----------------------------------------------------------------------------
(***************************************************************************)
(* resume                                                                  *)
(***************************************************************************)

\* A pending reservation is that of an installed pack, as resume looks for it,
\* when its pack is there.
LEMMA HeldIff ==
  ASSUME Ledger, dir # None, Chain(Found), record.pending
  PROVE  (\E i \in DOMAIN dir.packs : BindingOf(dir.packs, i) = record.last) <=>
           Found # record.last.prior
<1> DEFINE d == dir.packs
           prior == record.last.prior
           pack == record.last.pack
           e == Installed(pack, record.first)
<1>1. /\ Found = d /\ d \in Seq(PackFiles) /\ prior \in Seq(PackFiles)
      /\ record.last = Binding(pack, prior) /\ pack \in Packs
      /\ d = prior \/ d = Append(prior, e)
  BY DEF Found, Ledger, Chain
<1>2. ASSUME NEW i \in DOMAIN d, BindingOf(d, i) = record.last PROVE d # prior
  <2>1. record.last.prior = SubSeq(d, 1, i - 1)
    <3>1. BindingOf(d, i).prior = SubSeq(d, 1, i - 1)
      BY DEF BindingOf, Binding
    <3> QED
      BY <1>2, <3>1
  <2>2. Len(SubSeq(d, 1, i - 1)) # Len(d)
    <3> HIDE DEF d
    <3> QED BY <1>1, SMTT(60)
  <2> QED
    BY <2>1, <2>2
<1>3. ASSUME d # prior PROVE \E i \in DOMAIN d : BindingOf(d, i) = record.last
  <2> DEFINE i == Len(prior) + 1
  <2>1. d = Append(prior, e)
    BY <1>1, <1>3
  <2> HIDE DEF e, prior, d, pack
  <2>2. /\ i \in DOMAIN d /\ d[i] = e /\ SubSeq(d, 1, i - 1) = prior
    BY <1>1, <2>1, SMTT(60)
  <2>3. /\ e.kind = pack.kind /\ e.ordinal = pack.ordinal /\ e.frames = pack.frames
    BY DEF e, Installed
  <2>4. [kind |-> pack.kind, ordinal |-> pack.ordinal, frames |-> pack.frames] = pack
    BY <1>1 DEF Packs
  <2> HIDE DEF i
  <2>5. BindingOf(d, i) = Binding(pack, prior)
    BY <2>2, <2>3, <2>4 DEF BindingOf
  <2> QED
    BY <1>1, <2>2, <2>5
<1> QED
  BY <1>1, <1>2, <1>3

\* The plans of resume are put together step by step.
LEMMA ResumeJoins ==
  LET End == {<<"publish">>, <<"rename", "publish">>} IN
  /\ <<"rename">> \o <<"publish">> = <<"rename", "publish">>
  /\ <<>> \o <<"publish">> = <<"publish">> /\ <<>> \o <<>> = <<>>
  /\ <<"complete">> # <<>> /\ Head(<<"complete">>) = "complete"
  /\ Tail(<<"complete">>) = <<>> /\ <<"complete">> \o <<>> = <<"complete">>
  /\ \A rest \in End :
       LET g == <<"generation">> \o rest
           s == <<"seal">> \o g
           c == <<"complete">> \o s
       IN /\ g # <<>> /\ Head(g) = "generation" /\ Tail(g) = rest
          /\ s # <<>> /\ Head(s) = "seal" /\ Tail(s) = g
          /\ c # <<>> /\ Head(c) = "complete" /\ Tail(c) = s
          /\ <<>> \o (<<>> \o g) = g /\ <<>> \o s = s
<1> DEFINE p2 == <<"rename", "publish">>
<1>1. /\ <<"publish">> \in Seq(WorkSteps) /\ p2 \in Seq(WorkSteps)
      /\ <<"complete">> \in Seq(WorkSteps)
  BY SMTT(60) DEF WorkSteps, PackSteps
<1>2. "complete" \in WorkSteps /\ "seal" \in WorkSteps /\ "generation" \in WorkSteps
  BY DEF WorkSteps
<1>3. <<"rename">> \o <<"publish">> = p2
  <2>1. p2 # <<>> => p2 = <<Head(p2)>> \o Tail(p2)
    <3> HIDE DEF p2
    <3> QED BY <1>1, SMTT(60)
  <2> QED
    BY <2>1, EndTails
<1>4. \A s \in Seq(WorkSteps) : <<>> \o s = s /\ s \o <<>> = s
  BY SMTT(60)
<1>5. <<"complete">> # <<>> /\ Head(<<"complete">>) = "complete" /\ Tail(<<"complete">>) = <<>>
  BY SMTT(60)
<1>6. ASSUME NEW rest \in Seq(WorkSteps)
      PROVE  LET g == <<"generation">> \o rest
                 s == <<"seal">> \o g
                 c == <<"complete">> \o s
             IN /\ g # <<>> /\ Head(g) = "generation" /\ Tail(g) = rest
                /\ s # <<>> /\ Head(s) = "seal" /\ Tail(s) = g
                /\ c # <<>> /\ Head(c) = "complete" /\ Tail(c) = s
                /\ <<>> \o (<<>> \o g) = g /\ <<>> \o s = s
  <2> DEFINE g == <<"generation">> \o rest
             s == <<"seal">> \o g
             c == <<"complete">> \o s
  <2>1. g # <<>> /\ Head(g) = "generation" /\ Tail(g) = rest /\ g \in Seq(WorkSteps)
    BY <1>2, PlanCons
  <2> HIDE DEF g
  <2>2. s # <<>> /\ Head(s) = "seal" /\ Tail(s) = g /\ s \in Seq(WorkSteps)
    BY <1>2, <2>1, PlanCons
  <2> HIDE DEF s
  <2>3. c # <<>> /\ Head(c) = "complete" /\ Tail(c) = s
    BY <1>2, <2>2, PlanCons
  <2>4. <<>> \o (<<>> \o g) = g /\ <<>> \o s = s
    BY <1>4, <2>1, <2>2
  <2> HIDE DEF c
  <2> QED
    BY <2>1, <2>2, <2>3, <2>4 DEF g, s, c
<1>7. \A rest \in {<<"publish">>, p2} : rest \in Seq(WorkSteps)
  BY <1>1
<1>8. /\ <<>> \o <<"publish">> = <<"publish">> /\ <<>> \o <<>> = <<>>
      /\ <<"complete">> \o <<>> = <<"complete">>
  <2>1. <<>> \in Seq(WorkSteps)
    BY EmptySeq
  <2> QED
    BY <1>1, <1>4, <2>1
<1> QED
  BY <1>3, <1>5, <1>6, <1>7, <1>8

\* resume makes a store of what it finds and goes on from there.
LEMMA ResumeKeeps ==
  ASSUME ChainInv, Resume
  PROVE  ChainInv'
<1> DEFINE d == dir.packs
           held == record.pending /\ \E i \in DOMAIN d : BindingOf(d, i) = record.last
<1>1. /\ record # None /\ dir # None /\ d # <<>>
      /\ dir' = [dir EXCEPT !.temp = FALSE, !.soft = FALSE]
      /\ store' = Reopened(d) /\ plan' = ResumePlan(dir) /\ at' = "start"
      /\ UNCHANGED <<record, arg, frames, acked, begun, refused>>
  BY DEF Resume, Accepts, Start
<1>2. Disk /\ Ledger /\ dir \in Directories /\ Found = d /\ Chain(d)
  BY <1>1 DEF ChainInv, Disk, Found
<1>3. /\ dir' \in Directories /\ dir'.packs = d /\ dir'.soft = FALSE
      /\ dir'.name = dir.name /\ dir' # None
  BY <1>1, <1>2, AbsenceAssumption DEF Directories
<1>4. Found' = d /\ Found' = Found /\ ~Soft'
  BY <1>2, <1>3 DEF Found, Soft
<1>5. Ledger'
  BY <1>1, <1>2, <1>3, <1>4, LedgerSame
<1>6. Disk' /\ RefusedForOnePack'
  <2>1. Disk'
    BY <1>1, <1>2, <1>3, <1>4 DEF Disk
  <2> QED
    BY <1>1, <2>1 DEF ChainInv, RefusedForOnePack
<1>7. /\ DOMAIN store' = StoreFields /\ store'.state = record.state
      /\ store'.taken = RecordsOf(d) /\ store'.paged = Len(RecordsOf(d))
      /\ store'.pack = <<>> /\ store'.objects = d
      /\ store'.manifest = ManifestOf(d) /\ store'.final = FinalCheckpoint(d)
  <2> DEFINE t == [NewStore EXCEPT !.state = record.state, !.taken = RecordsOf(d),
                     !.paged = Len(RecordsOf(d)), !.objects = d,
                     !.manifest = ManifestOf(d), !.final = FinalCheckpoint(d)]
  <2>1. /\ DOMAIN t = StoreFields /\ t.state = record.state
        /\ t.taken = RecordsOf(d) /\ t.paged = Len(RecordsOf(d))
        /\ t.pack = <<>> /\ t.objects = d
        /\ t.manifest = ManifestOf(d) /\ t.final = FinalCheckpoint(d)
    BY DEF NewStore, StoreFields
  <2>2. store' = NextCheckpoint(t)
    BY <1>1 DEF Reopened
  <2> HIDE DEF t
  <2> QED
    BY <2>1, <2>2 DEF NextCheckpoint, StoreFields
<1> HIDE DEF d
<1>8. Stored'
  <2>1. RecordsOf(d) \in Seq(Bodies) /\ Len(RecordsOf(d)) <= Records
    BY <1>2, RecordsType DEF Chain
  <2>2. /\ Len(RecordsOf(d)) \in 0 .. Len(RecordsOf(d))
        /\ SubSeq(RecordsOf(d), 1, Len(RecordsOf(d))) = RecordsOf(d)
        /\ RecordsOf(d) \o <<>> = RecordsOf(d)
    BY <2>1, SMTT(60)
  <2>3. FlattenSeq(<<>>) = <<>>
    BY FlattenIs, EmptySeq
  <2>4. <<>> \in Seq(Seq(Bodies))
    BY EmptySeq
  <2> QED
    BY <1>2, <1>7, <2>1, <2>2, <2>3, <2>4 DEF Stored
<1>9. held <=> Held
  BY <1>1, <1>2, HeldIff DEF Held, d
<1>10. Held' = Held
  BY <1>1, <1>4 DEF Held
<1>11. \A kind : Lacks(kind)' <=> ~Has(d, kind)
  BY <1>7 DEF Lacks
<1> DEFINE sealing == record.state = DataCommitted /\ Has(d, "aliases")
           publishing == sealing \/ record.state = Sealed
           a == IF held THEN <<"complete">> ELSE <<>>
           b == IF sealing THEN <<"seal">> ELSE <<>>
           g == IF publishing THEN <<"generation">> ELSE <<>>
           r == IF publishing /\ dir.name = "open" THEN <<"rename">> ELSE <<>>
           p == IF publishing THEN <<"publish">> ELSE <<>>
           rest == r \o p
           Ends(x) == /\ ~Lacks("aliases")'
                      /\ \/ x = <<"rename", "publish">>
                         \/ x = <<"publish">> /\ dir'.name = "published"
<1>12. plan' = a \o (b \o (g \o rest))
  <2>1. plan' = (((a \o b) \o g) \o r) \o p
    BY <1>1 DEF ResumePlan, d
  <2>2. /\ <<>> \in Seq(WorkSteps) /\ <<"complete">> \in Seq(WorkSteps)
        /\ <<"seal">> \in Seq(WorkSteps) /\ <<"generation">> \in Seq(WorkSteps)
        /\ <<"rename">> \in Seq(WorkSteps) /\ <<"publish">> \in Seq(WorkSteps)
    BY SMTT(60) DEF WorkSteps, PackSteps
  <2>3. /\ a \in Seq(WorkSteps) /\ b \in Seq(WorkSteps) /\ g \in Seq(WorkSteps)
        /\ r \in Seq(WorkSteps) /\ p \in Seq(WorkSteps)
    BY <2>2
  <2> HIDE DEF a, b, g, r, p
  <2>4. (((a \o b) \o g) \o r) \o p = a \o (b \o (g \o (r \o p)))
    <3>1. a \o b \in Seq(WorkSteps) /\ r \o p \in Seq(WorkSteps)
      BY <2>3, SMTT(60)
    <3>2. (a \o b) \o g \in Seq(WorkSteps) /\ g \o (r \o p) \in Seq(WorkSteps)
      BY <2>3, <3>1, SMTT(60)
    <3>3. (((a \o b) \o g) \o r) \o p = ((a \o b) \o g) \o (r \o p)
      BY <2>3, <3>2, SMTT(60)
    <3>4. ((a \o b) \o g) \o (r \o p) = (a \o b) \o (g \o (r \o p))
      BY <2>3, <3>1, SMTT(60)
    <3>5. (a \o b) \o (g \o (r \o p)) = a \o (b \o (g \o (r \o p)))
      BY <2>3, <3>2, SMTT(60)
    <3> QED
      BY <3>3, <3>4, <3>5
  <2> QED
    BY <2>1, <2>4
<1> HIDE DEF held
<1>13. ASSUME ~publishing
       PROVE  plan' = (IF Held THEN <<"complete">> ELSE <<>>)
  <2>1. b = <<>> /\ g = <<>> /\ rest = <<>>
    BY <1>13, ResumeJoins
  <2>2. plan' = a \o (<<>> \o (<<>> \o <<>>))
    BY <1>12, <2>1
  <2>3. plan' = a \o <<>>
    BY <2>2, ResumeJoins
  <2> QED
    BY <1>9, <2>3, ResumeJoins
<1>14. ASSUME publishing
       PROVE  /\ rest \in {<<"publish">>, <<"rename", "publish">>}
              /\ Ends(rest)
  <2>1. ~Lacks("aliases")'
    BY <1>2, <1>11, <1>14, StatesOrdered DEF Ledger
  <2>2. dir.name \in {"open", "published"}
    BY <1>2 DEF Directories
  <2>3. p = <<"publish">> /\ r = (IF dir.name = "open" THEN <<"rename">> ELSE <<>>)
    BY <1>14
  <2> HIDE DEF r, p
  <2>4. rest = IF dir.name = "open" THEN <<"rename", "publish">> ELSE <<"publish">>
    BY <2>3, ResumeJoins
  <2> HIDE DEF rest
  <2> QED
    BY <1>3, <2>1, <2>2, <2>4
<1>15. Located'
  <2>1. record.pending => record.last.prior = d \/ Doing("complete")'
    <3> SUFFICES ASSUME record.pending, record.last.prior # d PROVE Doing("complete")'
      OBVIOUS
    <3>1. Held /\ ~(record.state >= Sealed)
      BY <1>2 DEF Held, Ledger
    <3>2. a = <<"complete">> /\ record.state # Sealed
      BY <1>9, <3>1, StatesOrdered
    <3>3. CASE publishing
      <4>1. b = <<"seal">> /\ g = <<"generation">>
        BY <3>2, <3>3
      <4>2. plan' = <<"complete">> \o (<<"seal">> \o (<<"generation">> \o rest))
        BY <1>12, <3>2, <4>1
      <4> HIDE DEF rest
      <4> QED
        BY <1>14, <3>3, <4>2, ResumeJoins DEF Doing
    <3>4. CASE ~publishing
      BY <1>13, <3>1, <3>4, ResumeJoins DEF Doing
    <3> QED
      BY <3>3, <3>4
  <2> QED
    BY <1>1, <1>3, <1>4, <1>7, <2>1 DEF Located
<1>16. ASSUME plan' # <<>>, Head(plan') # "directory", Due(Head(plan))' PROVE Placed'
  BY <1>1, <1>7, <1>16 DEF Placed, Doing
<1>17. Placed'
  <2>1. CASE ~publishing
    <3>1. Resting'
      <4>1. d # <<>>
        BY <1>1 DEF d
      <4>2. ManifestOf(d) = None <=> ~Has(d, "manifest")
        BY <1>2, ManifestIs
      <4> QED
        BY <1>7, <1>11, <2>1, <4>1, <4>2 DEF Resting
    <3>2. CASE Held
      <4>1. plan' = <<"complete">>
        BY <1>13, <2>1, <3>2
      <4>2. plan' # <<>> /\ Head(plan') = "complete" /\ Tail(plan') = <<>>
        BY <4>1, ResumeJoins
      <4>3. Due("complete")'
        BY <1>10, <3>1, <3>2, <4>2 DEF Due
      <4> QED
        BY <1>16, <4>2, <4>3
    <3>3. CASE ~Held
      <4>1. plan' = <<>>
        BY <1>13, <2>1, <3>3
      <4> QED
        BY <1>1, <1>7, <3>1, <4>1 DEF Placed, Doing
    <3> QED
      BY <3>2, <3>3
  <2>2. CASE sealing
    <3>1. b = <<"seal">> /\ g = <<"generation">> /\ publishing
      BY <2>2
    <3>2. /\ rest \in {<<"publish">>, <<"rename", "publish">>} /\ Ends(rest)
      BY <1>14, <3>1
    <3> DEFINE sg == <<"seal">> \o (<<"generation">> \o rest)
    <3>3. CASE Held
      <4>1. plan' = <<"complete">> \o sg
        BY <1>9, <1>12, <3>1, <3>3
      <4> HIDE DEF rest
      <4>2. /\ plan' # <<>> /\ Head(plan') = "complete" /\ Tail(plan') # <<>>
            /\ Head(Tail(plan')) = "seal" /\ Tail(Tail(plan')) # <<>>
            /\ Head(Tail(Tail(plan'))) = "generation" /\ Tail(Tail(Tail(plan'))) = rest
        BY <3>2, <4>1, ResumeJoins
      <4>3. Due("complete")'
        BY <1>7, <1>10, <2>2, <3>2, <3>3, <4>2 DEF Due, Ending
      <4> QED
        BY <1>16, <4>2, <4>3
    <3>4. CASE ~Held
      <4>1. plan' = <<>> \o sg
        BY <1>9, <1>12, <3>1, <3>4
      <4> HIDE DEF rest
      <4>2. /\ plan' # <<>> /\ Head(plan') = "seal" /\ Tail(plan') # <<>>
            /\ Head(Tail(plan')) = "generation" /\ Tail(Tail(plan')) = rest
        BY <3>2, <4>1, ResumeJoins
      <4>3. Due("seal")'
        BY <1>7, <2>2, <3>2, <4>2 DEF Due, Ending
      <4> QED
        BY <1>16, <4>2, <4>3
    <3> QED
      BY <3>3, <3>4
  <2>3. CASE record.state = Sealed
    <3>1. b = <<>> /\ g = <<"generation">> /\ publishing
      BY <2>3, StatesDiffer
    <3>2. /\ rest \in {<<"publish">>, <<"rename", "publish">>} /\ Ends(rest)
      BY <1>14, <3>1
    <3>3. ~Held
      BY <1>2, <2>3, StatesOrdered DEF Held, Ledger
    <3>4. plan' = <<>> \o (<<>> \o (<<"generation">> \o rest))
      BY <1>9, <1>12, <3>1, <3>3
    <3> HIDE DEF rest
    <3>5. plan' # <<>> /\ Head(plan') = "generation" /\ Tail(plan') = rest
      BY <3>2, <3>4, ResumeJoins
    <3>6. Due("generation")'
      BY <1>7, <2>3, <3>2, <3>5 DEF Due, Ending
    <3> QED
      BY <1>16, <3>5, <3>6
  <2> QED
    BY <2>1, <2>2, <2>3
<1> QED
  BY <1>5, <1>6, <1>8, <1>15, <1>17 DEF ChainInv

\* A new result has nothing on disk.
LEMMA InitChainInv == Init => ChainInv
<1> SUFFICES ASSUME Init PROVE ChainInv
  OBVIOUS
<1>1. /\ record = None /\ dir = None /\ store = None /\ plan = <<>> /\ at = "start"
      /\ acked = <<>> /\ begun = FALSE /\ refused = None
  BY DEF Init
<1>2. Found = <<>> /\ ~Soft /\ ~Working
  BY <1>1 DEF Found, Soft, Working
<1>3. acked \in Seq(Bodies)
  BY <1>1, EmptySeq
<1> QED
  BY <1>1, <1>2, <1>3, EmptyChain DEF ChainInv, Disk, RefusedForOnePack, Building

\* Every step keeps disk, record and store in agreement: the calls, the writes
\* of a pack, the steps of a call, and the death of a process.
LEMMA NextKeepsChain == IInv /\ ChainInv /\ [Next]_vars => ChainInv'
<1> SUFFICES ASSUME IInv, ChainInv, [Next]_vars PROVE ChainInv'
  OBVIOUS
<1>1. CASE Calls
  BY <1>1, BeginKeeps, ResumeKeeps, StutterKeeps, FinishKeeps, DestroyKeeps, AppendKeeps,
     PublishKeeps DEF Calls, ResumeFails
<1>2. CASE Writes
  BY <1>2, ReserveKeeps, RefuseKeeps, TemporaryKeeps, InstallKeeps, SyncKeeps,
     AcknowledgeKeeps DEF Writes
<1>3. CASE Steps
  BY <1>3, DirectoryKeeps, PushKeeps, FlushKeeps, CommitKeeps, SealKeeps, GenerationKeeps,
     RenameKeeps, PublishedKeeps, UnkeyKeeps, EraseKeeps, CompleteKeeps DEF Steps
<1> QED
  BY <1>1, <1>2, <1>3, CrashKeeps, StutterKeeps DEF Next

\* A chain on disk that agrees with the record is all resume needs.
LEMMA ChainIsFound == ChainInv => ResumeFindsAll
<1> SUFFICES ASSUME ChainInv, begun, record # None
             PROVE  /\ Accepts(dir) /\ IsPrefix(acked, RecordsOf(dir.packs))
                    /\ dir.soft => record.pending
                    /\ record.state >= DataCommitted =>
                         /\ Len(RecordsOf(dir.packs)) = Records
                         /\ Has(dir.packs, "event_index") /\ Has(dir.packs, "lane_index")
                    /\ record.state = Published =>
                         dir.name = "published" /\ Last(dir.packs).kind = "aliases"
  BY DEF ResumeFindsAll
<1>1. Ledger /\ Chain(Found) /\ Found # <<>>
  BY DEF ChainInv, Disk, Ledger
<1>2. dir # None /\ Found = dir.packs
  BY <1>1 DEF Found
<1> DEFINE d == dir.packs
<1>3. /\ Chain(d) /\ d # <<>> /\ IsPrefix(acked, RecordsOf(d))
      /\ record.state >= DataCommitted => FinalCheckpoint(d) /\ record.data = RecordsOf(d)
      /\ record.state >= Sealed => record.chain = d /\ Has(d, "aliases")
      /\ record.state = Published => record.publisher = d /\ dir.name = "published"
      /\ dir.soft => record.pending
  BY <1>1, <1>2 DEF Ledger, Soft
<1> HIDE DEF d
<1>4. FinalCheckpoint(d) => Has(d, "manifest")
  BY DEF FinalCheckpoint, Has
<1>5. /\ ManifestOf(d) \in {None, RecordsOf(d)}
      /\ Has(d, "manifest") => ManifestOf(d) = RecordsOf(d)
  BY <1>3, ManifestIs
<1>6. /\ d[1].kind = "descriptor"
      /\ Has(d, "manifest") =>
           /\ Len(RecordsOf(d)) = Records
           /\ Has(d, "event_index") /\ Has(d, "lane_index")
      /\ Has(d, "aliases") => Last(d).kind = "aliases"
  BY <1>3 DEF Chain
<1>7. Accepts(dir)
  BY <1>2, <1>3, <1>4, <1>5, <1>6 DEF Accepts, d
<1>8. record.state = Published => Last(d).kind = "aliases"
  BY <1>3, <1>6, StatesOrdered
<1> QED
  BY <1>3, <1>4, <1>6, <1>7, <1>8 DEF d

\* Both invariants hold in every state a packed result goes through.
LEMMA BothKept == Spec => [](IInv /\ ChainInv)
  BY InitIInv, InitChainInv, NextKeepsIInv, NextKeepsChain, PTL DEF Spec

\* Wherever a process dies, resume accepts what is on disk and finds every
\* record that was under a checkpoint; only a pack whose reservation is pending
\* may be unsynced; committed data is whole, and a published result has its name
\* and its aliases (append, finish_acquisition, publish and resume).
THEOREM ResumeAlwaysFindsAll == Spec => []ResumeFindsAll
  BY BothKept, ChainIsFound, PTL

\* A store is refused its nonces only when other contents are formed for the
\* pack a dead process had reserved for, or when that pack was a checkpoint
\* (write_pack, reserve_nonce_range).
THEOREM RefusedForOnePackOnly == Spec => []RefusedForOnePack
<1>1. ChainInv => RefusedForOnePack
  BY DEF ChainInv
<1> QED
  BY BothKept, <1>1, PTL
=============================================================================
