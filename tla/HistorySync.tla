---------------------------- MODULE HistorySync ----------------------------
(***************************************************************************)
(* One connected source being copied into its encrypted corpus.            *)
(*                                                                         *)
(* A sync pass (connected_cli.rs: sync_binding, bounded_sync,              *)
(* sweep_older_history) runs three kinds of scan over the provider's       *)
(* history, page by page (full_history.rs):                                *)
(*   forward   from the durable checkpoint to the frozen high-water mark,  *)
(*             the only scan that moves the checkpoint;                    *)
(*   lookback  over the last Lookback of checkpointed time, for records    *)
(*             that became visible late;                                   *)
(*   sweep     a resumable replay of everything older, a few pages a pass. *)
(* The pass ends by recording an observation or a failed attempt.          *)
(*                                                                         *)
(* A page is fetched, validated and committed in one step: nothing the     *)
(* fetch reads can change what the commit of that page does, and a crash   *)
(* in between is a crash before the fetch.  Every other durable write      *)
(* (checkpoint, sweep cursor, sweep width, receipts) is a step of its own, *)
(* with crashes, provider changes and clock steps in between.              *)
(*                                                                         *)
(* The rows a corpus may not have yet are modelled by the values their     *)
(* readers treat alike: checkpoint 0, cursor 0, a receipt at time 0.       *)
(***************************************************************************)
EXTENDS Integers, FiniteSets

CONSTANTS
  Records,            \* the log records the provider may ever expose
  Ts,                 \* event timestamp of each record, in abstract millis
  PageSize,           \* most records the provider puts in one page
  InitWidth,          \* first partition width tried (365 days)
  Lookback,           \* recent history replayed by every pass (7 days)
  Day,                \* pause between two sweeps (DAY_MILLIS)
  MaxSyncPages,       \* page budget of one pass (256)
  MaxPartitionPages,  \* page budget of one partition (32)
  MaxSweepPages,      \* page budget of the sweep (8)
  FirstClock,         \* the wall clock when the source is connected
  MaxClock            \* bound on the modelled wall clock

ASSUME RecordsAssumption ==
  /\ Ts \in [Records -> Nat]
  /\ PageSize \in Nat \ {0}

ASSUME LimitsAssumption ==
  /\ InitWidth \in Nat \ {0}
  /\ Lookback \in Nat \ {0}
  /\ Day \in Nat \ {0}
  /\ MaxSyncPages \in Nat \ {0}
  /\ MaxPartitionPages \in Nat \ {0}
  /\ MaxSweepPages \in Nat \ {0}
  /\ FirstClock \in Nat \ {0}
  /\ MaxClock \in Nat \ {0}

VARIABLES
  clock,        \* the wall clock read by SystemTime::now
  visible,      \* records the provider lists now
  \* the corpus, durable
  stored,       \* history_records
  checkpoint,   \* corpus_scope.completed_through_millis
  cursor,       \* historical_reconciliation.cursor_millis
  sweepWidth,   \* historical_reconciliation.partition_millis
  lastCycle,    \* historical_reconciliation.last_cycle_end_millis
  observation,  \* last_sync_observation
  attempt,      \* last_sync_attempt
  \* the running pass, lost in a crash
  pc,           \* where the pass is
  mode,         \* which scan is running
  hw,           \* the high-water mark frozen when the pass began
  pages,        \* pages the pass has committed in finished scans
  width,        \* partition_millis of the next scan
  start, end,   \* the partition being scanned, both ends included
  scanPages,    \* pages of this scan
  cap,          \* max_pages_per_partition of this scan
  sweepLimit,   \* sweep_page_limit
  progress,     \* what bounded_sync will return
  \* the provider's side of the scan, and what the scan owes
  pending,      \* records the listing has still to return
  owed,         \* records visible when the scan began, still visible
  late          \* visible records no completed scan was bound to return

corpus == <<stored, checkpoint, cursor, sweepWidth, lastCycle, observation, attempt>>
scan == <<mode, start, end, scanPages, cap, pending, owed>>
pass == <<hw, pages, width, sweepLimit, progress>>
vars == <<clock, visible, corpus, pc, pass, scan, late>>

NoCycle == -1
NoProgress == [scanned |-> FALSE, reconciled |-> FALSE, replayed |-> FALSE]
Modes == {"none", "forward", "lookback", "sweep"}
Steps == {"idle", "forward", "scan", "exhausted", "reconcile", "sweepEnter",
          "sweep", "hint", "record", "failed"}

Min(a, b) == IF a <= b THEN a ELSE b
Max(a, b) == IF a >= b THEN a ELSE b

Between(lo, hi) == {r \in visible : lo <= Ts[r] /\ Ts[r] <= hi}

OlderEnd == hw - Lookback

LookbackStart == Max(checkpoint - Lookback, 0)

ForwardCap == Min(MaxSyncPages - pages, MaxPartitionPages)

Init ==
  /\ clock = FirstClock
  /\ visible \in SUBSET Records
  /\ stored = {}
  /\ checkpoint = 0
  /\ cursor = 0
  /\ sweepWidth = InitWidth
  /\ lastCycle = NoCycle
  /\ observation = [completedAt |-> 0, highWater |-> 0, scanned |-> FALSE, reconciled |-> FALSE]
  /\ attempt = [completedAt |-> 0, highWater |-> 0, succeeded |-> TRUE]
  /\ pc = "idle"
  /\ mode = "none"
  /\ hw = 0
  /\ pages = 0
  /\ width = InitWidth
  /\ start = 0
  /\ end = 0
  /\ scanPages = 0
  /\ cap = 0
  /\ sweepLimit = 0
  /\ progress = NoProgress
  /\ pending = {}
  /\ owed = {}
  /\ late = {}

----------------------------------------------------------------------------
(* The provider and the clock *)

ForwardScanning == mode = "forward"

\* Everything up to the horizon is, or is about to be declared, scanned.
Horizon == IF ForwardScanning THEN end ELSE checkpoint

Arrive(r) ==
  /\ r \notin visible
  /\ visible' = visible \cup {r}
  /\ late' = IF Ts[r] <= Horizon THEN late \cup {r} ELSE late
  /\ UNCHANGED <<clock, corpus, pc, pass, scan>>

Expire(r) ==
  /\ r \in visible
  /\ visible' = visible \ {r}
  /\ late' = late \ {r}
  /\ pending' = pending \ {r}
  /\ owed' = owed \ {r}
  /\ UNCHANGED <<clock, corpus, pc, pass, mode, start, end, scanPages, cap>>

Tick ==
  /\ clock < MaxClock
  /\ clock' = clock + 1
  /\ UNCHANGED <<visible, corpus, pc, pass, scan, late>>

ClockBack ==
  /\ clock' \in 1 .. (clock - 1)
  /\ UNCHANGED <<visible, corpus, pc, pass, scan, late>>

----------------------------------------------------------------------------
(* A scan of one partition *)

BeginScan(m, lo, hi, limit) ==
  /\ pc' = "scan"
  /\ mode' = m
  /\ start' = lo
  /\ end' = hi
  /\ scanPages' = 0
  /\ cap' = limit
  /\ pending' = Between(lo, hi)
  /\ owed' = Between(lo, hi)

EndScan ==
  /\ mode' = "none"
  /\ start' = 0
  /\ end' = 0
  /\ scanPages' = 0
  /\ cap' = 0
  /\ pending' = {}
  /\ owed' = {}

\* The pass returns or dies: its local variables are gone.
EndPass ==
  /\ pc' = "idle"
  /\ hw' = 0
  /\ pages' = 0
  /\ width' = InitWidth
  /\ sweepLimit' = 0
  /\ progress' = NoProgress
  /\ EndScan

\* mutant: an empty page ends the pagination, token or not
CommitPageStopsEmpty(page, more) ==
  /\ pc = "scan"
  /\ scanPages < cap
  /\ stored' = stored \cup page
  /\ pending' = pending \ page
  /\ more \/ pending' = {}
  /\ scanPages' = scanPages + 1
  /\ pc' = IF more /\ page # {} THEN "scan" ELSE "exhausted"
  /\ UNCHANGED <<clock, visible, checkpoint, cursor, sweepWidth, lastCycle, observation,
                 attempt, pass, mode, start, end, cap, owed, late>>

CommitPage(page, more) ==
  /\ pc = "scan"
  /\ scanPages < cap
  /\ stored' = stored \cup page
  /\ pending' = pending \ page
  /\ more \/ pending' = {}
  /\ scanPages' = scanPages + 1
  /\ pc' = IF more THEN "scan" ELSE "exhausted"
  /\ UNCHANGED <<clock, visible, checkpoint, cursor, sweepWidth, lastCycle, observation,
                 attempt, pass, mode, start, end, cap, owed, late>>

\* The provider fills the page, and gives a token exactly when records remain.
FullPage ==
  \E page \in SUBSET pending :
    /\ Cardinality(page) = Min(PageSize, Cardinality(pending))
    /\ CommitPage(page, page # pending)

\* The provider may also return a short or an empty page with a token, or
\* records that became visible after the listing began.
ShortPage ==
  \E page \in SUBSET Between(start, end), more \in BOOLEAN :
    /\ Cardinality(page) <= PageSize
    /\ CommitPage(page, more)

----------------------------------------------------------------------------
(* The pass *)

Report(s, c, h) ==
  /\ pc' = "record"
  /\ progress' = [scanned |-> s, reconciled |-> c, replayed |-> h]

BeginPass ==
  /\ pc = "idle"
  /\ pc' = "forward"
  /\ hw' = clock
  /\ pages' = 0
  /\ width' = InitWidth
  /\ UNCHANGED <<clock, visible, corpus, sweepLimit, progress, scan, late>>

ForwardCall ==
  /\ pc = "forward"
  /\ pages < MaxSyncPages
  /\ checkpoint < hw
  /\ BeginScan("forward", checkpoint, Min(checkpoint + width, hw), ForwardCap)
  /\ UNCHANGED <<clock, visible, corpus, hw, pages, width, sweepLimit, progress, late>>

ForwardReached ==
  /\ pc = "forward"
  /\ pages < MaxSyncPages
  /\ checkpoint = hw
  /\ pc' = "reconcile"
  /\ UNCHANGED <<clock, visible, corpus, pass, scan, late>>

ForwardRejected ==
  /\ pc = "forward"
  /\ pages < MaxSyncPages
  /\ checkpoint > hw
  /\ pc' = "failed"
  /\ UNCHANGED <<clock, visible, corpus, pass, scan, late>>

ForwardBudgetSpent ==
  /\ pc = "forward"
  /\ pages >= MaxSyncPages
  /\ Report(FALSE, FALSE, FALSE)
  /\ UNCHANGED <<clock, visible, corpus, hw, pages, width, sweepLimit, scan, late>>

ForwardPageLimit ==
  /\ pc = "scan"
  /\ mode = "forward"
  /\ scanPages = cap
  /\ pages' = pages + scanPages
  /\ EndScan
  /\ IF width <= 1
     THEN Report(FALSE, FALSE, FALSE) /\ width' = width
     ELSE pc' = "forward" /\ width' = Max(width \div 2, 1) /\ progress' = progress
  /\ UNCHANGED <<clock, visible, corpus, hw, sweepLimit, late>>

\* mutant: a finished partition counts as the whole pass
CompletePartitionToHighWater ==
  /\ pc = "exhausted"
  /\ mode = "forward"
  /\ end > checkpoint
  /\ checkpoint' = hw
  /\ pages' = pages + scanPages
  /\ EndScan
  /\ late' = late \ owed
  /\ pc' = IF end = hw THEN "reconcile" ELSE "forward"
  /\ UNCHANGED <<clock, visible, stored, cursor, sweepWidth, lastCycle, observation,
                 attempt, hw, width, sweepLimit, progress>>

CompletePartition ==
  /\ pc = "exhausted"
  /\ mode = "forward"
  /\ end > checkpoint
  /\ checkpoint' = end
  /\ pages' = pages + scanPages
  /\ EndScan
  /\ late' = late \ owed
  /\ pc' = IF end = hw THEN "reconcile" ELSE "forward"
  /\ UNCHANGED <<clock, visible, stored, cursor, sweepWidth, lastCycle, observation,
                 attempt, hw, width, sweepLimit, progress>>

ReconcileCall ==
  /\ pc = "reconcile"
  /\ pages < MaxSyncPages
  /\ BeginScan("lookback", LookbackStart, checkpoint, MaxSyncPages - pages)
  /\ UNCHANGED <<clock, visible, corpus, hw, pages, width, sweepLimit, progress, late>>

ReconcileBudgetSpent ==
  /\ pc = "reconcile"
  /\ pages >= MaxSyncPages
  /\ Report(TRUE, FALSE, FALSE)
  /\ UNCHANGED <<clock, visible, corpus, hw, pages, width, sweepLimit, scan, late>>

ReconcilePageLimit ==
  /\ pc = "scan"
  /\ mode = "lookback"
  /\ scanPages = cap
  /\ pages' = pages + scanPages
  /\ EndScan
  /\ Report(TRUE, FALSE, FALSE)
  /\ UNCHANGED <<clock, visible, corpus, hw, width, sweepLimit, late>>

ReconcileDone ==
  /\ pc = "exhausted"
  /\ mode = "lookback"
  /\ pages' = pages + scanPages
  /\ EndScan
  /\ late' = late \ owed
  /\ IF pages' = MaxSyncPages
     THEN Report(TRUE, TRUE, FALSE)
     ELSE pc' = "sweepEnter" /\ progress' = progress
  /\ UNCHANGED <<clock, visible, corpus, hw, width, sweepLimit>>

----------------------------------------------------------------------------
(* The sweep of older history *)

SweepNotApplicable ==
  /\ pc = "sweepEnter"
  /\ OlderEnd <= 0
  /\ Report(TRUE, TRUE, TRUE)
  /\ UNCHANGED <<clock, visible, corpus, hw, pages, width, sweepLimit, scan, late>>

\* mutant: one finished cycle is enough
SweepRecentForEver == cursor = 0 /\ lastCycle # NoCycle

SweepRecent == cursor = 0 /\ lastCycle # NoCycle /\ OlderEnd - lastCycle < Day

SweepNotDue ==
  /\ pc = "sweepEnter"
  /\ OlderEnd > 0
  /\ SweepRecent
  /\ Report(TRUE, TRUE, TRUE)
  /\ UNCHANGED <<clock, visible, corpus, hw, pages, width, sweepLimit, scan, late>>

SweepStart ==
  /\ pc = "sweepEnter"
  /\ OlderEnd > 0
  /\ ~SweepRecent
  /\ cursor < OlderEnd
  /\ pc' = "sweep"
  /\ width' = sweepWidth
  /\ sweepLimit' = Min(pages + MaxSweepPages, MaxSyncPages)
  /\ UNCHANGED <<clock, visible, corpus, hw, pages, progress, scan, late>>

SweepCall ==
  /\ pc = "sweep"
  /\ pages < sweepLimit
  /\ BeginScan("sweep", cursor, Min(cursor + width, OlderEnd),
               Min(sweepLimit - pages, MaxPartitionPages))
  /\ UNCHANGED <<clock, visible, corpus, hw, pages, width, sweepLimit, progress, late>>

SweepBudgetSpent ==
  /\ pc = "sweep"
  /\ pages >= sweepLimit
  /\ Report(TRUE, TRUE, FALSE)
  /\ UNCHANGED <<clock, visible, corpus, hw, pages, width, sweepLimit, scan, late>>

SweepPageLimit ==
  /\ pc = "scan"
  /\ mode = "sweep"
  /\ scanPages = cap
  /\ pages' = pages + scanPages
  /\ EndScan
  /\ IF width = 1
     THEN Report(TRUE, TRUE, FALSE) /\ width' = width
     ELSE pc' = "hint" /\ width' = Max(width \div 2, 1) /\ progress' = progress
  /\ UNCHANGED <<clock, visible, corpus, hw, sweepLimit, late>>

SweepHint ==
  /\ pc = "hint"
  /\ sweepWidth' = Min(sweepWidth, width)
  /\ pc' = "sweep"
  /\ UNCHANGED <<clock, visible, stored, checkpoint, cursor, lastCycle, observation,
                 attempt, pass, scan, late>>

\* mutant: the cursor stays at the end of a finished cycle
SweepProgressNoReset ==
  /\ pc = "exhausted"
  /\ mode = "sweep"
  /\ pages' = pages + scanPages
  /\ EndScan
  /\ late' = late \ owed
  /\ IF end = OlderEnd
     THEN cursor' = end /\ lastCycle' = end /\ Report(TRUE, TRUE, TRUE)
     ELSE cursor' = end /\ pc' = "sweep" /\ UNCHANGED <<lastCycle, progress>>
  /\ UNCHANGED <<clock, visible, stored, checkpoint, sweepWidth, observation, attempt,
                 hw, width, sweepLimit>>

SweepProgress ==
  /\ pc = "exhausted"
  /\ mode = "sweep"
  /\ pages' = pages + scanPages
  /\ EndScan
  /\ late' = late \ owed
  /\ IF end = OlderEnd
     THEN cursor' = 0 /\ lastCycle' = end /\ Report(TRUE, TRUE, TRUE)
     ELSE cursor' = end /\ pc' = "sweep" /\ UNCHANGED <<lastCycle, progress>>
  /\ UNCHANGED <<clock, visible, stored, checkpoint, sweepWidth, observation, attempt,
                 hw, width, sweepLimit>>

----------------------------------------------------------------------------
(* The end of the pass: a receipt, or an error *)

\* mutant: they accept whatever the clock says
AcceptedAlways(prior) == TRUE

\* The receipts refuse a clock that ran backwards.
Accepted(prior) == prior.completedAt <= clock /\ prior.highWater <= hw

\* mutant: the receipt claims coverage up to the time it is written
RecordObservationNow ==
  /\ pc = "record"
  /\ clock >= hw
  /\ Accepted(observation)
  /\ Accepted(attempt)
  /\ observation' = [completedAt |-> clock, highWater |-> clock,
                     scanned |-> progress.scanned, reconciled |-> progress.reconciled]
  /\ attempt' = [completedAt |-> clock, highWater |-> hw, succeeded |-> TRUE]
  /\ EndPass
  /\ UNCHANGED <<clock, visible, stored, checkpoint, cursor, sweepWidth, lastCycle,
                 late>>

RecordObservation ==
  /\ pc = "record"
  /\ clock >= hw
  /\ progress.reconciled => progress.scanned
  /\ progress.scanned => checkpoint >= hw
  /\ Accepted(observation)
  /\ Accepted(attempt)
  /\ observation' = [completedAt |-> clock, highWater |-> hw,
                     scanned |-> progress.scanned, reconciled |-> progress.reconciled]
  /\ attempt' = [completedAt |-> clock, highWater |-> hw, succeeded |-> TRUE]
  /\ EndPass
  /\ UNCHANGED <<clock, visible, stored, checkpoint, cursor, sweepWidth, lastCycle,
                 late>>

RecordFailure ==
  /\ pc = "failed"
  /\ clock >= hw
  /\ Accepted(attempt)
  /\ attempt' = [completedAt |-> clock, highWater |-> hw, succeeded |-> FALSE]
  /\ EndPass
  /\ UNCHANGED <<clock, visible, stored, checkpoint, cursor, sweepWidth, lastCycle,
                 observation, late>>

ReceiptRefused ==
  /\ \/ pc = "record" /\ ~(clock >= hw /\ Accepted(observation) /\ Accepted(attempt))
     \/ pc = "failed" /\ ~(clock >= hw /\ Accepted(attempt))
  /\ EndPass
  /\ UNCHANGED <<clock, visible, corpus, late>>

\* A refused binding or credential, a provider error, an invalid page, a
\* conflicting record or a storage error ends the pass.
PassFails ==
  /\ pc \notin {"idle", "record", "failed"}
  /\ pc = "scan" => scanPages < cap
  /\ pc' = "failed"
  /\ EndScan
  /\ UNCHANGED <<clock, visible, corpus, pass, late>>

\* WAL pressure ends the pass and leaves no receipt.
ScanPressure ==
  /\ pc = "scan"
  /\ scanPages < cap
  /\ EndPass
  /\ UNCHANGED <<clock, visible, corpus, late>>

Crash ==
  /\ pc # "idle"
  /\ EndPass
  /\ UNCHANGED <<clock, visible, corpus, late>>

----------------------------------------------------------------------------

PassStep ==
  \/ BeginPass
  \/ ForwardCall \/ ForwardReached \/ ForwardRejected \/ ForwardBudgetSpent
  \/ ForwardPageLimit \/ CompletePartition
  \/ ReconcileCall \/ ReconcileBudgetSpent \/ ReconcilePageLimit \/ ReconcileDone
  \/ SweepNotApplicable \/ SweepNotDue \/ SweepStart \/ SweepCall
  \/ SweepBudgetSpent \/ SweepPageLimit \/ SweepHint \/ SweepProgress
  \/ RecordObservation \/ RecordFailure \/ ReceiptRefused
  \/ FullPage

Fault == ShortPage \/ PassFails \/ ScanPressure \/ Crash \/ ClockBack

Environment == Tick \/ \E r \in Records : Arrive(r) \/ Expire(r)

Next == PassStep \/ Fault \/ Environment

Spec == Init /\ [][Next]_vars

----------------------------------------------------------------------------
(* Properties *)

Millis == Nat
Observation == [completedAt : Millis, highWater : Millis,
                scanned : BOOLEAN, reconciled : BOOLEAN]
Attempt == [completedAt : Millis, highWater : Millis, succeeded : BOOLEAN]
Progress == [scanned : BOOLEAN, reconciled : BOOLEAN, replayed : BOOLEAN]

\* The types of the corpus rows and of the pass's local variables.
TypeOK ==
  /\ clock \in Nat \ {0}
  /\ visible \subseteq Records
  /\ stored \subseteq Records
  /\ checkpoint \in Millis
  /\ cursor \in Millis
  /\ sweepWidth \in Nat \ {0}
  /\ lastCycle \in Nat \cup {NoCycle}
  /\ observation \in Observation
  /\ attempt \in Attempt
  /\ pc \in Steps
  /\ mode \in Modes
  /\ hw \in Millis
  /\ pages \in Nat
  /\ width \in Nat \ {0}
  /\ start \in Millis
  /\ end \in Millis
  /\ scanPages \in Nat
  /\ cap \in Nat
  /\ sweepLimit \in Nat
  /\ progress \in Progress
  /\ pending \subseteq Records
  /\ owed \subseteq Records
  /\ late \subseteq Records

\* "A checkpoint write must never be ahead of the durable pages": every record
\* the provider lists at or before the checkpoint is in the corpus, unless it
\* became visible only after the last scan of its time began.
CheckpointSound ==
  checkpoint > 0 =>
    \A r \in visible : Ts[r] <= checkpoint => r \in stored \/ r \in late

\* The sweep never finds its cursor at or past the end of older history, so
\* its InvalidConfiguration return is dead whatever the clock does.
SweepCursorBehind ==
  /\ cursor > 0 => cursor + Lookback < checkpoint
  /\ pc = "sweepEnter" /\ OlderEnd > 0 => cursor < OlderEnd

\* complete_partition is never refused: the scanned partition ends after the
\* checkpoint it started from.
PartitionAdvances ==
  mode = "forward" => start = checkpoint /\ end > checkpoint

\* A receipt that claims the scan reached its high-water mark, or that a sweep
\* cycle ended, is backed by a checkpoint at least that far, for ever after.
ReceiptsBackedByCheckpoint ==
  /\ observation.scanned => observation.highWater <= checkpoint
  /\ observation.reconciled => observation.scanned
  /\ lastCycle # NoCycle => lastCycle + Lookback <= checkpoint
  /\ pc = "record" /\ progress.scanned => checkpoint = hw

\* The page budget of a pass bounds what it commits, scans in flight included.
PageBudget ==
  pages + scanPages <= MaxSyncPages

\* The checkpoint, the corpus and the two receipts only move forward, and a
\* failed attempt leaves the last successful observation in place.
MonotoneStep ==
  /\ checkpoint' >= checkpoint
  /\ stored \subseteq stored'
  /\ observation'.highWater >= observation.highWater
  /\ attempt'.completedAt >= attempt.completedAt
  /\ ~attempt'.succeeded => observation' = observation

Monotone == [][MonotoneStep]_vars

\* The pages, passes, budgets and crashes of the sync implement the promise of
\* HistoryReplica: the checkpoint moves only over time whose records are stored,
\* and a record that came late is forgotten only once it is stored.
Replica == INSTANCE HistoryReplica WITH horizon <- Horizon

ImplementsReplica == Replica!Spec

=============================================================================
