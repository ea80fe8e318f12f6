------------------------- MODULE HistorySyncProofs -------------------------
(***************************************************************************)
(* Proofs about HistorySync, for every set of records, every page size and *)
(* every budget: its invariants, that it never takes anything back, and    *)
(* that it implements HistoryReplica.                                      *)
(***************************************************************************)
EXTENDS HistorySync, TLAPS

\* A leaf that names no prover is given to Zenon
USE ZenonT(60)

\* How the scan relates to the provider and to the pass that runs it.
ScanInv ==
  /\ mode = "none" <=> pc \notin {"scan", "exhausted"}
  /\ pending \subseteq visible
  /\ owed \subseteq visible
  /\ owed \subseteq stored \cup pending
  /\ pc = "exhausted" => pending = {}
  /\ scanPages <= cap

\* A forward scan answers for every record from its checkpoint to its end.
ForwardInv ==
  mode = "forward" =>
    /\ start = checkpoint
    /\ end > checkpoint
    /\ end <= hw
    /\ \A r \in visible : checkpoint <= Ts[r] /\ Ts[r] <= end => r \in owed \/ r \in late

\* Past the forward scan the checkpoint is the high-water mark, and the sweep
\* stays behind the lookback.
SweepInv ==
  /\ cursor > 0 => cursor + Lookback < checkpoint
  /\ lastCycle # NoCycle => lastCycle + Lookback <= checkpoint
  /\ \/ pc \in {"reconcile", "sweepEnter", "sweep", "hint"}
     \/ mode \in {"lookback", "sweep"}
     \/ pc = "record" /\ progress.scanned
     => checkpoint = hw
  /\ pc \in {"sweep", "hint"} \/ mode = "sweep" => cursor < OlderEnd
  /\ mode = "sweep" => end <= OlderEnd

\* A receipt that claims a finished scan is backed by the checkpoint.
ReceiptInv ==
  /\ observation.scanned => observation.highWater <= checkpoint
  /\ observation.reconciled => observation.scanned
  /\ pc = "record" /\ progress.reconciled => progress.scanned

\* The pages a scan may still commit are within the budget of the pass.
BudgetInv ==
  /\ pages + cap <= MaxSyncPages
  /\ sweepLimit <= MaxSyncPages

\* The inductive invariant.
IInv ==
  /\ TypeOK
  /\ ScanInv
  /\ ForwardInv
  /\ CheckpointSound
  /\ SweepInv
  /\ ReceiptInv
  /\ BudgetInv

----------------------------------------------------------------------------

\* Halving a width as bounded_sync does never reaches zero.
LEMMA HalfPositive == \A w \in Nat \ {0} : Max(w \div 2, 1) \in Nat \ {0}
  BY SMTT(60) DEF Max

\* The result a pass hands to record_sync_observation is well typed.
LEMMA ReportType ==
  ASSUME NEW s \in BOOLEAN, NEW c \in BOOLEAN, NEW h \in BOOLEAN, Report(s, c, h)
  PROVE  progress' \in Progress /\ pc' = "record"
  BY DEF Report, Progress

\* Every step keeps the rows of the corpus and the variables of the pass well typed.
LEMMA TypeStep == IInv /\ [Next]_vars => TypeOK'
<1> SUFFICES ASSUME IInv, [Next]_vars PROVE TypeOK'
  OBVIOUS
<1> USE RecordsAssumption, LimitsAssumption
    DEF IInv, TypeOK, Millis, Observation, Attempt, Progress, NoCycle,
        NoProgress, Modes, Steps, Min, Max, corpus, pass, scan
<1>1. CASE BeginPass
  BY <1>1 DEF BeginPass
<1>2. CASE ForwardCall
  BY <1>2, SMTT(60) DEF ForwardCall, BeginScan, Between, ForwardCap
<1>3. CASE ForwardReached
  BY <1>3 DEF ForwardReached
<1>4. CASE ForwardRejected
  BY <1>4 DEF ForwardRejected
<1>5. CASE ForwardBudgetSpent
  BY <1>5 DEF ForwardBudgetSpent, Report
<1>6. CASE ForwardPageLimit
  <2>1. CASE width <= 1
    <3>1. Report(FALSE, FALSE, FALSE)
      BY <1>6, <2>1 DEF ForwardPageLimit
    <3>2. progress' \in Progress /\ pc' = "record"
      BY <3>1, ReportType
    <3> QED
      BY <1>6, <2>1, <3>2, SMTT(60) DEF ForwardPageLimit, EndScan
  <2>2. CASE ~(width <= 1)
    BY <1>6, <2>2, HalfPositive, SMTT(60) DEF ForwardPageLimit, Report, EndScan
  <2> QED BY <2>1, <2>2
<1>7. CASE CompletePartition
  BY <1>7, SMTT(60) DEF CompletePartition, EndScan
<1>8. CASE ReconcileCall
  BY <1>8, SMTT(60) DEF ReconcileCall, BeginScan, Between, LookbackStart
<1>9. CASE ReconcileBudgetSpent
  BY <1>9 DEF ReconcileBudgetSpent, Report
<1>10. CASE ReconcilePageLimit
  BY <1>10, SMTT(60) DEF ReconcilePageLimit, Report, EndScan
<1>11. CASE ReconcileDone
  <2>1. CASE pages' = MaxSyncPages
    <3>1. Report(TRUE, TRUE, FALSE)
      BY <1>11, <2>1 DEF ReconcileDone
    <3>2. progress' \in Progress /\ pc' = "record"
      BY <3>1, ReportType
    <3> QED
      BY <1>11, <2>1, <3>2 DEF ReconcileDone, EndScan
  <2>2. CASE ~(pages' = MaxSyncPages)
    BY <1>11, <2>2, HalfPositive, SMTT(60) DEF ReconcileDone, Report, EndScan
  <2> QED BY <2>1, <2>2
<1>12. CASE SweepNotApplicable
  BY <1>12 DEF SweepNotApplicable, Report
<1>13. CASE SweepNotDue
  BY <1>13 DEF SweepNotDue, Report
<1>14. CASE SweepStart
  BY <1>14, SMTT(60) DEF SweepStart
<1>15. CASE SweepCall
  BY <1>15, SMTT(60) DEF SweepCall, BeginScan, Between, SweepInv, OlderEnd
<1>16. CASE SweepBudgetSpent
  BY <1>16 DEF SweepBudgetSpent, Report
<1>17. CASE SweepPageLimit
  <2>1. CASE width = 1
    <3>1. Report(TRUE, TRUE, FALSE)
      BY <1>17, <2>1 DEF SweepPageLimit
    <3>2. progress' \in Progress /\ pc' = "record"
      BY <3>1, ReportType
    <3> QED
      BY <1>17, <2>1, <3>2, SMTT(60) DEF SweepPageLimit, EndScan
  <2>2. CASE ~(width = 1)
    BY <1>17, <2>2, HalfPositive, SMTT(60) DEF SweepPageLimit, Report, EndScan
  <2> QED BY <2>1, <2>2
<1>18. CASE SweepHint
  BY <1>18 DEF SweepHint
<1>19. CASE SweepProgress
  <2>1. CASE end = OlderEnd
    <3>1. Report(TRUE, TRUE, TRUE)
      BY <1>19, <2>1 DEF SweepProgress
    <3>2. progress' \in Progress /\ pc' = "record"
      BY <3>1, ReportType
    <3> QED
      BY <1>19, <2>1, <3>2, SMTT(60) DEF SweepProgress, EndScan
  <2>2. CASE ~(end = OlderEnd)
    BY <1>19, <2>2, HalfPositive, SMTT(60) DEF SweepProgress, Report, EndScan
  <2> QED BY <2>1, <2>2
<1>20. CASE RecordObservation
  BY <1>20 DEF RecordObservation, EndPass, EndScan
<1>21. CASE RecordFailure
  BY <1>21 DEF RecordFailure, EndPass, EndScan
<1>22. CASE ReceiptRefused
  BY <1>22 DEF ReceiptRefused, EndPass, EndScan
<1>23. CASE FullPage
  BY <1>23, SMTT(60) DEF FullPage, CommitPage, Between
<1>24. CASE ShortPage
  BY <1>24, SMTT(60) DEF ShortPage, CommitPage, Between
<1>25. CASE PassFails
  BY <1>25 DEF PassFails, EndScan
<1>26. CASE ScanPressure
  BY <1>26 DEF ScanPressure, EndPass, EndScan
<1>27. CASE Crash
  BY <1>27 DEF Crash, EndPass, EndScan
<1>28. CASE ClockBack
  BY <1>28, SMTT(60) DEF ClockBack
<1>29. CASE Tick
  BY <1>29, SMTT(60) DEF Tick
<1>30. ASSUME NEW r \in Records, Arrive(r) PROVE TypeOK'
  BY <1>30, SMTT(60) DEF Arrive, Horizon, ForwardScanning
<1>31. ASSUME NEW r \in Records, Expire(r) PROVE TypeOK'
  BY <1>31, SMTT(60) DEF Expire
<1>32. CASE UNCHANGED vars
  BY <1>32, SMTT(60) DEF vars
<1> QED
  BY <1>1, <1>2, <1>3, <1>4, <1>5, <1>6, <1>7, <1>8, <1>9, <1>10, <1>11,
     <1>12, <1>13, <1>14, <1>15, <1>16, <1>17, <1>18, <1>19, <1>20, <1>21, <1>22,
     <1>23, <1>24, <1>25, <1>26, <1>27, <1>28, <1>29, <1>30, <1>31, <1>32
  DEF Next, PassStep, Fault, Environment

\* The six other parts of the invariant.  A page of a scan, full or short, is a
\* CommitPage of listed records.
LEMMA PageStep ==
  ASSUME IInv, FullPage \/ ShortPage
  PROVE  \E page \in SUBSET visible, more \in BOOLEAN : CommitPage(page, more)
<1>1. CASE FullPage
  <2>1. PICK page \in SUBSET pending : CommitPage(page, page # pending)
    BY <1>1 DEF FullPage
  <2>2. page \in SUBSET visible /\ (page # pending) \in BOOLEAN
    BY DEF IInv, ScanInv
  <2> QED
    BY <2>1, <2>2
<1>2. CASE ShortPage
  BY <1>2 DEF ShortPage, Between
<1> QED
  BY <1>1, <1>2

\* The steps of a pass between its scans leave the provider, the records, the
\* checkpoint and the scan alone.
LEMMA QuietSteps ==
  ASSUME \/ BeginPass \/ ForwardReached \/ ForwardRejected
         \/ ForwardBudgetSpent \/ ReconcileBudgetSpent \/ SweepNotApplicable
         \/ SweepNotDue \/ SweepStart \/ SweepBudgetSpent \/ SweepHint
  PROVE  /\ UNCHANGED <<visible, stored, checkpoint, late, mode, start, end, scanPages, cap,
                        pending, owed>>
         /\ pc \notin {"scan", "exhausted"}
         /\ pc' \notin {"scan", "exhausted"}
<1> USE DEF corpus, pass, scan
<1>1. CASE BeginPass
  BY <1>1 DEF BeginPass
<1>2. CASE ForwardReached
  BY <1>2 DEF ForwardReached
<1>3. CASE ForwardRejected
  BY <1>3 DEF ForwardRejected
<1>4. CASE ForwardBudgetSpent
  BY <1>4 DEF ForwardBudgetSpent, Report
<1>5. CASE ReconcileBudgetSpent
  BY <1>5 DEF ReconcileBudgetSpent, Report
<1>6. CASE SweepNotApplicable
  BY <1>6 DEF SweepNotApplicable, Report
<1>7. CASE SweepNotDue
  BY <1>7 DEF SweepNotDue, Report
<1>8. CASE SweepStart
  BY <1>8 DEF SweepStart
<1>9. CASE SweepBudgetSpent
  BY <1>9 DEF SweepBudgetSpent, Report
<1>10. CASE SweepHint
  BY <1>10 DEF SweepHint
<1> QED
  BY <1>1, <1>2, <1>3, <1>4, <1>5, <1>6, <1>7, <1>8, <1>9, <1>10

\* The steps that end a scan other than CompletePartition drop it; the records
\* it owed stop being late only when it was exhausted.
LEMMA EndSteps ==
  ASSUME \/ ForwardPageLimit \/ ReconcilePageLimit \/ ReconcileDone
         \/ SweepPageLimit \/ SweepProgress \/ RecordObservation
         \/ RecordFailure \/ ReceiptRefused \/ ScanPressure \/ Crash
         \/ PassFails
  PROVE  /\ UNCHANGED <<visible, stored, checkpoint>>
         /\ EndScan
         /\ pc' \notin {"scan", "exhausted"}
         /\ late' = late \/ (pc = "exhausted" /\ late' = late \ owed)
<1> USE DEF corpus, pass, scan
<1>1. CASE ForwardPageLimit
  BY <1>1 DEF ForwardPageLimit, Report, EndScan
<1>2. CASE ReconcilePageLimit
  BY <1>2 DEF ReconcilePageLimit, Report, EndScan
<1>3. CASE ReconcileDone
  BY <1>3 DEF ReconcileDone, Report, EndScan
<1>4. CASE SweepPageLimit
  BY <1>4 DEF SweepPageLimit, Report, EndScan
<1>5. CASE SweepProgress
  BY <1>5 DEF SweepProgress, Report, EndScan
<1>6. CASE RecordObservation
  BY <1>6 DEF RecordObservation, EndPass, EndScan
<1>7. CASE RecordFailure
  BY <1>7 DEF RecordFailure, EndPass, EndScan
<1>8. CASE ReceiptRefused
  BY <1>8 DEF ReceiptRefused, EndPass, EndScan
<1>9. CASE ScanPressure
  BY <1>9 DEF ScanPressure, EndPass, EndScan
<1>10. CASE Crash
  BY <1>10 DEF Crash, EndPass, EndScan
<1>11. CASE PassFails
  BY <1>11 DEF PassFails, EndScan
<1> QED
  BY <1>1, <1>2, <1>3, <1>4, <1>5, <1>6, <1>7, <1>8, <1>9, <1>10, <1>11

\* Every step keeps the scan accounted for (what it owes is stored or pending),
\* the forward scan answerable for its partition, and the checkpoint behind the
\* stored records.
LEMMA ScanStep ==
  ASSUME IInv, [Next]_vars
  PROVE  (ScanInv /\ ForwardInv /\ CheckpointSound)'
<1>0. visible \subseteq Records /\ checkpoint \in Nat /\ hw \in Nat /\ end \in Nat
     /\ width \in Nat \ {0} /\ pages \in Nat /\ cap \in Nat /\ scanPages \in Nat
     /\ sweepLimit \in Nat
  BY DEF IInv, TypeOK, Millis, Observation, Progress
<1> USE <1>0, RecordsAssumption, LimitsAssumption
    DEF IInv, corpus, pass, scan, ScanInv, ForwardInv, CheckpointSound
<1>1. CASE \/ BeginPass \/ ForwardReached \/ ForwardRejected
           \/ ForwardBudgetSpent \/ ReconcileBudgetSpent \/ SweepNotApplicable
           \/ SweepNotDue \/ SweepStart \/ SweepBudgetSpent \/ SweepHint
  BY <1>1, QuietSteps
<1>2. CASE ForwardCall
  BY <1>2, SMTT(60) DEF ForwardCall, BeginScan, Between, ForwardCap, Min
<1>3. CASE ReconcileCall
  BY <1>3, SMTT(60) DEF ReconcileCall, BeginScan, Between
<1>4. CASE SweepCall
  BY <1>4, SMTT(60) DEF SweepCall, BeginScan, Between, Min
<1>5. CASE CompletePartition
  BY <1>5, SMTT(60) DEF CompletePartition, EndScan
<1>6. CASE \/ ForwardPageLimit \/ ReconcilePageLimit \/ ReconcileDone
           \/ SweepPageLimit \/ SweepProgress \/ RecordObservation
           \/ RecordFailure \/ ReceiptRefused \/ ScanPressure \/ Crash
           \/ PassFails
  BY <1>6, EndSteps, SMTT(60) DEF EndScan
<1>7. CASE FullPage \/ ShortPage
  <2>1. PICK page \in SUBSET visible, more \in BOOLEAN : CommitPage(page, more)
    BY <1>7, PageStep
  <2> QED
    BY <2>1, SMTT(60) DEF CommitPage
<1>8. CASE Tick
  BY <1>8 DEF Tick
<1>9. CASE ClockBack
  BY <1>9 DEF ClockBack
<1>10. ASSUME NEW r \in Records, Arrive(r) PROVE (ScanInv /\ ForwardInv /\ CheckpointSound)'
  BY <1>10, SMTT(60) DEF Arrive, Horizon, ForwardScanning
<1>11. ASSUME NEW r \in Records, Expire(r) PROVE (ScanInv /\ ForwardInv /\ CheckpointSound)'
  BY <1>11 DEF Expire
<1>12. CASE UNCHANGED vars
  BY <1>12 DEF vars
<1> QED
  BY <1>1, <1>2, <1>3, <1>4, <1>5, <1>6, <1>7, <1>8, <1>9, <1>10, <1>11, <1>12
  DEF Next, PassStep, Fault, Environment

\* Every step keeps the sweep behind the lookback of the checkpoint, the receipts
\* backed by it, and the pages of the pass within its budget.
LEMMA PassStepHolds ==
  ASSUME IInv, [Next]_vars
  PROVE  (SweepInv /\ ReceiptInv /\ BudgetInv)'
<1>0. /\ checkpoint \in Nat /\ cursor \in Nat /\ hw \in Nat /\ end \in Nat
     /\ lastCycle \in Nat \cup {NoCycle} /\ width \in Nat \ {0}
     /\ pages \in Nat /\ cap \in Nat /\ scanPages \in Nat /\ sweepLimit \in Nat
     /\ observation \in [completedAt : Nat, highWater : Nat, scanned : BOOLEAN,
                       reconciled : BOOLEAN]
     /\ progress \in [scanned : BOOLEAN, reconciled : BOOLEAN, replayed : BOOLEAN]
  BY DEF IInv, TypeOK, Millis, Observation, Progress
<1> USE <1>0, RecordsAssumption, LimitsAssumption
    DEF IInv, corpus, pass, scan, ScanInv, ForwardInv, SweepInv, ReceiptInv,
        BudgetInv, OlderEnd, NoCycle
<1>1. CASE BeginPass
  BY <1>1, SMTT(60) DEF BeginPass
<1>2. CASE ForwardReached
  BY <1>2 DEF ForwardReached
<1>3. CASE ForwardRejected
  BY <1>3 DEF ForwardRejected
<1>4. CASE ForwardBudgetSpent
  BY <1>4 DEF ForwardBudgetSpent, Report
<1>5. CASE ReconcileBudgetSpent
  BY <1>5 DEF ReconcileBudgetSpent, Report
<1>6. CASE SweepNotApplicable
  BY <1>6 DEF SweepNotApplicable, Report
<1>7. CASE SweepNotDue
  BY <1>7 DEF SweepNotDue, Report, SweepRecent
<1>8. CASE SweepStart
  BY <1>8, SMTT(60) DEF SweepStart, SweepRecent, Min
<1>9. CASE SweepBudgetSpent
  BY <1>9 DEF SweepBudgetSpent, Report
<1>10. CASE SweepHint
  BY <1>10 DEF SweepHint
<1>11. CASE ForwardCall
  BY <1>11, SMTT(60) DEF ForwardCall, BeginScan, ForwardCap, Min
<1>12. CASE ReconcileCall
  BY <1>12, SMTT(60) DEF ReconcileCall, BeginScan
<1>13. CASE SweepCall
  BY <1>13, SMTT(60) DEF SweepCall, BeginScan, Min
<1>14. CASE ForwardPageLimit
  BY <1>14, SMTT(60) DEF ForwardPageLimit, Report, EndScan
<1>15. CASE CompletePartition
  BY <1>15, SMTT(60) DEF CompletePartition, EndScan
<1>16. CASE ReconcilePageLimit
  BY <1>16, SMTT(60) DEF ReconcilePageLimit, Report, EndScan
<1>17. CASE ReconcileDone
  BY <1>17, SMTT(60) DEF ReconcileDone, Report, EndScan
<1>18. CASE SweepPageLimit
  BY <1>18, SMTT(60) DEF SweepPageLimit, Report, EndScan
<1>19. CASE SweepProgress
  BY <1>19, SMTT(60) DEF SweepProgress, Report, EndScan
<1>20. CASE RecordObservation
  BY <1>20, SMTT(60) DEF RecordObservation, EndPass, EndScan
<1>21. CASE RecordFailure
  BY <1>21, SMTT(60) DEF RecordFailure, EndPass, EndScan
<1>22. CASE ReceiptRefused
  BY <1>22, SMTT(60) DEF ReceiptRefused, EndPass, EndScan
<1>23. CASE ScanPressure
  BY <1>23, SMTT(60) DEF ScanPressure, EndPass, EndScan
<1>24. CASE Crash
  BY <1>24, SMTT(60) DEF Crash, EndPass, EndScan
<1>25. CASE PassFails
  BY <1>25, SMTT(60) DEF PassFails, EndScan
<1>26. CASE FullPage \/ ShortPage
  <2>1. PICK page \in SUBSET visible, more \in BOOLEAN : CommitPage(page, more)
    BY <1>26, PageStep
  <2> QED
    BY <2>1 DEF CommitPage
<1>27. CASE Tick
  BY <1>27 DEF Tick
<1>28. CASE ClockBack
  BY <1>28 DEF ClockBack
<1>29. ASSUME NEW r \in Records, Arrive(r) PROVE (SweepInv /\ ReceiptInv /\ BudgetInv)'
  BY <1>29 DEF Arrive
<1>30. ASSUME NEW r \in Records, Expire(r) PROVE (SweepInv /\ ReceiptInv /\ BudgetInv)'
  BY <1>30 DEF Expire
<1>31. CASE UNCHANGED vars
  BY <1>31 DEF vars
<1> QED
  BY <1>1, <1>2, <1>3, <1>4, <1>5, <1>6, <1>7, <1>8, <1>9, <1>10, <1>11, <1>12,
     <1>13, <1>14, <1>15, <1>16, <1>17, <1>18, <1>19, <1>20, <1>21, <1>22, <1>23,
     <1>24, <1>25, <1>26, <1>27, <1>28, <1>29, <1>30, <1>31
  DEF Next, PassStep, Fault, Environment

\* A corpus just created satisfies the inductive invariant.
LEMMA InitHolds == Init => IInv
  BY RecordsAssumption, LimitsAssumption, SMTT(60)
  DEF Init, IInv, TypeOK, Millis, Observation, Attempt, Progress, NoCycle, NoProgress,
      Modes, Steps, ScanInv, ForwardInv, CheckpointSound, SweepInv, OlderEnd, ReceiptInv,
      BudgetInv

\* No step of a pass, the provider, the clock or a crash breaks the inductive invariant.
LEMMA StepHolds == IInv /\ [Next]_vars => IInv'
  BY TypeStep, ScanStep, PassStepHolds
  DEF IInv

----------------------------------------------------------------------------
(* The theorems *)

\* The conjunction above is an invariant of the sync, whatever the provider
\* lists, the clock shows and the crashes interrupt.
THEOREM Inductive == Spec => []IInv
  BY InitHolds, StepHolds, PTL DEF Spec

\* The corpus rows and the pass's locals keep their types: no window of a scan
\* starts or ends before the epoch, no width reaches zero.
THEOREM TypeCorrect == Spec => []TypeOK
<1>1. IInv => TypeOK
  BY DEF IInv
<1> QED
  BY <1>1, Inductive, PTL

\* The checkpoint is never ahead of the durable pages (complete_partition after
\* the last commit_page of the partition), through crashes, page limits, short
\* pages, expiring and late records and a clock that runs backwards.
THEOREM CheckpointNeverAhead == Spec => []CheckpointSound
<1>1. IInv => CheckpointSound
  BY DEF IInv
<1> QED
  BY <1>1, Inductive, PTL

\* sweep_older_history never meets a cursor at or past the end of older
\* history, so its InvalidConfiguration return cannot stop the sync.
THEOREM CursorStaysBehind == Spec => []SweepCursorBehind
<1>1. IInv => SweepCursorBehind
  BY LimitsAssumption, SMTT(60) DEF IInv, SweepInv, SweepCursorBehind, TypeOK, Millis, OlderEnd
<1> QED
  BY <1>1, Inductive, PTL

\* complete_partition_checked never refuses the partition a scan finished.
THEOREM CompletionNeverRefused == Spec => []PartitionAdvances
<1>1. IInv => PartitionAdvances
  BY DEF IInv, ForwardInv, PartitionAdvances
<1> QED
  BY <1>1, Inductive, PTL

\* What the receipts claim (last_sync_observation, last_cycle_end_millis) the
\* checkpoint backs, for ever after.
THEOREM ReceiptsHonest == Spec => []ReceiptsBackedByCheckpoint
<1>1. IInv => ReceiptsBackedByCheckpoint
  BY DEF IInv, SweepInv, ReceiptInv, ReceiptsBackedByCheckpoint
<1> QED
  BY <1>1, Inductive, PTL

\* A pass commits at most MAX_SYNC_PAGES pages over its three kinds of scan.
THEOREM BudgetKept == Spec => []PageBudget
<1>1. IInv => PageBudget
  BY LimitsAssumption, SMTT(60) DEF IInv, TypeOK, ScanInv, BudgetInv, PageBudget
<1> QED
  BY <1>1, Inductive, PTL

-----------------------------------------------------------------------------
(* The refinement, and what never moves back. *)


\* The checkpoint, the corpus and the receipts only move forward: a crash, a
\* replay or a clock that ran backwards never takes back what was recorded.
THEOREM MonotoneHolds == Spec => Monotone
<1>1. ASSUME IInv, [Next]_vars PROVE [MonotoneStep]_vars
  <2> USE DEF IInv, TypeOK, Millis, Observation, Attempt, MonotoneStep, corpus
  <2>1. CASE CompletePartition
    BY <1>1, <2>1, SMTT(60) DEF CompletePartition
  <2>2. CASE RecordObservation
    BY <1>1, <2>2, SMTT(60) DEF RecordObservation, Accepted
  <2>3. CASE RecordFailure
    BY <1>1, <2>3, SMTT(60) DEF RecordFailure, Accepted
  <2>4. CASE FullPage \/ ShortPage
    BY <1>1, <2>4, PageStep, SMTT(60) DEF CommitPage
  <2>5. CASE SweepHint \/ SweepProgress
    <3>1. UNCHANGED <<stored, checkpoint, observation, attempt>>
      BY <2>5 DEF SweepHint, SweepProgress
    <3> QED
      BY <1>1, <3>1, SMTT(60)
  <2>6. CASE UNCHANGED corpus
    BY <1>1, <2>6, SMTT(60)
  <2> QED
    BY <1>1, <2>1, <2>2, <2>3, <2>4, <2>5, <2>6
    DEF Next, PassStep, Fault, Environment, BeginPass, ForwardCall, ForwardReached,
        ForwardRejected, ForwardBudgetSpent, ForwardPageLimit, ReconcileCall,
        ReconcileBudgetSpent, ReconcilePageLimit, ReconcileDone, SweepNotApplicable,
        SweepNotDue, SweepStart, SweepCall, SweepBudgetSpent, SweepPageLimit,
        ReceiptRefused, PassFails, ScanPressure, Crash, ClockBack, Tick, Arrive, Expire
<1> QED
  BY <1>1, Inductive, PTL DEF Spec, Monotone

\* The initial states and every step of the sync are initial states and steps,
\* or stutters, of the promise.
LEMMA ReplicaInit == Init => Replica!Init
  BY DEF Init, Replica!Init, Horizon, ForwardScanning

\* Every step of the sync is a step of HistoryReplica or leaves its state alone.
LEMMA ReplicaStep ==
  ASSUME IInv, IInv', [Next]_vars
  PROVE  [Replica!Next]_(Replica!replica)
<1> USE RecordsAssumption, LimitsAssumption
    DEF IInv, TypeOK, Millis, ScanInv, Horizon, ForwardScanning, Replica!replica,
        Replica!Next, corpus, scan
<1>1. CASE BeginPass \/ ForwardReached \/ ForwardRejected \/ ForwardBudgetSpent
           \/ ReconcileBudgetSpent \/ SweepNotApplicable \/ SweepNotDue \/ SweepStart
           \/ SweepBudgetSpent \/ SweepHint \/ Tick \/ ClockBack
  BY <1>1 DEF BeginPass, ForwardReached, ForwardRejected, ForwardBudgetSpent,
              ReconcileBudgetSpent, SweepNotApplicable, SweepNotDue, SweepStart,
              SweepBudgetSpent, SweepHint, Tick, ClockBack
<1>2. CASE ReconcileCall \/ SweepCall
  BY <1>2 DEF ReconcileCall, SweepCall, BeginScan
<1>3. CASE ForwardCall
  <2>1. /\ checkpoint \in Nat /\ hw \in Nat /\ width \in Nat \ {0} /\ mode = "none"
        /\ checkpoint < hw /\ mode' = "forward" /\ end' = Min(checkpoint + width, hw)
        /\ UNCHANGED <<visible, stored, checkpoint, late>>
    BY <1>3 DEF ForwardCall, BeginScan
  <2> HIDE DEF IInv
  <2>2. end' \in Nat /\ end' > checkpoint
    BY <2>1, SMTT(60) DEF Min
  <2>3. Replica!Claim
    BY <2>1, <2>2 DEF Replica!Claim
  <2> QED
    BY <2>3
<1>4. CASE CompletePartition
  <2>1. /\ checkpoint \in Nat /\ end \in Nat /\ owed \subseteq stored /\ mode = "forward"
        /\ mode' = "none" /\ end > checkpoint /\ checkpoint' = end /\ late' = late \ owed
        /\ UNCHANGED <<visible, stored>>
    BY <1>4 DEF CompletePartition, EndScan
  <2>2. /\ visible \subseteq Records
        /\ \A r \in visible : checkpoint <= Ts[r] /\ Ts[r] <= end => r \in owed \/ r \in late
        /\ CheckpointSound
    BY <2>1 DEF ForwardInv
  <2> HIDE DEF IInv
  <2>3. \A r \in visible : Ts[r] <= end => r \in owed \/ r \in stored \/ r \in late
    BY <2>1, <2>2, SMTT(60) DEF CheckpointSound
  <2>4. Replica!Advance
    BY <2>1, <2>3 DEF Replica!Advance, Replica!Settle
  <2> QED
    BY <2>4
<1>5. CASE ReconcileDone \/ SweepProgress
  BY <1>5 DEF ReconcileDone, SweepProgress, EndScan, Replica!Replay, Replica!Settle
<1>6. CASE ForwardPageLimit \/ ReconcilePageLimit \/ SweepPageLimit \/ PassFails
  BY <1>6 DEF ForwardPageLimit, ReconcilePageLimit, SweepPageLimit, PassFails, EndScan,
              Replica!Abandon
<1>7. CASE RecordObservation \/ RecordFailure \/ ReceiptRefused
  <2>1. EndScan /\ UNCHANGED <<visible, stored, checkpoint, late>>
    BY <1>7 DEF RecordObservation, RecordFailure, ReceiptRefused, EndPass
  <2>2. Replica!Abandon
    BY <2>1 DEF EndScan, Replica!Abandon
  <2> QED
    BY <2>2
<1>8. CASE ScanPressure \/ Crash
  BY <1>8 DEF ScanPressure, Crash, EndPass, EndScan, Replica!Abandon
<1>9. CASE FullPage \/ ShortPage
  BY <1>9, PageStep DEF CommitPage, Replica!Copy
<1>10. ASSUME NEW r \in Records, Arrive(r) PROVE Replica!Arrive(r)
  BY <1>10 DEF Arrive, Replica!Arrive
<1>11. ASSUME NEW r \in Records, Expire(r) PROVE Replica!Expire(r)
  BY <1>11 DEF Expire, Replica!Expire
<1>12. CASE UNCHANGED vars
  BY <1>12 DEF vars
<1> QED
  BY <1>1, <1>2, <1>3, <1>4, <1>5, <1>6, <1>7, <1>8, <1>9, <1>10, <1>11, <1>12,
     ZenonT(60)
  DEF Next, PassStep, Fault, Environment

\* The sync implements the promise of HistoryReplica: its checkpoint passes
\* only over stored history, and a late record is dropped only once stored.
THEOREM SyncImplementsReplica == Spec => ImplementsReplica
  BY ReplicaInit, ReplicaStep, StepHolds, Inductive, PTL
  DEF Spec, ImplementsReplica, Replica!Spec

=============================================================================
