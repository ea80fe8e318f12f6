--------------------------- MODULE HistorySyncLive ---------------------------
(***************************************************************************)
(* HistorySync with fairness, for what must eventually happen.             *)
(*                                                                         *)
(* The watcher (watch_sources) starts a pass after every delay for as long *)
(* as it runs, so a pass that can take a step takes one.  Faults and       *)
(* changes at the provider come between any two steps, and stop: either    *)
(* MaxDisturbances of them have come, or the system settles before.  From  *)
(* then on the watcher completes at least one pass between two ticks: it   *)
(* runs every few minutes at worst (watch_cycle_delay), and a tick is a    *)
(* day.                                                                    *)
(***************************************************************************)
EXTENDS HistorySync

CONSTANTS
  SettleBy,         \* the clock waits here for the system to settle
  MaxDisturbances   \* bound on the faults and the changes at the provider

ASSUME SettleAssumption == SettleBy \in Nat /\ MaxDisturbances \in Nat

VARIABLE left         \* the disturbances that may still come

liveVars == <<vars, left>>

calm == left = 0

Settles ==
  /\ ~calm
  /\ left' = 0
  /\ UNCHANGED vars

PassRuns == PassStep /\ UNCHANGED left

Disturbed ==
  /\ ~calm
  /\ Fault \/ \E r \in Records : Arrive(r) \/ Expire(r)
  /\ left' = left - 1

DayPasses ==
  /\ clock < SettleBy \/ (calm /\ pc = "idle" /\ attempt.completedAt = clock)
  /\ Tick
  /\ UNCHANGED left

LiveInit == Init /\ left = MaxDisturbances

LiveNext == Settles \/ PassRuns \/ Disturbed \/ DayPasses

Fairness ==
  /\ WF_liveVars(Settles)
  /\ WF_liveVars(PassRuns)
  /\ SF_liveVars(DayPasses)

LiveSpec == LiveInit /\ [][LiveNext]_liveVars /\ Fairness

\* A source whose history is already there, on a system that never misbehaves.
BacklogInit == Init /\ visible = Records /\ left = 0

BacklogSpec == BacklogInit /\ [][LiveNext]_liveVars /\ Fairness

----------------------------------------------------------------------------
(* Properties *)

\* Every record the provider goes on listing is eventually in the corpus, also
\* one that came late behind the checkpoint, the lookback and the sweep cursor,
\* and one of a partition too dense for its budget, which is halved first
\* (bounded_sync, sweep_older_history).  The instance is one where halving is
\* enough within the budget of a pass; BackfillAdvances is about one where it
\* is not.
EventuallyStored ==
  \A r \in Records : r \in visible ~> (r \in stored \/ r \notin visible)

\* "Make bounded progress through every available provider partition": a
\* checkpoint behind the clock does not stay where it is.
BackfillAdvances ==
  \A t \in 0 .. (MaxClock - 1) : checkpoint = t ~> checkpoint > t

=============================================================================
