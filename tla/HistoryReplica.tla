--------------------------- MODULE HistoryReplica ---------------------------
(***************************************************************************)
(* What a connected source's history sync promises, without its pages,     *)
(* passes, budgets, retries or crashes (the contract in full_history.rs).  *)
(*                                                                         *)
(* The corpus copies records the provider exposes.  It may claim a         *)
(* stretch of time up to a horizon, and move its checkpoint there only     *)
(* when every record it was bound to see in that time is stored.  A record *)
(* that becomes visible behind the horizon is late: it stays so until a    *)
(* replay has stored it or the provider drops it.                          *)
(***************************************************************************)
EXTENDS Naturals

CONSTANTS
  Records,      \* the log records the provider may ever expose
  Ts            \* event timestamp of each record

VARIABLES
  visible,      \* records the provider lists now
  stored,       \* records in the corpus
  checkpoint,   \* time the corpus says it has scanned through
  horizon,      \* time claimed by the scan in progress
  late          \* records that became visible behind the horizon

replica == <<visible, stored, checkpoint, horizon, late>>

Init ==
  /\ visible \in SUBSET Records
  /\ stored = {}
  /\ checkpoint = 0
  /\ horizon = 0
  /\ late = {}

Arrive(r) ==
  /\ r \notin visible
  /\ visible' = visible \cup {r}
  /\ late' = IF Ts[r] <= horizon THEN late \cup {r} ELSE late
  /\ UNCHANGED <<stored, checkpoint, horizon>>

Expire(r) ==
  /\ r \in visible
  /\ visible' = visible \ {r}
  /\ late' = late \ {r}
  /\ UNCHANGED <<stored, checkpoint, horizon>>

Copy ==
  /\ \E page \in SUBSET visible : stored' = stored \cup page
  /\ UNCHANGED <<visible, checkpoint, horizon, late>>

Claim ==
  /\ horizon = checkpoint
  /\ horizon' \in Nat
  /\ horizon' > checkpoint
  /\ UNCHANGED <<visible, stored, checkpoint, late>>

Abandon ==
  /\ horizon' = checkpoint
  /\ UNCHANGED <<visible, stored, checkpoint, late>>

\* Late records leave the set only because they are in the corpus.
Settle ==
  /\ late' \subseteq late
  /\ late \ late' \subseteq stored

Advance ==
  /\ horizon > checkpoint
  /\ checkpoint' = horizon
  /\ Settle
  /\ \A r \in visible : Ts[r] <= horizon => r \in stored \cup late'
  /\ UNCHANGED <<visible, stored, horizon>>

Replay ==
  /\ Settle
  /\ UNCHANGED <<visible, stored, checkpoint, horizon>>

Next ==
  \/ \E r \in Records : Arrive(r) \/ Expire(r)
  \/ Copy \/ Claim \/ Abandon \/ Advance \/ Replay

Spec == Init /\ [][Next]_replica

=============================================================================
