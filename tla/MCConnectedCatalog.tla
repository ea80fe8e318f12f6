------------------------- MODULE MCConnectedCatalog -------------------------
(***************************************************************************)
(* Small instances of ConnectedCatalog for TLC.  Two workloads share one   *)
(* run: two processes that query one source while it is synced, replaced   *)
(* and revoked, and one process that registers and revokes three sources,  *)
(* with an error and a failing undo.                                       *)
(***************************************************************************)
EXTENDS ConnectedCatalog, TLC

CONSTANTS e, d1, d2, p, q

AllProviders == e :> "sentry" @@ d1 :> "datadog" @@ d2 :> "datadog"
AllConnections == e :> "e" @@ d1 :> "d" @@ d2 :> "d"

VARIABLE load

Queries ==
  /\ faults' <= 1
  /\ \A x \in Procs : todo'[x] \subseteq {e}

Registrations ==
  /\ pc'[q] = "idle"
  /\ \A s \in Sources : rows'[s] <= 1 /\ loose'[s] = 0

\* Whether the blocked provider of d1 and d2 would accept the caller changes nothing.
Load ==
  /\ {d1, d2} \subseteq access'
  /\ load = "queries" => Queries
  /\ load = "registrations" => Registrations
  /\ load' = load

LoadInit == Init /\ load \in {"queries", "registrations"}

LoadNext == Next /\ Load

\* A process that holds the lock, or can take it, goes on.
LoadSpec ==
  /\ LoadInit /\ [][LoadNext]_<<vars, load>>
  /\ \A x \in Procs : WF_<<vars, load>>(Runs(x) /\ Load)
=============================================================================
