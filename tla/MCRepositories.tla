--------------------------- MODULE MCRepositories ---------------------------
(***************************************************************************)
(* Small instances of the two repositories a result can be kept in, for    *)
(* TLC.  The initial state says which: the packed one (PackedRepository),  *)
(* or the one of segments (DurableRepository) with the product as client.  *)
(* They share the Keychain authority and nothing else.                     *)
(***************************************************************************)
EXTENDS PackedRepository, TLC

CONSTANTS owner, other, b1, b2, Torn

Sizes == b1 :> 1 @@ b2 :> 2

VARIABLES
  layout,  \* "packed" or "segments"
  entry, keys, staging, final, moving, quarantined, repo, res, pc, job, out,
  stage, batches, sealed, clock, deaths

S == INSTANCE DurableRepository WITH
       Procs <- {owner, other}, Owner <- owner, Bodies <- {b1}, Batches <- 1,
       MaxKeys <- 1, Client <- "product", acked <- batches,
       frames <- sealed, crashes <- deaths

segments == <<entry, keys, staging, final, moving, quarantined, repo, res, pc,
              job, out, stage, batches, sealed, clock, deaths>>
both == <<vars, layout, segments>>

BothInit == Init /\ S!Init /\ layout \in {"packed", "segments"}

BothNext ==
  \/ layout = "packed" /\ Next /\ UNCHANGED <<layout, segments>>
  \/ layout = "segments" /\ S!Next /\ UNCHANGED <<layout, vars>>

\* Fairness as in DurableRepository: processes finish their calls and recover
\* again and again.
Finishes(p) == layout = "segments" /\ S!Work(p) /\ UNCHANGED <<layout, vars>>
Recovers(p) == layout = "segments" /\ S!RecoverCalls(p) /\ UNCHANGED <<layout, vars>>
BothSpec ==
  /\ BothInit /\ [][BothNext]_both
  /\ \A p \in {owner, other} : WF_both(Finishes(p)) /\ WF_both(Recovers(p))

\* A batch is acknowledged only when its directory entry has been synced
\* (commit_batch).
AcksSynced == S!AcksSynced

\* The death of a process never looks like corruption to recover, nor leaves
\* something that it cannot clean up.
NeverCorrupt == S!NeverCorrupt

\* Ciphertext is removed only after its key: destroy and expiry call
\* authority.destroy before remove_dir_all.
KeyFirst == S!KeyFirst

\* Once a result has expired its key and its directories go, whatever state the
\* crashes left them in (recover).
ExpiredErased == S!ExpiredErased
=============================================================================
