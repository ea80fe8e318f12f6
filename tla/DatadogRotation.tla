-------------------------- MODULE DatadogRotation --------------------------
(***************************************************************************)
(* Replacing the credentials of one Datadog connection (rotate_datadog).   *)
(* Each tier of the connection has a credential, a corpus file and its     *)
(* sidecars.  New credentials may see less than the old ones, so the       *)
(* corpora are first renamed away (staged); then every credential is       *)
(* replaced, each tier gets an empty corpus and the staged files are       *)
(* deleted.  A staged file left behind marks the connection interrupted:   *)
(* queries and syncs leave it out until a recovery, or a disconnect, has   *)
(* removed it.                                                             *)
(*                                                                         *)
(* The commands run under the catalog lock (ConnectedCatalog).  Every      *)
(* rename, removal and Keychain call is a step of its own that may fail,   *)
(* and the process may die between any two.  The loops run in the order of *)
(* the listing, here in any order.  No sync collects into these corpora:   *)
(* cache_access_block refuses Datadog; what they hold is from before.      *)
(***************************************************************************)
EXTENDS Integers

CONSTANTS
  Tiers,        \* the tiers of the connection
  Gens          \* credentials, by generation

ASSUME GensAssumption == Gens \subseteq Nat \ {0}

Parts == {"db", "sidecar"}
Files == Tiers \X Parts
NoCred == 0
Absent == 0
Fresh == -1     \* an empty corpus; any other content is of the credential it names
Contents == Gens \cup {Absent, Fresh}

VARIABLES
  cred,         \* the stored credential of each tier
  active,       \* what the corpus files hold
  staged,       \* what the files renamed away by this command hold
  left,         \* files renamed away by earlier commands
  listed,       \* tiers with a Keychain entry
  pc,           \* where the command is
  recovering,   \* it is rotate-datadog with recovery
  new,          \* the credentials it was given
  old,          \* the credentials it found
  before,       \* the files it found
  rest,         \* tiers, or
  todo,         \* files, its loop has still to handle
  failed        \* a call in this loop has failed

command == <<recovering, new, old, before>>
vars == <<cred, active, staged, left, listed, pc, command, rest, todo, failed>>

Steps == {"idle", "stage", "replace", "rollback", "restore", "rebuild", "purge",
          "report", "uncred", "erase", "unkey"}

\* interrupted_datadog_rotations
Interrupted == \E f \in Files : f[1] \in listed /\ (f \in left \/ staged[f] # Absent)

StagedFiles == {f \in Files : staged[f] # Absent}

Init ==
  /\ \E g \in Gens :
       /\ cred = [t \in Tiers |-> g]
       /\ active \in [Files -> {Absent, Fresh, g}]
  /\ \A t \in Tiers : active[<<t, "db">>] # Absent
  /\ staged = [f \in Files |-> Absent]
  /\ left = {}
  /\ listed = Tiers
  /\ pc = "idle"
  /\ recovering = FALSE
  /\ new = NoCred
  /\ old = cred
  /\ before = active
  /\ rest = {}
  /\ todo = {}
  /\ failed = FALSE

----------------------------------------------------------------------------

\* The command returns or dies; what it staged and did not delete stays.
End ==
  /\ pc' = "idle"
  /\ left' = left \cup StagedFiles
  /\ staged' = [f \in Files |-> Absent]
  /\ rest' = {}
  /\ todo' = {}
  /\ failed' = FALSE
  /\ UNCHANGED command

Loop(step, tiers, files) ==
  /\ pc' = step
  /\ rest' = tiers
  /\ todo' = files

\* The credentials were verified, and the stored ones read.
Begin(g) ==
  /\ pc = "idle"
  /\ listed # {}
  /\ \A t \in listed : cred[t] # NoCred
  /\ recovering' = Interrupted
  /\ new' = g
  /\ old' = cred
  /\ before' = active
  /\ Loop("stage", {}, {f \in Files : f[1] \in listed})
  /\ UNCHANGED <<cred, active, staged, left, listed, failed>>

\* stage_rotation_corpora
StageFile(f) ==
  /\ pc = "stage"
  /\ f \in todo
  /\ todo' = todo \ {f}
  /\ staged' = [staged EXCEPT ![f] = active[f]]
  /\ active' = [active EXCEPT ![f] = Absent]
  /\ UNCHANGED <<cred, left, listed, pc, command, rest, failed>>

StageFails ==
  /\ pc = "stage"
  /\ todo # {}
  /\ Loop("restore", {}, StagedFiles)
  /\ failed' = FALSE
  /\ UNCHANGED <<cred, active, staged, left, listed, command>>

StageEnds ==
  /\ pc = "stage"
  /\ todo = {}
  /\ Loop("replace", listed, {})
  /\ UNCHANGED <<cred, active, staged, left, listed, command, failed>>

\* replace_datadog_secrets_with_rollback
Replace(t) ==
  /\ pc = "replace"
  /\ t \in rest
  /\ cred' = [cred EXCEPT ![t] = new]
  /\ rest' = rest \ {t}
  /\ UNCHANGED <<active, staged, left, listed, pc, command, todo, failed>>

\* The update may have been made all the same: it is read back to verify it.
ReplaceFails(t) ==
  /\ pc = "replace"
  /\ t \in rest
  /\ cred' \in {cred, [cred EXCEPT ![t] = new]}
  /\ Loop("rollback", (listed \ rest) \cup {t}, {})
  /\ failed' = FALSE
  /\ UNCHANGED <<active, staged, left, listed, command>>

Rollback(t) ==
  /\ pc = "rollback"
  /\ t \in rest
  /\ rest' = rest \ {t}
  /\ \/ cred' = [cred EXCEPT ![t] = old[t]] /\ failed' = failed
     \/ cred' \in {cred, [cred EXCEPT ![t] = old[t]]} /\ failed' = TRUE
  /\ UNCHANGED <<active, staged, left, listed, pc, command, todo>>

\* A recovery keeps everything staged, as the gate.
RecoveryKeepsGate ==
  /\ pc = "rollback" /\ rest = {} /\ recovering
  /\ End
  /\ UNCHANGED <<cred, active, listed>>

\* mutant: a partial rollback restores too
RolledBackPartly ==
  /\ pc = "rollback" /\ rest = {} /\ ~recovering
  /\ Loop("restore", {}, StagedFiles)
  /\ failed' = FALSE
  /\ UNCHANGED <<cred, active, staged, left, listed, command>>

\* mutant: a partial rollback gets empty corpora
RolledBackRebuilds ==
  /\ pc = "rollback" /\ rest = {} /\ ~recovering
  /\ IF failed THEN Loop("rebuild", listed, {}) ELSE Loop("restore", {}, StagedFiles)
  /\ UNCHANGED <<cred, active, staged, left, listed, command, failed>>

RolledBack ==
  /\ pc = "rollback" /\ rest = {} /\ ~recovering
  /\ Loop(IF failed THEN "purge" ELSE "restore", {}, StagedFiles)
  /\ UNCHANGED <<cred, active, staged, left, listed, command, failed>>

\* mutant: the sidecars are not restored
RestoreFileAlone(f) ==
  /\ pc = "restore"
  /\ f \in todo
  /\ todo' = todo \ {f}
  /\ IF f[2] = "db"
     THEN /\ active' = [active EXCEPT ![f] = staged[f]]
          /\ staged' = [staged EXCEPT ![f] = Absent]
     ELSE UNCHANGED <<active, staged>>
  /\ UNCHANGED <<cred, left, listed, pc, command, rest, failed>>

\* restore_rotation_corpora
RestoreFile(f) ==
  /\ pc = "restore"
  /\ f \in todo
  /\ todo' = todo \ {f}
  /\ \/ /\ active[f] = Absent
        /\ active' = [active EXCEPT ![f] = staged[f]]
        /\ staged' = [staged EXCEPT ![f] = Absent]
        /\ failed' = failed
     \/ failed' = TRUE /\ UNCHANGED <<active, staged>>
  /\ UNCHANGED <<cred, left, listed, pc, command, rest>>

RestoreEnds ==
  /\ pc = "restore"
  /\ todo = {}
  /\ End
  /\ UNCHANGED <<cred, active, listed>>

Replaced ==
  /\ pc = "replace"
  /\ rest = {}
  /\ Loop("rebuild", listed, {})
  /\ UNCHANGED <<cred, active, staged, left, listed, command, failed>>

\* recreate_empty_corpus: a failing open may leave the reserved file.
Rebuild(t) ==
  /\ pc = "rebuild"
  /\ t \in rest
  /\ rest' = rest \ {t}
  /\ \/ /\ active[<<t, "db">>] = Absent
        /\ active' = [active EXCEPT ![<<t, "db">>] = Fresh]
        /\ failed' \in {failed, TRUE}
     \/ failed' = TRUE /\ UNCHANGED active
  /\ UNCHANGED <<cred, staged, left, listed, pc, command, todo>>

\* A recovery that could not rebuild keeps the gate.
RebuildFailed ==
  /\ pc = "rebuild" /\ rest = {} /\ failed /\ recovering
  /\ End
  /\ UNCHANGED <<cred, active, listed>>

RebuildEnds ==
  /\ pc = "rebuild" /\ rest = {} /\ ~(failed /\ recovering)
  /\ Loop("purge", {}, StagedFiles)
  /\ UNCHANGED <<cred, active, staged, left, listed, command, failed>>

\* purge_staged_rotation_corpora; a failing removal leaves its file, and ends a
\* recovery (PurgeFails).
PurgeFile(f) ==
  /\ pc = "purge"
  /\ f \in todo
  /\ todo' = todo \ {f}
  /\ \/ staged' = [staged EXCEPT ![f] = Absent] /\ failed' = failed
     \/ ~recovering /\ failed' = TRUE /\ UNCHANGED staged
  /\ UNCHANGED <<cred, active, left, listed, pc, command, rest>>

\* purge_rotation_artifacts: a recovery also removes what earlier commands left.
PurgeLeft(f) ==
  /\ pc = "purge"
  /\ recovering
  /\ f \in left
  /\ left' = left \ {f}
  /\ UNCHANGED <<cred, active, staged, listed, pc, command, rest, todo, failed>>

\* mutant: a recovery only deletes what it staged itself
PurgeEndsEarly ==
  /\ pc = "purge"
  /\ todo = {}
  /\ ~failed
  /\ pc' = "report"
  /\ UNCHANGED <<cred, active, staged, left, listed, command, rest, todo, failed>>

PurgeEnds ==
  /\ pc = "purge"
  /\ todo = {}
  /\ recovering => left = {}
  /\ ~failed
  /\ pc' = "report"
  /\ UNCHANGED <<cred, active, staged, left, listed, command, rest, todo, failed>>

PurgeFails ==
  /\ pc = "purge"
  /\ recovering \/ (todo = {} /\ failed)
  /\ End
  /\ UNCHANGED <<cred, active, listed>>

\* The command says the credentials were rotated, or the rotation recovered.
Report ==
  /\ pc = "report"
  /\ End
  /\ UNCHANGED <<cred, active, listed>>

----------------------------------------------------------------------------
(* revoke_registered_sources *)

DisconnectBegin ==
  /\ pc = "idle"
  /\ listed # {}
  /\ Loop("uncred", listed, {})
  /\ UNCHANGED <<cred, active, staged, left, listed, command, failed>>

Uncred(t) ==
  /\ pc = "uncred"
  /\ t \in rest
  /\ rest' = rest \ {t}
  /\ cred' = [cred EXCEPT ![t] = NoCred]
  /\ UNCHANGED <<active, staged, left, listed, pc, command, todo, failed>>

UncredEnds ==
  /\ pc = "uncred"
  /\ rest = {}
  /\ Loop("erase", listed, {f \in Files : f[1] \in listed})
  /\ UNCHANGED <<cred, active, staged, left, listed, command, failed>>

EraseFile(f) ==
  /\ pc = "erase"
  /\ f \in todo
  /\ todo' = todo \ {f}
  /\ active' = [active EXCEPT ![f] = Absent]
  /\ UNCHANGED <<cred, staged, left, listed, pc, command, rest, failed>>

\* The staged files of a tier go after its corpus.
EraseLeft(f) ==
  /\ pc = "erase"
  /\ f \in left
  /\ \A x \in Parts : <<f[1], x>> \notin todo
  /\ left' = left \ {f}
  /\ UNCHANGED <<cred, active, staged, listed, pc, command, rest, todo, failed>>

EraseEnds ==
  /\ pc = "erase"
  /\ todo = {}
  /\ left = {}
  /\ Loop("unkey", {}, {})
  /\ UNCHANGED <<cred, active, staged, left, listed, command, failed>>

Unkey(t) ==
  /\ pc = "unkey"
  /\ t \in listed
  /\ listed' = listed \ {t}
  /\ UNCHANGED <<cred, active, staged, left, pc, command, rest, todo, failed>>

\* Done, or a call failed.
DisconnectEnds ==
  /\ \/ pc = "uncred" /\ rest # {}
     \/ pc = "erase" /\ (todo # {} \/ left # {})
     \/ pc = "unkey"
  /\ End
  /\ UNCHANGED <<cred, active, listed>>

----------------------------------------------------------------------------

Crash ==
  /\ pc # "idle"
  /\ End
  /\ UNCHANGED <<cred, active, listed>>

Rotates ==
  \/ \E g \in Gens : Begin(g)
  \/ \E f \in Files : StageFile(f) \/ RestoreFile(f) \/ PurgeFile(f) \/ PurgeLeft(f)
  \/ \E t \in Tiers : Replace(t) \/ ReplaceFails(t) \/ Rollback(t) \/ Rebuild(t)
  \/ StageFails \/ StageEnds \/ RecoveryKeepsGate \/ RolledBack \/ RestoreEnds
  \/ Replaced \/ RebuildFailed \/ RebuildEnds \/ PurgeEnds \/ PurgeFails \/ Report

Disconnects ==
  \/ DisconnectBegin \/ UncredEnds \/ EraseEnds \/ DisconnectEnds
  \/ \E t \in Tiers : Uncred(t) \/ Unkey(t)
  \/ \E f \in Files : EraseFile(f) \/ EraseLeft(f)

Next == Rotates \/ Disconnects \/ Crash

Spec == Init /\ [][Next]_vars

----------------------------------------------------------------------------
(* Correctness *)

\* The types; a command that is not running has nothing staged of its own.
TypeOK ==
  /\ cred \in [Tiers -> Gens \cup {NoCred}]
  /\ active \in [Files -> Contents]
  /\ staged \in [Files -> Contents]
  /\ left \subseteq Files
  /\ listed \subseteq Tiers
  /\ pc \in Steps
  /\ recovering \in BOOLEAN
  /\ new \in Gens \cup {NoCred}
  /\ old \in [Tiers -> Gens \cup {NoCred}]
  /\ before \in [Files -> Contents]
  /\ rest \subseteq Tiers
  /\ todo \subseteq Files
  /\ failed \in BOOLEAN
  /\ pc = "idle" => \A f \in Files : staged[f] = Absent

\* "Restoring these active paths would risk serving an old scope": what lies at
\* an active path was collected under the credential its tier has now, or the
\* tier has none; whatever failed or died, gated or not.
ScopeCurrent ==
  \A f \in Files : active[f] \in Gens => cred[f[1]] \in {active[f], NoCred}

\* Tiers of one connection with different credentials serve nothing: either no
\* tier has a corpus, or the connection is gated.
MixedServesNothing ==
  pc = "idle" /\ ~Interrupted =>
    \A t, u \in listed :
      cred[t] # cred[u] /\ NoCred \notin {cred[t], cred[u]} =>
        \A f \in Files : active[f] = Absent

\* "A failed, fully rolled-back update can restore them without loss": an update
\* that was undone without a failure leaves every file and credential as it was.
RestoredWhole ==
  pc = "restore" /\ todo = {} /\ ~failed => active = before /\ cred = old

\* What the command reports is so: one new credential on every tier, an empty
\* corpus for each, and no gate.
ReportTrue ==
  pc = "report" =>
    /\ ~Interrupted
    /\ \A t \in listed : cred[t] = new /\ active[<<t, "db">>] = Fresh
    /\ \A f \in Files : active[f] \in {Absent, Fresh}

=============================================================================
