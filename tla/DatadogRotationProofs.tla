----------------------- MODULE DatadogRotationProofs -----------------------
(***************************************************************************)
(* The properties of DatadogRotation for any number of tiers and           *)
(* credentials.  Undoing, Finishing and Disconnecting say, for each loop   *)
(* of the command, where the files and credentials it found are now; Mixed *)
(* is MixedServesNothing for every state, so that it survives a crash.     *)
(***************************************************************************)
EXTENDS DatadogRotation, TLAPS

\* A leaf that names no prover is given to Zenon
USE ZenonT(60)

Rotating == {"stage", "replace", "rollback", "restore", "rebuild", "purge", "report"}

\* Until it knows how the update went, a rotation can put everything back.
Undoing ==
  /\ pc \in Rotating => listed = Tiers /\ new \in Gens /\ (~recovering => left = {})
  /\ pc \in {"stage", "replace", "rollback", "restore"} =>
       \A f \in Files : before[f] \in Gens => old[f[1]] = before[f]
  /\ pc = "stage" =>
       /\ cred = old
       /\ \A f \in Files : IF f \in todo
                           THEN active[f] = before[f] /\ staged[f] = Absent
                           ELSE active[f] = Absent /\ staged[f] = before[f]
  /\ pc \in {"replace", "rollback"} =>
       \A f \in Files : active[f] = Absent /\ staged[f] = before[f]
  /\ pc = "replace" => \A t \in Tiers : cred[t] = IF t \in rest THEN old[t] ELSE new
  /\ pc = "rollback" /\ ~failed => \A t \in Tiers : t \notin rest => cred[t] = old[t]
  /\ pc = "restore" =>
       /\ cred = old
       /\ \A f \in Files :
            /\ f \in todo => active[f] = Absent /\ staged[f] = before[f]
            /\ f \notin todo => active[f] = before[f] \/ (failed /\ active[f] = Absent)

\* Afterwards no file of before comes back.
Finishing ==
  /\ pc \in {"rebuild", "purge", "report"} =>
       \A f \in Files : active[f] \in {Absent, Fresh}
  /\ pc = "rebuild" =>
       /\ \A t \in Tiers : cred[t] = new
       /\ \A t \in Tiers : t \notin rest /\ ~failed => active[<<t, "db">>] = Fresh
  /\ pc = "purge" =>
       /\ (\A t \in Tiers : cred[t] = new) \/ (failed /\ \A f \in Files : active[f] = Absent)
       /\ ~failed => \A t \in Tiers : active[<<t, "db">>] = Fresh
       /\ ~failed => \A f \in Files : f \notin todo => staged[f] = Absent
  /\ pc = "report" =>
       /\ left = {}
       /\ \A t \in Tiers : cred[t] = new /\ active[<<t, "db">>] = Fresh
       /\ \A f \in Files : staged[f] = Absent

\* A disconnect takes the credentials first.
Disconnecting ==
  /\ listed # Tiers => \A t \in Tiers : cred[t] = NoCred
  /\ pc = "uncred" => \A t \in Tiers : t \notin rest => cred[t] = NoCred
  /\ pc \in {"erase", "unkey"} => \A t \in Tiers : cred[t] = NoCred

Differ(c) == \E t, u \in Tiers : c[t] # c[u] /\ c[t] # NoCred /\ c[u] # NoCred

\* No gate and different credentials: no corpus.
Mixed ==
  /\ Differ(cred) /\ left = {} /\ (\A f \in Files : staged[f] = Absent) =>
       \A f \in Files : active[f] = Absent
  /\ pc \in {"stage", "replace", "rollback", "restore"} /\ Differ(old) /\ left = {} =>
       \A f \in Files : before[f] = Absent

IInv == TypeOK /\ Undoing /\ Finishing /\ Disconnecting /\ ScopeCurrent /\ Mixed

\* A step keeps the types.
LEMMA TypeStep ==
  ASSUME TypeOK, Next
  PROVE  TypeOK'
<1> USE GensAssumption DEF TypeOK, Steps, Contents, NoCred, Absent, Fresh, command
<1>1. ASSUME NEW g \in Gens, Begin(g) PROVE TypeOK'
  BY <1>1 DEF Begin, Loop, Interrupted
<1>2. ASSUME NEW f \in Files, StageFile(f) PROVE TypeOK'
  BY <1>2 DEF StageFile
<1>3. ASSUME NEW f \in Files, RestoreFile(f) PROVE TypeOK'
  BY <1>3 DEF RestoreFile
<1>4. ASSUME NEW f \in Files, PurgeFile(f) PROVE TypeOK'
  BY <1>4 DEF PurgeFile
<1>5. ASSUME NEW f \in Files, PurgeLeft(f) PROVE TypeOK'
  BY <1>5 DEF PurgeLeft
<1>6. ASSUME NEW f \in Files, EraseFile(f) PROVE TypeOK'
  BY <1>6 DEF EraseFile
<1>7. ASSUME NEW f \in Files, EraseLeft(f) PROVE TypeOK'
  BY <1>7 DEF EraseLeft
<1>8. ASSUME NEW t \in Tiers, Replace(t) PROVE TypeOK'
  BY <1>8 DEF Replace
<1>9. ASSUME NEW t \in Tiers, ReplaceFails(t) PROVE TypeOK'
  BY <1>9 DEF ReplaceFails, Loop
<1>10. ASSUME NEW t \in Tiers, Rollback(t) PROVE TypeOK'
  BY <1>10 DEF Rollback
<1>11. ASSUME NEW t \in Tiers, Rebuild(t) PROVE TypeOK'
  BY <1>11 DEF Rebuild
<1>12. ASSUME NEW t \in Tiers, Uncred(t) PROVE TypeOK'
  BY <1>12 DEF Uncred
<1>13. ASSUME NEW t \in Tiers, Unkey(t) PROVE TypeOK'
  BY <1>13 DEF Unkey
<1>14. CASE StageFails
  BY <1>14 DEF StageFails, Loop, StagedFiles
<1>15. CASE StageEnds
  BY <1>15 DEF StageEnds, Loop
<1>16. CASE RecoveryKeepsGate
  BY <1>16 DEF RecoveryKeepsGate, End, StagedFiles
<1>17. CASE RolledBack
  BY <1>17 DEF RolledBack, Loop, StagedFiles
<1>18. CASE RestoreEnds
  BY <1>18 DEF RestoreEnds, End, StagedFiles
<1>19. CASE Replaced
  BY <1>19 DEF Replaced, Loop
<1>20. CASE RebuildFailed
  BY <1>20 DEF RebuildFailed, End, StagedFiles
<1>21. CASE RebuildEnds
  BY <1>21 DEF RebuildEnds, Loop, StagedFiles
<1>22. CASE PurgeEnds
  BY <1>22 DEF PurgeEnds
<1>23. CASE PurgeFails
  BY <1>23 DEF PurgeFails, End, StagedFiles
<1>24. CASE Report
  BY <1>24 DEF Report, End, StagedFiles
<1>25. CASE DisconnectBegin
  BY <1>25 DEF DisconnectBegin, Loop
<1>26. CASE UncredEnds
  BY <1>26 DEF UncredEnds, Loop
<1>27. CASE EraseEnds
  BY <1>27 DEF EraseEnds, Loop
<1>28. CASE DisconnectEnds
  BY <1>28 DEF DisconnectEnds, End, StagedFiles
<1>29. CASE Crash
  BY <1>29 DEF Crash, End, StagedFiles
<1> QED
  BY <1>1, <1>2, <1>3, <1>4, <1>5, <1>6, <1>7, <1>8, <1>9, <1>10, <1>11, <1>12, <1>13,
     <1>14, <1>15, <1>16, <1>17, <1>18, <1>19, <1>20, <1>21, <1>22, <1>23, <1>24,
     <1>25, <1>26, <1>27, <1>28, <1>29 DEF Next, Rotates, Disconnects

\* A step keeps the order of a disconnect.
LEMMA DisconnectStep ==
  ASSUME TypeOK, Undoing, Disconnecting, Next
  PROVE  Disconnecting'
<1> USE GensAssumption DEF TypeOK, Undoing, Disconnecting, Rotating, NoCred, command
<1>1. ASSUME NEW g \in Gens, Begin(g) PROVE Disconnecting'
  BY <1>1 DEF Begin, Loop, Interrupted
<1>2. ASSUME NEW f \in Files, StageFile(f) PROVE Disconnecting'
  BY <1>2 DEF StageFile
<1>3. ASSUME NEW f \in Files, RestoreFile(f) PROVE Disconnecting'
  BY <1>3 DEF RestoreFile
<1>4. ASSUME NEW f \in Files, PurgeFile(f) PROVE Disconnecting'
  BY <1>4 DEF PurgeFile
<1>5. ASSUME NEW f \in Files, PurgeLeft(f) PROVE Disconnecting'
  BY <1>5 DEF PurgeLeft
<1>6. ASSUME NEW f \in Files, EraseFile(f) PROVE Disconnecting'
  BY <1>6 DEF EraseFile
<1>7. ASSUME NEW f \in Files, EraseLeft(f) PROVE Disconnecting'
  BY <1>7 DEF EraseLeft
<1>8. ASSUME NEW t \in Tiers, Replace(t) PROVE Disconnecting'
  BY <1>8 DEF Replace
<1>9. ASSUME NEW t \in Tiers, ReplaceFails(t) PROVE Disconnecting'
  BY <1>9 DEF ReplaceFails, Loop
<1>10. ASSUME NEW t \in Tiers, Rollback(t) PROVE Disconnecting'
  BY <1>10 DEF Rollback
<1>11. ASSUME NEW t \in Tiers, Rebuild(t) PROVE Disconnecting'
  BY <1>11 DEF Rebuild
<1>12. ASSUME NEW t \in Tiers, Uncred(t) PROVE Disconnecting'
  BY <1>12 DEF Uncred
<1>13. ASSUME NEW t \in Tiers, Unkey(t) PROVE Disconnecting'
  BY <1>13 DEF Unkey
<1>14. CASE StageFails
  BY <1>14 DEF StageFails, Loop, StagedFiles
<1>15. CASE StageEnds
  BY <1>15 DEF StageEnds, Loop
<1>16. CASE RecoveryKeepsGate
  BY <1>16 DEF RecoveryKeepsGate, End, StagedFiles
<1>17. CASE RolledBack
  BY <1>17 DEF RolledBack, Loop, StagedFiles
<1>18. CASE RestoreEnds
  BY <1>18 DEF RestoreEnds, End, StagedFiles
<1>19. CASE Replaced
  BY <1>19 DEF Replaced, Loop
<1>20. CASE RebuildFailed
  BY <1>20 DEF RebuildFailed, End, StagedFiles
<1>21. CASE RebuildEnds
  BY <1>21 DEF RebuildEnds, Loop, StagedFiles
<1>22. CASE PurgeEnds
  BY <1>22 DEF PurgeEnds
<1>23. CASE PurgeFails
  BY <1>23 DEF PurgeFails, End, StagedFiles
<1>24. CASE Report
  BY <1>24 DEF Report, End, StagedFiles
<1>25. CASE DisconnectBegin
  BY <1>25 DEF DisconnectBegin, Loop
<1>26. CASE UncredEnds
  BY <1>26 DEF UncredEnds, Loop
<1>27. CASE EraseEnds
  BY <1>27 DEF EraseEnds, Loop
<1>28. CASE DisconnectEnds
  BY <1>28 DEF DisconnectEnds, End, StagedFiles
<1>29. CASE Crash
  BY <1>29 DEF Crash, End, StagedFiles
<1> QED
  BY <1>1, <1>2, <1>3, <1>4, <1>5, <1>6, <1>7, <1>8, <1>9, <1>10, <1>11, <1>12, <1>13,
     <1>14, <1>15, <1>16, <1>17, <1>18, <1>19, <1>20, <1>21, <1>22, <1>23, <1>24,
     <1>25, <1>26, <1>27, <1>28, <1>29 DEF Next, Rotates, Disconnects

\* A step keeps what a rotation can undo.
LEMMA UndoStep ==
  ASSUME TypeOK, Undoing, Disconnecting, ScopeCurrent, Next
  PROVE  Undoing'
<1> USE GensAssumption
    DEF TypeOK, Undoing, Disconnecting, Rotating, ScopeCurrent, NoCred, Absent, command
<1>1. ASSUME NEW g \in Gens, Begin(g) PROVE Undoing'
  <2>1. listed = Tiers
    BY <1>1 DEF Begin
  <2>2. \A f \in Files : f[1] \in Tiers
    BY DEF Files
  <2>3. ~recovering' => left = {}
    BY <1>1, <2>1, <2>2 DEF Begin, Interrupted
  <2> QED
    BY <1>1, <2>1, <2>2, <2>3 DEF Begin, Loop
<1>2. ASSUME NEW f \in Files, StageFile(f) PROVE Undoing'
  BY <1>2, SMTT(60) DEF StageFile
<1>3. ASSUME NEW f \in Files, RestoreFile(f) PROVE Undoing'
  BY <1>3, SMTT(60) DEF RestoreFile
<1>4. ASSUME NEW f \in Files, PurgeFile(f) PROVE Undoing'
  BY <1>4 DEF PurgeFile
<1>5. ASSUME NEW f \in Files, PurgeLeft(f) PROVE Undoing'
  BY <1>5 DEF PurgeLeft
<1>6. ASSUME NEW f \in Files, EraseFile(f) PROVE Undoing'
  BY <1>6 DEF EraseFile
<1>7. ASSUME NEW f \in Files, EraseLeft(f) PROVE Undoing'
  BY <1>7 DEF EraseLeft
<1>8. ASSUME NEW t \in Tiers, Replace(t) PROVE Undoing'
  BY <1>8 DEF Replace
<1>9. ASSUME NEW t \in Tiers, ReplaceFails(t) PROVE Undoing'
  BY <1>9 DEF ReplaceFails, Loop
<1>10. ASSUME NEW t \in Tiers, Rollback(t) PROVE Undoing'
  BY <1>10, SMTT(60) DEF Rollback
<1>11. ASSUME NEW t \in Tiers, Rebuild(t) PROVE Undoing'
  BY <1>11 DEF Rebuild
<1>12. ASSUME NEW t \in Tiers, Uncred(t) PROVE Undoing'
  BY <1>12 DEF Uncred
<1>13. ASSUME NEW t \in Tiers, Unkey(t) PROVE Undoing'
  BY <1>13 DEF Unkey
<1>14. CASE StageFails
  BY <1>14 DEF StageFails, Loop, StagedFiles
<1>15. CASE StageEnds
  BY <1>15 DEF StageEnds, Loop
<1>16. CASE RecoveryKeepsGate
  BY <1>16 DEF RecoveryKeepsGate, End, StagedFiles
<1>17. CASE RolledBack
  BY <1>17, SMTT(60) DEF RolledBack, Loop, StagedFiles
<1>18. CASE RestoreEnds
  BY <1>18 DEF RestoreEnds, End, StagedFiles
<1>19. CASE Replaced
  BY <1>19 DEF Replaced, Loop
<1>20. CASE RebuildFailed
  BY <1>20 DEF RebuildFailed, End, StagedFiles
<1>21. CASE RebuildEnds
  BY <1>21 DEF RebuildEnds, Loop, StagedFiles
<1>22. CASE PurgeEnds
  BY <1>22 DEF PurgeEnds
<1>23. CASE PurgeFails
  BY <1>23 DEF PurgeFails, End, StagedFiles
<1>24. CASE Report
  BY <1>24 DEF Report, End, StagedFiles
<1>25. CASE DisconnectBegin
  BY <1>25 DEF DisconnectBegin, Loop
<1>26. CASE UncredEnds
  BY <1>26 DEF UncredEnds, Loop
<1>27. CASE EraseEnds
  BY <1>27 DEF EraseEnds, Loop
<1>28. CASE DisconnectEnds
  BY <1>28 DEF DisconnectEnds, End, StagedFiles
<1>29. CASE Crash
  BY <1>29 DEF Crash, End, StagedFiles
<1> QED
  BY <1>1, <1>2, <1>3, <1>4, <1>5, <1>6, <1>7, <1>8, <1>9, <1>10, <1>11, <1>12, <1>13,
     <1>14, <1>15, <1>16, <1>17, <1>18, <1>19, <1>20, <1>21, <1>22, <1>23, <1>24,
     <1>25, <1>26, <1>27, <1>28, <1>29 DEF Next, Rotates, Disconnects

\* A step keeps what a rotation has finished.
LEMMA FinishStep ==
  ASSUME TypeOK, Undoing, Finishing, Next
  PROVE  Finishing'
<1> USE GensAssumption
    DEF TypeOK, Undoing, Finishing, Rotating, Absent, Fresh, command
<1>1. ASSUME NEW g \in Gens, Begin(g) PROVE Finishing'
  BY <1>1 DEF Begin, Loop, Interrupted
<1>2. ASSUME NEW f \in Files, StageFile(f) PROVE Finishing'
  BY <1>2 DEF StageFile
<1>3. ASSUME NEW f \in Files, RestoreFile(f) PROVE Finishing'
  BY <1>3 DEF RestoreFile
<1>4. ASSUME NEW f \in Files, PurgeFile(f) PROVE Finishing'
  BY <1>4, SMTT(60) DEF PurgeFile
<1>5. ASSUME NEW f \in Files, PurgeLeft(f) PROVE Finishing'
  BY <1>5 DEF PurgeLeft
<1>6. ASSUME NEW f \in Files, EraseFile(f) PROVE Finishing'
  BY <1>6 DEF EraseFile
<1>7. ASSUME NEW f \in Files, EraseLeft(f) PROVE Finishing'
  BY <1>7 DEF EraseLeft
<1>8. ASSUME NEW t \in Tiers, Replace(t) PROVE Finishing'
  BY <1>8 DEF Replace
<1>9. ASSUME NEW t \in Tiers, ReplaceFails(t) PROVE Finishing'
  BY <1>9 DEF ReplaceFails, Loop
<1>10. ASSUME NEW t \in Tiers, Rollback(t) PROVE Finishing'
  BY <1>10 DEF Rollback
<1>11. ASSUME NEW t \in Tiers, Rebuild(t) PROVE Finishing'
  <2> DEFINE db(u) == <<u, "db">>
  <2>1. \A u \in Tiers : db(u) \in Files /\ (db(u) = db(t) => u = t)
    <3>1. ASSUME NEW u \in Tiers PROVE db(u) \in Files
      BY SMTT(60) DEF Files, Parts
    <3>2. ASSUME NEW u \in Tiers, db(u) = db(t) PROVE u = t
      BY <3>2
    <3> QED
      BY <3>1, <3>2
  <2>2. pc = "rebuild" /\ pc' = "rebuild" /\ cred' = cred /\ new' = new /\ rest' = rest \ {t}
    BY <1>11 DEF Rebuild
  <2>3. CASE failed' = TRUE /\ active' = active
    BY <2>2, <2>3
  <2>4. CASE active' = [active EXCEPT ![db(t)] = Fresh] /\ failed' \in {failed, TRUE}
    <3>1. \A f \in Files : active'[f] = IF f = db(t) THEN Fresh ELSE active[f]
      BY <2>4
    <3>2. \A f \in Files : active'[f] \in {Absent, Fresh}
      BY <2>2, <3>1
    <3>3. ASSUME NEW u \in Tiers, u \notin rest', ~failed' PROVE active'[db(u)] = Fresh
      BY <2>1, <2>2, <2>4, <3>1, <3>3
    <3> QED
      BY <2>2, <3>2, <3>3
  <2> QED
    BY <1>11, <2>3, <2>4 DEF Rebuild
<1>12. ASSUME NEW t \in Tiers, Uncred(t) PROVE Finishing'
  BY <1>12 DEF Uncred
<1>13. ASSUME NEW t \in Tiers, Unkey(t) PROVE Finishing'
  BY <1>13 DEF Unkey
<1>14. CASE StageFails
  BY <1>14 DEF StageFails, Loop, StagedFiles
<1>15. CASE StageEnds
  BY <1>15 DEF StageEnds, Loop
<1>16. CASE RecoveryKeepsGate
  BY <1>16 DEF RecoveryKeepsGate, End, StagedFiles
<1>17. CASE RolledBack
  BY <1>17 DEF RolledBack, Loop, StagedFiles
<1>18. CASE RestoreEnds
  BY <1>18 DEF RestoreEnds, End, StagedFiles
<1>19. CASE Replaced
  BY <1>19 DEF Replaced, Loop
<1>20. CASE RebuildFailed
  BY <1>20 DEF RebuildFailed, End, StagedFiles
<1>21. CASE RebuildEnds
  BY <1>21 DEF RebuildEnds, Loop, StagedFiles
<1>22. CASE PurgeEnds
  BY <1>22 DEF PurgeEnds
<1>23. CASE PurgeFails
  BY <1>23 DEF PurgeFails, End, StagedFiles
<1>24. CASE Report
  BY <1>24 DEF Report, End, StagedFiles
<1>25. CASE DisconnectBegin
  BY <1>25 DEF DisconnectBegin, Loop
<1>26. CASE UncredEnds
  BY <1>26 DEF UncredEnds, Loop
<1>27. CASE EraseEnds
  BY <1>27 DEF EraseEnds, Loop
<1>28. CASE DisconnectEnds
  BY <1>28 DEF DisconnectEnds, End, StagedFiles
<1>29. CASE Crash
  BY <1>29 DEF Crash, End, StagedFiles
<1> QED
  BY <1>1, <1>2, <1>3, <1>4, <1>5, <1>6, <1>7, <1>8, <1>9, <1>10, <1>11, <1>12, <1>13,
     <1>14, <1>15, <1>16, <1>17, <1>18, <1>19, <1>20, <1>21, <1>22, <1>23, <1>24,
     <1>25, <1>26, <1>27, <1>28, <1>29 DEF Next, Rotates, Disconnects

\* A step keeps active data with its credential.
LEMMA ScopeStep ==
  ASSUME TypeOK, Undoing, Finishing, Disconnecting, ScopeCurrent, Next
  PROVE  ScopeCurrent'
<1> USE GensAssumption
    DEF TypeOK, Undoing, Finishing, Disconnecting, ScopeCurrent, Rotating, NoCred, Absent,
        Fresh, command
<1>1. ASSUME NEW g \in Gens, Begin(g) PROVE ScopeCurrent'
  BY <1>1 DEF Begin, Loop, Interrupted
<1>2. ASSUME NEW f \in Files, StageFile(f) PROVE ScopeCurrent'
  BY <1>2 DEF StageFile
<1>3. ASSUME NEW f \in Files, RestoreFile(f) PROVE ScopeCurrent'
  BY <1>3, SMTT(60) DEF RestoreFile
<1>4. ASSUME NEW f \in Files, PurgeFile(f) PROVE ScopeCurrent'
  BY <1>4 DEF PurgeFile
<1>5. ASSUME NEW f \in Files, PurgeLeft(f) PROVE ScopeCurrent'
  BY <1>5 DEF PurgeLeft
<1>6. ASSUME NEW f \in Files, EraseFile(f) PROVE ScopeCurrent'
  BY <1>6 DEF EraseFile
<1>7. ASSUME NEW f \in Files, EraseLeft(f) PROVE ScopeCurrent'
  BY <1>7 DEF EraseLeft
<1>8. ASSUME NEW t \in Tiers, Replace(t) PROVE ScopeCurrent'
  BY <1>8 DEF Replace
<1>9. ASSUME NEW t \in Tiers, ReplaceFails(t) PROVE ScopeCurrent'
  BY <1>9 DEF ReplaceFails, Loop
<1>10. ASSUME NEW t \in Tiers, Rollback(t) PROVE ScopeCurrent'
  BY <1>10 DEF Rollback
<1>11. ASSUME NEW t \in Tiers, Rebuild(t) PROVE ScopeCurrent'
  <2> DEFINE db == <<t, "db">>
  <2>1. CASE active' = active
    BY <1>11, <2>1 DEF Rebuild
  <2>2. CASE active' = [active EXCEPT ![db] = Fresh]
    <3>1. \A f \in Files : active'[f] = IF f = db THEN Fresh ELSE active[f]
      BY <2>2
    <3>2. \A f \in Files : active'[f] \in Gens => active'[f] = active[f]
      BY <3>1, SMTT(60)
    <3> QED
      BY <1>11, <3>2 DEF Rebuild
  <2> QED
    BY <1>11, <2>1, <2>2 DEF Rebuild
<1>12. ASSUME NEW t \in Tiers, Uncred(t) PROVE ScopeCurrent'
  BY <1>12, SMTT(60) DEF Uncred
<1>13. ASSUME NEW t \in Tiers, Unkey(t) PROVE ScopeCurrent'
  BY <1>13 DEF Unkey
<1>14. CASE StageFails
  BY <1>14 DEF StageFails, Loop, StagedFiles
<1>15. CASE StageEnds
  BY <1>15 DEF StageEnds, Loop
<1>16. CASE RecoveryKeepsGate
  BY <1>16 DEF RecoveryKeepsGate, End, StagedFiles
<1>17. CASE RolledBack
  BY <1>17 DEF RolledBack, Loop, StagedFiles
<1>18. CASE RestoreEnds
  BY <1>18 DEF RestoreEnds, End, StagedFiles
<1>19. CASE Replaced
  BY <1>19 DEF Replaced, Loop
<1>20. CASE RebuildFailed
  BY <1>20 DEF RebuildFailed, End, StagedFiles
<1>21. CASE RebuildEnds
  BY <1>21 DEF RebuildEnds, Loop, StagedFiles
<1>22. CASE PurgeEnds
  BY <1>22 DEF PurgeEnds
<1>23. CASE PurgeFails
  BY <1>23 DEF PurgeFails, End, StagedFiles
<1>24. CASE Report
  BY <1>24 DEF Report, End, StagedFiles
<1>25. CASE DisconnectBegin
  BY <1>25 DEF DisconnectBegin, Loop
<1>26. CASE UncredEnds
  BY <1>26 DEF UncredEnds, Loop
<1>27. CASE EraseEnds
  BY <1>27 DEF EraseEnds, Loop
<1>28. CASE DisconnectEnds
  BY <1>28 DEF DisconnectEnds, End, StagedFiles
<1>29. CASE Crash
  BY <1>29 DEF Crash, End, StagedFiles
<1> QED
  BY <1>1, <1>2, <1>3, <1>4, <1>5, <1>6, <1>7, <1>8, <1>9, <1>10, <1>11, <1>12, <1>13,
     <1>14, <1>15, <1>16, <1>17, <1>18, <1>19, <1>20, <1>21, <1>22, <1>23, <1>24,
     <1>25, <1>26, <1>27, <1>28, <1>29 DEF Next, Rotates, Disconnects

\* A step keeps different credentials without a corpus.
LEMMA MixedStep ==
  ASSUME TypeOK, Undoing, Finishing, Disconnecting, Mixed, Next
  PROVE  Mixed'
<1> USE GensAssumption
    DEF TypeOK, Undoing, Finishing, Disconnecting, Mixed, Differ, Rotating, NoCred, Absent,
        Fresh, command
<1>1. ASSUME NEW g \in Gens, Begin(g) PROVE Mixed'
  BY <1>1, SMTT(60) DEF Begin, Loop, Interrupted
<1>2. ASSUME NEW f \in Files, StageFile(f) PROVE Mixed'
  BY <1>2, SMTT(60) DEF StageFile
<1>3. ASSUME NEW f \in Files, RestoreFile(f) PROVE Mixed'
  BY <1>3, SMTT(60) DEF RestoreFile
<1>4. ASSUME NEW f \in Files, PurgeFile(f) PROVE Mixed'
  BY <1>4 DEF PurgeFile
<1>5. ASSUME NEW f \in Files, PurgeLeft(f) PROVE Mixed'
  BY <1>5 DEF PurgeLeft
<1>6. ASSUME NEW f \in Files, EraseFile(f) PROVE Mixed'
  BY <1>6 DEF EraseFile
<1>7. ASSUME NEW f \in Files, EraseLeft(f) PROVE Mixed'
  BY <1>7 DEF EraseLeft
<1>8. ASSUME NEW t \in Tiers, Replace(t) PROVE Mixed'
  BY <1>8, SMTT(60) DEF Replace
<1>9. ASSUME NEW t \in Tiers, ReplaceFails(t) PROVE Mixed'
  BY <1>9, SMTT(60) DEF ReplaceFails, Loop
<1>10. ASSUME NEW t \in Tiers, Rollback(t) PROVE Mixed'
  BY <1>10, SMTT(60) DEF Rollback
<1>11. ASSUME NEW t \in Tiers, Rebuild(t) PROVE Mixed'
  BY <1>11 DEF Rebuild
<1>12. ASSUME NEW t \in Tiers, Uncred(t) PROVE Mixed'
  BY <1>12, SMTT(60) DEF Uncred
<1>13. ASSUME NEW t \in Tiers, Unkey(t) PROVE Mixed'
  BY <1>13 DEF Unkey
<1>14. CASE StageFails
  BY <1>14, SMTT(60) DEF StageFails, Loop, StagedFiles
<1>15. CASE StageEnds
  BY <1>15, SMTT(60) DEF StageEnds, Loop
<1>16. CASE RecoveryKeepsGate
  BY <1>16 DEF RecoveryKeepsGate, End, StagedFiles
<1>17. CASE RolledBack
  BY <1>17 DEF RolledBack, Loop, StagedFiles
<1>18. CASE RestoreEnds
  BY <1>18, SMTT(60) DEF RestoreEnds, End, StagedFiles
<1>19. CASE Replaced
  BY <1>19 DEF Replaced, Loop
<1>20. CASE RebuildFailed
  BY <1>20 DEF RebuildFailed, End, StagedFiles
<1>21. CASE RebuildEnds
  BY <1>21 DEF RebuildEnds, Loop, StagedFiles
<1>22. CASE PurgeEnds
  BY <1>22 DEF PurgeEnds
<1>23. CASE PurgeFails
  BY <1>23 DEF PurgeFails, End, StagedFiles
<1>24. CASE Report
  BY <1>24 DEF Report, End, StagedFiles
<1>25. CASE DisconnectBegin
  BY <1>25 DEF DisconnectBegin, Loop
<1>26. CASE UncredEnds
  BY <1>26 DEF UncredEnds, Loop
<1>27. CASE EraseEnds
  BY <1>27 DEF EraseEnds, Loop
<1>28. CASE DisconnectEnds
  BY <1>28 DEF DisconnectEnds, End, StagedFiles
<1>29. CASE Crash
  BY <1>29 DEF Crash, End, StagedFiles
<1> QED
  BY <1>1, <1>2, <1>3, <1>4, <1>5, <1>6, <1>7, <1>8, <1>9, <1>10, <1>11, <1>12, <1>13,
     <1>14, <1>15, <1>16, <1>17, <1>18, <1>19, <1>20, <1>21, <1>22, <1>23, <1>24,
     <1>25, <1>26, <1>27, <1>28, <1>29 DEF Next, Rotates, Disconnects

\* The invariant holds initially.
LEMMA InitHolds == Init => IInv
<1> SUFFICES ASSUME Init PROVE IInv
  OBVIOUS
<1> USE GensAssumption DEF Init, NoCred, Absent, Fresh
<1>1. PICK g \in Gens : /\ cred = [t \in Tiers |-> g]
                        /\ active \in [Files -> {Absent, Fresh, g}]
  OBVIOUS
<1>2. \A f \in Files : f[1] \in Tiers
  BY DEF Files
<1>3. TypeOK
  BY <1>1 DEF TypeOK, Contents, Steps
<1>4. Undoing /\ Finishing /\ Disconnecting
  BY DEF Undoing, Finishing, Disconnecting, Rotating
<1>5. ScopeCurrent
  BY <1>1, <1>2, SMTT(60) DEF ScopeCurrent
<1>6. Mixed
  BY <1>1 DEF Mixed, Differ
<1> QED
  BY <1>3, <1>4, <1>5, <1>6 DEF IInv

\* The invariant is inductive.
LEMMA StepHolds == IInv /\ [Next]_vars => IInv'
<1> SUFFICES ASSUME IInv, [Next]_vars PROVE IInv'
  OBVIOUS
<1>1. CASE Next
  BY <1>1, TypeStep, DisconnectStep, UndoStep, FinishStep, ScopeStep, MixedStep DEF IInv
<1>2. CASE UNCHANGED vars
  BY <1>2, SMTT(60) DEF IInv, vars, command, TypeOK, Undoing, Finishing, Disconnecting, ScopeCurrent,
     Mixed
<1> QED
  BY <1>1, <1>2

\* The inductive invariant of a rotation, for any tiers and credentials.
THEOREM RotationInductive == Spec => []IInv
BY InitHolds, StepHolds, PTL DEF Spec

\* The state of a rotation is well typed, and an idle connection has nothing
\* staged by a running command.
THEOREM RotationTypeCorrect == Spec => []TypeOK
<1>1. IInv => TypeOK
  BY DEF IInv
<1> QED
  BY <1>1, RotationInductive, PTL

\* No failure or crash leaves data at an active path that was collected under
\* other credentials than the tier has (rotate_datadog's order of staging,
\* replacing, rolling back and restoring).
THEOREM ScopeStaysCurrent == Spec => []ScopeCurrent
<1>1. IInv => ScopeCurrent
  BY DEF IInv
<1> QED
  BY <1>1, RotationInductive, PTL

\* A connection left with different credentials on its tiers is gated or empty.
THEOREM MixedStaysGated == Spec => []MixedServesNothing
<1>1. IInv => MixedServesNothing
  <2> SUFFICES ASSUME IInv, pc = "idle", ~Interrupted,
                      NEW t \in listed, NEW u \in listed,
                      cred[t] # cred[u], cred[t] # NoCred, cred[u] # NoCred,
                      NEW f \in Files
               PROVE  active[f] = Absent
    BY DEF MixedServesNothing
  <2>1. t \in Tiers /\ u \in Tiers
    BY DEF IInv, TypeOK
  <2>2. listed = Tiers
    BY <2>1 DEF IInv, Disconnecting
  <2>3. left = {} /\ \A x \in Files : staged[x] = Absent
    <3>1. \A x \in Files : x[1] \in Tiers
      BY DEF Files
    <3> QED
      BY <2>2, <3>1 DEF IInv, TypeOK, Interrupted
  <2> QED
    BY <2>1, <2>3 DEF IInv, Mixed, Differ
<1> QED
  BY <1>1, RotationInductive, PTL

\* A rotation that was undone without a failure has lost nothing.
THEOREM UndoneWithoutLoss == Spec => []RestoredWhole
<1>1. IInv => RestoredWhole
  BY SMTT(60) DEF IInv, TypeOK, Undoing, RestoredWhole
<1> QED
  BY <1>1, RotationInductive, PTL

\* A rotation that reports success has rotated every tier and removed the gate.
THEOREM ReportsTrue == Spec => []ReportTrue
<1>1. IInv => ReportTrue
  <2> SUFFICES ASSUME IInv, pc = "report" PROVE ReportTrue
    BY DEF ReportTrue
  <2>1. ~Interrupted
    BY DEF IInv, Finishing, Interrupted
  <2>2. \A t \in listed : t \in Tiers
    BY DEF IInv, TypeOK
  <2> QED
    BY <2>1, <2>2 DEF IInv, Finishing, ReportTrue
<1> QED
  BY <1>1, RotationInductive, PTL

=============================================================================
