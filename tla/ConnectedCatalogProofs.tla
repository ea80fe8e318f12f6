----------------------- MODULE ConnectedCatalogProofs -----------------------
(***************************************************************************)
(* The inductive invariant of ConnectedCatalog, and the steps of a process *)
(* sorted by what they do to that process (Moves) and to the catalog       *)
(* (Writes).  A process changes no other process's state, and only the     *)
(* holder of the lock writes.                                              *)
(*                                                                         *)
(* The safety properties follow as theorems.  Each lemma goes through      *)
(* these kinds of step from the side of the process that takes the step;   *)
(* OthersStep has all other processes.                                     *)
(***************************************************************************)
EXTENDS ConnectedCatalog, TLAPS

\* A leaf that names no prover is given to Zenon
USE ZenonT(60)

TypedCatalog ==
  /\ key \in [Sources -> Nat]
  /\ cred \subseteq Sources
  /\ file \in [Sources -> Nat \cup {Reserved}]
  /\ rows \in [Sources -> Nat]
  /\ wal \in [Sources -> Nat]
  /\ loose \in [Sources -> Nat]
  /\ access \subseteq Sources
  /\ drawn \in Nat
  /\ faults \in Nat
  /\ used \subseteq {Connection[s] : s \in Sources}

Views == [Sources -> [key : Nat, told : Nat, rows : Nat]]

TypedLocal ==
  /\ lock \in Procs \cup {NoProc}
  /\ pc \in [Procs -> Steps]
  /\ op \in [Procs -> {"none", "connect", "disconnect", "cycle", "query", "use"}]
  /\ todo \in [Procs -> SUBSET Sources]
  /\ src \in [Procs -> Sources \cup {NoSource}]
  /\ made \in [Procs -> SUBSET Sources]
  /\ view \in [Procs -> Views]

Holding(p) == pc[p] \notin Unlocked <=> lock = p

\* What a registering process knows of the source it handles.
Registering(p) ==
  /\ pc[p] \in {"bind", "reserve", "open", "cred", "discard", "unbind", "uncred", "sync"}
       => src[p] \in Sources
  /\ pc[p] \in {"reserve", "open", "cred", "discard", "unbind"} =>
       /\ key[src[p]] # NoKey
       /\ Provider[src[p]] = "sentry" => src[p] \notin cred
  /\ pc[p] \in {"reserve", "unbind"} => faults >= 2 \/ file[src[p]] = Absent
  /\ pc[p] = "open" => file[src[p]] = Reserved
  /\ pc[p] = "cred" => Provider[src[p]] = "sentry"
  /\ pc[p] = "discard" => faults >= 1
  /\ \A s \in made[p] : Provider[s] # "sentry"

\* What a query holds: nothing before its first sync, the coverage of the corpora
\* as they are while it has the lock, of its snapshots afterwards, and current
\* keys once it has verified them.
Viewing(p) ==
  /\ pc[p] \notin {"next", "sync", "select", "relock", "verify", "deliver", "answer"}
       => \A s \in Sources : view[p][s] = NoView
  /\ pc[p] = "sync" => src[p] \notin todo[p] /\ view[p][src[p]] = NoView
  /\ pc[p] \in {"next", "sync"} =>
       \A s \in Sources : view[p][s] # NoView =>
         view[p][s].told = rows[s] /\ s \notin todo[p]
  /\ pc[p] \in {"select", "relock", "verify", "deliver", "answer"} =>
       \A s \in Sources : view[p][s].told = view[p][s].rows
  /\ pc[p] = "deliver" =>
       \A s \in Sources : view[p][s] # NoView =>
         /\ key[s] = view[p][s].key
         /\ Provider[s] = "sentry" => s \in cred

RegisterInv == \A p \in Procs : Registering(p)
ViewInv == \A p \in Procs : Viewing(p)

IInv ==
  /\ TypeOK
  /\ RegisterInv
  /\ ViewInv
  /\ CorpusOpens
  /\ CredentialListed
  /\ WalBounded

\* The type invariant in its three parts.
LEMMA TypeParts == TypeOK <=> TypedCatalog /\ TypedLocal /\ \A p \in Procs : Holding(p)
  BY DEF TypeOK, TypedCatalog, TypedLocal, Holding, Views

\* The empty view is a view and reports what it holds.
LEMMA NoViewType == /\ NoView \in [key : Nat, told : Nat, rows : Nat]
                    /\ NoView.told = NoView.rows
  BY DEF NoView, NoKey

\* The steps by what they do to the process that takes them.
Moves(p) ==
  \/ End(p)
  \/ /\ pc[p] = "idle" /\ lock = NoProc /\ lock' = p
     /\ \E step \in {"tier", "revoke", "next"}, name \in {"connect", "disconnect", "cycle",
                                                          "query", "use"} :
          Goto(p, step) /\ op' = [op EXCEPT ![p] = name]
     /\ \E work \in SUBSET Sources : todo' = [todo EXCEPT ![p] = work]
     /\ UNCHANGED <<key, cred, file, rows, src, made, view>>
  \/ TierBegin(p) \/ Bind(p) \/ Reserve(p) \/ ReserveFails(p) \/ OpenNew(p)
  \/ CreateCred(p) \/ OpenOrCredFails(p) \/ Discard(p)
  \/ pc[p] \in {"tier", "uncred"} /\ Step(p, "rollback")
  \/ pc[p] \in {"bind", "unbind"} /\ Step(p, "uncred")
  \/ /\ pc[p] = "rollback" /\ UNCHANGED <<lock, pc, op, todo, src, view>>
     /\ \E s \in Sources : made' \in {made, [made EXCEPT ![p] = @ \ {s}]}
  \/ pc[p] = "revoke" /\ UNCHANGED <<lock, local>>
  \/ Exclude(p) \/ Open(p) \/ CommitPage(p)
  \/ op[p] # "use" /\ SyncDone(p)
  \/ pc[p] = "sync" /\ Step(p, "next") /\ UNCHANGED durable
  \/ Snapshot(p) \/ Choose(p) \/ Relock(p) \/ Verify(p) \/ HandlerReturns(p)

\* The steps by what they do to the catalog.
Quiet == /\ UNCHANGED <<key, cred, file, rows, wal, loose, drawn>>
         /\ faults' \in {faults, faults + 1}

\* One call of a rollback or a disconnect.
Erases(s) ==
  \/ SetFile(s, Absent)
  \/ /\ file[s] = Absent /\ SetKey(s, NoKey) /\ drawn' = drawn
     /\ s \in cred => Provider[s] # "sentry"
  \/ SetCred(cred \ {s})

Writes(p) ==
  /\ access' = access
  /\ used' \subseteq {Connection[s] : s \in Sources}
  /\ \/ Quiet
     \/ TierBegin(p) \/ Bind(p) \/ Reserve(p) \/ OpenNew(p) \/ CreateCred(p)
     \/ pc[p] = "discard" /\ SetFile(src[p], Absent)
     \/ pc[p] = "unbind" /\ SetKey(src[p], NoKey) /\ drawn' = drawn
     \/ pc[p] = "uncred" /\ SetCred(cred \ {src[p]})
     \/ pc[p] \in {"rollback", "revoke"} /\ \E s \in Sources : Erases(s)
     \/ Open(p) \/ CommitPage(p)

\* Every step of a process is of one of the first kinds.
LEMMA Moving ==
  ASSUME TypeOK, NEW p \in Procs, Begins(p) \/ Runs(p) \/ Crash(p)
  PROVE  Moves(p)
<1> USE DEF TypeOK
<1>1. CASE \/ TierBegin(p) \/ Bind(p) \/ Reserve(p) \/ ReserveFails(p) \/ OpenNew(p)
          \/ CreateCred(p) \/ OpenOrCredFails(p) \/ Discard(p) \/ Exclude(p)
          \/ Open(p) \/ CommitPage(p) \/ Snapshot(p) \/ Choose(p) \/ Relock(p)
          \/ Verify(p) \/ HandlerReturns(p)
  BY <1>1 DEF Moves
<1>2. CASE \/ ConnectDone(p) \/ RollbackEnds(p) \/ RevokeEnds(p) \/ OpenFails(p)
          \/ CycleDone(p) \/ ChooseFails(p) \/ RelockTimeout(p) \/ VerifyFails(p)
          \/ Deliver(p) \/ Answer(p) \/ Crash(p)
  BY <1>2 DEF ConnectDone, RollbackEnds, RevokeEnds, OpenFails, CycleDone,
     ChooseFails, RelockTimeout, VerifyFails, Deliver, Answer, Crash, Moves
<1>3. CASE TierFails(p)
  BY <1>3 DEF TierFails, Moves
<1>4. CASE BindFails(p)
  BY <1>4 DEF BindFails, Moves
<1>5. CASE Unbind(p)
  BY <1>5 DEF Unbind, Moves
<1>6. CASE Uncred(p)
  BY <1>6 DEF Uncred, Moves
<1>7. CASE Rollback(p)
  BY <1>7 DEF Rollback, SetFile, SetKey, SetCred, Moves
<1>8. CASE Revoke(p)
  BY <1>8 DEF Revoke, Moves
<1>9. CASE SyncDone(p)
  BY <1>9 DEF SyncDone, Moves
<1>10. CASE SyncFails(p)
  BY <1>10 DEF SyncFails, Moves
<1>11. CASE ConnectBegin(p)
  BY <1>11 DEF ConnectBegin, Moves, Begin, Listed
<1>12. CASE DisconnectBegin(p)
  BY <1>12 DEF DisconnectBegin, Moves, Begin, Listed, durable
<1>13. CASE CycleBegin(p)
  BY <1>13 DEF CycleBegin, Moves, Begin, Listed, durable
<1>14. CASE QueryBegin(p)
  BY <1>14 DEF QueryBegin, Moves, Begin, Listed, durable
<1>15. CASE UseBegin(p)
  <2>1. PICK s \in Listed : Begin(p, "use", "next", {s}) /\ UNCHANGED durable
    BY <1>15 DEF UseBegin
  <2>2. {s} \in SUBSET Sources
    BY DEF Listed
  <2> QED
    BY <2>1, <2>2 DEF Moves, Begin, durable
<1> QED
  BY <1>1, <1>2, <1>3, <1>4, <1>5, <1>6, <1>7, <1>8, <1>9, <1>10, <1>11, <1>12, <1>13,
     <1>14, <1>15
  DEF Begins, Runs, Connects, Revokes, Reads

\* Every step of a process is of one of the second kinds.
LEMMA Writing ==
  ASSUME TypeOK, RegisterInv, NEW p \in Procs, Begins(p) \/ Runs(p) \/ Crash(p)
  PROVE  Writes(p)
<1> USE DEF TypeOK, RegisterInv
<1>1. CASE \/ ConnectDone(p) \/ OpenFails(p) \/ CycleDone(p) \/ ChooseFails(p)
          \/ RelockTimeout(p) \/ VerifyFails(p) \/ Deliver(p) \/ Answer(p)
          \/ Crash(p)
  BY <1>1 DEF ConnectDone, OpenFails, CycleDone, ChooseFails, RelockTimeout,
     VerifyFails, Deliver, Answer, Crash, Writes, Quiet, durable
<1>2. CASE \/ Exclude(p) \/ SyncDone(p) \/ SyncFails(p) \/ Snapshot(p) \/ Choose(p)
          \/ Relock(p) \/ Verify(p) \/ HandlerReturns(p)
  BY <1>2 DEF Exclude, SyncDone, SyncFails, Snapshot, Choose, Relock, Verify,
     HandlerReturns, Writes, Quiet, durable
<1>3. CASE \/ DisconnectBegin(p) \/ CycleBegin(p) \/ QueryBegin(p) \/ UseBegin(p)
  BY <1>3 DEF DisconnectBegin, CycleBegin, QueryBegin, UseBegin, Writes, Quiet,
     durable
<1>4. CASE TierBegin(p)
  BY <1>4 DEF TierBegin, Writes, SetCred
<1>5. CASE Bind(p)
  BY <1>5 DEF Bind, Writes, SetKey
<1>6. CASE Reserve(p)
  BY <1>6 DEF Reserve, Writes, SetFile
<1>7. CASE OpenNew(p)
  BY <1>7 DEF OpenNew, Writes, SetFile
<1>8. CASE CreateCred(p)
  BY <1>8 DEF CreateCred, Writes, SetCred
<1>9. CASE Open(p)
  BY <1>9 DEF Open, Writes
<1>10. CASE CommitPage(p)
  BY <1>10 DEF CommitPage, Writes
<1>11. CASE \/ TierFails(p) \/ OpenOrCredFails(p)
  BY <1>11 DEF TierFails, OpenOrCredFails, Writes, Quiet, Fault, durable
<1>12. CASE BindFails(p)
  BY <1>12 DEF BindFails, Writes, Quiet, Fault, durable
<1>13. CASE ReserveFails(p)
  BY <1>13 DEF ReserveFails, Writes, Quiet, Fault, durable
<1>14. CASE RollbackEnds(p)
  BY <1>14 DEF RollbackEnds, Writes, Quiet, Fault, durable
<1>15. CASE RevokeEnds(p)
  BY <1>15 DEF RevokeEnds, Writes, Quiet, Fault, durable
<1>16. CASE Discard(p)
  BY <1>16 DEF Discard, Writes, Quiet, SetFile, Fault
<1>17. CASE Unbind(p)
  BY <1>17 DEF Unbind, Writes, Quiet, SetKey, Fault
<1>18. CASE Uncred(p)
  BY <1>18 DEF Uncred, Writes, Quiet, SetCred, Fault
<1>19. CASE Rollback(p)
  <2>1. PICK s \in made[p] : Erases(s)
    BY <1>19 DEF Rollback, Erases, Registering
  <2>2. UNCHANGED <<access, used>> /\ pc[p] = "rollback" /\ s \in Sources
    BY <1>19 DEF Rollback, SetFile, SetKey, SetCred
  <2> QED
    BY <2>1, <2>2 DEF Writes
<1>20. CASE Revoke(p)
  <2>1. PICK s \in todo[p] : Erases(s)
    BY <1>20 DEF Revoke, Erases, Registering
  <2>2. UNCHANGED <<access, used>> /\ pc[p] = "revoke" /\ s \in Sources
    BY <1>20 DEF Revoke, SetFile, SetKey, SetCred
  <2> QED
    BY <2>1, <2>2 DEF Writes
<1>21. CASE ConnectBegin(p)
  <2>1. PICK c \in {Connection[s] : s \in Sources} :
           /\ used' \in {used, used \cup {c}}
           /\ UNCHANGED <<access, key, cred, file, rows, wal, loose, drawn, faults>>
    BY <1>21 DEF ConnectBegin
  <2> QED
    BY <2>1 DEF Writes, Quiet
<1> QED
  BY <1>1, <1>2, <1>3, <1>4, <1>5, <1>6, <1>7, <1>8, <1>9, <1>10, <1>11, <1>12, <1>13,
     <1>14, <1>15, <1>16, <1>17, <1>18, <1>19, <1>20, <1>21
  DEF Begins, Runs, Connects, Revokes, Reads

\* A process changes no other process's position, work or view, and takes no lock
\* from it.
LEMMA OthersKeep ==
  ASSUME NEW p \in Procs, Holding(p), TypedLocal, Moves(p)
  PROVE  /\ \A q \in Procs \ {p} :
              /\ pc'[q] = pc[q] /\ todo'[q] = todo[q] /\ src'[q] = src[q]
              /\ made'[q] = made[q] /\ view'[q] = view[q]
         /\ lock' = lock \/ (lock \in {p, NoProc} /\ lock' \in {p, NoProc})
<1> USE DEF TypedLocal, Holding, Unlocked, local
<1>1. CASE End(p)
  BY <1>1 DEF End, Goto
<1>2. CASE /\ pc[p] = "idle" /\ lock = NoProc /\ lock' = p
           /\ \E step \in {"tier", "revoke", "next"}, name \in {"connect", "disconnect",
                                                       "cycle", "query", "use"} :
                Goto(p, step) /\ op' = [op EXCEPT ![p] = name]
           /\ \E work \in SUBSET Sources : todo' = [todo EXCEPT ![p] = work]
           /\ UNCHANGED <<key, cred, file, rows, src, made, view>>
  BY <1>2 DEF Goto
<1>3. CASE TierBegin(p)
  BY <1>3 DEF TierBegin, Goto, SetCred, Tiered
<1>4. CASE Bind(p)
  BY <1>4 DEF Bind, Step, SetKey, Goto
<1>5. CASE Reserve(p)
  BY <1>5 DEF Reserve, Step, SetFile, Goto
<1>6. CASE ReserveFails(p)
  BY <1>6 DEF ReserveFails, Fault, Step, Goto
<1>7. CASE OpenNew(p)
  BY <1>7 DEF OpenNew, Goto, SetFile
<1>8. CASE CreateCred(p)
  BY <1>8 DEF CreateCred, Step, SetCred, Goto
<1>9. CASE OpenOrCredFails(p)
  BY <1>9 DEF OpenOrCredFails, Fault, Step, Goto
<1>10. CASE Discard(p)
  BY <1>10 DEF Discard, Fault, Step, SetFile, Goto
<1>11. CASE pc[p] \in {"tier", "uncred"} /\ Step(p, "rollback")
  BY <1>11 DEF Step, Goto
<1>12. CASE pc[p] \in {"bind", "unbind"} /\ Step(p, "uncred")
  BY <1>12 DEF Step, Goto
<1>13. CASE /\ pc[p] = "rollback" /\ UNCHANGED <<lock, pc, op, todo, src, view>>
            /\ \E s \in Sources : made' \in {made, [made EXCEPT ![p] = @ \ {s}]}
  BY <1>13
<1>14. CASE pc[p] = "revoke" /\ UNCHANGED <<lock, local>>
  BY <1>14
<1>15. CASE Exclude(p)
  BY <1>15 DEF Exclude, Blocked
<1>16. CASE Open(p)
  BY <1>16 DEF Open, Goto, Blocked
<1>17. CASE CommitPage(p)
  BY <1>17 DEF CommitPage, Reachable
<1>18. CASE op[p] # "use" /\ SyncDone(p)
  BY <1>18 DEF SyncDone, End, Goto, Reachable
<1>19. CASE pc[p] = "sync" /\ Step(p, "next") /\ UNCHANGED durable
  BY <1>19 DEF Step, Goto
<1>20. CASE Snapshot(p)
  BY <1>20 DEF Snapshot, Goto, Selected
<1>21. CASE Choose(p)
  BY <1>21 DEF Choose, Step, Goto
<1>22. CASE Relock(p)
  BY <1>22 DEF Relock, Goto
<1>23. CASE Verify(p)
  BY <1>23 DEF Verify, Step, Selected, Reachable, Goto
<1>24. CASE HandlerReturns(p)
  BY <1>24 DEF HandlerReturns, Goto
<1> QED
  BY <1>1, <1>2, <1>3, <1>4, <1>5, <1>6, <1>7, <1>8, <1>9, <1>10, <1>11, <1>12, <1>13,
     <1>14, <1>15, <1>16, <1>17, <1>18, <1>19, <1>20, <1>21, <1>22, <1>23, <1>24,
     ZenonT(60) DEF Moves

\* A process has the lock after its step exactly where the code runs under it.
LEMMA OwnLock ==
  ASSUME NEW p \in Procs, Holding(p), TypedLocal, Moves(p)
  PROVE  Holding(p)'
<1> USE SourcesAssumption DEF TypedLocal, Holding, Unlocked, local
<1>1. CASE End(p)
  BY <1>1 DEF End, Goto
<1>2. CASE /\ pc[p] = "idle" /\ lock = NoProc /\ lock' = p
           /\ \E step \in {"tier", "revoke", "next"}, name \in {"connect", "disconnect",
                                                       "cycle", "query", "use"} :
                Goto(p, step) /\ op' = [op EXCEPT ![p] = name]
           /\ \E work \in SUBSET Sources : todo' = [todo EXCEPT ![p] = work]
           /\ UNCHANGED <<key, cred, file, rows, src, made, view>>
  BY <1>2 DEF Goto
<1>3. CASE TierBegin(p)
  BY <1>3 DEF TierBegin, Goto, SetCred, Tiered
<1>4. CASE Bind(p)
  BY <1>4 DEF Bind, Step, SetKey, Goto
<1>5. CASE Reserve(p)
  BY <1>5 DEF Reserve, Step, SetFile, Goto
<1>6. CASE ReserveFails(p)
  BY <1>6 DEF ReserveFails, Fault, Step, Goto
<1>7. CASE OpenNew(p)
  BY <1>7, SMTT(60) DEF OpenNew, Goto, SetFile
<1>8. CASE CreateCred(p)
  BY <1>8 DEF CreateCred, Step, SetCred, Goto
<1>9. CASE OpenOrCredFails(p)
  BY <1>9 DEF OpenOrCredFails, Fault, Step, Goto
<1>10. CASE Discard(p)
  BY <1>10 DEF Discard, Fault, Step, SetFile, Goto
<1>11. CASE pc[p] \in {"tier", "uncred"} /\ Step(p, "rollback")
  BY <1>11 DEF Step, Goto
<1>12. CASE pc[p] \in {"bind", "unbind"} /\ Step(p, "uncred")
  BY <1>12 DEF Step, Goto
<1>13. CASE /\ pc[p] = "rollback" /\ UNCHANGED <<lock, pc, op, todo, src, view>>
            /\ \E s \in Sources : made' \in {made, [made EXCEPT ![p] = @ \ {s}]}
  BY <1>13
<1>14. CASE pc[p] = "revoke" /\ UNCHANGED <<lock, local>>
  BY <1>14
<1>15. CASE Exclude(p)
  BY <1>15 DEF Exclude, Blocked
<1>16. CASE Open(p)
  BY <1>16 DEF Open, Goto, Blocked
<1>17. CASE CommitPage(p)
  BY <1>17 DEF CommitPage, Reachable
<1>18. CASE op[p] # "use" /\ SyncDone(p)
  BY <1>18 DEF SyncDone, End, Goto, Reachable
<1>19. CASE pc[p] = "sync" /\ Step(p, "next") /\ UNCHANGED durable
  BY <1>19 DEF Step, Goto
<1>20. CASE Snapshot(p)
  BY <1>20 DEF Snapshot, Goto, Selected
<1>21. CASE Choose(p)
  BY <1>21 DEF Choose, Step, Goto
<1>22. CASE Relock(p)
  BY <1>22 DEF Relock, Goto
<1>23. CASE Verify(p)
  BY <1>23 DEF Verify, Step, Selected, Reachable, Goto
<1>24. CASE HandlerReturns(p)
  BY <1>24 DEF HandlerReturns, Goto
<1> QED
  BY <1>1, <1>2, <1>3, <1>4, <1>5, <1>6, <1>7, <1>8, <1>9, <1>10, <1>11, <1>12, <1>13,
     <1>14, <1>15, <1>16, <1>17, <1>18, <1>19, <1>20, <1>21, <1>22, <1>23, <1>24,
     ZenonT(60) DEF Moves

\* The step keeps the types of the processes' variables.
LEMMA LocalTypes ==
  ASSUME NEW p \in Procs, TypedLocal, TypedCatalog, Registering(p), Moves(p)
  PROVE  TypedLocal'
<1> USE NoViewType DEF TypedLocal, TypedCatalog, Registering, Views, Steps, Unlocked, local
<1>1. CASE End(p)
  BY <1>1 DEF End, Goto
<1>2. CASE /\ pc[p] = "idle" /\ lock = NoProc /\ lock' = p
           /\ \E step \in {"tier", "revoke", "next"}, name \in {"connect", "disconnect",
                                                       "cycle", "query", "use"} :
                Goto(p, step) /\ op' = [op EXCEPT ![p] = name]
           /\ \E work \in SUBSET Sources : todo' = [todo EXCEPT ![p] = work]
           /\ UNCHANGED <<key, cred, file, rows, src, made, view>>
  BY <1>2, SMTT(60) DEF Goto
<1>3. CASE TierBegin(p)
  BY <1>3, SMTT(60) DEF TierBegin, Goto, SetCred, Tiered
<1>4. CASE Bind(p)
  BY <1>4 DEF Bind, Step, SetKey, Goto
<1>5. CASE Reserve(p)
  BY <1>5 DEF Reserve, Step, SetFile, Goto
<1>6. CASE ReserveFails(p)
  BY <1>6 DEF ReserveFails, Fault, Step, Goto
<1>7. CASE OpenNew(p)
  <2>1. pc' \in [Procs -> Steps] /\ UNCHANGED <<lock, op, todo, src, view>>
    BY <1>7 DEF OpenNew, Goto
  <2>2. made[p] \cup {src[p]} \in SUBSET Sources
    BY <1>7 DEF OpenNew
  <2>3. made' \in [Procs -> SUBSET Sources]
    BY <1>7, <2>2 DEF OpenNew
  <2> QED
    BY <2>1, <2>3
<1>8. CASE CreateCred(p)
  BY <1>8 DEF CreateCred, Step, SetCred, Goto
<1>9. CASE OpenOrCredFails(p)
  BY <1>9 DEF OpenOrCredFails, Fault, Step, Goto
<1>10. CASE Discard(p)
  BY <1>10 DEF Discard, Fault, Step, SetFile, Goto
<1>11. CASE pc[p] \in {"tier", "uncred"} /\ Step(p, "rollback")
  BY <1>11 DEF Step, Goto
<1>12. CASE pc[p] \in {"bind", "unbind"} /\ Step(p, "uncred")
  BY <1>12 DEF Step, Goto
<1>13. CASE /\ pc[p] = "rollback" /\ UNCHANGED <<lock, pc, op, todo, src, view>>
            /\ \E s \in Sources : made' \in {made, [made EXCEPT ![p] = @ \ {s}]}
  <2>1. PICK s \in Sources : made' \in {made, [made EXCEPT ![p] = @ \ {s}]}
    BY <1>13
  <2>2. made[p] \ {s} \in SUBSET Sources
    OBVIOUS
  <2>3. made' \in [Procs -> SUBSET Sources]
    BY <2>1, <2>2
  <2> QED
    BY <1>13, <2>3
<1>14. CASE pc[p] = "revoke" /\ UNCHANGED <<lock, local>>
  BY <1>14
<1>15. CASE Exclude(p)
  BY <1>15, SMTT(60) DEF Exclude, Blocked
<1>16. CASE Open(p)
  BY <1>16, SMTT(60) DEF Open, Goto, Blocked
<1>17. CASE CommitPage(p)
  BY <1>17 DEF CommitPage, Reachable
<1>18. CASE op[p] # "use" /\ SyncDone(p)
  <2>1. /\ src[p] \in Sources /\ pc' = [pc EXCEPT ![p] = "next"]
        /\ UNCHANGED <<lock, op, todo, src, made>>
    BY <1>18 DEF SyncDone, Goto
  <2>2. view' \in [Procs -> Views]
    <3> DEFINE told == [key |-> key[src[p]], told |-> rows[src[p]], rows |-> 0]
    <3>1. told \in [key : Nat, told : Nat, rows : Nat]
      BY <2>1
    <3>2. view' \in {view, [view EXCEPT ![p][src[p]] = told]}
      BY <1>18 DEF SyncDone
    <3> HIDE DEF told
    <3>3. [view[p] EXCEPT ![src[p]] = told] \in Views
      BY <2>1, <3>1
    <3>4. [view EXCEPT ![p][src[p]] = told] = [view EXCEPT ![p] = [view[p] EXCEPT ![src[p]] = told]]
      BY <2>1
    <3> QED
      BY <3>2, <3>3, <3>4
  <2> QED
    BY <2>1, <2>2
<1>19. CASE pc[p] = "sync" /\ Step(p, "next") /\ UNCHANGED durable
  BY <1>19 DEF Step, Goto
<1>20. CASE Snapshot(p)
  <2>1. /\ pc' = [pc EXCEPT ![p] = "select"] /\ lock' = NoProc
        /\ UNCHANGED <<op, todo, src, made>>
    BY <1>20 DEF Snapshot, Goto
  <2> DEFINE seen == [s \in Sources |->
                IF s \in Selected(p) THEN [view[p][s] EXCEPT !.rows = rows[s]] ELSE NoView]
  <2>2. ASSUME NEW s \in Sources
        PROVE  [view[p][s] EXCEPT !.rows = rows[s]] \in [key : Nat, told : Nat, rows : Nat]
    <3>1. view[p] \in Views
      OBVIOUS
    <3>2. view[p][s] \in [key : Nat, told : Nat, rows : Nat] /\ rows[s] \in Nat
      BY <3>1
    <3> HIDE DEF TypedLocal, TypedCatalog
    <3> QED
      BY <3>2
  <2>3. seen \in Views
    BY <2>2
  <2>4. view' = [view EXCEPT ![p] = seen]
    BY <1>20 DEF Snapshot
  <2> HIDE DEF seen
  <2>5. view' \in [Procs -> Views]
    BY <2>3, <2>4
  <2> QED
    BY <2>1, <2>5
<1>21. CASE Choose(p)
  BY <1>21 DEF Choose, Step, Goto
<1>22. CASE Relock(p)
  BY <1>22 DEF Relock, Goto
<1>23. CASE Verify(p)
  BY <1>23 DEF Verify, Step, Selected, Reachable, Goto
<1>24. CASE HandlerReturns(p)
  BY <1>24 DEF HandlerReturns, Goto
<1> QED
  BY <1>1, <1>2, <1>3, <1>4, <1>5, <1>6, <1>7, <1>8, <1>9, <1>10, <1>11, <1>12, <1>13,
     <1>14, <1>15, <1>16, <1>17, <1>18, <1>19, <1>20, <1>21, <1>22, <1>23, <1>24,
     ZenonT(60) DEF Moves

\* What an open does to the corpus: its key, and an unknown number of pages of log.
LEMMA OpenWrites ==
  ASSUME NEW p \in Procs, TypedLocal, TypedCatalog, Open(p)
  PROVE  \E s \in Sources, n \in Nat :
           /\ file[s] \in {Reserved, key[s]}
           /\ file' = [file EXCEPT ![s] = key[s]]
           /\ wal' = [wal EXCEPT ![s] = @ + n]
           /\ loose' = [loose EXCEPT ![s] = @ + n]
<1>1. PICK s \in todo[p] : /\ file[s] \in {Reserved, key[s]}
                           /\ file' = [file EXCEPT ![s] = key[s]]
                           /\ Rebuild(s)
  BY DEF Open
<1>2. s \in Sources
  BY DEF TypedLocal
<1>3. loose[s] \in Nat /\ MaxRebuild \in Nat
  BY <1>2, BoundsAssumption DEF TypedCatalog
<1>4. PICK n \in 0 .. MaxRebuild - loose[s] : /\ wal' = [wal EXCEPT ![s] = @ + n]
                                              /\ loose' = [loose EXCEPT ![s] = @ + n]
  BY <1>1 DEF Rebuild
<1>5. n \in Nat
  BY <1>3, SMTT(60)
<1> QED
  BY <1>1, <1>2, <1>4, <1>5

\* The step keeps the types of the catalog.
LEMMA CatalogTypes ==
  ASSUME NEW p \in Procs, TypedLocal, TypedCatalog, Registering(p), Writes(p)
  PROVE  TypedCatalog'
<1> USE DEF TypedLocal, TypedCatalog, Registering, NoKey, Absent, Reserved
<1>0. access' \subseteq Sources /\ used' \subseteq {Connection[s] : s \in Sources}
  BY DEF Writes
<1>1. CASE Quiet
  BY <1>0, <1>1, SMTT(60) DEF Quiet
<1>2. CASE TierBegin(p)
  BY <1>0, <1>2, SMTT(60) DEF TierBegin, Goto, SetCred, Tiered
<1>3. CASE Bind(p)
  BY <1>0, <1>3, SMTT(60) DEF Bind, Step, SetKey, Goto
<1>4. CASE Reserve(p)
  BY <1>0, <1>4 DEF Reserve, Step, SetFile, Goto
<1>5. CASE OpenNew(p)
  BY <1>0, <1>5 DEF OpenNew, Goto, SetFile
<1>6. CASE CreateCred(p)
  BY <1>0, <1>6 DEF CreateCred, Step, SetCred, Goto
<1>7. CASE pc[p] = "discard" /\ SetFile(src[p], Absent)
  BY <1>0, <1>7 DEF SetFile
<1>8. CASE pc[p] = "unbind" /\ SetKey(src[p], NoKey) /\ drawn' = drawn
  BY <1>0, <1>8 DEF SetKey
<1>9. CASE pc[p] = "uncred" /\ SetCred(cred \ {src[p]})
  BY <1>0, <1>9 DEF SetCred
<1>10. CASE pc[p] \in {"rollback", "revoke"} /\ \E s \in Sources : Erases(s)
  <2>1. PICK s \in Sources : Erases(s)
    BY <1>10
  <2>2. CASE SetFile(s, Absent)
    BY <1>0, <2>2 DEF SetFile
  <2>3. CASE /\ file[s] = Absent /\ SetKey(s, NoKey) /\ drawn' = drawn
             /\ s \in cred => Provider[s] # "sentry"
    BY <1>0, <2>3 DEF SetKey
  <2>4. CASE SetCred(cred \ {s})
    BY <1>0, <2>4 DEF SetCred
  <2> QED
    BY <2>1, <2>2, <2>3, <2>4 DEF Erases
<1>11. CASE Open(p)
  <2>1. PICK s \in Sources, n \in Nat :
          /\ file' = [file EXCEPT ![s] = key[s]]
          /\ wal' = [wal EXCEPT ![s] = @ + n]
          /\ loose' = [loose EXCEPT ![s] = @ + n]
    BY <1>11, OpenWrites
  <2>2. UNCHANGED <<key, cred, rows, drawn, faults>>
    BY <1>11 DEF Open
  <2>3. wal' \in [Sources -> Nat] /\ loose' \in [Sources -> Nat]
    BY <2>1, SMTT(60)
  <2> QED
    BY <1>0, <2>1, <2>2, <2>3, SMTT(60)
<1>12. CASE CommitPage(p)
  BY <1>0, <1>12, SMTT(60) DEF CommitPage, Reachable
<1> QED
  BY <1>1, <1>2, <1>3, <1>4, <1>5, <1>6, <1>7, <1>8, <1>9, <1>10, <1>11, <1>12
     DEF Writes

\* The process keeps what it knows of the source it registers.
LEMMA RegisterStep ==
  ASSUME NEW p \in Procs, TypedLocal, TypedCatalog, Registering(p), CorpusOpens, CredentialListed, Moves(p)
  PROVE  Registering(p)'
<1> USE SourcesAssumption
    DEF TypedLocal, TypedCatalog, Registering, CorpusOpens, CredentialListed, NoKey,
        Absent, Reserved, local, durable
<1>1. CASE End(p)
  BY <1>1 DEF End, Goto
<1>2. CASE /\ pc[p] = "idle" /\ lock = NoProc /\ lock' = p
           /\ \E step \in {"tier", "revoke", "next"}, name \in {"connect", "disconnect",
                                                       "cycle", "query", "use"} :
                Goto(p, step) /\ op' = [op EXCEPT ![p] = name]
           /\ \E work \in SUBSET Sources : todo' = [todo EXCEPT ![p] = work]
           /\ UNCHANGED <<key, cred, file, rows, src, made, view>>
  BY <1>2 DEF Goto
<1>3. CASE TierBegin(p)
  BY <1>3, SMTT(60) DEF TierBegin, Goto, SetCred, Tiered
<1>4. CASE Bind(p)
  BY <1>4, SMTT(60) DEF Bind, Step, SetKey, Goto
<1>5. CASE Reserve(p)
  BY <1>5 DEF Reserve, Step, SetFile, Goto
<1>6. CASE ReserveFails(p)
  BY <1>6, SMTT(60) DEF ReserveFails, Fault, Step, Goto
<1>7. CASE OpenNew(p)
  BY <1>7, SMTT(60) DEF OpenNew, Goto, SetFile
<1>8. CASE CreateCred(p)
  BY <1>8 DEF CreateCred, Step, SetCred, Goto
<1>9. CASE OpenOrCredFails(p)
  BY <1>9, SMTT(60) DEF OpenOrCredFails, Fault, Step, Goto
<1>10. CASE Discard(p)
  BY <1>10, SMTT(60) DEF Discard, Fault, Step, SetFile, Goto
<1>11. CASE pc[p] \in {"tier", "uncred"} /\ Step(p, "rollback")
  BY <1>11 DEF Step, Goto
<1>12. CASE pc[p] \in {"bind", "unbind"} /\ Step(p, "uncred")
  BY <1>12 DEF Step, Goto
<1>13. CASE /\ pc[p] = "rollback" /\ UNCHANGED <<lock, pc, op, todo, src, view>>
            /\ \E s \in Sources : made' \in {made, [made EXCEPT ![p] = @ \ {s}]}
  BY <1>13, SMTT(60)
<1>14. CASE pc[p] = "revoke" /\ UNCHANGED <<lock, local>>
  BY <1>14
<1>15. CASE Exclude(p)
  BY <1>15 DEF Exclude, Blocked
<1>16. CASE Open(p)
  BY <1>16, SMTT(60) DEF Open, Goto, Blocked
<1>17. CASE CommitPage(p)
  BY <1>17 DEF CommitPage, Reachable
<1>18. CASE op[p] # "use" /\ SyncDone(p)
  BY <1>18 DEF SyncDone, End, Goto, Reachable
<1>19. CASE pc[p] = "sync" /\ Step(p, "next") /\ UNCHANGED durable
  BY <1>19 DEF Step, Goto
<1>20. CASE Snapshot(p)
  BY <1>20 DEF Snapshot, Goto, Selected
<1>21. CASE Choose(p)
  BY <1>21 DEF Choose, Step, Goto
<1>22. CASE Relock(p)
  BY <1>22 DEF Relock, Goto
<1>23. CASE Verify(p)
  BY <1>23 DEF Verify, Step, Selected, Reachable, Goto
<1>24. CASE HandlerReturns(p)
  BY <1>24 DEF HandlerReturns, Goto
<1> QED
  BY <1>1, <1>2, <1>3, <1>4, <1>5, <1>6, <1>7, <1>8, <1>9, <1>10, <1>11, <1>12, <1>13,
     <1>14, <1>15, <1>16, <1>17, <1>18, <1>19, <1>20, <1>21, <1>22, <1>23, <1>24,
     ZenonT(60) DEF Moves

\* Corpora stay openable, credentials listed and logs bounded.
LEMMA CorpusStep ==
  ASSUME NEW p \in Procs, TypedLocal, TypedCatalog, Registering(p), CorpusOpens, CredentialListed, WalBounded, Writes(p)
  PROVE  CorpusOpens' /\ CredentialListed' /\ WalBounded'
<1> USE SourcesAssumption, BoundsAssumption
    DEF TypedLocal, TypedCatalog, Registering, CorpusOpens, CredentialListed, WalBounded,
        NoKey, Absent, Reserved
<1>1. CASE Quiet
  BY <1>1, SMTT(60) DEF Quiet
<1>2. CASE TierBegin(p)
  BY <1>2 DEF TierBegin, Goto, SetCred, Tiered
<1>3. CASE Bind(p)
  BY <1>3 DEF Bind, Step, SetKey, Goto
<1>4. CASE Reserve(p)
  BY <1>4, SMTT(60) DEF Reserve, Step, SetFile, Goto
<1>5. CASE OpenNew(p)
  BY <1>5, SMTT(60) DEF OpenNew, Goto, SetFile
<1>6. CASE CreateCred(p)
  BY <1>6 DEF CreateCred, Step, SetCred, Goto
<1>7. CASE pc[p] = "discard" /\ SetFile(src[p], Absent)
  BY <1>7, SMTT(60) DEF SetFile
<1>8. CASE pc[p] = "unbind" /\ SetKey(src[p], NoKey) /\ drawn' = drawn
  BY <1>8, SMTT(60) DEF SetKey
<1>9. CASE pc[p] = "uncred" /\ SetCred(cred \ {src[p]})
  BY <1>9 DEF SetCred
<1>10. CASE pc[p] \in {"rollback", "revoke"} /\ \E s \in Sources : Erases(s)
  <2>1. PICK s \in Sources : Erases(s)
    BY <1>10
  <2>2. CASE SetFile(s, Absent)
    BY <2>2, SMTT(60) DEF SetFile
  <2>3. CASE /\ file[s] = Absent /\ SetKey(s, NoKey) /\ drawn' = drawn
             /\ s \in cred => Provider[s] # "sentry"
    BY <2>3, SMTT(60) DEF SetKey
  <2>4. CASE SetCred(cred \ {s})
    BY <2>4 DEF SetCred
  <2> QED
    BY <2>1, <2>2, <2>3, <2>4 DEF Erases
<1>11. CASE Open(p)
  <2>1. PICK s \in Sources, n \in Nat :
          /\ file[s] \in {Reserved, key[s]}
          /\ file' = [file EXCEPT ![s] = key[s]]
          /\ wal' = [wal EXCEPT ![s] = @ + n]
          /\ loose' = [loose EXCEPT ![s] = @ + n]
    BY <1>11, OpenWrites
  <2>2. UNCHANGED <<key, cred, faults>>
    BY <1>11 DEF Open
  <2>3. WalBounded'
    BY <2>1, SMTT(60)
  <2>4. CorpusOpens' /\ CredentialListed'
    BY <2>1, <2>2, SMTT(60)
  <2> QED
    BY <2>3, <2>4
<1>12. CASE CommitPage(p)
  BY <1>12, SMTT(60) DEF CommitPage, Reachable
<1> QED
  BY <1>1, <1>2, <1>3, <1>4, <1>5, <1>6, <1>7, <1>8, <1>9, <1>10, <1>11, <1>12
     DEF Writes

\* A view says what it was told.
LEMMA ToldField ==
  ASSUME NEW k, NEW t
  PROVE  [key |-> k, told |-> t, rows |-> 0].told = t
  BY SMT

\* The sync of a source that ends well leaves the query with the rows as told.
LEMMA ViewSyncDone ==
  ASSUME NEW p \in Procs, TypedLocal, Registering(p), Viewing(p), op[p] # "use", SyncDone(p)
  PROVE  Viewing(p)'
<1> DEFINE told == [key |-> key[src[p]], told |-> rows[src[p]], rows |-> 0]
<1>1. /\ pc[p] = "sync" /\ pc' = [pc EXCEPT ![p] = "next"]
      /\ UNCHANGED <<todo, rows>>
  BY DEF SyncDone, Goto, durable
<1>2. view' = view \/ view' = [view EXCEPT ![p][src[p]] = told]
  BY DEF SyncDone
<1>3. src[p] \in Sources /\ view \in [Procs -> Views] /\ view[p] \in Views /\ pc'[p] = "next"
  BY <1>1 DEF TypedLocal, Registering
<1>4. told.told = rows[src[p]]
  BY ToldField
<1>5. src[p] \notin todo[p]
  BY <1>1 DEF Viewing
<1>6. ASSUME NEW s \in Sources, view[p][s] # NoView
      PROVE  view[p][s].told = rows[s] /\ s \notin todo[p]
  BY <1>1, <1>6 DEF Viewing
<1> HIDE DEF told
<1>7. ASSUME NEW s \in Sources, view'[p][s] # NoView
      PROVE  view'[p][s].told = rows[s] /\ s \notin todo[p]
  <2>1. CASE view'[p][s] = view[p][s]
    BY <1>6, <1>7, <2>1
  <2>2. CASE view'[p][s] = told /\ s = src[p]
    BY <1>4, <1>5, <2>2
  <2>3. view'[p][s] = view[p][s] \/ (view'[p][s] = told /\ s = src[p])
    BY <1>2, <1>3 DEF Views
  <2> QED
    BY <2>1, <2>2, <2>3
<1> QED
  BY <1>1, <1>3, <1>7 DEF Viewing

\* The process's query stays true to the catalog.
LEMMA ViewStep ==
  ASSUME NEW p \in Procs, TypedLocal, TypedCatalog, Registering(p), Viewing(p), Moves(p)
  PROVE  Viewing(p)'
<1> USE NoViewType DEF TypedLocal, TypedCatalog, Registering, Viewing, Views, local, durable
<1>1. CASE End(p)
  BY <1>1 DEF End, Goto
<1>2. CASE /\ pc[p] = "idle" /\ lock = NoProc /\ lock' = p
           /\ \E step \in {"tier", "revoke", "next"}, name \in {"connect", "disconnect",
                                                       "cycle", "query", "use"} :
                Goto(p, step) /\ op' = [op EXCEPT ![p] = name]
           /\ \E work \in SUBSET Sources : todo' = [todo EXCEPT ![p] = work]
           /\ UNCHANGED <<key, cred, file, rows, src, made, view>>
  BY <1>2 DEF Goto
<1>3. CASE TierBegin(p)
  BY <1>3 DEF TierBegin, Goto, SetCred, Tiered
<1>4. CASE Bind(p)
  BY <1>4 DEF Bind, Step, SetKey, Goto
<1>5. CASE Reserve(p)
  BY <1>5 DEF Reserve, Step, SetFile, Goto
<1>6. CASE ReserveFails(p)
  BY <1>6 DEF ReserveFails, Fault, Step, Goto
<1>7. CASE OpenNew(p)
  BY <1>7 DEF OpenNew, Goto, SetFile
<1>8. CASE CreateCred(p)
  BY <1>8 DEF CreateCred, Step, SetCred, Goto
<1>9. CASE OpenOrCredFails(p)
  BY <1>9 DEF OpenOrCredFails, Fault, Step, Goto
<1>10. CASE Discard(p)
  BY <1>10 DEF Discard, Fault, Step, SetFile, Goto
<1>11. CASE pc[p] \in {"tier", "uncred"} /\ Step(p, "rollback")
  BY <1>11 DEF Step, Goto
<1>12. CASE pc[p] \in {"bind", "unbind"} /\ Step(p, "uncred")
  BY <1>12 DEF Step, Goto
<1>13. CASE /\ pc[p] = "rollback" /\ UNCHANGED <<lock, pc, op, todo, src, view>>
            /\ \E s \in Sources : made' \in {made, [made EXCEPT ![p] = @ \ {s}]}
  BY <1>13
<1>14. CASE pc[p] = "revoke" /\ UNCHANGED <<lock, local>>
  BY <1>14
<1>15. CASE Exclude(p)
  <2>1. /\ pc[p] = "next" /\ UNCHANGED <<pc, src, view, rows>>
        /\ \E s \in todo[p] : todo' = [todo EXCEPT ![p] = @ \ {s}]
    BY <1>15 DEF Exclude
  <2>2. todo'[p] \subseteq todo[p]
    BY <2>1, SMTT(60)
  <2> HIDE DEF TypedLocal, TypedCatalog, Registering
  <2> QED
    BY <2>1, <2>2
<1>16. CASE Open(p)
  <2>1. PICK s \in todo[p] : /\ src' = [src EXCEPT ![p] = s]
                             /\ todo' = [todo EXCEPT ![p] = @ \ {s}]
    BY <1>16 DEF Open
  <2>2. pc[p] = "next" /\ pc'[p] = "sync" /\ UNCHANGED <<view, rows>>
    BY <1>16 DEF Open, Goto
  <2>3. s \in Sources /\ src'[p] = s /\ todo'[p] = todo[p] \ {s}
    BY <2>1
  <2> HIDE DEF TypedLocal, TypedCatalog, Registering
  <2> QED
    BY <2>2, <2>3
<1>17. CASE CommitPage(p)
  BY <1>17 DEF CommitPage, Reachable
<1>18. CASE op[p] # "use" /\ SyncDone(p)
  <2> HIDE DEF TypedLocal, TypedCatalog, Registering, Viewing
  <2> QED
    BY <1>18, ViewSyncDone
<1>19. CASE pc[p] = "sync" /\ Step(p, "next") /\ UNCHANGED durable
  BY <1>19 DEF Step, Goto
<1>20. CASE Snapshot(p)
  BY <1>20, SMTT(60) DEF Snapshot, Goto, Selected
<1>21. CASE Choose(p)
  BY <1>21 DEF Choose, Step, Goto
<1>22. CASE Relock(p)
  BY <1>22 DEF Relock, Goto
<1>23. CASE Verify(p)
  BY <1>23 DEF Verify, Step, Selected, Reachable, Goto
<1>24. CASE HandlerReturns(p)
  BY <1>24 DEF HandlerReturns, Goto
<1> QED
  BY <1>1, <1>2, <1>3, <1>4, <1>5, <1>6, <1>7, <1>8, <1>9, <1>10, <1>11, <1>12, <1>13,
     <1>14, <1>15, <1>16, <1>17, <1>18, <1>19, <1>20, <1>21, <1>22, <1>23, <1>24,
     ZenonT(60) DEF Moves

\* The facts of every other process stay: it either waits without the lock, where
\* they do not depend on the catalog, or the catalog does not change.
LEMMA OthersStep ==
  ASSUME NEW p \in Procs, TypeOK, Moves(p), Writes(p), NEW q \in Procs \ {p},
         Registering(q), Viewing(q)
  PROVE  Holding(q)' /\ Registering(q)' /\ Viewing(q)'
<1>1. /\ pc'[q] = pc[q] /\ todo'[q] = todo[q] /\ src'[q] = src[q]
      /\ made'[q] = made[q] /\ view'[q] = view[q]
      /\ lock' = lock \/ (lock \in {p, NoProc} /\ lock' \in {p, NoProc})
  BY OthersKeep, TypeParts
<1>2. Holding(p) /\ Holding(q) /\ q # NoProc /\ q # p
  BY TypeParts, SourcesAssumption
<1>3. Holding(q)'
  BY <1>1, <1>2 DEF Holding
<1>4. CASE pc[q] \in Unlocked
  <2>1. Registering(q)'
    BY <1>1, <1>4 DEF Unlocked, Registering
  <2>2. Viewing(q)'
    BY <1>1, <1>4 DEF Unlocked, Viewing
  <2> QED
    BY <1>3, <2>1, <2>2
<1>5. CASE pc[q] \notin Unlocked
  <2>1. pc[p] \in Unlocked /\ lock # NoProc
    BY <1>2, <1>5 DEF Holding
  <2>2. Quiet
    BY <2>1 DEF Writes, Unlocked, TierBegin, Bind, Reserve, OpenNew, CreateCred, Rollback,
                Revoke, Open, CommitPage
  <2>3. UNCHANGED <<key, cred, file, rows>>
    BY <2>2 DEF Quiet
  <2>4. (faults >= 2 => faults' >= 2) /\ (faults >= 1 => faults' >= 1)
    BY <2>2, SMTT(60) DEF Quiet, TypeOK
  <2>5. Registering(q)'
    BY <1>1, <2>3, <2>4 DEF Registering
  <2>6. Viewing(q)'
    BY <1>1, <2>3 DEF Viewing
  <2> QED
    BY <1>3, <2>5, <2>6
<1> QED
  BY <1>3, <1>4, <1>5

\* The invariant holds initially.
LEMMA InitHolds == Init => IInv
<1> SUFFICES ASSUME Init PROVE IInv
  OBVIOUS
<1>1. TypedCatalog
  BY DEF Init, TypedCatalog, NoKey, Absent, Reserved
<1>2. TypedLocal
  BY NoViewType DEF Init, TypedLocal, Views, Steps, Unlocked
<1>3. \A p \in Procs : Holding(p)
  BY SourcesAssumption DEF Init, Holding, Unlocked
<1>4. TypeOK
  BY <1>1, <1>2, <1>3, TypeParts
<1>5. RegisterInv
  BY DEF Init, RegisterInv, Registering
<1>6. ViewInv
  BY DEF Init, ViewInv, Viewing
<1>7. CorpusOpens /\ CredentialListed /\ WalBounded
  BY BoundsAssumption, SMTT(60) DEF Init, CorpusOpens, CredentialListed, WalBounded
<1> QED
  BY <1>4, <1>5, <1>6, <1>7 DEF IInv

\* Every step keeps it.
LEMMA StepHolds == IInv /\ [Next]_vars => IInv'
<1> SUFFICES ASSUME IInv, [Next]_vars PROVE IInv'
  OBVIOUS
<1>1. ASSUME NEW p \in Procs, Begins(p) \/ Runs(p) \/ Crash(p) PROVE IInv'
  <2>1. Moves(p) /\ Writes(p)
    BY <1>1, Moving, Writing DEF IInv
  <2>2. /\ TypedCatalog /\ TypedLocal /\ Holding(p) /\ Registering(p) /\ Viewing(p)
        /\ CorpusOpens /\ CredentialListed /\ WalBounded
    BY TypeParts DEF IInv, RegisterInv, ViewInv
  <2>3. TypedCatalog' /\ TypedLocal'
    BY <2>1, <2>2, LocalTypes, CatalogTypes
  <2>4. Holding(p)' /\ Registering(p)' /\ Viewing(p)'
    BY <2>1, <2>2, OwnLock, RegisterStep, ViewStep
  <2>5. \A q \in Procs \ {p} : Holding(q)' /\ Registering(q)' /\ Viewing(q)'
    BY <2>1, OthersStep DEF IInv, RegisterInv, ViewInv
  <2>6. CorpusOpens' /\ CredentialListed' /\ WalBounded'
    BY <2>1, <2>2, CorpusStep
  <2>7. \A q \in Procs : Holding(q)' /\ Registering(q)' /\ Viewing(q)'
    BY <2>4, <2>5
  <2>8. TypeOK'
    BY <2>3, <2>7, TypeParts DEF TypeOK, TypedCatalog, TypedLocal, Holding, Views
  <2> QED
    BY <2>6, <2>7, <2>8 DEF IInv, RegisterInv, ViewInv
<1>2. ASSUME NEW s \in Sources, Grant(s) PROVE IInv'
  <2>1. UNCHANGED <<lock, durable, local>> /\ access' \subseteq Sources
    BY <1>2 DEF Grant, IInv, TypeOK
  <2>2. TypeOK'
    BY <2>1 DEF IInv, TypeOK, durable, local
  <2>3. RegisterInv'
    BY <2>1 DEF IInv, RegisterInv, Registering, durable, local
  <2>4. ViewInv'
    BY <2>1 DEF IInv, ViewInv, Viewing, durable, local
  <2>5. CorpusOpens' /\ CredentialListed' /\ WalBounded'
    BY <2>1 DEF IInv, CorpusOpens, CredentialListed, WalBounded, durable
  <2> QED
    BY <2>2, <2>3, <2>4, <2>5 DEF IInv
<1>3. CASE UNCHANGED vars
  <2>1. UNCHANGED <<lock, durable, access, local>>
    BY <1>3 DEF vars
  <2>2. TypeOK'
    BY <2>1 DEF IInv, TypeOK, durable, local
  <2>3. RegisterInv'
    BY <2>1 DEF IInv, RegisterInv, Registering, durable, local
  <2>4. ViewInv'
    BY <2>1 DEF IInv, ViewInv, Viewing, durable, local
  <2>5. CorpusOpens' /\ CredentialListed' /\ WalBounded'
    BY <2>1 DEF IInv, CorpusOpens, CredentialListed, WalBounded, durable
  <2> QED
    BY <2>2, <2>3, <2>4, <2>5 DEF IInv
<1> QED
  BY <1>1, <1>2, <1>3 DEF Next

\* The invariant holds in every reachable state.
THEOREM CatalogInductive == Spec => []IInv
  BY InitHolds, StepHolds, PTL DEF Spec

\* The types are kept, and the lock is with exactly the process whose step runs
\* under its guard.
THEOREM CatalogTypeCorrect == Spec => []TypeOK
  BY CatalogInductive, PTL DEF IInv

\* Short of two failing calls, every corpus file opens under its source's key.
THEOREM CorporaOpen == Spec => []CorpusOpens
  BY CatalogInductive, PTL DEF IInv

\* No crash and no failing call leaves a Sentry credential without its entry.
THEOREM CredentialsListed == Spec => []CredentialListed
  BY CatalogInductive, PTL DEF IInv

\* No logs command writes records of a source disconnected meanwhile.
THEOREM DeliveriesCurrent == Spec => []DeliversCurrentSources
<1>1. IInv => DeliversCurrentSources
  BY DEF IInv, ViewInv, Viewing, DeliversCurrentSources, Selected
<1> QED
  BY <1>1, CatalogInductive, PTL

\* The reported coverage is that of the searched snapshot.
THEOREM CoverageTrue == Spec => []CoverageMatchesSnapshot
<1>1. IInv => CoverageMatchesSnapshot
  BY DEF IInv, ViewInv, Viewing, CoverageMatchesSnapshot, Selected
<1> QED
  BY <1>1, CatalogInductive, PTL

\* No write-ahead log exceeds its limit by more than one page and what opens wrote.
THEOREM WalKept == Spec => []WalBounded
  BY CatalogInductive, PTL DEF IInv
=============================================================================
