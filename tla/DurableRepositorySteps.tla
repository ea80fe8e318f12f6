---------------------- MODULE DurableRepositorySteps ----------------------
(***************************************************************************)
(* What every call of the durable repository keeps, for any number of      *)
(* batches, bodies, processes and crashes: the first three layers of the   *)
(* invariant from which DurableRepositoryProofs draws its theorems.        *)
(*                                                                         *)
(* ControlInv: a process is at a step of the call it is in and holds the   *)
(* locks of that call.  PlacesInv: where the Keychain record, the staging  *)
(* directory and the published one are, whatever step anybody has come to. *)
(* FilesInv: which segments the directories can hold, and that each is     *)
(* chained to the ones before it.                                          *)
(***************************************************************************)
EXTENDS DurableRepository, TLAPS

\* A leaf that names no prover is given to Zenon
USE ZenonT(60)

----------------------------------------------------------------------------
(* Calls and locks *)

\* The calls of the repository
Ops == Writes \cup {"recover", "destroy", "expand"}
Jobs == [op : Ops \cup {"none"}, slot : Int, body : Bodies \cup {None}]

\* The calls that write a segment after the request, and the steps of a call
SegmentOps == {"batch", "data", "seal"}
SegmentSteps == {"reserve", "write", "sync", "complete"}
PublishSteps == {"generation", "commitment", "fill", "settle", "rename", "flush", "publish"}

\* The owner has just been told that a write succeeded.
Told == out[Owner].op \in Writes /\ out[Owner].result = "ok"

\* A call of kind op may be at step.
Suits(op, step) ==
  /\ step \in {"begun", "matched", "lock"} => op = "begin"
  /\ step \in SegmentSteps => op \in SegmentOps \cup {"begin"}
  /\ step = "advance" => op \in {"data", "seal"}
  /\ step \in PublishSteps => op \in {"publish", "recover"}
  /\ step \in {"quarantine", "forget"} => op = "recover"
  /\ step \in {"unkey", "erase"} => op \in {"recover", "destroy"}

\* Process p may be in call j while r and s hold the two locks and the owner
\* is to write slot at.
Entitled(p, j, r, s, at) ==
  /\ j.op \in Writes => p = Owner /\ j.slot = at
  /\ j.op \in SegmentOps \cup {"begin"} => j.body \in Bodies
  /\ j.op = "begin" => r = p /\ at = Request
  /\ j.op = "batch" => at \in 1 .. Batches
  /\ j.op = "data" => at = DataSlot
  /\ j.op = "seal" => at = SealSlot
  /\ j.op = "publish" => at = PublishStage
  /\ j.op \in SegmentOps => s = p
  /\ j.op \in {"publish", "recover"} => r = p /\ s = p
  /\ j.op = "destroy" => r = p \/ s = p
  /\ j.op \in Ops \ {"expand"}

\* A process is at a step of the call it is in, with the locks of that call.
ControlInv ==
  /\ stage \in Request .. Over
  /\ pc \in [Procs -> Steps \cup {"idle"}]
  /\ job \in [Procs -> Jobs]
  /\ DOMAIN out = Procs
  /\ \A p \in Procs : pc[p] # "idle" =>
       Suits(job[p].op, pc[p]) /\ Entitled(p, job[p], repo, res, stage)
  /\ repo \in Procs \cup {None} /\ res \in Procs \cup {None}
  /\ Told => pc[Owner] = "idle" /\ stage > Request

\* The slots the owner's calls have come to, even if it forgets the last answer.
Reached(s) == s <= stage /\ (Told => s < stage)

\* A step of p leaves the other processes where they are, with their locks, and
\* takes back nothing that was reached.
Aside(p) ==
  /\ \A q \in Procs \ {p} :
       /\ pc'[q] = pc[q] /\ job'[q] = job[q]
       /\ repo = q => repo' = q
       /\ res = q => res' = q
  /\ \A s \in Int : Reached(s) => Reached(s)'

\* Going on to a step that suits the call keeps who is entitled to what (the body of a
\* call between two of its stores).
LEMMA MoveControl ==
  ASSUME ControlInv, NEW p \in Procs, pc[p] # "idle", NEW step \in Steps,
         Suits(job[p].op, step), Proceed(p, step)
  PROVE  ControlInv' /\ Aside(p)
<1> USE DurableAssumption
<1>1. /\ pc' = [pc EXCEPT ![p] = step] /\ job' = [job EXCEPT ![p] = job[p]]
      /\ out' = [out EXCEPT ![p] = NoAnswer]
      /\ UNCHANGED <<repo, res, stage>>
  BY DEF Proceed, Goto
<1>2. job' = job
  BY <1>1 DEF ControlInv
<1>3. pc' \in [Procs -> Steps \cup {"idle"}] /\ DOMAIN out' = Procs
  BY <1>1 DEF ControlInv
<1>4. ASSUME NEW q \in Procs, pc'[q] # "idle"
      PROVE  (Suits(job[q].op, pc[q]) /\ Entitled(q, job[q], repo, res, stage))'
  <2>1. CASE q = p
    BY <1>1, <1>2, <2>1 DEF ControlInv, Entitled
  <2>2. CASE q # p
    BY <1>1, <1>2, <1>4, <2>2 DEF ControlInv, Entitled
  <2>3. QED
    BY <2>1, <2>2
<1>5. Told' => pc'[Owner] = "idle" /\ stage' > Request
  BY <1>1 DEF ControlInv, Told, NoAnswer, Writes
<1>6. Aside(p)
  BY <1>1, <1>2 DEF ControlInv, Aside, Reached, Told, NoAnswer, Writes
<1>7. QED
  BY <1>1, <1>2, <1>3, <1>4, <1>5, <1>6 DEF ControlInv

\* A call that returns gives its locks back and moves only the owner's progress.
LEMMA AnswerControl ==
  ASSUME ControlInv, NEW p \in Procs, NEW j \in Jobs, NEW r,
         j.op \in Writes => p = Owner /\ j.slot = stage /\ stage <= PublishStage,
         Answer(p, j, r)
  PROVE  ControlInv' /\ Aside(p)
<1> USE DurableAssumption
<1>1. /\ pc' = [pc EXCEPT ![p] = "idle"] /\ job' = [job EXCEPT ![p] = NoJob]
      /\ repo' = IF repo = p THEN None ELSE repo
      /\ res' = IF res = p THEN None ELSE res
      /\ out' = [out EXCEPT ![p] = [op |-> j.op, result |-> r]]
  BY DEF Answer, Release
<1>2. /\ stage' \in Request .. Over
      /\ p # Owner => stage' = stage
      /\ j.op \in Writes /\ r = "ok" => stage' = stage + 1
  BY SMTT(60) DEF Answer, ControlInv, Request, Over, PublishStage, SealSlot, Writes
<1>3. pc' \in [Procs -> Steps \cup {"idle"}] /\ DOMAIN out' = Procs
  BY <1>1 DEF ControlInv
<1>4. job' \in [Procs -> Jobs]
  <2>1. NoJob \in Jobs
    BY SMTT(60) DEF NoJob, Jobs
  <2>2. QED
    BY <1>1, <2>1 DEF ControlInv
<1>5. ASSUME NEW q \in Procs, pc'[q] # "idle"
      PROVE  (Suits(job[q].op, pc[q]) /\ Entitled(q, job[q], repo, res, stage))'
  <2>1. q # p /\ pc'[q] = pc[q] /\ job'[q] = job[q]
    BY <1>1, <1>5 DEF ControlInv
  <2>2. Suits(job[q].op, pc[q]) /\ Entitled(q, job[q], repo, res, stage)
    BY <1>5, <2>1 DEF ControlInv
  <2>3. /\ repo = q => repo' = q
        /\ res = q => res' = q
    BY <1>1, <2>1
  <2>4. job[q].op \in Writes => stage' = stage
    BY <1>2, <2>1, <2>2 DEF Entitled
  <2>5. QED
    BY <2>1, <2>2, <2>3, <2>4 DEF Entitled, Writes, SegmentOps
<1>6. Told' => pc'[Owner] = "idle" /\ stage' > Request
  BY <1>1, <1>2, SMTT(60) DEF ControlInv, Told, Request
<1>7. Aside(p)
  <2>1. ASSUME NEW s \in Int, Reached(s) PROVE Reached(s)'
    <3>1. stage' >= stage /\ (Told' => (Told /\ p # Owner) \/ stage' > stage)
      BY <1>1, <1>2, SMTT(60) DEF Answer, ControlInv, Told, Request, Over, PublishStage
    <3>2. QED
      BY <1>2, <2>1, <3>1, SMTT(60) DEF Reached, ControlInv, Request, Over
  <2>2. QED
    BY <1>1, <2>1 DEF ControlInv, Aside
<1>8. QED
  BY <1>1, <1>2, <1>3, <1>4, <1>5, <1>6, <1>7 DEF ControlInv

\* A call that takes free locks and goes on is entitled to them.
LEMMA GotoControl ==
  ASSUME ControlInv, NEW p \in Procs, NEW j \in Jobs, NEW step \in Steps, NEW locks,
         pc[p] = "idle", Suits(j.op, step),
         "repo" \in locks => repo = None, "res" \in locks => res = None,
         Goto(p, j, step, locks), Entitled(p, j, repo', res', stage)
  PROVE  ControlInv' /\ Aside(p)
<1> USE DurableAssumption
<1>1. /\ pc' = [pc EXCEPT ![p] = step] /\ job' = [job EXCEPT ![p] = j]
      /\ out' = [out EXCEPT ![p] = NoAnswer]
      /\ repo' = IF "repo" \in locks THEN p ELSE repo
      /\ res' = IF "res" \in locks THEN p ELSE res
      /\ stage' = stage
  BY DEF Goto
<1>2. pc' \in [Procs -> Steps \cup {"idle"}] /\ DOMAIN out' = Procs /\ job' \in [Procs -> Jobs]
  BY <1>1 DEF ControlInv
<1>3. ASSUME NEW q \in Procs, pc'[q] # "idle"
      PROVE  (Suits(job[q].op, pc[q]) /\ Entitled(q, job[q], repo, res, stage))'
  <2>1. CASE q = p
    BY <1>1, <2>1 DEF ControlInv
  <2>2. CASE q # p
    <3>1. pc'[q] = pc[q] /\ job'[q] = job[q]
      BY <1>1, <2>2 DEF ControlInv
    <3>2. Suits(job[q].op, pc[q]) /\ Entitled(q, job[q], repo, res, stage)
      BY <1>3, <3>1 DEF ControlInv
    <3>3. /\ repo = q => repo' = q
          /\ res = q => res' = q
      BY <1>1
    <3>4. QED
      BY <1>1, <3>1, <3>2, <3>3 DEF Entitled
  <2>3. QED
    BY <2>1, <2>2
<1>4. Told' => pc'[Owner] = "idle" /\ stage' > Request
  BY <1>1 DEF ControlInv, Told, NoAnswer, Writes
<1>5. Aside(p)
  BY <1>1 DEF ControlInv, Aside, Reached, Told, NoAnswer, Writes
<1>6. QED
  BY <1>1, <1>2, <1>3, <1>4, <1>5 DEF ControlInv

\* A step of p goes on in its call, with a step that suits it, or returns.
Goes(p) == \E step \in Steps : Suits(job[p].op, step) /\ Proceed(p, step)
Ends(p) == \E r : Return(p, r)

\* Every step of a call does one of the two.
LEMMA WorkMoves ==
  ASSUME ControlInv, NEW p \in Procs, Work(p)
  PROVE  pc[p] # "idle" /\ (Goes(p) \/ Ends(p))
<1> USE DEF At
<1>1. pc[p] # "idle"
  BY DEF Work, BeginDirectory, BeginLock, Reserve, Write, Sync, Complete, Advance,
         Generation, Commitment, Fill, Settle, Rename, Flush, Publish, Quarantine,
         Forget, DestroyKey, Erase
<1>2. Suits(job[p].op, pc[p]) /\ Entitled(p, job[p], repo, res, stage) /\ job[p] \in Jobs
  BY <1>1 DEF ControlInv
<1> USE <1>2 DEF Goes, Ends, Suits, Steps, SegmentSteps, SegmentOps, PublishSteps
<1>3. ASSUME BeginDirectory(p) PROVE Goes(p) \/ Ends(p)
  BY <1>3 DEF BeginDirectory
<1>4. ASSUME BeginLock(p) PROVE Goes(p) \/ Ends(p)
  BY <1>4 DEF BeginLock
<1>5. ASSUME Reserve(p) PROVE Goes(p) \/ Ends(p)
  BY <1>5 DEF Reserve
<1>6. ASSUME Write(p) PROVE Goes(p) \/ Ends(p)
  BY <1>6 DEF Write
<1>7. ASSUME Sync(p) PROVE Goes(p) \/ Ends(p)
  BY <1>7 DEF Sync
<1>8. ASSUME Complete(p) PROVE Goes(p) \/ Ends(p)
  BY <1>8, DurableAssumption, SMTT(60) DEF Complete, Entitled, Writes, Request
<1>9. ASSUME Advance(p) PROVE Goes(p) \/ Ends(p)
  BY <1>9 DEF Advance
<1>10. ASSUME Generation(p) PROVE Goes(p) \/ Ends(p)
  BY <1>10 DEF Generation
<1>11. ASSUME Commitment(p) PROVE Goes(p) \/ Ends(p)
  BY <1>11 DEF Commitment
<1>12. ASSUME Fill(p) PROVE Goes(p) \/ Ends(p)
  BY <1>12 DEF Fill
<1>13. ASSUME Settle(p) PROVE Goes(p) \/ Ends(p)
  BY <1>13 DEF Settle
<1>14. ASSUME Rename(p) PROVE Goes(p) \/ Ends(p)
  BY <1>14 DEF Rename
<1>15. ASSUME Flush(p) PROVE Goes(p) \/ Ends(p)
  BY <1>15 DEF Flush
<1>16. ASSUME Publish(p) PROVE Goes(p) \/ Ends(p)
  BY <1>16 DEF Publish
<1>17. ASSUME Quarantine(p) PROVE Goes(p) \/ Ends(p)
  BY <1>17 DEF Quarantine
<1>18. ASSUME Forget(p) PROVE Goes(p) \/ Ends(p)
  BY <1>18 DEF Forget
<1>19. ASSUME DestroyKey(p) PROVE Goes(p) \/ Ends(p)
  BY <1>19 DEF DestroyKey
<1>20. ASSUME Erase(p) PROVE Goes(p) \/ Ends(p)
  BY <1>20 DEF Erase
<1>21. Goes(p) \/ Ends(p)
  BY <1>3, <1>4, <1>5, <1>6, <1>7, <1>8, <1>9, <1>10, <1>11, <1>12, <1>13, <1>14,
     <1>15, <1>16, <1>17, <1>18, <1>19, <1>20 DEF Work
<1>22. QED
  BY <1>1, <1>21

\* Either way it keeps the control state of every process.
LEMMA WorkControl ==
  ASSUME ControlInv, NEW p \in Procs, Work(p)
  PROVE  ControlInv' /\ Aside(p) /\ pc[p] # "idle"
<1>1. pc[p] # "idle" /\ (Goes(p) \/ Ends(p))
  BY WorkMoves
<1>2. Entitled(p, job[p], repo, res, stage) /\ job[p] \in Jobs
  BY <1>1 DEF ControlInv
<1>3. CASE Goes(p)
  BY <1>1, <1>3, MoveControl DEF Goes
<1>4. CASE Ends(p)
  <2>1. job[p].op \in Writes => p = Owner /\ job[p].slot = stage /\ stage <= PublishStage
    BY <1>2, DurableAssumption, SMTT(60) DEF Entitled, Writes, Request, PublishStage, SealSlot, DataSlot
  <2>2. QED
    BY <1>1, <1>2, <1>4, <2>1, AnswerControl DEF Ends, Return
<1>5. QED
  BY <1>1, <1>3, <1>4

\* A call goes on with its locks or returns at once: both keep the control state.
LEMMA EnterControl ==
  ASSUME ControlInv, NEW p \in Procs, NEW j \in Jobs, NEW step, NEW locks,
         pc[p] = "idle", step \in Steps => Suits(j.op, step),
         "repo" \in locks => repo = None, "res" \in locks => res = None,
         Entitled(p, j, IF "repo" \in locks THEN p ELSE repo,
                        IF "res" \in locks THEN p ELSE res, stage),
         Enter(p, j, step, locks)
  PROVE  ControlInv' /\ Aside(p)
<1>1. CASE step \in Steps
  <2>1. Goto(p, j, step, locks)
    BY <1>1 DEF Enter
  <2>2. Entitled(p, j, repo', res', stage)
    BY <2>1 DEF Goto
  <2>3. QED
    BY <1>1, <2>1, <2>2, GotoControl
<1>2. CASE step \notin Steps
  <2>1. Answer(p, j, step)
    BY <1>2 DEF Enter
  <2>2. j.op \in Writes => p = Owner /\ j.slot = stage /\ stage <= PublishStage
    BY DurableAssumption, SMTT(60) DEF Entitled, Writes, Request, PublishStage, SealSlot, DataSlot
  <2>3. QED
    BY <2>1, <2>2, AnswerControl
<1>3. QED
  BY <1>1, <1>2

\* The calls of the owner
LEMMA OwnerControl ==
  ASSUME ControlInv, OwnerCall
  PROVE  ControlInv' /\ Aside(Owner) /\ pc[Owner] = "idle"
<1> USE DurableAssumption DEF Suits, SegmentSteps, SegmentOps, PublishSteps, Steps
<1>1. ASSUME NEW b \in Bodies, BeginCall(b)
      PROVE  ControlInv' /\ Aside(Owner) /\ pc[Owner] = "idle"
  <2> DEFINE j == Job("begin", Request, b)
  <2>1. /\ pc[Owner] = "idle" /\ stage = Request /\ repo = None
        /\ j \in Jobs /\ j.op = "begin" /\ j.slot = Request /\ j.body = b
    BY <1>1, SMTT(60) DEF BeginCall, OwnerCalls, Job, Jobs, Ops, Writes, Request
  <2>2. \E step : /\ step \in Steps => step \in {"begun", "matched"}
                 /\ Enter(Owner, j, step, {"repo"})
    BY <1>1 DEF BeginCall, Enter
  <2>3. Entitled(Owner, j, Owner, res, stage)
    BY <2>1 DEF Entitled, Ops, Writes
  <2> HIDE DEF j
  <2>4. QED
    BY <2>1, <2>2, <2>3, EnterControl
<1>2. ASSUME NEW b \in Bodies, NEW slot \in 1 .. Batches, BatchCall(slot, b)
      PROVE  ControlInv' /\ Aside(Owner) /\ pc[Owner] = "idle"
  <2> DEFINE j == Job("batch", slot, b)
  <2>1. /\ pc[Owner] = "idle" /\ stage = slot /\ res = None
        /\ j \in Jobs /\ j.op = "batch" /\ j.slot = slot /\ j.body = b
    BY <1>2, SMTT(60) DEF BatchCall, OwnerCalls, Job, Jobs, Ops, Writes
  <2>2. \E step : /\ step \in Steps => step \in SegmentSteps
                 /\ Enter(Owner, j, step, {"res"})
    BY <1>2 DEF BatchCall, BatchStep
  <2>3. Entitled(Owner, j, repo, Owner, stage)
    BY <2>1 DEF Entitled, Ops, Writes
  <2> HIDE DEF j
  <2>4. QED
    BY <2>1, <2>2, <2>3, EnterControl
<1>3. ASSUME NEW b \in Bodies, DataCall(b)
      PROVE  ControlInv' /\ Aside(Owner) /\ pc[Owner] = "idle"
  <2> DEFINE j == Job("data", DataSlot, b)
  <2>1. /\ pc[Owner] = "idle" /\ stage = DataSlot /\ res = None
        /\ j \in Jobs /\ j.op = "data" /\ j.slot = DataSlot /\ j.body = b
    BY <1>3, SMTT(60) DEF DataCall, OwnerCalls, Job, Jobs, Ops, Writes, DataSlot
  <2>2. \E step : /\ step \in Steps => step \in SegmentSteps
                 /\ Enter(Owner, j, step, {"res"})
    BY <1>3 DEF DataCall, DataStep
  <2>3. Entitled(Owner, j, repo, Owner, stage)
    BY <2>1 DEF Entitled, Ops, Writes
  <2> HIDE DEF j
  <2>4. QED
    BY <2>1, <2>2, <2>3, EnterControl
<1>4. ASSUME NEW b \in Bodies, SealCall(b)
      PROVE  ControlInv' /\ Aside(Owner) /\ pc[Owner] = "idle"
  <2> DEFINE j == Job("seal", SealSlot, b)
  <2>1. /\ pc[Owner] = "idle" /\ stage = SealSlot /\ res = None
        /\ j \in Jobs /\ j.op = "seal" /\ j.slot = SealSlot /\ j.body = b
    BY <1>4, SMTT(60) DEF SealCall, OwnerCalls, Job, Jobs, Ops, Writes, SealSlot
  <2>2. \E step : /\ step \in Steps => step \in SegmentSteps
                 /\ Enter(Owner, j, step, {"res"})
    BY <1>4 DEF SealCall, SealStep
  <2>3. Entitled(Owner, j, repo, Owner, stage)
    BY <2>1 DEF Entitled, Ops, Writes
  <2> HIDE DEF j
  <2>4. QED
    BY <2>1, <2>2, <2>3, EnterControl
<1>5. ASSUME PublishCall
      PROVE  ControlInv' /\ Aside(Owner) /\ pc[Owner] = "idle"
  <2> DEFINE j == Job("publish", PublishStage, None)
  <2>1. /\ pc[Owner] = "idle" /\ stage = PublishStage /\ res = None /\ repo = None
        /\ j \in Jobs /\ j.op = "publish" /\ j.slot = PublishStage
    BY <1>5, SMTT(60) DEF PublishCall, OwnerCalls, Job, Jobs, Ops, Writes, PublishStage, SealSlot
  <2>2. \E step : /\ step \in Steps => step \in PublishSteps
                 /\ Enter(Owner, j, step, {"repo", "res"})
    BY <1>5 DEF PublishCall, PublishStep
  <2>3. Entitled(Owner, j, Owner, Owner, stage)
    BY <2>1 DEF Entitled, Ops, Writes
  <2> HIDE DEF j
  <2>4. QED
    BY <2>1, <2>2, <2>3, EnterControl
<1>6. QED
  BY <1>1, <1>2, <1>3, <1>4, <1>5 DEF OwnerCall

\* recover takes both locks, or returns.
LEMMA RecoverControl ==
  ASSUME ControlInv, NEW p \in Procs, NEW context \in BOOLEAN, RecoverCall(p, context)
  PROVE  ControlInv' /\ Aside(p) /\ pc[p] = "idle"
<1> DEFINE j == Job("recover", 0, None)
<1>1. /\ pc[p] = "idle" /\ res = None /\ repo = None
      /\ j \in Jobs /\ j.op = "recover"
  BY SMTT(60) DEF RecoverCall, At, Job, Jobs, Ops
<1>2. \E step : /\ step \in Steps => Suits("recover", step)
               /\ Enter(p, j, step, {"repo", "res"})
  BY DEF RecoverCall, RecoverStep, RecoverSealed, Suits, Steps, SegmentSteps, PublishSteps
<1>3. Entitled(p, j, p, p, stage)
  BY <1>1 DEF Entitled, Ops, Writes, SegmentOps
<1> HIDE DEF j
<1>4. QED
  BY <1>1, <1>2, <1>3, EnterControl

\* destroy takes the lock of what it finds, or returns.
LEMMA DestroyControl ==
  ASSUME ControlInv, NEW p \in Procs, DestroyCall(p)
  PROVE  ControlInv' /\ Aside(p) /\ pc[p] = "idle"
<1> DEFINE j == Job("destroy", 0, None)
<1>1. pc[p] = "idle" /\ j \in Jobs /\ j.op = "destroy"
  BY SMTT(60) DEF DestroyCall, At, Job, Jobs, Ops
<1>2. \E step, lock : /\ step \in Steps => Suits("destroy", step)
                     /\ Enter(p, j, step, {lock})
                     /\ \/ lock = "repo" /\ repo = None
                        \/ lock = "res" /\ res = None
  BY DEF DestroyCall, DestroyStep, Suits, Steps, SegmentSteps, PublishSteps
<1>3. Entitled(p, j, p, res, stage) /\ Entitled(p, j, repo, p, stage)
  BY <1>1 DEF Entitled, Ops, Writes, SegmentOps
<1> HIDE DEF j
<1>4. QED
  BY <1>1, <1>2, <1>3, EnterControl

\* expand returns in one step.
LEMMA ExpandControl ==
  ASSUME ControlInv, NEW p \in Procs, ExpandCall(p)
  PROVE  ControlInv' /\ Aside(p) /\ pc[p] = "idle"
<1> DEFINE j == Job("expand", 0, None)
<1>1. pc[p] = "idle" /\ j \in Jobs /\ j.op \notin Writes /\ Answer(p, j, ExpandStep)
  BY SMTT(60) DEF ExpandCall, At, Job, Jobs, Ops, Writes
<1> HIDE DEF j
<1>2. QED
  BY <1>1, AnswerControl

\* A process that dies gives back its locks; the owner may forget its last answer only.
LEMMA CrashControl ==
  ASSUME ControlInv, NEW p \in Procs, Crash(p)
  PROVE  ControlInv' /\ Aside(p)
<1> USE DurableAssumption
<1>1. /\ pc' = [pc EXCEPT ![p] = "idle"] /\ job' = [job EXCEPT ![p] = NoJob]
      /\ repo' = IF repo = p THEN None ELSE repo
      /\ res' = IF res = p THEN None ELSE res
      /\ out' = [out EXCEPT ![p] = NoAnswer]
  BY DEF Crash, Release
<1>2. /\ p # Owner => stage' = stage
      /\ stage' # stage => stage' = Over \/ (Told /\ stage' = stage - 1)
  BY DEF Crash, StageAfterCrash, Told
<1>3. stage' \in Request .. Over
  BY <1>2, SMTT(60) DEF ControlInv, Request, Over, PublishStage, SealSlot
<1>4. pc' \in [Procs -> Steps \cup {"idle"}] /\ DOMAIN out' = Procs
  BY <1>1 DEF ControlInv
<1>5. job' \in [Procs -> Jobs]
  <2>1. NoJob \in Jobs
    BY SMTT(60) DEF NoJob, Jobs
  <2>2. QED
    BY <1>1, <2>1 DEF ControlInv
<1>6. ASSUME NEW q \in Procs, pc'[q] # "idle"
      PROVE  (Suits(job[q].op, pc[q]) /\ Entitled(q, job[q], repo, res, stage))'
  <2>1. q # p /\ pc'[q] = pc[q] /\ job'[q] = job[q]
    BY <1>1, <1>6 DEF ControlInv
  <2>2. Suits(job[q].op, pc[q]) /\ Entitled(q, job[q], repo, res, stage)
    BY <1>6, <2>1 DEF ControlInv
  <2>3. /\ repo = q => repo' = q
        /\ res = q => res' = q
    BY <1>1, <2>1
  <2>4. job[q].op \in Writes => stage' = stage
    BY <1>2, <2>1, <2>2 DEF Entitled
  <2>5. QED
    BY <2>1, <2>2, <2>3, <2>4 DEF Entitled, Writes, SegmentOps
<1>7. Told' => Told /\ stage' = stage /\ p # Owner
  BY <1>1, <1>2 DEF ControlInv, Told, NoAnswer, Writes
<1>8. Aside(p)
  <2>1. ASSUME NEW s \in Int, Reached(s) PROVE Reached(s)'
    BY <1>2, <1>3, <1>7, <2>1, SMTT(60) DEF Reached, ControlInv, Request, Over, PublishStage, SealSlot
  <2>2. QED
    BY <1>1, <2>1 DEF ControlInv, Aside
<1>9. QED
  BY <1>1, <1>3, <1>4, <1>5, <1>6, <1>7, <1>8 DEF ControlInv

\* Who is in which call, with which locks, is kept by every step.
LEMMA ControlStep == ControlInv /\ [Next]_vars => ControlInv'
<1> SUFFICES ASSUME ControlInv, [Next]_vars PROVE ControlInv'
  OBVIOUS
<1>1. CASE Tick \/ UNCHANGED vars
  BY <1>1 DEF Tick, vars, control, ControlInv, Told
<1>2. CASE Next /\ ~Tick
  BY <1>2, WorkControl, OwnerControl, RecoverControl, DestroyControl, ExpandControl,
     CrashControl DEF Next
<1>3. QED
  BY <1>1, <1>2

----------------------------------------------------------------------------
(* Places *)

\* The owner is in a call that has reached the segment's file.
AtSegment(p) == pc[p] \in SegmentSteps \cup {"advance"} /\ job[p].op \in SegmentOps

\* The state in which a call writes its segment
StateFor(op) == IF op = "seal" THEN DataCommitted ELSE Open

\* What the stores hold while p is at its step
Placed(p) ==
  /\ pc[p] = "lock" => staging # None /\ ~staging.lock
  /\ AtSegment(p) =>
       /\ entry # None /\ entry.state = StateFor(job[p].op)
       /\ Locked(staging)
       /\ pc[p] \in {"sync", "complete", "advance"} => staging.file[job[p].slot] # None
  /\ pc[p] \in PublishSteps => entry # None /\ entry.state = Sealed
  /\ pc[p] \in {"commitment", "fill", "settle", "rename"} => staging # None
  /\ pc[p] \in {"flush", "publish"} => final # None
  /\ pc[p] = "generation" /\ job[p].op = "recover" => final # None
  /\ pc[p] = "quarantine" /\ entry # None => final = None /\ ~Locked(staging)
  /\ pc[p] \in {"unkey", "erase"} /\ job[p].op = "destroy" =>
       \/ repo = p /\ staging = None /\ final = None
       \/ res = p /\ (Locked(staging) \/ Locked(final))
  /\ pc[p] = "erase" /\ entry # None => entry.state = Open

\* What the stores hold in every state
StoreInv ==
  /\ entry \in Entries \cup {None} /\ keys \in Nat
  /\ staging \in Directories \cup {None} /\ final \in Directories \cup {None}
  /\ staging = None \/ final = None
  /\ final # None => final.lock /\ Reached(SealSlot)
  /\ entry # None =>
       /\ entry.state = Open => entry.data = None
       /\ entry.state < Sealed => entry.products = None /\ final = None
       /\ entry.state >= DataCommitted => Reached(DataSlot) /\ (Locked(staging) \/ Locked(final))
       /\ entry.state >= Sealed => Reached(SealSlot)
       /\ entry.state = Published => final # None

\* Both, for every process
PlacesInv == StoreInv /\ \A p \in Procs : Placed(p)

\* Two processes are in calls at the same time only when one begins the result
\* and the other destroys what it left before.
LEMMA Company ==
  ASSUME ControlInv, PlacesInv, NEW p \in Procs, NEW q \in Procs, p # q,
         pc[p] # "idle", pc[q] # "idle"
  PROVE  \/ job[p].op = "begin" /\ job[q].op = "destroy" /\ res = q
         \/ job[q].op = "begin" /\ job[p].op = "destroy" /\ res = p
<1>1. /\ Suits(job[p].op, pc[p]) /\ Entitled(p, job[p], repo, res, stage)
      /\ Suits(job[q].op, pc[q]) /\ Entitled(q, job[q], repo, res, stage)
      /\ pc[p] \in Steps /\ pc[q] \in Steps
  BY DEF ControlInv
<1>2. Placed(p) /\ Placed(q)
  BY DEF PlacesInv
<1>3. ASSUME NEW r \in {p, q}, job[r].op = "destroy"
      PROVE  pc[r] \in {"unkey", "erase"}
  BY <1>1, <1>3 DEF Suits, Steps, SegmentSteps, SegmentOps, PublishSteps
<1>4. ASSUME NEW r \in {p, q}, job[r].op \in SegmentOps
      PROVE  AtSegment(r)
  BY <1>1, <1>4 DEF Suits, Steps, SegmentSteps, SegmentOps, PublishSteps, AtSegment
<1> DEFINE Kind(r) ==
             \/ job[r].op = "begin" /\ r = Owner /\ repo = r
             \/ job[r].op \in SegmentOps /\ r = Owner /\ res = r /\ Locked(staging)
             \/ job[r].op \in {"publish", "recover"} /\ repo = r /\ res = r
             \/ job[r].op = "destroy" /\ repo = r /\ staging = None /\ final = None
             \/ job[r].op = "destroy" /\ res = r /\ (Locked(staging) \/ Locked(final))
<1>5. ASSUME NEW r \in {p, q} PROVE Kind(r)
  <2>1. Entitled(r, job[r], repo, res, stage) /\ Placed(r)
    BY <1>1, <1>2
  <2>2. job[r].op \in {"begin", "publish", "recover", "destroy"} \cup SegmentOps
    BY <2>1 DEF Entitled, Ops, Writes, SegmentOps
  <2>3. CASE job[r].op = "destroy"
    BY <1>3, <2>1, <2>3 DEF Placed
  <2>4. CASE job[r].op \in SegmentOps
    BY <1>4, <2>1, <2>4 DEF Placed, Entitled, SegmentOps, Writes
  <2>5. CASE job[r].op \in {"begin", "publish", "recover"}
    BY <2>1, <2>5 DEF Entitled, Writes
  <2>6. QED
    BY <2>2, <2>3, <2>4, <2>5
<1>6. Kind(p) /\ Kind(q)
  BY <1>5
<1>7. QED
  BY <1>6 DEF Locked

\* A process that is not in a call claims nothing.
LEMMA IdlePlaced ==
  ASSUME NEW q \in Procs, pc'[q] = "idle"
  PROVE  Placed(q)'
BY DEF Placed, AtSegment, SegmentSteps, PublishSteps

\* The stores keep what other processes rely on.
Alike ==
  /\ keys' = keys /\ final' = final
  /\ entry' \in Entries \cup {None} /\ (entry' = None <=> entry = None)
  /\ entry # None =>
       entry'.state = entry.state /\ entry'.data = entry.data /\ entry'.products = entry.products
  /\ staging' \in Directories \cup {None} /\ (staging' = None <=> staging = None)
  /\ staging # None =>
       /\ staging'.lock = staging.lock
       /\ \A s \in Slots : staging.file[s] # None => staging'.file[s] # None

\* A step that keeps what others rely on leaves every other process where it may be.
LEMMA AlikePlaces ==
  ASSUME ControlInv, PlacesInv, NEW p \in Procs, Aside(p), Alike
  PROVE  StoreInv' /\ \A q \in Procs : q # p => Placed(q)'
<1> USE DurableAssumption
<1>1. StoreInv'
  BY SMTT(60) DEF PlacesInv, StoreInv, Alike, Aside, Locked, SealSlot, DataSlot
<1>2. ASSUME NEW q \in Procs, q # p PROVE Placed(q)'
  <2>1. /\ Placed(q) /\ pc'[q] = pc[q] /\ job'[q] = job[q]
        /\ repo = q => repo' = q
        /\ res = q => res' = q
    BY <1>2 DEF Aside, PlacesInv
  <2>2. AtSegment(q) => job[q].slot \in Slots
    BY SMTT(60) DEF AtSegment, ControlInv, Entitled, SegmentOps, SegmentSteps, Writes, Slots, SealSlot,
           DataSlot
  <2>3. QED
    BY <2>1, <2>2 DEF Placed, AtSegment, Locked, Alike
<1>3. QED
  BY <1>1, <1>2

\* The chain before a slot is a chain.
LEMMA PriorChain ==
  ASSUME NEW dir \in Directories, NEW slot \in Slots
  PROVE  Prior(dir, slot) \in Chains
<1>1. ASSUME NEW s \in 0 .. slot - 1
      PROVE  Link(dir.file[s]) \in Links \cup {None}
  <2>1. dir.file[s] \in Segments \cup {None}
    BY DurableAssumption, SMTT(60) DEF Directories, Slots, SealSlot
  <2>2. QED
    BY <2>1 DEF Link, Links, Segments
<1>2. Prior(dir, slot) \in [0 .. slot - 1 -> Links \cup {None}]
  BY <1>1 DEF Prior
<1>3. QED
  BY <1>2 DEF Chains

\* Where a process is that goes on.
LEMMA ProceedAt ==
  ASSUME ControlInv, NEW p \in Procs, NEW step, Proceed(p, step)
  PROVE  pc'[p] = step /\ job'[p] = job[p] /\ repo' = repo /\ res' = res
BY DEF ControlInv, Proceed, Goto

\* The slots of a result's segments are integers.
LEMMA SlotsInt == Slots \subseteq Int
BY SMTT(60) DEF Slots

\* Where a process is that returns.
LEMMA ReturnAt ==
  ASSUME ControlInv, NEW p \in Procs, NEW r, Return(p, r)
  PROVE  pc'[p] = "idle"
BY DEF ControlInv, Return, Answer, Release

\* A call that returns, or goes on to another step, sets out to write no segment.
LEMMA ElsewhereAt ==
  ASSUME ControlInv, NEW p \in Procs
  PROVE  /\ \A r : Return(p, r) => pc'[p] \notin {"reserve", "write"}
         /\ \A step : step \notin {"reserve", "write"} /\ Proceed(p, step)
              => pc'[p] \notin {"reserve", "write"}
<1>1. ASSUME NEW r, Return(p, r) PROVE pc'[p] = "idle"
  BY <1>1, ReturnAt
<1>2. ASSUME NEW step, Proceed(p, step) PROVE pc'[p] = step
  BY <1>2, ProceedAt
<1>3. QED
  BY <1>1, <1>2

\* What stage = Request means for the stores: nothing was committed.
LEMMA StartStore ==
  ASSUME ControlInv, StoreInv, stage = Request
  PROVE  final = None /\ (entry # None => entry.state = Open)
BY DurableAssumption, SMTT(60) DEF StoreInv, Reached, Request, SealSlot, DataSlot, Entries, Open,
                         DataCommitted, Published

\* A new directory is a directory, without its lock file.
LEMMA EmptyDirectory ==
  EmptyDir \in Directories /\ EmptyDir # None /\ ~EmptyDir.lock
<1>1. [s \in Slots |-> None] \in [Slots -> Segments \cup {None}]
  OBVIOUS
<1>2. EmptyDir \in Directories
  BY <1>1 DEF EmptyDir, Directories
<1>3. ~EmptyDir.lock
  BY DEF EmptyDir
<1>4. QED
  BY <1>2, <1>3, AbsenceAssumption

\* The lock file is created in a directory without touching its segments.
LEMMA LockedDirectory ==
  ASSUME NEW d \in Directories
  PROVE  /\ WithLock(d) \in Directories /\ WithLock(d) # None
         /\ WithLock(d).lock /\ WithLock(d).file = d.file
         /\ WithLock(d).commitment = d.commitment
         /\ WithLock(d).soft \subseteq d.soft \cup {LockFile}
<1>1. LockFile \in Int
  BY SMTT(60) DEF LockFile
<1>2. d.soft \in SUBSET Int /\ d.soft \cup {LockFile} \in SUBSET Int
  BY <1>1 DEF Directories
<1>3. PICK soft \in SUBSET Int : soft \subseteq d.soft \cup {LockFile}
                               /\ WithLock(d) = [d EXCEPT !.lock = TRUE, !.soft = soft]
  <2>1. CASE d.lock
    BY <1>2, <2>1 DEF WithLock
  <2>2. CASE ~d.lock
    BY <1>2, <2>2 DEF WithLock
  <2>3. QED
    BY <2>1, <2>2
<1>4. QED
  BY <1>3, AbsenceAssumption DEF Directories

\* begin makes the staging directory and its lock file.
LEMMA PlacesBegin ==
  ASSUME ControlInv, PlacesInv, NEW p \in Procs, BeginDirectory(p) \/ BeginLock(p)
  PROVE  PlacesInv'
<1>1. Work(p) /\ pc[p] \in {"begun", "matched", "lock"}
  BY DEF Work, BeginDirectory, BeginLock, At
<1>2. /\ ControlInv' /\ Aside(p) /\ job[p].op = "begin" /\ p = Owner /\ repo = p
      /\ stage = Request /\ Placed(p) /\ StoreInv
  BY <1>1, WorkControl DEF ControlInv, PlacesInv, Suits, Entitled, Writes
<1>3. final = None /\ (entry # None => entry.state = Open)
  BY <1>2, StartStore
<1>4. /\ UNCHANGED <<entry, keys, final>>
      /\ staging' \in Directories \cup {None} /\ (Locked(staging) => Locked(staging)')
  BY <1>2, EmptyDirectory, LockedDirectory DEF BeginDirectory, BeginLock, At, Placed,
     StoreInv, Locked
<1>5. StoreInv'
  BY <1>2, <1>3, <1>4, SMTT(60) DEF StoreInv, Open, DataCommitted, Sealed, Published
<1>6. Placed(p)'
  <2>1. CASE pc'[p] = "lock"
    <3>1. staging' = EmptyDir
      BY <1>1, <2>1, ProceedAt, ReturnAt, SMTT(60) DEF BeginDirectory, BeginLock, At
    <3>2. QED
      BY <2>1, <3>1, EmptyDirectory DEF Placed, AtSegment, SegmentSteps, PublishSteps
  <2>2. CASE pc'[p] # "lock"
    <3>1. pc'[p] \in {"reserve", "complete", "idle"} /\ (pc'[p] # "idle" => job'[p] = job[p])
      BY <1>1, <2>2, ProceedAt, ReturnAt DEF BeginDirectory, BeginLock, At
    <3>2. QED
      BY <1>2, <3>1, IdlePlaced DEF Placed, AtSegment, SegmentSteps, SegmentOps, PublishSteps
  <2>3. QED
    BY <2>1, <2>2
<1>7. ASSUME NEW q \in Procs, q # p PROVE Placed(q)'
  <2>1. pc'[q] = pc[q] /\ job'[q] = job[q] /\ (res = q => res' = q) /\ Placed(q)
    BY <1>2, <1>7 DEF Aside, PlacesInv
  <2>2. CASE pc[q] = "idle"
    BY <2>1, <2>2, IdlePlaced
  <2>3. CASE pc[q] # "idle"
    <3>1. job[q].op = "destroy" /\ res = q
      BY <1>1, <1>2, <1>7, <2>3, Company
    <3>2. pc[q] \in {"unkey", "erase"}
      BY <2>3, <3>1 DEF ControlInv, Suits, Steps, SegmentSteps, SegmentOps, PublishSteps
    <3>3. Locked(staging) \/ Locked(final)
      BY <1>2, <1>7, <2>1, <3>1, <3>2 DEF Placed
    <3>4. QED
      BY <1>3, <1>4, <2>1, <3>1, <3>2, <3>3 DEF Placed, AtSegment, SegmentSteps, PublishSteps, Locked
  <2>4. QED
    BY <2>2, <2>3
<1>8. QED
  BY <1>5, <1>6, <1>7 DEF PlacesInv

\* A call that writes a segment is the owner's, about the slot it has come to.
LEMMA SegmentCall ==
  ASSUME ControlInv, PlacesInv, NEW p \in Procs, pc[p] \in SegmentSteps \cup {"advance"}
  PROVE  /\ p = Owner /\ pc[p] # "idle" /\ job[p].op \in SegmentOps \cup {"begin"}
         /\ job[p].slot = stage /\ stage \in Slots /\ job[p].body \in Bodies
         /\ Reservation(p) \in Reservations /\ ~Told
         /\ job[p].op \in SegmentOps => AtSegment(p)
         /\ Placed(p) /\ StoreInv
<1>1. pc[p] # "idle" /\ Suits(job[p].op, pc[p]) /\ Entitled(p, job[p], repo, res, stage)
  BY DEF ControlInv, SegmentSteps
<1>2. job[p].op \in SegmentOps \cup {"begin"} /\ p = Owner /\ job[p].slot = stage
  BY <1>1 DEF Suits, Entitled, SegmentOps, Writes
<1>3. stage \in Slots /\ job[p].body \in Bodies
  BY <1>1, <1>2, DurableAssumption, SMTT(60) DEF Entitled, SegmentOps, Slots, Request, SealSlot, DataSlot
<1>4. Reservation(p) \in Reservations
  BY <1>2, <1>3 DEF Reservation, Reservations
<1>5. QED
  BY <1>1, <1>2, <1>3, <1>4 DEF AtSegment, PlacesInv, ControlInv

\* What write_segment writes is a segment.
LEMMA NewSegment ==
  ASSUME ControlInv, PlacesInv, NEW p \in Procs, pc[p] = "write", entry # None, staging # None
  PROVE  /\ Prior(staging, job[p].slot) \in Chains
         /\ [first |-> entry.first, body |-> job[p].body,
             prior |-> Prior(staging, job[p].slot)] \in Segments
<1>1. job[p].slot \in Slots /\ job[p].body \in Bodies /\ entry \in Entries /\ staging \in Directories
  BY SegmentCall DEF SegmentSteps, StoreInv
<1>2. QED
  BY <1>1, PriorChain DEF Segments, Entries

\* A reservation changes only the counters of the entry.
LEMMA ReservedEntry ==
  ASSUME NEW e \in Entries, NEW r \in Reservations
  PROVE  /\ Reserved(e, r) \in Entries /\ Reserved(e, r) # None
         /\ Reserved(e, r).last = r /\ Reserved(e, r).key = e.key
         /\ Reserved(e, r).state = e.state /\ Reserved(e, r).data = e.data
         /\ Reserved(e, r).products = e.products /\ Reserved(e, r).publisher = e.publisher
         /\ e.last = r => Reserved(e, r) = e
         /\ e.last # r => Reserved(e, r).first = e.high /\ Reserved(e, r).high = e.high + 1
<1>1. CASE e.last = r
  BY <1>1, AbsenceAssumption DEF Reserved
<1>2. CASE e.last # r
  <2> DEFINE n == [e EXCEPT !.last = r, !.first = e.high, !.high = e.high + 1, !.pending = TRUE]
  <2>1. Reserved(e, r) = n
    BY <1>2 DEF Reserved
  <2>2. e.high \in Nat /\ e.high + 1 \in Nat /\ r \in Reservations \cup {None}
    BY SMTT(60) DEF Entries
  <2>3. n \in Entries
    BY <2>2 DEF Entries
  <2>4. /\ n.last = r /\ n.key = e.key /\ n.state = e.state /\ n.data = e.data
        /\ n.products = e.products /\ n.publisher = e.publisher
        /\ n.first = e.high /\ n.high = e.high + 1
    BY DEF Entries
  <2> HIDE DEF n
  <2>5. QED
    BY <1>2, <2>1, <2>3, <2>4, AbsenceAssumption
<1>3. QED
  BY <1>1, <1>2

\* reserve_nonce_range changes only the counters of the record.
LEMMA PlacesReserve ==
  ASSUME ControlInv, PlacesInv, NEW p \in Procs, Reserve(p)
  PROVE  PlacesInv' /\ Alike
<1>1. pc[p] = "reserve" /\ Aside(p)
  <2>1. Work(p)
    BY DEF Work
  <2>2. QED
    BY <2>1, WorkControl DEF Reserve, At
<1>2. /\ p = Owner /\ Reservation(p) \in Reservations /\ Placed(p) /\ StoreInv
      /\ job[p].op \in SegmentOps => AtSegment(p)
      /\ job[p].op \in SegmentOps \cup {"begin"}
  BY <1>1, SegmentCall DEF SegmentSteps
<1>3. ASSUME entry # None
      PROVE  /\ Reserved(entry, Reservation(p)) \in Entries
             /\ Reserved(entry, Reservation(p)).state = entry.state
             /\ Reserved(entry, Reservation(p)).data = entry.data
             /\ Reserved(entry, Reservation(p)).products = entry.products
  BY <1>2, <1>3, ReservedEntry DEF StoreInv
<1>4. Alike
  BY <1>2, <1>3, AbsenceAssumption DEF Reserve, Alike, StoreInv, disk
<1>5. pc'[p] = "idle" \/ (pc'[p] = "write" /\ job'[p] = job[p] /\ entry # None)
  BY ProceedAt, ReturnAt DEF Reserve
<1>6. Placed(p)'
  BY <1>1, <1>2, <1>4, <1>5, IdlePlaced DEF Placed, Alike, AtSegment, Locked, SegmentSteps,
     SegmentOps, PublishSteps, StateFor
<1>7. QED
  BY <1>1, <1>4, <1>6, AlikePlaces DEF PlacesInv

\* write_segment and the sync after it add a segment and take none away.
LEMMA PlacesWrite ==
  ASSUME ControlInv, PlacesInv, NEW p \in Procs, Write(p) \/ Sync(p)
  PROVE  PlacesInv' /\ Alike
<1>1. pc[p] \in {"write", "sync"} /\ Aside(p)
  <2>1. Work(p)
    BY DEF Work
  <2>2. QED
    BY <2>1, WorkControl DEF Write, Sync, At
<1>2. /\ p = Owner /\ Placed(p) /\ StoreInv /\ job[p].slot \in Slots
      /\ job[p].op \in SegmentOps => AtSegment(p)
      /\ job[p].op \in SegmentOps \cup {"begin"}
  BY <1>1, SegmentCall DEF SegmentSteps
<1>3. Alike /\ (pc'[p] = "sync" => staging'.file[job[p].slot] # None)
  <2>1. CASE Write(p)
    <3>1. CASE entry # None /\ staging # None
      <4> DEFINE f == [first |-> entry.first, body |-> job[p].body,
                       prior |-> Prior(staging, job[p].slot)]
      <4>1. f \in Segments
        BY <1>1, <2>1, <3>1, NewSegment DEF Write, At
      <4> HIDE DEF f
      <4>2. staging' = [staging EXCEPT !.file[job[p].slot] = f, !.soft = @ \cup {job[p].slot}]
        BY <2>1, <3>1 DEF Write, f
      <4>3. staging \in Directories /\ job[p].slot \in Int
        BY <1>2, <3>1, SMTT(60) DEF StoreInv, Slots
      <4>4. staging' \in Directories /\ staging'.lock = staging.lock
            /\ staging'.file = [staging.file EXCEPT ![job[p].slot] = f]
        BY <4>1, <4>2, <4>3 DEF Directories
      <4>5. QED
        BY <1>2, <2>1, <3>1, <4>1, <4>3, <4>4, AbsenceAssumption, SMTT(60) DEF Write, Alike, StoreInv, Directories
    <3>2. CASE entry = None \/ staging = None
      BY <1>2, <2>1, <3>2, ReturnAt DEF Write, Alike, StoreInv
    <3>3. QED
      BY <3>1, <3>2
  <2>2. CASE Sync(p)
    BY <1>2, <2>2, ProceedAt, ReturnAt, AbsenceAssumption, SMTT(60) DEF Sync, Alike, StoreInv, Directories
  <2>3. QED
    BY <2>1, <2>2
<1>4. \/ pc'[p] = "idle"
      \/ pc'[p] = "sync" /\ job'[p] = job[p]
      \/ pc'[p] = "complete" /\ job'[p] = job[p] /\ pc[p] = "sync"
  BY ProceedAt, ReturnAt DEF Write, Sync, At
<1>5. Placed(p)'
  BY <1>1, <1>2, <1>3, <1>4, IdlePlaced DEF Placed, Alike, AtSegment, Locked, SegmentSteps,
     SegmentOps, PublishSteps, StateFor
<1>6. QED
  BY <1>1, <1>3, <1>5, AlikePlaces DEF PlacesInv

\* complete_nonce_reservation ends the reservation.
LEMMA PlacesComplete ==
  ASSUME ControlInv, PlacesInv, NEW p \in Procs, Complete(p)
  PROVE  PlacesInv' /\ Alike
<1>1. pc[p] = "complete" /\ Aside(p)
  <2>1. Work(p)
    BY DEF Work
  <2>2. QED
    BY <2>1, WorkControl DEF Complete, At
<1>2. /\ p = Owner /\ Placed(p) /\ StoreInv
      /\ job[p].op \in SegmentOps => AtSegment(p)
      /\ job[p].op \in SegmentOps \cup {"begin"}
  BY <1>1, SegmentCall DEF SegmentSteps
<1>3. Alike
  <2>1. ASSUME entry # None
        PROVE  LET e == [entry EXCEPT !.pending = FALSE] IN
               /\ e \in Entries /\ e.state = entry.state /\ e.data = entry.data
               /\ e.products = entry.products
    BY <1>2, <2>1 DEF StoreInv, Entries
  <2>2. QED
    BY <1>2, <2>1, AbsenceAssumption DEF Complete, Alike, StoreInv, disk
<1>4. pc'[p] = "idle" \/ (pc'[p] = "advance" /\ job'[p] = job[p])
  BY ProceedAt, ReturnAt DEF Complete
<1>5. Placed(p)'
  BY <1>1, <1>2, <1>3, <1>4, IdlePlaced, SMTT(60) DEF Placed, Alike, AtSegment, Locked, SegmentSteps,
     SegmentOps, PublishSteps, StateFor, Complete, disk
<1>6. QED
  BY <1>1, <1>3, <1>5, AlikePlaces DEF PlacesInv

\* While a call other than begin or destroy is under way, no other one is.
LEMMA Alone ==
  ASSUME ControlInv, PlacesInv, NEW p \in Procs, pc[p] # "idle", Aside(p),
         job[p].op \notin {"begin", "destroy"}, NEW q \in Procs, q # p
  PROVE  pc[q] = "idle" /\ Placed(q)'
<1>1. pc[q] = "idle" /\ pc'[q] = pc[q]
  BY Company DEF Aside
<1>2. QED
  BY <1>1, IdlePlaced

\* What commit_data changes of the Keychain entry.
DataEntry(e, m) == [e EXCEPT !.state = DataCommitted, !.data = m]

\* It changes nothing else.
LEMMA CommittedEntry ==
  ASSUME NEW e \in Entries, NEW m \in Manifests
  PROVE  /\ DataEntry(e, m) \in Entries /\ DataEntry(e, m) # None
         /\ DataEntry(e, m).state = DataCommitted
         /\ DataEntry(e, m).data = m
         /\ DataEntry(e, m).key = e.key /\ DataEntry(e, m).request = e.request
         /\ DataEntry(e, m).high = e.high /\ DataEntry(e, m).pending = e.pending
         /\ DataEntry(e, m).last = e.last /\ DataEntry(e, m).first = e.first
         /\ DataEntry(e, m).products = e.products /\ DataEntry(e, m).publisher = e.publisher
<1>1. DataCommitted \in Open .. Published /\ m \in Manifests \cup {None}
  BY SMTT(60) DEF Open, DataCommitted, Published
<1>2. DataEntry(e, m) \in Entries
  BY <1>1 DEF DataEntry, Entries
<1>3. QED
  BY <1>2, AbsenceAssumption DEF DataEntry, Entries

\* What seal changes of it.
SealEntry(e, f) == [e EXCEPT !.state = Sealed, !.products = f]

\* It changes nothing else.
LEMMA SealedEntry ==
  ASSUME NEW e \in Entries, NEW f \in Segments
  PROVE  /\ SealEntry(e, f) \in Entries /\ SealEntry(e, f) # None
         /\ SealEntry(e, f).state = Sealed
         /\ SealEntry(e, f).products = f
         /\ SealEntry(e, f).key = e.key /\ SealEntry(e, f).request = e.request
         /\ SealEntry(e, f).high = e.high /\ SealEntry(e, f).pending = e.pending
         /\ SealEntry(e, f).last = e.last /\ SealEntry(e, f).first = e.first
         /\ SealEntry(e, f).data = e.data /\ SealEntry(e, f).publisher = e.publisher
<1>1. Sealed \in Open .. Published /\ f \in Segments \cup {None}
  BY SMTT(60) DEF Open, Sealed, Published
<1>2. SealEntry(e, f) \in Entries
  BY <1>1 DEF SealEntry, Entries
<1>3. QED
  BY <1>2, AbsenceAssumption DEF SealEntry, Entries

\* What publish changes of it.
PublishEntry(e) == [e EXCEPT !.state = Published]

\* It changes nothing else.
LEMMA PublishedEntry ==
  ASSUME NEW e \in Entries
  PROVE  /\ PublishEntry(e) \in Entries /\ PublishEntry(e) # None
         /\ PublishEntry(e).state = Published
         /\ PublishEntry(e).key = e.key /\ PublishEntry(e).request = e.request
         /\ PublishEntry(e).high = e.high /\ PublishEntry(e).pending = e.pending
         /\ PublishEntry(e).last = e.last /\ PublishEntry(e).first = e.first
         /\ PublishEntry(e).data = e.data /\ PublishEntry(e).products = e.products
         /\ PublishEntry(e).publisher = e.publisher
<1>1. Published \in Open .. Published
  BY SMTT(60) DEF Open, Published
<1>2. PublishEntry(e) \in Entries
  BY <1>1 DEF PublishEntry, Entries
<1>3. QED
  BY <1>2, AbsenceAssumption DEF PublishEntry, Entries

\* What reserve_publication_generation changes of it.
ClaimEntry(e, by) == [e EXCEPT !.publisher = by]

\* It changes nothing else.
LEMMA ClaimedEntry ==
  ASSUME NEW e \in Entries, NEW by \in {"publish", "recover"}
  PROVE  /\ ClaimEntry(e, by) \in Entries /\ ClaimEntry(e, by) # None
         /\ ClaimEntry(e, by).publisher = by
         /\ ClaimEntry(e, by).key = e.key /\ ClaimEntry(e, by).request = e.request
         /\ ClaimEntry(e, by).state = e.state /\ ClaimEntry(e, by).high = e.high
         /\ ClaimEntry(e, by).pending = e.pending /\ ClaimEntry(e, by).last = e.last
         /\ ClaimEntry(e, by).first = e.first /\ ClaimEntry(e, by).data = e.data
         /\ ClaimEntry(e, by).products = e.products
<1>1. ClaimEntry(e, by) \in Entries
  BY DEF ClaimEntry, Entries
<1>2. QED
  BY <1>1, AbsenceAssumption DEF ClaimEntry, Entries

\* commit_data and seal move the record while its segment is in the locked staging
\* directory.
LEMMA PlacesAdvance ==
  ASSUME ControlInv, PlacesInv, NEW p \in Procs, Advance(p)
  PROVE  PlacesInv'
<1>1. pc[p] = "advance" /\ Aside(p) /\ Return(p, "ok")
  <2>1. Work(p)
    BY DEF Work
  <2>2. QED
    BY <2>1, WorkControl DEF Advance, At
<1>2. /\ p = Owner /\ StoreInv /\ Placed(p) /\ AtSegment(p) /\ job[p].slot = stage /\ ~Told
      /\ pc[p] # "idle" /\ job[p].op \in {"data", "seal"} /\ stage \in Slots
      /\ job[p].op = "data" => stage = DataSlot
      /\ job[p].op = "seal" => stage = SealSlot
  BY <1>1, SegmentCall DEF SegmentOps, ControlInv, Suits, Entitled
<1>3. /\ entry \in Entries /\ staging \in Directories /\ Locked(staging)
      /\ entry.state = StateFor(job[p].op) /\ staging.file[stage] # None /\ final = None
  BY <1>1, <1>2 DEF Placed, StoreInv, Locked, StateFor, Open, DataCommitted, Sealed
<1>4. staging.file[stage] \in Segments
  BY <1>2, <1>3 DEF Directories
<1>5. Reached(DataSlot)' /\ (job[p].op = "seal" => Reached(SealSlot)')
  <2>1. Reached(DataSlot) /\ (job[p].op = "seal" => Reached(SealSlot))
    BY <1>2, DurableAssumption, SMTT(60) DEF Reached, SealSlot, DataSlot
  <2>2. QED
    BY <1>1, <2>1, DurableAssumption, SMTT(60) DEF Aside, SealSlot, DataSlot
<1>6. entry' \in Entries /\ entry' # None
      /\ \/ entry'.state = DataCommitted /\ entry'.products = None
         \/ entry'.state = Sealed /\ Reached(SealSlot)'
  <2>1. CASE job[p].op = "data"
    <3>1. entry' = DataEntry(entry, Manifest(staging.file[DataSlot]))
      BY <1>2, <2>1 DEF Advance, DataEntry
    <3>2. Manifest(staging.file[DataSlot]) \in Manifests
      BY <1>2, <1>4, <2>1 DEF Manifest, Manifests, Segments
    <3>3. entry.products = None
      BY <1>2, <1>3, <2>1, AbsenceAssumption, SMTT(60) DEF StoreInv, StateFor, Open, Sealed
    <3>4. /\ entry' \in Entries /\ entry' # None
          /\ entry'.state = DataCommitted /\ entry'.products = entry.products
      BY <1>3, <3>1, <3>2, CommittedEntry
    <3>5. QED
      BY <3>3, <3>4
  <2>2. CASE job[p].op = "seal"
    <3>1. entry' = SealEntry(entry, staging.file[SealSlot])
      BY <1>2, <2>2, DurableAssumption, SMTT(60) DEF Advance, SealEntry, SealSlot, DataSlot
    <3>2. staging.file[SealSlot] \in Segments
      BY <1>2, <1>4, <2>2
    <3>3. entry' \in Entries /\ entry' # None /\ entry'.state = Sealed
      BY <1>3, <3>1, <3>2, SealedEntry
    <3>4. QED
      BY <1>5, <2>2, <3>3
  <2>3. QED
    BY <1>2, <2>1, <2>2
<1>7. UNCHANGED <<keys, staging, final>>
  BY DEF Advance, disk
<1>8. StoreInv'
  BY <1>2, <1>3, <1>5, <1>6, <1>7, SMTT(60) DEF StoreInv, Locked, Open, DataCommitted, Sealed, Published
<1>9. Placed(p)'
  BY <1>1, ReturnAt, IdlePlaced
<1>10. ASSUME NEW q \in Procs, q # p PROVE Placed(q)'
  BY <1>1, <1>2, <1>10, Alone
<1>11. QED
  BY <1>8, <1>9, <1>10 DEF PlacesInv

\* A publishing call, or a recovery that publishes, has both locks and a sealed result.
LEMMA PublishingCall ==
  ASSUME ControlInv, PlacesInv, NEW p \in Procs, pc[p] \in PublishSteps
  PROVE  /\ pc[p] # "idle" /\ job[p].op \in {"publish", "recover"} /\ Placed(p) /\ StoreInv
         /\ entry \in Entries /\ entry # None /\ entry.state = Sealed
         /\ Locked(staging) \/ Locked(final)
<1>1. pc[p] # "idle" /\ Suits(job[p].op, pc[p]) /\ Placed(p) /\ StoreInv
  BY DEF ControlInv, PlacesInv, PublishSteps
<1>2. entry # None /\ entry.state = Sealed /\ job[p].op \in {"publish", "recover"}
  BY <1>1 DEF Placed, Suits
<1>3. QED
  BY <1>1, <1>2, SMTT(60) DEF StoreInv, DataCommitted, Sealed

\* The steps of publish before and after the rename keep the directories.
LEMMA PlacesPublishing ==
  ASSUME ControlInv, PlacesInv, NEW p \in Procs,
         Generation(p) \/ Commitment(p) \/ Fill(p) \/ Settle(p) \/ Flush(p)
  PROVE  PlacesInv' /\ Alike
<1>1. pc[p] \in PublishSteps /\ Aside(p)
  <2>1. Work(p)
    BY DEF Work
  <2>2. QED
    BY <2>1, WorkControl DEF Generation, Commitment, Fill, Settle, Flush, At, PublishSteps
<1>2. /\ Placed(p) /\ StoreInv /\ entry \in Entries /\ entry # None /\ entry.state = Sealed
      /\ job[p].op \in {"publish", "recover"} /\ (Locked(staging) \/ Locked(final))
  BY <1>1, PublishingCall
<1>3. Alike
  <2>1. CASE Generation(p)
    <3>1. entry' = entry \/ entry' = ClaimEntry(entry, job[p].op)
      BY <2>1 DEF Generation, ClaimEntry
    <3>2. /\ entry' \in Entries /\ entry' # None /\ entry'.state = entry.state
          /\ entry'.data = entry.data /\ entry'.products = entry.products
      BY <1>2, <3>1, ClaimedEntry, SMTT(60)
    <3>3. QED
      BY <1>2, <2>1, <3>2 DEF Generation, Alike, StoreInv, disk
  <2>2. CASE Commitment(p) \/ Fill(p) \/ Settle(p)
    <3>1. staging \in Directories /\ CommitmentFile \in Int
      BY <1>2, <2>2, SMTT(60) DEF Commitment, Fill, Settle, At, Placed, StoreInv, CommitmentFile
    <3>2. entry.products \in Segments \cup {None}
      BY <1>2 DEF Entries
    <3>3. staging' \in Directories /\ staging'.lock = staging.lock /\ staging'.file = staging.file
      BY <2>2, <3>1, <3>2 DEF Commitment, Fill, Settle, Directories
    <3>4. QED
      BY <1>2, <2>2, <3>1, <3>3, AbsenceAssumption DEF Commitment, Fill, Settle, Alike, StoreInv
  <2>3. CASE Flush(p)
    BY <1>2, <2>3 DEF Flush, Alike, StoreInv
  <2>4. QED
    BY <2>1, <2>2, <2>3
<1>4. \/ pc'[p] = "idle"
      \/ pc'[p] \in {"commitment", "fill", "settle", "rename"} /\ staging # None
      \/ pc'[p] \in {"generation", "flush", "publish"} /\ final # None
  BY <1>2, ProceedAt, ReturnAt DEF Generation, Commitment, Fill, Settle, Flush, At, Placed, Locked
<1>5. Placed(p)'
  BY <1>2, <1>3, <1>4, IdlePlaced DEF Placed, Alike, AtSegment, SegmentSteps, PublishSteps
<1>6. QED
  BY <1>1, <1>3, <1>5, AlikePlaces DEF PlacesInv

\* The rename moves the directory, and the authority publishes what was moved.
LEMMA PlacesRename ==
  ASSUME ControlInv, PlacesInv, NEW p \in Procs, Rename(p) \/ Publish(p)
  PROVE  PlacesInv'
<1>1. pc[p] \in PublishSteps /\ Aside(p)
  <2>1. Work(p)
    BY DEF Work
  <2>2. QED
    BY <2>1, WorkControl DEF Rename, Publish, At, PublishSteps
<1>2. /\ Placed(p) /\ StoreInv /\ entry \in Entries /\ entry # None /\ entry.state = Sealed
      /\ job[p].op \in {"publish", "recover"} /\ (Locked(staging) \/ Locked(final))
      /\ pc[p] # "idle"
  BY <1>1, PublishingCall
<1>3. Reached(SealSlot)' /\ Reached(DataSlot)'
  BY <1>1, <1>2, DurableAssumption, SMTT(60) DEF StoreInv, Aside, SealSlot, DataSlot, DataCommitted, Sealed
<1>4. /\ entry' \in Entries /\ entry' # None /\ entry'.state \in {Sealed, Published}
      /\ final' \in Directories /\ Locked(final)' /\ staging' = None /\ keys' = keys
  <2>1. CASE Rename(p)
    BY <1>2, <2>1 DEF Rename, StoreInv, Locked
  <2>2. CASE Publish(p)
    BY <1>2, <2>2, PublishedEntry DEF Publish, PublishEntry, At, Placed, StoreInv, Locked, disk
  <2>3. QED
    BY <2>1, <2>2
<1>5. StoreInv'
  BY <1>2, <1>3, <1>4, SMTT(60) DEF StoreInv, Locked, Open, DataCommitted, Sealed, Published
<1>6. Placed(p)'
  <2>1. \/ pc'[p] = "idle"
        \/ pc'[p] = "flush" /\ entry'.state = Sealed
    BY <1>2, ProceedAt, ReturnAt DEF Rename, Publish
  <2>2. QED
    BY <1>4, <2>1, IdlePlaced DEF Placed, AtSegment, Locked, SegmentSteps, PublishSteps
<1>7. ASSUME NEW q \in Procs, q # p PROVE Placed(q)'
  BY <1>1, <1>2, <1>7, Alone
<1>8. QED
  BY <1>5, <1>6, <1>7 DEF PlacesInv

\* Quarantine takes directories away only from a result that has committed nothing, and
\* an open result is forgotten without one.
LEMMA PlacesQuarantine ==
  ASSUME ControlInv, PlacesInv, NEW p \in Procs, Quarantine(p) \/ Forget(p)
  PROVE  PlacesInv'
<1>1. pc[p] \in {"quarantine", "forget"} /\ Aside(p) /\ pc[p] # "idle" /\ job[p].op = "recover"
  <2>1. Work(p) /\ pc[p] \in {"quarantine", "forget"}
    BY DEF Work, Quarantine, Forget, At
  <2>2. QED
    BY <2>1, WorkControl DEF ControlInv, Suits
<1>2. Placed(p) /\ StoreInv
  BY DEF PlacesInv
<1>3. /\ keys' = keys /\ (staging' = staging \/ staging' = None)
      /\ final' = final \/ final' = None
      /\ entry' # None => /\ entry' = entry /\ final = None /\ ~Locked(staging)
                          /\ entry.state = Open
  BY <1>1, <1>2, SMTT(60) DEF Quarantine, Forget, disk, At, Placed, StoreInv, Locked, Entries, Open,
     DataCommitted, Published
<1>4. StoreInv'
  BY <1>1, <1>2, <1>3, DurableAssumption, SMTT(60) DEF StoreInv, Aside, Locked, SealSlot, Open,
     DataCommitted, Sealed, Published
<1>5. Placed(p)'
  <2>1. pc'[p] \in {"idle", "quarantine"}
    BY ProceedAt, ReturnAt DEF Quarantine, Forget
  <2>2. QED
    BY <1>2, <1>3, <2>1, IdlePlaced DEF Placed, AtSegment, Locked, SegmentSteps, PublishSteps
<1>6. ASSUME NEW q \in Procs, q # p PROVE Placed(q)'
  BY <1>1, <1>6, Alone
<1>7. QED
  BY <1>4, <1>5, <1>6 DEF PlacesInv

\* destroy removes the key, and then the directories, while at most a begin is under way.
LEMMA PlacesDestroy ==
  ASSUME ControlInv, PlacesInv, NEW p \in Procs, DestroyKey(p) \/ Erase(p)
  PROVE  PlacesInv'
<1>1. /\ pc[p] \in {"unkey", "erase"} /\ Aside(p) /\ pc[p] # "idle"
      /\ job[p].op \in {"recover", "destroy"}
  <2>1. Work(p) /\ pc[p] \in {"unkey", "erase"}
    BY DEF Work, DestroyKey, Erase, At
  <2>2. QED
    BY <2>1, WorkControl DEF ControlInv, Suits
<1>2. Placed(p) /\ StoreInv
  BY DEF PlacesInv
<1>3. \/ entry' = None /\ keys' = keys /\ staging' = staging /\ final' = final
      \/ /\ entry' = entry /\ keys' = keys /\ staging' = None /\ final' = None
         /\ entry # None => entry.state = Open
  BY <1>2 DEF DestroyKey, Erase, disk, At, Placed
<1>4. StoreInv'
  BY <1>1, <1>2, <1>3, DurableAssumption, SMTT(60) DEF StoreInv, Aside, Locked, SealSlot, Open,
     DataCommitted, Sealed, Published
<1>5. Placed(p)'
  <2>1. \/ pc'[p] = "idle"
        \/ /\ pc'[p] = "erase" /\ pc[p] = "unkey" /\ job'[p] = job[p] /\ repo' = repo
           /\ res' = res /\ entry' = None /\ staging' = staging /\ final' = final
    BY ProceedAt, ReturnAt DEF DestroyKey, Erase, At, disk
  <2>2. QED
    BY <1>2, <2>1, IdlePlaced DEF Placed, AtSegment, Locked, SegmentSteps, PublishSteps
<1>6. ASSUME NEW q \in Procs, q # p PROVE Placed(q)'
  <2>1. pc'[q] = pc[q] /\ job'[q] = job[q] /\ Placed(q)
    BY <1>1, <1>6 DEF Aside, PlacesInv
  <2>2. CASE pc[q] = "idle"
    BY <2>1, <2>2, IdlePlaced
  <2>3. CASE pc[q] # "idle"
    <3>1. job[q].op = "begin" /\ job[p].op = "destroy" /\ res = p
      BY <1>1, <1>6, <2>3, Company
    <3>2. /\ pc[q] \in {"begun", "matched", "lock"} \cup SegmentSteps
          /\ stage = Request /\ repo = q
      BY <2>3, <3>1 DEF ControlInv, Suits, Entitled, Steps, SegmentSteps, SegmentOps, PublishSteps
    <3>3. Locked(staging)
      BY <1>1, <1>2, <1>6, <3>1, <3>2, StartStore DEF Placed, Locked
    <3>4. QED
      BY <2>1, <3>1, <3>2, <3>3 DEF Placed, AtSegment, Locked, SegmentSteps, SegmentOps,
         PublishSteps
  <2>4. QED
    BY <2>2, <2>3
<1>7. QED
  BY <1>4, <1>5, <1>6 DEF PlacesInv

\* A call that is answered at once, or goes on, from an unchanged store.
LEMMA EnterAt ==
  ASSUME ControlInv, NEW p \in Procs, NEW j, NEW step, NEW locks, Enter(p, j, step, locks)
  PROVE  \/ pc'[p] = "idle"
         \/ /\ step \in Steps /\ pc'[p] = step /\ job'[p] = j
            /\ "repo" \in locks => repo' = p
            /\ "res" \in locks => res' = p
BY DEF ControlInv, Enter, Goto, Answer, Release

\* authority.begin makes the record of a new result when there is none.
LEMMA PlacesBeginCall ==
  ASSUME ControlInv, PlacesInv, NEW b \in Bodies, BeginCall(b)
  PROVE  PlacesInv'
<1>1. /\ Aside(Owner) /\ pc[Owner] = "idle" /\ Owner \in Procs /\ StoreInv
      /\ stage = Request /\ repo = None
  BY OwnerControl, DurableAssumption DEF OwnerCall, PlacesInv, BeginCall, OwnerCalls
<1>2. final = None /\ (entry # None => entry.state = Open)
  BY <1>1, StartStore
<1>3. /\ entry' # None => entry' \in Entries /\ entry'.state = Open /\ entry'.data = None
                          /\ entry'.products = None
      /\ keys' \in Nat /\ UNCHANGED <<staging, final>>
  <2> DEFINE e == [key |-> keys + 1, request |-> b, state |-> Open, high |-> 0,
                   pending |-> FALSE, last |-> None, first |-> 0,
                   data |-> None, products |-> None, publisher |-> None]
  <2>1. keys + 1 \in Nat /\ Open \in Open .. Published
    BY <1>1, SMTT(60) DEF StoreInv, Open, Published
  <2>2. e \in Entries
    BY <2>1 DEF Entries
  <2>3. e # None /\ e.state = Open /\ e.data = None /\ e.products = None
    BY <2>2, AbsenceAssumption
  <2> HIDE DEF e
  <2>4. \/ entry' = e /\ entry = None /\ keys' = keys + 1
        \/ entry' = entry /\ entry # None /\ keys' = keys
    BY DEF BeginCall, e
  <2>5. CASE entry' = e /\ entry = None /\ keys' = keys + 1
    BY <2>1, <2>2, <2>3, <2>5 DEF BeginCall, disk
  <2>6. CASE entry' = entry /\ entry # None /\ keys' = keys
    BY <1>1, <1>2, <2>6, SMTT(60) DEF BeginCall, StoreInv, disk, Open, Sealed
  <2>7. QED
    BY <2>4, <2>5, <2>6
<1>4. StoreInv'
  BY <1>1, <1>2, <1>3, SMTT(60) DEF StoreInv, Open, DataCommitted, Sealed, Published
<1>5. Placed(Owner)'
  <2>1. pc'[Owner] \in {"idle", "begun", "matched"}
    <3>1. \/ Goto(Owner, Job("begin", Request, b), "begun", {"repo"})
          \/ \E step \in {"matched", "conflict"} :
               Enter(Owner, Job("begin", Request, b), step, {"repo"})
      BY DEF BeginCall
    <3>2. QED
      BY <1>1, <3>1, EnterAt DEF Goto, Steps, ControlInv
  <2>2. QED
    BY <2>1, IdlePlaced, DurableAssumption DEF Placed, AtSegment, SegmentSteps, PublishSteps
<1>6. ASSUME NEW q \in Procs, q # Owner PROVE Placed(q)'
  <2>1. /\ pc'[q] = pc[q] /\ job'[q] = job[q] /\ Placed(q)
        /\ res = q => res' = q
    BY <1>1, <1>6 DEF Aside, PlacesInv
  <2>2. CASE pc[q] = "idle"
    BY <2>1, <2>2, IdlePlaced
  <2>3. CASE pc[q] # "idle"
    <3>1. job[q].op = "destroy"
      BY <1>1, <1>6, <2>3, DurableAssumption DEF ControlInv, Entitled, Ops, Writes
    <3>2. pc[q] \in {"unkey", "erase"}
      BY <2>3, <3>1 DEF ControlInv, Suits, Steps, SegmentSteps, SegmentOps, PublishSteps
    <3>3. res = q /\ (Locked(staging) \/ Locked(final))
      BY <1>1, <2>1, <3>1, <3>2, DurableAssumption DEF Placed
    <3>4. QED
      BY <1>3, <2>1, <3>1, <3>2, <3>3 DEF Placed, AtSegment, SegmentSteps, PublishSteps, Locked
  <2>4. QED
    BY <2>2, <2>3
<1>7. QED
  BY <1>4, <1>5, <1>6 DEF PlacesInv

\* Where the owner's calls go from the stores they find.
LEMMA OwnerPlaced ==
  ASSUME ControlInv, PlacesInv, UNCHANGED world,
         \/ \E b \in Bodies : \/ DataCall(b) \/ SealCall(b)
                              \/ \E slot \in 1 .. Batches : BatchCall(slot, b)
         \/ PublishCall
  PROVE  Placed(Owner)'
<1> USE DurableAssumption
<1>1. StoreInv /\ UNCHANGED <<entry, staging, final>>
  BY DEF world, disk, PlacesInv
<1> USE <1>1 DEF Placed, AtSegment, SegmentSteps, SegmentOps, PublishSteps, Steps, Job, StateFor
<1>2. ASSUME NEW b \in Bodies, NEW slot \in 1 .. Batches, BatchCall(slot, b)
      PROVE  Placed(Owner)'
  <2>1. Enter(Owner, Job("batch", slot, b), BatchStep(slot), {"res"})
    BY <1>2 DEF BatchCall
  <2>2. \/ pc'[Owner] = "idle"
        \/ /\ pc'[Owner] = BatchStep(slot) /\ BatchStep(slot) \in {"reserve", "complete"}
           /\ job'[Owner] = Job("batch", slot, b)
    BY <2>1, EnterAt, SMTT(60) DEF BatchStep
  <2>3. QED
    BY <2>2, IdlePlaced, SMTT(60) DEF BatchStep
<1>3. ASSUME NEW b \in Bodies, DataCall(b)
      PROVE  Placed(Owner)'
  <2>1. Enter(Owner, Job("data", DataSlot, b), DataStep(b), {"res"})
    BY <1>3 DEF DataCall
  <2>2. \/ pc'[Owner] = "idle"
        \/ /\ pc'[Owner] = DataStep(b) /\ DataStep(b) \in {"reserve", "complete"}
           /\ job'[Owner] = Job("data", DataSlot, b)
    BY <2>1, EnterAt, SMTT(60) DEF DataStep
  <2>3. DataStep(b) \in {"reserve", "complete"} =>
          /\ entry # None /\ entry.state = Open /\ Locked(staging)
          /\ DataStep(b) = "complete" => staging.file[DataSlot] # None
    BY SMTT(60) DEF DataStep, Storage, StoreInv, Entries, Open, DataCommitted, Published
  <2>4. QED
    BY <2>2, <2>3, IdlePlaced, SMTT(60)
<1>4. ASSUME NEW b \in Bodies, SealCall(b)
      PROVE  Placed(Owner)'
  <2>1. Enter(Owner, Job("seal", SealSlot, b), SealStep(b), {"res"})
    BY <1>4 DEF SealCall
  <2>2. \/ pc'[Owner] = "idle"
        \/ /\ pc'[Owner] = SealStep(b) /\ SealStep(b) \in {"reserve", "complete"}
           /\ job'[Owner] = Job("seal", SealSlot, b)
    BY <2>1, EnterAt, SMTT(60) DEF SealStep
  <2>3. SealStep(b) \in {"reserve", "complete"} =>
          /\ entry # None /\ entry.state = DataCommitted /\ Locked(staging)
          /\ SealStep(b) = "complete" => staging.file[SealSlot] # None
    BY DEF SealStep, Storage
  <2>4. QED
    BY <2>2, <2>3, IdlePlaced, SMTT(60)
<1>5. ASSUME PublishCall
      PROVE  Placed(Owner)'
  <2>1. Enter(Owner, Job("publish", PublishStage, None), PublishStep, {"repo", "res"})
    BY <1>5 DEF PublishCall
  <2>2. \/ pc'[Owner] = "idle"
        \/ /\ pc'[Owner] = "generation" /\ PublishStep = "generation"
           /\ job'[Owner] = Job("publish", PublishStage, None)
    BY <2>1, EnterAt, SMTT(60) DEF PublishStep
  <2>3. QED
    BY <2>2, IdlePlaced, SMTT(60) DEF PublishStep
<1>6. QED
  BY <1>2, <1>3, <1>4, <1>5

\* Where a recovery goes.
LEMMA RecoverPlaced ==
  ASSUME ControlInv, PlacesInv, NEW p \in Procs, NEW context \in BOOLEAN, RecoverCall(p, context)
  PROVE  Placed(p)'
<1>1. StoreInv /\ UNCHANGED <<entry, staging, final>>
  BY DEF RecoverCall, world, disk, PlacesInv
<1>2. Enter(p, Job("recover", 0, None), RecoverStep(context), {"repo", "res"})
  BY DEF RecoverCall
<1>3. \/ pc'[p] = "idle"
      \/ /\ pc'[p] = RecoverStep(context) /\ job'[p] = Job("recover", 0, None)
         /\ RecoverStep(context) \in {"quarantine", "unkey", "forget", "commitment", "generation"}
  <2>1. RecoverStep(context) \in Steps => RecoverStep(context) \in
          {"quarantine", "unkey", "forget", "commitment", "generation"}
    BY DEF RecoverStep, RecoverSealed, Steps
  <2>2. QED
    BY <1>2, <2>1, EnterAt
<1>4. /\ RecoverStep(context) = "quarantine" /\ entry # None => final = None /\ ~Locked(staging)
      /\ RecoverStep(context) \in {"commitment", "generation"} =>
           entry # None /\ entry.state = Sealed
      /\ RecoverStep(context) = "commitment" => staging # None
      /\ RecoverStep(context) = "generation" => final # None
  BY <1>1 DEF RecoverStep, RecoverSealed, StoreInv, Locked
<1>5. QED
  BY <1>1, <1>3, <1>4, IdlePlaced, SMTT(60) DEF Placed, AtSegment, SegmentSteps, SegmentOps, PublishSteps,
     Job, Locked

\* Where destroy goes, and with which lock.
LEMMA DestroyPlaced ==
  ASSUME ControlInv, PlacesInv, NEW p \in Procs, DestroyCall(p)
  PROVE  Placed(p)'
<1>1. StoreInv /\ UNCHANGED <<entry, staging, final>>
  BY DEF DestroyCall, world, disk, PlacesInv
<1>2. PICK lock \in {"repo", "res"} :
        /\ Enter(p, Job("destroy", 0, None), DestroyStep, {lock})
        /\ lock = "repo" <=> staging = None /\ final = None
  BY DEF DestroyCall
<1>3. \/ pc'[p] = "idle"
      \/ /\ pc'[p] = "unkey" /\ DestroyStep = "unkey"
         /\ \/ repo' = p /\ staging = None /\ final = None
            \/ res' = p /\ (staging # None \/ final # None)
  <2>1. \/ pc'[p] = "idle"
        \/ /\ DestroyStep \in Steps /\ pc'[p] = DestroyStep
           /\ "repo" \in {lock} => repo' = p
           /\ "res" \in {lock} => res' = p
    BY <1>2, EnterAt
  <2>2. QED
    BY <1>2, <2>1 DEF DestroyStep, Steps
<1>4. QED
  BY <1>1, <1>3, IdlePlaced DEF DestroyStep, Placed, AtSegment, SegmentSteps, PublishSteps, Locked

\* A call that begins finds the stores as its first step needs them.
LEMMA PlacesCall ==
  ASSUME ControlInv, PlacesInv, NEW p \in Procs, Aside(p), Placed(p)',
         UNCHANGED <<entry, keys, disk>>
  PROVE  PlacesInv'
<1>1. Alike
  BY DEF Alike, PlacesInv, StoreInv, disk
<1>2. QED
  BY <1>1, AlikePlaces DEF PlacesInv

\* Which store is where, for a process at any step, is kept by every step.
LEMMA PlacesStep == ControlInv /\ PlacesInv /\ [Next]_vars => PlacesInv'
<1> SUFFICES ASSUME ControlInv, PlacesInv, [Next]_vars PROVE PlacesInv'
  OBVIOUS
<1>1. CASE Tick \/ UNCHANGED vars
  <2>1. UNCHANGED <<entry, keys, staging, final, repo, res, pc, job, out, stage>>
    BY <1>1 DEF Tick, vars, control, world, disk
  <2>2. QED
    BY <2>1 DEF PlacesInv, StoreInv, Placed, AtSegment, Locked, Reached, Told
<1>2. ASSUME NEW p \in Procs, Work(p) PROVE PlacesInv'
  BY <1>2, PlacesBegin, PlacesReserve, PlacesWrite, PlacesComplete, PlacesAdvance,
     PlacesPublishing, PlacesRename, PlacesQuarantine, PlacesDestroy DEF Work
<1>3. ASSUME OwnerCall PROVE PlacesInv'
  <2>1. Aside(Owner) /\ Owner \in Procs
    BY <1>3, OwnerControl, DurableAssumption
  <2>2. CASE \E b \in Bodies : BeginCall(b)
    BY <2>2, PlacesBeginCall
  <2>3. CASE ~\E b \in Bodies : BeginCall(b)
    <3>1. UNCHANGED world
      BY <1>3, <2>3 DEF OwnerCall, BatchCall, DataCall, SealCall, PublishCall
    <3>2. Placed(Owner)'
      BY <1>3, <2>3, <3>1, OwnerPlaced DEF OwnerCall
    <3>3. QED
      BY <2>1, <3>1, <3>2, PlacesCall DEF world
  <2>4. QED
    BY <2>2, <2>3
<1>4. ASSUME NEW p \in Procs, NEW context \in BOOLEAN, RecoverCall(p, context) PROVE PlacesInv'
  <2>1. UNCHANGED <<entry, keys, disk>>
    BY <1>4 DEF RecoverCall, world
  <2>2. QED
    BY <1>4, <2>1, RecoverPlaced, RecoverControl, PlacesCall
<1>5. ASSUME NEW p \in Procs, DestroyCall(p) PROVE PlacesInv'
  <2>1. UNCHANGED <<entry, keys, disk>>
    BY <1>5 DEF DestroyCall, world
  <2>2. QED
    BY <1>5, <2>1, DestroyPlaced, DestroyControl, PlacesCall
<1>6. ASSUME NEW p \in Procs, ExpandCall(p) \/ Crash(p) PROVE PlacesInv'
  <2>1. UNCHANGED <<entry, keys, disk>> /\ pc'[p] = "idle"
    BY <1>6 DEF ExpandCall, Crash, world, Answer, Release, ControlInv
  <2>2. QED
    BY <1>6, <2>1, ExpandControl, CrashControl, IdlePlaced, PlacesCall
<1>7. QED
  BY <1>1, <1>2, <1>3, <1>4, <1>5, <1>6 DEF Next

----------------------------------------------------------------------------
(* Files *)

\* The files are those of slots the owner has come to, each chained to the ones before
\* it, and the last reservation is for the bytes of its segment.
FilesInv ==
  /\ entry # None /\ entry.last # None => Reached(entry.last.slot)
  /\ staging # None =>
       /\ \A s \in Slots : staging.file[s] # None => Reached(s) /\ staging.lock
       /\ ChainHolds(staging)
       /\ pc[Owner] \in {"reserve", "write"} =>
            staging.lock /\ staging.file[job[Owner].slot] = None
  /\ /\ entry # None /\ entry.last # None
     /\ staging # None /\ staging.file[entry.last.slot] # None
     => staging.file[entry.last.slot].body = entry.last.body
  /\ pc[Owner] = "write" /\ entry # None => entry.last = Reservation(Owner)

\* The step writes no segment and makes no reservation, and p does not set out to.
Still(p) ==
  /\ frames' = frames /\ keys' = keys
  /\ entry' # None =>
       /\ entry # None /\ entry'.key = entry.key /\ entry'.last = entry.last
       /\ entry'.first = entry.first /\ entry'.high = entry.high
  /\ staging' # None =>
       /\ staging # None /\ staging'.file = staging.file
       /\ staging.lock => staging'.lock
  /\ pc'[p] \notin {"reserve", "write"}

\* Such a step keeps the files as the reservation left them.
LEMMA FilesStill ==
  ASSUME ControlInv, PlacesInv, FilesInv, NEW p \in Procs, Aside(p), Still(p)
  PROVE  FilesInv'
<1>1. pc'[Owner] \in {"reserve", "write"} => pc'[Owner] = pc[Owner] /\ job'[Owner] = job[Owner]
  BY DurableAssumption DEF Aside, Still
<1>2. \A s \in Slots : Reached(s) => Reached(s)'
  BY SlotsInt DEF Aside
<1>3. entry # None /\ entry.last # None => entry.last.slot \in Slots
  BY DEF PlacesInv, StoreInv, Entries, Reservations
<1>4. staging' # None /\ ChainHolds(staging) => ChainHolds(staging)'
  BY DEF Still, ChainHolds, Prior
<1>5. QED
  BY <1>1, <1>2, <1>3, <1>4 DEF FilesInv, Still, Reservation

\* begin makes an empty directory, or finds the one it made.
LEMMA FilesBegin ==
  ASSUME ControlInv, PlacesInv, FilesInv, NEW p \in Procs, BeginDirectory(p) \/ BeginLock(p)
  PROVE  FilesInv'
<1>1. Work(p) /\ pc[p] \in {"begun", "matched", "lock"}
  BY DEF Work, BeginDirectory, BeginLock, At
<1>2. /\ Aside(p) /\ job[p].op = "begin" /\ p = Owner /\ job[p].slot = Request
      /\ Placed(p) /\ StoreInv /\ Owner \in Procs
  BY <1>1, WorkControl, DurableAssumption DEF ControlInv, PlacesInv, Suits, Entitled, Writes
<1>3. UNCHANGED <<entry, keys, frames>>
  BY DEF BeginDirectory, BeginLock
<1>4. Request \in Slots
  BY DurableAssumption, SMTT(60) DEF Request, Slots, SealSlot
<1>5. CASE staging = None
  <2>1. staging' = EmptyDir /\ pc'[p] = "lock"
    BY <1>1, <1>2, <1>5, ProceedAt DEF BeginDirectory, BeginLock, Placed, At
  <2>2. \A s \in Slots : EmptyDir.file[s] = None
    BY DEF EmptyDir
  <2>3. QED
    BY <1>2, <1>3, <2>1, <2>2, SMTT(60) DEF FilesInv, Aside, Slots, StoreInv, Entries, Reservations, ChainHolds
<1>6. CASE staging # None
  <2>1. \/ staging' = staging /\ pc'[p] = "idle"
        \/ /\ staging' = WithLock(staging) /\ job'[p] = job[p]
           /\ staging'.lock /\ pc'[p] # "write"
           /\ pc'[p] = "reserve" => staging.file[Request] = None
    <3>1. staging \in Directories /\ WithLock(staging).lock
      BY <1>2, <1>6, LockedDirectory DEF StoreInv
    <3>2. CASE BeginLock(p)
      <4>1. pc[p] = "lock" /\ staging' = WithLock(staging) /\ pc'[p] = "reserve" /\ job'[p] = job[p]
        BY <3>2, ProceedAt DEF BeginLock, At
      <4>2. staging.file[Request] = None
        <5>1. ~staging.lock
          BY <1>2, <4>1 DEF Placed
        <5>2. QED
          BY <1>4, <1>6, <5>1 DEF FilesInv
      <4>3. QED
        BY <3>1, <4>1, <4>2
    <3>3. CASE BeginDirectory(p)
      <4>1. CASE staging' = staging /\ Return(p, "conflict")
        BY <4>1, ReturnAt
      <4>2. CASE /\ staging' = WithLock(staging)
                 /\ Proceed(p, IF staging.file[Request] = None THEN "reserve" ELSE "complete")
        <5>1. /\ job'[p] = job[p]
              /\ pc'[p] = IF staging.file[Request] = None THEN "reserve" ELSE "complete"
          BY <4>2, ProceedAt
        <5>2. QED
          BY <3>1, <4>2, <5>1
      <4>3. QED
        BY <1>6, <3>3, <4>1, <4>2 DEF BeginDirectory
    <3>4. QED
      BY <3>2, <3>3
  <2>2. /\ staging' # None /\ staging'.file = staging.file
        /\ staging.lock => staging'.lock
    BY <1>2, <1>6, <2>1, LockedDirectory DEF StoreInv
  <2>3. CASE pc'[p] # "reserve"
    BY <1>2, <1>3, <1>6, <2>1, <2>2, <2>3, FilesStill DEF Still
  <2>4. CASE pc'[p] = "reserve"
    <3>1. ChainHolds(staging)'
      BY <1>6, <2>2 DEF FilesInv, ChainHolds, Prior
    <3>2. \A s \in Slots : Reached(s) => Reached(s)'
      BY <1>2, SlotsInt DEF Aside
    <3>3. entry # None /\ entry.last # None => entry.last.slot \in Slots
      BY <1>2 DEF StoreInv, Entries, Reservations
    <3>4. QED
      BY <1>2, <1>3, <1>6, <2>1, <2>2, <2>4, <3>1, <3>2, <3>3 DEF FilesInv
  <2>5. QED
    BY <2>3, <2>4
<1>7. QED
  BY <1>5, <1>6

\* reserve_nonce_range reserves for the segment that is missing.
LEMMA FilesReserve ==
  ASSUME ControlInv, PlacesInv, FilesInv, NEW p \in Procs, Reserve(p)
  PROVE  FilesInv'
<1>1. Work(p) /\ pc[p] = "reserve"
  BY DEF Work, Reserve, At
<1>2. Aside(p) /\ UNCHANGED <<keys, staging>>
  BY <1>1, WorkControl DEF Reserve, disk
<1>3. /\ p = Owner /\ job[p].slot = stage /\ stage \in Slots /\ Reservation(p) \in Reservations
      /\ ~Told /\ StoreInv
  BY <1>1, SegmentCall DEF SegmentSteps
<1>4. CASE pc'[p] = "idle"
  <2>1. UNCHANGED <<entry, frames>>
    <3>1. Proceed(p, "write") => pc'[p] = "write"
      BY ProceedAt
    <3>2. QED
      BY <1>4, <3>1 DEF Reserve
  <2>2. QED
    BY <1>2, <1>4, <2>1, FilesStill DEF Still
<1>5. CASE pc'[p] # "idle"
  <2>1. /\ entry # None /\ entry' = Reserved(entry, Reservation(p))
        /\ pc'[p] = "write" /\ job'[p] = job[p]
    BY <1>5, ProceedAt, ReturnAt DEF Reserve
  <2>2. entry' # None /\ entry'.last = Reservation(p) /\ Reservation(p).slot = stage
    BY <1>3, <2>1, ReservedEntry DEF StoreInv, Reservation
  <2>3. Reservation(p)' = Reservation(p)
    BY <2>1 DEF Reservation
  <2>4. \A s \in Slots : Reached(s) => Reached(s)'
    BY <1>2, SlotsInt DEF Aside
  <2>5. Reached(stage)
    BY <1>3, SMTT(60) DEF Reached, Slots
  <2>6. ChainHolds(staging)' <=> ChainHolds(staging)
    BY <1>2 DEF ChainHolds, Prior
  <2>7. QED
    BY <1>1, <1>2, <1>3, <2>1, <2>2, <2>3, <2>4, <2>5, <2>6 DEF FilesInv
<1>6. QED
  BY <1>4, <1>5

\* Writing the segment of the owner's stage changes no chain up to that stage.
LEMMA Written ==
  ASSUME ControlInv, PlacesInv, NEW p \in Procs, Write(p), entry # None, staging # None
  PROVE  /\ pc'[p] = "sync" /\ job'[p] = job[p] /\ staging' # None
         /\ staging'.lock = staging.lock /\ staging.file[stage] = None
         /\ staging'.soft = staging.soft \cup {stage}
         /\ staging'.file[stage] # None /\ staging'.file[stage].body = job[p].body
         /\ staging'.file[stage].prior = Prior(staging, stage)
         /\ \A s \in Slots : s # stage => staging'.file[s] = staging.file[s]
         /\ \A s \in Slots : s <= stage => Prior(staging', s) = Prior(staging, s)
<1> DEFINE f == [first |-> entry.first, body |-> job[p].body,
                 prior |-> Prior(staging, job[p].slot)]
<1>1. pc[p] = "write" /\ job[p].slot = stage /\ stage \in Slots /\ staging \in Directories
  BY SegmentCall DEF Write, At, SegmentSteps, StoreInv
<1>2. f \in Segments /\ f # None /\ f.body = job[p].body /\ f.prior = Prior(staging, stage)
  BY <1>1, NewSegment, AbsenceAssumption
<1> HIDE DEF f
<1>3. /\ staging' = [staging EXCEPT !.file[stage] = f, !.soft = @ \cup {stage}]
      /\ staging.file[stage] = None /\ pc'[p] = "sync" /\ job'[p] = job[p]
  BY <1>1, ProceedAt DEF Write, f
<1>4. /\ staging'.lock = staging.lock /\ staging'.soft = staging.soft \cup {stage}
      /\ staging'.file = [staging.file EXCEPT ![stage] = f]
  BY <1>1, <1>3 DEF Directories
<1>5. staging.file \in [Slots -> Segments \cup {None}]
  BY <1>1 DEF Directories
<1>6. staging'.file[stage] = f /\ \A s \in Slots : s # stage => staging'.file[s] = staging.file[s]
  BY <1>1, <1>4, <1>5
<1>7. ASSUME NEW s \in Slots, s <= stage
      PROVE  Prior(staging', s) = Prior(staging, s)
  <2>1. \A t \in 0 .. s - 1 : staging'.file[t] = staging.file[t]
    BY <1>1, <1>6, <1>7, DurableAssumption, SMTT(60) DEF Slots, SealSlot
  <2>2. QED
    BY <2>1 DEF Prior
<1>8. staging' # None
  <2>1. stage \in Int /\ staging.soft \cup {stage} \in SUBSET Int
    BY <1>1, SMTT(60) DEF Slots, Directories
  <2>2. staging' \in Directories
    BY <1>1, <1>2, <1>3, <2>1 DEF Directories
  <2>3. QED
    BY <2>2, AbsenceAssumption
<1>9. QED
  BY <1>2, <1>3, <1>4, <1>6, <1>7, <1>8

\* write_segment writes the reserved bytes after the chain it read.
LEMMA FilesWrite ==
  ASSUME ControlInv, PlacesInv, FilesInv, NEW p \in Procs, Write(p)
  PROVE  FilesInv'
<1>1. Work(p) /\ pc[p] = "write"
  BY DEF Work, Write, At
<1>2. Aside(p) /\ UNCHANGED <<entry, keys, frames>>
  BY <1>1, WorkControl DEF Write
<1>3. p = Owner /\ stage \in Slots /\ ~Told /\ job[p].slot = stage
  BY <1>1, SegmentCall DEF SegmentSteps
<1>4. CASE entry = None \/ staging = None
  BY <1>2, <1>4, ReturnAt, FilesStill DEF Write, Still
<1>5. CASE entry # None /\ staging # None
  <2>1. /\ pc'[p] = "sync" /\ staging' # None /\ staging'.lock = staging.lock
        /\ staging'.file[stage] # None /\ staging'.file[stage].body = job[p].body
        /\ staging'.file[stage].prior = Prior(staging, stage)
        /\ \A s \in Slots : s # stage => staging'.file[s] = staging.file[s]
        /\ \A s \in Slots : s <= stage => Prior(staging', s) = Prior(staging, s)
    BY <1>5, Written
  <2>2. \A s \in Slots : staging.file[s] # None => s <= stage
    BY <1>5 DEF FilesInv, Reached
  <2>3. ChainHolds(staging')
    BY <1>3, <1>5, <2>1, <2>2, SMTT(60) DEF FilesInv, ChainHolds, Slots
  <2>4. Reached(stage) /\ \A s \in Slots : Reached(s) => Reached(s)'
    BY <1>2, <1>3, SMTT(60) DEF Aside, Slots, Reached
  <2>5. staging.lock
    BY <1>1, <1>3, <1>5 DEF FilesInv
  <2>6. entry.last.slot = stage /\ entry.last.body = job[p].body
    BY <1>1, <1>3, <1>5, SMTT(60) DEF FilesInv, Reservation
  <2>7. QED
    BY <1>2, <1>3, <1>5, <2>1, <2>3, <2>4, <2>5, <2>6 DEF FilesInv
<1>6. QED
  BY <1>4, <1>5

\* The steps that neither write a segment nor reserve.
LEMMA WorkStill ==
  ASSUME ControlInv, PlacesInv, NEW p \in Procs, Work(p),
         ~BeginDirectory(p), ~BeginLock(p), ~Reserve(p), ~Write(p)
  PROVE  Still(p)
<1> USE DEF Still, disk
<1>1. StoreInv
  BY DEF PlacesInv
<1>2. ASSUME Sync(p) PROVE Still(p)
  <2>1. staging # None => [staging EXCEPT !.soft = {}].file = staging.file
                          /\ [staging EXCEPT !.soft = {}].lock = staging.lock
    BY <1>1 DEF StoreInv, Directories
  <2>2. pc'[p] \notin {"reserve", "write"}
    BY <1>2, ProceedAt, ReturnAt, SMTT(60) DEF Sync
  <2>3. QED
    BY <1>2, <2>1, <2>2 DEF Sync
<1>3. ASSUME Complete(p) PROVE Still(p)
  <2>1. entry # None => LET e == [entry EXCEPT !.pending = FALSE] IN
                        e.key = entry.key /\ e.last = entry.last /\ e.first = entry.first
                        /\ e.high = entry.high
    BY <1>1 DEF StoreInv, Entries
  <2>2. pc'[p] \notin {"reserve", "write"}
    BY <1>3, ElsewhereAt DEF Complete
  <2>3. QED
    BY <1>3, <2>1, <2>2 DEF Complete
<1>4. ASSUME Advance(p) PROVE Still(p)
  <2>1. pc'[p] = "idle" /\ pc[p] = "advance" /\ job[p].op \in {"data", "seal"}
    BY <1>4, ReturnAt DEF Advance, At, ControlInv, Suits
  <2>2. /\ entry # None /\ entry'.key = entry.key /\ entry'.last = entry.last
        /\ entry'.first = entry.first /\ entry'.high = entry.high
    <3>1. entry \in Entries /\ entry # None
      BY <1>1, <2>1 DEF PlacesInv, Placed, AtSegment, SegmentOps, StoreInv
    <3>2. \/ entry' = DataEntry(entry, Manifest(staging.file[DataSlot]))
          \/ entry' = SealEntry(entry, staging.file[SealSlot])
      BY <1>4 DEF Advance, DataEntry, SealEntry
    <3>3. QED
      BY <3>1, <3>2 DEF DataEntry, SealEntry, Entries
  <2>3. QED
    BY <1>4, <2>1, <2>2 DEF Advance
<1>5. ASSUME Generation(p) \/ Publish(p) PROVE Still(p)
  <2>1. entry \in Entries /\ entry # None
    BY <1>5, PublishingCall DEF Generation, Publish, At, PublishSteps
  <2>2. entry' \in {entry, PublishEntry(entry), ClaimEntry(entry, job[p].op)}
    BY <1>5 DEF Generation, Publish, PublishEntry, ClaimEntry
  <2>3. /\ entry'.key = entry.key /\ entry'.last = entry.last
        /\ entry'.first = entry.first /\ entry'.high = entry.high
    BY <2>1, <2>2 DEF PublishEntry, ClaimEntry, Entries
  <2>4. pc'[p] \notin {"reserve", "write"}
    BY <1>5, ElsewhereAt DEF Generation, Publish
  <2>5. QED
    BY <1>5, <2>1, <2>3, <2>4 DEF Generation, Publish
<1>6. ASSUME Commitment(p) \/ Fill(p) \/ Settle(p) PROVE Still(p)
  <2>1. staging \in Directories /\ staging # None
    BY <1>1, <1>6 DEF Commitment, Fill, Settle, At, PlacesInv, Placed, StoreInv
  <2>2. staging'.file = staging.file /\ staging'.lock = staging.lock
    BY <1>6, <2>1 DEF Commitment, Fill, Settle, Directories
  <2>3. pc'[p] \notin {"reserve", "write"}
    BY <1>6, ElsewhereAt DEF Commitment, Fill, Settle
  <2>4. QED
    BY <1>6, <2>1, <2>2, <2>3 DEF Commitment, Fill, Settle
<1>7. ASSUME Rename(p) \/ Flush(p) PROVE Still(p)
  <2>1. pc'[p] \notin {"reserve", "write"}
    BY <1>7, ElsewhereAt DEF Rename, Flush
  <2>2. QED
    BY <1>7, <2>1 DEF Rename, Flush
<1>8. ASSUME Quarantine(p) \/ Forget(p) PROVE Still(p)
  <2>1. pc'[p] \notin {"reserve", "write"}
    BY <1>8, ElsewhereAt DEF Quarantine, Forget
  <2>2. QED
    BY <1>8, <2>1 DEF Quarantine, Forget, disk
<1>9. ASSUME DestroyKey(p) \/ Erase(p) PROVE Still(p)
  <2>1. pc'[p] \notin {"reserve", "write"}
    BY <1>9, ElsewhereAt DEF DestroyKey, Erase
  <2>2. QED
    BY <1>9, <2>1 DEF DestroyKey, Erase, disk
<1>10. QED
  BY <1>2, <1>3, <1>4, <1>5, <1>6, <1>7, <1>8, <1>9 DEF Work

\* A call of the owner finds its segment not yet written when it is to reserve.
LEMMA FilesCall ==
  ASSUME ControlInv, PlacesInv, FilesInv, OwnerCall, UNCHANGED world
  PROVE  FilesInv'
<1> USE DurableAssumption
<1>1. Aside(Owner) /\ pc[Owner] = "idle" /\ UNCHANGED <<entry, keys, staging, frames>>
  BY OwnerControl DEF world, disk
<1> DEFINE Ready == /\ pc'[Owner] # "write"
                    /\ pc'[Owner] = "reserve" =>
                         Locked(staging) /\ staging.file[job'[Owner].slot] = None
<1>2. Ready
  <2>1. ASSUME NEW b \in Bodies, BeginCall(b) PROVE Ready
    BY <2>1, EnterAt, SMTT(60) DEF BeginCall, Goto, ControlInv
  <2>2. ASSUME NEW b \in Bodies, NEW slot \in 1 .. Batches, BatchCall(slot, b) PROVE Ready
    <3>1. pc'[Owner] \in {"reserve", "write"} => BatchStep(slot) = pc'[Owner] /\ job'[Owner].slot = slot
      BY <2>2, EnterAt, SMTT(60) DEF BatchCall, Job
    <3>2. QED
      BY <3>1 DEF BatchStep
  <2>3. ASSUME NEW b \in Bodies, DataCall(b) PROVE Ready
    <3>1. pc'[Owner] \in {"reserve", "write"} => DataStep(b) = pc'[Owner] /\ job'[Owner].slot = DataSlot
      BY <2>3, EnterAt, SMTT(60) DEF DataCall, Job
    <3>2. QED
      BY <3>1 DEF DataStep, Storage
  <2>4. ASSUME NEW b \in Bodies, SealCall(b) PROVE Ready
    <3>1. pc'[Owner] \in {"reserve", "write"} => SealStep(b) = pc'[Owner] /\ job'[Owner].slot = SealSlot
      BY <2>4, EnterAt, SMTT(60) DEF SealCall, Job
    <3>2. QED
      BY <3>1 DEF SealStep, Storage
  <2>5. ASSUME PublishCall PROVE Ready
    BY <2>5, EnterAt, SMTT(60) DEF PublishCall, PublishStep
  <2> HIDE DEF Ready
  <2>6. QED
    BY <2>1, <2>2, <2>3, <2>4, <2>5 DEF OwnerCall
<1>3. CASE pc'[Owner] # "reserve"
  BY <1>1, <1>2, <1>3, FilesStill DEF Still
<1>4. CASE pc'[Owner] = "reserve"
  <2>1. ChainHolds(staging)' <=> ChainHolds(staging)
    BY <1>1 DEF ChainHolds, Prior
  <2>2. \A s \in Slots : Reached(s) => Reached(s)'
    BY <1>1, SlotsInt DEF Aside
  <2>3. entry # None /\ entry.last # None => entry.last.slot \in Slots
    BY DEF PlacesInv, StoreInv, Entries, Reservations
  <2>4. QED
    BY <1>1, <1>2, <1>4, <2>1, <2>2, <2>3 DEF FilesInv, Locked
<1>5. QED
  BY <1>3, <1>4

\* Neither do the calls that any process may make, nor a crash.
LEMMA CallStill ==
  ASSUME ControlInv, NEW p \in Procs,
         \/ \E context \in BOOLEAN : RecoverCall(p, context)
         \/ DestroyCall(p) \/ ExpandCall(p) \/ Crash(p)
  PROVE  Aside(p) /\ Still(p)
<1>1. Aside(p)
  BY RecoverControl, DestroyControl, ExpandControl, CrashControl
<1>2. UNCHANGED <<entry, keys, staging, frames>>
  BY DEF RecoverCall, DestroyCall, ExpandCall, Crash, world, disk
<1>3. pc'[p] \notin {"reserve", "write"}
  <2>1. ASSUME NEW context \in BOOLEAN, RecoverCall(p, context)
        PROVE  pc'[p] \notin {"reserve", "write"}
    <3>1. RecoverStep(context) \notin {"reserve", "write"}
      BY DEF RecoverStep, RecoverSealed
    <3>2. QED
      BY <2>1, <3>1, EnterAt DEF RecoverCall
  <2>2. ASSUME DestroyCall(p) PROVE pc'[p] \notin {"reserve", "write"}
    <3>1. DestroyStep \notin {"reserve", "write"}
      BY DEF DestroyStep
    <3>2. QED
      BY <2>2, <3>1, EnterAt DEF DestroyCall
  <2>3. ASSUME ExpandCall(p) \/ Crash(p) PROVE pc'[p] \notin {"reserve", "write"}
    BY <2>3 DEF ExpandCall, Crash, Answer, Release, ControlInv
  <2>4. QED
    BY <2>1, <2>2, <2>3
<1>4. QED
  BY <1>1, <1>2, <1>3 DEF Still

\* The files agree with the last reservation in every state.
LEMMA FilesStep == ControlInv /\ PlacesInv /\ FilesInv /\ [Next]_vars => FilesInv'
<1> SUFFICES ASSUME ControlInv, PlacesInv, FilesInv, [Next]_vars PROVE FilesInv'
  OBVIOUS
<1>1. CASE Tick \/ UNCHANGED vars
  <2>1. UNCHANGED <<entry, staging, pc, job, out, stage>>
    BY <1>1 DEF Tick, vars, control, world, disk
  <2>2. QED
    BY <2>1 DEF FilesInv, ChainHolds, Prior, Reached, Told, Reservation
<1>2. ASSUME NEW p \in Procs, Work(p) PROVE FilesInv'
  <2>1. Aside(p)
    BY <1>2, WorkControl
  <2>2. QED
    BY <1>2, <2>1, WorkStill, FilesStill, FilesBegin, FilesReserve, FilesWrite
<1>3. ASSUME OwnerCall PROVE FilesInv'
  <2>1. CASE UNCHANGED world
    BY <1>3, <2>1, FilesCall
  <2>2. CASE ~UNCHANGED world
    <3>1. PICK b \in Bodies : BeginCall(b) /\ entry = None
      BY <1>3, <2>2 DEF OwnerCall, BeginCall, BatchCall, DataCall, SealCall, PublishCall, world
    <3>2. /\ entry' # None => entry'.last = None
          /\ staging' = staging
          /\ Aside(Owner) /\ pc'[Owner] = "begun"
      BY <1>3, <3>1, OwnerControl, DurableAssumption, SMTT(60) DEF BeginCall, disk, Goto, ControlInv
    <3>3. ChainHolds(staging)' <=> ChainHolds(staging)
      BY <3>2 DEF ChainHolds, Prior
    <3>4. \A s \in Slots : Reached(s) => Reached(s)'
      BY <3>2, SlotsInt DEF Aside
    <3>5. QED
      BY <3>2, <3>3, <3>4 DEF FilesInv
  <2>3. QED
    BY <2>1, <2>2
<1>4. QED
  BY <1>1, <1>2, <1>3, CallStill, FilesStill DEF Next
=============================================================================
