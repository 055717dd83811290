-------------------------- MODULE DeployQueueProofs ---------------------------
(***************************************************************************)
(* What is proved of the deploy queue: its own safety, that it implements   *)
(* DeploySlot, and what is left of it once ProjectControl's routes are      *)
(* there too.                                                              *)
(***************************************************************************)
EXTENDS ProjectControl, TLAPS

-----------------------------------------------------------------------------
(***************************************************************************)
(* The queue's safety, for any number of calls and any mix of modes.        *)
(*                                                                         *)
(* NoOverlap is not inductive alone: that a second claim cannot succeed     *)
(* while a task owns the project follows from the status being "deploying"  *)
(* for as long as it does, which in turn holds only because no other owner  *)
(* is there to write the status.  DeployInv carries the three together.     *)
(***************************************************************************)

DeployInv == TypeOK /\ NoOverlap /\ ClaimIsHeld /\ FollowUpHasRunner

-----------------------------------------------------------------------------

\* Every variable holds a value of its type: the columns of the row, the state
\* of every task and the remembered follow-up.
LEMMA TypeInit == Init => TypeOK
<1> SUFFICES ASSUME Init PROVE TypeOK
  OBVIOUS
<1> USE DEF Init, PipelineInit
<1>1. status \in ProjectStatus /\ app \in Request \union {None}
  BY DEF ProjectStatus
<1>2. rows \in [Request -> RowStatus]
  BY DEF RowStatus
<1>3. pc \in [Request -> TaskPoints]
  BY DEF TaskPoints
<1>4. job \in [Request -> Request]
  OBVIOUS
<1>5. up \in [Request -> BOOLEAN] /\ storeFailed \in BOOLEAN
  OBVIOUS
<1>6. unbuilt \in [Request -> Owed]
  BY DEF Owed
<1>7. pending \in Request \union {None}
  OBVIOUS
<1>8. QED
  BY <1>1, <1>2, <1>3, <1>4, <1>5, <1>6, <1>7 DEF TypeOK, PipelineTypeOK

\* Each step of runDeploy keeps the types.
LEMMA PipelineTypeStep ==
  ASSUME TypeOK, NEW c \in Request, PipelineStep(c), UNCHANGED pending
  PROVE  TypeOK'
<1> USE DEF TypeOK, PipelineTypeOK, ProjectStatus, RowStatus, TaskPoints,
            OwnerPoints, TryPoints, CatchPoints, Owed, At, Goto, SetStatus,
            SetRow, StopApp, IsRebuild
<1>1. CASE Open(c)
  BY <1>1 DEF Open
<1>2. CASE RebuildClean(c)
  BY <1>2 DEF RebuildClean
<1>3. CASE FetchSource(c)
  BY <1>3 DEF FetchSource
<1>4. CASE StopForBuild(c)
  BY <1>4 DEF StopForBuild
<1>5. CASE StopPrevious(c)
  BY <1>5 DEF StopPrevious
<1>6. CASE Start(c)
  BY <1>6 DEF Start
<1>7. CASE Record(c)
  BY <1>7 DEF Record
<1>8. CASE Supersede(c)
  BY <1>8 DEF Supersede
<1>9. CASE Publish(c)
  BY <1>9 DEF Publish
<1>10. CASE Throw(c)
  BY <1>10 DEF Throw
<1>11. CASE FailRow(c)
  BY <1>11 DEF FailRow
<1>12. CASE AskDriver(c)
  BY <1>12 DEF AskDriver
<1>13. CASE Settle(c)
  BY <1>13 DEF Settle
<1>14. QED
  BY <1>1, <1>2, <1>3, <1>4, <1>5, <1>6, <1>7, <1>8, <1>9, <1>10, <1>11,
     <1>12, <1>13
  DEF PipelineStep

\* And so does each step of the queue, of the store and of a restart.
LEMMA TypeStep == TypeOK /\ [Next]_vars => TypeOK'
<1> SUFFICES ASSUME TypeOK, [Next]_vars PROVE TypeOK'
  OBVIOUS
<1> USE DEF TypeOK, PipelineTypeOK, ProjectStatus, RowStatus, TaskPoints,
            OwnerPoints, TryPoints, CatchPoints, Owed, At, Goto, IsRebuild
<1>1. ASSUME NEW c \in Request, ReadRow(c) PROVE TypeOK'
  BY <1>1 DEF ReadRow
<1>2. ASSUME NEW c \in Request, ClaimWon(c) PROVE TypeOK'
  BY <1>2 DEF ClaimWon
<1>3. ASSUME NEW c \in Request, Remember(c) PROVE TypeOK'
  BY <1>3 DEF Remember
<1>4. ASSUME NEW c \in Request, LetGo(c) PROVE TypeOK'
  BY <1>4 DEF LetGo
<1>5. ASSUME NEW c \in Request, CreateRow(c) PROVE TypeOK'
  BY <1>5 DEF CreateRow
<1>6. ASSUME NEW c \in Request, Drain(c) PROVE TypeOK'
  BY <1>6 DEF Drain
<1>7. ASSUME NEW c \in Request, QueueFails(c) PROVE TypeOK'
  BY <1>7 DEF QueueFails
<1>8. ASSUME NEW c \in Request, Uncaught(c), UNCHANGED pending PROVE TypeOK'
  BY <1>8 DEF Uncaught
<1>9. CASE PanelRestart
  BY <1>9 DEF PanelRestart
<1>10. CASE UNCHANGED vars
  BY <1>10 DEF vars
<1>11. QED
  BY <1>1, <1>2, <1>3, <1>4, <1>5, <1>6, <1>7, <1>8, <1>9, <1>10,
     PipelineTypeStep
  DEF Next, Enqueue, TaskStep, StoreStep

\* The tables, the tasks and the queue's memory keep to their types in every
\* behaviour of the queue.
THEOREM TypeCorrect == Spec => []TypeOK
<1>1. QED
  BY TypeInit, TypeStep, PTL DEF Spec

-----------------------------------------------------------------------------

\* Nothing runs and nothing waits when the panel first starts.
LEMMA InvInit == Init => DeployInv
<1> SUFFICES ASSUME Init PROVE DeployInv
  OBVIOUS
<1>1. TypeOK
  BY TypeInit
<1>2. \A c \in Request : ~Owns(c)
  BY DEF Init, PipelineInit, Owns, OwnerPoints, TryPoints, CatchPoints
<1>3. status = "stopped" /\ pending = None
  BY DEF Init, PipelineInit
<1>4. QED
  BY <1>1, <1>2, <1>3 DEF DeployInv, NoOverlap, ClaimIsHeld, FollowUpHasRunner

\* A task that goes on to another point of its deploy still owns the project.
LEMMA OwnerMoves ==
  ASSUME DeployInv, TypeOK', NEW c \in Request, NEW p \in OwnerPoints,
         Owns(c), Goto(c, p), UNCHANGED <<status, storeFailed, pending>>
  PROVE  DeployInv'
<1>1. \A d \in Request : Owns(d)' <=> Owns(d)
  BY DEF DeployInv, TypeOK, PipelineTypeOK, Owns, Goto
<1>2. \A d \in Request : At(d, "closing")' <=> At(d, "closing")
  BY DEF DeployInv, TypeOK, PipelineTypeOK, Goto, At, Owns, OwnerPoints,
         TryPoints, CatchPoints
<1>3. QED
  BY <1>1, <1>2 DEF DeployInv, NoOverlap, ClaimIsHeld, FollowUpHasRunner

\* A task that finishes was the only owner, so the status it leaves is nobody's
\* claim; and it is now the one that will look at the follow-up.
LEMMA OwnerCloses ==
  ASSUME DeployInv, TypeOK', NEW c \in Request, Owns(c), Goto(c, "closing"),
         UNCHANGED pending, status' # "deploying" \/ storeFailed'
  PROVE  DeployInv'
<1>1. \A d \in Request : ~Owns(d)'
  BY DEF DeployInv, TypeOK, PipelineTypeOK, NoOverlap, Owns, Goto, OwnerPoints,
         TryPoints, CatchPoints
<1>2. At(c, "closing")'
  BY DEF DeployInv, TypeOK, PipelineTypeOK, Goto, At
<1>3. QED
  BY <1>1, <1>2 DEF DeployInv, NoOverlap, ClaimIsHeld, FollowUpHasRunner

\* A task that owns nothing, and is not about to look at the follow-up, may move
\* anywhere that is not an owner's point.
LEMMA BystanderMoves ==
  ASSUME DeployInv, TypeOK', NEW c \in Request, NEW p,
         ~Owns(c), ~At(c, "closing"), p \notin OwnerPoints, Goto(c, p),
         UNCHANGED <<status, pending>>, storeFailed => storeFailed'
  PROVE  DeployInv'
<1>1. \A d \in Request : Owns(d)' <=> Owns(d)
  BY DEF DeployInv, TypeOK, PipelineTypeOK, Owns, Goto
<1>2. \A d \in Request : At(d, "closing") => At(d, "closing")'
  BY DEF DeployInv, TypeOK, PipelineTypeOK, Goto, At
<1>3. QED
  BY <1>1, <1>2 DEF DeployInv, NoOverlap, ClaimIsHeld, FollowUpHasRunner

\* Every step of runDeploy is its owner's: it goes on, or it writes the status
\* and closes.
LEMMA PipelineInvStep ==
  ASSUME DeployInv, TypeOK', NEW c \in Request, PipelineStep(c), UNCHANGED pending
  PROVE  DeployInv'
<1> USE DEF At
<1>1. Owns(c)
  BY DEF PipelineStep, Owns, OwnerPoints, TryPoints, CatchPoints, Open,
         RebuildClean, FetchSource, StopForBuild, StopPrevious, Start, Record,
         Supersede, Publish, Throw, FailRow, AskDriver, Settle
<1>2. status = "deploying"
  BY <1>1 DEF DeployInv, ClaimIsHeld
<1>3. CASE Publish(c) \/ Settle(c)
  <2>1. status' # "deploying" /\ Goto(c, "closing")
    BY <1>2, <1>3 DEF Publish, Settle, SetStatus
  <2>2. QED
    BY <1>1, <2>1, OwnerCloses
<1>4. ASSUME ~Publish(c), ~Settle(c)
      PROVE  DeployInv'
  <2>1. UNCHANGED <<status, storeFailed>>
    BY <1>4 DEF PipelineStep, Open, RebuildClean, FetchSource, StopForBuild,
                StopPrevious, Start, Record, Supersede, Throw, FailRow, AskDriver
  <2>2. PICK p \in OwnerPoints : Goto(c, p)
    BY <1>4 DEF PipelineStep, OwnerPoints, TryPoints, CatchPoints, Open,
                RebuildClean, FetchSource, StopForBuild, StopPrevious, Start,
                Record, Supersede, Throw, FailRow, AskDriver
  <2>3. QED
    BY <1>1, <2>1, <2>2, OwnerMoves
<1>5. QED
  BY <1>3, <1>4

\* Every step of the queue keeps the invariant.
LEMMA InvStep == DeployInv /\ [Next]_vars => DeployInv'
<1> SUFFICES ASSUME DeployInv, [Next]_vars PROVE DeployInv'
  OBVIOUS
<1>0. TypeOK'
  BY TypeStep DEF DeployInv
<1> USE DEF At
<1>1. ASSUME NEW c \in Request, ReadRow(c) PROVE DeployInv'
  <2>1. PICK p \in {"done", "claiming"} : Goto(c, p)
    BY <1>1 DEF ReadRow
  <2>2. ~Owns(c) /\ pc[c] # "closing" /\ p \notin OwnerPoints
    BY <1>1 DEF ReadRow, Owns, OwnerPoints, TryPoints, CatchPoints
  <2>3. UNCHANGED <<status, storeFailed, pending>>
    BY <1>1 DEF ReadRow
  <2>4. QED
    BY <1>0, <2>1, <2>2, <2>3, BystanderMoves
<1>2. ASSUME NEW c \in Request, ClaimWon(c) PROVE DeployInv'
  <2>1. \A d \in Request : ~Owns(d)
    BY <1>2 DEF ClaimWon, Claimable, DeployInv, ClaimIsHeld
  <2>2. \A d \in Request : Owns(d)' <=> d = c
    BY <1>2, <2>1 DEF ClaimWon, Goto, Owns, OwnerPoints, TryPoints, CatchPoints,
                      DeployInv, TypeOK, PipelineTypeOK
  <2>3. status' = "deploying"
    BY <1>2 DEF ClaimWon
  <2>4. QED
    BY <1>0, <2>2, <2>3 DEF DeployInv, NoOverlap, ClaimIsHeld, FollowUpHasRunner
<1>3. ASSUME NEW c \in Request, Remember(c) PROVE DeployInv'
  <2>1. \A d \in Request : Owns(d)' <=> Owns(d)
    BY <1>3 DEF Remember, Goto, Owns, OwnerPoints, TryPoints, CatchPoints,
                DeployInv, TypeOK, PipelineTypeOK
  <2>2. UNCHANGED <<status, storeFailed>>
    BY <1>3 DEF Remember
  <2>3. status = "deploying" \/ status = "absent"
    BY <1>3 DEF Remember, Claimable
  <2>4. QED
    BY <1>0, <2>1, <2>2, <2>3
    DEF DeployInv, NoOverlap, ClaimIsHeld, FollowUpHasRunner
<1>4. ASSUME NEW c \in Request, LetGo(c) PROVE DeployInv'
  <2>1. ~Owns(c) /\ pc[c] # "closing" /\ "done" \notin OwnerPoints
    BY <1>4 DEF LetGo, Owns, OwnerPoints, TryPoints, CatchPoints
  <2>2. QED
    BY <1>0, <1>4, <2>1, BystanderMoves DEF LetGo
<1>5. ASSUME NEW c \in Request, CreateRow(c) PROVE DeployInv'
  <2>1. Owns(c) /\ "opening" \in OwnerPoints
    BY <1>5 DEF CreateRow, Owns, OwnerPoints, TryPoints
  <2>2. QED
    BY <1>0, <1>5, <2>1, OwnerMoves DEF CreateRow
<1>6. ASSUME NEW c \in Request, Drain(c) PROVE DeployInv'
  <2>1. \A d \in Request : Owns(d)' <=> Owns(d)
    BY <1>6 DEF Drain, Goto, Owns, OwnerPoints, TryPoints, CatchPoints,
                DeployInv, TypeOK, PipelineTypeOK
  <2>2. pending' = None /\ UNCHANGED <<status, storeFailed>>
    BY <1>6 DEF Drain
  <2>3. QED
    BY <1>0, <2>1, <2>2 DEF DeployInv, NoOverlap, ClaimIsHeld, FollowUpHasRunner
<1>7. ASSUME NEW c \in Request, QueueFails(c) PROVE DeployInv'
  <2>1. \A d \in Request : Owns(d)' => Owns(d)
    BY <1>7 DEF QueueFails, Goto, Owns, OwnerPoints, TryPoints, CatchPoints,
                DeployInv, TypeOK, PipelineTypeOK
  <2>2. storeFailed' /\ UNCHANGED status
    BY <1>7 DEF QueueFails
  <2>3. QED
    BY <1>0, <2>1, <2>2 DEF DeployInv, NoOverlap, ClaimIsHeld, FollowUpHasRunner
<1>8. ASSUME NEW c \in Request, Uncaught(c), UNCHANGED pending PROVE DeployInv'
  <2>1. Owns(c)
    BY <1>8 DEF Uncaught, Owns, OwnerPoints, TryPoints, CatchPoints
  <2>2. QED
    BY <1>0, <1>8, <2>1, OwnerCloses DEF Uncaught
<1>9. CASE PanelRestart
  <2>1. \A d \in Request : ~Owns(d)'
    BY <1>9 DEF PanelRestart, Owns, OwnerPoints, TryPoints, CatchPoints
  <2>2. status' # "deploying" /\ pending' = None
    BY <1>9 DEF PanelRestart
  <2>3. QED
    BY <1>0, <2>1, <2>2 DEF DeployInv, NoOverlap, ClaimIsHeld, FollowUpHasRunner
<1>10. CASE UNCHANGED vars
  BY <1>10, <1>0 DEF vars, DeployInv, NoOverlap, ClaimIsHeld, FollowUpHasRunner, Owns
<1>11. QED
  BY <1>0, <1>1, <1>2, <1>3, <1>4, <1>5, <1>6, <1>7, <1>8, <1>9, <1>10,
     PipelineInvStep
  DEF Next, Enqueue, TaskStep, StoreStep

\* The strengthened invariant, from which the three below are read off.
THEOREM InvCorrect == Spec => []DeployInv
<1>1. QED
  BY InvInit, InvStep, PTL DEF Spec

\* Two deploys of a project never overlap, whatever calls come and wherever the
\* panel or the store fails, as long as the queue and the pipeline are the only
\* ones to write the project's status.
THEOREM DeploysNeverOverlap == Spec => []NoOverlap
<1>1. DeployInv => NoOverlap
  BY DEF DeployInv
<1>2. QED
  BY <1>1, InvCorrect, PTL

\* A project says "deploying" only while a task is there to take it out of it,
\* and says so for as long as one is.
THEOREM ClaimAlwaysHeld == Spec => []ClaimIsHeld
<1>1. DeployInv => ClaimIsHeld
  BY DEF DeployInv
<1>2. QED
  BY <1>1, InvCorrect, PTL

\* A follow-up is never left in memory with nobody coming to look for it.
THEOREM FollowUpsHaveRunners == Spec => []FollowUpHasRunner
<1>1. DeployInv => FollowUpHasRunner
  BY DEF DeployInv
<1>2. QED
  BY <1>1, InvCorrect, PTL

-----------------------------------------------------------------------------
(* What serves is what the history says.  Only a deploy writes the rows and    *)
(* replaces the app, and it is alone: so at each point of its way it finds     *)
(* what it has put in place itself.                                            *)

\* What a deploy has put in place at each point: the row it opened, the app it
\* started, and in the end the one row that says "running".
InPlace(c) ==
    /\ pc[c] \in TryPoints => rows[job[c]] # "none"
    /\ pc[c] \in {"checking", "superseding", "publishing"} => app = job[c]
    /\ pc[c] \in {"superseding", "publishing"} => rows[job[c]] = "running"
    /\ At(c, "publishing") => \A r \in Request : rows[r] = "running" => r = job[c]

RecordInv == DeployInv /\ RunningIsRecorded /\ \A c \in Request : InPlace(c)

-----------------------------------------------------------------------------

\* A step that is not the owner's changes no row and not the app.
LEMMA NothingWritten ==
  ASSUME RecordInv, TypeOK', UNCHANGED <<rows, app>>,
         status' = "running" => status = "running",
         \A d \in Request : pc'[d] \in TryPoints => pc'[d] = pc[d] /\ job'[d] = job[d]
  PROVE  RunningIsRecorded' /\ \A c \in Request : InPlace(c)'
<1>1. RunningIsRecorded'
  BY DEF RecordInv, RunningIsRecorded
<1>2. ASSUME NEW c \in Request PROVE InPlace(c)'
  BY DEF RecordInv, InPlace, At, TryPoints
<1>3. QED
  BY <1>1, <1>2

\* The owner is alone at the points where there is something in place.
LEMMA OwnerAlone ==
  ASSUME RecordInv, TypeOK', NEW c \in Request, Owns(c), NEW p, Goto(c, p),
         UNCHANGED <<job>>, status' # "running", InPlace(c)'
  PROVE  RunningIsRecorded' /\ \A d \in Request : InPlace(d)'
<1>1. \A d \in Request \ {c} : pc'[d] \notin TryPoints
  BY DEF RecordInv, DeployInv, NoOverlap, Owns, OwnerPoints, Goto, TypeOK, PipelineTypeOK
<1>2. \A d \in Request \ {c} : InPlace(d)'
  BY <1>1 DEF InPlace, At, TryPoints
<1>3. QED
  BY <1>2 DEF RunningIsRecorded

\* Each step of runDeploy leaves in place what the next ones count on.
LEMMA PipelineRecords ==
  ASSUME RecordInv, TypeOK', NEW c \in Request, PipelineStep(c), UNCHANGED pending
  PROVE  RunningIsRecorded' /\ \A d \in Request : InPlace(d)'
<1>0. TypeOK /\ status = "deploying" /\ Owns(c) /\ InPlace(c)
  <2>1. Owns(c)
    BY DEF PipelineStep, Owns, OwnerPoints, TryPoints, CatchPoints, Open,
           RebuildClean, FetchSource, StopForBuild, StopPrevious, Start, Record,
           Supersede, Publish, Throw, FailRow, AskDriver, Settle, At
  <2>2. QED
    BY <2>1 DEF RecordInv, DeployInv, ClaimIsHeld
<1> USE DEF TypeOK, PipelineTypeOK, At
<1>1. CASE Open(c)
  <2>1. rows'[job[c]] # "none"
    BY <1>0, <1>1 DEF Open, SetRow, InPlace, TryPoints
  <2>2. InPlace(c)'
    BY <1>0, <1>1, <2>1 DEF Open, Goto, InPlace
  <2>3. QED
    BY <1>0, <1>1, <2>2, OwnerAlone DEF Open
<1>2. CASE RebuildClean(c) \/ FetchSource(c) \/ StopForBuild(c) \/ StopPrevious(c)
  <2>1. InPlace(c)'
    BY <1>0, <1>2 DEF RebuildClean, FetchSource, StopForBuild, StopPrevious, Goto,
                      InPlace, TryPoints
  <2>2. QED
    BY <1>0, <1>2, <2>1, OwnerAlone
    DEF RebuildClean, FetchSource, StopForBuild, StopPrevious
<1>3. CASE Start(c)
  <2>1. InPlace(c)'
    BY <1>0, <1>3 DEF Start, Goto, InPlace, TryPoints
  <2>2. QED
    BY <1>0, <1>3, <2>1, OwnerAlone DEF Start
<1>4. CASE Record(c)
  <2>1. rows'[job[c]] = "running"
    BY <1>0, <1>4 DEF Record, SetRow, InPlace, TryPoints
  <2>2. InPlace(c)'
    BY <1>0, <1>4, <2>1 DEF Record, Goto, InPlace
  <2>3. QED
    BY <1>0, <1>4, <2>2, OwnerAlone DEF Record
<1>5. CASE Supersede(c)
  <2>1. InPlace(c)'
    BY <1>0, <1>5 DEF Supersede, Goto, InPlace, TryPoints
  <2>2. QED
    BY <1>0, <1>5, <2>1, OwnerAlone DEF Supersede
<1>6. CASE Publish(c)
  <2>1. {r \in Request : rows[r] = "running"} = {app}
    BY <1>0, <1>6 DEF Publish, InPlace, TryPoints
  <2>2. RunningIsRecorded'
    BY <1>6, <2>1 DEF Publish, RunningIsRecorded
  <2>3. \A d \in Request : pc'[d] \notin TryPoints
    BY <1>0, <1>6 DEF Publish, Goto, RecordInv, DeployInv, NoOverlap, Owns, OwnerPoints,
                      TryPoints
  <2>4. QED
    BY <2>2, <2>3 DEF InPlace, TryPoints
<1>7. CASE Throw(c)
  <2>1. InPlace(c)'
    BY <1>0, <1>7 DEF Throw, Goto, InPlace, TryPoints
  <2>2. QED
    BY <1>0, <1>7, <2>1, OwnerAlone DEF Throw
<1>8. CASE FailRow(c) \/ AskDriver(c)
  <2>1. InPlace(c)'
    BY <1>0, <1>8 DEF FailRow, AskDriver, Goto, InPlace, TryPoints
  <2>2. QED
    BY <1>0, <1>8, <2>1, OwnerAlone DEF FailRow, AskDriver
<1>9. CASE Settle(c)
  <2>1. InPlace(c)'
    BY <1>0, <1>9 DEF Settle, Goto, InPlace, TryPoints
  <2>2. QED
    BY <1>0, <1>9, <2>1, OwnerAlone DEF Settle, SetStatus
<1>10. QED
  BY <1>1, <1>2, <1>3, <1>4, <1>5, <1>6, <1>7, <1>8, <1>9 DEF PipelineStep

\* Every step keeps what serves and what is recorded of it together.
LEMMA RecordStep == RecordInv /\ [Next]_vars => RecordInv'
<1> SUFFICES ASSUME RecordInv, [Next]_vars PROVE RecordInv'
  OBVIOUS
<1>0. TypeOK /\ TypeOK' /\ DeployInv'
  BY TypeStep, InvStep DEF RecordInv, DeployInv
<1> SUFFICES RunningIsRecorded' /\ \A d \in Request : InPlace(d)'
  BY <1>0 DEF RecordInv
<1> USE DEF TypeOK, PipelineTypeOK, At
<1>1. ASSUME NEW c \in Request,
             \/ ReadRow(c) \/ ClaimWon(c) \/ Remember(c) \/ LetGo(c) \/ Drain(c)
             \/ QueueFails(c) \/ (Uncaught(c) /\ UNCHANGED pending)
      PROVE  RunningIsRecorded' /\ \A d \in Request : InPlace(d)'
  <2>1. UNCHANGED <<rows, app>> /\ (status' = "running" => status = "running")
    BY <1>1 DEF ReadRow, ClaimWon, Remember, LetGo, Drain, QueueFails, Uncaught
  <2>2. \A d \in Request : pc'[d] \in TryPoints => pc'[d] = pc[d] /\ job'[d] = job[d]
    BY <1>0, <1>1 DEF ReadRow, ClaimWon, Remember, LetGo, Drain, QueueFails, Uncaught,
                      Goto, TryPoints
  <2>3. QED
    BY <1>0, <2>1, <2>2, NothingWritten
<1>2. ASSUME NEW c \in Request, CreateRow(c)
      PROVE  RunningIsRecorded' /\ \A d \in Request : InPlace(d)'
  <2>1. Owns(c)
    BY <1>2 DEF CreateRow, Owns, OwnerPoints
  <2>2. status' # "running"
    BY <1>2, <2>1 DEF CreateRow, RecordInv, DeployInv, ClaimIsHeld
  <2>3. InPlace(c)'
    BY <1>0, <1>2 DEF CreateRow, Goto, InPlace, TryPoints
  <2>4. QED
    BY <1>0, <1>2, <2>1, <2>2, <2>3, OwnerAlone DEF CreateRow
<1>3. CASE PanelRestart
  <2>1. \A d \in Request : pc'[d] \notin TryPoints
    BY <1>0, <1>3 DEF PanelRestart, TryPoints
  <2>2. status' = "running" => status = "running"
    BY <1>3 DEF PanelRestart
  <2>3. app' = app /\ \A r \in Request : rows'[r] = "running" <=> rows[r] = "running"
    BY <1>0, <1>3 DEF PanelRestart
  <2>4. RunningIsRecorded'
    BY <2>2, <2>3 DEF RecordInv, RunningIsRecorded
  <2>5. QED
    BY <2>1, <2>4 DEF InPlace, TryPoints
<1>4. CASE UNCHANGED vars
  BY <1>0, <1>4, NothingWritten DEF vars
<1>5. QED
  BY <1>0, <1>1, <1>2, <1>3, <1>4, PipelineRecords DEF Next, Enqueue, TaskStep, StoreStep

\* What the history calls the running deployment, alone, is what serves whenever
\* the project says it runs.
THEOREM RunningDeployRecorded == Spec => []RunningIsRecorded
<1>1. Init => RecordInv
  BY InvInit DEF Init, PipelineInit, RecordInv, RunningIsRecorded, InPlace, At, TryPoints
<1>2. RecordInv => RunningIsRecorded
  BY DEF RecordInv
<1>3. QED
  BY <1>1, <1>2, RecordStep, PTL DEF Spec

-----------------------------------------------------------------------------
(***************************************************************************)
(* DeployQueue implements DeploySlot, for any number of calls: every        *)
(* initial state is one of the slot's, and every step is a step of the slot *)
(* or leaves it alone.                                                     *)
(*                                                                         *)
(* That a request is used up by its deploy needs more than NoOverlap: no    *)
(* two tasks may be about to run the same request, and the remembered one   *)
(* must be in no task's hands.  JobsApart says so, and is inductive.        *)
(***************************************************************************)

\* A task that is running its request, or may still come to.
Live(c) == pc[c] \in {"idle", "claiming", "reclaiming"} \union OwnerPoints

JobsApart ==
    /\ \A c, d \in Request : Live(c) /\ Live(d) /\ job[c] = job[d] => c = d
    /\ \A c \in Request : Live(c) => job[c] # pending

SlotInv == DeployInv /\ JobsApart

-----------------------------------------------------------------------------

\* Every task starts out with its own request.
LEMMA JobsInit == Init => JobsApart
  BY RequestAssumption DEF Init, PipelineInit, JobsApart

\* A step that keeps the jobs and makes no task live keeps them apart.
LEMMA JobsKept ==
  ASSUME JobsApart, UNCHANGED <<job, pending>>, \A c \in Request : Live(c)' => Live(c)
  PROVE  JobsApart'
  BY DEF JobsApart

\* Every step keeps the jobs apart.
LEMMA JobsStep == SlotInv /\ [Next]_vars => JobsApart'
<1> SUFFICES ASSUME DeployInv, JobsApart, [Next]_vars PROVE JobsApart'
  BY DEF SlotInv
<1>0. pc \in [Request -> TaskPoints]
  BY DEF DeployInv, TypeOK, PipelineTypeOK
<1> USE DEF Live, At, Goto, OwnerPoints, TryPoints, CatchPoints
<1>1. ASSUME NEW c \in Request, ReadRow(c) PROVE JobsApart'
  BY <1>0, <1>1, JobsKept DEF ReadRow
<1>2. ASSUME NEW c \in Request, ClaimWon(c) PROVE JobsApart'
  BY <1>0, <1>2, JobsKept DEF ClaimWon
<1>3. ASSUME NEW c \in Request, Remember(c) PROVE JobsApart'
  <2>1. \A d \in Request : Live(d)' => Live(d) /\ d # c
    BY <1>0, <1>3 DEF Remember
  <2>2. job' = job /\ pending' = c /\ job[c] = c /\ Live(c)
    BY <1>3 DEF Remember, IsCall
  <2>3. QED
    BY <2>1, <2>2 DEF JobsApart
<1>4. ASSUME NEW c \in Request, LetGo(c) PROVE JobsApart'
  BY <1>0, <1>4, JobsKept DEF LetGo
<1>5. ASSUME NEW c \in Request, CreateRow(c) PROVE JobsApart'
  BY <1>0, <1>5, JobsKept DEF CreateRow
<1>6. ASSUME NEW c \in Request, Drain(c) PROVE JobsApart'
  <2>1. CASE pending = None
    BY <1>0, <1>6, <2>1, JobsKept DEF Drain
  <2>2. CASE pending # None
    <3>1. \A d \in Request : d # c => job'[d] = job[d] /\ pc'[d] = pc[d]
      BY <1>0, <1>6, <2>2 DEF Drain, DeployInv, TypeOK, PipelineTypeOK
    <3>2. job'[c] = pending /\ pending' = None
      BY <1>6, <2>2 DEF Drain, DeployInv, TypeOK, PipelineTypeOK
    <3>3. \A d \in Request : job'[d] \in Request
      BY <1>6, <2>2 DEF Drain, DeployInv, TypeOK, PipelineTypeOK
    <3>4. QED
      BY <3>1, <3>2, <3>3, RequestAssumption DEF JobsApart
  <2>3. QED
    BY <2>1, <2>2
<1>7. ASSUME NEW c \in Request, QueueFails(c) PROVE JobsApart'
  BY <1>0, <1>7, JobsKept DEF QueueFails
<1>8. ASSUME NEW c \in Request, Uncaught(c), UNCHANGED pending PROVE JobsApart'
  BY <1>0, <1>8, JobsKept DEF Uncaught
<1>9. CASE PanelRestart
  <2>1. \A c \in Request : Live(c)' => Live(c)
    BY <1>9 DEF PanelRestart
  <2>2. job' = job /\ pending' = None
    BY <1>9 DEF PanelRestart
  <2>3. \A c \in Request : job[c] # None
    BY RequestAssumption DEF DeployInv, TypeOK, PipelineTypeOK
  <2>4. QED
    BY <2>1, <2>2, <2>3 DEF JobsApart
<1>10. CASE UNCHANGED vars
  BY <1>10 DEF vars, JobsApart
<1>11. ASSUME NEW c \in Request, PipelineStep(c), UNCHANGED pending PROVE JobsApart'
  <2>1. Live(c) /\ UNCHANGED job
    BY <1>11 DEF PipelineStep, Open, RebuildClean, FetchSource, StopForBuild,
         StopPrevious, Start, Record, Supersede, Publish, Throw, FailRow, AskDriver, Settle
  <2>2. \A d \in Request : d # c => pc'[d] = pc[d]
    BY <1>0, <1>11 DEF PipelineStep, Open, RebuildClean, FetchSource, StopForBuild,
         StopPrevious, Start, Record, Supersede, Publish, Throw, FailRow, AskDriver, Settle
  <2>3. QED
    BY <1>11, <2>1, <2>2, JobsKept
<1>12. QED
  BY <1>1, <1>2, <1>3, <1>4, <1>5, <1>6, <1>7, <1>8, <1>9, <1>10, <1>11
  DEF Next, Enqueue, TaskStep, StoreStep

\* No request is in two tasks' hands, or in one's and in memory too.
THEOREM JobsStayApart == Spec => []SlotInv
<1>1. Init => SlotInv
  BY InvInit, JobsInit DEF SlotInv
<1>2. SlotInv /\ [Next]_vars => SlotInv'
  BY InvStep, JobsStep DEF SlotInv
<1>3. QED
  BY <1>1, <1>2, PTL DEF Spec

-----------------------------------------------------------------------------

\* The slot holds the owner's request, and is free when there is no owner.
LEMMA RunningIs ==
  ASSUME NoOverlap
  PROVE  /\ \A c \in Request : Owns(c) => Running = job[c]
         /\ (\A c \in Request : ~Owns(c)) => Running = None
<1>1. ASSUME NEW c \in Request, Owns(c) PROVE (CHOOSE d \in Request : Owns(d)) = c
  BY <1>1 DEF NoOverlap
<1>2. QED
  BY <1>1 DEF Running

\* What runs, after a step, is the request of the task that owns then.
LEMMA RunningIsNext ==
  ASSUME NoOverlap'
  PROVE  /\ \A c \in Request : Owns(c)' => Running' = job'[c]
         /\ (\A c \in Request : ~Owns(c)') => Running' = None
<1>1. ASSUME NEW c \in Request, Owns(c)' PROVE (CHOOSE d \in Request : Owns(d)') = c
  BY <1>1 DEF NoOverlap
<1>2. QED
  BY <1>1 DEF Running

\* The slot is not touched by a step that changes no owner and no owner's job.
LEMMA RunningKept ==
  ASSUME NoOverlap, NoOverlap', \A c \in Request : Owns(c)' <=> Owns(c),
         \A c \in Request : Owns(c) => job'[c] = job[c]
  PROVE  Running' = Running
  BY RunningIs, RunningIsNext

\* A task that may still claim for its request.
Asks(c) == pc[c] \in {"idle", "claiming", "reclaiming"}

\* Nor are the fresh requests by one that changes neither who asks nor what waits.
LEMMA FreshKept ==
  ASSUME UNCHANGED <<job, pending>>, \A c \in Request : Asks(c)' <=> Asks(c)
  PROVE  Fresh' = Fresh
  BY DEF Fresh, Asks

\* A task that stops asking takes its request with it.
LEMMA FreshLeaves ==
  ASSUME JobsApart, NEW c \in Request, Asks(c), UNCHANGED <<job, pending>>,
         \A d \in Request : Asks(d)' <=> Asks(d) /\ d # c
  PROVE  /\ job[c] \in Request => job[c] \in Fresh
         /\ Fresh' = Fresh \ {job[c]}
  BY DEF Fresh, Asks, JobsApart, Live

\* Every step of the queue is a step of the slot, or changes nothing of it.
LEMMA SlotStep == SlotInv /\ SlotInv' /\ [Next]_vars => [Slot!Next]_(Slot!slotVars)
<1> SUFFICES ASSUME SlotInv, SlotInv', [Next]_vars PROVE [Slot!Next]_(Slot!slotVars)
  OBVIOUS
<1>0. /\ pc \in [Request -> TaskPoints] /\ job \in [Request -> Request]
      /\ NoOverlap /\ NoOverlap' /\ JobsApart /\ ClaimIsHeld
  BY DEF SlotInv, DeployInv, TypeOK, PipelineTypeOK
<1> USE DEF At, Goto
<1>q. ASSUME Running' = Running, Fresh' = Fresh, pending' = pending
      PROVE  [Slot!Next]_(Slot!slotVars)
  BY <1>q DEF Slot!slotVars
<1>d. ASSUME NEW c \in Request, Asks(c), UNCHANGED <<job, pending>>, Goto(c, "done")
      PROVE  [Slot!Next]_(Slot!slotVars)
  <2>1. Running' = Running
    BY <1>0, <1>d, RunningKept DEF Owns, OwnerPoints, TryPoints, CatchPoints, Asks
  <2>2. job[c] \in Fresh /\ Fresh' = Fresh \ {job[c]}
    BY <1>0, <1>d, FreshLeaves DEF Asks
  <2>3. Slot!Drop(job[c])
    BY <1>d, <2>1, <2>2 DEF Slot!Drop
  <2>4. QED
    BY <1>0, <2>3 DEF Slot!Next
<1>e. ASSUME NEW c \in Request, Owns(c), UNCHANGED <<job, pending>>,
             Goto(c, "closing") \/ Goto(c, "done")
      PROVE  [Slot!Next]_(Slot!slotVars)
  <2>1. \A d \in Request : ~Owns(d)'
    BY <1>0, <1>e DEF NoOverlap, Owns, OwnerPoints, TryPoints, CatchPoints
  <2>2. Running = job[c] /\ Running' = None
    BY <1>0, <1>e, <2>1, RunningIs, RunningIsNext
  <2>3. Fresh' = Fresh
    BY <1>0, <1>e, FreshKept DEF Asks, Owns, OwnerPoints, TryPoints, CatchPoints
  <2>4. Slot!End
    BY <1>0, <1>e, <2>2, <2>3, RequestAssumption DEF Slot!End
  <2>5. QED
    BY <2>4 DEF Slot!Next
<1>m. ASSUME NEW c \in Request, NEW p \in OwnerPoints, Owns(c), Goto(c, p),
             UNCHANGED <<job, pending>>
      PROVE  [Slot!Next]_(Slot!slotVars)
  <2>1. Running' = Running
    BY <1>0, <1>m, RunningKept DEF Owns
  <2>2. Fresh' = Fresh
    BY <1>0, <1>m, FreshKept DEF Asks, Owns, OwnerPoints, TryPoints, CatchPoints
  <2>3. QED
    BY <1>m, <1>q, <2>1, <2>2
<1>1. ASSUME NEW c \in Request, ReadRow(c) PROVE [Slot!Next]_(Slot!slotVars)
  <2>1. CASE Goto(c, "done")
    BY <1>1, <1>d, <2>1 DEF ReadRow, Asks
  <2>2. CASE Goto(c, "claiming")
    <3>1. Running' = Running
      BY <1>0, <1>1, <2>2, RunningKept DEF ReadRow, Owns, OwnerPoints, TryPoints, CatchPoints
    <3>2. Fresh' = Fresh
      BY <1>0, <1>1, <2>2, FreshKept DEF ReadRow, Asks
    <3>3. QED
      BY <1>1, <1>q, <3>1, <3>2 DEF ReadRow
  <2>3. QED
    BY <1>1, <2>1, <2>2 DEF ReadRow
<1>2. ASSUME NEW c \in Request, ClaimWon(c) PROVE [Slot!Next]_(Slot!slotVars)
  <2>1. \A d \in Request : ~Owns(d)
    BY <1>0, <1>2 DEF ClaimWon, Claimable, ClaimIsHeld
  <2>2. Owns(c)' /\ UNCHANGED <<job, pending>>
    BY <1>0, <1>2 DEF ClaimWon, Owns, OwnerPoints
  <2>3. Running = None /\ Running' = job[c]
    BY <1>0, <2>1, <2>2, RunningIs, RunningIsNext
  <2>4. Asks(c) /\ \A d \in Request : Asks(d)' <=> Asks(d) /\ d # c
    BY <1>0, <1>2 DEF ClaimWon, Asks
  <2>5. job[c] \in Fresh /\ Fresh' = Fresh \ {job[c]}
    BY <1>0, <2>2, <2>4, FreshLeaves
  <2>6. Slot!Begin(job[c])
    BY <2>2, <2>3, <2>5 DEF Slot!Begin
  <2>7. QED
    BY <1>0, <2>6 DEF Slot!Next
<1>3. ASSUME NEW c \in Request, Remember(c) PROVE [Slot!Next]_(Slot!slotVars)
  <2>1. job' = job /\ pending' = c /\ job[c] = c /\ Asks(c)
    BY <1>3 DEF Remember, IsCall, Asks
  <2>2. \A d \in Request : Asks(d)' <=> Asks(d) /\ d # c
    BY <1>0, <1>3 DEF Remember, Asks
  <2>3. Running' = Running
    BY <1>0, <1>3, <2>1, RunningKept DEF Remember, Owns, OwnerPoints, TryPoints, CatchPoints
  <2>4. c \in Fresh
    BY <2>1 DEF Fresh, Asks
  <2>5. Fresh' = Fresh \ ({pending} \ {c})
    BY <1>0, <2>1, <2>2 DEF Fresh, Asks, JobsApart, Live
  <2>6. Slot!Wait(c)
    BY <2>1, <2>3, <2>4, <2>5 DEF Slot!Wait
  <2>7. QED
    BY <2>6 DEF Slot!Next
<1>4. ASSUME NEW c \in Request, LetGo(c) PROVE [Slot!Next]_(Slot!slotVars)
  BY <1>4, <1>d DEF LetGo, Asks
<1>5. ASSUME NEW c \in Request, CreateRow(c) PROVE [Slot!Next]_(Slot!slotVars)
  BY <1>5, <1>m DEF CreateRow, Owns, OwnerPoints, TryPoints
<1>6. ASSUME NEW c \in Request, Drain(c) PROVE [Slot!Next]_(Slot!slotVars)
  <2>1. Running' = Running
    BY <1>0, <1>6, RunningKept DEF Drain, Owns, OwnerPoints, TryPoints, CatchPoints
  <2>2. CASE pending = None
    BY <1>0, <1>6, <1>q, <2>1, <2>2, FreshKept DEF Drain, Asks
  <2>3. CASE pending # None
    <3>1. /\ \A d \in Request : d # c => (job'[d] = job[d] /\ (Asks(d)' <=> Asks(d)))
          /\ ~Asks(c) /\ Asks(c)' /\ job'[c] = pending /\ pending' = None
      BY <1>0, <1>6, <2>3 DEF Drain, Asks
    <3>2. Fresh' = Fresh
      BY <3>1, RequestAssumption DEF Fresh, Asks
    <3>3. Slot!Take
      BY <2>1, <2>3, <3>1, <3>2 DEF Slot!Take
    <3>4. QED
      BY <3>3 DEF Slot!Next
  <2>4. QED
    BY <2>2, <2>3
<1>7. ASSUME NEW c \in Request, QueueFails(c) PROVE [Slot!Next]_(Slot!slotVars)
  <2>1. CASE At(c, "claiming")
    BY <1>7, <1>d, <2>1 DEF QueueFails, Asks
  <2>2. CASE At(c, "creating")
    BY <1>7, <1>e, <2>2 DEF QueueFails, Owns, OwnerPoints
  <2>3. QED
    BY <1>7, <2>1, <2>2 DEF QueueFails
<1>8. ASSUME NEW c \in Request, Uncaught(c), UNCHANGED pending
      PROVE  [Slot!Next]_(Slot!slotVars)
  BY <1>8, <1>e DEF Uncaught, Owns, OwnerPoints, TryPoints, CatchPoints
<1>9. CASE PanelRestart
  <2>1. Running' = None
    BY <1>0, <1>9, RunningIsNext DEF PanelRestart, Owns, OwnerPoints, TryPoints, CatchPoints
  <2>2. pending' = None /\ job' = job /\ \A d \in Request : Asks(d)' => Asks(d)
    BY <1>9 DEF PanelRestart, Asks
  <2>3. Fresh' \in SUBSET Fresh
    BY <2>2, RequestAssumption DEF Fresh, Asks
  <2>4. Slot!Forget
    BY <2>1, <2>2, <2>3 DEF Slot!Forget
  <2>5. QED
    BY <2>4 DEF Slot!Next
<1>10. CASE UNCHANGED vars
  BY <1>0, <1>10, <1>q, RunningKept, FreshKept DEF vars, Owns, Asks
<1>11. ASSUME NEW c \in Request, PipelineStep(c), UNCHANGED pending
       PROVE  [Slot!Next]_(Slot!slotVars)
  <2>1. Owns(c) /\ UNCHANGED job
    BY <1>11 DEF PipelineStep, Owns, OwnerPoints, TryPoints, CatchPoints, Open,
         RebuildClean, FetchSource, StopForBuild, StopPrevious, Start, Record,
         Supersede, Publish, Throw, FailRow, AskDriver, Settle
  <2>2. CASE Publish(c) \/ Settle(c)
    BY <1>11, <1>e, <2>1, <2>2 DEF Publish, Settle
  <2>3. ASSUME ~Publish(c), ~Settle(c) PROVE [Slot!Next]_(Slot!slotVars)
    <3>1. PICK p \in OwnerPoints : Goto(c, p)
      BY <1>11, <2>3 DEF PipelineStep, OwnerPoints, TryPoints, CatchPoints, Open,
         RebuildClean, FetchSource, StopForBuild, StopPrevious, Start, Record,
         Supersede, Throw, FailRow, AskDriver
    <3>2. QED
      BY <1>11, <1>m, <2>1, <3>1
  <2>4. QED
    BY <2>2, <2>3
<1>12. QED
  BY <1>1, <1>2, <1>3, <1>4, <1>5, <1>6, <1>7, <1>8, <1>9, <1>10, <1>11
  DEF Next, Enqueue, TaskStep, StoreStep

\* The queue behaves as the slot does: one deploy at a time, a request deployed
\* at most once, a follow-up only ever taken or replaced.
THEOREM QueueIsASlot == Spec => Slot!Spec
<1>1. Init => Slot!Init
  <2>1. ASSUME Init PROVE Running = None
    BY <2>1 DEF Init, PipelineInit, Running, Owns, OwnerPoints, TryPoints, CatchPoints
  <2>2. ASSUME Init PROVE Fresh = Request /\ pending = None
    BY <2>2, RequestAssumption DEF Init, PipelineInit, Fresh
  <2>3. QED
    BY <2>1, <2>2 DEF Slot!Init
<1>2. QED
  BY <1>1, JobsStayApart, SlotStep, PTL DEF Spec, Slot!Spec

-----------------------------------------------------------------------------
(***************************************************************************)
(* What is left of the queue's safety once the control routes write the     *)
(* status too.  Deploys may overlap then, so the argument above is gone;    *)
(* what survives is that a project can never be stuck, because the last     *)
(* claim always has its own end still to write, and that nothing is written *)
(* for a project that was deleted.                                         *)
(***************************************************************************)

ControlInv == ControlTypeOK /\ NeverStuck /\ FollowUpHasRunner /\ DeletedIsGone

TaskMoves(c) == Enqueue(c) \/ TaskStep(c) \/ StoreStep(c)

-----------------------------------------------------------------------------

\* What one move of one task of the queue can do to the claim, to the follow-up
\* and to the rows, by itself.
LEMMA MovesOfOne ==
  ASSUME TypeOK, NEW c \in Request, TaskMoves(c)
  PROVE  /\ \A d \in Request \ {c} : pc'[d] = pc[d]
         /\ storeFailed => storeFailed'
         /\ status' = "absent" <=> status = "absent"
         /\ Owns(c) /\ ~Owns(c)' /\ ~storeFailed' =>
              status' # "deploying" /\ pc'[c] = "closing"
         /\ status # "deploying" /\ status' = "deploying" => Owns(c)'
         /\ pc[c] = "closing" => pending' = None
         /\ pending' \in {pending, None}
              \/ (status \in {"deploying", "absent"} /\ ~Owns(c) /\ pc[c] # "closing")
         /\ status = "absent" => \A r \in Request : rows[r] = "none" => rows'[r] = "none"
<1> USE DEF TypeOK, PipelineTypeOK, At, Goto, Owns, OwnerPoints, TryPoints, CatchPoints,
            SetStatus, SetRow, ProjectStatus
<1>1. CASE ReadRow(c)
  BY <1>1 DEF ReadRow
<1>2. CASE ClaimWon(c)
  BY <1>2 DEF ClaimWon, Claimable
<1>3. CASE Remember(c)
  BY <1>3 DEF Remember, Claimable
<1>4. CASE LetGo(c)
  BY <1>4 DEF LetGo
<1>5. CASE CreateRow(c)
  BY <1>5 DEF CreateRow
<1>6. CASE Drain(c)
  BY <1>6 DEF Drain
<1>7. CASE QueueFails(c)
  BY <1>7 DEF QueueFails
<1>8. CASE Uncaught(c) /\ UNCHANGED pending
  BY <1>8 DEF Uncaught
<1>9. CASE (Publish(c) \/ Settle(c)) /\ UNCHANGED pending
  BY <1>9 DEF Publish, Settle
<1>10. CASE (Open(c) \/ FailRow(c) \/ Record(c)) /\ UNCHANGED pending
  BY <1>10 DEF Open, FailRow, Record
<1>11. CASE (RebuildClean(c) \/ FetchSource(c) \/ StopForBuild(c) \/ StopPrevious(c))
              /\ UNCHANGED pending
  BY <1>11 DEF RebuildClean, FetchSource, StopForBuild, StopPrevious
<1>12. CASE (Start(c) \/ Supersede(c) \/ Throw(c) \/ AskDriver(c)) /\ UNCHANGED pending
  BY <1>12 DEF Start, Supersede, Throw, AskDriver
<1>13. QED
  BY <1>1, <1>2, <1>3, <1>4, <1>5, <1>6, <1>7, <1>8, <1>9, <1>10, <1>11, <1>12
     DEF TaskMoves, Enqueue, TaskStep, StoreStep, PipelineStep

\* A step of the queue keeps the invariant.
LEMMA QueueKeeps ==
  ASSUME ControlInv, QueueStep, UNCHANGED opVars
  PROVE  ControlInv'
<1> USE DEF ControlInv, ControlTypeOK
<1>1. PICK c \in Request : TaskMoves(c)
  BY DEF QueueStep, TaskMoves
<1>2. ControlTypeOK'
  <2>1. Next
    BY <1>1 DEF Next, TaskMoves
  <2>2. QED
    BY <2>1, TypeStep DEF opVars
<1>3. \A e \in Request \ {c} : /\ Owns(e)' <=> Owns(e)
                               /\ At(e, "closing")' <=> At(e, "closing")
  BY <1>1, MovesOfOne DEF Owns, At
<1>4. NeverStuck'
  <2>1. SUFFICES ASSUME status' = "deploying", ~storeFailed'
                 PROVE  \E e \in Request : Owns(e)'
    BY DEF NeverStuck
  <2>2. CASE status # "deploying"
    BY <1>1, <2>1, <2>2, MovesOfOne
  <2>3. CASE status = "deploying"
    <3>1. PICK e \in Request : Owns(e)
      BY <1>1, <2>1, <2>3, MovesOfOne DEF NeverStuck
    <3>2. QED
      BY <1>1, <1>3, <2>1, <3>1, MovesOfOne
  <2>4. QED
    BY <2>2, <2>3
<1>5. FollowUpHasRunner'
  <2>1. SUFFICES ASSUME pending' # None, status' # "absent", ~storeFailed'
                 PROVE  \E e \in Request : Owns(e)' \/ At(e, "closing")'
    BY DEF FollowUpHasRunner
  <2>2. status # "absent" /\ ~storeFailed
    BY <1>1, <2>1, MovesOfOne
  <2>3. CASE pending' = pending
    <3>1. PICK e \in Request : Owns(e) \/ At(e, "closing")
      BY <2>1, <2>2, <2>3 DEF FollowUpHasRunner
    <3>2. CASE e # c
      BY <1>3, <3>1, <3>2
    <3>3. CASE e = c
      BY <1>1, <2>1, <3>1, <3>3, MovesOfOne DEF At
    <3>4. QED
      BY <3>2, <3>3
  <2>4. CASE pending' # pending
    <3>1. status = "deploying" /\ ~Owns(c)
      BY <1>1, <2>1, <2>2, <2>4, MovesOfOne
    <3>2. PICK e \in Request : Owns(e)
      BY <2>2, <3>1 DEF NeverStuck
    <3>3. QED
      BY <1>3, <3>1, <3>2
  <2>5. QED
    BY <2>3, <2>4
<1>6. DeletedIsGone'
  BY <1>1, MovesOfOne DEF DeletedIsGone
<1>7. QED
  BY <1>2, <1>4, <1>5, <1>6

-----------------------------------------------------------------------------

\* A step of a control request keeps the types.
LEMMA OpTypeStep ==
  ASSUME ControlTypeOK, NEW o \in Op, OpStep(o)
  PROVE  ControlTypeOK'
<1> USE DEF ControlTypeOK, TypeOK, PipelineTypeOK, OpPoints, OpAt, OpGoto, taskVars,
            ProjectStatus, RowStatus, SetStatus
<1>1. CASE StopProcess(o) \/ StopWrites(o)
  BY <1>1 DEF StopProcess, StopWrites
<1>2. CASE \E r \in Request : RestartReads(o, r)
  BY <1>2 DEF RestartReads
<1>3. CASE RestartStarts(o) \/ RestartWrites(o)
  BY <1>3 DEF RestartStarts, RestartWrites
<1>4. CASE RemoveProcess(o) \/ RemoveWrites(o) \/ RemoveClears(o)
  BY <1>4 DEF RemoveProcess, RemoveWrites, RemoveClears
<1>5. CASE DeleteClears(o) \/ DeleteProcess(o) \/ DeleteRow(o)
  BY <1>5 DEF DeleteClears, DeleteProcess, DeleteRow
<1>6. QED
  BY <1>1, <1>2, <1>3, <1>4, <1>5 DEF OpStep

\* And the rest of the invariant.
LEMMA OpKeeps ==
  ASSUME ControlInv, NEW o \in Op, OpStep(o)
  PROVE  ControlInv'
<1> USE DEF ControlInv
<1>1. UNCHANGED <<pc, storeFailed>> /\ pending' \in {pending, None}
  BY DEF OpStep, StopProcess, StopWrites, RestartReads, RestartStarts, RestartWrites,
         RemoveProcess, RemoveWrites, RemoveClears, DeleteClears, DeleteProcess,
         DeleteRow, taskVars
<1>2. /\ status' = "deploying" => status = "deploying"
      /\ status = "absent" => status' = "absent"
  BY DEF OpStep, StopProcess, StopWrites, RestartReads, RestartStarts, RestartWrites,
         RemoveProcess, RemoveWrites, RemoveClears, DeleteClears, DeleteProcess,
         DeleteRow, SetStatus
<1>3. status' = "absent" => status = "absent" \/ \A r \in Request : rows'[r] = "none"
  BY DEF OpStep, StopProcess, StopWrites, RestartReads, RestartStarts, RestartWrites,
         RemoveProcess, RemoveWrites, RemoveClears, DeleteClears, DeleteProcess,
         DeleteRow, SetStatus
<1>4. rows' = rows \/ \A r \in Request : rows'[r] = "none"
  BY DEF OpStep, StopProcess, StopWrites, RestartReads, RestartStarts, RestartWrites,
         RemoveProcess, RemoveWrites, RemoveClears, DeleteClears, DeleteProcess,
         DeleteRow
<1>5. ControlTypeOK'
  BY OpTypeStep
<1>6. NeverStuck' /\ FollowUpHasRunner'
  BY <1>1, <1>2 DEF NeverStuck, FollowUpHasRunner, Owns, At
<1>7. DeletedIsGone'
  BY <1>3, <1>4 DEF DeletedIsGone
<1>8. QED
  BY <1>5, <1>6, <1>7

\* A restart of the panel keeps it.
LEMMA RestartKeeps ==
  ASSUME ControlInv, RestartPanel
  PROVE  ControlInv'
<1>1. ControlTypeOK'
  <2>1. TypeOK'
    BY TypeStep DEF ControlInv, ControlTypeOK, RestartPanel, Next
  <2>2. QED
    BY <2>1 DEF ControlTypeOK, ControlInv, RestartPanel, OpPoints
<1>2. status' # "deploying" /\ pending' = None
  BY DEF RestartPanel, PanelRestart
<1>3. DeletedIsGone'
  BY DEF RestartPanel, PanelRestart, DeletedIsGone, ControlInv
<1>4. QED
  BY <1>1, <1>2, <1>3 DEF ControlInv, NeverStuck, FollowUpHasRunner

\* It holds at first.
LEMMA ControlInitInv == ControlInit => ControlInv
<1> SUFFICES ASSUME ControlInit PROVE ControlInv
  OBVIOUS
<1>1. TypeOK
  BY TypeInit DEF ControlInit
<1>2. QED
  BY <1>1 DEF ControlInit, Init, PipelineInit, ControlInv, ControlTypeOK, OpPoints,
              NeverStuck, FollowUpHasRunner, DeletedIsGone

\* Every step keeps it.
LEMMA ControlStep == ControlInv /\ [ControlNext]_allVars => ControlInv'
<1> SUFFICES ASSUME ControlInv, [ControlNext]_allVars PROVE ControlInv'
  OBVIOUS
<1>1. CASE ControlNext
  BY <1>1, QueueKeeps, OpKeeps, RestartKeeps DEF ControlNext
<1>2. CASE UNCHANGED allVars
  BY <1>2 DEF allVars, vars, opVars, ControlInv, ControlTypeOK, TypeOK, PipelineTypeOK,
              NeverStuck, FollowUpHasRunner, DeletedIsGone, Owns, At
<1>3. QED
  BY <1>1, <1>2

\* The invariant of the queue and the control routes together.
THEOREM ControlCorrect == ControlSpec => []ControlInv
<1>1. QED
  BY ControlInitInv, ControlStep, PTL DEF ControlSpec

\* However many stops, restarts, removals and deletions cut across however many
\* deploys, a project that says "deploying" has a deploy that will end it.
THEOREM ProjectsNeverStuck == ControlSpec => []NeverStuck
<1>1. ControlInv => NeverStuck
  BY DEF ControlInv
<1>2. QED
  BY <1>1, ControlCorrect, PTL

\* No deployment row outlives, or is born after, the deletion of its project.
THEOREM DeletedProjectsGone == ControlSpec => []DeletedIsGone
<1>1. ControlInv => DeletedIsGone
  BY DEF ControlInv
<1>2. QED
  BY <1>1, ControlCorrect, PTL
=============================================================================
