----------------------------- MODULE DeployQueue ------------------------------
(***************************************************************************)
(* services/deploy-queue.ts: deploys of one project are serialised by a     *)
(* conditional UPDATE of its status, and one follow-up is remembered in     *)
(* memory.  `pending` is a Map keyed by project and projects share nothing  *)
(* else here, so the module is the life of a single project.                *)
(*                                                                         *)
(* Every request is one call of enqueueDeploy, from the deploy button, a    *)
(* webhook, the poller or a released pin.  A call that wins the claim goes  *)
(* on as the task that runs the deploy, then the follow-ups.                *)
(***************************************************************************)
EXTENDS DeployPipeline

VARIABLE pending    \* the remembered follow-up, or None

vars == <<status, rows, app, pc, job, up, unbuilt, storeFailed, pending>>

TypeOK ==
    /\ PipelineTypeOK
    /\ pending \in Request \union {None}

\* The task's own call: it has not gone on to a follow-up.
IsCall(c) == job[c] = c

-----------------------------------------------------------------------------
(* claim(): a SELECT and a conditional UPDATE, with an await between them. *)

\* The SELECT.  `before`, the row the deploy will be handed, is read here.
ReadRow(c) ==
    /\ pc[c] \in {"idle", "reclaiming"}
    /\ Goto(c, IF status = "absent" THEN "done" ELSE "claiming")
    /\ up' = [up EXCEPT ![c] = (status = "running")]
    /\ UNCHANGED <<status, rows, app, job, unbuilt, storeFailed, pending>>

\* Mutant: the UPDATE without `status != 'deploying'`.
ClaimableAlways == status # "absent"

Claimable == status \notin {"deploying", "absent"}

\* The UPDATE matched the row.  A deploy that fetches answers for every push
\* accepted before this point.
ClaimWon(c) ==
    /\ At(c, "claiming") /\ Claimable
    /\ status' = "deploying"
    /\ unbuilt' = IF IsRebuild(c) THEN unbuilt
                  ELSE [r \in Request |->
                          IF r = job[c] \/ unbuilt[r] = "new" THEN "old" ELSE unbuilt[r]]
    /\ Goto(c, "creating")
    /\ UNCHANGED <<rows, app, job, up, storeFailed, pending>>

\* It matched nothing, and the request is remembered in place of any other.
\* With SQLite the answer is handled before another task can get from its last
\* write of the status to its look at `pending`; see the README for Postgres.
Remember(c) ==
    /\ At(c, "claiming") /\ ~Claimable /\ IsCall(c)
    /\ pending' = c
    /\ unbuilt' = IF IsRebuild(c) THEN unbuilt ELSE [unbuilt EXCEPT ![c] = "new"]
    /\ Goto(c, "done")
    /\ UNCHANGED <<status, rows, app, job, up, storeFailed>>

\* It matched nothing, and the caller is a task with a follow-up in its hands:
\* somebody else started a deploy meanwhile, and the follow-up is let go.
LetGo(c) ==
    /\ At(c, "claiming") /\ ~Claimable /\ ~IsCall(c)
    /\ Goto(c, "done")
    /\ UNCHANGED <<status, rows, app, job, up, unbuilt, storeFailed, pending>>

-----------------------------------------------------------------------------

\* Mutant: deployments without their foreign key.
CreateRowAnyway(c) ==
    /\ At(c, "creating")
    /\ rows' = [rows EXCEPT ![job[c]] = "pending"]
    /\ Goto(c, "opening")
    /\ UNCHANGED <<status, app, job, up, unbuilt, storeFailed, pending>>

\* createDeploymentRow.  Without a project the foreign key refuses it.
CreateRow(c) ==
    /\ At(c, "creating") /\ status # "absent"
    /\ rows' = [rows EXCEPT ![job[c]] = "pending"]
    /\ Goto(c, "opening")
    /\ UNCHANGED <<status, app, job, up, unbuilt, storeFailed, pending>>

\* Mutant: the task ends without a look at `pending`.
DrainBlind(c) ==
    /\ At(c, "closing")
    /\ Goto(c, "done")
    /\ UNCHANGED <<status, rows, app, job, up, unbuilt, storeFailed, pending>>

\* Mutant: the follow-up is taken and left in its place.
DrainKeeps(c) ==
    /\ At(c, "closing")
    /\ \/ /\ pending = None
          /\ Goto(c, "done")
          /\ UNCHANGED job
       \/ /\ pending # None
          /\ job' = [job EXCEPT ![c] = pending]
          /\ Goto(c, "reclaiming")
    /\ UNCHANGED <<status, rows, app, up, unbuilt, storeFailed, pending>>

\* The deploy is over, well or badly: take the follow-up, synchronously.
Drain(c) ==
    /\ At(c, "closing")
    /\ \/ /\ pending = None
          /\ Goto(c, "done")
          /\ UNCHANGED job
       \/ /\ pending # None
          /\ job' = [job EXCEPT ![c] = pending]
          /\ Goto(c, "reclaiming")
    /\ pending' = None
    /\ UNCHANGED <<status, rows, app, up, unbuilt, storeFailed>>

\* A statement of the queue's own that fails: the call or the follow-up rejects
\* and nothing gives the status back.
QueueFails(c) ==
    /\ pc[c] \in {"claiming", "creating"}
    /\ storeFailed' = TRUE
    /\ Goto(c, "done")
    /\ UNCHANGED <<status, rows, app, job, up, unbuilt, pending>>

\* Mutant: recoverFromCrash without the UPDATE of projects.
PanelRestartForgets ==
    /\ pc' = [c \in Request |-> IF pc[c] = "idle" THEN "idle" ELSE "done"]
    /\ pending' = None
    /\ rows' = [r \in Request |->
                  IF rows[r] \in {"pending", "building"} THEN "failed" ELSE rows[r]]
    /\ unbuilt' = [r \in Request |-> "no"]
    /\ storeFailed' = FALSE
    /\ UNCHANGED <<status, app, job, up>>

\* The panel goes down, wherever its tasks are, and comes back: memory is lost,
\* the apps are not, and recoverFromCrash runs before anything else.
PanelRestart ==
    /\ pc' = [c \in Request |-> IF pc[c] = "idle" THEN "idle" ELSE "done"]
    /\ pending' = None
    /\ rows' = [r \in Request |->
                  IF rows[r] \in {"pending", "building"} THEN "failed" ELSE rows[r]]
    /\ status' = IF status = "deploying" THEN "stopped" ELSE status
    /\ unbuilt' = [r \in Request |-> "no"]
    /\ storeFailed' = FALSE
    /\ UNCHANGED <<app, job, up>>

TaskStep(c) ==
    \/ ReadRow(c) /\ pc[c] # "idle"
    \/ ClaimWon(c) \/ Remember(c) \/ LetGo(c) \/ CreateRow(c) \/ Drain(c)
    \/ PipelineStep(c) /\ UNCHANGED pending

Enqueue(c) == At(c, "idle") /\ ReadRow(c)

StoreStep(c) == QueueFails(c) \/ (Uncaught(c) /\ UNCHANGED pending)

Init == PipelineInit /\ pending = None

Next ==
    \/ \E c \in Request : Enqueue(c) \/ TaskStep(c) \/ StoreStep(c)
    \/ PanelRestart

\* Every stage of a task is bounded by a timeout or is a statement that answers,
\* so a task that can step does.  Nobody is obliged to call, to crash or to fail.
Fairness == \A c \in Request : WF_vars(TaskStep(c))

Spec == Init /\ [][Next]_vars
FairSpec == Spec /\ Fairness

-----------------------------------------------------------------------------
(* Properties *)

\* Two deploys of the project are never under way at once: they would share a
\* checkout, a container name and a port (deploy-queue.ts, claim).
NoOverlap ==
    \A c, d \in Request : Owns(c) /\ Owns(d) => c = d

\* The status says "deploying" exactly while a task holds the claim, so a
\* project is never stuck there, short of a statement nobody can record.
ClaimIsHeld ==
    /\ \A c \in Request : Owns(c) => status = "deploying"
    /\ status = "deploying" /\ ~storeFailed => \E c \in Request : Owns(c)

\* A remembered follow-up of a project that exists has a task that will come to
\* look for it.
FollowUpHasRunner ==
    pending # None /\ status # "absent" /\ ~storeFailed =>
        \E c \in Request : Owns(c) \/ At(c, "closing")

\* What the history calls the running deployment, alone, is what is serving
\* whenever the project says it runs.
RunningIsRecorded ==
    status = "running" => {r \in Request : rows[r] = "running"} = {app}

\* A deploy ends: the status leaves "deploying" by itself.
DeployEnds == (status = "deploying") ~> (status # "deploying" \/ storeFailed)

\* A remembered follow-up is taken, not left in memory for the next push.
FollowUpTaken == (pending # None) ~> (pending = None \/ storeFailed)

\* Once nothing runs and nothing waits, no push that was answered "started" or
\* "queued" is left without a deploy that fetched after it, or a failed one.
\* deploy-queue.ts says a push during a deploy must not be silently dropped.
NoPushForgotten ==
    (/\ \A c \in Request : pc[c] \in {"idle", "done"}
     /\ pending = None
     /\ ~storeFailed)
        => \A r \in Request : unbuilt[r] = "no"

-----------------------------------------------------------------------------
(* What it implements *)

\* The request whose task holds the project.
Running == IF \E c \in Request : Owns(c) THEN job[CHOOSE c \in Request : Owns(c)] ELSE None

\* Held by a task that has not claimed, or remembered.
Fresh ==
    {r \in Request : \/ \E c \in Request : job[c] = r /\ pc[c] \in {"idle", "claiming", "reclaiming"}
                    \/ pending = r}

Slot == INSTANCE DeploySlot WITH running <- Running, waiting <- pending, fresh <- Fresh

\* One slot, one follow-up, no request deployed twice, and every deploy gives
\* the slot back: the promise of deploy-queue.ts's head comment.
ImplementsSlot == Slot!FairSpec
=============================================================================
