---------------------------- MODULE DeployPipeline ----------------------------
(***************************************************************************)
(* services/deploy-pipeline.ts: what one deploy of one project does to the  *)
(* project row, to the deployment rows and to the process that serves, at   *)
(* the granularity of its awaits.                                           *)
(*                                                                         *)
(* A deploy is run by a task, the async function that owns it.  Tasks are   *)
(* named by the call of enqueueDeploy that created them, and so are the     *)
(* requests and the deployment rows: a request is run at most once, and     *)
(* its row is the one inserted for it.  How a task comes to run a request   *)
(* is DeployQueue's business.                                               *)
(***************************************************************************)

CONSTANTS
    Request,    \* the calls of enqueueDeploy: tasks, requests, deployment rows
    Rebuilds,   \* the requests whose mode is "rebuild"; the others are "deploy"
    None        \* no request

ASSUME RequestAssumption ==
    /\ Rebuilds \subseteq Request
    /\ None \notin Request

VARIABLES
    status,      \* projects.status, "absent" once the row is deleted
    rows,        \* deployments.status by request, "none" without a row
    app,         \* the request whose build is serving, or None
    pc,          \* where each task is
    job,         \* the request each task runs, or is about to run
    up,          \* what each task believes of the process: wasRunning, stillRunning
    unbuilt,     \* history: the accepted deploys whose push nothing has fetched
    storeFailed  \* history: something failed where no code can record it

pipelineVars == <<status, rows, app, pc, job, up, unbuilt, storeFailed>>

-----------------------------------------------------------------------------
(* Types *)

ProjectStatus == {"stopped", "running", "error", "deploying", "absent"}
RowStatus == {"none", "pending", "building", "running", "superseded", "failed"}

\* The points of runDeploy, in order, all but "opening" inside its try; that one is
\* what comes before the try, and the try's first statement.
TryPoints == {"opening", "preparing", "building", "compiling", "starting",
              "checking", "superseding", "publishing"}
\* The points of its catch.
CatchPoints == {"failing", "asking", "settling"}
\* A task that has won the claim and has not yet written the project's status.
OwnerPoints == {"creating"} \union TryPoints \union CatchPoints
\* "closing" is the finally and the announcement; the rest are the queue's.
TaskPoints == {"idle", "claiming", "closing", "reclaiming", "done"} \union OwnerPoints

Owns(c) == pc[c] \in OwnerPoints

\* "new": accepted since the last claim.  "old": accepted before the claim of
\* the deploy now running, whose fetch will bring it in.  "no": nothing owed.
Owed == {"no", "old", "new"}

PipelineTypeOK ==
    /\ status \in ProjectStatus
    /\ rows \in [Request -> RowStatus]
    /\ app \in Request \union {None}
    /\ pc \in [Request -> TaskPoints]
    /\ job \in [Request -> Request]
    /\ up \in [Request -> BOOLEAN]
    /\ unbuilt \in [Request -> Owed]
    /\ storeFailed \in BOOLEAN

-----------------------------------------------------------------------------
(* The statements the steps are made of.  An UPDATE by id changes nothing   *)
(* when the row is gone.                                                    *)

IsRebuild(c) == job[c] \in Rebuilds

At(c, point) == pc[c] = point
Goto(c, point) == pc' = [pc EXCEPT ![c] = point]

SetStatus(s) == status' = IF status = "absent" THEN status ELSE s

SetRow(r, s) == rows' = [rows EXCEPT ![r] = IF @ = "none" THEN @ ELSE s]

\* processManager.stop, asked for only when the task believes the app is up;
\* a stop that throws is logged and the deploy goes on.
StopApp(c) == app' \in IF up[c] THEN {None, app} ELSE {app}

-----------------------------------------------------------------------------
(* runDeploy *)

\* The deployment becomes "building".  wasRunning is the row's status at the
\* claim or, on Windows, what the driver answers.
Open(c) ==
    /\ At(c, "opening")
    /\ up' \in {up, [up EXCEPT ![c] = (app # None)]}
    /\ SetRow(job[c], "building")
    /\ Goto(c, "preparing")
    /\ UNCHANGED <<status, app, job, unbuilt, storeFailed>>

\* mode "rebuild": stop, clean, and build the files already on disk.
RebuildClean(c) ==
    /\ At(c, "preparing") /\ IsRebuild(c)
    /\ StopApp(c)
    /\ Goto(c, "building")
    /\ UNCHANGED <<status, rows, job, up, unbuilt, storeFailed>>

\* mode "deploy": pull the branch.  Every push made before this is in the tree.
FetchSource(c) ==
    /\ At(c, "preparing") /\ ~IsRebuild(c)
    /\ unbuilt' = [r \in Request |-> "no"]
    /\ Goto(c, "building")
    /\ UNCHANGED <<status, rows, app, job, up, storeFailed>>

\* Windows, in-place runtimes: the old instance cannot stay up during a build.
StopForBuild(c) ==
    /\ At(c, "building") /\ ~IsRebuild(c) /\ up[c]
    /\ StopApp(c)
    /\ Goto(c, "compiling")
    /\ UNCHANGED <<status, rows, job, up, unbuilt, storeFailed>>

\* The build and the release command succeeded: the old instance goes down,
\* unless it was stopped already.
StopPrevious(c) ==
    /\ pc[c] \in {"building", "compiling"}
    /\ IF IsRebuild(c) \/ At(c, "compiling") THEN app' = app ELSE StopApp(c)
    /\ Goto(c, "starting")
    /\ UNCHANGED <<status, rows, job, up, unbuilt, storeFailed>>

\* processManager.start replaces whatever runs under the project's name.
Start(c) ==
    /\ At(c, "starting")
    /\ app' = job[c]
    /\ Goto(c, "checking")
    /\ UNCHANGED <<status, rows, job, up, unbuilt, storeFailed>>

\* Healthy, and the post-deploy commands went well: the row is "running".
Record(c) ==
    /\ At(c, "checking")
    /\ SetRow(job[c], "running")
    /\ Goto(c, "superseding")
    /\ UNCHANGED <<status, app, job, up, unbuilt, storeFailed>>

\* Mutant: without the `id != deploymentId` of the UPDATE.
SupersedeAll(c) ==
    /\ At(c, "superseding")
    /\ rows' = [r \in Request |-> IF rows[r] = "running" THEN "superseded" ELSE rows[r]]
    /\ Goto(c, "publishing")
    /\ UNCHANGED <<status, app, job, up, unbuilt, storeFailed>>

Supersede(c) ==
    /\ At(c, "superseding")
    /\ rows' = [r \in Request |->
                  IF r # job[c] /\ rows[r] = "running" THEN "superseded" ELSE rows[r]]
    /\ Goto(c, "publishing")
    /\ UNCHANGED <<status, app, job, up, unbuilt, storeFailed>>

Publish(c) ==
    /\ At(c, "publishing")
    /\ SetStatus("running")
    /\ Goto(c, "closing")
    /\ UNCHANGED <<rows, app, job, up, unbuilt, storeFailed>>

\* Anything thrown inside the try, whose first statement is that of Open.  A start
\* that throws may leave the old instance, nothing, or the new one half up.
Throw(c) ==
    /\ pc[c] \in TryPoints
    /\ app' \in IF At(c, "starting") THEN {app, None, job[c]} ELSE {app}
    /\ Goto(c, "failing")
    /\ UNCHANGED <<status, rows, job, up, unbuilt, storeFailed>>

\* The catch: the deployment is "failed".  The operator is told, so the pushes
\* this deploy stood for are answered, if not built.
FailRow(c) ==
    /\ At(c, "failing")
    /\ SetRow(job[c], "failed")
    /\ unbuilt' = IF IsRebuild(c) THEN unbuilt
                  ELSE [r \in Request |-> IF unbuilt[r] = "old" THEN "no" ELSE unbuilt[r]]
    /\ Goto(c, "asking")
    /\ UNCHANGED <<status, app, job, up, storeFailed>>

\* What is actually up; a driver that cannot answer leaves wasRunning standing.
AskDriver(c) ==
    /\ At(c, "asking")
    /\ up' \in {up, [up EXCEPT ![c] = (app # None)]}
    /\ Goto(c, "settling")
    /\ UNCHANGED <<status, rows, app, job, unbuilt, storeFailed>>

\* Mutant: the catch ends without writing the project's status.
SettleSilent(c) ==
    /\ At(c, "settling")
    /\ Goto(c, "closing")
    /\ UNCHANGED <<status, rows, app, job, up, unbuilt, storeFailed>>

Settle(c) ==
    /\ At(c, "settling")
    /\ SetStatus(IF up[c] THEN "error" ELSE "stopped")
    /\ Goto(c, "closing")
    /\ UNCHANGED <<rows, app, job, up, unbuilt, storeFailed>>

PipelineStep(c) ==
    \/ Open(c) \/ RebuildClean(c) \/ FetchSource(c) \/ StopForBuild(c)
    \/ StopPrevious(c) \/ Start(c) \/ Record(c) \/ Supersede(c) \/ Publish(c)
    \/ Throw(c) \/ FailRow(c) \/ AskDriver(c) \/ Settle(c)

\* What no code catches: what runDeploy does before its try (it opens the store
\* and the log), and a statement of its catch that fails itself.  executeDeploy
\* logs it, and the project and the deployment keep the status they had.
Uncaught(c) ==
    /\ pc[c] \in {"opening", "failing", "settling"}
    /\ storeFailed' = TRUE
    /\ Goto(c, "closing")
    /\ UNCHANGED <<status, rows, app, job, up, unbuilt>>

PipelineInit ==
    /\ status = "stopped"
    /\ rows = [r \in Request |-> "none"]
    /\ app = None
    /\ pc = [c \in Request |-> "idle"]
    /\ job = [c \in Request |-> c]
    /\ up = [c \in Request |-> FALSE]
    /\ unbuilt = [r \in Request |-> "no"]
    /\ storeFailed = FALSE
=============================================================================
