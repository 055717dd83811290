----------------------------- MODULE ProjectControl ----------------------------
(***************************************************************************)
(* The routes that move a project's process and status without going        *)
(* through the deploy queue: control (stop, start, restart), DELETE of the  *)
(* app and DELETE of the project, composed with DeployQueue.  Each of them  *)
(* reads the project once and acts on it several awaits later.              *)
(*                                                                         *)
(* An Op is one such request, of any of the four kinds, made at most once.   *)
(***************************************************************************)
EXTENDS DeployQueue

CONSTANT Op    \* the requests

VARIABLES
    opPc,    \* where each request is
    target   \* the deployment a restart is about to start

opVars == <<opPc, target>>
allVars == <<vars, opVars>>

OpPoints == {"new", "stopping", "restarting", "restarted", "removing", "clearing",
             "deleting", "dropping", "over"}

ControlTypeOK ==
    /\ TypeOK
    /\ opPc \in [Op -> OpPoints]
    /\ target \in [Op -> Request \union {None}]

OpAt(o, point) == opPc[o] = point
OpGoto(o, point) == opPc' = [opPc EXCEPT ![o] = point]

\* What every request leaves alone: the tasks, and what they remember.
taskVars == <<pc, job, up, unbuilt, storeFailed>>

-----------------------------------------------------------------------------
(* control/route.ts, "stop": allowed during a deploy, as the way out of one  *)
(* that hangs.  A driver that throws answers 500 and nothing is written.     *)

StopProcess(o) ==
    /\ OpAt(o, "new") /\ status # "absent"
    /\ \/ app' = None /\ OpGoto(o, "stopping")
       \/ app' = app /\ OpGoto(o, "over")
    /\ UNCHANGED <<status, rows, pending, target, taskVars>>

StopWrites(o) ==
    /\ OpAt(o, "stopping")
    /\ SetStatus("stopped")
    /\ OpGoto(o, "over")
    /\ UNCHANGED <<rows, app, pending, target, taskVars>>

-----------------------------------------------------------------------------
(* project-restart.ts: refused during a deploy, by a status read here.       *)

Restartable == {r \in Request : rows[r] \in {"running", "superseded"}}

\* The last deployment that succeeded; which one that is does not matter here.
RestartReads(o, r) ==
    /\ OpAt(o, "new")
    /\ status \notin {"absent", "deploying"}
    /\ r \in Restartable
    /\ target' = [target EXCEPT ![o] = r]
    /\ OpGoto(o, "restarting")
    /\ UNCHANGED <<status, rows, app, pending, taskVars>>

\* processManager.start, which replaces what runs under the project's name, or
\* throws and leaves the old instance, nothing, or the new one half up.
RestartStarts(o) ==
    /\ OpAt(o, "restarting")
    /\ \/ app' = target[o] /\ OpGoto(o, "restarted")
       \/ app' \in {app, None, target[o]} /\ OpGoto(o, "over")
    /\ target' = [target EXCEPT ![o] = None]
    /\ UNCHANGED <<status, rows, pending, taskVars>>

RestartWrites(o) ==
    /\ OpAt(o, "restarted")
    /\ SetStatus("running")
    /\ OpGoto(o, "over")
    /\ UNCHANGED <<rows, app, pending, target, taskVars>>

-----------------------------------------------------------------------------
(* app/route.ts, DELETE: the app goes, the project stays.  Refused during a  *)
(* deploy, by a status read before the images and the sources are removed.   *)

RemoveProcess(o) ==
    /\ OpAt(o, "new")
    /\ status \notin {"absent", "deploying"}
    /\ app' \in {None, app}
    /\ OpGoto(o, "removing")
    /\ UNCHANGED <<status, rows, pending, target, taskVars>>

RemoveWrites(o) ==
    /\ OpAt(o, "removing")
    /\ SetStatus("stopped")
    /\ OpGoto(o, "clearing")
    /\ UNCHANGED <<rows, app, pending, target, taskVars>>

RemoveClears(o) ==
    /\ OpAt(o, "clearing")
    /\ rows' = [r \in Request |-> "none"]
    /\ OpGoto(o, "over")
    /\ UNCHANGED <<status, app, pending, target, taskVars>>

-----------------------------------------------------------------------------
(* [projectId]/route.ts, DELETE: whatever the status.  clearQueuedDeploy is  *)
(* synchronous with the read that finds the project.                         *)

DeleteClears(o) ==
    /\ OpAt(o, "new") /\ status # "absent"
    /\ pending' = None
    /\ OpGoto(o, "deleting")
    /\ UNCHANGED <<status, rows, app, target, taskVars>>

DeleteProcess(o) ==
    /\ OpAt(o, "deleting")
    /\ app' \in {None, app}
    /\ OpGoto(o, "dropping")
    /\ UNCHANGED <<status, rows, pending, target, taskVars>>

\* The deployments go with the row, by foreign key.
DeleteRow(o) ==
    /\ OpAt(o, "dropping")
    /\ status' = "absent"
    /\ rows' = [r \in Request |-> "none"]
    /\ OpGoto(o, "over")
    /\ UNCHANGED <<app, pending, target, taskVars>>

-----------------------------------------------------------------------------

OpStep(o) ==
    \/ StopProcess(o) \/ StopWrites(o)
    \/ \E r \in Request : RestartReads(o, r)
    \/ RestartStarts(o) \/ RestartWrites(o)
    \/ RemoveProcess(o) \/ RemoveWrites(o) \/ RemoveClears(o)
    \/ DeleteClears(o) \/ DeleteProcess(o) \/ DeleteRow(o)

\* The requests in flight are lost with the panel, wherever they had got to.
RestartPanel ==
    /\ PanelRestart
    /\ opPc' = [o \in Op |-> IF OpAt(o, "new") THEN "new" ELSE "over"]
    /\ target' = [o \in Op |-> None]

QueueStep == \E c \in Request : Enqueue(c) \/ TaskStep(c) \/ StoreStep(c)

ControlInit ==
    /\ Init
    /\ opPc = [o \in Op |-> "new"]
    /\ target = [o \in Op |-> None]

ControlNext ==
    \/ QueueStep /\ UNCHANGED opVars
    \/ \E o \in Op : OpStep(o)
    \/ RestartPanel

ControlSpec == ControlInit /\ [][ControlNext]_allVars

\* As in DeployQueue: a task that can step does.
ControlFairSpec ==
    ControlSpec /\ \A c \in Request : WF_allVars(TaskStep(c) /\ UNCHANGED opVars)

-----------------------------------------------------------------------------
(* Properties *)

\* However the requests cut across the deploys, a project that says "deploying"
\* has a deploy under way: the last claim still has its own end to write.
NeverStuck ==
    status = "deploying" /\ ~storeFailed => \E c \in Request : Owns(c)

\* A deleted project leaves no deployment behind, and none is written for it by
\* the deploys and the restarts that were under way.
DeletedIsGone ==
    status = "absent" => \A r \in Request : rows[r] = "none"
=============================================================================
