# RunPanel: a TLA+ model of the deploy panel

RunPanel is a self-hosted deploy panel: one Node process (Next.js), a SQL store
(SQLite or Postgres), and the processes and containers it manages. This
directory holds TLA+ modules translated from its source, TLC configurations that
check them on small instances, and TLAPS proofs of what matters most for
instances of any size. Paths below are relative to the repository.

## 1. The system and its parts

| Part | State it keeps | Operations | What is hard | What makes it correct |
|---|---|---|---|---|
| Deploy queue, `services/deploy-queue.ts` | `projects.status` (as a lock), `pending`, a Map in memory | `enqueueDeploy`, `run`, `clearQueuedDeploy` | callers interleave at every await; memory is lost on a crash | deploys of a project never overlap, the lock is always given back, a push is never forgotten |
| Deploy pipeline, `services/deploy-pipeline.ts` | `deployments`, `projects.status`, the running process | one long async function with a catch and a finally | every step can throw; several statements in a row make one outcome | a deploy ends, and the history agrees with what is serving |
| One-time commands, `services/one-time-commands.ts` and its route | `one_time_commands` | claim, run a phase, release; replace the queue, clear the history | the editor and a deploy reach for the same rows; a crash loses an outcome | a command is taken by one deploy, is never lost and never called done without having run |
| Control routes, `app/api/projects/[projectId]/{control,app}/route.ts`, `route.ts`, `services/project-restart.ts` | the process, `projects.status` | stop, start, restart, remove the app, delete the project | they read the status once and act several awaits later | a project is never stuck, and nothing survives its deletion |
| Crash recovery, `lib/db/index.ts` | every row "in flight" | `recoverFromCrash` at boot | it must know every state a crash can leave | nothing waits for a task that is gone |
| Status reconciler, `services/status-reconcile.ts` | the previous sweep's observations | one sweep every 30 s | the drivers take seconds, and the row may move meanwhile | "stopped" is written after two agreeing readings, and never over somebody else's write |
| Restart scheduler, `services/restart-scheduler.ts` | `restart_next_at`, `crashed_at` | one tick every 30 s | a tick works on a snapshot while it awaits restarts | one restart for each occurrence, one attempt after a crash, no operator overridden |
| Autostart, `services/autostart/reconcile.ts` | its report | one pass after boot | runs beside Docker's own restarts | starts what was up and nothing else |
| Deploy poller, `services/deploy-poll.ts` | `poll_sha`, ETags in memory | one tick every 15 s | cache, column and queue are written apart | each new commit is deployed once, a pinned project not at all |
| Backups and restore, `services/backup/` | `backup_runs`, `restore_runs`, two flags in memory, the pause journal | scheduled and manual runs, retention, restore | flags, rows, archives and paused containers must agree after any failure | one at a time, a good backup stays good, nothing stays paused |
| Store swap, `services/backup/store-swap.ts` | files on disk | renames at boot | a crash between any two | the store that opens is one store, with its own journal |
| Panel update, `services/panel-update/` | a state file, three build directories | check, build, swap, settle at boot | the process replaces itself | there is always a build to start, or a file that says how to get one |
| Access gates, `services/access-gate.ts` | open listeners | open, close, sync | the app and the gate share a public port | a restricted port is never open without its filter, and every listener can be closed |
| Mounts and checkout moves, `services/project-mounts.ts`, `services/project-repo.ts`, `services/service-mounts.ts` | journals in the store | apply, boot reconciliation | a crash in the middle of moving data | the data is at one place or the other, and the journal says which |
| Cluster, `services/cluster/`, `lib/cluster-directory.ts` | each panel's copy of the accounts and its tombstones | edit a copy, exchange it with a member, merge by record | no lock, no common clock, lost calls, statements of an edit apart | copies become one, an edit wins over what it edited, a deletion stays one |
| Schedules, `lib/cron.ts` | none | parse an expression, the next instant in a zone | clocks are moved twice a year | each due minute is run once, and in order |
| The rest: builders, drivers, git, proxy, notifications, sessions, settings, UI | | | mostly subprocesses, remote calls, pure helpers or sequential checks | not modelled; see section 7 |

How they meet. The pipeline is started by the queue and calls the one-time
commands at each of its phases. Everything else meets it through one column:
`projects.status` is written by the queue (claim), the pipeline (its end), the
control routes, the reconciler and crash recovery, and read by all of them as
leave to go on. Requests and timers run in one process and interleave only at
awaits; nothing takes a lock other than a conditional UPDATE, a flag tested and
set without an await, or a Map in memory.

## 2. Plan

Most important first. Each line is a component module, an MC module with one or
more configurations, and, where it says so, a module of proofs.

1. `DeployPipeline`, `DeployQueue`, `DeployQueueProofs`: done.
2. `OneTimeCommands`, `OneTimeCommandsProofs`: done.
3. `ProjectControl`, which composes the control routes with 1, and
   its part of `DeployQueueProofs`: done.
4. `DeploySlot`, what the queue promises, and the proof that DeployQueue implements
   it: done.
5. `RuntimeStatus`, the sweep, the scheduled restarts and the operator over one
   project, and `RuntimeStatusProofs`: done.
6. `Backups` (who may back up and restore, the policy's claim, retention) and
   `VolumePause` (the frozen containers and their journal): done.
7. `StoreSwap` and `PanelUpdate`, which composes it with the update and the
   boot: done.
8. `DeployPoll`: done.
9. `ServiceContainer`, a service's bind list, its access and its gate: done.
10. `DirectoryMerge`, the merge of two copies as functions, `ClusterDirectory`, the
    panels that exchange them, and `ClusterDirectoryProofs`: done.
11. `CheckoutMove` and `ProjectMounts`, the two journals of a project: done.
12. `ProjectGate`, the gate of a project between those who start its app: done.
13. `Cron`, the next run of an expression, against a reference definition: done.
14. The safety of `Backups`, `VolumePause`, `PanelUpdate` and `ServiceContainer`, what
    remains of that of `OneTimeCommands` and `DeployQueue`, and that of 8 and 11 to 13
    (`ProjectPartsProofs`), as theorems: done.
15. To do: retention's choice as a function against a reference definition; the
    members and the settings of the cluster, on the pattern of 10.

The parts that share no state with each other, 8 and 11 to 13, are checked in one
run: `MCProjectParts` is their sum, and each behaviour of it moves one of them.

## 3. Modules and the code they model

### DeployPipeline

One project. `status` is `projects.status`, with "absent" for a deleted row;
`rows` is `deployments.status` by request; `app` is the request whose build is
being served. Tasks are the async functions that own a deploy, named by the call
that created them. `pc` is the point of `runDeploy` a task is at, in the order of
its awaits:

    opening -> preparing -> building (-> compiling) -> starting -> checking
            -> superseding -> publishing -> closing
    any of these -> failing -> asking -> settling -> closing

`Open` is lines 163-221, `RebuildClean` and `FetchSource` the two modes,
`StopForBuild` the stop Windows needs before a build, `StopPrevious` the build,
the release command and the stop after it, `Start`, `Record`, `Supersede` and
`Publish` the rest of the try. `Throw` is anything thrown inside the try, at
whatever point; `FailRow`, `AskDriver` and `Settle` are the catch, one action for
each of its statements; `Uncaught` is what `executeDeploy` can only log: one of
those failing, or a throw before the try, where the store and the log are opened
("opening" is that and the try's first statement, so it may end either way). `up` is what the task believes of the process
(`wasRunning`, then `stillRunning`); on Windows it is asked of the driver,
elsewhere it is the row as the claim read it.

Two variables are history and no action reads them as a guard: `unbuilt` says
which accepted pushes no deploy has fetched yet, `storeFailed` that something
failed where the code does not record it: a statement of the queue or of the catch,
or what comes before the try (finding 33).

A project is one whose source is a GitHub branch and is not pinned: FetchSource
brings in the head. An uploaded or pinned project differs in what is fetched,
which only `unbuilt` could tell.

### DeployQueue

`ReadRow` is the SELECT of `claim`, `ClaimWon`, `Remember` and `LetGo` its
conditional UPDATE with what each caller does about the answer, `CreateRow` the
insert, `Drain` the look at `pending` after the deploy (the two copies of it in
`run` and in `enqueueDeploy` do the same). `QueueFails` is a statement of the
queue that fails, `PanelRestart` a crash anywhere followed by
`recoverFromCrash`. `pending` is a Map keyed by project and projects share
nothing else, so one project is the whole of it.

`Remember` is one step: a task's busy answer and its `pending.set`. With SQLite
the driver is synchronous and the answer is handled in the microtasks that
follow, before another task can get from its last write of the status to its look
at `pending`. With Postgres the two answers may come back in either order and the
look could be first; the model does not have that.

### OneTimeCommands

`row` is the table, one row for each id; an id is inserted once. The claim is an
UPDATE and a SELECT by deployment id (`Claim`, `ReadBack`), and a deploy then
works from its own copy (`taken`), so `Mark`, `Run`, `Settle` and `PassBlank` are
the statements of `runPhase` by id alone, which match nothing once the row is
deleted. `Throw` is the rest of the deploy throwing or a statement failing, and
`Release`/`ReleaseFails` the finally. The runtime of the project can change at
any time and is chosen freely where it is read (`Claim`, `EditApply`).

`EditCheck` and `EditApply` are the PUT: its check that nothing is claimed is a
separate round trip, and its transaction carries `status = 'queued'` in every
statement, which on SQLite is atomic and on Postgres has the same outcome.
`ClearHistory`, `RemoveApp` and `RemoveProject` are the other ways a row goes;
`PanelRestart` is the crash. Nothing relies on deploys being serialised: any
number may overlap, which is what the stop route makes possible.

The history variables are `tried` and `won` (commands started, commands that
exited with 0), `interrupted` (an outcome was lost by a crash or a failed
statement) and `stranded` (claimed rows lost their way back: a release failed, or
the app was removed under a deploy and the foreign key nulled their
`deployment_id`). The code admits the second in a comment (a command whose outcome
was lost runs again), so `SucceedsOnce` excepts it; `stranded` is finding 4.

Columns the properties cannot tell apart are left out: `position` (the commands
of a phase run in any order), label, error message, commit, timestamps;
`started_at` is represented by `attempts`, written in the same statement.

### ProjectControl

Extends DeployQueue with requests that move the project without the queue. Each
is read, act, write, with the awaits between them: `StopProcess`/`StopWrites`,
`RestartReads`/`RestartStarts`/`RestartWrites`,
`RemoveProcess`/`RemoveWrites`/`RemoveClears`,
`DeleteClears`/`DeleteProcess`/`DeleteRow`. A request is of any kind and made at
most once. UPDATEs by id match nothing once the project is gone, and an insert
for it is refused by the foreign key.

### DeploySlot

What the head comment of `deploy-queue.ts` promises and nothing of how: one slot
(`running`), one place for a follow-up (`waiting`), and the requests that may
still be deployed (`fresh`), each at most once. `DeployQueue` ends with the
mapping: the slot holds the request of the task that owns the project, `waiting`
is `pending`, and a request is fresh while the task that carries it has not
claimed, or while it is remembered. A crash of the panel is `Forget`.

### RuntimeStatus

One project and everybody who has a say on whether it runs. `up` is the process,
which nobody in the panel sees directly; `status`, `crashed` and `next` are the
columns `status`, `crashed_at` and `restart_next_at`. A sweep is `SweepReads`,
`SweepAsks` (the drivers' answer, which may be missing or wrong), `SweepWrites`
(the conditional UPDATE) and `SweepEnds` (what was seen becomes the previous
reading); one sweep is under way at a time, as `reconcileStatuses` shares its
promise. A tick of the scheduler is `TickReads`, the snapshot of a target that is
due, and `TickConsiders`, the decision and the claim, after which it restarts as
an operator does (`RestartStarts`, `RestartWrites`); any number of ticks overlap.
The deploy is reduced to what it does to the row and to the process. Autostart
and Docker's own restarts are `AppChanges`. Time is counted in occurrences of the
schedule: `now` of them have passed.

History variables: `claims` counts how often each occurrence was claimed,
`attempts` the restarts "after a crash" since the sweep last marked one.

### Backups

`backup` and `restoring` are the two flags on `globalThis`, by who raised them.
`Claims` is the test and the set of the first, made with no await between;
`Inserts` to `Releases` are the statements of `startBackup` and `execute`, with
`Throws` anything that fails on the way and `Fails` the catch. Retention is
inside, as in the code: `Records` chooses, `Removes` deletes an archive, `Forgets`
its row. A tick of the scheduler reads all policies and considers them one after
the other, awaiting the backups it starts; the claim that moves `next_run_at` and
the look at the flag are one step, as the answer to the UPDATE and the call that
follows it are one turn of the event loop. A restore is `RestoreAsked` (the
route, which looks at the backup flag), `RestoreStarts` (which does not),
`CopiesFirst` or `SkipsCopy`, `Writes`, `RestoreEnds`. What a run copies and a
restore writes is one step each.

### VolumePause

`exportVolume` over the volumes of one backup: `PlanPause` writes the journal and
begins the loop of `Pause`, `Copying` and `CopyOver` are the copy, `Thaw` and
`Release` the finally; `Resume` and `PassEnds` are `resumeAbandonedPauses`, run at
boot and before each backup. `panelAt` is the point the panel is at. A docker call
that fails may have had its effect. The history variable `lost` holds the containers
the code drops on purpose when docker answers neither the unpause nor the inspection
after it (finding 8).

### StoreSwap and PanelUpdate

StoreSwap has the files of the panel's store by content: `store`, whose `journal`
lies beside it, the `pending` file of a restore, its `marker`, and what was set
`kept` aside. Each rename of `applyPendingStoreRestore` is an action, `SwapFails`
one that throws, and `OpensStore` is SQLite creating a store where there is none.

PanelUpdate extends it with the three build directories, the checkout,
`node_modules`, the state file and the process: `Press` to `Announces` are
`startPanelUpdate` and `execute`, `Undoes`, `Reinstalls` and `UndoFails` are
`rollbackSource`, `Exits` and `Cleans` the two timers, and a boot is `Boots`, the
swap of the store, `Settles`, `ComesUp`, in the order of `instrumentation.ts`. The
two synchronous renames run with nothing in between but a death. Versions are
numbers.

Assumed: writing the state file succeeds, and so does the rename that puts the
old build back; installing and building take longer than the second and the
minute of the two timers; a panel that does not come up is put back with the
commands it left (`PutBack`). That the minute is longer than opening the store is
not assumed, as it is counted from before that: `Cleans` may come first, and the
history variable `early` says that it did, until the panel is up (finding 32). A
reset goes to origin's branch as it is then (`Resets`), which an update check may
have fetched since the run did.

### DeployPoll

One project. `pollSha` and `pinned` are columns, `etag` is the map in memory, by
the commit it was given for. A tick is `TickReads` (the row it will use), `Asks`
(what GitHub is asked and answers), `Hears` (the ETag is kept), `Stores` or
`StoresNothing`, `Queues`; a request that turns polling on is `Follow` and the
same question, ending in `Primes`. `Pin`, `Release`, `Unfollow` and `SwitchBranch`
are the requests that change what is followed. Commits are numbered in the order
they come to be the head; a deploy is what the queue is asked for.

### ServiceContainer

A service: its row, its container (`box`), what each place holds (the set of the
engine's writes), the journal of an application, and the gate. `ApplyAsked`
to `GivesUp` are `applyMounts` and `runApply` with the rollback, `PatchAsked` to
`Syncs` the change of access, both over the same `Removes` and `Runs` of
`recreateService`, in which the container does not exist between the two. `Runs`
needs the container's name, and is refused (`RunFails`) where another request has
run one in between; a service that was stopped is started for a moment and stopped
again, and stays up if that stop fails. `Boots`,
`Rebuilds` and `Gates` are the boot. Nothing keeps two requests apart but
`inFlight`, tested long before it is set.
The module is checked as it is, with no MC module: its constants are all model
values and numbers.

The properties except what the code does not guard against, by name and not by
leaving it out: `history` records that requests crossed, that somebody started the
service during a copy, that a change of access was cut between the container and
the row, and so on. Each of those is a state the model reaches; findings 16 and 18
are two of them. `crossed` is two applications at once (finding 26): the second may
be given the folder the first is filling, and its copy covers what the engine has
written there since, so `NothingErased` excepts it. The run has one application,
which never crosses itself; the theorem has any number.

### DirectoryMerge and ClusterDirectory

DirectoryMerge is `lib/cluster-directory.ts` for one id: a row is the time of its
last edit and its content, an entry a row and its tombstone. ClusterDirectory has
a copy of the accounts at each panel. An operator's request is in steps where the
code has statements: an edit writes its row (`EditWrites`), reads the stamp
(`TouchReads`) and writes a later one (`TouchWrites`); a deletion removes the row
(`Deletes`) and notes it (`Buries`). An exchange is the syncing panel sending its
copy (`Sends`), the other reading its own and merging (`Plans`), its transaction
(`Answers`), and the first doing the same with the answer (`Folds`, `Applies`).
`Refused` is the unique index on the address, met row by row. `Loses` loses a call
or its answer, `Dies` a panel with whatever it was doing. Clocks are apart and
only move forward.

One exchange of an ordered pair is under way at a time. The code's tick and its
broadcast may each have one toward the same member (`sync.ts:78-139`); what a
second does is what the pair's other direction, or an edit, does to the first: it
moves the copy between the read and the transaction, which is `crossed`.

`crossed` says that a statement wrote over a row which had moved since the
statement it counts on: the read before a transaction, the two halves of an edit
or a deletion. What holds only without that says so by name; findings 19 to 22
are the crossings themselves.

### CheckoutMove

A native project's checkout on its way to another disk. A directory is the set of
the writes made to it, so that a copy is an assignment, a copy that stopped half
way is a `torn` place, and lost data is a write in no whole place. `Asks` and
`Journals` are `startRepoMove`; `Stops` to `Closes` are the steps of `runMove` in
its order, `Throws` and `Misses` what fails in them, `Undoes` to `Fails` its catch,
and `UndoFails` what fails there: what takes the link's place may be gone before the
link is back (`HomeHalfUndone`). `Discards` and `Notes` are
`deletePreviousCheckout`. The app writes where it was started, an operator starts
and stops it, a deploy fetches where home leads. Two moves that were both accepted
(finding 26) are in the model and told apart by `overlapped`; `safe` are the writes
that were made where home led while no move was copying; `cut` says that a move
ended without its last statement or was not undone whole (finding 23).

### ProjectMounts

The bind list of a project in a container, as one bind that is there or not. What
matters is who reads which copy of it: `stored` is `builder_config`, `deployed` the
`resolved_contract` a restart goes by, `building` what the deploy under way read,
`box` what the container runs with, `shown` what an open settings form may send
back. `folder` is the directory on the host: a copy that stopped half way leaves it
in part. `Asks` is `applyProjectMounts`, the steps to `Closes` are `runApply`, those
from `Throws` on its rollback. `adopted` says that the operator took a directory
with something in it as it was, which the route asks about.

### ProjectGate

The public port of a project, between its app and the panel's filter. A restart or
start (`RestartReads` to `Sets`), a deploy, a change of the access columns and a
deletion each read the row once and go on by what they read, over awaits in which
the others move. `CloseGate` takes the gate out of the map and frees the port at
once, while its promise waits for the connections it had (`Free`). A gate being
opened is in nobody's map until it listens (`Listens`, `Sets`), so two openings can
both go ahead and one of them is `Refused`. `stale` says that the row moved under
somebody who had read it, `unapplied` that a change which was written, or a gate
which was wanted, did not come about; the code reports the second and retries
neither.

### Cron

`lib/cron.ts` as operators: `ParseCron` the sets of an expression's five fields,
`WallTime` and `OffsetAt` the clock of a zone that is moved once, `WallToInstant`
the search for an instant, with its halving (`Narrow`) where the clock skips the
time, and `NextAfter` the loop over days, hours and minutes, as a least element.
`Reached` is the reference: the first instant at which the clock shows a time or is
past it. A state is a question, asked at any time (`Passes`) or of the last answer
(`Occurs`, as in `nextOccurrences` and in the schedulers). Hours, days, weeks,
months and years are constants, so that all of an expression's fields matter within
a dozen days. That a field has values of its range, as `parseValue` refuses others, and
that an offset is less than a day, are assumptions on the expressions and the zones.

## 4. Runs

All runs pass unless the table says otherwise; sizes are distinct states.

| Run | Instance | Checks | Size |
|---|---|---|---|
| `deploy_queue` | 3 calls, one a rebuild; any crashes, any failing statement | see below | 117,319 |
| `follow_up_dropped` | 3 pushes | `NoPushForgotten`, violated | - |
| `one_time_commands` | 2 commands, 2 overlapping deploys, 2 phases of which one is the build's | see below | 1,125,364 |
| `project_control` | 2 deploys, 2 control requests of any kind | see below | 698,885 |
| `deploy_overlap` | 2 deploys, 1 control request | `NoOverlap`, violated | - |
| `runtime_status` | 2 overlapping ticks, 1 operator, 2 occurrences, 1 fault | see below | 1,730,472 |
| `volume_pause` | 2 volumes, 2 containers of which one writes to both, 3 faults | see below | 10,427 |
| `backups` | 1 policy over 3 occurrences, 1 tick, 1 manual run, 2 restores, 3 runs, 1 fault | see below | 1,654,606 |
| `panel_update` | 2 commits, 2 restores of the store, 2 faults | see below | 305,581 |
| `service_container` | 1 application, 1 change of access, 1 folder, 3 requests, 2 writes, 2 faults | see below | 4,157,358 |
| `cluster_directory` | 2 panels, 2 accounts, 2 addresses, clocks to 2, 2 edits, 1 fault | see below | 372,891 |
| `project_parts` | 2 moves of a checkout, 2 places, 1 write, 1 fault; or 2 applications, 1 save, 2 faults; or 1 tick, 1 request that primes, 3 commits, 3 changes, 2 faults; or 1 restart, 1 deploy, 1 change of access, 1 deletion, 1 fault; or 20 expressions in 48 zones | see below | 2,223,811 |

A fault is a call or a statement that fails, an answer that is wrong, or a death
of the panel.

`deploy_queue` shows that deploys never overlap (`NoOverlap`) as long as only the
queue and the pipeline write the status; that the status says "deploying" exactly
while some task holds the claim (`ClaimIsHeld`); that a remembered follow-up has somebody coming for it (`FollowUpHasRunner`) and is
taken (`FollowUpTaken`); that whenever the project says it runs, the one
deployment called "running" is what is serving (`RunningIsRecorded`, which is of the
queue and the pipeline alone: the sweep, the restarts and the other writers of the
status are not composed with it); and that all of it
implements DeploySlot, liveness included (`ImplementsSlot`): whatever goes wrong,
a deploy that took the slot gives it back. Three calls is
where the interesting cases begin: one deploys, one is its follow-up, and a third
claims between the two. The rebuild is there because its pipeline stops the app
elsewhere and fetches nothing. A call is made once, so the number of requests
bounds the run; crashes and failures are not bounded.

`one_time_commands` shows that a command is in the hands of one deploy at most,
claimed and with the text that deploy read (`HandedToOne`); that claimed rows
belong to a live deploy (`ClaimedIsHeld`); that a deploy which passed all its
phases consumed what it took (`FinishedIsClean`); that a row whose command was
started says so through crashes and edits (`AttemptsAreCounted`); that a command
which exited with 0 is not waiting to run again (`SucceedsOnce`); and that history
is immutable (`HistoryIsFinal`).
Two deploys and two commands are what it takes for one deploy to reach for the
other's row, and for the editor to keep one row and drop the other. Two phases
are enough for a first phase, where the checkout may be missing, and a build
phase that container runtimes do not have; the code's other six behave as one of
the two or as neither.

`project_control` shows what is left of the queue's guarantees when the control
routes cut across it: a project is not left "deploying" with nobody to end it
(`NeverStuck`, `DeployEnds`), and nothing is recorded for a deleted project
(`DeletedIsGone`). That deploys do not overlap is not among
them: see `deploy_overlap`.

`runtime_status` shows that an occurrence of the schedule is claimed once however
ticks overlap (`OncePerOccurrence`); that a project that went down by itself gets
one attempt until it is seen down again (`OneAttemptPerCrash`), which takes two
occurrences to go wrong; that "running" never carries a crash marker
(`RunningHasNoMarker`), which would turn a later failed deploy into a "crash" that
the schedule restarts; that no sweep writes over a deploy or the error one ended
with (`SweepLeavesDeploysAlone`); and that the status comes back to the truth over
and over, whatever the app, the operator and one fault do (`StatusCatchesUp`).
Two ticks hold different snapshots of the same occurrence, or of two.

`volume_pause` shows that a frozen container is in the journal wherever the panel
is (`PausedIsJournaled`) and thaws in the end (`FrozenThaws`), but for `lost`. Two
volumes that share a writer is what it takes for the second pause to find the
first one's leftovers; three faults are a pause, an unpause and a death.

`backups` shows that a restore with its safety copy writes alone
(`SafeRestoreWritesAlone`); that a flag is up exactly while its owner works
(`FlagsAreHeld`), on every failing path, so that two backups are never under way;
and that
the newest good run of a policy keeps its archive (`LastArchiveKept`), also when
retention fails and its own run becomes a failed one. Three runs are a kept one, a
collected one and the one under way.

`panel_update` shows that the build which last came up, and the store last open,
are always somewhere they can be put back from (but for `early`), and that a swap which was not cut
short leaves no foreign journal beside a store (`NothingLost`); that a refused run
restores the checkout and `node_modules` (`RefusalUndone`); and that no run stays
"running" if the panel keeps coming up (`RunSettles`). Two commits make an update
over an update; two faults are a failure and a death in its aftermath.

`service_container` shows that no write of the engine is erased, through failures
at every step and rollbacks of them (`NothingErased`); that a running service has
all its data (`DataFollows`); that a restricted service does not publish its port
(`RestrictedIsHidden`), through recreations, rollbacks and boots; and that it has
its container in the end (`ServiceStands`).

`cluster_directory` shows that no statement takes a copy back to an older row or
brings in an account from before its tombstone (`Forward`), but where a row was
written between two statements that count on it; and that the copies become the
same when the edits end (`Converges`), unless two accounts hold one address:
whatever was lost on the way, the hash of the next ping tells. Two edits are an
edit and the one that meets it: a deletion, a claim on its address, an edit of the
same row elsewhere. A third panel adds no kind of crossing, as exchanges are of
two; what three copies come to is `MergeAssociates`.

`project_parts` shows five things that have nothing to do with each other.
- Of a move: a write is in some whole copy wherever the move is, through failures
  of its steps and of its rollback and deaths of the panel (`NothingErased`), and
  home leads to a whole copy with the safe writes when no move is under way
  (`HomeLeads`). Two moves are one over what another left aside; two places
  outside make a move from one to the other.
- Of a bind list: neither an application, its rollback, a form saved late, a restart
  nor a deploy gives a container a directory that was not filled from it
  (`BoundIsSeeded`). Two faults are a copy that stops half way and a rollback that
  fails, or an application after one that was cut.
- Of the poller: no commit is deployed twice on its account as long as checks do
  not overlap (`OneAttemptPerCommit`): a check holds what it read while pins,
  releases and changes of branch move the row, and a failed UPDATE leaves what was
  recorded behind. The run has one tick; with overlapping ones a commit is deployed
  twice (finding 15), which the property excepts by `crossed`.
- Of the gate: between two requests the port is held by whom the row says, the app
  or the gate with the app behind it (`PortMatchesRow`), unless `stale` or
  `unapplied`. With two restarts beside a change of access, or two changes beside a
  restart, it holds as well. One list of addresses is enough for who holds the
  port; which list is in force is finding 28.
- Of the schedules: the next run is the first that is due after the instant asked
  about (`NextIsNext`): over a change of the clock none is skipped, repeated or
  answered after a later one. Clocks are moved forward and back, by half
  an hour, an hour and a whole day, at any time of a day; with 96 expressions in 240
  zones it holds as well.

A type invariant says little. Those of the modules are part of proved invariants
(section 6) and not among the runs' properties.

Further configurations, which are not runs, each reproduce one finding of section 5
with one property that the code violates: `MCNextPushSkipped` (module DeployPoll,
finding 14), `MCAddressMoved`, `MCTombstoneIgnored`, `MCDeletionUndone`,
`MCEditReverted` (MCClusterDirectory, 19 to 22), `MCUndoneIsBack` (CheckoutMove,
23), `MCAppliedIsInForce`, `MCEditsKept` (ProjectMounts, 24 and 25),
`MCRulesInForce`, `MCRestartWaits`, `MCGateOutlivesProject` (ProjectGate, 28 to 30).

Deadlock is checked except where bounded counters stop everything (`backups`,
`service_container`, `cluster_directory`, `project_parts`). A crash is mostly
possible, so the check says little; progress is what the liveness properties say.

Fairness. Only the panel's own steps are fair. A deploy's task (`WF` of each
task's own steps): a build, a release command, a one-time command and a health
check each have a timeout, and a statement answers or fails. The sweep
(`WF_sweep(SweepStep)`; every such step moves `sweep`): a timer fires every thirty
seconds and the drivers' calls have timeouts. The pause (`WF` of the panel's step
in VolumePause): docker calls have timeouts, systemd brings the panel back, and a
policy starts the next backup. The exchanges (`WF` of each pair's step): calls have
a timeout, and the poller comes back every minute to every member whose hash
differs. The update (`WF` of the run, of the exit timer and
of the cleanup timer). That the panel keeps coming up is a premise of `RunSettles`
and not assumed. Nobody is obliged to call, the panel need not crash, and no store
need fail; a liveness property that a failed statement breaks says so
(`storeFailed`). The other runs assume no fairness.

## 5. What the code does that it says it does not

1. A push can be forgotten (`follow_up_dropped`). When a deploy has written its
   end, its task still sweeps images, releases commands and announces before it
   looks at `pending`. Another call can claim the project in that window. A push
   arriving during that second deploy is remembered, the first task takes it,
   finds the project busy and drops it. `deploy-queue.ts:11-15` says a push is
   not silently dropped.
2. A rebuild replaces a remembered push and fetches nothing, though
   `deploy-queue.ts:110` gives "the follow-up will fetch the latest commit anyway"
   as the reason for replacing. `unbuilt` keeps the push "new" then; the run of
   finding 1 leaves rebuilds out so that it shows the first and not this.
3. Two deploys can overlap (`deploy_overlap`). Stop is allowed during a deploy
   and writes "stopped" while the deploy goes on; restart and removal of the app
   write the status long after they checked it. `deploy-queue.ts:9` says two
   deploys "must never overlap".
4. Removing the app deletes the deployments; a deploy whose commands are claimed
   at that moment cannot release them by deployment id, and they stay claimed
   until the panel restarts (`stranded`).
5. Deleting a project during a deploy does not stop the deploy, which starts the
   app of a project that is gone. `ProjectControl` has it: `app` may be set while
   `status` is "absent".

6. The sweep compares only the status when it writes, so a project seen down and
   restarted or deployed meanwhile, "running" again, is written "stopped" with a
   crash marker (`status-reconcile.ts:153`; the comment at :149 says "Only if
   nothing has moved the row since it was read"). The next sweep undoes it.
7. A tick decides on a status read before the restarts it awaited, and starts a
   project its operator stopped meanwhile (`restart-scheduler.ts:196`;
   `lib/scheduled-restart.ts:8` says a schedule does not override an operator).
8. A container that docker will neither unpause nor describe is dropped from the
   pause journal while frozen (`pause-journal.ts:89`, `volume-ops.ts:799`;
   `pause-journal.ts:70` says the file is kept while Docker cannot be asked).
   VolumePause has it as `lost`.
9. A restore without its safety copy may write while a backup reads
   (`app/api/backups/restore/route.ts:43`; `runner.ts:115` says only the safety
   copy may run alongside it).
10. A policy whose occurrences coincide with another's can be refused as busy at
    every one of them, having moved its `next_run_at` each time
    (`backup/scheduler.ts:161-168`).
11. After an update interrupted past its reset, the next one compares origin with
    the moved checkout and ends "done" over the old build (`run.ts:320`).
12. A death between the second rename and the next write of the state file brings
    the new build up and reports that the old one is serving (`state.ts:130`).
13. A store swap cut short before its last rename leaves no store, and the boot
    that follows creates an empty one and works on it (`store-swap.ts:39-48`,
    against its comment at :56); cut between the database and its sidecars, it
    leaves the old WAL beside the restored file, which :40-42 says must not be.
    `cut` is how `OwnJournal` excepts it.
14. Releasing a pin clears `poll_sha` and keeps the ETag, so the first look is
    "not modified", records nothing, and the next push is recorded instead of
    deployed (`MCNextPushSkipped`). `pin/route.ts:61` says nulling the column is
    enough.
15. The ETag is kept before `poll_sha` is stored: a failed UPDATE loses the commit
    (`deploy-poll.ts:199`). Two overlapping ticks queue the same commit twice.
16. A panel that dies between running a container on its new list and writing
    `mounts` comes back with a row that does not describe the container, and the
    next recreation goes back to the older data (`service-mounts.ts:578`).
17. Boot reconciles the journals of services' mounts and not those of projects or
    of checkout moves: one cut short refuses every later one
    (`project-mounts.ts:129`, `project-repo.ts:177`).
18. Opening a restricted service recreates its container before it writes the
    row; a write that fails leaves a published port under a row that says
    restricted, and restricting it again changes nothing
    (`app/api/services/[serviceId]/route.ts:323`).
19. Two panels' copies may stay apart for good (`MCAddressMoved`): rows are upserted
    one by one, by id, under a unique index on the address, so an address given up
    by one account and taken by one with a smaller id is refused at every exchange
    where the first half is not known yet. `lib/cluster-directory.ts:5-6` says
    copies converge.
20. A merge planned before a deletion and committed between its two statements
    puts the row back beside its tombstone, and panels that agree on that never
    look again (`MCTombstoneIgnored`; `lib/cluster-directory.ts:8`).
21. A deletion is stamped with the local clock as it is, and loses to a row stamped
    ahead of it (`MCDeletionUndone`; `lib/users.ts:255`).
22. An edit taken back by a merge between its row and its stamp is stamped as it
    was: the old content becomes the newest version (`MCEditReverted`;
    `lib/users.ts:43`).

23. A move from one place outside to another removes what was aside and the link; if
    it then fails, its rollback finds nothing to put back at home, and home leads
    nowhere while the log says "Il progetto è di nuovo com'era."
    (`project-repo.ts:366`; `MCUndoneIsBack`).
24. An application of a bind list restarts the project from the contract its last
    deployment recorded and not from the row it has just written, so the new list is
    in force from the next deploy only (`project-mounts.ts:263`, against its comment
    at :260; `MCAppliedIsInForce`).
25. An application writes the whole contract it read minutes before: settings saved
    meanwhile are taken back, a partial contract is stored with its defaults filled
    in, and a form opened before and saved after takes the list back
    (`project-mounts.ts:231`, against `mounts/route.ts:19`; `MCEditsKept`).
26. `inFlight` is set after the last of several awaits: two requests that come
    together are both accepted (`project-mounts.ts:189`, `project-repo.ts:228`,
    `service-mounts.ts:362` and `:473`). With two applications to one service,
    TLC finds a write the engine took that is in no place any more: `MCServiceContainer.cfg`
    with a second member of `Apply`, and `NothingErased` without its premise.
27. Nothing keeps a start or a deploy out of a move; what the app writes in the
    directory being set aside is in no copy home leads to
    (`project-repo.ts:287`, against :281).
28. Changing only the list of a restricted project calls neither a restart nor
    `syncGate`: the gate keeps the list it had until the next start, deploy or boot
    (`app/api/projects/[projectId]/route.ts:322`; `docs/en/network.md:21`;
    `MCRulesInForce`).
29. `closeGate` waits for the connections the gate has accepted, and a restart and a
    deletion await it before they stop the app: they last for as long as a client
    stays connected (`access-gate.ts:228`; `MCRestartWaits`).
30. A restart under way while its project is deleted opens the gate again, for a
    project that is gone (`app/api/projects/[projectId]/route.ts:468`, against the
    comment at :465; `MCGateOutlivesProject`).
31. A change of mode made during a deploy, or after a failed one that left the app
    up, is written and not applied: the route takes "not running" in the row for an
    app that is down (`app/api/projects/[projectId]/route.ts:340`).
32. The previous build is removed a minute after the update was settled, which the
    boot does before it opens the store: a boot longer than that, in migrations, that
    then fails has nothing to go back to (`instrumentation.ts:39`, against
    `panel-update/state.ts:165`). PanelUpdate has it as `early`.
33. The log of a deploy is opened before the try: a disk that refuses its directory
    leaves the project "deploying" until the panel restarts, with a store that works
    (`deploy-pipeline.ts:161`, against its comment at :93).

Four of the hazards PROJECT.json lists have no property, as the code does what they
warn of and no property could say that it does not: findings 7, 10, 14 with 15, and
21. The
modules have the steps, so each state is reachable in them. Ten others (`storeFailed`,
`stranded`, `crossed`, `cut`, `strayed`, `overlap`, two accounts with one
address) have properties that except the very step by the name of what happened, and
say what remains true beside it; their notes in PROJECT.json say which.

## 6. What is proved

TLAPS proves the following for any finite or infinite set of requests, commands,
control requests, ticks and operators, policies, volumes, containers, folders, moves
and places, expressions and zones, any number of phases, occurrences, versions, commits,
writes and faults, any mix of modes. The only assumptions are the named ones of the modules
(`RequestAssumption`, `CommandAssumption`, `RuntimeAssumption`, `ClusterAssumption`,
`BackupsAssumption`, `PauseAssumption`, `BoundAssumption`, `VersionAssumption`,
`ServiceAssumption`, `PartsAssumption`): `None` is none of the others, there is at
least one phase, the first phase is not one of the build's, bounds are naturals,
actors of different kinds are different (ticks, operators, manual runs, restores;
applications and changes of access; ticks and requests that follow a branch), a
volume has a set of writers, an engine's volume is not a folder, a place outside is
neither home nor aside, an expression's hours and minutes are in range, as `parseValue`
sees to, and a zone's offsets are less than a day. TLC evaluates them in the runs. Each invariant below was
checked by TLC on the run of its module before it was proved.

- `DeployQueueProofs`, of DeployQueue, DeploySlot and ProjectControl.
  - The queue. `DeployInv` is `TypeOK`, `NoOverlap`, `ClaimIsHeld` and
    `FollowUpHasRunner` together. NoOverlap is not inductive alone: a second claim
    fails because the status is "deploying", and it is so because no other owner
    was there to write it. Each step of a task is one of four kinds, with a lemma
    each: an owner moves on (`OwnerMoves`), an owner writes the status and closes
    (`OwnerCloses`), a task that owns nothing moves (`BystanderMoves`), and the
    claim itself, treated in `InvStep`. Theorems `TypeCorrect`, `InvCorrect`,
    `DeploysNeverOverlap`, `ClaimAlwaysHeld`, `FollowUpsHaveRunners`.
  - What serves. `RecordInv` adds what a deploy has put in place at each point of its
    way (`InPlace`): its row, then its app, then the only "running" row. It is kept
    because the deploy is alone (DeployInv), so nobody else writes either. Theorem
    `RunningDeployRecorded`.
  - The slot. `QueueIsASlot`: DeployQueue implements DeploySlot's safety part,
    `Slot!Spec`. DeployInv is not enough, as it speaks of who holds the claim and not
    of which request a task carries. `JobsApart` adds that no two tasks that are
    deploying, or may still come to, carry the same request, and that the remembered
    request is in nobody's hands; with DeployInv it is inductive (`JobsStep`,
    `JobsStayApart`). `SlotStep` then maps each action to a step of the slot or to a
    stutter, with lemmas on how the slot and the fresh requests move (`RunningKept`,
    `FreshKept`, `FreshLeaves`).
  - The control routes. `ControlInv` is `ControlTypeOK`, `NeverStuck`,
    `FollowUpHasRunner` and `DeletedIsGone`: what survives of DeployInv without
    NoOverlap. A task's step is summed up by `MovesOfOne` (whose owner's point
    moves, and when it may stop being one); a control request never writes
    "deploying" and never moves a task (`OpKeeps`). Theorems `ControlCorrect`,
    `ProjectsNeverStuck`, `DeletedProjectsGone`.
- `OneTimeCommandsProofs`. `CommandInv` adds to `HandedToOne` and `ClaimedIsHeld`
  that a deploy running a command still has its row (`CurIsHeld`). Without it the
  UPDATEs by id of `runPhase` could rewrite a row that has since been given to
  another deploy. The lemmas split the invariant: `UpdateOne` for a statement on
  one row, `HandedStep` and `ClaimedStep` for the two conjuncts over every action.
  Theorems `CommandTypes`, `CommandsHandedToOne`, `ClaimedRowsHeld`.

  `HistoryInv` is CommandInv with the past of the rows. That a step makes of a row one
  of four things (`RowLife`) gives the finality of history and that attempts are
  counted. That a command which exited with 0 is not queued again needs the deploy
  between its exit and its UPDATE (`WonIsKept`). That a finished deploy left nothing
  needs two facts about rows it has not come to yet: each is of a phase its runtime
  has (`HeldIsRunnable`) and is ahead of it (`InTurn`). Theorems `HistoryCorrect`,
  `CommandsCounted`, `CommandsSucceedOnce`, `FinishedDeploysClean` and, for the action
  property, `CommandHistoryFinal`.
- `RuntimeStatusProofs`. `RuntimeInv` strengthens the properties by three facts:
  what a tick holds is an occurrence that had passed when it looked and that
  `restart_next_at` has not gone back before (`HeldIsPast`); nothing from
  `restart_next_at` on has been claimed (`ClaimsAreBehind`); once the attempt is
  spent the marker is off, and a tick that still holds a crash holds an occurrence
  that is behind, so it cannot win (`SpentAttempt`). `TypeStep`, `ScheduleStep` and
  `RowStep` take the invariant in three parts. Theorems `RuntimeCorrect`,
  `OccurrencesClaimedOnce`, `CrashesTriedOnce`, `RunningIsUnmarked` and, for the
  action property, `DeploysSurviveTheSweep`.

- `ClusterDirectoryProofs`. Of the merge: `MergeCommutes` (both sides of an exchange
  come to the same), `MergeAssociates` (three panels, whoever hears first),
  `MergeSettles` (a merge leaves nothing to merge), `RoundTripConverges`. Of the
  panels: `CopiesMoveForward`, which is `Forward`. A transaction writes over a row
  only what it planned against that very row, or `crossed` is up; so the invariant,
  `ClusterInv`, has the types of copies, clocks, requests and messages, and says of a
  plan that it is the merge of its base with something, of a stamp that it was
  computed from the version it was read with, and of an account nobody has made yet
  that it is in no copy.

- `BackupsProofs`. The flags are inductive once the points of the actors are typed.
  That a restore writes alone needs what its safety copy leaves behind: nobody has
  raised the other flag since (`WritesAlone`). That the last archive is kept rests on
  four facts together: a backup works on the last run there is, which is stored
  before retention begins (`LastRun`); what retention has chosen is older than that
  run and of its policy (`DoomedAreOlder`); so whatever is removed has something newer
  that is stored (`NewerIsStored`); and the greatest element of a finite set of runs
  exists, which `MaxIsMax` proves from the well-foundedness of the naturals. Theorems
  `BackupsCorrect`, `BackupFlagsHeld`, `SafeRestoresAlone`, `LastArchivesKept`.



  What a backup freezes, VolumePause, has its proofs in the same module. The file is
  rewritten from the result of a loop twice, and what makes that safe is about the
  loop: during a pass what is frozen is ahead of it or kept by it (`PassCovers`),
  during a backup what it freezes is already in the file (`PlanIsWritten`), and what
  it drops is thawed or `lost` (`ReleasedIsThawed`). Theorems `PausesCorrect`,
  `FrozenIsWritten`.
- `PanelUpdateProofs`. `UpdateInv` has a part for each of the three things that can be
  lost. The store: a swap has moved it away by the time it puts another there, and
  whose journal lies beside it (`StoreInPlace`). The build: the one that came up is
  .next, but from a run's swap of the directories to the exit it announces, and
  neither timer nor another run comes in between (`WaysBack`, `Asleep`); the cleanup
  that overtakes a boot has set `early`. The sources:
  but for a run that installs or undoes, the modules are those of the checkout, and a
  run remembers where it began (`RunLeadsBack`). Theorems `UpdatesCorrect`,
  `UpdateLosesNothing`, `RefusalsAreUndone`.
- `ServiceContainerProofs`. A step is a request's, a new request, or nobody's
  (`WhoSteps`), and while requests do not cross the others are idle before and after
  it (`StepsAlone`). `ServiceInv` has, beside the types and where a request of each
  kind may be (`JobsFit`), one part for each property:
  - no write is erased because the folder being filled is empty until its copy is
    whole, and nobody else has it or reads it in the row (`FolderIsFree`), which in
    turn needs that whatever a container is run on has something in it
    (`FilledPlaces`: an application only fills a folder that has not);
  - the container runs on all the data because the data is where the row says, and so
    is the container, but between the run on the new place and the row's UPDATE
    (`DataInPlace`, with what an application counts on at each point, `DataOf`);
  - a restricted service is not opened because container and row say the same of the
    access but between the two steps of a change of it (`AccessInPlace`);
  - the container is there in the end because whoever removed it is about to make it,
    or the journal says "applying" and a boot is due (`Stands`).

  Theorems `ServicesCorrect`, `ServiceKeepsWrites`, `ServiceDataFollows`,
  `RestrictedStaysHidden`, `ServiceKeepsContainer`. The proof of the first found that
  its property was false for two applications (`crossed`, section 3).
- `ProjectPartsProofs`, of the moves, the binds, the poller, the gate and the schedules.
  But for the schedules', each property is about what is at rest, and holds because of
  what is on its way there; so each invariant speaks of the requests under way. A behaviour of MCProjectParts moves one
  part, so the invariant of the sum (`PartsInv`) is that of the part that moves, and
  `PartsStep` takes a step of it to a step of its module.
  - Of the poller (`PollInv`): whatever a check may yet compare with a new head, the
    commit recorded, the one read and the one answered, is not behind any commit that
    was deployed, and a commit to be deployed is ahead of the one read
    (`BehindTheLook`). Theorem `CommitsDeployedOnce`.
  - Of the binds (`MountsInv`): a bind that is anywhere it can come back from, be it
    the contract, the copies a restart, a deploy and a form hold or what an application
    would put back, is over a filled directory (`BindsAreSeeded`), since an application
    fills the one it found empty before it lists the bind (`SeedsBeforeListing`).
    Theorem `BindsCoverNothing`.
  - Of the gate (`GateInv`): while the port is not held by whom the row says, a request
    that will see to it is under way (`HeldOrDue`), and it goes by the row there is
    (`GoesByTheRow`); two requests never open the gate together (`OneOpens`). Theorem
    `PortHeldAsTheRowSays`.
  - Of a checkout (`MoveInv`): a whole copy where home leads has every safe write, and
    unless it is whole one outside has them (`HomeIsTrusted`). A step of a move keeps
    that by what the move knows: the place it would go back to is trusted
    (`WayBack`), and what it has copied is by the time home turns to it (`HowFar`); and
    nobody deletes the copy left aside meanwhile, as the journal does not name it
    (`LeftIsNoted`). Theorem `SafeWritesKept`, for every way a move can be cut short.
    While none was, what a move comes from stays whole until home leads to a whole
    copy again, there or back (`WholeAllAlong`). Theorem `HomeLeadsHome`.
  - Of the schedules (`SchedulesInv`, only types): the clock has first come to a time at
    `First`, one of three cases. The code's search finds that instant
    (`WallToInstantIsFirst`), and so does the reference (`ReachedIsFirst`); a later time
    is reached no sooner (`FirstIsMonotone`), so the least time due is the first
    instant due; and the days before today, which the code does not look at, have
    nothing due any more (`NextIsFirst`). That the halving ends at the move of the clock
    (`NarrowFinds`) is proved of the function `Narrow` computes in two steps: a closed
    form of where it ends (`Found`) meets the recursion, so there is such a function;
    and were one wrong, a shortest interval on which it is would have a shorter one,
    which the well-foundedness of the naturals excludes. Theorem
    `SchedulesMissNothing`, for every expression in range, hours and days of any
    length, and a clock that is moved once, by any offsets of less than a day.

  Theorem `PartsCorrect` is the invariants of all five. TLC checked each on the
  instances of `project_parts` before it was proved. The proof of `HomeLeadsHome` found two
  facts it rests on that MoveInv did not have: where home is set aside, and where it
  goes back to, no earlier copy has stopped half way.

Model-checked only: the liveness properties (`DeployEnds`, `FollowUpTaken`,
`StatusCatchesUp`, `FrozenThaws`, `RunSettles`, `Converges` and the fairness of
`DeploySlot`), which need fairness and are beyond the prover.

## 7. What is not modelled, and why

- The retention's choice, the members and the settings of part 15 of the plan: not yet.
- Of the status sweep and of the scheduled restarts, the services; of autostart,
  everything but its effect on a process.
- Of backups: the archive, dumps and destinations, the heartbeat, `restore_runs`,
  deletion of a run by hand, edits of a policy. Of a restore: what it writes.
- Of service mounts: binds other than the data directory, sizes, inventories,
  networks, a service moved to another project. Creation, deletion, credentials,
  renaming and the console of a service.
- Of access gates: which addresses the rules admit, the refusals kept for the page,
  the check for an app that listens wider than asked; a project's second loopback
  port (it is given a new one each time it is restricted).
- Of a checkout move: sizes, permissions, paths that contain each other. Of project
  mounts: more than one bind, and lists written by the settings' route, which copies
  nothing.
- Of schedules: an expression's text, names and aliases, `describeCron`; months of
  different lengths; a zone whose clock is moved twice within two days.
- Builders, drivers, git, docker: subprocesses whose state is outside the panel.
  The modules assume of a start or a stop only that it succeeds, fails or stops
  half way.
- A child process that outlives the panel's crash (a build still writing in the
  checkout while the next deploy starts): nothing in the code looks for one.
- Of the cluster: members and shared settings (the same merge), the thirty-day limit
  of a tombstone, joining and leaving, the secret, calls made on a user's behalf.
- Proxy, notifications, streams, logs, accounts, validation and the UI:
  text, remote state, best-effort messages or sequential checks.
- More than one panel process on one store: the code does not support it, as its
  queue is in memory.
