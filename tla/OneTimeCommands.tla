---------------------------- MODULE OneTimeCommands ----------------------------
(***************************************************************************)
(* services/one-time-commands.ts: the commands an operator wants run once,  *)
(* at a chosen phase of the next deploy of a project.  A deploy takes every *)
(* queued row with a conditional UPDATE, runs them phase by phase, and puts *)
(* back what it never reached.  Meanwhile the editor may be replacing the   *)
(* queue, the app may be removed and the panel may go down.                 *)
(*                                                                         *)
(* Nothing here relies on deploys being serialised: the claim has to hold   *)
(* by itself, and any number of deploys may be under way.  `position` is    *)
(* left out, so the commands of one phase run in any order.                 *)
(***************************************************************************)
EXTENDS Naturals

CONSTANTS
    Command,     \* ids of one_time_commands rows; an id is inserted once
    Deploy,      \* the deploys of the project, by deployment id
    LastPhase,   \* the phases are 1..LastPhase, in execution order
    BuildPhases, \* those a container runtime does not have
    None

ASSUME CommandAssumption ==
    /\ LastPhase \in Nat \ {0}
    /\ BuildPhases \subseteq 2..LastPhase
    /\ None \notin Command \union Deploy

VARIABLES
    exists,      \* the project row is there
    row,         \* the table: status, deployment_id, attempts, what was written
    pc,          \* where each deploy is
    built,       \* the runtime each deploy was claimed with
    phase,       \* the phase it is at
    taken,       \* ClaimedCommands: the rows it still has to run, as it read them
    cur,         \* the row it is running
    draft,       \* the ids a PUT keeps, between its check and its transaction, or None
    tried, won,  \* history: the commands ever started, and those that exited with 0
    interrupted, \* history: the outcome of a command that ran was lost
    stranded     \* history: claimed rows lost their way back to the queue

deployVars == <<pc, built, phase, taken, cur>>
historyVars == <<tried, won, interrupted, stranded>>
vars == <<exists, row, deployVars, draft, historyVars>>

-----------------------------------------------------------------------------
Phase == 1..LastPhase
Runtime == {"native", "container"}
Kind == {"critical", "optional", "blank"}
Text == [phase : Phase, kind : Kind]
Status == {"unborn", "queued", "claimed", "done", "failed", "gone"}
Row == [status : Status, holder : Deploy \union {None}, attempts : Nat, text : Text]

\* "unwinding": the pipeline threw.  "finished": every phase was passed.
LivePoints == {"reading", "working", "marked", "succeeded", "lost",
               "unwinding", "finished"}

TypeOK ==
    /\ exists \in BOOLEAN
    /\ row \in [Command -> Row]
    /\ pc \in [Deploy -> LivePoints \union {"new", "ended"}]
    /\ built \in [Deploy -> Runtime]
    /\ phase \in [Deploy -> Phase]
    /\ taken \in [Deploy -> [Command -> Text \union {None}]]
    /\ cur \in [Deploy -> Command \union {None}]
    /\ draft \in (SUBSET Command) \union {None}
    /\ tried \subseteq Command /\ won \subseteq Command
    /\ interrupted \in BOOLEAN /\ stranded \in BOOLEAN

Available(p, runtime) == p \notin BuildPhases \/ runtime = "native"

Live(d) == pc[d] \in LivePoints
Holds(d, k) == taken[d][k] # None
At(d, point) == pc[d] = point
Goto(d, point) == pc' = [pc EXCEPT ![d] = point]
Is(k, s) == row[k].status = s
Spent(k) == row[k].status \in {"done", "failed"}

Blank == [phase |-> 1, kind |-> "critical"]
NoRow(s) == [status |-> s, holder |-> None, attempts |-> 0, text |-> Blank]

\* An UPDATE by id alone, which matches nothing once the row is deleted.
Update(k, new) == row' = [row EXCEPT ![k] = IF Is(k, "gone") THEN @ ELSE new]
SetStatus(k, s) == Update(k, [row[k] EXCEPT !.status = s])

Forget(d, k) == taken' = [taken EXCEPT ![d][k] = None]

\* What a deploy kept in memory goes with it.
Leave(D) ==
    /\ pc' = [d \in Deploy |-> IF d \in D THEN "ended" ELSE pc[d]]
    /\ built' = [d \in Deploy |-> IF d \in D THEN "native" ELSE built[d]]
    /\ phase' = [d \in Deploy |-> IF d \in D THEN 1 ELSE phase[d]]
    /\ taken' = [d \in Deploy |-> IF d \in D THEN [k \in Command |-> None] ELSE taken[d]]
    /\ cur' = [d \in Deploy |-> IF d \in D THEN None ELSE cur[d]]

-----------------------------------------------------------------------------
(* claimForDeploy: the UPDATE, then the SELECT by deployment_id.  The        *)
(* runtime is the project's at that moment, and it may have changed since    *)
(* the rows were written.                                                    *)

\* Mutant: the UPDATE without its list of runnable phases.
TakeableAnyPhase(k, runtime) == Is(k, "queued")

Takeable(k, runtime) == Is(k, "queued") /\ Available(row[k].text.phase, runtime)

Claim(d, runtime) ==
    /\ At(d, "new") /\ exists
    /\ row' = [k \in Command |->
                 IF Takeable(k, runtime)
                   THEN [row[k] EXCEPT !.status = "claimed", !.holder = d]
                   ELSE row[k]]
    /\ built' = [built EXCEPT ![d] = runtime]
    /\ Goto(d, "reading")
    /\ UNCHANGED <<exists, phase, taken, cur, draft, historyVars>>

\* Mutant: rows found by deployment_id alone.
HeldEver(d) == {k \in Command : row[k].holder = d}

Held(d) == {k \in Command : Is(k, "claimed") /\ row[k].holder = d}

ReadBack(d) ==
    /\ At(d, "reading")
    /\ taken' = [taken EXCEPT ![d] =
                    [k \in Command |-> IF k \in Held(d) THEN row[k].text ELSE None]]
    /\ Goto(d, "working")
    /\ UNCHANGED <<exists, row, built, phase, cur, draft, historyVars>>

-----------------------------------------------------------------------------
(* runPhase *)

Due(d, k) == Holds(d, k) /\ taken[d][k].phase = phase[d]

\* A command that is blank once joined is done without being run.
PassBlank(d, k) ==
    /\ At(d, "working") /\ Due(d, k) /\ taken[d][k].kind = "blank"
    /\ SetStatus(k, "done")
    /\ Forget(d, k)
    /\ UNCHANGED <<exists, pc, built, phase, cur, draft, historyVars>>

\* Written before the spawn.
Mark(d, k) ==
    /\ At(d, "working") /\ Due(d, k) /\ taken[d][k].kind # "blank"
    /\ Update(k, [row[k] EXCEPT !.attempts = @ + 1])
    /\ cur' = [cur EXCEPT ![d] = k]
    /\ Goto(d, "marked")
    /\ UNCHANGED <<exists, built, phase, taken, draft, historyVars>>

\* The command runs, in a container or on the host, until it exits or its
\* ten minutes are over.
Run(d) ==
    /\ At(d, "marked")
    /\ tried' = tried \union {cur[d]}
    /\ \/ /\ won' = won \union {cur[d]}
          /\ Goto(d, "succeeded")
       \/ /\ Goto(d, "lost")
          /\ UNCHANGED won
    /\ UNCHANGED <<exists, row, built, phase, taken, cur, draft, interrupted, stranded>>

Critical(d) == At(d, "lost") /\ taken[d][cur[d]].kind = "critical"

\* The outcome is written and the phase goes on, or a critical failure puts the
\* row back in the queue and fails the deploy.
Settle(d) ==
    /\ pc[d] \in {"succeeded", "lost"}
    /\ SetStatus(cur[d], CASE At(d, "succeeded") -> "done"
                           [] Critical(d) -> "queued"
                           [] OTHER -> "failed")
    /\ Goto(d, IF Critical(d) THEN "unwinding" ELSE "working")
    /\ Forget(d, cur[d])
    /\ cur' = [cur EXCEPT ![d] = None]
    /\ UNCHANGED <<exists, built, phase, draft, historyVars>>

\* On to the next phase.  Only the first can find no checkout yet, and leaves
\* its rows; a container runtime never calls back for the build's own phases.
NextPhase(d) ==
    /\ At(d, "working")
    /\ \/ \A k \in Command : ~Due(d, k)
       \/ phase[d] = 1
       \/ ~Available(phase[d], built[d])
    /\ IF phase[d] = LastPhase
         THEN Goto(d, "finished") /\ UNCHANGED phase
         ELSE phase' = [phase EXCEPT ![d] = @ + 1] /\ UNCHANGED pc
    /\ UNCHANGED <<exists, row, built, taken, cur, draft, historyVars>>

\* Anything else in the deploy that throws, or a statement of this module that
\* does: then the outcome of a command that ran is lost.
Throw(d) ==
    /\ pc[d] \in {"reading", "working", "succeeded", "lost"}
    /\ interrupted' = (interrupted \/ pc[d] \in {"succeeded", "lost"})
    /\ cur' = [cur EXCEPT ![d] = None]
    /\ Goto(d, "unwinding")
    /\ UNCHANGED <<exists, row, built, phase, taken, draft, tried, won, stranded>>

Requeued(k) == [row[k] EXCEPT !.status = "queued", !.holder = None]

\* releaseUnrun, in the finally of the deploy.
Release(d) ==
    /\ pc[d] \in {"unwinding", "finished"}
    /\ row' = [k \in Command |-> IF k \in Held(d) THEN Requeued(k) ELSE row[k]]
    /\ Leave({d})
    /\ UNCHANGED <<exists, draft, historyVars>>

\* It never throws: a queue that cannot be released is only logged.
ReleaseFails(d) ==
    /\ pc[d] \in {"unwinding", "finished"}
    /\ stranded' = (stranded \/ Held(d) # {})
    /\ Leave({d})
    /\ UNCHANGED <<exists, row, draft, tried, won, interrupted>>

-----------------------------------------------------------------------------
(* The editor.  `keep` is the set of ids it sends back.  A page so old that   *)
(* one of them is spent already is refused below and nothing comes of it; the *)
(* case that matters is the id that is still queued here and not there.  The  *)
(* runtime the phases are checked against is the project's at the time.       *)

EditCheck(keep) ==
    /\ draft = None /\ exists
    /\ \A k \in Command : ~Is(k, "claimed")
    /\ \A k \in keep : Is(k, "queued")
    /\ draft' = keep
    /\ UNCHANGED <<exists, row, deployVars, historyVars>>

\* A new row, or an edited one, must be of a phase the runtime has.
Acceptable(k, t, runtime) ==
    Available(t.phase, runtime) \/ (Is(k, "queued") /\ t = row[k].text)

\* Mutant: `existing` read without status = 'queued', and deleted by id.
ReplacedById(k, fresh, written) ==
    CASE k \in fresh -> [NoRow("queued") EXCEPT !.text = written[k]]
      [] k \in draft -> [row[k] EXCEPT !.text = written[k]]
      [] row[k].status \in {"queued", "claimed"} /\ k \notin draft -> NoRow("gone")
      [] OTHER -> row[k]

\* Mutant: a kept row is inserted afresh instead of updated in place.
ReplacedAfresh(k, fresh, written) ==
    CASE k \in draft \union fresh -> [NoRow("queued") EXCEPT !.text = written[k]]
      [] Is(k, "queued") /\ k \notin draft -> NoRow("gone")
      [] OTHER -> row[k]

\* One row after replaceQueue, whose every statement carries status = 'queued'.
Replaced(k, fresh, written) ==
    CASE k \in fresh -> [NoRow("queued") EXCEPT !.text = written[k]]
      [] k \in draft -> [row[k] EXCEPT !.text = written[k]]
      [] Is(k, "queued") /\ k \notin draft -> NoRow("gone")
      [] OTHER -> row[k]

EditApply(fresh, written, runtime) ==
    /\ draft # None /\ exists
    /\ \A k \in draft : Is(k, "queued")
    /\ \A k \in fresh : Is(k, "unborn")
    /\ \A k \in draft \union fresh : Acceptable(k, written[k], runtime)
    /\ row' = [k \in Command |-> Replaced(k, fresh, written)]
    /\ draft' = None
    /\ UNCHANGED <<exists, deployVars, historyVars>>

\* QueueChangedError: an id the editor had is no longer queued.
EditRefused ==
    /\ draft # None
    /\ ~exists \/ \E k \in draft : ~Is(k, "queued")
    /\ draft' = None
    /\ UNCHANGED <<exists, row, deployVars, historyVars>>

\* clearHistory, and the ninety-day sweep of docker/gc.ts.
ClearHistory(old) ==
    /\ \A k \in old : Spent(k)
    /\ row' = [k \in Command |-> IF k \in old THEN NoRow("gone") ELSE row[k]]
    /\ UNCHANGED <<exists, deployVars, draft, historyVars>>

-----------------------------------------------------------------------------
(* The rest of the panel *)

\* DELETE .../app: the deployments go, and deployment_id becomes null with
\* them; the history goes, the queue stays.  Its check that no deploy is under
\* way comes long before these statements.
RemoveApp ==
    /\ exists
    /\ row' = [k \in Command |-> IF Spent(k) THEN NoRow("gone")
                                  ELSE [row[k] EXCEPT !.holder = None]]
    /\ stranded' = (stranded \/ \E k \in Command : Is(k, "claimed"))
    /\ UNCHANGED <<exists, deployVars, draft, tried, won, interrupted>>

\* The foreign key takes the rows with the project.
RemoveProject ==
    /\ exists
    /\ exists' = FALSE
    /\ row' = [k \in Command |-> NoRow("gone")]
    /\ UNCHANGED <<deployVars, draft, historyVars>>

\* Mutant: recoverFromCrash leaves the claimed rows as they are.
PanelRestartForgets ==
    /\ Leave({d \in Deploy : Live(d)})
    /\ draft' = None
    /\ interrupted' = (interrupted \/ \E d \in Deploy : cur[d] # None)
    /\ stranded' = FALSE
    /\ UNCHANGED <<exists, row, tried, won>>

\* The panel goes down and comes back through recoverFromCrash.
PanelRestart ==
    /\ Leave({d \in Deploy : Live(d)})
    /\ draft' = None
    /\ row' = [k \in Command |-> IF Is(k, "claimed") THEN Requeued(k) ELSE row[k]]
    /\ interrupted' = (interrupted \/ \E d \in Deploy : cur[d] # None)
    /\ stranded' = FALSE
    /\ UNCHANGED <<exists, tried, won>>

-----------------------------------------------------------------------------

DeployStep(d) ==
    \/ ReadBack(d) \/ Run(d) \/ Settle(d) \/ NextPhase(d) \/ Release(d)
    \/ \E k \in Command : PassBlank(d, k) \/ Mark(d, k)

EditStep ==
    \/ \E keep \in SUBSET Command : EditCheck(keep)
    \/ \E fresh \in SUBSET {k \in Command : Is(k, "unborn")} :
          draft # None /\ \E written \in [draft \union fresh -> Text], runtime \in Runtime :
            EditApply(fresh, written, runtime)
    \/ EditRefused

Init ==
    /\ exists = TRUE
    /\ row = [k \in Command |-> NoRow("unborn")]
    /\ pc = [d \in Deploy |-> "new"]
    /\ built = [d \in Deploy |-> "native"]
    /\ phase = [d \in Deploy |-> 1]
    /\ taken = [d \in Deploy |-> [k \in Command |-> None]]
    /\ cur = [d \in Deploy |-> None]
    /\ draft = None
    /\ tried = {} /\ won = {}
    /\ interrupted = FALSE /\ stranded = FALSE

Next ==
    \/ \E d \in Deploy, runtime \in Runtime : Claim(d, runtime)
    \/ \E d \in Deploy : DeployStep(d) \/ Throw(d) \/ ReleaseFails(d)
    \/ EditStep
    \/ \E old \in SUBSET Command \ {{}} : ClearHistory(old)
    \/ RemoveApp \/ RemoveProject \/ PanelRestart

Spec == Init /\ [][Next]_vars

-----------------------------------------------------------------------------
(* Properties *)

\* A row is handed to one deploy and to no other, and for as long as that deploy
\* has it to run it stays claimed, with the very text the deploy read: what runs
\* is what the history will say (claimForDeploy, replaceQueue).
HandedToOne ==
    exists => \A d \in Deploy, k \in Command : Holds(d, k) =>
        /\ Is(k, "claimed") /\ row[k].text = taken[d][k]
        /\ row[k].holder \in {d, None}
        /\ \A e \in Deploy \ {d} : ~Holds(e, k)

\* No row is claimed by a deploy that is over, save after a release that failed
\* or an app that was removed: the editor would be locked out until a restart.
ClaimedIsHeld ==
    ~stranded => \A k \in Command : Is(k, "claimed") =>
        row[k].holder # None /\ Live(row[k].holder)

\* A deploy that passed every phase consumed every row it took: the only ones
\* its release puts back were for before there was a checkout.
FinishedIsClean ==
    \A d \in Deploy, k \in Command : At(d, "finished") /\ Holds(d, k) =>
        taken[d][k].phase = 1

\* A row whose command was ever started says so, through crashes, releases and
\* edits: it never looks as though it had not been tried.
AttemptsAreCounted ==
    \A k \in tried : ~Is(k, "gone") => row[k].attempts > 0

\* Unless an outcome was lost, a command that exited with 0 is not waiting to be
\* run again.
SucceedsOnce == ~interrupted => \A k \in won : ~Is(k, "queued")

\* History is immutable: a spent row changes in nothing until it is deleted, and
\* no deleted row comes back.
HistoryIsFinal ==
    [][\A k \in Command :
         /\ Spent(k) => row'[k] \in {row[k], NoRow("gone")}
         /\ Is(k, "gone") => row'[k] = row[k]]_vars
=============================================================================
