----------------------------- MODULE RuntimeStatus -----------------------------
(***************************************************************************)
(* Who says whether a project runs, and who restarts it: the status sweep   *)
(* (services/status-reconcile.ts), the scheduled restarts                   *)
(* (services/restart-scheduler.ts) and the operator, over one project.      *)
(*                                                                         *)
(* Time is counted in occurrences of the project's schedule: `now` is the   *)
(* number of them that have passed, and restart_next_at is the number of    *)
(* one of them.                                                            *)
(***************************************************************************)
EXTENDS Naturals

CONSTANTS
    Tick,       \* the ticks of the scheduler that may be under way at once
    Operator,   \* the operators' stop and restart requests, likewise
    MaxTime,    \* bound: occurrences of the schedule that pass
    MaxFaults   \* bound: wrong or missing answers of the drivers, failed
                \* statements and restarts of the panel, together

ASSUME RuntimeAssumption ==
    /\ MaxTime \in Nat /\ MaxFaults \in Nat
    /\ Tick \cap Operator = {}

VARIABLES
    up,         \* the process, which nobody in the panel sees directly
    status,     \* projects.status
    crashed,    \* crashed_at is set
    next,       \* restart_next_at
    now,        \* the clock
    sweep,      \* the sweep in flight: where it is, the status it read, what it saw
    previous,   \* what the sweep before it saw
    at,         \* where each tick and each request is
    held,       \* the snapshot each tick acts on
    deploying,  \* a deploy is under way, whatever the status says
    faults,
    claims,     \* history: how often each occurrence was claimed
    attempts    \* history: restarts "after a crash" since the sweep marked one

rowVars == <<status, crashed, next>>
sweepVars == <<sweep, previous>>
actorVars == <<at, held>>
history == <<claims, attempts>>
vars == <<up, rowVars, now, sweepVars, actorVars, deploying, faults, history>>

-----------------------------------------------------------------------------
(* Types *)

Actor == Tick \union Operator
Occurrence == 1..MaxTime
Status == {"running", "stopped", "error", "deploying"}
Answer == {"up", "down", "none"}
Decision == {"scheduled", "after-crash", "skip"}

Snapshot == [decision : Decision, due : 0..MaxTime, now : 0..MaxTime]
NoSnapshot == [decision |-> "skip", due |-> 0, now |-> 0]
Ended(saw) == [at |-> "ending", read |-> "stopped", saw |-> saw]
NoSweep == [at |-> "idle", read |-> "stopped", saw |-> "none"]

TypeOK ==
    /\ up \in BOOLEAN /\ status \in Status /\ crashed \in BOOLEAN
    /\ next \in 1..(MaxTime + 1) /\ now \in 0..MaxTime
    /\ sweep \in [at : {"idle", "asking", "writing", "ending"}, read : Status, saw : Answer]
    /\ previous \in Answer
    /\ at \in [Actor -> {"idle", "considering", "stopping", "restarting", "restarted"}]
    /\ held \in [Tick -> Snapshot]
    /\ deploying \in BOOLEAN
    /\ faults \in 0..MaxFaults
    /\ claims \in [Occurrence -> Nat] /\ attempts \in Nat

Goto(a, point) == at' = [at EXCEPT ![a] = point]
Fault == faults < MaxFaults /\ faults' = faults + 1

\* A status and its crash marker, written together.
Write(s, mark) == status' = s /\ crashed' = mark

-----------------------------------------------------------------------------
(* lib/status.ts, and the sweep.  Callers share the sweep in flight.         *)

IsReconcilable(s) == s \in {"running", "stopped"}

\* What an observation makes of a status; going down takes two that agree.
Reconciled(current, saw, prev) ==
    CASE saw = "up" /\ current = "stopped" -> "running"
      [] saw = "down" /\ current = "running" /\ prev = "down" -> "stopped"
      [] OTHER -> current

SweepReads ==
    /\ sweep.at = "idle"
    /\ sweep' = [at |-> "asking", read |-> status, saw |-> "none"]
    /\ UNCHANGED <<up, rowVars, now, previous, actorVars, deploying, faults, history>>

\* The drivers answer, seconds later: the truth, nothing, or "not running" when
\* a listing fails half way.  A row that is not to be touched is not asked about.
SweepAsks ==
    /\ sweep.at = "asking"
    /\ \E saw \in Answer :
         /\ \/ ~IsReconcilable(sweep.read) /\ saw = "none" /\ UNCHANGED faults
            \/ IsReconcilable(sweep.read) /\ saw = (IF up THEN "up" ELSE "down") /\ UNCHANGED faults
            \/ IsReconcilable(sweep.read) /\ saw \in {"none", "down"} /\ Fault
         /\ sweep' = IF Reconciled(sweep.read, saw, previous) = sweep.read
                     THEN Ended(saw) ELSE [sweep EXCEPT !.saw = saw, !.at = "writing"]
    /\ UNCHANGED <<up, rowVars, now, previous, actorVars, deploying, history>>

\* Mutant: the UPDATE by id alone.
SweepWritesAnyway ==
    /\ sweep.at = "writing"
    /\ sweep' = Ended(sweep.saw)
    /\ LET to == Reconciled(sweep.read, sweep.saw, previous) IN
         /\ Write(to, to = "stopped")
         /\ attempts' = IF to = "stopped" THEN 0 ELSE attempts
    /\ UNCHANGED <<up, next, now, previous, actorVars, deploying, faults, claims>>

\* The UPDATE where the status is still the one that was read.
SweepWrites ==
    /\ sweep.at = "writing"
    /\ sweep' = Ended(sweep.saw)
    /\ LET to == Reconciled(sweep.read, sweep.saw, previous) IN
         IF status = sweep.read
         THEN /\ Write(to, to = "stopped")
              /\ attempts' = IF to = "stopped" THEN 0 ELSE attempts
         ELSE UNCHANGED <<status, crashed, attempts>>
    /\ UNCHANGED <<up, next, now, previous, actorVars, deploying, faults, claims>>

\* Mutant: what was seen is not kept.
SweepForgets ==
    /\ sweep.at = "ending"
    /\ sweep' = NoSweep
    /\ UNCHANGED <<up, rowVars, now, previous, actorVars, deploying, faults, history>>

\* What was seen replaces what the sweep before saw, unseen included.
SweepEnds ==
    /\ sweep.at = "ending"
    /\ previous' = sweep.saw
    /\ sweep' = NoSweep
    /\ UNCHANGED <<up, rowVars, now, actorVars, deploying, faults, history>>

\* A statement of the sweep fails: the timer survives, the observation is lost.
SweepFails ==
    /\ sweep.at # "idle" /\ Fault
    /\ sweep' = NoSweep
    /\ UNCHANGED <<up, rowVars, now, previous, actorVars, deploying, history>>

SweepStep == SweepReads \/ SweepAsks \/ SweepWrites \/ SweepEnds
-----------------------------------------------------------------------------
(* restart-scheduler.ts and lib/scheduled-restart.ts.  A tick reads every    *)
(* target, then considers them one after the other, awaiting each restart;   *)
(* the timer starts another tick meanwhile.                                  *)

Decide(s, mark) ==
    CASE s = "running" -> "scheduled"
      [] s = "deploying" -> "skip"
      [] OTHER -> IF mark THEN "after-crash" ELSE "skip"

\* A target that is not due leaves no trace, so only a due one is followed.
TickReads(t) ==
    /\ at[t] = "idle" /\ next <= now
    /\ held' = [held EXCEPT ![t] =
                  [decision |-> Decide(status, crashed), due |-> next, now |-> now]]
    /\ Goto(t, "considering")
    /\ UNCHANGED <<up, rowVars, now, sweepVars, deploying, faults, history>>

\* Mutant: the claim without `restart_next_at = what was read`.
WinsAlways(t) == TRUE

Wins(t) == next = held[t].due

\* Mutant: the claim leaves the crash marker to the restart.
TickConsidersSoftly(t) ==
    /\ at[t] = "considering"
    /\ held' = [held EXCEPT ![t] = NoSnapshot]
    /\ IF Wins(t)
       THEN LET s == held[t] IN
            /\ next' = s.now + 1
            /\ claims' = [claims EXCEPT ![s.due] = @ + 1]
            /\ attempts' = IF s.decision = "after-crash" THEN attempts + 1 ELSE attempts
            /\ Goto(t, IF s.decision = "skip" THEN "idle" ELSE "restarting")
       ELSE Goto(t, "idle") /\ UNCHANGED <<next, history>>
    /\ UNCHANGED <<up, status, crashed, now, sweepVars, deploying, faults>>

\* The claim moves restart_next_at past the tick's own clock; a claim to restart
\* takes the crash marker off in the same statement.
TickConsiders(t) ==
    /\ at[t] = "considering"
    /\ held' = [held EXCEPT ![t] = NoSnapshot]
    /\ IF Wins(t)
       THEN LET s == held[t] IN
            /\ next' = s.now + 1
            /\ claims' = [claims EXCEPT ![s.due] = @ + 1]
            /\ attempts' = IF s.decision = "after-crash" THEN attempts + 1 ELSE attempts
            /\ crashed' = (crashed /\ s.decision = "skip")
            /\ Goto(t, IF s.decision = "skip" THEN "idle" ELSE "restarting")
       ELSE Goto(t, "idle") /\ UNCHANGED <<next, crashed, history>>
    /\ UNCHANGED <<up, status, now, sweepVars, deploying, faults>>

-----------------------------------------------------------------------------
(* project-restart.ts, for a tick and for an operator; control/route.ts.     *)

\* The operator asks; the scheduler's own restart begins at "restarting".
RestartAsked(o) ==
    /\ at[o] = "idle"
    /\ Goto(o, "restarting")
    /\ UNCHANGED <<up, rowVars, now, sweepVars, held, deploying, faults, history>>

\* Refused during a deploy.  A start replaces the process, or fails and leaves
\* the old one, the new one half up, or nothing.
RestartStarts(a) ==
    /\ at[a] = "restarting"
    /\ \/ status # "deploying" /\ up' = TRUE /\ Goto(a, "restarted")
       \/ status # "deploying" /\ up' \in BOOLEAN /\ Goto(a, "idle")
       \/ status = "deploying" /\ up' = up /\ Goto(a, "idle")
    /\ UNCHANGED <<rowVars, now, sweepVars, held, deploying, faults, history>>

\* Mutant: the marker survives the restart.
RestartWritesBare(a) ==
    /\ at[a] = "restarted"
    /\ status' = "running"
    /\ Goto(a, "idle")
    /\ UNCHANGED <<up, crashed, next, now, sweepVars, held, deploying, faults, history>>

RestartWrites(a) ==
    /\ at[a] = "restarted"
    /\ Write("running", FALSE)
    /\ Goto(a, "idle")
    /\ UNCHANGED <<up, next, now, sweepVars, held, deploying, faults, history>>

StopProcess(o) ==
    /\ at[o] = "idle"
    /\ up' = FALSE
    /\ Goto(o, "stopping")
    /\ UNCHANGED <<rowVars, now, sweepVars, held, deploying, faults, history>>

StopWrites(o) ==
    /\ at[o] = "stopping"
    /\ Write("stopped", FALSE)
    /\ Goto(o, "idle")
    /\ UNCHANGED <<up, next, now, sweepVars, held, deploying, faults, history>>

-----------------------------------------------------------------------------
(* The deploy, as far as the row and the process go; its own modules say the *)
(* rest.  One at a time here.                                               *)

DeployClaims ==
    /\ ~deploying /\ status # "deploying"
    /\ deploying' = TRUE /\ status' = "deploying"
    /\ UNCHANGED <<up, crashed, next, now, sweepVars, actorVars, faults, history>>

DeployMoves ==
    /\ deploying
    /\ up' = ~up
    /\ UNCHANGED <<rowVars, now, sweepVars, actorVars, deploying, faults, history>>

DeployPublishes ==
    /\ deploying /\ up
    /\ deploying' = FALSE
    /\ Write("running", FALSE)
    /\ UNCHANGED <<up, next, now, sweepVars, actorVars, faults, history>>

\* The catch: "error" if the app is believed up, "stopped" if not; the marker
\* stays as it was.
DeployFails ==
    /\ deploying
    /\ deploying' = FALSE
    /\ \/ status' = (IF up THEN "error" ELSE "stopped") /\ UNCHANGED faults
       \/ status' \in {"error", "stopped"} /\ Fault
    /\ UNCHANGED <<up, crashed, next, now, sweepVars, actorVars, history>>

-----------------------------------------------------------------------------
(* The world: time passes; the app dies; Docker, a shell or the panel's boot *)
(* pass (autostart/reconcile.ts, which writes no status) brings it back; the *)
(* panel goes down, with or without its children, and comes back.            *)

TimePasses ==
    /\ now < MaxTime
    /\ now' = now + 1
    /\ UNCHANGED <<up, rowVars, sweepVars, actorVars, deploying, faults, history>>

AppChanges ==
    /\ up' = ~up
    /\ UNCHANGED <<rowVars, now, sweepVars, actorVars, deploying, faults, history>>

PanelRestart ==
    /\ Fault
    /\ up' \in {up, FALSE}
    /\ status' = IF status = "deploying" THEN "stopped" ELSE status
    /\ sweep' = NoSweep
    /\ previous' = "none"
    /\ at' = [a \in Actor |-> "idle"]
    /\ held' = [t \in Tick |-> NoSnapshot]
    /\ deploying' = FALSE
    /\ UNCHANGED <<crashed, next, now, history>>

-----------------------------------------------------------------------------

Init ==
    /\ up = FALSE /\ status = "stopped" /\ crashed = FALSE
    /\ next = 1 /\ now = 0
    /\ sweep = NoSweep
    /\ previous = "none"
    /\ at = [a \in Actor |-> "idle"]
    /\ held = [t \in Tick |-> NoSnapshot]
    /\ deploying = FALSE
    /\ faults = 0
    /\ claims = [n \in Occurrence |-> 0]
    /\ attempts = 0

Next ==
    \/ SweepStep \/ SweepFails
    \/ \E t \in Tick : TickReads(t) \/ TickConsiders(t)
    \/ \E a \in Actor : RestartStarts(a) \/ RestartWrites(a)
    \/ \E o \in Operator : RestartAsked(o) \/ StopProcess(o) \/ StopWrites(o)
    \/ DeployClaims \/ DeployMoves \/ DeployPublishes \/ DeployFails
    \/ TimePasses \/ AppChanges \/ PanelRestart

Spec == Init /\ [][Next]_vars

\* The timer sweeps every thirty seconds, and what a sweep awaits is bounded.
FairSpec == Spec /\ WF_sweep(SweepStep)

-----------------------------------------------------------------------------
(* Properties *)

\* An occurrence of the schedule restarts the project once, or skips it once,
\* however many ticks overlap (restart-scheduler.ts, claim).
OncePerOccurrence == \A n \in Occurrence : claims[n] <= 1

\* A project that went down by itself gets exactly one attempt: a second one
\* takes a second crash (lib/scheduled-restart.ts).
OneAttemptPerCrash == attempts <= 1

\* A project called running carries no crash marker.  One left behind would
\* turn the next deploy that fails into a "crash", and the schedule would start
\* what the operator knows as stopped.
RunningHasNoMarker == status = "running" => ~crashed

\* What the sweep saw before a deploy began is not written over it, nor over
\* the error a deploy ended with (status-reconcile.ts, lib/status.ts).
SweepLeavesDeploysAlone ==
    [][sweep.at = "writing" /\ sweep'.at = "ending" /\ ~IsReconcilable(status)
         => UNCHANGED <<status, crashed>>]_vars

\* The status keeps coming back to the truth: it is not for ever "running" over
\* a process that is down, nor "stopped" over one that is up, nor goes from the
\* one to the other.
StatusCatchesUp == []<>(IsReconcilable(status) => (status = "running") = up)
=============================================================================
