---------------------------- MODULE MCProjectParts -----------------------------
(***************************************************************************)
(* Five parts that share no state: the moves of a project's checkout (a     *)
(* native project has them), the binds of its container (one that is not    *)
(* native has them), the poller of its branch, the gate in front of its     *)
(* port, and the schedules.  One of them moves in a behaviour, and the      *)
(* others are left out of it.                                              *)
(***************************************************************************)
EXTENDS Integers, TLC

CONSTANTS Move, Outside, MaxWrites, MoveFaults,
          Apply, MaxSaves, ApplyFaults,
          Tick, Primer, MaxCommit, MaxEdits, PollFaults,
          GateRestart, GateDeploy, GatePatch, GateDelete, List, GateFaults,
          MinutesOfHour, HoursOfDay, DaysOfWeek, DaysOfMonth, MonthsOfYear, DaysAhead,
          Fields, Zones, MaxTime,
          None

VARIABLES
    part,       \* which part moves
    link, holds, torn, app, status, repoPath, repoMove, moveInFlight, move, discarding,
    made, safe, movesOverlapped, cut, moveFaults,
    stored, deployed, building, box, folder, mountApply, applyInFlight, apply,
    appliesOverlapped, shown, adopted, saves, applyFaults,
    head, follows, pinned, pollSha, etag, at, read, answer, modified, deploys,
    looked, skipped, crossed, edits, pollFaults,
    row, called, listening, gate, rules, clients, job, stale, unapplied, gateFaults,
    fields, zone, from

-----------------------------------------------------------------------------
(* The schedules checked, in hours of two minutes, days of four hours, weeks *)
(* of three days, months of four and years of two months                    *)

All == [form |-> "all", low |-> 0, high |-> 0, step |-> None]
Every(n) == [All EXCEPT !.step = n]
Value(n) == [All EXCEPT !.form = "value", !.low = n]
Between(a, b) == [All EXCEPT !.form = "range", !.low = a, !.high = b]

\* Nightly, hourly, by the minute, in one month; by the day of the month, of the
\* week, and of both.
SomeFields ==
    [minute : {{Value(1)}, {All}}, hour : {{Value(1)}, {Value(0), Between(2, 3)}},
     dom : {{All}, {Value(2)}}, month : {{All}}, dow : {{All}, {Value(3)}}]
    \cup [minute : {{Value(0)}}, hour : {{All}, {Every(2)}},
          dom : {{All}}, month : {{All}, {Value(1)}}, dow : {{All}}]

\* Clocks moved forward and back, over midnight and within the day.
SomeZones ==
    UNION {{[before |-> o[1], after |-> o[2], moved |-> m] : m \in 8..15} :
              o \in {<<0, 2>>, <<2, 0>>, <<-3, -2>>, <<-2, -3>>, <<3, 2>>, <<-3, 5>>}}

-----------------------------------------------------------------------------
Repo == INSTANCE CheckoutMove WITH
    MaxFaults <- MoveFaults, faults <- moveFaults,
    journal <- repoMove, inFlight <- moveInFlight, overlapped <- movesOverlapped

Mounts == INSTANCE ProjectMounts WITH
    MaxEdits <- MaxSaves, MaxFaults <- ApplyFaults, edits <- saves, faults <- applyFaults,
    journal <- mountApply, inFlight <- applyInFlight, overlapped <- appliesOverlapped

Poll == INSTANCE DeployPoll WITH MaxFaults <- PollFaults, faults <- pollFaults

Gate == INSTANCE ProjectGate WITH
    Restart <- GateRestart, Deploy <- GateDeploy, Patch <- GatePatch, Delete <- GateDelete,
    MaxFaults <- GateFaults, faults <- gateFaults, status <- called, app <- listening

Occurrences == INSTANCE Cron

ASSUME PartsAssumption ==
    /\ Repo!MoveAssumption /\ Mounts!MountsAssumption /\ Poll!PollAssumption
    /\ Gate!GateAssumption /\ Occurrences!CronAssumption

\* A part that does not move is left out.
MovesAtRest ==
    /\ link = None /\ holds = None /\ torn = None /\ app = None /\ status = None
    /\ repoPath = None /\ repoMove = None /\ moveInFlight = None /\ move = None
    /\ discarding = None /\ made = None /\ safe = None /\ movesOverlapped = None
    /\ cut = None /\ moveFaults = None
MountsAtRest ==
    /\ stored = None /\ deployed = None /\ building = None /\ box = None /\ folder = None
    /\ mountApply = None /\ applyInFlight = None /\ apply = None /\ appliesOverlapped = None
    /\ shown = None /\ adopted = None /\ saves = None /\ applyFaults = None
PollAtRest ==
    /\ head = None /\ follows = None /\ pinned = None /\ pollSha = None /\ etag = None
    /\ at = None /\ read = None /\ answer = None /\ modified = None /\ deploys = None
    /\ looked = None /\ skipped = None /\ crossed = None /\ edits = None
    /\ pollFaults = None
GateAtRest ==
    /\ row = None /\ called = None /\ listening = None /\ gate = None /\ rules = None
    /\ clients = None /\ job = None /\ stale = None /\ unapplied = None /\ gateFaults = None
SchedulesAtRest ==
    /\ fields = None /\ zone = None /\ from = None

Init ==
    /\ part \in {"moves", "mounts", "poll", "gate", "schedules"}
    /\ IF part = "moves" THEN Repo!Init ELSE MovesAtRest
    /\ IF part = "mounts" THEN Mounts!Init ELSE MountsAtRest
    /\ IF part = "poll" THEN Poll!Init ELSE PollAtRest
    /\ IF part = "gate" THEN Gate!Init ELSE GateAtRest
    /\ IF part = "schedules" THEN Occurrences!Init ELSE SchedulesAtRest

repo == <<link, holds, torn, app, status, repoPath, repoMove, moveInFlight, move, discarding,
          made, safe, movesOverlapped, cut, moveFaults>>
mounts == <<stored, deployed, building, box, folder, mountApply, applyInFlight, apply,
            appliesOverlapped, shown, adopted, saves, applyFaults>>
poll == <<head, follows, pinned, pollSha, etag, at, read, answer, modified, deploys,
          looked, skipped, crossed, edits, pollFaults>>
port == <<row, called, listening, gate, rules, clients, job, stale, unapplied, gateFaults>>
schedules == <<fields, zone, from>>
vars == <<part, repo, mounts, poll, port, schedules>>

Next ==
    \/ part = "moves" /\ UNCHANGED <<part, mounts, poll, port, schedules>> /\ Repo!Next
    \/ part = "mounts" /\ UNCHANGED <<part, repo, poll, port, schedules>> /\ Mounts!Next
    \/ part = "poll" /\ UNCHANGED <<part, repo, mounts, port, schedules>> /\ Poll!Next
    \/ part = "gate" /\ UNCHANGED <<part, repo, mounts, poll, schedules>> /\ Gate!Next
    \/ part = "schedules" /\ UNCHANGED <<part, repo, mounts, poll, port>> /\ Occurrences!Next

Spec == Init /\ [][Next]_vars

\* Only invariants are checked here, and no module tells one move from another, nor
\* one place outside from another.
Symmetry == Permutations(Move) \cup Permutations(Outside)

\* A write the app or a deploy made to the checkout is, wherever a move is and
\* however it was cut, in a copy that is whole (project-repo.ts, runMove).
NothingErased == part = "moves" => Repo!NothingErased

\* Between two moves home leads to a whole checkout with those writes (project-repo.ts).
HomeLeads == part = "moves" => Repo!HomeLeads

\* No container is given a bind over a directory that was not filled from it
\* (project-mounts.ts, runApply).
BoundIsSeeded == part = "mounts" => Mounts!BoundIsSeeded

\* No commit is deployed twice on the poller's account (deploy-poll.ts).
OneAttemptPerCommit == part = "poll" => Poll!OneAttemptPerCommit

\* Between two requests the public port is held by whom the access columns say
\* (access.ts, access-gate.ts).
PortMatchesRow == part = "gate" => Gate!PortMatchesRow

\* The next run of a schedule is the first that is due, whatever the zone's clock
\* does (lib/cron.ts).
NextIsNext == part = "schedules" => Occurrences!NextIsNext
=============================================================================
