-------------------------------- MODULE Backups --------------------------------
(***************************************************************************)
(* services/backup/: who may back up or restore, and what becomes of the    *)
(* archives.  Two flags in memory keep a backup and a restore apart; the    *)
(* scheduler claims an occurrence of a policy by moving next_run_at;        *)
(* retention runs at the end of the run it follows.                        *)
(*                                                                         *)
(* Time is counted in occurrences: every policy has one at each instant,    *)
(* the worst case for the one-at-a-time rule.  What a run copies is in      *)
(* module VolumePause; here a run is the statements it makes.              *)
(***************************************************************************)
EXTENDS Naturals, Sequences, FiniteSetsExt

CONSTANTS
    Policy,
    Tick,       \* the ticks of the scheduler that may be under way at once
    Manual,     \* "run now" requests, likewise
    Restore,    \* requests to restore, likewise
    None,
    MaxTime,    \* bound: occurrences that pass
    MaxRuns,    \* bound: backups that are started
    MaxFaults   \* bound: statements and calls that fail, and restarts of the panel

Actor == Tick \union Manual \union Restore

ASSUME BackupsAssumption ==
    /\ MaxTime \in Nat /\ MaxRuns \in Nat /\ MaxFaults \in Nat
    /\ None \notin Policy \union Actor
    /\ Tick \cap Manual = {} /\ Tick \cap Restore = {} /\ Manual \cap Restore = {}

VARIABLES
    backup,     \* __runpanelBackupActive, by who raised it
    restoring,  \* __runpanelRestoreActive, likewise
    runs,       \* backup_runs with their archives, in the order they started
    at,         \* where each actor is
    aim,        \* the policy each actor's backup is for, or None
    mine,       \* the run each actor is working on
    safe,       \* whether each restore was asked for with its safety copy
    doomed,     \* the runs retention has yet to forget
    nextRun,    \* next_run_at of each policy
    now,
    held,       \* what each tick read when it began
    faults

flags == <<backup, restoring>>
schedule == <<nextRun, now, held>>
vars == <<flags, runs, at, aim, mine, safe, doomed, schedule, faults>>

Run == 1..Len(runs)
Row == [policy : Policy \union {None},
        status : {"running", "good", "failed", "gone"},
        archive : {"none", "stored", "removed"}]
Snapshot == [todo : SUBSET Policy, next : [Policy -> 1..(MaxTime + 1)], now : 0..MaxTime]
NoSnapshot == [todo |-> {}, next |-> [p \in Policy |-> 1], now |-> 0]

\* What a run of startBackup goes through.
Working == {"inserting", "dumping", "storing", "recording", "pruning", "forgetting",
            "failing", "releasing"}
Backing(a) == at[a] \in Working

TypeOK ==
    /\ backup \in Actor \union {None} /\ restoring \in Restore \union {None}
    /\ runs \in Seq(Row) /\ Len(runs) <= MaxRuns
    /\ at \in [Actor -> Working \union {"idle", "considering", "asked", "preparing",
                                        "writing", "restored"}]
    /\ aim \in [Actor -> Policy \union {None}]
    /\ mine \in [Actor -> 0..MaxRuns]
    /\ safe \in [Restore -> BOOLEAN]
    /\ doomed \subseteq Run
    /\ nextRun \in [Policy -> 1..(MaxTime + 1)] /\ now \in 0..MaxTime
    /\ held \in [Tick -> Snapshot]
    /\ faults \in 0..MaxFaults

Goto(a, point) == at' = [at EXCEPT ![a] = point]
From(a, point, to) == at[a] = point /\ Goto(a, to)
Fault == faults < MaxFaults /\ faults' = faults + 1
Set(a, field, value) == runs' = [runs EXCEPT ![mine[a]][field] = value]

-----------------------------------------------------------------------------
(* startBackup *)

\* Mutant: the flag of the restore in progress is not looked at.
FreeOfBackups(a) == backup = None

\* Nobody backs up, and nobody restores but the one this is the safety copy of.
Free(a) == backup = None /\ restoring \in {None, a}

\* The claim, made before the first await, and the row that follows it.
Claims(a, p) ==
    /\ Free(a) /\ Len(runs) < MaxRuns
    /\ backup' = a
    /\ aim' = [aim EXCEPT ![a] = p]
    /\ Goto(a, "inserting")

Inserts(a) ==
    /\ From(a, "inserting", "dumping")
    /\ runs' = Append(runs, [policy |-> aim[a], status |-> "running", archive |-> "none"])
    /\ mine' = [mine EXCEPT ![a] = Len(runs) + 1]
    /\ UNCHANGED <<flags, aim, safe, doomed, schedule, faults>>

\* Where an actor goes once its backup is over, well or badly.
Afterwards(a, good) ==
    CASE a \in Tick -> "considering"
      [] a \in Manual -> "idle"
      [] a \in Restore -> IF good THEN "writing" ELSE "restored"

\* Mutant: an insert that fails leaves the flag up.
InsertFailsQuietly(a) ==
    /\ From(a, "inserting", Afterwards(a, FALSE)) /\ Fault
    /\ UNCHANGED <<flags, runs, aim, mine, safe, doomed, schedule>>

\* The database refuses the row: the claim is given back.
InsertFails(a) ==
    /\ From(a, "inserting", Afterwards(a, FALSE)) /\ Fault
    /\ backup' = None
    /\ UNCHANGED <<restoring, runs, aim, mine, safe, doomed, schedule>>

-----------------------------------------------------------------------------
(* execute *)

Dumps(a) ==
    /\ From(a, "dumping", "storing")
    /\ UNCHANGED <<flags, runs, aim, mine, safe, doomed, schedule, faults>>

\* destination.put: for the local one a rename, whole or not at all.
Stores(a) ==
    /\ From(a, "storing", "recording")
    /\ Set(a, "archive", "stored")
    /\ UNCHANGED <<flags, aim, mine, safe, doomed, schedule, faults>>

\* Nothing could be saved, no space, no destination, or a statement that fails
\* on the way, retention's included.
Throws(a) ==
    /\ at[a] \in {"dumping", "storing", "recording", "pruning", "forgetting"} /\ Goto(a, "failing")
    /\ Fault
    /\ doomed' = {}
    /\ UNCHANGED <<flags, runs, aim, mine, safe, schedule>>

\* Runs retention may look at: good ones of the policy, not pinned.
Candidates(p) == {i \in Run : p # None /\ runs[i].policy = p /\ runs[i].status = "good"}

\* Mutant: the newest one is a candidate like the others.
CollectableAll(C) == C

\* Newest first, and the head of the list is untouchable.
Collectable(C) == IF C = {} THEN {} ELSE C \ {Max(C)}

\* The run is good, and retention chooses by count, age or size among the others.
Records(a) ==
    LET recorded == [runs EXCEPT ![mine[a]].status = "good"]
        p == runs[mine[a]].policy
    IN
    /\ From(a, "recording", "pruning")
    /\ runs' = recorded
    /\ doomed' \in SUBSET Collectable({mine[a]} \union Candidates(p))
    /\ UNCHANGED <<flags, aim, mine, safe, schedule, faults>>

\* forget: the archive first; one that will not go keeps its row.
Removes(a, i) ==
    /\ at[a] = "pruning" /\ i \in doomed
    /\ \/ Goto(a, "forgetting")
          /\ runs' = [runs EXCEPT ![i].archive = "removed"]
          /\ UNCHANGED <<doomed, faults>>
       \/ Fault /\ doomed' = doomed \ {i}
          /\ UNCHANGED <<at, runs>>
    /\ UNCHANGED <<flags, aim, mine, safe, schedule>>

\* Then the row.
Forgets(a) ==
    LET i == CHOOSE r \in doomed : runs[r].archive = "removed" IN
    /\ From(a, "forgetting", "pruning")
    /\ runs' = [runs EXCEPT ![i].status = "gone"]
    /\ doomed' = doomed \ {i}
    /\ UNCHANGED <<flags, aim, mine, safe, schedule, faults>>

Pruned(a) ==
    /\ doomed = {} /\ From(a, "pruning", "releasing")
    /\ UNCHANGED <<flags, runs, aim, mine, safe, doomed, schedule, faults>>

\* The catch: the run is a failed one, even when it had been recorded as good.
\* A statement of its own that fails leaves the row as it is.
Fails(a) ==
    /\ From(a, "failing", "releasing")
    /\ \/ Set(a, "status", "failed") /\ UNCHANGED faults
       \/ Fault /\ UNCHANGED runs
    /\ UNCHANGED <<flags, aim, mine, safe, doomed, schedule>>

\* The finally gives the flag back, whatever execute did.
Releases(a) ==
    /\ From(a, "releasing", Afterwards(a, runs[mine[a]].status = "good"))
    /\ backup' = IF backup = a THEN None ELSE backup
    /\ mine' = [mine EXCEPT ![a] = 0]
    /\ UNCHANGED <<restoring, runs, aim, safe, doomed, schedule, faults>>

BackupStep(a) ==
    \/ Inserts(a) \/ InsertFails(a)
    \/ Dumps(a) \/ Stores(a) \/ Records(a) \/ Throws(a) \/ Fails(a)
    \/ Pruned(a) \/ Forgets(a) \/ \E i \in doomed : Removes(a, i)
    \/ Releases(a)

-----------------------------------------------------------------------------
(* "Run now" *)

ManualStarts(a, p) ==
    /\ at[a] = "idle" /\ Claims(a, p)
    /\ UNCHANGED <<restoring, runs, mine, safe, doomed, schedule, faults>>

-----------------------------------------------------------------------------
(* The scheduler.  A tick goes on for as long as the backups it starts, and  *)
(* the next one begins thirty seconds after it began.                       *)

TickReads(t) ==
    /\ From(t, "idle", "considering")
    /\ held' = [held EXCEPT ![t] = [todo |-> Policy, next |-> nextRun, now |-> now]]
    /\ UNCHANGED <<flags, runs, aim, mine, safe, doomed, nextRun, now, faults>>

Considered(t, p) == held' = [held EXCEPT ![t].todo = @ \ {p}]
Due(t, p) == p \in held[t].todo /\ held[t].next[p] <= held[t].now

\* The UPDATE still finds the next_run_at the tick read.
Wins(t, p) == nextRun[p] = held[t].next[p]

\* next_run_at moves to the first occurrence after the tick's own clock.
Moves(t, p) == nextRun' = [nextRun EXCEPT ![p] = held[t].now + 1]

NotDue(t, p) ==
    /\ at[t] = "considering" /\ p \in held[t].todo
    /\ held[t].next[p] > held[t].now \/ ~Wins(t, p)
    /\ Considered(t, p)
    /\ UNCHANGED <<flags, runs, at, aim, mine, safe, doomed, nextRun, now, faults>>

\* Missed by too much while the panel was down: claimed, and not run.
MissedForGood(t, p) ==
    /\ at[t] = "considering" /\ Due(t, p) /\ Wins(t, p)
    /\ held[t].now >= held[t].next[p] + 2
    /\ Moves(t, p) /\ Considered(t, p)
    /\ UNCHANGED <<flags, runs, at, aim, mine, safe, doomed, now, faults>>

\* Claimed, with the host free for it: the answer to the UPDATE and the look at
\* the flag come in one turn of the event loop.
TickStarts(t, p) ==
    /\ at[t] = "considering" /\ Due(t, p) /\ Wins(t, p)
    /\ Moves(t, p) /\ Considered(t, p)
    /\ Claims(t, p)
    /\ UNCHANGED <<restoring, runs, mine, safe, doomed, now, faults>>

\* Claimed, and then refused: the occurrence is lost.
TickFindsBusy(t, p) ==
    /\ at[t] = "considering" /\ Due(t, p) /\ Wins(t, p) /\ ~Free(t)
    /\ Moves(t, p) /\ Considered(t, p)
    /\ UNCHANGED <<flags, runs, at, aim, mine, safe, doomed, now, faults>>

TickEnds(t) ==
    /\ held[t].todo = {} /\ From(t, "considering", "idle")
    /\ held' = [held EXCEPT ![t] = NoSnapshot]
    /\ UNCHANGED <<flags, runs, aim, mine, safe, doomed, nextRun, now, faults>>

TickStep(t) ==
    \/ \E p \in Policy : NotDue(t, p) \/ MissedForGood(t, p) \/ TickStarts(t, p) \/ TickFindsBusy(t, p)
    \/ TickEnds(t)

-----------------------------------------------------------------------------
(* Restores *)

\* The route looks at the backup flag, then reads the catalogue for a while.
RestoreAsked(r) ==
    /\ backup = None /\ From(r, "idle", "asked")
    /\ safe' \in {[safe EXCEPT ![r] = b] : b \in BOOLEAN}
    /\ UNCHANGED <<flags, runs, aim, mine, doomed, schedule, faults>>

\* startRestore: one at a time.  It does not look at the backup flag.
RestoreStarts(r) ==
    /\ restoring = None /\ From(r, "asked", "preparing")
    /\ restoring' = r
    /\ UNCHANGED <<backup, runs, aim, mine, safe, doomed, schedule, faults>>

RestoreRefused(r) ==
    /\ restoring # None /\ From(r, "asked", "idle")
    /\ UNCHANGED <<flags, runs, aim, mine, safe, doomed, schedule, faults>>

\* The row is written and the archive found, and nothing has been touched yet.
CopiesFirst(r) ==
    /\ at[r] = "preparing" /\ safe[r] /\ Claims(r, None)
    /\ UNCHANGED <<restoring, runs, mine, safe, doomed, schedule, faults>>

\* No copy can be taken, or the archive is gone: the restore stops.
GivesUp(r) ==
    /\ From(r, "preparing", "restored")
    /\ \/ safe[r] /\ ~Free(r) /\ UNCHANGED faults
       \/ Fault
    /\ UNCHANGED <<flags, runs, aim, mine, safe, doomed, schedule>>

\* The copy was declined.
SkipsCopy(r) ==
    /\ ~safe[r] /\ From(r, "preparing", "writing")
    /\ UNCHANGED <<flags, runs, aim, mine, safe, doomed, schedule, faults>>

\* Volumes, databases and configurations are overwritten; then what was
\* stopped is started again, also when something failed.
Writes(r) ==
    /\ From(r, "writing", "restored")
    /\ UNCHANGED <<flags, runs, aim, mine, safe, doomed, schedule, faults>>

RestoreEnds(r) ==
    /\ From(r, "restored", "idle")
    /\ restoring' = IF restoring = r THEN None ELSE restoring
    /\ UNCHANGED <<backup, runs, aim, mine, safe, doomed, schedule, faults>>

RestoreStep(r) ==
    \/ RestoreStarts(r) \/ RestoreRefused(r) \/ CopiesFirst(r) \/ GivesUp(r)
    \/ SkipsCopy(r) \/ Writes(r) \/ RestoreEnds(r)

-----------------------------------------------------------------------------
(* The world *)

Clock ==
    /\ now < MaxTime /\ now' = now + 1
    /\ UNCHANGED <<flags, runs, at, aim, mine, safe, doomed, nextRun, held, faults>>

\* The panel goes down and comes back: flags and actors are memory, and
\* recoverFromCrash fails the runs left "running".
PanelRestart ==
    /\ Fault
    /\ backup' = None /\ restoring' = None
    /\ at' = [a \in Actor |-> "idle"]
    /\ aim' = [a \in Actor |-> None]
    /\ mine' = [a \in Actor |-> 0]
    /\ doomed' = {}
    /\ held' = [t \in Tick |-> NoSnapshot]
    /\ runs' = [i \in Run |-> IF runs[i].status = "running"
                              THEN [runs[i] EXCEPT !.status = "failed"] ELSE runs[i]]
    /\ UNCHANGED <<safe, nextRun, now>>

Init ==
    /\ backup = None /\ restoring = None
    /\ runs = <<>>
    /\ at = [a \in Actor |-> "idle"]
    /\ aim = [a \in Actor |-> None]
    /\ mine = [a \in Actor |-> 0]
    /\ safe = [r \in Restore |-> TRUE]
    /\ doomed = {}
    /\ nextRun = [p \in Policy |-> 1] /\ now = 0
    /\ held = [t \in Tick |-> NoSnapshot]
    /\ faults = 0

Step(a) ==
    \/ BackupStep(a)
    \/ a \in Tick /\ TickStep(a)
    \/ a \in Restore /\ RestoreStep(a)

Next ==
    \/ \E a \in Actor : Step(a)
    \/ \E t \in Tick : TickReads(t)
    \/ \E m \in Manual, p \in Policy : ManualStarts(m, p)
    \/ \E r \in Restore : RestoreAsked(r)
    \/ Clock \/ PanelRestart

Spec == Init /\ [][Next]_vars

-----------------------------------------------------------------------------
(* Properties *)

\* A restore that asked for its safety copy writes with nobody else at work: no
\* backup reads what it overwrites, and no other restore writes.
SafeRestoreWritesAlone ==
    \A r \in Restore : at[r] = "writing" /\ safe[r] =>
        \A a \in Actor \ {r} : ~Backing(a) /\ at[a] # "writing"

\* A flag is up exactly while somebody works under it, so that no failure
\* leaves the panel refusing backups or restores until it is restarted.
FlagsAreHeld ==
    /\ \A a \in Actor : Backing(a) <=> backup = a
    /\ \A r \in Restore : restoring = r <=>
          at[r] \in Working \union {"preparing", "writing", "restored"}

\* Whatever retention does, and wherever it or the run it follows fails or is
\* interrupted, the last archive a policy stored is never removed.
LastArchiveKept ==
    \A p \in Policy :
        LET made == {i \in Run : runs[i].policy = p /\ runs[i].archive # "none"}
        IN made # {} => runs[Max(made)].archive = "stored"
=============================================================================
