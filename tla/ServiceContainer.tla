--------------------------- MODULE ServiceContainer ----------------------------
(***************************************************************************)
(* A database service and its container: the bind list being applied in the *)
(* background (services/service-mounts.ts), the change of who may reach its *)
(* port (app/api/services/[serviceId]/route.ts with services/access.ts),    *)
(* both of which remove the container and run another, and the boot that    *)
(* comes after a panel that died in the middle.                            *)
(*                                                                         *)
(* Of the bind list only the engine's data directory is told apart: it is   *)
(* in its volume or in a folder of the host.  What a place holds is the set *)
(* of the writes the engine took there.  Sizes and free space, networks,    *)
(* and the names of containers and volumes are left out; the service has    *)
(* never been moved to another project, so its volume is the one its name   *)
(* stands for.                                                             *)
(***************************************************************************)
EXTENDS Naturals

CONSTANTS
    Apply,      \* requests that apply a bind list, at once
    Patch,      \* requests that change the access, likewise
    Folder,     \* folders of the host the data may be put in
    Volume,     \* the engine's own volume
    None,
    MaxWrites,  \* bound: writes the engine takes
    MaxAsked,   \* bound: requests
    MaxFaults   \* bound: calls and statements that fail, and deaths of the panel

Actor == Apply \union Patch
Place == Folder \union {Volume}
Access == {"open", "restricted"}

ASSUME ServiceAssumption ==
    /\ MaxWrites \in Nat /\ MaxAsked \in Nat /\ MaxFaults \in Nat
    /\ Apply \cap Patch = {} /\ Volume \notin Folder /\ None \notin Place

VARIABLES
    box,        \* the container: whether it exists, and how it was run
    content,    \* the writes each place holds
    filled,     \* the places with something in them
    row,        \* mounts, access_mode and status
    journal,    \* mount_apply
    gate,       \* the panel holds the public port for it (in memory)
    inFlight,   \* an application is under way (in memory)
    at,         \* where each request is
    job,        \* what each request has read, and is to do
    up,         \* where the panel is
    writes, asked, faults,
    history     \* what has happened that the code takes no account of

data == <<content, filled, writes>>
requests == <<at, job, asked>>
memory == <<gate, inFlight>>
vars == <<box, data, row, journal, memory, requests, up, faults, history>>

Write == 1..MaxWrites
Row == [place : Place, access : Access, status : {"running", "stopped"}]
Box == [exists : BOOLEAN, place : Place, access : Access, runs : BOOLEAN]
Job == [row : Row, next : Place \union Access, from : Place \union {None}, copied : SUBSET Write]

FirstRow == [place |-> Volume, access |-> "open", status |-> "running"]
FirstBox == [exists |-> TRUE, place |-> Volume, access |-> "open", runs |-> TRUE]
NoBox == [FirstBox EXCEPT !.exists = FALSE, !.runs = FALSE]
NoJob == [row |-> FirstRow, next |-> Volume, from |-> None, copied |-> {}]

\* Overlap: a request came while another was at work; crossed: an application
\* while another was, before it had said so in inFlight.  Cut: an access was
\* changed on the container and not in the row.  Strayed: an application ended
\* badly with its container made, and not put back.  Disturbed: the service was
\* started during one.  Chosen: the operator adopted a folder's content, or gave
\* one up.
Event == {"overlap", "crossed", "cut", "strayed", "disturbed", "chosen", "run failed", "patch died"}

TypeOK ==
    /\ box \in Box /\ row \in Row
    /\ content \in [Place -> SUBSET Write] /\ filled \subseteq Place
    /\ journal \in {"none", "applying", "failed", "done"}
    /\ {gate, inFlight} \subseteq BOOLEAN
    /\ at \in [Actor -> {"idle", "noting", "stopping", "seeding", "copying", "removing", "running",
                         "verifying", "recording", "finishing", "failing", "unmaking", "remaking",
                         "closing", "closing gate", "writing", "syncing"}]
    /\ job \in [Actor -> Job]
    /\ up \in {"down", "rebuilding", "gating", "up"}
    /\ writes \in 0..MaxWrites /\ asked \in 0..MaxAsked /\ faults \in 0..MaxFaults
    /\ history \subseteq Event

Init ==
    /\ box = FirstBox /\ row = FirstRow
    /\ content = [p \in Place |-> {}] /\ filled = {Volume}
    /\ journal = "none" /\ gate = FALSE /\ inFlight = FALSE
    /\ at = [a \in Actor |-> "idle"]
    /\ job = [a \in Actor |-> NoJob]
    /\ up = "up" /\ writes = 0 /\ asked = 0 /\ faults = 0 /\ history = {}

Goto(a, point) == at' = [at EXCEPT ![a] = point]
From(a, here, there) == at[a] = here /\ Goto(a, there)
Over(a) == Goto(a, "idle") /\ job' = [job EXCEPT ![a] = NoJob]
Fault == faults < MaxFaults /\ faults' = faults + 1
Happened(events) == history' = history \union events
Idle(A) == \A a \in A : at[a] = "idle"

-----------------------------------------------------------------------------
(* recreateService, for an application, its rollback, and a change of access *)

\* Mutant: the container comes back published as it is by default.
WantedOpen(a) ==
    CASE a \in Patch -> [place |-> job[a].row.place, access |-> job[a].next]
      [] a \in Apply /\ at[a] = "running" -> [place |-> job[a].next, access |-> "open"]
      [] OTHER -> [place |-> job[a].row.place, access |-> "open"]

\* What the container is to be run with, as the request has it: the row it read
\* when it began, but for what it changes.
Wanted(a) ==
    CASE a \in Patch -> [place |-> job[a].row.place, access |-> job[a].next]
      [] a \in Apply /\ at[a] = "running" -> [place |-> job[a].next, access |-> job[a].row.access]
      [] OTHER -> [place |-> job[a].row.place, access |-> job[a].row.access]

Made(wanted, runs) == [exists |-> TRUE, place |-> wanted.place, access |-> wanted.access, runs |-> runs]

\* The gate has the port the container is to publish.
PortTaken(access) == access = "open" /\ gate

Removes(a) ==
    /\ From(a, "removing", "running") \/ From(a, "unmaking", "remaking")
    /\ box' = NoBox
    /\ UNCHANGED <<data, row, journal, memory, job, asked, up, faults, history>>

\* docker run, for which the name has to be free.  A service that was not running
\* is up for a moment and stopped again, or stays up if the stop fails.
Runs(a) ==
    /\ \/ /\ a \in Patch /\ From(a, "running", "writing")
       \/ /\ a \in Apply /\ From(a, "running", IF job[a].from # None THEN "verifying" ELSE "recording")
       \/ From(a, "remaking", "closing")
    /\ ~PortTaken(Wanted(a).access) /\ ~box.exists
    /\ \E runs \in {TRUE, job[a].row.status = "running"} : box' = Made(Wanted(a), runs)
    /\ filled' = filled \union {box'.place}
    /\ UNCHANGED <<content, writes, row, journal, memory, job, asked, up, faults, history>>

\* docker run fails, and may leave a container that never ran.  Where another
\* request has run one since the removal, that one stays.
RunFails(a) ==
    /\ \/ /\ a \in Patch /\ at[a] = "running" /\ Over(a)
          /\ gate' = (job[a].row.access = "restricted")
       \/ /\ a \in Apply /\ From(a, "running", "failing") /\ UNCHANGED <<job, gate>>
       \/ From(a, "remaking", "closing") /\ UNCHANGED <<job, gate>>
    /\ \/ (PortTaken(Wanted(a).access) \/ box.exists) /\ UNCHANGED faults
       \/ Fault
    /\ box' \in IF box.exists THEN {box} ELSE {NoBox, Made(Wanted(a), FALSE)}
    /\ Happened({"run failed"} \union (IF a \in Patch /\ box'.exists THEN {"cut"} ELSE {}))
    /\ UNCHANGED <<data, row, journal, inFlight, asked, up>>

-----------------------------------------------------------------------------
(* applyMounts and runApply *)

\* Mutant: a folder is filled whether or not there is something in it.
SourceAlways(p) == IF p \in Folder /\ p # row.place THEN box.place ELSE None

\* What a place is to be filled from: an empty folder, from where the container
\* has the data now.
Source(p) == IF p \in Folder /\ p # row.place /\ p \notin filled THEN box.place ELSE None

\* The operator has said yes to what is in the folder, or to giving one up.
Consent(p) == p # row.place /\ (p \in filled \/ row.place \in Folder)

ApplyAsked(a, p) ==
    /\ up = "up" /\ ~inFlight /\ asked < MaxAsked
    /\ From(a, "idle", "noting")
    /\ job' = [job EXCEPT ![a] = [NoJob EXCEPT !.row = row, !.next = p, !.from = Source(p)]]
    /\ asked' = asked + 1
    /\ Happened(UNION {
          IF Idle(Actor) THEN {} ELSE {"overlap"},
          IF Idle(Apply) THEN {} ELSE {"crossed"},
          IF Consent(p) THEN {"chosen"} ELSE {}})
    /\ UNCHANGED <<box, data, row, journal, memory, up, faults>>

Notes(a) ==
    /\ From(a, "noting", IF job[a].from # None THEN "stopping" ELSE "removing")
    /\ journal' = "applying" /\ inFlight' = TRUE
    /\ UNCHANGED <<box, data, row, gate, job, asked, up, faults, history>>

NoteFails(a) ==
    /\ at[a] = "noting" /\ Over(a) /\ Fault
    /\ UNCHANGED <<box, data, row, journal, memory, asked, up, history>>

\* Mutant: the engine goes on while its files are copied.
StopsNothing(a) ==
    /\ box.exists /\ From(a, "stopping", "seeding")
    /\ UNCHANGED <<box, data, row, journal, memory, job, asked, up, faults, history>>

\* docker stop; the row is left as it is.
Stops(a) ==
    /\ box.exists /\ From(a, "stopping", "seeding")
    /\ box' = [box EXCEPT !.runs = FALSE]
    /\ UNCHANGED <<data, row, journal, memory, job, asked, up, faults, history>>

SeedBegins(a) ==
    /\ From(a, "seeding", "copying")
    /\ job' = [job EXCEPT ![a].copied = content[job[a].from]]
    /\ filled' = filled \union {job[a].next}
    /\ UNCHANGED <<box, content, writes, row, journal, memory, asked, up, faults, history>>

\* The copy covers what it finds.
SeedEnds(a) ==
    /\ From(a, "copying", "removing")
    /\ content' = [content EXCEPT ![job[a].next] = job[a].copied]
    /\ UNCHANGED <<box, filled, writes, row, journal, memory, job, asked, up, faults, history>>

\* The engine answers.
Verifies(a) ==
    /\ From(a, "verifying", "recording") /\ box.runs
    /\ UNCHANGED <<box, data, row, journal, memory, job, asked, up, faults, history>>

\* The list is written last.
Records(a) ==
    /\ From(a, "recording", "finishing")
    /\ row' = [row EXCEPT !.place = job[a].next]
    /\ UNCHANGED <<box, data, journal, memory, job, asked, up, faults, history>>

Finishes(a) ==
    /\ at[a] = "finishing" /\ Over(a)
    /\ journal' = "done" /\ inFlight' = FALSE
    /\ UNCHANGED <<box, data, row, gate, asked, up, faults, history>>

\* A call or a statement throws; without a container there is nothing to stop,
\* and an engine that does not run does not answer.
Throws(a) ==
    /\ at[a] \in {"stopping", "seeding", "copying", "verifying", "recording", "finishing"}
    /\ Goto(a, "failing")
    /\ \/ at[a] = "stopping" /\ ~box.exists /\ UNCHANGED faults
       \/ at[a] = "verifying" /\ ~box.runs /\ UNCHANGED faults
       \/ Fault
    /\ Happened(IF at[a] \in {"verifying", "recording", "finishing"} THEN {"strayed"} ELSE {})
    /\ UNCHANGED <<box, data, row, journal, memory, job, asked, up>>

\* Rolling back: the container is put back on the list before.
Fails(a) ==
    /\ From(a, "failing", "unmaking")
    /\ UNCHANGED <<box, data, row, journal, memory, job, asked, up, faults, history>>

Closes(a) ==
    /\ at[a] = "closing" /\ Over(a)
    /\ journal' = "failed" /\ inFlight' = FALSE
    /\ UNCHANGED <<box, data, row, gate, asked, up, faults, history>>

\* The statement that says so fails too: the journal is left as it is.
GivesUp(a) ==
    /\ at[a] \in {"failing", "closing"} /\ Over(a) /\ Fault
    /\ inFlight' = FALSE
    /\ Happened(IF at[a] = "failing" THEN {"strayed"} ELSE {})
    /\ UNCHANGED <<box, data, row, journal, gate, asked, up>>

ApplyStep(a) ==
    \/ Notes(a) \/ NoteFails(a) \/ Stops(a) \/ SeedBegins(a) \/ SeedEnds(a)
    \/ Verifies(a) \/ Records(a) \/ Finishes(a)
    \/ Throws(a) \/ Fails(a) \/ Closes(a) \/ GivesUp(a)

-----------------------------------------------------------------------------
(* PATCH, as far as the access goes *)

\* syncGate: the gate cannot have a port the container publishes.
Synced(access) == access = "restricted" /\ ~(box.runs /\ box.access = "open")

\* The access is the same as before: the container is left alone.
PatchAsked(p, access) ==
    /\ up = "up" /\ asked < MaxAsked
    /\ From(p, "idle", IF access = row.access THEN "writing" ELSE "closing gate")
    /\ job' = [job EXCEPT ![p] = [NoJob EXCEPT !.row = row, !.next = access]]
    /\ asked' = asked + 1
    /\ Happened(IF Idle(Actor) THEN {} ELSE {"overlap"})
    /\ UNCHANGED <<box, data, row, journal, memory, up, faults>>

ClosesGate(p) ==
    /\ From(p, "closing gate", "removing")
    /\ gate' = FALSE
    /\ UNCHANGED <<box, data, row, journal, inFlight, job, asked, up, faults, history>>

Recreated(p) == job[p].next # job[p].row.access

Writes(p) ==
    /\ From(p, "writing", "syncing")
    /\ row' = [row EXCEPT !.access = job[p].next,
                          !.status = IF Recreated(p) THEN job[p].row.status ELSE @]
    /\ UNCHANGED <<box, data, journal, memory, job, asked, up, faults, history>>

WriteFails(p) ==
    /\ at[p] = "writing" /\ Over(p) /\ Fault
    /\ Happened(IF Recreated(p) THEN {"cut"} ELSE {})
    /\ UNCHANGED <<box, data, row, journal, memory, asked, up>>

Syncs(p) ==
    /\ at[p] = "syncing" /\ Over(p)
    /\ gate' = Synced(job[p].next)
    /\ UNCHANGED <<box, data, row, journal, inFlight, asked, up, faults, history>>

PatchStep(p) == ClosesGate(p) \/ Writes(p) \/ WriteFails(p) \/ Syncs(p)

-----------------------------------------------------------------------------
(* The operator, the engine, and the panel *)

\* The control route, or a scheduled restart: neither asks after an application.
Starts ==
    /\ up = "up" /\ box.exists /\ ~box.runs /\ ~PortTaken(box.access)
    /\ box' = [box EXCEPT !.runs = TRUE]
    /\ filled' = filled \union {box.place}
    /\ row' = [row EXCEPT !.status = "running"]
    /\ Happened(IF Idle(Apply) THEN {} ELSE {"disturbed"})
    /\ UNCHANGED <<content, writes, journal, memory, requests, up, faults>>

Halts ==
    /\ up = "up" /\ box.runs
    /\ box' = [box EXCEPT !.runs = FALSE]
    /\ row' = [row EXCEPT !.status = "stopped"]
    /\ UNCHANGED <<data, journal, memory, requests, up, faults, history>>

TakesWrite ==
    /\ box.runs /\ writes < MaxWrites
    /\ writes' = writes + 1
    /\ content' = [content EXCEPT ![box.place] = @ \union {writes'}]
    /\ UNCHANGED <<box, filled, row, journal, memory, requests, up, faults, history>>

Dies ==
    /\ up # "down" /\ Fault
    /\ up' = "down"
    /\ gate' = FALSE /\ inFlight' = FALSE
    /\ at' = [a \in Actor |-> "idle"] /\ job' = [a \in Actor |-> NoJob]
    /\ Happened(UNION {
          IF \E p \in Patch : at[p] = "running" THEN {"patch died"} ELSE {},
          IF \E p \in Patch : at[p] = "writing" /\ Recreated(p) THEN {"cut"} ELSE {},
          IF \E a \in Apply : at[a] \in {"verifying", "recording", "finishing", "failing", "unmaking"}
          THEN {"strayed"} ELSE {}})
    /\ UNCHANGED <<box, data, row, journal, asked>>

Boots == up = "down" /\ up' = "rebuilding" /\
    UNCHANGED <<box, data, row, journal, memory, requests, faults, history>>

\* Mutant: an interrupted application is explained, and no more.
RebuildsNothing ==
    /\ up = "rebuilding" /\ up' = "gating"
    /\ journal' = IF journal = "applying" THEN "failed" ELSE journal
    /\ UNCHANGED <<box, data, row, memory, requests, faults, history>>

\* reconcileMountApplies: an application cut short is not resumed, but a
\* container it left removed is run again, from the row.
Rebuilds ==
    /\ up = "rebuilding" /\ up' = "gating"
    /\ journal' = IF journal = "applying" THEN "failed" ELSE journal
    /\ IF journal = "applying" /\ ~box.exists
       THEN \/ /\ \E runs \in {TRUE, row.status = "running"} : box' = Made(row, runs)
               /\ UNCHANGED <<faults, history>>
            \/ Fault /\ Happened({"run failed"}) /\ UNCHANGED box
       ELSE UNCHANGED <<box, faults, history>>
    /\ UNCHANGED <<data, row, memory, requests>>

\* reconcileGates.
Gates ==
    /\ up = "gating" /\ up' = "up"
    /\ gate' = Synced(row.access)
    /\ UNCHANGED <<box, data, row, journal, inFlight, requests, faults, history>>

Next ==
    \/ \E a \in Actor : Removes(a) \/ Runs(a) \/ RunFails(a)
    \/ \E a \in Apply : ApplyStep(a) \/ \E p \in Place : ApplyAsked(a, p)
    \/ \E p \in Patch : PatchStep(p) \/ \E access \in Access : PatchAsked(p, access)
    \/ Starts \/ Halts \/ TakesWrite
    \/ Dies \/ Boots \/ Rebuilds \/ Gates

Spec == Init /\ [][Next]_vars

-----------------------------------------------------------------------------
(* Properties *)

Without(events) == history \cap events = {}

\* No write the engine ever took is erased: whatever fails, is interrupted or
\* rolled back, it is still in the place it was made or in a copy of it
\* (service-mounts.ts, "the previous locations were never written to").  Two
\* applications that came together may fill one folder, the second after the
\* engine has begun to write there.
NothingErased == Without({"crossed"}) => UNION {content[p] : p \in Place} = 1..writes

\* A running service is on all that was ever written to it, unless the operator
\* chose otherwise, somebody started it while it was copied, requests crossed,
\* or an application failed once its container was in the new place.
DataFollows ==
    Without({"chosen", "disturbed", "overlap", "strayed"}) /\ box.runs =>
        content[box.place] = 1..writes

\* "Recreating must not quietly re-open a restricted service": while the row
\* says restricted no container that runs publishes the port, through applications, their
\* rollbacks and boots, short of requests that cross or a change of access cut
\* between the container and the row.
RestrictedIsHidden ==
    Without({"overlap", "cut"}) /\ row.access = "restricted" /\ Idle(Patch) =>
        ~(box.runs /\ box.access = "open")

\* A service is not left without its container by an application, wherever the
\* panel dies, once it is back (instrumentation.ts, "the one state no operator can get out of").
ServiceStands ==
    up = "up" /\ Idle(Actor) /\ Without({"overlap", "run failed", "patch died"}) => box.exists
=============================================================================
