------------------------------ MODULE ProjectGate -------------------------------
(***************************************************************************)
(* services/access-gate.ts, services/access.ts and who calls them for a     *)
(* project: the app of a restricted one listens on loopback, and the panel  *)
(* holds its public port and lets through whom the rules admit.             *)
(*                                                                         *)
(* The project has one public port, one on loopback, a build to start, and  *)
(* is not compose nor on the host's network.                               *)
(***************************************************************************)
EXTENDS Naturals

CONSTANTS
    Restart,    \* requests to start or restart, those of a schedule included
    Deploy,
    Patch,      \* changes of the access columns
    Delete,
    List,       \* the lists of admitted addresses
    MaxFaults,  \* bound: starts and binds that fail, and panels that die
    None

GateAssumption == MaxFaults \in Nat

VARIABLES
    row,        \* projects.access_*: the mode and the list, or None once deleted
    status,     \* projects.status; "stopped" stands for "error" too
    app,        \* where the app listens: "public", "loopback", or "down"
    gate,       \* "closed", "opening" (it listens and nobody knows it), or "open", in `gates`
    rules,      \* the list the open gate goes by, or None
    clients,    \* who is connected through the "gate", and through one since "closed"
    job,        \* the requests
    stale,      \* history: the row moved under somebody who had read it
    unapplied,  \* history: a change, or a gate, was to come about and did not
    faults

vars == <<row, status, app, gate, rules, clients, job, stale, unapplied, faults>>
history == <<stale, unapplied, faults>>

Job == Restart \cup Deploy \cup Patch \cup Delete
Access == [mode : {"open", "restricted"}, list : List]
Steps == {"building", "writing", "reading", "rereading", "closing", "waiting", "free", "recording",
          "syncing", "setting", "checking", "forgetting", "over"}
Request == [at : Steps \cup {"idle"}, row : Access \cup {None}, next : Access \cup {None}, up : BOOLEAN]
Idle == [at |-> "idle", row |-> None, next |-> None, up |-> FALSE]

TypeOK ==
    /\ row \in Access \cup {None}
    /\ status \in {"running", "stopped", "deploying"}
    /\ app \in {"public", "loopback", "down"}
    /\ gate \in {"closed", "opening", "open"}
    /\ rules \in List \cup {None}
    /\ clients \subseteq {"gate", "closed"}
    /\ job \in [Job -> Request]
    /\ stale \in BOOLEAN /\ unapplied \in BOOLEAN /\ faults \in 0..MaxFaults

\* As the panel comes up: the gate is what the row asks for.
Init ==
    /\ row \in Access
    /\ \/ status = "running" /\ app = (IF row.mode = "restricted" THEN "loopback" ELSE "public")
       \/ status = "stopped" /\ app = "down"
    /\ gate = IF row.mode = "restricted" THEN "open" ELSE "closed"
    /\ rules = IF row.mode = "restricted" THEN row.list ELSE None
    /\ clients = {}
    /\ job = [j \in Job |-> Idle]
    /\ stale = FALSE /\ unapplied = FALSE /\ faults = 0

At(j, step) == job[j].at = step
To(j, step) == job' = [job EXCEPT ![j] = IF step = "over" THEN [Idle EXCEPT !.at = "over"] ELSE [@ EXCEPT !.at = step]]
Under(j) == job[j].at \notin {"idle", "over"}
Fault == faults < MaxFaults /\ faults' = faults + 1

\* A change that is written and does not get applied.
Drops(j) == unapplied' = (unapplied \/ j \in Patch)

-----------------------------------------------------------------------------
(* access-gate.ts *)

\* closeGate forgets the gate and stops listening at once, and its promise waits for
\* the connections it had.  A gate being opened is in nobody's map.
CloseGate ==
    /\ gate' = IF gate = "open" THEN "closed" ELSE gate
    /\ rules' = None
    /\ clients' = IF "gate" \in clients THEN {"closed"} ELSE clients

\* Whoever found no gate to close does not wait.
Free(j) == At(j, "free") \/ (At(j, "waiting") /\ "closed" \notin clients)

\* The app is stopped, and with it what was connected through the gate.
AppIs(where) == app' = where /\ clients' = {}

-----------------------------------------------------------------------------
(* restartFromLastDeployment *)

RestartReads(j) ==
    /\ \/ j \in Restart /\ At(j, "idle") /\ row # None
       \/ At(j, "reading")
    /\ IF row = None \/ status = "deploying"
       THEN To(j, "over") /\ Drops(j)
       ELSE job' = [job EXCEPT ![j].at = "closing", ![j].row = row] /\ UNCHANGED unapplied
    /\ UNCHANGED <<row, status, app, gate, rules, clients, stale, faults>>

Closes(j) ==
    /\ At(j, "closing")
    /\ CloseGate
    /\ To(j, IF gate = "open" THEN "waiting" ELSE "free")
    /\ UNCHANGED <<row, status, app, history>>

\* Where the row that was read says.
Starts(j) ==
    LET where == IF job[j].row.mode = "restricted" THEN "loopback" ELSE "public"
    IN  /\ Free(j) /\ j \notin Delete
        /\ where = "public" => gate = "closed"
        /\ AppIs(where)
        /\ To(j, IF j \notin Deploy THEN "recording"
                 ELSE IF where = "loopback" THEN "syncing" ELSE "checking")
        /\ UNCHANGED <<row, status, gate, rules, history>>

\* It fails, or the gate has the port: then a container does not start, and a native
\* app goes down by itself.
StartFails(j) ==
    /\ Free(j) /\ j \notin Delete
    /\ \/ Fault
       \/ job[j].row.mode = "open" /\ gate # "closed" /\ UNCHANGED faults
    /\ AppIs("down")
    /\ \/ To(j, IF j \in Deploy THEN "checking" ELSE "over")
       \/ j \notin Deploy /\ To(j, "recording")
    /\ Drops(j)
    /\ UNCHANGED <<row, status, gate, rules, stale>>

Records(j) ==
    /\ At(j, "recording")
    /\ status' = "running"
    /\ To(j, "syncing")
    /\ UNCHANGED <<row, app, gate, rules, clients, history>>

-----------------------------------------------------------------------------
(* syncGate: what the row that was read asks for *)

After(j) == IF j \in Deploy THEN "checking" ELSE "over"

\* Mutant: an open row has no gate to ask about.
SyncsOpenKeeping(j) ==
    /\ At(j, "syncing") /\ job[j].row.mode = "open"
    /\ To(j, After(j))
    /\ UNCHANGED <<row, status, app, gate, rules, clients, history>>

SyncsOpen(j) ==
    /\ At(j, "syncing") /\ job[j].row.mode = "open"
    /\ CloseGate
    /\ To(j, After(j))
    /\ UNCHANGED <<row, status, app, history>>

\* A gate that is open takes the new rules as it is.
Swaps(j) ==
    /\ At(j, "syncing") /\ job[j].row.mode = "restricted" /\ gate = "open"
    /\ rules' = job[j].row.list
    /\ To(j, After(j))
    /\ UNCHANGED <<row, status, app, gate, clients, history>>

Listens(j) ==
    /\ At(j, "syncing") /\ job[j].row.mode = "restricted" /\ gate = "closed"
    /\ app # "public"
    /\ gate' = "opening"
    /\ To(j, "setting")
    /\ UNCHANGED <<row, status, app, rules, clients, history>>

Sets(j) ==
    /\ At(j, "setting")
    /\ gate' = "open" /\ rules' = job[j].row.list
    /\ To(j, After(j))
    /\ UNCHANGED <<row, status, app, clients, history>>

\* EADDRINUSE: the app, or an opening of somebody else, has the port.
Refused(j) ==
    /\ At(j, "syncing") /\ job[j].row.mode = "restricted"
    /\ \/ (gate = "opening" \/ (gate = "closed" /\ app = "public")) /\ UNCHANGED faults
       \/ gate = "closed" /\ Fault
    /\ To(j, After(j))
    /\ unapplied' = TRUE
    /\ UNCHANGED <<row, status, app, gate, rules, clients, stale>>

JobStep(j) ==
    \/ RestartReads(j) \/ Closes(j) \/ Starts(j) \/ Records(j)
    \/ SyncsOpen(j) \/ Swaps(j) \/ Listens(j) \/ Sets(j)

-----------------------------------------------------------------------------
(* The deploy *)

DeployReads(d) ==
    /\ At(d, "idle") /\ row # None /\ status # "deploying"
    /\ status' = "deploying"
    /\ job' = [job EXCEPT ![d].at = "building", ![d].row = row, ![d].up = (status = "running")]
    /\ UNCHANGED <<row, app, gate, rules, clients, history>>

\* A deploy of an open project does not look for a gate.
DeployStops(d) ==
    /\ At(d, "building")
    /\ IF job[d].up THEN AppIs("down") ELSE UNCHANGED <<app, clients>>
    /\ To(d, IF job[d].row.mode = "restricted" THEN "closing" ELSE "free")
    /\ UNCHANGED <<row, status, gate, rules, history>>

DeployFails(d) ==
    /\ At(d, "building")
    /\ To(d, "checking")
    /\ UNCHANGED <<row, status, app, gate, rules, clients, history>>

\* The health check passed, and the project is published whatever became of its app
\* since; or it did not, and an app that runs is an error.
DeployEnds(d) ==
    /\ At(d, "checking")
    /\ status' \in {"running", "stopped"}
    /\ To(d, "over")
    /\ UNCHANGED <<row, app, gate, rules, clients, history>>

-----------------------------------------------------------------------------
(* PATCH and DELETE *)

PatchReads(p, access) ==
    /\ At(p, "idle") /\ row # None
    /\ job' = [job EXCEPT ![p] = [at |-> "writing", row |-> row, next |-> access, up |-> (status = "running")]]
    /\ UNCHANGED <<row, status, app, gate, rules, clients, history>>

\* The app has to move when the mode changes: by a restart if the project was called
\* "running" when the request began, and at its next start if not.
PatchWrites(p) ==
    LET moves == job[p].next.mode # job[p].row.mode
    IN  /\ At(p, "writing")
        /\ row' = IF row = None THEN None ELSE job[p].next
        /\ stale' = (stale \/ \E j \in Job \ {p} : Under(j))
        /\ To(p, IF ~moves THEN "over" ELSE IF job[p].up THEN "reading" ELSE "rereading")
        /\ UNCHANGED <<status, app, gate, rules, clients, unapplied, faults>>

PatchReadsAgain(p) ==
    /\ At(p, "rereading")
    /\ IF row = None THEN To(p, "over") ELSE job' = [job EXCEPT ![p].at = "syncing", ![p].row = row]
    /\ unapplied' = (unapplied \/ app # "down")
    /\ UNCHANGED <<row, status, app, gate, rules, clients, stale, faults>>

DeleteReads(d) ==
    /\ At(d, "idle") /\ row # None
    /\ To(d, "closing")
    /\ UNCHANGED <<row, status, app, gate, rules, clients, history>>

Removes(d) ==
    /\ Free(d)
    /\ AppIs("down")
    /\ To(d, "forgetting")
    /\ UNCHANGED <<row, status, gate, rules, history>>

Forgets(d) ==
    /\ At(d, "forgetting")
    /\ row' = None
    /\ To(d, "over")
    /\ UNCHANGED <<status, app, gate, rules, clients, history>>

-----------------------------------------------------------------------------
(* The operator's stop, the app, its clients, the panel *)

OperatorStops ==
    /\ row # None
    /\ AppIs("down")
    /\ status' = "stopped"
    /\ UNCHANGED <<row, gate, rules, job, history>>

AppDies ==
    /\ app # "down"
    /\ AppIs("down")
    /\ UNCHANGED <<row, status, gate, rules, job, history>>

ClientConnects ==
    /\ gate = "open" /\ app = "loopback" /\ "gate" \notin clients
    /\ clients' = clients \cup {"gate"}
    /\ UNCHANGED <<row, status, app, gate, rules, job, history>>

ClientsLeave ==
    /\ clients # {}
    /\ clients' = {}
    /\ UNCHANGED <<row, status, app, gate, rules, job, history>>

\* The panel dies and comes back: recoverFromCrash and reconcileGates.
Dies ==
    LET wanted == row # None /\ row.mode = "restricted" /\ app # "public"
    IN  /\ Fault
        /\ job' = [j \in Job |-> IF At(j, "idle") THEN Idle ELSE [Idle EXCEPT !.at = "over"]]
        /\ gate' = IF wanted THEN "open" ELSE "closed"
        /\ rules' = IF wanted THEN row.list ELSE None
        /\ clients' = {}
        /\ status' = IF status = "deploying" THEN "stopped" ELSE status
        /\ unapplied' = (unapplied \/ \E p \in Patch : Under(p) /\ ~At(p, "writing"))
        /\ UNCHANGED <<row, app, stale>>

Next ==
    \/ \E j \in Job : JobStep(j) \/ StartFails(j) \/ Refused(j)
    \/ \E d \in Deploy : DeployReads(d) \/ DeployStops(d) \/ DeployFails(d) \/ DeployEnds(d)
    \/ \E p \in Patch : PatchWrites(p) \/ PatchReadsAgain(p) \/ \E access \in Access : PatchReads(p, access)
    \/ \E d \in Delete : DeleteReads(d) \/ Removes(d) \/ Forgets(d)
    \/ OperatorStops \/ AppDies \/ ClientConnects \/ ClientsLeave
    \/ Dies

Spec == Init /\ [][Next]_vars

\* What the panel began it goes on with.
FairSpec == Spec /\ \A j \in Job : WF_vars(JobStep(j) \/ StartFails(j) \/ Refused(j))

-----------------------------------------------------------------------------
(* Properties *)

Quiet == \A j \in Job : ~Under(j)

\* Between two requests the port is held by whom the row says: the app if everybody may
\* reach it, the gate with the app behind it if not; unless the row moved under
\* somebody who had read it, or its change did not come to its end (access.ts).
PortMatchesRow ==
    Quiet /\ row # None /\ ~stale /\ ~unapplied =>
        IF row.mode = "restricted"
        THEN app # "public" /\ (app = "loopback" => gate = "open")
        ELSE app # "loopback" /\ gate = "closed"

\* "Editing the rules applies to new connections" (docs/en/network.md:21).
RulesInForce == Quiet /\ row # None /\ gate = "open" /\ ~stale /\ ~unapplied => rules = row.list

\* "A gate left open would keep holding the public port for a project that no longer
\* exists" (projects/[projectId]/route.ts:465).
GoneIsClosed == Quiet /\ row = None => gate = "closed"

\* "It has to let go before the app can take it back" (project-restart.ts:132): a
\* restart comes to its end, whoever is connected.
RestartEnds == \A r \in Restart : Under(r) ~> ~Under(r)
=============================================================================
