----------------------------- MODULE CheckoutMove ------------------------------
(***************************************************************************)
(* services/project-repo.ts: a native project's checkout moved to another   *)
(* disk and back, with a symlink left at its home, and what else reaches    *)
(* the checkout meanwhile: the app, the operator, a deploy.                 *)
(*                                                                         *)
(* A directory is the set of the writes it holds; None is none there.       *)
(***************************************************************************)
EXTENDS Naturals

CONSTANTS
    Move,       \* requests for a move
    Outside,    \* directories the checkout may be moved to
    MaxWrites,  \* bound: writes to the checkout
    MaxFaults,  \* bound: calls that fail and panels that die
    None

MoveAssumption ==
    /\ None \notin Outside \cup {"home", "aside"} /\ Outside \cap {"home", "aside"} = {}
    /\ \A written \in SUBSET (1..MaxWrites) : written # None
    /\ MaxWrites \in Nat /\ MaxFaults \in Nat

VARIABLES
    link,       \* where the symlink at home points, or None
    holds,      \* what is at each place
    torn,       \* the places where a copy stopped half way
    app,        \* the place the app runs in, or None
    status,     \* projects.status
    repoPath,   \* projects.repo_path
    journal,    \* projects.repo_move: its phase, and the copy left behind
    inFlight,   \* in memory: a move is under way
    move,       \* the moves
    discarding, \* a DELETE has removed the copy left behind and not noted it
    made,       \* the writes so far
    safe,       \* history: the writes made where home led, to a whole copy, while none was being made
    overlapped, \* history: two moves were accepted over one another
    cut,        \* history: a move ended without its last statement, or was not undone whole
    faults

disk == <<link, holds, torn, app>>
row == <<status, repoPath, journal>>
vars == <<disk, row, inFlight, move, discarding, made, safe, overlapped, cut, faults>>

Place == {"home", "aside"} \cup Outside
Writes == SUBSET (1..MaxWrites)

Idle == [at |-> "idle", from |-> None, to |-> None,
         running |-> FALSE, moved |-> FALSE, unlinked |-> FALSE, left |-> None]
Steps == {"accepted", "stopping", "seeding", "copying", "verifying", "recreating", "renaming", "linking",
          "recording", "restarting", "closing", "undoing", "reviving", "failing", "over"}
Moving == [at : Steps, from : Outside \cup {"home"}, to : Outside \cup {"home"}, running : BOOLEAN,
           moved : BOOLEAN, unlinked : BOOLEAN, left : Place \cup {None}]

\* TERMINAL, and no journal.
Ended == {"none", "done", "failed"}

TypeOK ==
    /\ link \in Outside \cup {None}
    /\ holds \in [Place -> Writes \cup {None}]
    /\ torn \subseteq Place
    /\ app \in Place \cup {None}
    /\ status \in {"running", "stopped", "deploying"}
    /\ repoPath \in Outside \cup {None}
    /\ journal \in [phase : Ended \cup {"moving"}, left : Place \cup {None}]
    /\ inFlight \in BOOLEAN
    /\ move \in [Move -> Moving \cup {Idle}]
    /\ discarding \in BOOLEAN
    /\ made \in 0..MaxWrites /\ safe \subseteq 1..made /\ overlapped \in BOOLEAN /\ cut \in BOOLEAN
    /\ faults \in 0..MaxFaults

\* Never moved, or moved once and the first copy kept or deleted.
Init ==
    /\ link \in Outside \cup {None}
    /\ \E kept \in BOOLEAN :
        /\ holds = [p \in Place |->
                IF p = (IF link = None THEN "home" ELSE link) \/ (p = "aside" /\ link # None /\ kept)
                THEN {} ELSE None]
        /\ journal = [phase |-> IF link = None THEN "none" ELSE "done",
                      left  |-> IF link # None /\ kept THEN "aside" ELSE None]
    /\ repoPath = link
    /\ torn = {}
    /\ \/ status = "running" /\ app = (IF link = None THEN "home" ELSE link)
       \/ status = "stopped" /\ app = None
    /\ inFlight = FALSE
    /\ move = [m \in Move |-> Idle]
    /\ discarding = FALSE
    /\ made = 0 /\ safe = {} /\ overlapped = FALSE /\ cut = FALSE /\ faults = 0

\* repoLocation: where home leads.
Real == IF link # None THEN link ELSE "home"
Leads == holds[Real] # None

At(m, step) == move[m].at = step
To(m, step) == move' = [move EXCEPT ![m].at = step]
Returning(m) == move[m].to = "home"

\* What runs between two awaits runs alone in the panel, but not on the disk.
Free == \A m \in Move : move[m].at \notin {"copying", "renaming", "linking"}

Underway == \E m \in Move : move[m].at \notin {"idle", "over"}
Copied == \E m \in Move : move[m].at \notin {"idle", "accepted", "stopping", "seeding", "over"}
Fault == faults < MaxFaults /\ faults' = faults + 1

\* restartFromLastDeployment, which answers its refusals and does not throw them.
Restart ==
    IF status # "deploying" /\ Leads
    THEN app' = Real /\ status' = "running"
    ELSE UNCHANGED <<app, status>>

-----------------------------------------------------------------------------
(* startRepoMove *)

\* The row is read and the checks run over it and over the disk.
Asks(m, t) ==
    /\ At(m, "idle") /\ Free
    /\ ~inFlight /\ journal.phase \in Ended
    /\ Leads /\ Real # t
    /\ t # "home" => holds[t] = None
    /\ move' = [move EXCEPT ![m] = [Idle EXCEPT !.at = "accepted", !.from = Real, !.to = t,
                                                !.running = (status = "running")]]
    /\ overlapped' = (overlapped \/ Underway)
    /\ UNCHANGED <<disk, row, inFlight, discarding, made, safe, cut, faults>>

Journals(m) ==
    /\ At(m, "accepted") /\ Free
    /\ journal' = [phase |-> "moving", left |-> None]
    /\ inFlight' = TRUE
    /\ To(m, "stopping")
    /\ UNCHANGED <<disk, status, repoPath, discarding, made, safe, overlapped, cut, faults>>

-----------------------------------------------------------------------------
(* runMove *)

\* phase writes this move's own journal, whoever wrote another.
Phase(m, phase) == journal' = [phase |-> phase, left |-> move[m].left]

\* A stop that fails is taken for a process already down.
Stops(m) ==
    /\ At(m, "stopping") /\ Free
    /\ Phase(m, "moving")
    /\ \/ app' = (IF move[m].running THEN None ELSE app) /\ UNCHANGED faults
       \/ move[m].running /\ Fault /\ UNCHANGED app
    /\ To(m, "seeding")
    /\ UNCHANGED <<link, holds, torn, status, repoPath, inFlight, discarding, made, safe, overlapped, cut>>

\* The link makes way when home is where the copy goes.
Seeds(m) ==
    LET unlinks == Returning(m) /\ link # None
    IN  /\ At(m, "seeding") /\ Free
        /\ Phase(m, "moving")
        /\ holds[move[m].from] # None
        /\ Returning(m) => Leads
        /\ link' = IF unlinks THEN None ELSE link
        /\ holds' = [holds EXCEPT ![move[m].to] = IF @ = None THEN {} ELSE @]
        /\ torn' = torn \cup {move[m].to}
        /\ move' = [move EXCEPT ![m].at = "copying", ![m].unlinked = unlinks]
        /\ UNCHANGED <<app, status, repoPath, inFlight, discarding, made, safe, overlapped, cut, faults>>

\* Mutant: a copy that stopped half way goes on like a whole one.
CopiesSome(m) ==
    /\ At(m, "copying")
    /\ holds[move[m].from] # None
    /\ \/ /\ holds' = [holds EXCEPT ![move[m].to] = @ \cup holds[move[m].from]]
          /\ torn' = (torn \ {move[m].to}) \cup {p \in {move[m].to} : move[m].from \in torn}
       \/ UNCHANGED <<holds, torn>>
    /\ To(m, "verifying")
    /\ UNCHANGED <<link, app, row, inFlight, discarding, made, safe, overlapped, cut, faults>>

Copies(m) ==
    /\ At(m, "copying")
    /\ holds[move[m].from] # None
    /\ holds' = [holds EXCEPT ![move[m].to] = @ \cup holds[move[m].from]]
    /\ torn' = (torn \ {move[m].to}) \cup {p \in {move[m].to} : move[m].from \in torn}
    /\ To(m, "verifying")
    /\ UNCHANGED <<link, app, row, inFlight, discarding, made, safe, overlapped, cut, faults>>

Verifies(m) ==
    /\ At(m, "verifying") /\ Free
    /\ Phase(m, "moving")
    /\ To(m, "recreating")
    /\ UNCHANGED <<disk, status, repoPath, inFlight, discarding, made, safe, overlapped, cut, faults>>

\* What an earlier move left aside makes way.
Clears(m) ==
    /\ At(m, "recreating") /\ Free /\ ~Returning(m)
    /\ Phase(m, "moving")
    /\ holds' = [holds EXCEPT !["aside"] = None]
    /\ torn' = torn \ {"aside"}
    /\ app' = IF app = "aside" THEN None ELSE app
    /\ To(m, "renaming")
    /\ UNCHANGED <<link, status, repoPath, inFlight, discarding, made, safe, overlapped, cut, faults>>

\* Home is set aside, or its link removed.
SetsAside(m) ==
    /\ At(m, "renaming")
    /\ IF link # None
       THEN link' = None /\ UNCHANGED <<holds, torn, app>>
       ELSE /\ holds["home"] # None
            /\ holds' = [holds EXCEPT !["aside"] = holds["home"], !["home"] = None]
            /\ torn' = (torn \ {"home"}) \cup {p \in {"aside"} : "home" \in torn}
            /\ app' = IF app = "home" THEN "aside" ELSE app
            /\ UNCHANGED link
    /\ move' = [move EXCEPT ![m].at = "linking", ![m].moved = TRUE]
    /\ UNCHANGED <<row, inFlight, discarding, made, safe, overlapped, cut, faults>>

Links(m) ==
    /\ At(m, "linking")
    /\ link' = move[m].to
    /\ To(m, "recording")
    /\ UNCHANGED <<holds, torn, app, row, inFlight, discarding, made, safe, overlapped, cut, faults>>

\* Coming back there is nothing to link.
Skips(m) ==
    /\ At(m, "recreating") /\ Free /\ Returning(m)
    /\ Phase(m, "moving")
    /\ To(m, "recording")
    /\ UNCHANGED <<disk, status, repoPath, inFlight, discarding, made, safe, overlapped, cut, faults>>

Records(m) ==
    /\ At(m, "recording") /\ Free
    /\ repoPath' = IF Returning(m) THEN None ELSE move[m].to
    /\ To(m, "restarting")
    /\ UNCHANGED <<disk, status, journal, inFlight, discarding, made, safe, overlapped, cut, faults>>

\* What is left behind is known once the app is up.
Restarts(m) ==
    LET left == IF Returning(m) THEN move[m].from ELSE IF holds["aside"] # None THEN "aside" ELSE None
    IN  /\ At(m, "restarting") /\ Free
        /\ IF move[m].running THEN Restart ELSE UNCHANGED <<app, status>>
        /\ move' = [move EXCEPT ![m].at = "closing", ![m].left = left]
        /\ UNCHANGED <<link, holds, torn, repoPath, journal, inFlight, discarding, made, safe, overlapped, cut, faults>>

Closes(m) ==
    /\ At(m, "closing") /\ Free
    /\ Phase(m, "done")
    /\ inFlight' = FALSE
    /\ To(m, "over")
    /\ UNCHANGED <<disk, status, repoPath, discarding, made, safe, overlapped, cut, faults>>

\* A statement, a copy or a start that fails; a start may fail with the app down.
Throws(m) ==
    /\ Fault
    /\ IF At(m, "accepted") THEN To(m, "over")
       ELSE /\ move[m].at \notin {"idle", "undoing", "reviving", "failing", "over"}
            /\ To(m, "undoing")
    /\ app' \in IF At(m, "restarting") /\ move[m].running THEN {app, None} ELSE {app}
    /\ UNCHANGED <<link, holds, torn, row, inFlight, discarding, made, safe, overlapped, cut>>

\* A copy from what is gone, or a home that is: what another move did.
Misses(m) ==
    /\ \/ At(m, "seeding") /\ Free /\ (holds[move[m].from] = None \/ (Returning(m) /\ ~Leads))
       \/ At(m, "copying") /\ holds[move[m].from] = None
       \/ At(m, "renaming") /\ link = None /\ holds["home"] = None
    /\ To(m, "undoing")
    /\ UNCHANGED <<disk, row, inFlight, discarding, made, safe, overlapped, cut, faults>>

-----------------------------------------------------------------------------
(* Its catch *)

\* Another move has a directory where home was: it does not go back over it.
Blocked(m) == move[m].moved /\ link = None /\ holds["home"] # None /\ holds["aside"] # None

\* Mutant: the link that made way is not put back.
UndoesOutward(m) ==
    /\ At(m, "undoing") /\ Free /\ ~Blocked(m)
    /\ Phase(m, "moving")
    /\ CASE move[m].moved ->
            IF holds["aside"] # None
            THEN /\ link' = None
                 /\ holds' = [holds EXCEPT !["home"] = holds["aside"], !["aside"] = None]
                 /\ torn' = (torn \ {"aside"}) \cup {p \in {"home"} : "aside" \in torn}
                 /\ app' = IF app = "aside" THEN "home" ELSE app
                 /\ UNCHANGED cut
            ELSE /\ link' = None
                 /\ cut' = TRUE
                 /\ UNCHANGED <<holds, torn, app>>
         [] OTHER -> UNCHANGED <<disk, cut>>
    /\ To(m, "reviving")
    /\ UNCHANGED <<status, repoPath, inFlight, discarding, made, safe, overlapped, faults>>

\* Home goes back from aside, if it is there, or the link to where it pointed.
Undoes(m) ==
    /\ At(m, "undoing") /\ Free /\ ~Blocked(m)
    /\ Phase(m, "moving")
    /\ CASE move[m].moved ->
            IF holds["aside"] # None
            THEN /\ link' = None
                 /\ holds' = [holds EXCEPT !["home"] = holds["aside"], !["aside"] = None]
                 /\ torn' = (torn \ {"aside"}) \cup {p \in {"home"} : "aside" \in torn}
                 /\ app' = IF app = "aside" THEN "home" ELSE app
                 /\ UNCHANGED cut
            ELSE /\ link' = None
                 /\ cut' = TRUE
                 /\ UNCHANGED <<holds, torn, app>>
         [] ~move[m].moved /\ move[m].unlinked ->
            /\ link' = move[m].from
            /\ holds' = [holds EXCEPT !["home"] = None]
            /\ torn' = torn \ {"home"}
            /\ app' = IF app = "home" THEN None ELSE app
            /\ UNCHANGED cut
         [] OTHER -> UNCHANGED <<disk, cut>>
    /\ To(m, "reviving")
    /\ UNCHANGED <<status, repoPath, inFlight, discarding, made, safe, overlapped, faults>>

Revives(m) ==
    /\ At(m, "reviving") /\ Free
    /\ IF move[m].running THEN Restart ELSE UNCHANGED <<app, status>>
    /\ To(m, "failing")
    /\ UNCHANGED <<link, holds, torn, repoPath, journal, inFlight, discarding, made, safe, overlapped, cut, faults>>

Fails(m) ==
    /\ At(m, "failing") /\ Free
    /\ Phase(m, "failed")
    /\ inFlight' = FALSE
    /\ To(m, "over")
    /\ UNCHANGED <<disk, status, repoPath, discarding, made, safe, overlapped, cut, faults>>

\* The directory that took the link's place may be gone, whole or in part, when
\* the link cannot be put back.
HomeHalfUndone ==
    \/ UNCHANGED disk
    \/ /\ link' = None
       /\ holds' = [holds EXCEPT !["home"] = None]
       /\ torn' = torn \ {"home"}
       /\ app' = IF app = "home" THEN None ELSE app
    \/ /\ link = None /\ holds["home"] # None
       /\ torn' = torn \cup {"home"}
       /\ UNCHANGED <<link, holds, app>>

\* What fails in the catch: its first statement and its last leave it for good.
UndoFails(m) ==
    /\ Free
    /\ \/ /\ move[m].at \in {"undoing", "failing"} /\ Fault
          /\ inFlight' = FALSE
          /\ cut' = TRUE
          /\ To(m, "over")
          /\ UNCHANGED disk
       \/ /\ At(m, "undoing") /\ (move[m].moved \/ move[m].unlinked)
          /\ Fault \/ (Blocked(m) /\ UNCHANGED faults)
          /\ IF move[m].moved THEN link' \in {link, None} /\ UNCHANGED <<holds, torn, app>>
             ELSE HomeHalfUndone
          /\ cut' = TRUE
          /\ To(m, "failing")
          /\ UNCHANGED inFlight
       \/ /\ At(m, "reviving") /\ Fault
          /\ app' \in {app, None}
          /\ To(m, "failing")
          /\ UNCHANGED <<link, holds, torn, inFlight, cut>>
    /\ UNCHANGED <<row, discarding, made, safe, overlapped>>

MoveStep(m) ==
    \/ Journals(m) \/ Stops(m) \/ Seeds(m) \/ Copies(m) \/ Verifies(m) \/ Clears(m) \/ SetsAside(m) \/ Links(m)
    \/ Skips(m) \/ Records(m) \/ Restarts(m) \/ Closes(m) \/ Misses(m)
    \/ Undoes(m) \/ Revives(m) \/ Fails(m)

-----------------------------------------------------------------------------
(* deletePreviousCheckout *)

Discards ==
    /\ Free /\ ~discarding
    /\ journal.phase = "done" /\ journal.left = "aside"
    /\ holds' = [holds EXCEPT !["aside"] = None]
    /\ torn' = torn \ {"aside"}
    /\ app' = IF app = "aside" THEN None ELSE app
    /\ discarding' = TRUE
    /\ UNCHANGED <<link, row, inFlight, move, made, safe, overlapped, cut, faults>>

\* The journal is written as it was read.
Notes ==
    /\ Free /\ discarding
    /\ journal' = [phase |-> "done", left |-> None]
    /\ discarding' = FALSE
    /\ UNCHANGED <<disk, status, repoPath, inFlight, move, made, safe, overlapped, cut, faults>>

-----------------------------------------------------------------------------
(* The app, the control routes, a deploy, the panel *)

Write(p) ==
    /\ made < MaxWrites /\ made' = made + 1
    /\ holds' = [holds EXCEPT ![p] = @ \cup {made + 1}]
    /\ safe' = IF Copied \/ p \in torn \/ p # Real THEN safe ELSE safe \cup {made + 1}

AppWrites ==
    /\ app # None
    /\ Write(app)
    /\ UNCHANGED <<link, torn, app, row, inFlight, move, discarding, overlapped, cut, faults>>

OperatorStarts ==
    /\ Free /\ status # "deploying" /\ Leads
    /\ Restart
    /\ UNCHANGED <<link, holds, torn, repoPath, journal, inFlight, move, discarding, made, safe, overlapped, cut, faults>>

OperatorStops ==
    /\ Free /\ status = "running"
    /\ status' = "stopped" /\ app' = None
    /\ UNCHANGED <<link, holds, torn, repoPath, journal, inFlight, move, discarding, made, safe, overlapped, cut, faults>>

\* The source is fetched and built where home leads.
DeployFetches ==
    /\ Free /\ status # "deploying" /\ Leads
    /\ status' = "deploying"
    /\ Write(Real)
    /\ UNCHANGED <<link, torn, app, repoPath, journal, inFlight, move, discarding, overlapped, cut, faults>>

DeployEnds ==
    /\ Free /\ status = "deploying"
    /\ app' = IF Leads THEN Real ELSE app
    /\ status' = IF Leads THEN "running" ELSE "stopped"
    /\ UNCHANGED <<link, holds, torn, repoPath, journal, inFlight, move, discarding, made, safe, overlapped, cut, faults>>

\* The panel dies and comes back. PM2 and the app live on; a deploy does not.
Dies ==
    /\ Fault
    /\ inFlight' = FALSE
    /\ move' = [m \in Move |-> IF move[m].at = "idle" THEN Idle ELSE [move[m] EXCEPT !.at = "over"]]
    /\ discarding' = FALSE
    /\ status' = IF status = "deploying" THEN "stopped" ELSE status
    /\ cut' = (cut \/ Underway)
    /\ UNCHANGED <<disk, repoPath, journal, made, safe, overlapped>>

Next ==
    \/ \E m \in Move : MoveStep(m) \/ Throws(m) \/ UndoFails(m) \/ \E t \in Outside \cup {"home"} : Asks(m, t)
    \/ Discards \/ Notes
    \/ AppWrites \/ OperatorStarts \/ OperatorStops \/ DeployFetches \/ DeployEnds
    \/ Dies

Spec == Init /\ [][Next]_vars

-----------------------------------------------------------------------------
(* Properties *)

Whole(p) == holds[p] # None /\ p \notin torn

\* Wherever a move is, and however it was cut, the safe writes are at some place in
\* a copy that is whole.
NothingErased == overlapped \/ \E p \in Place : Whole(p) /\ safe \subseteq holds[p]

\* Between moves home leads to a whole checkout with the safe writes.
HomeLeads == Underway \/ overlapped \/ cut \/ (Whole(Real) /\ safe \subseteq holds[Real])

\* "Il progetto e' di nuovo com'era" (project-repo.ts:376): once a move is undone
\* home leads somewhere again.
UndoneIsBack == \A m \in Move : At(m, "reviving") => Leads
=============================================================================
