----------------------------- MODULE ProjectMounts -----------------------------
(***************************************************************************)
(* services/project-mounts.ts: the bind list of a project that runs in a    *)
(* container, applied by a copy out of the container and a restart, beside   *)
(* the settings, the restarts and the deploys of the same project.          *)
(*                                                                         *)
(* The list is one bind, there or not.  The rest of the contract is the     *)
(* number of the edit it comes from.  A list written by the settings' route  *)
(* itself, which seeds nothing, is the operator's own affair and left out.  *)
(***************************************************************************)
EXTENDS Naturals

CONSTANTS
    Apply,      \* requests to replace the list
    MaxEdits,   \* bound: saves of the settings
    MaxFaults,  \* bound: calls that fail and panels that die
    None

MountsAssumption == None \notin BOOLEAN /\ MaxEdits \in Nat /\ MaxFaults \in Nat

VARIABLES
    stored,     \* projects.builder_config
    deployed,   \* the contract of the last good deployment: resolved_contract
    building,   \* the bind the deploy under way read, or None
    box,        \* the bind of the container the app runs in, or None
    folder,     \* the host directory of the bind: empty, part of a copy, or a whole one
    journal,    \* projects.mount_apply has an application under way
    inFlight,   \* in memory: an application is under way
    apply,      \* the applications
    overlapped, \* history: an application was accepted over another
    shown,      \* the lists an open settings form may have read
    adopted,    \* history: the operator took the directory as it was
    edits,
    faults

vars == <<stored, deployed, building, box, folder, journal, inFlight, apply, overlapped, shown, adopted, edits, faults>>

Contract == [bind : BOOLEAN, edit : 0..MaxEdits]
Nowhere == [bind |-> FALSE, edit |-> 0]

Idle == [at |-> "idle", want |-> FALSE, base |-> Nowhere, seed |-> FALSE]
Steps == {"probing", "accepted", "seeding", "copying", "listing", "restarting", "closing",
          "undoing", "unlisting", "reviving", "failing", "over"}

Application == [at : Steps \cup {"idle"}, want : BOOLEAN, base : Contract, seed : BOOLEAN]

TypeOK ==
    /\ stored \in Contract
    /\ deployed \in BOOLEAN \cup {None}
    /\ building \in BOOLEAN \cup {None}
    /\ box \in BOOLEAN \cup {None}
    /\ folder \in {"empty", "part", "whole"}
    /\ journal \in BOOLEAN /\ inFlight \in BOOLEAN
    /\ apply \in [Apply -> Application]
    /\ overlapped \in BOOLEAN /\ adopted \in BOOLEAN /\ shown \subseteq BOOLEAN
    /\ edits \in 0..MaxEdits /\ faults \in 0..MaxFaults

\* Never deployed, or deployed as it is stored.
Init ==
    /\ stored = Nowhere
    /\ deployed \in {None, FALSE}
    /\ building = None
    /\ box = deployed
    /\ folder = "empty"
    /\ journal = FALSE /\ inFlight = FALSE
    /\ apply = [a \in Apply |-> Idle]
    /\ overlapped = FALSE /\ adopted = FALSE /\ shown = {FALSE}
    /\ edits = 0 /\ faults = 0

At(a, step) == apply[a].at = step
To(a, step) == apply' = [apply EXCEPT ![a].at = step]
Underway == \E a \in Apply : apply[a].at \notin {"idle", "over"}
Fault == faults < MaxFaults /\ faults' = faults + 1

\* restartFromLastDeployment runs the contract the deployment recorded, and answers
\* its refusals.
Restart == box' = IF deployed = None \/ building # None THEN box ELSE deployed

-----------------------------------------------------------------------------
(* applyProjectMounts *)

\* The row is read; a bind that is new needs an image to copy from.
Asks(a, want) ==
    LET fresh == want /\ ~stored.bind
    IN  /\ At(a, "idle")
        /\ ~inFlight /\ ~journal
        /\ fresh => deployed # None
        /\ apply' = [apply EXCEPT ![a] = [at |-> IF fresh THEN "probing" ELSE "accepted",
                                          want |-> want, base |-> stored, seed |-> FALSE]]
        /\ overlapped' = (overlapped \/ Underway)
        /\ UNCHANGED <<stored, deployed, building, box, folder, journal, inFlight, shown, adopted, edits, faults>>

\* Mutant: what a failed copy left in the directory is taken for the operator's own.
ProbesTaking(a, adopt) ==
    /\ At(a, "probing")
    /\ apply' = [apply EXCEPT ![a].at = "accepted", ![a].seed = (folder = "empty")]
    /\ UNCHANGED <<stored, deployed, building, box, folder, journal, inFlight, overlapped, shown, adopted, edits, faults>>

\* A directory with something in it is refused, unless the operator adopts it.
Probes(a, adopt) ==
    /\ At(a, "probing")
    /\ \/ /\ folder = "empty"
          /\ apply' = [apply EXCEPT ![a].at = "accepted", ![a].seed = TRUE]
          /\ UNCHANGED adopted
       \/ /\ folder # "empty"
          /\ To(a, IF adopt THEN "accepted" ELSE "over")
          /\ adopted' = (adopted \/ adopt)
    /\ UNCHANGED <<stored, deployed, building, box, folder, journal, inFlight, overlapped, shown, edits, faults>>

Journals(a) ==
    /\ At(a, "accepted")
    /\ journal' = TRUE /\ inFlight' = TRUE
    /\ To(a, IF apply[a].seed THEN "seeding" ELSE "listing")
    /\ UNCHANGED <<stored, deployed, building, box, folder, overlapped, shown, adopted, edits, faults>>

-----------------------------------------------------------------------------
(* runApply *)

\* phase writes this application's journal.
Seeds(a) ==
    /\ At(a, "seeding")
    /\ journal' = TRUE
    /\ folder' = "part"
    /\ To(a, "copying")
    /\ UNCHANGED <<stored, deployed, building, box, inFlight, overlapped, shown, adopted, edits, faults>>

Copies(a) ==
    /\ At(a, "copying")
    /\ folder' = "whole"
    /\ To(a, "listing")
    /\ UNCHANGED <<stored, deployed, building, box, journal, inFlight, overlapped, shown, adopted, edits, faults>>

\* write: the contract as it was read, with every default filled in.
Write(a, bind) ==
    /\ stored' = [apply[a].base EXCEPT !.bind = bind]
    /\ shown' = shown \cup {bind}

Lists(a) ==
    /\ At(a, "listing")
    /\ journal' = TRUE
    /\ Write(a, apply[a].want)
    /\ To(a, "restarting")
    /\ UNCHANGED <<deployed, building, box, folder, inFlight, overlapped, adopted, edits, faults>>

Restarts(a) ==
    /\ At(a, "restarting")
    /\ Restart
    /\ To(a, "closing")
    /\ UNCHANGED <<stored, deployed, building, folder, journal, inFlight, overlapped, shown, adopted, edits, faults>>

\* phase("done"), phase("failed").
Closes(a) ==
    /\ apply[a].at \in {"closing", "failing"}
    /\ journal' = FALSE /\ inFlight' = FALSE
    /\ To(a, "over")
    /\ UNCHANGED <<stored, deployed, building, box, folder, overlapped, shown, adopted, edits, faults>>

\* A call that fails: before the journal it is the request's answer.
Throws(a) ==
    /\ Fault
    /\ \/ apply[a].at \in {"probing", "accepted"} /\ To(a, "over")
       \/ apply[a].at \in {"seeding", "copying", "listing", "restarting", "closing"} /\ To(a, "undoing")
    /\ box' \in IF At(a, "restarting") THEN {box, None} ELSE {box}
    /\ UNCHANGED <<stored, deployed, building, folder, journal, inFlight, overlapped, shown, adopted, edits>>

Undoes(a) ==
    /\ At(a, "undoing")
    /\ journal' = TRUE
    /\ To(a, "unlisting")
    /\ UNCHANGED <<stored, deployed, building, box, folder, inFlight, overlapped, shown, adopted, edits, faults>>

Unlists(a) ==
    /\ At(a, "unlisting")
    /\ Write(a, apply[a].base.bind)
    /\ To(a, "reviving")
    /\ UNCHANGED <<deployed, building, box, folder, journal, inFlight, overlapped, adopted, edits, faults>>

Revives(a) ==
    /\ At(a, "reviving")
    /\ Restart
    /\ To(a, "failing")
    /\ UNCHANGED <<stored, deployed, building, folder, journal, inFlight, overlapped, shown, adopted, edits, faults>>

\* In the catch a failed statement of the rollback is noted, one of the journal is not.
UndoFails(a) ==
    /\ Fault
    /\ \/ apply[a].at \in {"undoing", "failing"} /\ To(a, "over") /\ inFlight' = FALSE
       \/ apply[a].at \in {"unlisting", "reviving"} /\ To(a, "failing") /\ UNCHANGED inFlight
    /\ box' \in IF At(a, "reviving") THEN {box, None} ELSE {box}
    /\ UNCHANGED <<stored, deployed, building, folder, journal, overlapped, shown, adopted, edits>>

ApplyStep(a) ==
    \/ Journals(a) \/ Seeds(a) \/ Copies(a) \/ Lists(a) \/ Restarts(a) \/ Closes(a)
    \/ Undoes(a) \/ Unlists(a) \/ Revives(a)
    \/ \E adopt \in BOOLEAN : Probes(a, adopt)

-----------------------------------------------------------------------------
(* The settings, the control routes, a deploy, the panel *)

\* The form carries the list it was opened with.
Saves(bind) ==
    /\ edits < MaxEdits /\ edits' = edits + 1
    /\ bind \in shown
    /\ stored' = [bind |-> bind, edit |-> edits + 1]
    /\ UNCHANGED <<deployed, building, box, folder, journal, inFlight, apply, overlapped, shown, adopted, faults>>

OperatorRestarts ==
    /\ deployed # None
    /\ Restart
    /\ UNCHANGED <<stored, deployed, building, folder, journal, inFlight, apply, overlapped, shown, adopted, edits, faults>>

\* The contract is read when a deploy begins, and recorded when it has gone well.
DeployReads ==
    /\ building = None
    /\ building' = stored.bind
    /\ UNCHANGED <<stored, deployed, box, folder, journal, inFlight, apply, overlapped, shown, adopted, edits, faults>>

DeployStarts ==
    /\ building # None
    /\ box' = building
    /\ UNCHANGED <<stored, deployed, building, folder, journal, inFlight, apply, overlapped, shown, adopted, edits, faults>>

DeployEnds ==
    /\ building # None
    /\ \/ box = building /\ deployed' = building /\ UNCHANGED faults
       \/ Fault /\ UNCHANGED deployed
    /\ building' = None
    /\ UNCHANGED <<stored, box, folder, journal, inFlight, apply, overlapped, shown, adopted, edits>>

\* The panel dies and comes back, and nobody reads the journal.
Dies ==
    /\ Fault
    /\ inFlight' = FALSE
    /\ apply' = [a \in Apply |-> IF apply[a].at = "idle" THEN Idle ELSE [apply[a] EXCEPT !.at = "over"]]
    /\ building' = None
    /\ UNCHANGED <<stored, deployed, box, folder, journal, overlapped, shown, adopted, edits>>

Next ==
    \/ \E a \in Apply :
        ApplyStep(a) \/ Throws(a) \/ UndoFails(a) \/ \E want \in BOOLEAN : Asks(a, want)
    \/ (\E bind \in BOOLEAN : Saves(bind)) \/ OperatorRestarts
    \/ DeployReads \/ DeployStarts \/ DeployEnds
    \/ Dies

Spec == Init /\ [][Next]_vars

-----------------------------------------------------------------------------
(* Properties *)

\* No container is given a bind over a directory that was not filled from it,
\* through failures, rollbacks, forms saved late and deaths at any step, unless the
\* operator took the directory as it was or two applications were accepted at once
\* (project-mounts.ts, mount-seed.ts).
BoundIsSeeded == adopted \/ overlapped \/ (stored.bind \/ box = TRUE => folder = "whole")

\* "saving the settings tab must not be able to revert a list edited here"
\* (mounts/route.ts:19), nor an application a saved setting.
EditsKept == stored.edit = edits

\* "Riavvio il container con la nuova lista" (project-mounts.ts:259): an application
\* that ends well has its list in force.
AppliedIsInForce == \A a \in Apply : At(a, "closing") => box = apply[a].want
=============================================================================
