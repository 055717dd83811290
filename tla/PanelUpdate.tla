------------------------------ MODULE PanelUpdate ------------------------------
(***************************************************************************)
(* services/panel-update/run.ts and state.ts, with the boot that closes a   *)
(* run out (instrumentation.ts): the panel fetches, installs and builds its *)
(* next version beside the one it runs, swaps the two directories, exits,   *)
(* and learns at its next boot from a state file what became of it.        *)
(*                                                                         *)
(* Versions are numbers, 0 the one the story begins with.  The sources and  *)
(* node_modules are named by their version; log lines, the dump of the      *)
(* store and the reasons of refusals are left out.  Writing the state file  *)
(* succeeds, and so does the rename that puts the old build back.          *)
(***************************************************************************)
EXTENDS StoreSwap

CONSTANT MaxVersion     \* bound: commits pushed to the panel's branch

ASSUME VersionAssumption == MaxVersion \in Nat

VARIABLES
    head,       \* the branch of the panel, on its remote
    source,     \* the commit the checkout is at
    deps,       \* the commit node_modules was installed for, or Mixed
    live,       \* the build in .next
    previous,   \* the build in .next-old
    staging,    \* the build in .next-update
    file,       \* panel-update.json
    run,        \* where the update is, "idle" for none (in memory)
    exiting,    \* the timer that leaves the process (in memory)
    cleaning,   \* the timer that removes .next-old (in memory)
    supervised, \* something restarts the panel when it exits
    serving,    \* the build the process has loaded
    good,       \* history: the build that last came up, or that was put back
    stray,      \* history: an update was cut short, or failed where none was foreseen
    early       \* history: .next-old was removed by a boot that has not come up since

update == <<source, deps, live, previous, staging, file, run, exiting, cleaning, serving, good, stray, early>>
vars == <<proc, storeVars, faults, head, supervised, update>>

Version == 0..MaxVersion
None == -1      \* no such build
Mixed == -1     \* half installed
Phase == {"none", "running", "awaiting-restart", "awaiting-manual", "done", "failed"}
File == [phase : Phase, from : Version, to : Version, dist : BOOLEAN, booted : BOOLEAN]

\* The steps between which the process does nothing else.
InSwapOfBuilds == run \in {"clearing", "moving", "replacing", "replaced"}

TypeOK ==
    /\ StoreTypeOK
    /\ {head, source} \subseteq Version
    /\ {deps, live, previous, staging, serving, good} \subseteq Version \cup {None}
    /\ file \in File
    /\ run \in {"idle", "preparing", "fetching", "resetting", "installing", "building", "checking",
                "clearing", "moving", "replacing", "replaced", "undoing", "reinstalling"}
    /\ {exiting, cleaning, supervised, stray, early} \subseteq BOOLEAN

Init ==
    /\ StoreInit
    /\ head = 0 /\ source = 0 /\ deps = 0
    /\ live = 0 /\ previous = None /\ staging = None
    /\ file = [phase |-> "none", from |-> 0, to |-> 0, dist |-> FALSE, booted |-> FALSE]
    /\ run = "idle" /\ exiting = FALSE /\ cleaning = FALSE
    /\ supervised \in BOOLEAN
    /\ serving = 0 /\ good = 0 /\ stray = FALSE /\ early = FALSE

Elsewhere == UNCHANGED <<proc, storeVars, head, supervised, early>>
At(point) == proc = "up" /\ run = point
Ends(phase) == run' = "idle" /\ file' = [file EXCEPT !.phase = phase]

\* A step that throws where the code expects it, and one that is left to the
\* outer catch, which undoes nothing.
Refused == run' = "undoing"
Thrown == Ends("failed") /\ stray' = TRUE

-----------------------------------------------------------------------------
(* startPanelUpdate and beginUpdate *)

\* Someone presses the button; nothing blocks it.  The flag is down again as
\* soon as a run has returned, the timer to exit notwithstanding.
Press ==
    /\ At("idle")
    /\ run' = "preparing"
    /\ file' = [phase |-> "running", from |-> source, to |-> source, dist |-> FALSE, booted |-> FALSE]
    /\ Elsewhere
    /\ UNCHANGED <<source, deps, live, previous, staging, exiting, cleaning, serving, good, stray, faults>>

\* The checkout cannot be read: a finished run has been dismissed all the same.
PressFails ==
    /\ At("idle") /\ Fault
    /\ file' = IF file.phase \in {"done", "failed"} THEN [file EXCEPT !.phase = "none"] ELSE file
    /\ Elsewhere
    /\ UNCHANGED <<source, deps, live, previous, staging, run, exiting, cleaning, serving, good, stray>>

-----------------------------------------------------------------------------
(* execute *)

\* The preflight and the signature refuse before anything has moved.
Refuses ==
    /\ run \in {"preparing", "fetching"} /\ proc = "up"
    /\ Ends("failed")
    /\ Elsewhere
    /\ UNCHANGED <<source, deps, live, previous, staging, exiting, cleaning, serving, good, stray, faults>>

Prepares ==
    /\ At("preparing")
    /\ run' = "fetching"
    /\ Elsewhere
    /\ UNCHANGED <<source, deps, live, previous, staging, file, exiting, cleaning, serving, good, stray, faults>>

\* What is up to date is the checkout.
Fetches ==
    /\ At("fetching")
    /\ IF head = source
       THEN Ends("done")
       ELSE run' = "resetting" /\ file' = [file EXCEPT !.to = head]
    /\ Elsewhere
    /\ UNCHANGED <<source, deps, live, previous, staging, exiting, cleaning, serving, good, stray, faults>>

\* The checkout moves to what origin's branch has become: the commit the run
\* fetched, or a later one that an update check has fetched since.
Resets ==
    /\ At("resetting")
    /\ source' \in file.to..head
    /\ \/ run' = "installing" /\ deps' = Mixed
       \/ Refused /\ UNCHANGED deps
    /\ Elsewhere
    /\ UNCHANGED <<live, previous, staging, file, exiting, cleaning, serving, good, stray, faults>>

ResetThrows ==
    /\ At("resetting") /\ Fault
    /\ source' \in {source} \cup (file.to..head)
    /\ Thrown
    /\ Elsewhere
    /\ UNCHANGED <<deps, live, previous, staging, exiting, cleaning, serving, good>>

Installs ==
    /\ At("installing")
    /\ \/ deps' = source /\ run' = "building"
       \/ Refused /\ UNCHANGED deps
    /\ staging' = IF run' = "building" THEN None ELSE staging
    /\ Elsewhere
    /\ UNCHANGED <<source, live, previous, file, exiting, cleaning, serving, good, stray, faults>>

\* Minutes: the timers of a second and of a minute set before it have gone off.
Builds ==
    /\ At("building") /\ ~exiting /\ ~cleaning
    /\ \/ staging' = source /\ run' = "checking"
       \/ Refused /\ UNCHANGED staging
    /\ Elsewhere
    /\ UNCHANGED <<source, deps, live, previous, file, exiting, cleaning, serving, good, stray, faults>>

\* Nothing would restart it: the last steps are left to a person.
HandsOver ==
    /\ At("checking") /\ ~supervised
    /\ Ends("awaiting-manual")
    /\ Elsewhere
    /\ UNCHANGED <<source, deps, live, previous, staging, exiting, cleaning, serving, good, stray, faults>>

\* Mutant: the build is dropped, and nothing else is undone.
BlockedOnly ==
    /\ At("checking") /\ supervised
    /\ staging' = None
    /\ Ends("failed")
    /\ Elsewhere
    /\ UNCHANGED <<source, deps, live, previous, exiting, cleaning, serving, good, stray, faults>>

\* A deploy, a backup or a restore has begun meanwhile.
Blocked ==
    /\ At("checking") /\ supervised
    /\ staging' = None
    /\ Refused
    /\ Elsewhere
    /\ UNCHANGED <<source, deps, live, previous, file, exiting, cleaning, serving, good, stray, faults>>

\* The last check is passed, and the way back is written down.
Commits ==
    /\ At("checking") /\ supervised
    /\ run' = "clearing"
    /\ file' = [file EXCEPT !.dist = TRUE]
    /\ Elsewhere
    /\ UNCHANGED <<source, deps, live, previous, staging, exiting, cleaning, serving, good, stray, faults>>

Clears ==
    /\ At("clearing")
    /\ previous' = None
    /\ run' = "moving"
    /\ Elsewhere
    /\ UNCHANGED <<source, deps, live, staging, file, exiting, cleaning, serving, good, stray, faults>>

\* Mutant: the build in use is removed to make room.
MovesNothing ==
    /\ At("moving")
    /\ live' = None
    /\ run' = "replacing"
    /\ Elsewhere
    /\ UNCHANGED <<source, deps, previous, staging, file, exiting, cleaning, serving, good, stray, faults>>

MovesAside ==
    /\ At("moving")
    /\ previous' = live
    /\ live' = None
    /\ run' = "replacing"
    /\ Elsewhere
    /\ UNCHANGED <<source, deps, staging, file, exiting, cleaning, serving, good, stray, faults>>

Replaces ==
    /\ At("replacing")
    /\ live' = staging
    /\ staging' = None
    /\ run' = "replaced"
    /\ Elsewhere
    /\ UNCHANGED <<source, deps, previous, file, exiting, cleaning, serving, good, stray, faults>>

\* The old build goes back before anything else.
ReplaceFails ==
    /\ At("replacing") /\ Fault
    /\ live' = previous
    /\ previous' = None
    /\ file' = [file EXCEPT !.dist = FALSE]
    /\ Refused
    /\ Elsewhere
    /\ UNCHANGED <<source, deps, staging, exiting, cleaning, serving, good, stray>>

Announces ==
    /\ At("replaced")
    /\ Ends("awaiting-restart")
    /\ exiting' = TRUE
    /\ Elsewhere
    /\ UNCHANGED <<source, deps, live, previous, staging, cleaning, serving, good, stray, faults>>

\* A query, a removal or a rename outside the inner handlers.
StepThrows ==
    /\ \E point \in {"preparing", "fetching", "building", "checking", "clearing", "moving"} : At(point)
    /\ Fault
    /\ Thrown
    /\ Elsewhere
    /\ UNCHANGED <<source, deps, live, previous, staging, exiting, cleaning, serving, good>>

-----------------------------------------------------------------------------
(* rollbackSource, and finish("failed") after it *)

Undoes ==
    /\ At("undoing")
    /\ source' = file.from
    /\ run' = "reinstalling"
    /\ Elsewhere
    /\ UNCHANGED <<deps, live, previous, staging, file, exiting, cleaning, serving, good, stray, faults>>

Reinstalls ==
    /\ At("reinstalling")
    /\ deps' = source
    /\ Ends("failed")
    /\ Elsewhere
    /\ UNCHANGED <<source, live, previous, staging, exiting, cleaning, serving, good, stray, faults>>

\* It says so in the log and goes on.
UndoFails ==
    /\ At("undoing") \/ At("reinstalling")
    /\ Fault
    /\ deps' = IF run = "reinstalling" THEN Mixed ELSE deps
    /\ Thrown
    /\ Elsewhere
    /\ UNCHANGED <<source, live, previous, staging, exiting, cleaning, serving, good>>

RunStep ==
    \/ Refuses \/ Prepares \/ Fetches \/ Resets \/ ResetThrows \/ Installs \/ Builds
    \/ HandsOver \/ Blocked \/ Commits \/ Clears \/ MovesAside \/ Replaces \/ ReplaceFails
    \/ Announces \/ StepThrows \/ Undoes \/ Reinstalls \/ UndoFails

-----------------------------------------------------------------------------
(* The process *)

\* What dies with it.
Leaves ==
    /\ proc' = "down"
    /\ run' = "idle" /\ exiting' = FALSE /\ cleaning' = FALSE
    /\ stray' = (stray \/ run # "idle")
    /\ StoreDies
    /\ UNCHANGED <<head, supervised, source, deps, live, previous, staging, file, serving, good,
                   early>>

Exits == proc = "up" /\ exiting /\ ~InSwapOfBuilds /\ Leaves /\ UNCHANGED faults

\* It dies, at any point of a run or of a boot.
Dies == proc # "down" /\ Fault /\ Leaves

\* Someone restarts it, with the commands it gave them or without.
Restarted ==
    /\ proc = "up" /\ run = "idle" /\ file.phase = "awaiting-manual" /\ staging # None
    /\ proc' = "down"
    /\ exiting' = FALSE /\ cleaning' = FALSE
    /\ StoreDies
    /\ \/ UNCHANGED <<live, previous, staging>>
       \/ previous' = live /\ live' = staging /\ staging' = None
    /\ UNCHANGED <<head, supervised, source, deps, file, run, serving, good, stray, early,
                   faults>>

\* A panel that does not come back is put back by hand, with the commands the
\* state file and the log hold.
PutBack ==
    /\ proc = "down" /\ file.dist /\ previous # None
    /\ live' = previous /\ previous' = None
    /\ source' = file.from /\ deps' = file.from
    /\ good' = previous
    /\ UNCHANGED <<proc, storeVars, head, supervised, staging, file, run, exiting, cleaning, serving,
                   stray, early, faults>>

Boots ==
    /\ proc = "down" /\ live # None
    /\ Goes("swapping")
    /\ serving' = live
    /\ UNCHANGED <<storeVars, head, supervised, source, deps, live, previous, staging, file, run,
                   exiting, cleaning, good, stray, early, faults>>

SwapsStore == SwapStep /\ UNCHANGED <<head, supervised, update>>

\* Mutant: a run that was under way is left as it is.
SettledIfDone ==
    IF file.phase = "awaiting-restart" THEN [file EXCEPT !.phase = "done", !.booted = TRUE] ELSE file

\* settleOnBoot: what a run in progress means to a new process.
Settled ==
    CASE file.phase = "awaiting-restart" -> [file EXCEPT !.phase = "done", !.booted = TRUE]
      [] file.phase = "running" -> [file EXCEPT !.phase = "failed", !.booted = TRUE]
      [] OTHER -> file

Settles ==
    /\ proc = "settling"
    /\ file' = Settled
    /\ cleaning' = (file'.phase = "done" /\ file'.booted /\ file'.dist)
    /\ Goes("opening")
    /\ UNCHANGED <<storeVars, head, supervised, source, deps, live, previous, staging, run, exiting,
                   serving, good, stray, early, faults>>

\* The store opens, and the panel is up.
ComesUp ==
    /\ OpensStore
    /\ good' = serving
    /\ early' = FALSE
    /\ UNCHANGED <<head, supervised, source, deps, live, previous, staging, file, run, exiting,
                   cleaning, serving, stray>>

\* A minute after the boot has settled the run, which is not to say after the
\* panel has come up: opening the store may take longer than that.
Cleans ==
    /\ proc \in {"opening", "up"} /\ cleaning /\ ~InSwapOfBuilds
    /\ previous' = None
    /\ cleaning' = FALSE
    /\ early' = (early \/ proc = "opening")
    /\ UNCHANGED <<proc, storeVars, head, supervised, source, deps, live, staging, file, run, exiting,
                   serving, good, stray, faults>>

-----------------------------------------------------------------------------
Push ==
    /\ head < MaxVersion
    /\ head' = head + 1
    /\ UNCHANGED <<proc, storeVars, faults, supervised, update>>

RestoresStore == Restoring /\ ~InSwapOfBuilds /\ UNCHANGED <<head, supervised, update>>

Next ==
    \/ Press \/ PressFails \/ RunStep
    \/ Exits \/ Dies \/ Restarted \/ PutBack
    \/ Boots \/ SwapsStore \/ Settles \/ ComesUp \/ Cleans
    \/ Push \/ RestoresStore

Spec == Init /\ [][Next]_vars

\* Every wait of a run has a timeout, and the two timers go off.
FairSpec == Spec /\ WF_vars(RunStep) /\ WF_vars(Exits) /\ WF_vars(Cleans)

-----------------------------------------------------------------------------
(* Properties *)

\* The build that last came up is in .next or in .next-old: until the new one
\* has come back there is a way to it (run.ts, state.ts scheduleDistCleanup),
\* unless that boot was so long that the cleanup overtook it.
BuildKept == early \/ good \in {live, previous}

\* Neither an update nor a restore loses what would put the panel back, wherever
\* it is cut short, but for a way back cleaned up before the panel was up.
NothingLost == BuildKept /\ StoreKept /\ OwnJournal

\* A run that ends as failed, of itself, leaves the checkout and node_modules as
\* it found them: new dependencies under an old build is the one inconsistent
\* state an update can produce (run.ts, rollbackSource).
RefusalUndone ==
    ~stray /\ file.phase = "failed" => source = file.from /\ deps = file.from

\* A run does not spin for ever in the page: if the panel keeps coming up, what
\* is "running" becomes something else (state.ts, settleOnBoot).
RunSettles ==
    []<>(proc = "up") => [](file.phase = "running" => <>(file.phase # "running"))
=============================================================================
