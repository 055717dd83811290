------------------------------ MODULE VolumePause ------------------------------
(***************************************************************************)
(* services/backup/volume-ops.ts and services/backup/pause-journal.ts: a    *)
(* backup freezes the containers that write to a volume while it copies it, *)
(* and a file remembers them, so that a panel that dies half way knows at   *)
(* its next boot, or at its next backup, what to resume.                    *)
(*                                                                         *)
(* One backup runs at a time (module Backups); its volumes come one after   *)
(* the other, and the copy itself is a stretch of time.  A docker call that *)
(* times out has had its effect by then, or never has it.                   *)
(***************************************************************************)
EXTENDS Naturals, FiniteSets

CONSTANTS
    Container,  \* the containers of the project
    Volume,     \* its volumes
    Mounts,     \* which containers have which volume mounted read-write
    MaxPauseFaults  \* bound: docker calls that fail and deaths of the panel, together

ASSUME PauseAssumption ==
    /\ Mounts \in [Volume -> SUBSET Container]
    /\ MaxPauseFaults \in Nat

VARIABLES
    state,      \* what the daemon knows of each container
    journal,    \* the ids in paused-containers.json
    panelAt,    \* where the panel is
    todo,       \* the volumes the backup has not reached
    pausable,   \* the writers of the volume it is copying
    paused,     \* those of them whose pause answered
    turn,       \* the containers the current loop has not reached
    out,        \* what the loop has collected: ids kept, or ids released
    pauseFaults,
    lost        \* history: frozen, and dropped because docker would not say so

panel == <<panelAt, todo, pausable, paused, turn, out>>
pauseVars == <<state, journal, panel, pauseFaults, lost>>

PauseTypeOK ==
    /\ state \in [Container -> {"running", "paused", "exited"}]
    /\ journal \subseteq Container
    /\ panelAt \in {"down", "booting", "idle", "resuming",
                   "planning", "pausing", "copying", "thawing"}
    /\ todo \subseteq Volume
    /\ pausable \subseteq Container /\ paused \subseteq pausable
    /\ turn \subseteq Container /\ out \subseteq Container
    /\ pauseFaults \in 0..MaxPauseFaults
    /\ lost \subseteq Container

PauseFault == pauseFaults < MaxPauseFaults /\ pauseFaults' = pauseFaults + 1
Becomes(c, s) == state' = [state EXCEPT ![c] = s]
Done(c) == turn' = turn \ {c}

\* A loop over some containers begins.
Loop(step, over) == panelAt' = step /\ turn' = over /\ out' = {}

-----------------------------------------------------------------------------
(* resumeAbandonedPauses, at boot and at the start of every backup *)

InPass == panelAt \in {"booting", "resuming"}

\* Mutant: a journal from another run is not read.
NobodyAbandoned == {}

Abandoned == journal

Boots ==
    /\ panelAt = "down"
    /\ Loop("booting", Abandoned)
    /\ UNCHANGED <<state, journal, todo, pausable, paused, pauseFaults, lost>>

BackupBegins ==
    /\ panelAt = "idle"
    /\ Loop("resuming", Abandoned)
    /\ todo' = Volume
    /\ UNCHANGED <<state, journal, pausable, paused, pauseFaults, lost>>

PassOver == IF panelAt = "booting" THEN "idle" ELSE "planning"

\* Docker cannot be asked: the file stays as it is.
PassSkipped ==
    /\ InPass /\ turn = Abandoned /\ out = {} /\ PauseFault
    /\ Loop(PassOver, {})
    /\ UNCHANGED <<state, journal, todo, pausable, paused, lost>>

\* One `docker unpause`, and a look at the container when it fails.
Resume(c) ==
    /\ InPass /\ c \in turn /\ Done(c)
    /\ \/ state[c] = "paused" /\ Becomes(c, "running")
          /\ lost' = lost \ {c} /\ UNCHANGED <<out, pauseFaults>>
       \/ state[c] # "paused"
          /\ UNCHANGED <<state, out, pauseFaults, lost>>
       \/ state[c] = "paused" /\ PauseFault /\ out' = out \union {c}
          /\ UNCHANGED <<state, lost>>
       \/ state[c] = "paused" /\ PauseFault /\ lost' = lost \union {c}   \* no answer to either
          /\ UNCHANGED <<state, out>>
    /\ UNCHANGED <<journal, panelAt, todo, pausable, paused>>

\* The file is written with what is left.
PassEnds ==
    /\ InPass /\ turn = {}
    /\ journal' = out
    /\ Loop(PassOver, {})
    /\ UNCHANGED <<state, todo, pausable, paused, pauseFaults, lost>>

-----------------------------------------------------------------------------
(* exportVolume *)

\* Mutant: record() replaces the entry instead of adding to it.
Replaced(ids) == ids

Recorded(ids) == journal \union ids

\* The writers that run now will be frozen, and are written down first.
PlanPause(v) ==
    LET writers == {c \in Mounts[v] : state[c] = "running"} IN
    /\ panelAt = "planning" /\ v \in todo /\ writers # {}
    /\ todo' = todo \ {v}
    /\ pausable' = writers /\ paused' = {}
    /\ journal' = Recorded(writers)
    /\ Loop("pausing", writers)
    /\ UNCHANGED <<state, pauseFaults, lost>>

\* Copied with nothing frozen: nobody writes, the project asked for a live
\* copy, or the volume is given up before the pause.
CopyLive(v) ==
    /\ panelAt = "planning" /\ v \in todo
    /\ todo' = todo \ {v}
    /\ UNCHANGED <<state, journal, panelAt, pausable, paused, turn, out, pauseFaults, lost>>

Pause(c) ==
    /\ panelAt = "pausing" /\ c \in turn /\ Done(c)
    /\ \/ state[c] = "running" /\ Becomes(c, "paused")
          /\ paused' = paused \union {c} /\ UNCHANGED pauseFaults
       \/ state[c] # "running" /\ UNCHANGED <<state, paused, pauseFaults>>
       \/ state[c] = "running" /\ PauseFault /\ UNCHANGED <<state, paused>>
       \/ state[c] = "running" /\ PauseFault /\ Becomes(c, "paused") /\ UNCHANGED paused
    /\ UNCHANGED <<journal, panelAt, todo, pausable, out, lost>>

Copying ==
    /\ panelAt = "pausing" /\ turn = {}
    /\ panelAt' = "copying"
    /\ UNCHANGED <<state, journal, todo, pausable, paused, turn, out, pauseFaults, lost>>

\* The copy is over, whole, failed, cancelled or out of time: the finally goes
\* over every container a pause was attempted on.
CopyOver ==
    /\ panelAt = "copying"
    /\ Loop("thawing", pausable)
    /\ UNCHANGED <<state, journal, todo, pausable, paused, pauseFaults, lost>>

\* Released when its unpause answers, or when it never answered to the pause
\* and is not seen frozen.
Thaw(c) ==
    /\ panelAt = "thawing" /\ c \in turn /\ Done(c)
    /\ \/ state[c] = "paused" /\ Becomes(c, "running")
          /\ out' = out \union {c} /\ UNCHANGED <<pauseFaults, lost>>
       \/ state[c] # "paused"
          /\ out' = (IF c \in paused THEN out ELSE out \union {c})
          /\ UNCHANGED <<state, pauseFaults, lost>>
       \/ state[c] = "paused" /\ PauseFault
          /\ UNCHANGED <<state, out, lost>>
       \/ state[c] = "paused" /\ c \notin paused /\ PauseFault     \* no answer to either
          /\ out' = out \union {c} /\ lost' = lost \union {c}
          /\ UNCHANGED state
    /\ UNCHANGED <<journal, panelAt, todo, pausable, paused>>

Release ==
    /\ panelAt = "thawing" /\ turn = {}
    /\ journal' = journal \ out
    /\ Loop("planning", {})
    /\ UNCHANGED <<state, todo, pausable, paused, pauseFaults, lost>>

BackupOver ==
    /\ panelAt = "planning" /\ todo = {}
    /\ panelAt' = "idle"
    /\ UNCHANGED <<state, journal, todo, pausable, paused, turn, out, pauseFaults, lost>>

-----------------------------------------------------------------------------
(* The world *)

\* The panel dies between any two steps; the containers and the file do not.
PanelDies ==
    /\ panelAt # "down" /\ PauseFault
    /\ Loop("down", {})
    /\ todo' = {} /\ pausable' = {} /\ paused' = {}
    /\ UNCHANGED <<state, journal, lost>>

\* A deploy, a control or a crash of the app ends a container or starts it.
ContainerStops(c) ==
    /\ state[c] # "exited" /\ Becomes(c, "exited")
    /\ lost' = lost \ {c}
    /\ UNCHANGED <<journal, panel, pauseFaults>>

ContainerStarts(c) ==
    /\ state[c] = "exited" /\ Becomes(c, "running")
    /\ UNCHANGED <<journal, panel, pauseFaults, lost>>

-----------------------------------------------------------------------------

PauseInit ==
    /\ state \in [Container -> {"running", "exited"}]
    /\ journal = {} /\ lost = {}
    /\ panelAt = "idle"
    /\ todo = {} /\ pausable = {} /\ paused = {}
    /\ turn = {} /\ out = {}
    /\ pauseFaults = 0

PanelStep ==
    \/ Boots \/ BackupBegins \/ PassEnds \/ Copying \/ CopyOver \/ Release \/ BackupOver
    \/ PassSkipped
    \/ \E c \in Container : Resume(c) \/ Pause(c) \/ Thaw(c)
    \/ \E v \in Volume : PlanPause(v) \/ CopyLive(v)

PauseNext ==
    \/ PanelStep
    \/ PanelDies
    \/ \E c \in Container : ContainerStops(c) \/ ContainerStarts(c)

PauseSpec == PauseInit /\ [][PauseNext]_pauseVars

\* The panel's own calls all have timeouts, systemd starts it again, and a
\* policy starts the next backup.  Nobody is obliged to fail or to stop.
FairPauseSpec == PauseSpec /\ WF_pauseVars(PanelStep)

-----------------------------------------------------------------------------
(* Properties *)

\* A container the panel froze is in the file for as long as it is frozen,
\* wherever the panel is and whatever fails (pause-journal.ts), but for the one
\* case where docker answers neither the unpause nor the look that follows it.
PausedIsJournaled ==
    \A c \in Container : state[c] = "paused" => c \in journal \union lost

\* An application is never left frozen for good.
FrozenThaws ==
    \A c \in Container : (state[c] = "paused") ~> (state[c] # "paused" \/ c \in lost)
=============================================================================
