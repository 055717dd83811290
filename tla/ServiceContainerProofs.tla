------------------------ MODULE ServiceContainerProofs -------------------------
(***************************************************************************)
(* What is proved of a service and its container, for any number of         *)
(* requests and of folders, and any bounds.                                 *)
(*                                                                         *)
(* The invariant follows a request from step to step: what kind of request  *)
(* may be where, that requests cross only where the history says so, that   *)
(* the folder being filled is still empty and nobody else's, and, for the   *)
(* four properties, where the data and the access are at each point of an   *)
(* application or a change of access.  A step is a request's, with the      *)
(* others where they were, a new request, or nobody's: WhoSteps and         *)
(* StepsAlone, which the proofs of the last four parts split on.            *)
(***************************************************************************)
EXTENDS ServiceContainer, TLAPS

\* Where an application can be, and where a change of access.
ApplyPoints == {"idle", "noting", "stopping", "seeding", "copying", "removing", "running", "verifying",
                "recording", "finishing", "failing", "unmaking", "remaking", "closing"}
PatchPoints == {"idle", "closing gate", "removing", "running", "writing", "syncing"}

\* A request is under way; at most one of a kind is.
Active(a) == at[a] # "idle"
OneOf(A) == \A a, b \in A : Active(a) /\ Active(b) => a = b

\* A request is where one of its kind can be, with what one of its kind is for.
JobsFit ==
    /\ \A a \in Apply : at[a] \in ApplyPoints /\ job[a].next \in Place
    /\ \A p \in Patch : at[p] \in PatchPoints /\ (Active(p) => job[p].next \in Access)
    /\ \A a \in Apply : at[a] \in {"stopping", "seeding", "copying"} => job[a].from # None
    /\ up # "up" => Idle(Actor)

\* Requests cross only where it is written down that they have.
CrossingsKnown ==
    /\ Without({"overlap"}) => OneOf(Actor)
    /\ Without({"crossed"}) => OneOf(Apply)

\* Whatever a container is, or will be, run on has something in it.
FilledPlaces ==
    /\ Volume \in filled /\ box.place \in filled /\ row.place \in filled
    /\ \A p \in Place : content[p] # {} => p \in filled
    /\ \A b \in Actor : job[b].row.place \in filled
    /\ \A a \in Apply :
          job[a].from = None \/ at[a] \in {"copying", "removing", "running", "verifying", "recording"}
              => job[a].next \in filled

\* The folder being filled is empty, and no container is run on it before it is full.
Sows(a) == at[a] \in {"noting", "stopping", "seeding", "copying"} /\ job[a].from # None

FolderIsFree ==
    Without({"crossed"}) => \A a \in Apply : Sows(a) =>
        /\ job[a].next \in Folder
        /\ content[job[a].next] = {}
        /\ job[a].next \notin {box.place, row.place}
        /\ \A b \in Actor : job[b].row.place # job[a].next
        /\ at[a] = "copying" => job[a].copied \subseteq 1..writes

\* The container is in the place it is to be moved to, and the row is not.
Away == {"verifying", "recording"}

\* What an application counts on for the data to be where it goes.
DataOf(a) ==
    /\ at[a] \in {"failing", "unmaking"} /\ box.runs => box.place = row.place
    /\ at[a] \in {"running", "remaking"} => ~box.exists
    /\ at[a] \in Away => box.exists /\ box.place = job[a].next
    /\ at[a] \in {"seeding", "copying", "running"} \/ (at[a] = "removing" /\ job[a].from # None) => ~box.runs
    /\ at[a] \in {"noting", "stopping"} /\ box.exists /\ job[a].from # None => job[a].from = row.place
    /\ at[a] = "seeding" => job[a].from = row.place
    /\ at[a] \in Away \union {"noting", "removing", "running"} /\ job[a].from = None => job[a].next = row.place
    /\ at[a] = "copying" => job[a].copied = 1..writes
    /\ at[a] \in Away \union {"removing", "running"} => content[job[a].next] = 1..writes

\* The data is where the row says, and so is the container; but for an
\* application that has run it in the new place, which then holds all of it.
DataInPlace ==
    Without({"chosen", "disturbed", "overlap", "strayed"}) =>
        /\ \A a \in Actor : at[a] \notin {"idle", "finishing"} => job[a].row.place = row.place
        /\ (\A a \in Apply : at[a] \notin Away \union {"failing", "unmaking"})
               => (box.exists => box.place = row.place)
        /\ (\A a \in Apply : at[a] \notin Away) => content[row.place] = 1..writes
        /\ \A a \in Apply : DataOf(a)

\* The container and the row say the same of the access, but between the two
\* steps of a change of it, when the container says what is to be.
AccessInPlace ==
    Without({"overlap", "cut"}) =>
        /\ \A a \in Actor : at[a] \notin {"idle", "syncing"} => job[a].row.access = row.access
        /\ (\A p \in Patch : at[p] # "writing") => (box.exists => box.access = row.access)
        /\ \A p \in Patch : at[p] = "writing" => (box.exists => box.access = job[p].next)

\* A container that was removed does not run.
RunsIfThere == box.runs => box.exists

\* A container that is removed is about to be made, by the request that removed
\* it or by a boot the journal has do so.
Stands ==
    Without({"overlap", "run failed", "patch died"}) =>
        /\ ~box.exists => \/ \E a \in Actor : at[a] \in {"running", "remaking"}
                          \/ up \in {"down", "rebuilding"} /\ journal = "applying"
        /\ \A a \in Apply : at[a] \notin {"idle", "noting"} => journal = "applying"

\* All of it.
ServiceInv ==
    /\ TypeOK /\ JobsFit /\ CrossingsKnown /\ FilledPlaces /\ FolderIsFree
    /\ NothingErased /\ RunsIfThere /\ DataInPlace /\ AccessInPlace /\ Stands

-----------------------------------------------------------------------------

\* What the assumption says of the sets.
LEMMA Sets ==
    /\ Apply \subseteq Actor /\ Patch \subseteq Actor
    /\ \A a \in Actor : a \in Apply \/ a \in Patch
    /\ \A a \in Apply : a \notin Patch
    /\ Volume \in Place /\ None \notin Place /\ Volume \notin Folder
    /\ \A p \in Place : p \in Folder \/ p = Volume
BY ServiceAssumption DEF Actor, Place

\* A step is a request's, the operator's, the engine's, or the panel's.
LEMMA NextSplit ==
    ASSUME [Next]_vars
    PROVE  \/ \E a \in Actor : Removes(a) \/ Runs(a) \/ RunFails(a)
           \/ \E a \in Apply : Notes(a) \/ NoteFails(a) \/ Stops(a) \/ SeedBegins(a) \/ SeedEnds(a)
                               \/ Verifies(a) \/ Records(a) \/ Finishes(a)
                               \/ Throws(a) \/ Fails(a) \/ Closes(a) \/ GivesUp(a)
           \/ \E a \in Apply, p \in Place : ApplyAsked(a, p)
           \/ \E p \in Patch : ClosesGate(p) \/ Writes(p) \/ WriteFails(p) \/ Syncs(p)
           \/ \E p \in Patch, access \in Access : PatchAsked(p, access)
           \/ Starts \/ Halts \/ TakesWrite \/ Dies \/ Boots \/ Rebuilds \/ Gates
           \/ UNCHANGED vars
BY DEF Next, ApplyStep, PatchStep

\* The jobs and the rows are made of what they should be.
LEMMA JobParts ==
    ASSUME TypeOK, JobsFit, NEW a \in Actor
    PROVE  /\ job[a] \in Job /\ job[a].row \in Row
           /\ job[a].row.place \in Place /\ job[a].row.access \in Access
           /\ job[a].row.status \in {"running", "stopped"}
           /\ job[a].from \in Place \union {None} /\ job[a].copied \subseteq Write
           /\ a \in Apply => job[a].next \in Place
           /\ a \in Patch /\ Active(a) => job[a].next \in Access
BY DEF TypeOK, Job, Row, JobsFit

\* The empty job, the first row and no container are of their types.
LEMMA NoJobFits == NoJob \in Job /\ NoJob.row = FirstRow /\ NoJob.next = Volume /\ NoJob.from = None
                   /\ FirstRow \in Row /\ FirstRow.place = Volume /\ NoBox \in Box
                   /\ NoBox.exists = FALSE /\ NoBox.runs = FALSE /\ NoBox.place = Volume
BY Sets DEF NoJob, Job, FirstRow, Row, Access, NoBox, FirstBox, Box

\* What a container is run with is a place and an access.
LEMMA WantedFits ==
    ASSUME TypeOK, JobsFit, NEW a \in Actor, Active(a)
    PROVE  /\ Wanted(a).place \in Place /\ Wanted(a).access \in Access
           /\ \A runs \in BOOLEAN : Made(Wanted(a), runs) \in Box
<1>1. Wanted(a).place \in Place /\ Wanted(a).access \in Access
  BY JobParts, Sets DEF Wanted
<1> QED BY <1>1 DEF Made, Box

\* Whatever happens is an event, and stays in the history.
LEMMA HistoryHolds == TypeOK /\ [Next]_vars => history' \subseteq Event /\ history \subseteq history'
<1> SUFFICES ASSUME TypeOK, [Next]_vars PROVE history' \subseteq Event /\ history \subseteq history'
  OBVIOUS
<1>0. history \subseteq Event
  BY DEF TypeOK
<1> USE DEF Happened, Event
<1>1. ASSUME NEW a \in Actor, RunFails(a) PROVE history' \subseteq Event /\ history \subseteq history'
  BY <1>0, <1>1 DEF RunFails
<1>2. ASSUME NEW a \in Apply, Throws(a) \/ GivesUp(a)
      PROVE  history' \subseteq Event /\ history \subseteq history'
  BY <1>0, <1>2 DEF Throws, GivesUp
<1>3. ASSUME NEW a \in Apply, NEW p \in Place, ApplyAsked(a, p)
      PROVE  history' \subseteq Event /\ history \subseteq history'
  BY <1>0, <1>3 DEF ApplyAsked
<1>4. ASSUME NEW p \in Patch, NEW access \in Access, PatchAsked(p, access)
      PROVE  history' \subseteq Event /\ history \subseteq history'
  BY <1>0, <1>4 DEF PatchAsked
<1>5. ASSUME NEW p \in Patch, WriteFails(p) PROVE history' \subseteq Event /\ history \subseteq history'
  BY <1>0, <1>5 DEF WriteFails
<1>6. CASE Starts \/ Rebuilds
  BY <1>0, <1>6 DEF Starts, Rebuilds
<1>7. CASE Dies
  BY <1>0, <1>7 DEF Dies
<1>8. CASE UNCHANGED history
  BY <1>0, <1>8
<1> QED BY <1>1, <1>2, <1>3, <1>4, <1>5, <1>6, <1>7, <1>8, NextSplit DEF vars, Removes, Runs, Notes,
     NoteFails, Stops, SeedBegins, SeedEnds, Verifies, Records, Finishes, Fails, Closes, ClosesGate,
     Writes, Syncs, Halts, TakesWrite, Boots, Gates

\* A fault counts as one, up to the bound.
LEMMA FaultCounts ==
    ASSUME faults \in 0..MaxFaults, Fault \/ UNCHANGED faults PROVE faults' \in 0..MaxFaults
BY ServiceAssumption DEF Fault

\* So the faults there have been are within their bound.
LEMMA FaultsHold == TypeOK /\ [Next]_vars => faults' \in 0..MaxFaults
<1> SUFFICES ASSUME TypeOK, [Next]_vars PROVE faults' \in 0..MaxFaults
  OBVIOUS
<1>1. Fault \/ UNCHANGED faults
  BY NextSplit, Zenon DEF vars, Removes, Runs, RunFails, Notes, NoteFails, Stops, SeedBegins, SeedEnds,
     Verifies, Records, Finishes, Throws, Fails, Closes, GivesUp, ApplyAsked, ClosesGate, Writes,
     WriteFails, Syncs, PatchAsked, Starts, Halts, TakesWrite, Dies, Boots, Rebuilds, Gates, requests
<1>2. faults \in 0..MaxFaults
  BY DEF TypeOK
<1> QED BY <1>1, <1>2, FaultCounts

\* The container, however it was run.
LEMMA BoxHolds == TypeOK /\ JobsFit /\ [Next]_vars => box' \in Box
<1> SUFFICES ASSUME TypeOK, JobsFit, [Next]_vars PROVE box' \in Box
  OBVIOUS
<1>0. box \in Box /\ row \in Row
  BY DEF TypeOK
<1>1. ASSUME NEW a \in Actor, Removes(a) \/ Runs(a) \/ RunFails(a) PROVE box' \in Box
  <2>1. Active(a)
    BY <1>1 DEF Removes, Runs, RunFails, From, Active
  <2>2. \A runs \in BOOLEAN : Made(Wanted(a), runs) \in Box
    BY <2>1, WantedFits
  <2>3. CASE Removes(a)
    BY <2>3, NoJobFits DEF Removes
  <2>4. CASE Runs(a)
    <3>1. \E runs \in BOOLEAN : box' = Made(Wanted(a), runs)
      BY <2>4 DEF Runs
    <3> QED BY <2>2, <3>1
  <2>5. CASE RunFails(a)
    <3>1. box' = box \/ box' = NoBox \/ box' = Made(Wanted(a), FALSE)
      BY <2>5 DEF RunFails
    <3> QED BY <1>0, <2>2, <3>1, NoJobFits
  <2> QED BY <1>1, <2>3, <2>4, <2>5
<1>2. ASSUME NEW a \in Apply, Stops(a) PROVE box' \in Box
  BY <1>0, <1>2 DEF Stops, Box
<1>3. CASE Starts \/ Halts
  BY <1>0, <1>3 DEF Starts, Halts, Box
<1>4. CASE Rebuilds
  <2>1. \A runs \in BOOLEAN : Made(row, runs) \in Box
    BY <1>0 DEF Made, Box, Row
  <2> QED BY <1>0, <1>4, <2>1 DEF Rebuilds
<1>5. CASE UNCHANGED box
  BY <1>0, <1>5
<1> QED BY <1>1, <1>2, <1>3, <1>4, <1>5, NextSplit DEF vars, Notes, NoteFails, SeedBegins, SeedEnds,
     Verifies, Records, Finishes, Throws, Fails, Closes, GivesUp, ApplyAsked, ClosesGate, Writes,
     WriteFails, Syncs, PatchAsked, TakesWrite, Dies, Boots, Gates

\* The row.
LEMMA RowHolds == TypeOK /\ JobsFit /\ [Next]_vars => row' \in Row
<1> SUFFICES ASSUME TypeOK, JobsFit, [Next]_vars PROVE row' \in Row
  OBVIOUS
<1>0. row \in Row
  BY DEF TypeOK
<1>1. ASSUME NEW a \in Apply, Records(a) PROVE row' \in Row
  BY <1>0, <1>1, JobParts, Sets DEF Records, Row
<1>2. ASSUME NEW p \in Patch, Writes(p) PROVE row' \in Row
  <2>1. p \in Actor /\ Active(p)
    BY <1>2, Sets DEF Writes, From, Active
  <2>2. job[p].next \in Access /\ job[p].row.status \in {"running", "stopped"}
    BY <1>2, <2>1, JobParts
  <2> QED BY <1>0, <1>2, <2>2 DEF Writes, Row
<1>3. CASE Starts \/ Halts
  BY <1>0, <1>3 DEF Starts, Halts, Row
<1>4. CASE UNCHANGED row
  BY <1>0, <1>4
<1> QED BY <1>1, <1>2, <1>3, <1>4, NextSplit DEF vars, Removes, Runs, RunFails, Notes, NoteFails, Stops,
     SeedBegins, SeedEnds, Verifies, Finishes, Throws, Fails, Closes, GivesUp, ApplyAsked, ClosesGate,
     WriteFails, Syncs, PatchAsked, TakesWrite, Dies, Boots, Rebuilds, Gates

\* What the places hold, and which of them have something in them.
LEMMA DataHolds ==
    TypeOK /\ JobsFit /\ [Next]_vars
        => content' \in [Place -> SUBSET Write] /\ filled' \subseteq Place /\ writes' \in 0..MaxWrites
<1> SUFFICES ASSUME TypeOK, JobsFit, [Next]_vars
             PROVE  content' \in [Place -> SUBSET Write] /\ filled' \subseteq Place
                    /\ writes' \in 0..MaxWrites
  OBVIOUS
<1>0. /\ content \in [Place -> SUBSET Write] /\ filled \subseteq Place /\ writes \in 0..MaxWrites
      /\ box \in Box /\ box' \in Box /\ box.place \in Place /\ box'.place \in Place
  BY BoxHolds DEF TypeOK, Box
<1>1. ASSUME NEW a \in Actor, Runs(a) PROVE filled' \subseteq Place /\ UNCHANGED <<content, writes>>
  BY <1>0, <1>1 DEF Runs
<1>2. ASSUME NEW a \in Apply, SeedBegins(a) PROVE filled' \subseteq Place /\ UNCHANGED <<content, writes>>
  BY <1>0, <1>2, JobParts, Sets DEF SeedBegins
<1>3. ASSUME NEW a \in Apply, SeedEnds(a)
      PROVE  content' \in [Place -> SUBSET Write] /\ UNCHANGED <<filled, writes>>
  BY <1>0, <1>3, JobParts, Sets DEF SeedEnds
<1>4. CASE Starts
  BY <1>0, <1>4 DEF Starts
<1>5. CASE TakesWrite
  <2>1. writes' \in 0..MaxWrites /\ writes' \in Write
    BY <1>0, <1>5, ServiceAssumption DEF TakesWrite, Write
  <2> QED BY <1>0, <1>5, <2>1 DEF TakesWrite
<1>6. CASE UNCHANGED data
  BY <1>0, <1>6 DEF data
<1> QED BY <1>0, <1>1, <1>2, <1>3, <1>4, <1>5, <1>6, NextSplit DEF vars, Removes, RunFails, Notes,
     NoteFails, Stops, Verifies, Records, Finishes, Throws, Fails, Closes, GivesUp, ApplyAsked,
     ClosesGate, Writes, WriteFails, Syncs, PatchAsked, Halts, Dies, Boots, Rebuilds, Gates

\* The flags, the journal, where the panel is, and the requests there have been.
LEMMA PanelHolds ==
    TypeOK /\ [Next]_vars
        => /\ journal' \in {"none", "applying", "failed", "done"}
           /\ up' \in {"down", "rebuilding", "gating", "up"}
           /\ gate' \in BOOLEAN /\ inFlight' \in BOOLEAN
           /\ asked' \in 0..MaxAsked
<1> SUFFICES ASSUME TypeOK, [Next]_vars
             PROVE  /\ journal' \in {"none", "applying", "failed", "done"}
                    /\ up' \in {"down", "rebuilding", "gating", "up"}
                    /\ gate' \in BOOLEAN /\ inFlight' \in BOOLEAN
                    /\ asked' \in 0..MaxAsked
  OBVIOUS
<1>0. /\ journal \in {"none", "applying", "failed", "done"}
      /\ up \in {"down", "rebuilding", "gating", "up"}
      /\ gate \in BOOLEAN /\ inFlight \in BOOLEAN
      /\ asked \in 0..MaxAsked
  BY DEF TypeOK
<1>1. journal' \in {"none", "applying", "failed", "done"}
  BY <1>0, NextSplit DEF vars, Removes, Runs, RunFails, Notes, NoteFails, Stops, SeedBegins, SeedEnds,
     Verifies, Records, Finishes, Throws, Fails, Closes, GivesUp, ApplyAsked, ClosesGate, Writes,
     WriteFails, Syncs, PatchAsked, Starts, Halts, TakesWrite, Dies, Boots, Rebuilds, Gates
<1>2. up' \in {"down", "rebuilding", "gating", "up"}
  BY <1>0, NextSplit DEF vars, Removes, Runs, RunFails, Notes, NoteFails, Stops, SeedBegins, SeedEnds,
     Verifies, Records, Finishes, Throws, Fails, Closes, GivesUp, ApplyAsked, ClosesGate, Writes,
     WriteFails, Syncs, PatchAsked, Starts, Halts, TakesWrite, Dies, Boots, Rebuilds, Gates
<1>3. inFlight' = inFlight \/ inFlight' \in BOOLEAN
  BY NextSplit, Zenon DEF vars, memory, Removes, Runs, RunFails, Notes, NoteFails, Stops, SeedBegins,
     SeedEnds, Verifies, Records, Finishes, Throws, Fails, Closes, GivesUp, ApplyAsked, ClosesGate, Writes,
     WriteFails, Syncs, PatchAsked, Starts, Halts, TakesWrite, Dies, Boots, Rebuilds, Gates
<1>4. gate' = gate \/ gate' \in BOOLEAN
  BY NextSplit, Zenon DEF vars, memory, Removes, Runs, RunFails, Notes, NoteFails, Stops, SeedBegins,
     SeedEnds, Verifies, Records, Finishes, Throws, Fails, Closes, GivesUp, ApplyAsked, ClosesGate, Writes,
     WriteFails, Syncs, PatchAsked, Starts, Halts, TakesWrite, Dies, Boots, Rebuilds, Gates, Synced
<1>5. asked' = asked \/ (asked < MaxAsked /\ asked' = asked + 1)
  BY NextSplit, Zenon DEF vars, requests, Removes, Runs, RunFails, Notes, NoteFails, Stops, SeedBegins,
     SeedEnds, Verifies, Records, Finishes, Throws, Fails, Closes, GivesUp, ApplyAsked, ClosesGate, Writes,
     WriteFails, Syncs, PatchAsked, Starts, Halts, TakesWrite, Dies, Boots, Rebuilds, Gates
<1>6. asked' \in 0..MaxAsked
  BY <1>0, <1>5, ServiceAssumption
<1> QED BY <1>0, <1>1, <1>2, <1>3, <1>4, <1>6

\* A request that moves on keeps its job, and the others stay where they are.
LEMMA MovesOn ==
    ASSUME TypeOK, JobsFit, up = "up", up' = up, NEW a \in Actor, NEW y,
           at' = [at EXCEPT ![a] = y], UNCHANGED job,
           a \in Apply => y \in ApplyPoints /\ (y \in {"stopping", "seeding", "copying"} => job[a].from # None),
           a \in Patch => y \in PatchPoints /\ (y # "idle" => Active(a))
    PROVE  at' \in [Actor -> ApplyPoints \union PatchPoints] /\ job' \in [Actor -> Job] /\ JobsFit'
<1>1. at \in [Actor -> ApplyPoints \union PatchPoints] /\ job \in [Actor -> Job]
  BY DEF TypeOK, ApplyPoints, PatchPoints
<1>2. y \in ApplyPoints \union PatchPoints
  BY Sets
<1>3. at' \in [Actor -> ApplyPoints \union PatchPoints] /\ at'[a] = y
      /\ \A b \in Actor : b # a => at'[b] = at[b]
  BY <1>1, <1>2
<1> QED BY <1>1, <1>3, Sets DEF JobsFit, Active

\* One that is over has no job.
LEMMA IsOver ==
    ASSUME TypeOK, JobsFit, up = "up", up' = up, NEW a \in Actor, Over(a)
    PROVE  at' \in [Actor -> ApplyPoints \union PatchPoints] /\ job' \in [Actor -> Job] /\ JobsFit'
<1>1. at \in [Actor -> ApplyPoints \union PatchPoints] /\ job \in [Actor -> Job]
  BY DEF TypeOK, ApplyPoints, PatchPoints
<1>2. "idle" \in ApplyPoints /\ "idle" \in PatchPoints
  BY DEF ApplyPoints, PatchPoints
<1>3. /\ at' \in [Actor -> ApplyPoints \union PatchPoints] /\ at'[a] = "idle"
      /\ job' \in [Actor -> Job] /\ job'[a] = NoJob
      /\ \A b \in Actor : b # a => at'[b] = at[b] /\ job'[b] = job[b]
  BY <1>1, <1>2, NoJobFits DEF Over, Goto
<1> QED BY <1>2, <1>3, Sets, NoJobFits DEF JobsFit, Active

\* A new one has the job it was asked for.
LEMMA IsAsked ==
    ASSUME TypeOK, JobsFit, up = "up", up' = up, NEW a \in Actor, NEW y, NEW j \in Job,
           at' = [at EXCEPT ![a] = y], job' = [job EXCEPT ![a] = j],
           a \in Apply => y \in ApplyPoints /\ j.next \in Place
                          /\ (y \in {"stopping", "seeding", "copying"} => j.from # None),
           a \in Patch => y \in PatchPoints /\ j.next \in Access
    PROVE  at' \in [Actor -> ApplyPoints \union PatchPoints] /\ job' \in [Actor -> Job] /\ JobsFit'
<1>1. at \in [Actor -> ApplyPoints \union PatchPoints] /\ job \in [Actor -> Job]
  BY DEF TypeOK, ApplyPoints, PatchPoints
<1>2. y \in ApplyPoints \union PatchPoints
  BY Sets
<1>3. /\ at' \in [Actor -> ApplyPoints \union PatchPoints] /\ at'[a] = y
      /\ job' \in [Actor -> Job] /\ job'[a] = j
      /\ \A b \in Actor : b # a => at'[b] = at[b] /\ job'[b] = job[b]
  BY <1>1, <1>2
<1> QED BY <1>3, Sets DEF JobsFit, Active

\* A request that is anywhere is in a panel that is up.
LEMMA ActiveIsUp == ASSUME TypeOK, JobsFit, NEW a \in Actor, Active(a) PROVE up = "up"
BY DEF JobsFit, Idle, Active

\* Every request stays where one of its kind can be, with a job that fits.
LEMMA RequestsHold ==
    TypeOK /\ JobsFit /\ [Next]_vars
        => at' \in [Actor -> ApplyPoints \union PatchPoints] /\ job' \in [Actor -> Job] /\ JobsFit'
<1> DEFINE Fits == at' \in [Actor -> ApplyPoints \union PatchPoints] /\ job' \in [Actor -> Job] /\ JobsFit'
<1> SUFFICES ASSUME TypeOK, JobsFit, [Next]_vars PROVE Fits
  OBVIOUS
<1>0. at \in [Actor -> ApplyPoints \union PatchPoints] /\ job \in [Actor -> Job] /\ row \in Row
  BY DEF TypeOK, ApplyPoints, PatchPoints
<1>1. ASSUME NEW a \in Actor, Removes(a) \/ Runs(a) PROVE Fits
  <2>1. Active(a) /\ UNCHANGED <<job, up>>
    BY <1>1 DEF Removes, Runs, From, Active
  <2>2. CASE Removes(a)
    <3>1. PICK y \in {"running", "remaking"} : at' = [at EXCEPT ![a] = y] /\ (y = "remaking" => at[a] = "unmaking")
      BY <2>2 DEF Removes, From, Goto
    <3> QED BY <2>1, <3>1, MovesOn, ActiveIsUp, Sets DEF JobsFit, ApplyPoints, PatchPoints
  <2>3. CASE Runs(a)
    <3>1. PICK y \in {"writing", "verifying", "recording", "closing"} :
              /\ at' = [at EXCEPT ![a] = y]
              /\ y = "writing" => a \in Patch
              /\ y \in {"verifying", "recording"} => a \in Apply
              /\ y = "closing" => at[a] = "remaking"
      BY <2>3 DEF Runs, From, Goto
    <3> QED BY <2>1, <3>1, MovesOn, ActiveIsUp, Sets DEF JobsFit, ApplyPoints, PatchPoints
  <2> QED BY <1>1, <2>2, <2>3
<1>2. ASSUME NEW a \in Actor, RunFails(a) PROVE Fits
  <2>1. Active(a) /\ UNCHANGED up
    BY <1>2 DEF RunFails, From, Active
  <2>2. CASE Over(a)
    BY <2>1, <2>2, IsOver, ActiveIsUp
  <2>3. CASE ~Over(a)
    <3>1. PICK y \in {"failing", "closing"} :
              /\ at' = [at EXCEPT ![a] = y] /\ UNCHANGED job
              /\ y = "failing" => a \in Apply
              /\ y = "closing" => at[a] = "remaking"
      BY <1>2, <2>3 DEF RunFails, From, Goto
    <3> QED BY <2>1, <3>1, MovesOn, ActiveIsUp, Sets DEF JobsFit, ApplyPoints, PatchPoints
  <2> QED BY <2>2, <2>3
<1>3. ASSUME NEW a \in Apply, Notes(a) \/ Stops(a) \/ SeedEnds(a) \/ Verifies(a) \/ Records(a) \/ Throws(a) \/ Fails(a)
      PROVE  Fits
  <2>1. Active(a) /\ UNCHANGED <<up, job>>
    BY <1>3 DEF Notes, Stops, SeedEnds, Verifies, Records, Throws, Fails, From, Active
  <2>2. PICK y \in {"stopping", "seeding", "removing", "recording", "finishing", "failing", "unmaking"} :
            /\ at' = [at EXCEPT ![a] = y]
            /\ y \in {"stopping", "seeding"} => job[a].from # None
    BY <1>3 DEF Notes, Stops, SeedEnds, Verifies, Records, Throws, Fails, From, Goto, JobsFit
  <2> QED BY <2>1, <2>2, MovesOn, ActiveIsUp, Sets DEF ApplyPoints
<1>4. ASSUME NEW a \in Apply, NoteFails(a) \/ Finishes(a) \/ Closes(a) \/ GivesUp(a) PROVE Fits
  <2>1. Active(a) /\ UNCHANGED up /\ Over(a)
    BY <1>4 DEF NoteFails, Finishes, Closes, GivesUp, Active
  <2> QED BY <2>1, IsOver, ActiveIsUp, Sets
<1>5. ASSUME NEW a \in Apply, SeedBegins(a) PROVE Fits
  <2>1. Active(a) /\ UNCHANGED up /\ at[a] = "seeding" /\ a \in Actor
    BY <1>5, Sets DEF SeedBegins, From, Active
  <2> DEFINE j == [job[a] EXCEPT !.copied = content[job[a].from]]
  <2>2. job[a] \in Job /\ job[a].from \in Place /\ content[job[a].from] \subseteq Write
    BY <2>1, <1>5, JobParts DEF JobsFit, TypeOK
  <2>3. j \in Job /\ j.next = job[a].next /\ j.from = job[a].from
    BY <2>2 DEF Job
  <2>4. at' = [at EXCEPT ![a] = "copying"] /\ job' = [job EXCEPT ![a] = j]
    BY <1>0, <1>5, <2>1 DEF SeedBegins, From, Goto
  <2> HIDE DEF j
  <2> QED BY <2>1, <2>2, <2>3, <2>4, <1>5, IsAsked, ActiveIsUp, Sets DEF ApplyPoints, JobsFit
<1>6. ASSUME NEW a \in Apply, NEW p \in Place, ApplyAsked(a, p) PROVE Fits
  <2> DEFINE j == [NoJob EXCEPT !.row = row, !.next = p, !.from = Source(p)]
  <2>1. Source(p) \in Place \union {None}
    BY DEF Source, TypeOK, Box
  <2>2. j \in Job /\ j.next = p
    BY <1>0, <2>1, NoJobFits DEF Job
  <2>3. /\ at' = [at EXCEPT ![a] = "noting"] /\ job' = [job EXCEPT ![a] = j]
        /\ up = "up" /\ up' = up
    BY <1>6 DEF ApplyAsked, From, Goto
  <2> HIDE DEF j
  <2> QED BY <2>2, <2>3, IsAsked, Sets DEF ApplyPoints
<1>7. ASSUME NEW p \in Patch, ClosesGate(p) \/ Writes(p) PROVE Fits
  <2>1. Active(p) /\ UNCHANGED <<up, job>>
    BY <1>7 DEF ClosesGate, Writes, From, Active
  <2>2. PICK y \in {"removing", "syncing"} : at' = [at EXCEPT ![p] = y]
    BY <1>7 DEF ClosesGate, Writes, From, Goto
  <2> QED BY <2>1, <2>2, MovesOn, ActiveIsUp, Sets DEF PatchPoints
<1>8. ASSUME NEW p \in Patch, WriteFails(p) \/ Syncs(p) PROVE Fits
  <2>1. Active(p) /\ UNCHANGED up /\ Over(p)
    BY <1>8 DEF WriteFails, Syncs, Active
  <2> QED BY <2>1, IsOver, ActiveIsUp, Sets
<1>9. ASSUME NEW p \in Patch, NEW access \in Access, PatchAsked(p, access) PROVE Fits
  <2> DEFINE j == [NoJob EXCEPT !.row = row, !.next = access]
  <2>1. j \in Job /\ j.next = access
    BY <1>0, NoJobFits DEF Job
  <2>2. PICK y \in {"writing", "closing gate"} : at' = [at EXCEPT ![p] = y]
    BY <1>9 DEF PatchAsked, From, Goto
  <2>3. job' = [job EXCEPT ![p] = j] /\ up = "up" /\ up' = up
    BY <1>9 DEF PatchAsked
  <2> HIDE DEF j
  <2> QED BY <2>1, <2>2, <2>3, IsAsked, Sets DEF PatchPoints
<1>10. CASE Dies
  <2>1. at' = [a \in Actor |-> "idle"] /\ job' = [a \in Actor |-> NoJob]
    BY <1>10 DEF Dies
  <2> QED BY <2>1, Sets, NoJobFits DEF JobsFit, Idle, Active, ApplyPoints, PatchPoints
<1>11. CASE Starts \/ Halts \/ TakesWrite \/ Boots \/ Rebuilds \/ Gates \/ UNCHANGED vars
  <2>1. UNCHANGED <<at, job>> /\ (up' # "up" => up # "up")
    BY <1>11 DEF Starts, Halts, TakesWrite, Boots, Rebuilds, Gates, requests, vars
  <2> QED BY <1>0, <2>1 DEF JobsFit, Idle, Active
<1> QED BY <1>1, <1>2, <1>3, <1>4, <1>5, <1>6, <1>7, <1>8, <1>9, <1>10, <1>11, NextSplit

\* So every variable keeps its type.
LEMMA TypeHolds == TypeOK /\ JobsFit /\ [Next]_vars => TypeOK'
<1> SUFFICES ASSUME TypeOK, JobsFit, [Next]_vars PROVE TypeOK'
  OBVIOUS
<1>1. at' \in [Actor -> ApplyPoints \union PatchPoints] /\ job' \in [Actor -> Job]
  BY RequestsHold
<1>2. {gate, inFlight}' \subseteq BOOLEAN
  BY PanelHolds
<1>3. /\ ApplyPoints \union PatchPoints
             = {"idle", "noting", "stopping", "seeding", "copying", "removing", "running", "verifying",
                "recording", "finishing", "failing", "unmaking", "remaking", "closing", "closing gate",
                "writing", "syncing"}
  BY DEF ApplyPoints, PatchPoints
<1>4. history' \subseteq Event /\ faults' \in 0..MaxFaults
  BY HistoryHolds, FaultsHold
<1>5. /\ content' \in [Place -> SUBSET Write] /\ filled' \subseteq Place /\ writes' \in 0..MaxWrites
      /\ box' \in Box /\ row' \in Row
  BY DataHolds, BoxHolds, RowHolds
<1>6. /\ journal' \in {"none", "applying", "failed", "done"}
      /\ up' \in {"down", "rebuilding", "gating", "up"} /\ asked' \in 0..MaxAsked
  BY PanelHolds
<1> QED BY <1>1, <1>2, <1>3, <1>4, <1>5, <1>6 DEF TypeOK

-----------------------------------------------------------------------------

\* A request's step, and the steps that are nobody's request.
RequestStep(a) ==
    \/ Removes(a) \/ Runs(a) \/ RunFails(a)
    \/ a \in Apply /\ (Notes(a) \/ NoteFails(a) \/ Stops(a) \/ SeedBegins(a) \/ SeedEnds(a)
                       \/ Verifies(a) \/ Records(a) \/ Finishes(a)
                       \/ Throws(a) \/ Fails(a) \/ Closes(a) \/ GivesUp(a))
    \/ a \in Patch /\ (ClosesGate(a) \/ Writes(a) \/ WriteFails(a) \/ Syncs(a))

Asked(a) ==
    \/ a \in Apply /\ \E p \in Place : ApplyAsked(a, p)
    \/ a \in Patch /\ \E access \in Access : PatchAsked(a, access)

\* A step is a request's, the coming of one, the panel's death, or nobody's.
LEMMA WhoSteps ==
    ASSUME [Next]_vars
    PROVE  \/ \E a \in Actor : RequestStep(a)
           \/ \E a \in Actor : Asked(a)
           \/ Dies
           \/ UNCHANGED requests
BY NextSplit, Sets DEF RequestStep, Asked, Starts, Halts, TakesWrite, Boots, Rebuilds, Gates, vars, requests

\* A request's step moves that request, and leaves the others where they are.
LEMMA OthersStay ==
    ASSUME TypeOK, NEW a \in Actor, RequestStep(a) \/ Asked(a)
    PROVE  /\ \A b \in Actor : b # a => at'[b] = at[b] /\ job'[b] = job[b]
           /\ RequestStep(a) => Active(a) /\ up' = up
           /\ Asked(a) => at[a] = "idle"
<1>0. at \in [Actor -> ApplyPoints \union PatchPoints] /\ job \in [Actor -> Job]
  BY DEF TypeOK, ApplyPoints, PatchPoints
<1>1. CASE RequestStep(a)
  <2>1. /\ \E y : at' = [at EXCEPT ![a] = y]
        /\ job' = job \/ \E j : job' = [job EXCEPT ![a] = j]
    BY <1>0, <1>1 DEF RequestStep, Removes, Runs, RunFails, Notes, NoteFails, Stops, SeedBegins, SeedEnds,
       Verifies, Records, Finishes, Throws, Fails, Closes, GivesUp, ClosesGate, Writes, WriteFails, Syncs,
       From, Goto, Over
  <2>2. Active(a) /\ up' = up
    BY <1>1 DEF RequestStep, Removes, Runs, RunFails, Notes, NoteFails, Stops, SeedBegins, SeedEnds,
       Verifies, Records, Finishes, Throws, Fails, Closes, GivesUp, ClosesGate, Writes, WriteFails, Syncs,
       From, Active
  <2> QED BY <1>0, <2>1, <2>2 DEF Active, RequestStep, Asked, ApplyAsked, PatchAsked, From
<1>2. CASE Asked(a)
  <2>1. /\ \E y : at' = [at EXCEPT ![a] = y]
        /\ \E j : job' = [job EXCEPT ![a] = j]
        /\ at[a] = "idle"
    BY <1>0, <1>2 DEF Asked, ApplyAsked, PatchAsked, From, Goto
  <2>2. ~RequestStep(a)
    BY <2>1 DEF RequestStep, Removes, Runs, RunFails, Notes, NoteFails, Stops, SeedBegins, SeedEnds,
       Verifies, Records, Finishes, Throws, Fails, Closes, GivesUp, ClosesGate, Writes, WriteFails, Syncs,
       From
  <2> QED BY <1>0, <2>1, <2>2
<1> QED BY <1>1, <1>2

\* History is not rewritten: what has not happened by now had not before.
LEMMA NotBefore ==
    ASSUME TypeOK, [Next]_vars, NEW events, Without(events)' PROVE Without(events)
BY HistoryHolds DEF Without

\* Requests cross only where it is written down that they have.
LEMMA CrossingsHold == TypeOK /\ CrossingsKnown /\ [Next]_vars => CrossingsKnown'
<1> SUFFICES ASSUME TypeOK, CrossingsKnown, [Next]_vars PROVE CrossingsKnown'
  OBVIOUS
<1>1. CASE \A b \in Actor : Active(b)' => Active(b)
  BY <1>1, Sets, NotBefore DEF CrossingsKnown, OneOf
<1>2. ASSUME NEW a \in Actor, Asked(a) PROVE CrossingsKnown'
  <2>1. \A b \in Actor : b # a => (Active(b)' <=> Active(b))
    BY <1>2, OthersStay DEF Active
  <2>2. "overlap" \notin history' => \A b \in Actor : ~Active(b)
    BY <1>2 DEF Asked, ApplyAsked, PatchAsked, Happened, Idle, Active
  <2>3. "crossed" \notin history' => OneOf(Apply)'
    <3>1. CASE a \in Apply
      <4>1. "crossed" \notin history' => \A b \in Apply : ~Active(b)
        BY <1>2, <3>1, Sets DEF Asked, ApplyAsked, Happened, Idle, Active
      <4> QED BY <2>1, <4>1, Sets DEF OneOf
    <3>2. CASE a \in Patch
      <4>1. "crossed" \notin history' => OneOf(Apply)
        BY HistoryHolds DEF CrossingsKnown, Without
      <4> QED BY <2>1, <4>1, <3>2, Sets DEF OneOf
    <3> QED BY <3>1, <3>2, Sets
  <2>4. "overlap" \notin history' => OneOf(Actor)'
    BY <2>1, <2>2 DEF OneOf
  <2> QED BY <2>3, <2>4 DEF CrossingsKnown, Without
<1>3. ASSUME NEW a \in Actor, RequestStep(a) PROVE \A b \in Actor : Active(b)' => Active(b)
  BY <1>3, OthersStay DEF Active
<1>4. CASE Dies
  <2>1. \A b \in Actor : at'[b] = "idle"
    BY <1>4 DEF Dies
  <2> QED BY <2>1, Sets DEF CrossingsKnown, OneOf, Active
<1>5. CASE UNCHANGED requests
  BY <1>1, <1>5 DEF requests, Active
<1> QED BY <1>1, <1>2, <1>3, <1>4, <1>5, WhoSteps

\* The parts of a state the next lemmas read: what is where, and of which type.
LEMMA Parts ==
    ASSUME TypeOK
    PROVE  /\ at \in [Actor -> ApplyPoints \union PatchPoints] /\ job \in [Actor -> Job]
           /\ box \in Box /\ row \in Row /\ content \in [Place -> SUBSET Write]
           /\ box.place \in Place /\ box.access \in Access /\ row.place \in Place /\ row.access \in Access
           /\ box.exists \in BOOLEAN /\ box.runs \in BOOLEAN
           /\ filled \subseteq Place /\ writes \in 0..MaxWrites
BY DEF TypeOK, ApplyPoints, PatchPoints, Box, Row

\* A request leaves no container, or one that is as the request wants it, or the
\* one that another has made.
LEMMA MakesWanted ==
    ASSUME NEW a \in Actor, Removes(a) \/ Runs(a) \/ RunFails(a)
    PROVE  \/ RunFails(a) /\ box.exists /\ UNCHANGED box
           \/ box' = NoBox
           \/ box'.exists = TRUE /\ box'.place = Wanted(a).place /\ box'.access = Wanted(a).access
<1>1. CASE Removes(a)
  BY <1>1 DEF Removes
<1>2. CASE Runs(a)
  <2>1. \E runs : box' = Made(Wanted(a), runs)
    BY <1>2, Zenon DEF Runs
  <2> QED BY <2>1 DEF Made
<1>3. CASE RunFails(a)
  <2>1. (box.exists /\ UNCHANGED box) \/ box' = NoBox \/ box' = Made(Wanted(a), FALSE)
    BY <1>3 DEF RunFails
  <2> QED BY <1>3, <2>1 DEF Made
<1> QED BY <1>1, <1>2, <1>3

\* So does the boot, from the row.
LEMMA RebuildsFromRow ==
    ASSUME Rebuilds
    PROVE  \/ UNCHANGED box
           \/ box'.exists = TRUE /\ box'.place = row.place /\ box'.access = row.access
<1>1. UNCHANGED box \/ \E runs : box' = Made(row, runs)
  BY Zenon DEF Rebuilds
<1> QED BY <1>1 DEF Made

\* Where it finds a container removed, it makes it or fails to.
LEMMA RebuildsOrFails ==
    ASSUME Rebuilds, journal = "applying", ~box.exists
    PROVE  Happened({"run failed"}) \/ box'.exists = TRUE
<1>1. Happened({"run failed"}) \/ \E runs : box' = Made(row, runs)
  BY Zenon DEF Rebuilds
<1>2. ASSUME NEW runs, box' = Made(row, runs) PROVE box'.exists = TRUE
  BY <1>2, Zenon DEF Made
<1> QED BY <1>1, <1>2, Zenon

\* Nothing is emptied.
LEMMA FilledGrows == [Next]_vars => filled \subseteq filled'
BY NextSplit DEF vars, data, Removes, Runs, RunFails, Notes, NoteFails, Stops, SeedBegins, SeedEnds,
     Verifies, Records, Finishes, Throws, Fails, Closes, GivesUp, ApplyAsked, ClosesGate, Writes,
     WriteFails, Syncs, PatchAsked, Starts, Halts, TakesWrite, Dies, Boots, Rebuilds, Gates

\* The place a request runs a container on has something in it, or gets it then.
LEMMA WantedIsFilled ==
    ASSUME TypeOK, JobsFit, FilledPlaces, NEW a \in Actor PROVE Wanted(a).place \in filled
<1>1. CASE a \in Apply /\ at[a] = "running"
  <2>1. Wanted(a).place = job[a].next
    BY <1>1, Sets DEF Wanted
  <2> QED BY <1>1, <2>1 DEF FilledPlaces
<1>2. CASE ~(a \in Apply /\ at[a] = "running")
  <2>1. Wanted(a).place = job[a].row.place
    BY <1>2, Sets DEF Wanted
  <2> QED BY <1>2, <2>1 DEF FilledPlaces
<1> QED BY <1>1, <1>2

\* The container stays on a place with something in it.
LEMMA BoxIsFilled ==
    TypeOK /\ JobsFit /\ FilledPlaces /\ [Next]_vars => box'.place \in filled'
<1> SUFFICES ASSUME TypeOK, JobsFit, FilledPlaces, [Next]_vars PROVE box'.place \in filled'
  OBVIOUS
<1>0. Volume \in filled' /\ box.place \in filled' /\ row.place \in filled'
  BY FilledGrows DEF FilledPlaces
<1>1. ASSUME NEW a \in Actor, Removes(a) \/ Runs(a) \/ RunFails(a) PROVE box'.place \in filled'
  <2>1. UNCHANGED box \/ box' = NoBox \/ box'.place = Wanted(a).place
    BY <1>1, MakesWanted
  <2> QED BY <1>0, <2>1, WantedIsFilled, FilledGrows, NoJobFits
<1>2. ASSUME NEW a \in Apply, Stops(a) PROVE box'.place \in filled'
  BY <1>0, <1>2, Parts DEF Stops, Box
<1>3. CASE Starts \/ Halts
  BY <1>0, <1>3, Parts DEF Starts, Halts, Box
<1>4. CASE Rebuilds
  BY <1>0, <1>4, RebuildsFromRow
<1>5. CASE UNCHANGED box
  BY <1>0, <1>5
<1> QED BY <1>1, <1>2, <1>3, <1>4, <1>5, NextSplit DEF vars, Notes, NoteFails, SeedBegins, SeedEnds,
     Verifies, Records, Finishes, Throws, Fails, Closes, GivesUp, ApplyAsked, ClosesGate, Writes,
     WriteFails, Syncs, PatchAsked, TakesWrite, Dies, Boots, Gates

\* So does the row, which is written from the job.
LEMMA RowIsFilled ==
    TypeOK /\ JobsFit /\ FilledPlaces /\ [Next]_vars => row'.place \in filled'
<1> SUFFICES ASSUME TypeOK, JobsFit, FilledPlaces, [Next]_vars PROVE row'.place \in filled'
  OBVIOUS
<1>0. row.place \in filled'
  BY FilledGrows DEF FilledPlaces
<1>1. ASSUME NEW a \in Apply, Records(a) PROVE row'.place \in filled'
  <2>1. at[a] = "recording" /\ row'.place = job[a].next
    BY <1>1, Parts DEF Records, From, Row
  <2> QED BY <2>1, FilledGrows DEF FilledPlaces
<1>2. CASE row'.place = row.place
  BY <1>0, <1>2
<1>3. CASE (\E p \in Patch : Writes(p)) \/ Starts \/ Halts
  BY <1>0, <1>3, Parts DEF Writes, Starts, Halts, Row
<1> QED BY <1>1, <1>2, <1>3, NextSplit DEF vars, Removes, Runs, RunFails, Notes, NoteFails, Stops,
     SeedBegins, SeedEnds, Verifies, Finishes, Throws, Fails, Closes, GivesUp, ApplyAsked, ClosesGate,
     WriteFails, Syncs, PatchAsked, TakesWrite, Dies, Boots, Rebuilds, Gates

\* A place is written to by an engine that runs on it, or filled by a copy.
LEMMA ContentIsFilled ==
    TypeOK /\ JobsFit /\ FilledPlaces /\ [Next]_vars
        => \A p \in Place : content'[p] # {} => p \in filled'
<1> SUFFICES ASSUME TypeOK, JobsFit, FilledPlaces, [Next]_vars, NEW p \in Place, content'[p] # {}
             PROVE  p \in filled'
  OBVIOUS
<1>0. content[p] # {} => p \in filled'
  BY FilledGrows DEF FilledPlaces
<1>1. ASSUME NEW a \in Apply, SeedEnds(a) PROVE p \in filled'
  <2>1. at[a] = "copying" /\ job[a].next \in filled
    BY <1>1 DEF SeedEnds, From, FilledPlaces
  <2> QED BY <1>0, <1>1, <2>1, Parts, FilledGrows DEF SeedEnds
<1>2. CASE TakesWrite
  BY <1>0, <1>2, Parts, FilledGrows DEF TakesWrite, FilledPlaces
<1>3. CASE UNCHANGED content
  BY <1>0, <1>3
<1> QED BY <1>1, <1>2, <1>3, NextSplit DEF vars, data, Removes, Runs, RunFails, Notes, NoteFails, Stops,
     SeedBegins, Verifies, Records, Finishes, Throws, Fails, Closes, GivesUp, ApplyAsked, ClosesGate,
     Writes, WriteFails, Syncs, PatchAsked, Starts, Halts, Dies, Boots, Rebuilds, Gates

\* What a job was read from is filled; and so is what it is for, once the copy
\* has begun, or from the start when there is none.
LEMMA JobsAreFilled ==
    TypeOK /\ JobsFit /\ FilledPlaces /\ [Next]_vars
        => /\ \A b \in Actor : job'[b].row.place \in filled'
           /\ \A b \in Apply :
                 job'[b].from = None \/ at'[b] \in {"copying", "removing", "running", "verifying", "recording"}
                     => job'[b].next \in filled'
<1> DEFINE Fits(b) == /\ job'[b].row.place \in filled'
                      /\ b \in Apply /\ (job'[b].from = None
                             \/ at'[b] \in {"copying", "removing", "running", "verifying", "recording"})
                             => job'[b].next \in filled'
<1> SUFFICES ASSUME TypeOK, JobsFit, FilledPlaces, [Next]_vars PROVE \A b \in Actor : Fits(b)
  BY Sets
<1>0. \A b \in Actor : at'[b] = at[b] /\ job'[b] = job[b] => Fits(b)
  BY FilledGrows DEF FilledPlaces
<1>1. \A b \in Actor : job'[b] = NoJob /\ at'[b] = "idle" => Fits(b)
  BY NoJobFits, FilledGrows DEF FilledPlaces
<1> HIDE DEF Fits
<1>2. ASSUME NEW a \in Actor, RequestStep(a) PROVE Fits(a)
  <2>1. CASE Over(a)
    BY <1>1, <2>1, Parts DEF Over, Goto
  <2>2. CASE UNCHANGED job /\ ~Over(a) /\ ~(a \in Apply /\ SeedBegins(a))
    <3>1. PICK y :
              /\ at' = [at EXCEPT ![a] = y]
              /\ a \in Apply /\ y \in {"copying", "removing", "running", "verifying", "recording"}
                    => job[a].from = None \/ at[a] \in {"copying", "removing", "running", "verifying", "recording"}
      <4>1. CASE Removes(a) \/ Runs(a) \/ RunFails(a)
        BY <2>2, <4>1, Sets DEF Removes, Runs, RunFails, From, Goto
      <4>2. CASE a \in Apply /\ ~(Removes(a) \/ Runs(a) \/ RunFails(a))
        BY <1>2, <2>2, <4>2, Sets DEF RequestStep, Notes, NoteFails, Stops, SeedEnds, Verifies, Records,
           Finishes, Throws, Fails, Closes, GivesUp, From, Goto
      <4>3. CASE a \in Patch /\ ~(Removes(a) \/ Runs(a) \/ RunFails(a))
        BY <1>2, <2>2, <4>3, Sets DEF RequestStep, ClosesGate, Writes, WriteFails, Syncs, From, Goto
      <4> QED BY <4>1, <4>2, <4>3, Sets
    <3>2. at'[a] = y
      BY <3>1, Parts
    <3> QED BY <2>2, <3>1, <3>2, FilledGrows DEF FilledPlaces, Fits
  <2>3. CASE a \in Apply /\ SeedBegins(a)
    <3>1. job'[a].row = job[a].row /\ job'[a].next = job[a].next /\ job[a].next \in filled'
      BY <2>3, Parts, JobParts DEF SeedBegins, Job
    <3> QED BY <3>1, FilledGrows DEF FilledPlaces, Fits
  <2> QED BY <1>2, <2>1, <2>2, <2>3 DEF RequestStep, Removes, Runs, RunFails, Notes, NoteFails, Stops,
     SeedEnds, Verifies, Records, Finishes, Throws, Fails, Closes, GivesUp, ClosesGate, Writes, WriteFails,
     Syncs
<1>3. ASSUME NEW a \in Actor, Asked(a) PROVE Fits(a)
  <2>1. CASE a \in Apply
    <3>1. PICK p \in Place : ApplyAsked(a, p)
      BY <1>3, <2>1, Sets DEF Asked
    <3>2. /\ job'[a].row = row /\ job'[a].next = p /\ job'[a].from = Source(p) /\ at'[a] = "noting"
      BY <3>1, Parts DEF ApplyAsked, From, Goto, NoJob
    <3>3. Source(p) = None => p \in filled
      BY Parts, Sets DEF Source, FilledPlaces
    <3> QED BY <3>2, <3>3, FilledGrows DEF FilledPlaces, Fits
  <2>2. CASE a \in Patch
    <3>1. PICK access \in Access : PatchAsked(a, access)
      BY <1>3, <2>2, Sets DEF Asked
    <3>2. job'[a].row = row
      BY <3>1, Parts DEF PatchAsked, NoJob
    <3> QED BY <2>2, <3>2, Sets, FilledGrows DEF FilledPlaces, Fits
  <2> QED BY <2>1, <2>2, Sets
<1>4. CASE Dies
  BY <1>1, <1>4 DEF Dies
<1>5. CASE UNCHANGED requests
  BY <1>0, <1>5 DEF requests
<1> QED BY <1>0, <1>2, <1>3, <1>4, <1>5, WhoSteps, OthersStay

\* So what is run on stays filled.
LEMMA FilledHolds == TypeOK /\ JobsFit /\ FilledPlaces /\ [Next]_vars => FilledPlaces'
<1> SUFFICES ASSUME TypeOK, JobsFit, FilledPlaces, [Next]_vars PROVE FilledPlaces'
  OBVIOUS
<1>1. Volume \in filled'
  BY FilledGrows DEF FilledPlaces
<1> QED BY <1>1, BoxIsFilled, RowIsFilled, ContentIsFilled, JobsAreFilled DEF FilledPlaces

\* The engine's writes are counted up.
LEMMA WritesGrow == TypeOK /\ [Next]_vars => writes' \in Nat /\ writes \in Nat /\ writes <= writes'
<1> SUFFICES ASSUME TypeOK, [Next]_vars PROVE writes' \in Nat /\ writes \in Nat /\ writes <= writes'
  OBVIOUS
<1>1. writes \in Nat
  BY Parts
<1>2. writes' = writes \/ writes' = writes + 1
  BY NextSplit, Zenon DEF vars, data, Removes, Runs, RunFails, Notes, NoteFails, Stops, SeedBegins,
     SeedEnds, Verifies, Records, Finishes, Throws, Fails, Closes, GivesUp, ApplyAsked, ClosesGate,
     Writes, WriteFails, Syncs, PatchAsked, Starts, Halts, TakesWrite, Dies, Boots, Rebuilds, Gates
<1> QED BY <1>1, <1>2

\* A job keeps the row it was read with, is given the row there is, or is over.
LEMMA JobRows ==
    ASSUME TypeOK, [Next]_vars, NEW c \in Actor PROVE job'[c].row \in {job[c].row, row, FirstRow}
<1>0. job \in [Actor -> Job]
  BY Parts
<1>1. ASSUME RequestStep(c) PROVE job'[c].row \in {job[c].row, row, FirstRow}
  <2>1. CASE Over(c)
    BY <1>0, <2>1, NoJobFits DEF Over
  <2>2. CASE c \in Apply /\ SeedBegins(c)
    BY <1>0, <2>2 DEF SeedBegins, Job
  <2>3. CASE UNCHANGED job
    BY <2>3
  <2> QED BY <1>1, <2>1, <2>2, <2>3 DEF RequestStep, Removes, Runs, RunFails, Notes, NoteFails, Stops,
     SeedEnds, Verifies, Records, Finishes, Throws, Fails, Closes, GivesUp, ClosesGate, Writes, WriteFails,
     Syncs
<1>2. ASSUME Asked(c) PROVE job'[c].row \in {job[c].row, row, FirstRow}
  BY <1>0, <1>2 DEF Asked, ApplyAsked, PatchAsked, NoJob
<1>3. CASE Dies
  BY <1>3, NoJobFits DEF Dies
<1>4. CASE job'[c] = job[c]
  BY <1>4
<1> QED BY <1>1, <1>2, <1>3, <1>4, WhoSteps, OthersStay DEF requests

\* An application that fills a folder after a step did so before it, from the
\* same place, or was asked for by it.
LEMMA SowsSince ==
    ASSUME TypeOK, [Next]_vars, NEW b \in Apply, Sows(b)'
    PROVE  \/ Asked(b)
           \/ /\ Sows(b) /\ job'[b].next = job[b].next /\ job'[b].from = job[b].from
              /\ \/ at'[b] = at[b] /\ job'[b] = job[b]
                 \/ Notes(b) \/ Stops(b) \/ SeedBegins(b)
<1>0. b \in Actor
  BY Sets
<1>1. ASSUME RequestStep(b), ~Asked(b)
      PROVE  /\ Sows(b) /\ job'[b].next = job[b].next /\ job'[b].from = job[b].from
             /\ Notes(b) \/ Stops(b) \/ SeedBegins(b)
  <2>1. Notes(b) \/ Stops(b) \/ SeedBegins(b)
    <3>1. ~(Removes(b) \/ Runs(b) \/ RunFails(b))
      BY Parts, <1>0 DEF Sows, Removes, Runs, RunFails, From, Goto, Over
    <3>2. ~(NoteFails(b) \/ SeedEnds(b) \/ Verifies(b) \/ Records(b) \/ Finishes(b)
            \/ Throws(b) \/ Fails(b) \/ Closes(b) \/ GivesUp(b))
      BY Parts, <1>0 DEF Sows, NoteFails, SeedEnds, Verifies, Records, Finishes, Throws, Fails, Closes,
         GivesUp, From, Goto, Over
    <3> QED BY <1>1, <3>1, <3>2, Sets DEF RequestStep
  <2>2. at[b] \in {"noting", "stopping", "seeding"}
    BY <2>1 DEF Notes, Stops, SeedBegins, From
  <2>3. job'[b].next = job[b].next /\ job'[b].from = job[b].from
    <3>1. CASE UNCHANGED job
      BY <3>1
    <3>2. CASE SeedBegins(b)
      BY <3>2, <1>0, Parts DEF SeedBegins, Job
    <3> QED BY <2>1, <3>1, <3>2 DEF Notes, Stops
  <2> QED BY <2>1, <2>2, <2>3 DEF Sows
<1>2. CASE at'[b] = at[b] /\ job'[b] = job[b]
  BY <1>2 DEF Sows
<1>3. CASE Dies
  BY <1>0, <1>3 DEF Dies, Sows
<1> QED BY <1>0, <1>1, <1>2, <1>3, WhoSteps, OthersStay DEF requests

\* The folder an application fills stays empty until its copy is whole: nobody
\* else has read it as the place to run on, and nothing runs there.
LEMMA FolderHolds ==
    TypeOK /\ JobsFit /\ CrossingsKnown /\ FilledPlaces /\ FolderIsFree /\ NothingErased /\ [Next]_vars
        => FolderIsFree'
<1> SUFFICES ASSUME TypeOK, JobsFit, CrossingsKnown, FilledPlaces, FolderIsFree, NothingErased, [Next]_vars,
                    Without({"crossed"})', NEW b \in Apply, Sows(b)'
             PROVE  /\ job'[b].next \in Folder
                    /\ content'[job'[b].next] = {}
                    /\ job'[b].next \notin {box'.place, row'.place}
                    /\ \A c \in Actor : job'[c].row.place # job'[b].next
                    /\ at'[b] = "copying" => job'[b].copied \subseteq 1..writes'
  BY DEF FolderIsFree
<1>0. /\ Without({"crossed"}) /\ OneOf(Apply)
      /\ b \in Actor /\ UNION {content[p] : p \in Place} = 1..writes
  BY HistoryHolds, Sets DEF Without, CrossingsKnown, NothingErased
<1>1. CASE Asked(b)
  <2>1. PICK p \in Place : ApplyAsked(b, p)
    BY <1>1, Sets DEF Asked
  <2>2. /\ job'[b].row = row /\ job'[b].next = p /\ job'[b].from = Source(p) /\ at'[b] = "noting"
        /\ UNCHANGED <<content, box, row>>
    BY <1>0, <2>1, Parts DEF ApplyAsked, From, Goto, NoJob, data
  <2>3. p \in Folder /\ p # row.place /\ p \notin filled
    BY <2>2 DEF Sows, Source
  <2>4. \A c \in Actor : job'[c].row.place # p
    BY <1>0, <1>1, <2>2, <2>3, OthersStay DEF FilledPlaces
  <2> QED BY <2>2, <2>3, <2>4 DEF FilledPlaces
<1>2. CASE ~Asked(b)
  <2> DEFINE n == job[b].next
  <2>1. /\ Sows(b) /\ job'[b].next = n /\ job'[b].from = job[b].from
        /\ \/ at'[b] = at[b] /\ job'[b] = job[b]
           \/ Notes(b) \/ Stops(b) \/ SeedBegins(b)
    BY <1>2, SowsSince
  <2>2. /\ n \in Folder /\ n \in Place /\ n # Volume
        /\ content[n] = {} /\ n # box.place /\ n # row.place
        /\ \A c \in Actor : job[c].row.place # n
        /\ at[b] = "copying" => job[b].copied \subseteq 1..writes
    BY <1>0, <2>1, Sets DEF FolderIsFree, JobsFit
  <2>3. \A a \in Apply : Active(a) => a = b
    BY <1>0, <2>1 DEF OneOf, Active, Sows
  <2> HIDE DEF n
  <2>4. content'[n] = {}
    <3>1. ASSUME NEW a \in Apply, SeedEnds(a) PROVE FALSE
      <4>1. a = b
        BY <2>3, <3>1 DEF SeedEnds, From, Active
      <4>2. at'[b] = "removing"
        BY <1>0, <3>1, <4>1, Parts DEF SeedEnds, From, Goto
      <4> QED BY <4>2 DEF Sows
    <3>2. CASE TakesWrite
      BY <2>2, <3>2, Parts DEF TakesWrite
    <3>3. CASE UNCHANGED content
      BY <2>2, <3>3
    <3> QED BY <3>1, <3>2, <3>3, NextSplit DEF vars, data, Removes, Runs, RunFails, Notes, NoteFails, Stops,
       SeedBegins, Verifies, Records, Finishes, Throws, Fails, Closes, GivesUp, ApplyAsked, ClosesGate,
       Writes, WriteFails, Syncs, PatchAsked, Starts, Halts, Dies, Boots, Rebuilds, Gates
  <2>5. box'.place # n
    <3>1. ASSUME NEW a \in Actor, Removes(a) \/ Runs(a) \/ RunFails(a) PROVE box'.place # n
      <4>1. Active(a) /\ RequestStep(a)
        BY <3>1 DEF Removes, Runs, RunFails, From, Active, RequestStep
      <4>2. CASE a \in Apply
        <5>1. a = b
          BY <2>3, <4>1, <4>2
        <5>2. at'[b] \notin {"noting", "stopping", "seeding", "copying"}
          BY <1>0, <3>1, <5>1, Parts DEF Removes, Runs, RunFails, From, Goto, Over
        <5> QED BY <5>2 DEF Sows
      <4>3. CASE a \in Patch
        <5>1. Wanted(a).place = job[a].row.place
          BY <4>3, Sets DEF Wanted
        <5> QED BY <2>2, <3>1, <5>1, MakesWanted, NoJobFits
      <4> QED BY <4>2, <4>3, Sets
    <3>2. ASSUME NEW a \in Apply, Stops(a) PROVE box'.place # n
      BY <2>2, <3>2, Parts DEF Stops, Box
    <3>3. CASE Starts \/ Halts
      BY <2>2, <3>3, Parts DEF Starts, Halts, Box
    <3>4. CASE Rebuilds
      BY <2>2, <3>4, RebuildsFromRow
    <3>5. CASE UNCHANGED box
      BY <2>2, <3>5
    <3> QED BY <3>1, <3>2, <3>3, <3>4, <3>5, NextSplit DEF vars, Notes, NoteFails, SeedBegins, SeedEnds,
       Verifies, Records, Finishes, Throws, Fails, Closes, GivesUp, ApplyAsked, ClosesGate, Writes,
       WriteFails, Syncs, PatchAsked, TakesWrite, Dies, Boots, Gates
  <2>6. row'.place # n
    <3>1. ASSUME NEW a \in Apply, Records(a) PROVE FALSE
      <4>1. a = b
        BY <2>3, <3>1 DEF Records, From, Active
      <4>2. at'[b] = "finishing"
        BY <1>0, <3>1, <4>1, Parts DEF Records, From, Goto
      <4> QED BY <4>2 DEF Sows
    <3>2. CASE UNCHANGED row
      BY <2>2, <3>2
    <3>3. CASE (\E p \in Patch : Writes(p)) \/ Starts \/ Halts
      BY <2>2, <3>3, Parts DEF Writes, Starts, Halts, Row
    <3> QED BY <3>1, <3>2, <3>3, NextSplit DEF vars, Removes, Runs, RunFails, Notes, NoteFails, Stops,
       SeedBegins, SeedEnds, Verifies, Finishes, Throws, Fails, Closes, GivesUp, ApplyAsked, ClosesGate,
       WriteFails, Syncs, PatchAsked, TakesWrite, Dies, Boots, Rebuilds, Gates
  <2>7. ASSUME NEW c \in Actor PROVE job'[c].row.place # n
    <3>1. job'[c].row \in {job[c].row, row, FirstRow}
      BY JobRows
    <3> QED BY <2>2, <3>1, NoJobFits
  <2>8. at'[b] = "copying" => job'[b].copied \subseteq 1..writes'
    <3>1. 1..writes \subseteq 1..writes'
      BY WritesGrow, Parts
    <3>2. CASE at'[b] = at[b] /\ job'[b] = job[b]
      BY <2>2, <3>1, <3>2
    <3>3. CASE Notes(b) \/ Stops(b)
      BY <1>0, <3>3, Parts DEF Notes, Stops, From, Goto
    <3>4. CASE SeedBegins(b)
      <4>1. job[b].from \in Place /\ job'[b].copied = content[job[b].from]
        BY <1>0, <2>1, <3>4, Parts, JobParts DEF SeedBegins, Job, Sows
      <4> QED BY <1>0, <3>1, <4>1
    <3> QED BY <2>1, <3>2, <3>3, <3>4
  <2> QED BY <2>1, <2>2, <2>4, <2>5, <2>6, <2>7, <2>8
<1> QED BY <1>1, <1>2

\* What the engine has written is somewhere: a write adds to what is there, and
\* a copy covers an empty folder.
LEMMA NothingHolds ==
    TypeOK /\ JobsFit /\ FolderIsFree /\ NothingErased /\ [Next]_vars => NothingErased'
<1> SUFFICES ASSUME TypeOK, JobsFit, FolderIsFree, NothingErased, [Next]_vars, Without({"crossed"})'
             PROVE  UNION {content'[p] : p \in Place} = 1..writes'
  BY DEF NothingErased
<1>0. Without({"crossed"}) /\ UNION {content[p] : p \in Place} = 1..writes
  BY HistoryHolds DEF Without, NothingErased
<1>1. ASSUME NEW a \in Apply, SeedEnds(a) PROVE UNION {content'[p] : p \in Place} = 1..writes'
  <2>1. /\ at[a] = "copying" /\ job[a].next \in Place /\ writes' = writes
        /\ content' = [content EXCEPT ![job[a].next] = job[a].copied]
    BY <1>1 DEF SeedEnds, From, JobsFit
  <2>2. content[job[a].next] = {} /\ job[a].copied \subseteq 1..writes
    BY <1>0, <2>1 DEF FolderIsFree, Sows, JobsFit
  <2>3. \A p \in Place : content'[p] = IF p = job[a].next THEN job[a].copied ELSE content[p]
    BY <2>1, Parts
  <2> QED BY <1>0, <2>1, <2>2, <2>3
<1>2. CASE TakesWrite
  <2>1. box.place \in Place /\ writes' = writes + 1 /\ writes \in Nat
    BY <1>2, Parts, WritesGrow DEF TakesWrite
  <2>2. \A p \in Place : content'[p] = IF p = box.place THEN content[p] \union {writes'} ELSE content[p]
    BY <1>2, <2>1, Parts DEF TakesWrite
  <2>3. 1..writes' = 1..writes \union {writes'}
    BY <2>1
  <2> DEFINE before == 1..writes
             after == 1..writes'
  <2>4. UNION {content[p] : p \in Place} = before /\ after = before \union {writes'}
    BY <1>0, <2>3
  <2> HIDE DEF before, after
  <2>5. ASSUME NEW x PROVE x \in UNION {content'[p] : p \in Place} <=> x \in after
    <3>1. x \in UNION {content'[p] : p \in Place} <=> \E p \in Place : x \in content'[p]
      OBVIOUS
    <3>2. x \in before <=> \E p \in Place : x \in content[p]
      BY <2>4
    <3>3. (\E p \in Place : x \in content'[p]) <=> (x = writes' \/ \E p \in Place : x \in content[p])
      BY <2>1, <2>2
    <3> QED BY <2>4, <3>1, <3>2, <3>3
  <2>6. UNION {content'[p] : p \in Place} = after
    BY <2>5
  <2> QED BY <2>6 DEF after
<1>3. CASE UNCHANGED <<content, writes>>
  BY <1>0, <1>3
<1> QED BY <1>1, <1>2, <1>3, NextSplit DEF vars, data, Removes, Runs, RunFails, Notes, NoteFails, Stops,
     SeedBegins, Verifies, Records, Finishes, Throws, Fails, Closes, GivesUp, ApplyAsked, ClosesGate,
     Writes, WriteFails, Syncs, PatchAsked, Starts, Halts, Dies, Boots, Rebuilds, Gates

-----------------------------------------------------------------------------

\* What a request runs a container with.
LEMMA WantedIs ==
    ASSUME NEW a \in Actor
    PROVE  /\ a \in Patch => /\ Wanted(a).place = job[a].row.place
                             /\ Wanted(a).access = job[a].next
           /\ a \in Apply => /\ Wanted(a).access = job[a].row.access
                             /\ at[a] = "running" => Wanted(a).place = job[a].next
                             /\ at[a] # "running" => Wanted(a).place = job[a].row.place
BY Sets DEF Wanted

\* A container that runs is there.
LEMMA RunsHolds == TypeOK /\ RunsIfThere /\ [Next]_vars => RunsIfThere'
<1> SUFFICES ASSUME TypeOK, RunsIfThere, [Next]_vars PROVE RunsIfThere'
  OBVIOUS
<1>1. ASSUME NEW a \in Actor, Removes(a) \/ Runs(a) \/ RunFails(a) PROVE RunsIfThere'
  BY <1>1, MakesWanted, NoJobFits DEF RunsIfThere
<1>2. ASSUME NEW a \in Apply, Stops(a) PROVE RunsIfThere'
  BY <1>2, Parts DEF Stops, Box, RunsIfThere
<1>3. CASE Starts \/ Halts
  BY <1>3, Parts DEF Starts, Halts, Box, RunsIfThere
<1>4. CASE Rebuilds
  BY <1>4, RebuildsFromRow DEF RunsIfThere
<1>5. CASE UNCHANGED box
  BY <1>5 DEF RunsIfThere
<1> QED BY <1>1, <1>2, <1>3, <1>4, <1>5, NextSplit DEF vars, Notes, NoteFails, SeedBegins, SeedEnds,
     Verifies, Records, Finishes, Throws, Fails, Closes, GivesUp, ApplyAsked, ClosesGate, Writes,
     WriteFails, Syncs, PatchAsked, TakesWrite, Dies, Boots, Gates

\* A container is removed and made by a request, and made again by the boot; what
\* else happens to it is that it starts or stops.
LEMMA BoxStays ==
    ASSUME TypeOK, [Next]_vars, ~Rebuilds, \A a \in Actor : ~(Removes(a) \/ Runs(a) \/ RunFails(a))
    PROVE  /\ box'.exists = box.exists /\ box'.place = box.place /\ box'.access = box.access
           /\ box'.runs => box.runs \/ Starts
<1>1. CASE (\E a \in Apply : Stops(a)) \/ Starts \/ Halts
  BY <1>1, Parts DEF Stops, Starts, Halts, Box
<1>2. CASE UNCHANGED box
  BY <1>2
<1> QED BY <1>1, <1>2, NextSplit DEF vars, Notes, NoteFails, SeedBegins, SeedEnds, Verifies, Records,
     Finishes, Throws, Fails, Closes, GivesUp, ApplyAsked, ClosesGate, Writes, WriteFails, Syncs,
     PatchAsked, TakesWrite, Dies, Boots, Gates

\* The list in the row is written by an application, its access by a change of it.
LEMMA RowStays ==
    ASSUME TypeOK, [Next]_vars
    PROVE  /\ (\A a \in Apply : ~Records(a)) => row'.place = row.place
           /\ (\A p \in Patch : ~Writes(p)) => row'.access = row.access
<1>1. ASSUME NEW a \in Apply, Records(a) PROVE row'.access = row.access
  BY <1>1, Parts DEF Records, Row
<1>2. ASSUME NEW p \in Patch, Writes(p) PROVE row'.place = row.place
  BY <1>2, Parts DEF Writes, Row
<1>3. CASE Starts \/ Halts
  BY <1>3, Parts DEF Starts, Halts, Row
<1>4. CASE UNCHANGED row
  BY <1>4
<1> QED BY <1>1, <1>2, <1>3, <1>4, NextSplit DEF vars, Removes, Runs, RunFails, Notes, NoteFails, Stops,
     SeedBegins, SeedEnds, Verifies, Finishes, Throws, Fails, Closes, GivesUp, ApplyAsked, ClosesGate,
     WriteFails, Syncs, PatchAsked, TakesWrite, Dies, Boots, Rebuilds, Gates

\* As long as requests do not cross, one that steps is alone, before and after,
\* and one that is asked for finds nobody.
LEMMA StepsAlone ==
    ASSUME TypeOK, CrossingsKnown, [Next]_vars, Without({"overlap"})', NEW a \in Actor,
           RequestStep(a) \/ Asked(a)
    PROVE  \A b \in Actor : b # a => at[b] = "idle" /\ at'[b] = "idle"
<1>1. OneOf(Actor)
  BY HistoryHolds DEF CrossingsKnown, Without
<1>2. CASE RequestStep(a)
  BY <1>1, <1>2, OthersStay DEF OneOf, Active
<1>3. CASE Asked(a)
  <2>1. "overlap" \notin history' => Idle(Actor)
    BY <1>3 DEF Asked, ApplyAsked, PatchAsked, Happened
  <2> QED BY <1>3, <2>1, OthersStay DEF Idle, Without
<1> QED BY <1>2, <1>3

\* The container and the row say the same of who may reach the port, but between
\* the two steps of a change of access.
LEMMA AccessHolds ==
    TypeOK /\ JobsFit /\ CrossingsKnown /\ AccessInPlace /\ [Next]_vars => AccessInPlace'
<1> SUFFICES ASSUME TypeOK, JobsFit, CrossingsKnown, AccessInPlace, [Next]_vars,
                    Without({"overlap", "cut"})'
             PROVE  /\ \A a \in Actor : at'[a] \notin {"idle", "syncing"} => job'[a].row.access = row'.access
                    /\ (\A p \in Patch : at'[p] # "writing") => (box'.exists => box'.access = row'.access)
                    /\ \A p \in Patch : at'[p] = "writing" => (box'.exists => box'.access = job'[p].next)
  BY DEF AccessInPlace
<1> DEFINE Goal == /\ \A a \in Actor : at'[a] \notin {"idle", "syncing"} => job'[a].row.access = row'.access
                   /\ (\A p \in Patch : at'[p] # "writing") => (box'.exists => box'.access = row'.access)
                   /\ \A p \in Patch : at'[p] = "writing" => (box'.exists => box'.access = job'[p].next)
<1>0. /\ Without({"overlap"})' /\ "cut" \notin history'
      /\ \A a \in Actor : at[a] \notin {"idle", "syncing"} => job[a].row.access = row.access
      /\ (\A p \in Patch : at[p] # "writing") => (box.exists => box.access = row.access)
      /\ \A p \in Patch : at[p] = "writing" => (box.exists => box.access = job[p].next)
  BY HistoryHolds DEF AccessInPlace, Without
<1>1. ASSUME NEW a \in Actor, Removes(a) PROVE Goal
  <2>1. at'[a] \in {"running", "remaking"} /\ at[a] \in {"removing", "unmaking"} /\ UNCHANGED <<job, row>>
    BY <1>1, Parts DEF Removes, From, Goto
  <2>2. \A b \in Actor : b # a => at'[b] = "idle"
    BY <1>0, <1>1, StepsAlone DEF RequestStep
  <2>3. ~box'.exists
    BY <1>1, NoJobFits DEF Removes
  <2> QED BY <1>0, <2>1, <2>2, <2>3
<1>2. ASSUME NEW a \in Actor, Runs(a) PROVE Goal
  <2>1. /\ at[a] \in {"running", "remaking"} /\ UNCHANGED <<job, row>>
        /\ a \in Patch => at[a] = "running" /\ at'[a] = "writing"
        /\ a \in Apply => at'[a] \in {"verifying", "recording", "closing"}
    BY <1>2, Parts, Sets DEF Runs, From, Goto, JobsFit, PatchPoints
  <2>2. \A b \in Actor : b # a => at'[b] = "idle"
    BY <1>0, <1>2, StepsAlone DEF RequestStep
  <2>4. ~box.exists
    BY <1>2 DEF Runs
  <2>3. box'.exists => box'.access = IF a \in Patch THEN job[a].next ELSE row.access
    BY <1>0, <1>2, <2>1, <2>4, MakesWanted, WantedIs, NoJobFits, Sets
  <2> QED BY <1>0, <2>1, <2>2, <2>3, Sets
<1>3. ASSUME NEW a \in Actor, RunFails(a) PROVE Goal
  <2>1. /\ at[a] \in {"running", "remaking"} /\ UNCHANGED row
        /\ a \in Patch => at'[a] = "idle"
        /\ a \in Apply => at'[a] \in {"failing", "closing"} /\ UNCHANGED job
    BY <1>3, Parts, Sets DEF RunFails, From, Goto, Over, JobsFit, PatchPoints
  <2>2. \A b \in Actor : b # a => at'[b] = "idle"
    BY <1>0, <1>3, StepsAlone DEF RequestStep
  <2>3. a \in Patch => ~box'.exists
    BY <1>0, <1>3 DEF RunFails, Happened
  <2>4. a \in Apply => (box'.exists => box'.access = row.access)
    <3>1. \A p \in Patch : at[p] # "writing"
      BY <1>0, <1>3, <2>1, StepsAlone, Sets DEF RequestStep
    <3>2. UNCHANGED box => (box'.exists => box'.access = row.access)
      BY <1>0, <3>1
    <3> QED BY <1>0, <1>3, <2>1, <3>2, MakesWanted, WantedIs, NoJobFits
  <2> QED BY <1>0, <2>1, <2>2, <2>3, <2>4, Sets
<1>4. CASE Rebuilds
  <2>1. \A b \in Actor : at'[b] = "idle"
    BY <1>4 DEF Rebuilds, JobsFit, Idle, requests
  <2>2. UNCHANGED row
    BY <1>4 DEF Rebuilds
  <2>3. box'.exists => box'.access = row.access
    BY <1>0, <1>4, <2>1, RebuildsFromRow, Sets DEF Rebuilds, requests
  <2> QED BY <2>1, <2>2, <2>3, Sets
<1>5. CASE ~Rebuilds /\ \A a \in Actor : ~(Removes(a) \/ Runs(a) \/ RunFails(a))
  <2>0. box'.exists = box.exists /\ box'.access = box.access
    BY <1>5, BoxStays
  <2>1. ASSUME NEW p \in Patch, Writes(p) PROVE Goal
    <3>1. at[p] = "writing" /\ at'[p] = "syncing" /\ row'.access = job[p].next
      BY <2>1, Parts, Sets DEF Writes, From, Goto, Row
    <3>2. \A b \in Actor : b # p => at'[b] = "idle"
      BY <1>0, <2>1, StepsAlone, Sets DEF RequestStep
    <3> QED BY <1>0, <2>0, <3>1, <3>2, Sets
  <2>2. ASSUME NEW p \in Patch, WriteFails(p) PROVE Goal
    <3>1. at[p] = "writing" /\ at'[p] = "idle" /\ UNCHANGED row /\ ~Recreated(p)
      BY <1>0, <2>2, Parts, Sets DEF WriteFails, Over, Goto, Happened
    <3>2. \A b \in Actor : b # p => at'[b] = "idle"
      BY <1>0, <2>2, StepsAlone, Sets DEF RequestStep
    <3>3. job[p].next = row.access
      BY <1>0, <3>1, Sets DEF Recreated
    <3> QED BY <1>0, <2>0, <3>1, <3>2, <3>3, Sets
  <2>3. ASSUME NEW a \in Actor, Asked(a) PROVE Goal
    <3>1. \A b \in Actor : at[b] = "idle"
      BY <1>0, <2>3, StepsAlone, OthersStay
    <3>2. \A b \in Actor : b # a => at'[b] = "idle"
      BY <1>0, <2>3, StepsAlone
    <3>3. /\ UNCHANGED row /\ job'[a].row = row
          /\ at'[a] = "writing" => job'[a].next = row.access
      BY <2>3, Parts DEF Asked, ApplyAsked, PatchAsked, From, Goto, NoJob
    <3>4. box.exists => box.access = row.access
      BY <1>0, <3>1, Sets
    <3> QED BY <2>0, <3>2, <3>3, <3>4, Sets
  <2>4. ASSUME NEW a \in Actor, RequestStep(a), \A p \in Patch : ~Writes(p) /\ ~WriteFails(p) PROVE Goal
    <3>1. \A b \in Actor : b # a => at[b] = "idle" /\ at'[b] = "idle"
      BY <1>0, <2>4, StepsAlone
    <3>2. row'.access = row.access
      BY <2>4, RowStays
    <3>3. at'[a] \notin {"idle", "syncing"} => at[a] \notin {"idle", "syncing"} /\ job'[a].row = job[a].row
      <4>1. CASE a \in Apply
        BY <1>5, <2>4, <4>1, Parts, Sets DEF RequestStep, Notes, NoteFails, Stops, SeedBegins, SeedEnds, Verifies, Records,
           Finishes, Throws, Fails, Closes, GivesUp, From, Goto, Over, Job
      <4>2. CASE a \in Patch
        BY <1>5, <2>4, <4>2, Parts, Sets DEF RequestStep, ClosesGate, Syncs, From, Goto, Over
      <4> QED BY <4>1, <4>2, Sets
    <3>4. a \in Patch => at[a] # "writing" /\ at'[a] # "writing"
      BY <1>5, <2>4, Parts, Sets DEF RequestStep, ClosesGate, Syncs, From, Goto, Over
    <3> QED BY <1>0, <2>0, <3>1, <3>2, <3>3, <3>4, Sets
  <2>5. CASE Dies
    <3>1. \A b \in Actor : at'[b] = "idle"
      BY <2>5 DEF Dies
    <3>2. \A p \in Patch : at[p] = "writing" => ~Recreated(p)
      BY <1>0, <2>5 DEF Dies, Happened
    <3>3. box.exists => box.access = row.access
      <4>1. ASSUME NEW p \in Patch, at[p] = "writing", box.exists PROVE box.access = row.access
        BY <1>0, <3>2, <4>1, Sets DEF Recreated
      <4> QED BY <1>0, <4>1
    <3>4. UNCHANGED row
      BY <2>5 DEF Dies
    <3> QED BY <2>0, <3>1, <3>3, <3>4, Sets
  <2>6. CASE UNCHANGED requests
    <3>1. \A p \in Patch : ~Writes(p)
      BY <2>6, Parts, Sets DEF Writes, From, Goto, requests
    <3>2. row'.access = row.access
      BY <3>1, RowStays
    <3> QED BY <1>0, <2>0, <2>6, <3>2 DEF requests
  <2> QED BY <2>1, <2>2, <2>3, <2>4, <2>5, <2>6, WhoSteps
<1> QED BY <1>1, <1>2, <1>3, <1>4, <1>5

\* What makes and removes a container does so from there.
LEMMA OnlyMakes ==
    ASSUME TypeOK, JobsFit, NEW a \in Actor, RequestStep(a), at[a] \in {"running", "remaking"}
    PROVE  Runs(a) \/ RunFails(a)
BY DEF RequestStep, Removes, Notes, NoteFails, Stops, SeedBegins, SeedEnds, Verifies, Records, Finishes,
   Throws, Fails, Closes, GivesUp, ClosesGate, Writes, WriteFails, Syncs, From

\* The journal says so while an application is past its first statement.
LEMMA JournalHolds ==
    ASSUME TypeOK, JobsFit, CrossingsKnown, [Next]_vars, Without({"overlap"})',
           \A a \in Apply : at[a] \notin {"idle", "noting"} => journal = "applying"
    PROVE  \A a \in Apply : at'[a] \notin {"idle", "noting"} => journal' = "applying"
<1> DEFINE Says == \A a \in Apply : at'[a] \notin {"idle", "noting"} => journal' = "applying"
<1> SUFFICES Says
  OBVIOUS
<1>1. ASSUME NEW a \in Actor, RequestStep(a) PROVE Says
  <2>1. \A b \in Actor : b # a => at'[b] = "idle"
    BY <1>1, StepsAlone
  <2>2. ASSUME a \in Apply, at'[a] \notin {"idle", "noting"} PROVE journal' = "applying"
    <3>1. CASE Notes(a)
      BY <3>1 DEF Notes
    <3>2. CASE Removes(a) \/ Runs(a) \/ RunFails(a)
      BY <2>2, <3>2 DEF Removes, Runs, RunFails, From
    <3>3. CASE ~(Notes(a) \/ Removes(a) \/ Runs(a) \/ RunFails(a))
      BY <1>1, <2>2, <3>3, Parts, Sets DEF RequestStep, NoteFails, Stops, SeedBegins, SeedEnds, Verifies,
         Records, Finishes, Throws, Fails, Closes, GivesUp, From, Over, Goto
    <3> QED BY <3>1, <3>2, <3>3
  <2> QED BY <2>1, <2>2, Sets
<1>2. ASSUME NEW a \in Actor, Asked(a) PROVE Says
  <2>1. \A b \in Actor : b # a => at'[b] = "idle"
    BY <1>2, StepsAlone
  <2>2. a \in Apply => at'[a] = "noting"
    BY <1>2, Parts, Sets DEF Asked, ApplyAsked, From, Goto
  <2> QED BY <2>1, <2>2, Sets
<1>3. CASE Dies
  BY <1>3, Sets DEF Dies
<1>4. CASE UNCHANGED requests
  <2>1. CASE Rebuilds
    BY <2>1, <1>4, Sets DEF Rebuilds, JobsFit, Idle, requests
  <2>2. CASE UNCHANGED journal
    BY <1>4, <2>2 DEF requests
  <2>3. ASSUME NEW a \in Actor, RequestStep(a) PROVE Says
    BY <1>1, <2>3
  <2>4. ASSUME NEW a \in Actor, Asked(a) PROVE Says
    BY <1>2, <2>4
  <2> QED BY <1>3, <2>1, <2>2, <2>3, <2>4, NextSplit, Sets DEF RequestStep, Asked, Starts, Halts, TakesWrite,
     Boots, Gates, vars
<1> QED BY <1>1, <1>2, <1>3, <1>4, WhoSteps

\* Whoever removed the container is about to make it, or the journal has the
\* boot do so.
LEMMA StandsHolds ==
    TypeOK /\ JobsFit /\ CrossingsKnown /\ Stands /\ [Next]_vars => Stands'
<1> DEFINE Made1 == \/ \E a \in Actor : at'[a] \in {"running", "remaking"}
                    \/ up' \in {"down", "rebuilding"} /\ journal' = "applying"
<1> SUFFICES ASSUME TypeOK, JobsFit, CrossingsKnown, Stands, [Next]_vars,
                    Without({"overlap", "run failed", "patch died"})'
             PROVE  /\ ~box'.exists => Made1
                    /\ \A a \in Apply : at'[a] \notin {"idle", "noting"} => journal' = "applying"
  BY DEF Stands
<1>0. /\ Without({"overlap"})' /\ "run failed" \notin history' /\ "patch died" \notin history'
      /\ ~box.exists => \/ \E a \in Actor : at[a] \in {"running", "remaking"}
                        \/ up \in {"down", "rebuilding"} /\ journal = "applying"
      /\ \A a \in Apply : at[a] \notin {"idle", "noting"} => journal = "applying"
  BY HistoryHolds DEF Stands, Without
<1>1. \A a \in Apply : at'[a] \notin {"idle", "noting"} => journal' = "applying"
  BY <1>0, JournalHolds
<1> SUFFICES ASSUME ~box'.exists PROVE Made1
  BY <1>1
<1>2. ASSUME NEW a \in Actor, RequestStep(a) PROVE Made1
  <2>0. \A b \in Actor : b # a => at[b] = "idle"
    BY <1>0, <1>2, StepsAlone
  <2>1. CASE Removes(a)
    BY <2>1, Parts DEF Removes, From, Goto
  <2>2. CASE Runs(a)
    <3>1. \E runs : box' = Made(Wanted(a), runs)
      BY <2>2, Zenon DEF Runs
    <3>2. ASSUME NEW runs, box' = Made(Wanted(a), runs) PROVE box'.exists = TRUE
      BY <3>2, Zenon DEF Made
    <3>3. box'.exists
      BY <3>1, <3>2, Zenon
    <3> QED BY <3>3
  <2>3. CASE RunFails(a)
    BY <1>0, <2>3 DEF RunFails, Happened
  <2>4. CASE ~(Removes(a) \/ Runs(a) \/ RunFails(a))
    <3>1. \A b \in Actor : ~(Removes(b) \/ Runs(b) \/ RunFails(b))
      BY <2>0, <2>4 DEF Removes, Runs, RunFails, From
    <3>2. up = "up" /\ ~Rebuilds
      BY <1>2, OthersStay, ActiveIsUp DEF Rebuilds
    <3>3. ~box.exists
      BY <3>1, <3>2, BoxStays
    <3>4. at[a] \in {"running", "remaking"}
      BY <1>0, <2>0, <3>2, <3>3
    <3> QED BY <1>2, <2>4, <3>4, OnlyMakes
  <2> QED BY <2>1, <2>2, <2>3, <2>4
<1>3. ASSUME NEW a \in Actor, Asked(a) PROVE Made1
  <2>1. \A b \in Actor : at[b] = "idle"
    BY <1>0, <1>3, StepsAlone, OthersStay
  <2>2. up = "up" /\ UNCHANGED box
    BY <1>3 DEF Asked, ApplyAsked, PatchAsked
  <2> QED BY <1>0, <2>1, <2>2
<1>4. CASE Dies
  <2>1. UNCHANGED <<box, journal>> /\ up' = "down"
    BY <1>4 DEF Dies
  <2>2. ASSUME NEW b \in Actor, at[b] \in {"running", "remaking"} PROVE journal = "applying"
    <3>1. CASE b \in Apply
      BY <1>0, <2>2, <3>1
    <3>2. CASE b \in Patch
      BY <1>0, <1>4, <2>2, <3>2 DEF Dies, Happened, JobsFit, PatchPoints
    <3> QED BY <3>1, <3>2, Sets
  <2> QED BY <1>0, <2>1, <2>2
<1>5. CASE UNCHANGED requests
  <2>1. CASE \E a \in Actor : RequestStep(a) \/ Asked(a)
    BY <1>2, <1>3, <2>1
  <2>2. CASE Rebuilds
    <3>1. journal = "applying" /\ ~box.exists => box'.exists
      <4> SUFFICES ASSUME journal = "applying", ~box.exists PROVE box'.exists
        OBVIOUS
      <4>1. ~Happened({"run failed"})
        BY <1>0 DEF Happened
      <4>2. box'.exists = TRUE
        BY <2>2, <4>1, RebuildsOrFails, Zenon
      <4> QED BY <4>2
    <3> QED BY <1>0, <1>5, <2>2, <3>1 DEF Rebuilds, requests
  <2>3. CASE ~Rebuilds /\ \A a \in Actor : ~RequestStep(a) /\ ~Asked(a)
    <3>1. ~box.exists
      BY <2>3, BoxStays DEF RequestStep
    <3>2. UNCHANGED journal /\ (up' = up \/ Boots \/ Gates \/ Dies)
      BY <1>4, <2>3, NextSplit, Sets DEF RequestStep, Asked, Starts, Halts, TakesWrite, Boots, Gates, Dies, vars
    <3> QED BY <1>0, <1>4, <1>5, <3>1, <3>2 DEF requests, Boots, Gates
  <2> QED BY <2>1, <2>2, <2>3
<1> QED BY <1>2, <1>3, <1>4, <1>5, WhoSteps

\* With the other requests idle, where the data is depends on one of them.
DataBy(a) ==
    /\ at[a] \notin {"idle", "finishing"} => job[a].row.place = row.place
    /\ at[a] \notin Away \union {"failing", "unmaking"} => (box.exists => box.place = row.place)
    /\ at[a] \notin Away => content[row.place] = 1..writes
    /\ DataOf(a)

\* An application's steps up to the removal of the container.
LEMMA DataPrepared ==
    ASSUME TypeOK, JobsFit, RunsIfThere, [Next]_vars, NEW a \in Apply, DataBy(a),
           Notes(a) \/ NoteFails(a) \/ Stops(a) \/ SeedBegins(a) \/ SeedEnds(a)
    PROVE  DataBy(a)'
<1>0. a \in Actor /\ job[a] \in Job /\ job[a].next \in Place
  BY JobParts, Sets
<1>1. CASE Notes(a)
  <2>1. /\ at[a] = "noting" /\ at'[a] = IF job[a].from # None THEN "stopping" ELSE "removing"
        /\ UNCHANGED <<box, content, writes, row, job>>
    BY <1>0, <1>1, Parts DEF Notes, From, Goto, data
  <2> QED BY <2>1 DEF DataBy, DataOf, Away
<1>2. CASE NoteFails(a)
  <2>1. at[a] = "noting" /\ at'[a] = "idle" /\ UNCHANGED <<box, content, writes, row>>
    BY <1>0, <1>2, Parts DEF NoteFails, Over, Goto, data
  <2> QED BY <2>1 DEF DataBy, DataOf, Away
<1>3. CASE Stops(a)
  <2>1. /\ at[a] = "stopping" /\ at'[a] = "seeding" /\ box.exists
        /\ UNCHANGED <<content, writes, row, job>> /\ job[a].from # None
    BY <1>0, <1>3, Parts DEF Stops, From, Goto, data, JobsFit
  <2>2. ~box'.runs /\ box'.place = box.place
    BY <1>3, Parts DEF Stops, Box
  <2> QED BY <2>1, <2>2 DEF DataBy, DataOf, Away
<1>4. CASE SeedBegins(a)
  <2>1. /\ at[a] = "seeding" /\ at'[a] = "copying" /\ UNCHANGED <<box, content, writes, row>>
        /\ job'[a].row = job[a].row /\ job'[a].copied = content[job[a].from]
    BY <1>0, <1>4, Parts DEF SeedBegins, From, Goto, Job
  <2> QED BY <2>1 DEF DataBy, DataOf, Away
<1>5. CASE SeedEnds(a)
  <2>1. /\ at[a] = "copying" /\ at'[a] = "removing" /\ UNCHANGED <<box, writes, row, job>>
        /\ job[a].from # None
        /\ \A p \in Place : content'[p] = IF p = job[a].next THEN job[a].copied ELSE content[p]
    BY <1>0, <1>5, Parts DEF SeedEnds, From, Goto, JobsFit
  <2>2. row.place \in Place
    BY Parts
  <2> QED BY <1>0, <2>1, <2>2 DEF DataBy, DataOf, Away
<1> QED BY <1>1, <1>2, <1>3, <1>4, <1>5

\* Its steps around the container.
LEMMA DataMoved ==
    ASSUME TypeOK, JobsFit, [Next]_vars, NEW a \in Apply, DataBy(a), Removes(a) \/ Runs(a) \/ RunFails(a)
    PROVE  DataBy(a)'
<1>0. a \in Actor /\ a \notin Patch
  BY Sets
<1>1. CASE Removes(a)
  <2>1. /\ \/ at[a] = "removing" /\ at'[a] = "running"
           \/ at[a] = "unmaking" /\ at'[a] = "remaking"
        /\ UNCHANGED <<content, writes, row, job>>
    BY <1>0, <1>1, Parts DEF Removes, From, Goto, data
  <2>2. ~box'.exists /\ ~box'.runs
    BY <1>1, NoJobFits DEF Removes
  <2> QED BY <2>1, <2>2 DEF DataBy, DataOf, Away
<1>2. CASE Runs(a)
  <2>1. /\ \/ at[a] = "running" /\ at'[a] = "verifying" /\ job[a].from # None
           \/ at[a] = "running" /\ at'[a] = "recording"
           \/ at[a] = "remaking" /\ at'[a] = "closing"
        /\ UNCHANGED <<content, writes, row, job>>
    BY <1>0, <1>2, Parts DEF Runs, From, Goto
  <2>2. box'.exists = TRUE /\ box'.place = IF at[a] = "running" THEN job[a].next ELSE job[a].row.place
    <3>1. \E runs : box' = Made(Wanted(a), runs)
      BY <1>2, Zenon DEF Runs
    <3> QED BY <1>0, <3>1, WantedIs DEF Made
  <2> QED BY <2>1, <2>2 DEF DataBy, DataOf, Away
<1>3. CASE RunFails(a)
  <2>1. /\ \/ at[a] = "running" /\ at'[a] = "failing"
           \/ at[a] = "remaking" /\ at'[a] = "closing"
        /\ UNCHANGED <<content, writes, row, job>>
    BY <1>0, <1>3, Parts DEF RunFails, From, Goto, data
  <2>0. ~box.exists
    BY <2>1 DEF DataBy, DataOf
  <2>2. ~box'.runs
    <3>1. box' = NoBox \/ box' = Made(Wanted(a), FALSE)
      BY <1>3, <2>0 DEF RunFails
    <3>2. box'.runs = FALSE
      BY <3>1, NoJobFits DEF Made
    <3> QED BY <3>2
  <2>3. at[a] = "remaking" /\ box'.exists => box'.place = job[a].row.place
    BY <1>0, <1>3, <2>0, MakesWanted, WantedIs, NoJobFits
  <2> QED BY <2>1, <2>2, <2>3 DEF DataBy, DataOf, Away
<1> QED BY <1>1, <1>2, <1>3

\* Its steps once the container is made, or it has failed.
LEMMA DataSettled ==
    ASSUME TypeOK, JobsFit, RunsIfThere, [Next]_vars, "strayed" \notin history', NEW a \in Apply, DataBy(a),
           Verifies(a) \/ Records(a) \/ Finishes(a) \/ Throws(a) \/ Fails(a) \/ Closes(a) \/ GivesUp(a)
    PROVE  DataBy(a)'
<1>0. a \in Actor
  BY Sets
<1>1. CASE Verifies(a)
  <2>1. at[a] = "verifying" /\ at'[a] = "recording" /\ UNCHANGED <<box, content, writes, row, job>>
    BY <1>0, <1>1, Parts DEF Verifies, From, Goto, data
  <2> QED BY <2>1 DEF DataBy, DataOf, Away
<1>2. CASE Records(a)
  <2>1. /\ at[a] = "recording" /\ at'[a] = "finishing" /\ UNCHANGED <<box, content, writes, job>>
        /\ row'.place = job[a].next
    BY <1>0, <1>2, Parts DEF Records, From, Goto, data, Row
  <2> QED BY <2>1 DEF DataBy, DataOf, Away
<1>3. CASE Finishes(a) \/ Closes(a)
  <2>1. at[a] \in {"finishing", "closing"} /\ at'[a] = "idle" /\ UNCHANGED <<box, content, writes, row>>
    BY <1>0, <1>3, Parts DEF Finishes, Closes, Over, Goto, data
  <2> QED BY <2>1 DEF DataBy, DataOf, Away
<1>4. CASE Throws(a)
  <2>1. /\ at[a] \in {"stopping", "seeding", "copying"} /\ at'[a] = "failing"
        /\ UNCHANGED <<box, content, writes, row, job>>
    BY <1>0, <1>4, Parts DEF Throws, Goto, data, Happened
  <2> QED BY <2>1 DEF DataBy, DataOf, Away, RunsIfThere
<1>5. CASE Fails(a)
  <2>1. at[a] = "failing" /\ at'[a] = "unmaking" /\ UNCHANGED <<box, content, writes, row, job>>
    BY <1>0, <1>5, Parts DEF Fails, From, Goto, data
  <2> QED BY <2>1 DEF DataBy, DataOf, Away
<1>6. CASE GivesUp(a)
  <2>1. at[a] = "closing" /\ at'[a] = "idle" /\ UNCHANGED <<box, content, writes, row>>
    BY <1>0, <1>6, Parts DEF GivesUp, Over, Goto, data, Happened
  <2> QED BY <2>1 DEF DataBy, DataOf, Away
<1> QED BY <1>1, <1>2, <1>3, <1>4, <1>5, <1>6

\* A change of access leaves the data, and puts the container back on it.
LEMMA DataUntouched ==
    ASSUME TypeOK, JobsFit, [Next]_vars, NEW p \in Patch, RequestStep(p),
           at[p] # "idle" => job[p].row.place = row.place,
           box.exists => box.place = row.place
    PROVE  /\ UNCHANGED <<content, writes>> /\ row'.place = row.place
           /\ at'[p] # "idle" => job'[p].row.place = row'.place
           /\ box'.exists => box'.place = row'.place
<1>0. p \in Actor /\ p \notin Apply /\ at[p] # "idle"
  BY Sets, OthersStay DEF Active
<1>1. CASE Removes(p) \/ Runs(p) \/ RunFails(p)
  <2>1. UNCHANGED <<content, writes, row>>
    BY <1>1 DEF Removes, Runs, RunFails, data
  <2>2. box'.exists => box'.place = row'.place
    BY <1>0, <1>1, <2>1, MakesWanted, WantedIs, NoJobFits
  <2>3. at'[p] # "idle" => job'[p].row.place = row'.place
    BY <1>0, <1>1, <2>1, Parts DEF Removes, Runs, RunFails, Over, Goto
  <2> QED BY <2>1, <2>2, <2>3
<1>2. CASE ClosesGate(p) \/ Writes(p) \/ WriteFails(p) \/ Syncs(p)
  <2>1. UNCHANGED <<content, writes, box>> /\ row'.place = row.place
    BY <1>2, Parts DEF ClosesGate, Writes, WriteFails, Syncs, data, Row
  <2>2. at'[p] # "idle" => job'[p].row.place = row'.place
    BY <1>0, <1>2, <2>1, Parts DEF ClosesGate, Writes, WriteFails, Syncs, Over, Goto
  <2> QED BY <2>1, <2>2
<1> QED BY <1>0, <1>1, <1>2 DEF RequestStep

\* What the engine writes while the container is in its place goes with the rest.
LEMMA DataGrows ==
    ASSUME TypeOK, RunsIfThere, TakesWrite,
           (\A a \in Apply : at[a] \notin Away \union {"failing", "unmaking"})
               => (box.exists => box.place = row.place),
           (\A a \in Apply : at[a] \notin Away) => content[row.place] = 1..writes,
           \A a, b \in Apply : Active(a) /\ Active(b) => a = b,
           \A a \in Apply : DataOf(a)
    PROVE  /\ (\A a \in Apply : at'[a] \notin Away) => content'[row'.place] = 1..writes'
           /\ \A a \in Apply : DataOf(a)'
<1>0. /\ box.runs /\ box.exists /\ writes' = writes + 1 /\ UNCHANGED <<box, row, at, job>>
      /\ box.place \in Place /\ row.place \in Place
      /\ \A p \in Place : content'[p] = IF p = box.place THEN content[p] \union {writes'} ELSE content[p]
  BY Parts DEF TakesWrite, RunsIfThere, requests
<1>1. 1..writes' = 1..writes \union {writes'}
  <2>1. writes \in Nat /\ writes' = writes + 1
    BY <1>0, Parts
  <2> QED BY <2>1
<1>2. (\A a \in Apply : at[a] \notin Away) => box.place = row.place
  <2> SUFFICES ASSUME \A a \in Apply : at[a] \notin Away, box.place # row.place PROVE FALSE
    OBVIOUS
  <2>1. PICK a \in Apply : at[a] \in {"failing", "unmaking"}
    BY <1>0
  <2> QED BY <1>0, <2>1 DEF DataOf
<1>3. (\A a \in Apply : at'[a] \notin Away) => content'[row'.place] = 1..writes'
  BY <1>0, <1>1, <1>2
<1>4. ASSUME NEW a \in Apply PROVE DataOf(a)'
  <2>1. at[a] \in {"seeding", "copying", "running"} => FALSE
    BY <1>0 DEF DataOf
  <2>2. at[a] \in Away => box.place = job[a].next
    BY DEF DataOf
  <2>3. at[a] = "removing" => job[a].next = row.place /\ box.place = row.place
    <3> SUFFICES ASSUME at[a] = "removing" PROVE job[a].next = row.place /\ box.place = row.place
      OBVIOUS
    <3>1. job[a].from = None /\ job[a].next = row.place
      BY <1>0 DEF DataOf
    <3>2. \A b \in Apply : at[b] \notin Away
      BY DEF Active, Away
    <3> QED BY <1>2, <3>1, <3>2
  <2>4. at[a] \in Away \union {"removing"} => content'[job[a].next] = 1..writes'
    BY <1>0, <1>1, <2>2, <2>3 DEF DataOf
  <2> QED BY <1>0, <2>1, <2>4 DEF DataOf
<1> QED BY <1>3, <1>4

\* Through every step the data stays where the row and the application have it.
LEMMA DataInPlaceHolds ==
    TypeOK /\ JobsFit /\ CrossingsKnown /\ FilledPlaces /\ RunsIfThere /\ DataInPlace /\ [Next]_vars
        => DataInPlace'
<1> DEFINE Goal == /\ \A a \in Actor : at'[a] \notin {"idle", "finishing"} => job'[a].row.place = row'.place
                   /\ (\A a \in Apply : at'[a] \notin Away \union {"failing", "unmaking"})
                          => (box'.exists => box'.place = row'.place)
                   /\ (\A a \in Apply : at'[a] \notin Away) => content'[row'.place] = 1..writes'
                   /\ \A a \in Apply : DataOf(a)'
<1> SUFFICES ASSUME TypeOK, JobsFit, CrossingsKnown, FilledPlaces, RunsIfThere, DataInPlace, [Next]_vars,
                    Without({"chosen", "disturbed", "overlap", "strayed"})'
             PROVE  Goal
  BY DEF DataInPlace
<1>0. /\ Without({"overlap"})' /\ Without({"overlap"})
      /\ "chosen" \notin history' /\ "disturbed" \notin history' /\ "strayed" \notin history'
      /\ \A a \in Actor : at[a] \notin {"idle", "finishing"} => job[a].row.place = row.place
      /\ (\A a \in Apply : at[a] \notin Away \union {"failing", "unmaking"})
             => (box.exists => box.place = row.place)
      /\ (\A a \in Apply : at[a] \notin Away) => content[row.place] = 1..writes
      /\ \A a \in Apply : DataOf(a)
  BY HistoryHolds DEF DataInPlace, Without
<1>1. \A b \in Actor : at'[b] = "idle" => DataOf(b)'
  BY DEF DataOf, Away
<1>2. ASSUME NEW a \in Actor, RequestStep(a) PROVE Goal
  <2>0. \A b \in Actor : b # a => at[b] = "idle" /\ at'[b] = "idle"
    BY <1>0, <1>2, StepsAlone
  <2>1. CASE a \in Apply
    <3>1. DataBy(a)
      <4>1. (\A b \in Apply : at[b] \notin Away \union {"failing", "unmaking"})
                <=> at[a] \notin Away \union {"failing", "unmaking"}
        BY <2>0, <2>1, Sets DEF Away
      <4>2. (\A b \in Apply : at[b] \notin Away) <=> at[a] \notin Away
        BY <2>0, <2>1, Sets DEF Away
      <4> QED BY <1>0, <2>1, <4>1, <4>2 DEF DataBy
    <3>2. DataBy(a)'
      BY <1>0, <1>2, <2>1, <3>1, DataPrepared, DataMoved, DataSettled, Sets DEF RequestStep
    <3> QED BY <1>1, <2>0, <2>1, <3>2, Sets DEF DataBy
  <2>2. CASE a \in Patch
    <3>1. \A b \in Apply : at[b] = "idle" /\ at'[b] = "idle"
      BY <2>0, <2>2, Sets
    <3>2. box.exists => box.place = row.place
      BY <1>0, <3>1 DEF Away
    <3>3. content[row.place] = 1..writes
      BY <1>0, <3>1 DEF Away
    <3>4. at[a] # "idle" => job[a].row.place = row.place
      BY <1>0, <2>2 DEF JobsFit, PatchPoints
    <3>5. /\ UNCHANGED <<content, writes>> /\ row'.place = row.place
          /\ at'[a] # "idle" => job'[a].row.place = row'.place
          /\ box'.exists => box'.place = row'.place
      BY <1>2, <2>2, <3>2, <3>4, DataUntouched
    <3> QED BY <1>1, <2>0, <3>1, <3>3, <3>5, Sets
  <2> QED BY <2>1, <2>2, Sets
<1>3. ASSUME NEW a \in Actor, Asked(a) PROVE Goal
  <2>0. \A b \in Actor : at[b] = "idle" /\ (b # a => at'[b] = "idle")
    BY <1>0, <1>3, StepsAlone, OthersStay
  <2>1. /\ box.exists => box.place = row.place
        /\ content[row.place] = 1..writes
    BY <1>0, <2>0, Sets DEF Away
  <2>2. /\ UNCHANGED <<box, content, writes, row>> /\ job'[a].row = row
        /\ at'[a] \in {"noting", "writing", "closing gate"}
    BY <1>3, Parts DEF Asked, ApplyAsked, PatchAsked, data, From, Goto, NoJob
  <2>3. a \in Apply => DataOf(a)'
    <3> SUFFICES ASSUME a \in Apply PROVE DataOf(a)'
      OBVIOUS
    <3>1. PICK p \in Place : ApplyAsked(a, p)
      BY <1>3, Sets DEF Asked
    <3>2. job'[a].next = p /\ job'[a].from = Source(p) /\ at'[a] = "noting"
      BY <3>1, Parts DEF ApplyAsked, From, Goto, NoJob
    <3>3. ~Consent(p)
      BY <1>0, <3>1 DEF ApplyAsked, Happened
    <3>4. Source(p) = None => p = row.place
      BY <3>3, Parts, Sets DEF Source, Consent
    <3>5. Source(p) # None => Source(p) = box.place
      BY DEF Source
    <3> QED BY <2>1, <2>2, <3>2, <3>4, <3>5 DEF DataOf, Away
  <2> QED BY <1>1, <2>0, <2>1, <2>2, <2>3, Sets
<1>4. CASE Dies
  <2>1. /\ \A b \in Actor : at'[b] = "idle"
        /\ UNCHANGED <<box, content, writes, row>>
    BY <1>4 DEF Dies, data
  <2>2. \A a \in Apply : at[a] \notin {"verifying", "recording", "finishing", "failing", "unmaking"}
    BY <1>0, <1>4 DEF Dies, Happened
  <2>3. (box.exists => box.place = row.place) /\ content[row.place] = 1..writes
    BY <1>0, <2>2 DEF Away
  <2> QED BY <1>1, <2>1, <2>3, Sets
<1>5. CASE UNCHANGED requests
  <2>0. at' = at /\ job' = job
    BY <1>5 DEF requests
  <2>1. CASE \E a \in Actor : RequestStep(a) \/ Asked(a)
    BY <1>2, <1>3, <2>1
  <2>2. CASE TakesWrite
    <3>1. \A a, b \in Apply : Active(a) /\ Active(b) => a = b
      BY <1>0, Sets DEF CrossingsKnown, OneOf
    <3>2. UNCHANGED <<box, row>>
      BY <2>2 DEF TakesWrite
    <3> QED BY <1>0, <2>0, <2>2, <3>1, <3>2, DataGrows
  <2>3. CASE Starts
    <3>1. \A a \in Apply : at[a] = "idle"
      BY <1>0, <2>3 DEF Starts, Happened, Idle
    <3>2. UNCHANGED <<content, writes>> /\ row'.place = row.place /\ box'.exists = box.exists /\ box'.place = box.place
      BY <2>3, Parts DEF Starts, Box, Row
    <3> QED BY <1>0, <1>1, <2>0, <3>1, <3>2, Sets DEF Away
  <2>4. CASE Halts
    <3>1. /\ UNCHANGED <<content, writes>> /\ row'.place = row.place /\ ~box'.runs
          /\ box'.exists = box.exists /\ box'.place = box.place
      BY <2>4, Parts DEF Halts, Box, Row, data
    <3>2. \A a \in Apply : DataOf(a)'
      BY <1>0, <2>0, <3>1 DEF DataOf
    <3> QED BY <1>0, <2>0, <3>1, <3>2
  <2>5. CASE Rebuilds
    <3>1. \A a \in Actor : at[a] = "idle"
      BY <2>5 DEF Rebuilds, JobsFit, Idle
    <3>2. UNCHANGED <<content, writes, row>>
      BY <2>5 DEF Rebuilds, data
    <3>3. (box.exists => box.place = row.place) /\ content[row.place] = 1..writes
      BY <1>0, <3>1, Sets DEF Away
    <3>4. box'.exists => box'.place = row'.place
      BY <2>5, <3>2, <3>3, RebuildsFromRow
    <3> QED BY <1>1, <2>0, <3>1, <3>2, <3>3, <3>4, Sets
  <2>6. CASE UNCHANGED <<box, content, writes, row>>
    BY <1>0, <2>0, <2>6 DEF DataOf
  <2> QED BY <1>4, <2>1, <2>2, <2>3, <2>4, <2>5, <2>6, NextSplit, Sets DEF RequestStep, Asked, Boots, Gates,
     data, vars
<1> QED BY <1>2, <1>3, <1>4, <1>5, WhoSteps

-----------------------------------------------------------------------------

\* The service begins in its volume, with nothing written and nobody asking.
LEMMA FirstState == Init => ServiceInv
<1> SUFFICES ASSUME Init PROVE ServiceInv
  OBVIOUS
<1>0. /\ box = FirstBox /\ row = FirstRow /\ content = [p \in Place |-> {}] /\ filled = {Volume}
      /\ journal = "none" /\ up = "up" /\ writes = 0 /\ asked = 0 /\ faults = 0 /\ history = {}
      /\ \A a \in Actor : at[a] = "idle" /\ job[a] = NoJob
  BY DEF Init
<1>1. /\ FirstBox \in Box /\ FirstBox.place = Volume /\ FirstBox.access = "open"
      /\ FirstBox.exists = TRUE /\ FirstRow.access = "open"
  BY Sets DEF FirstBox, Box, Access, FirstRow
<1>2. 1..0 = {}
  OBVIOUS
<1>3. TypeOK
  <2>1. at \in [Actor -> {"idle"}] /\ job \in [Actor -> Job]
    BY NoJobFits DEF Init
  <2>2. {gate, inFlight} \subseteq BOOLEAN
    BY DEF Init
  <2>3. content \in [Place -> SUBSET Write] /\ filled \subseteq Place
    BY <1>0, Sets
  <2>4. writes \in 0..MaxWrites /\ asked \in 0..MaxAsked /\ faults \in 0..MaxFaults
    BY <1>0, ServiceAssumption
  <2> QED BY <1>0, <1>1, <2>1, <2>2, <2>3, <2>4, NoJobFits DEF TypeOK
<1>4. JobsFit
  BY <1>0, Sets, NoJobFits DEF JobsFit, Active, ApplyPoints, PatchPoints
<1>5. CrossingsKnown
  BY <1>0, Sets DEF CrossingsKnown, OneOf, Active
<1>6. FilledPlaces
  BY <1>0, <1>1, Sets, NoJobFits DEF FilledPlaces
<1>7. FolderIsFree
  BY <1>0, Sets DEF FolderIsFree, Sows
<1>8. NothingErased
  BY <1>0, <1>2 DEF NothingErased
<1>9. RunsIfThere
  BY <1>0, <1>1 DEF RunsIfThere
<1>10. DataInPlace
  <2>1. \A a \in Apply : DataOf(a)
    BY <1>0, Sets DEF DataOf, Away
  <2>2. content[row.place] = 1..writes /\ box.place = row.place
    BY <1>0, <1>1, <1>2, NoJobFits, Sets
  <2> QED BY <1>0, <2>1, <2>2 DEF DataInPlace
<1>11. AccessInPlace
  BY <1>0, <1>1, Sets DEF AccessInPlace
<1>12. Stands
  BY <1>0, <1>1, Sets DEF Stands
<1> QED BY <1>3, <1>4, <1>5, <1>6, <1>7, <1>8, <1>9, <1>10, <1>11, <1>12 DEF ServiceInv

\* Whatever the requests, the operator, the engine and the panel do, in whatever
\* order, and whatever of it fails, the invariant holds.
THEOREM ServicesCorrect == Spec => []ServiceInv
<1>1. Init => ServiceInv
  BY FirstState
<1>2. ServiceInv /\ [Next]_vars => ServiceInv'
  <2> SUFFICES ASSUME ServiceInv, [Next]_vars PROVE ServiceInv'
    OBVIOUS
  <2> USE DEF ServiceInv
  <2>1. TypeOK' /\ JobsFit' /\ CrossingsKnown'
    BY TypeHolds, RequestsHold, CrossingsHold
  <2>2. FilledPlaces' /\ FolderIsFree' /\ NothingErased'
    BY FilledHolds, FolderHolds, NothingHolds
  <2>3. RunsIfThere' /\ DataInPlace' /\ AccessInPlace' /\ Stands'
    BY RunsHolds, DataInPlaceHolds, AccessHolds, StandsHolds
  <2> QED BY <2>1, <2>2, <2>3
<1> QED BY <1>1, <1>2, PTL DEF Spec

\* No failure, death or rollback of an application, or boot after one, erases a
\* write the engine took, short of a second application that came before the
\* first had said it was under way.
THEOREM ServiceKeepsWrites == Spec => []NothingErased
<1>1. ServiceInv => NothingErased
  BY DEF ServiceInv
<1> QED BY <1>1, ServicesCorrect, PTL

\* A container that runs, runs on all that was ever written to it, unless the
\* operator chose a place with other content, it was started during a copy,
\* requests crossed, or an application failed with its container in the new place.
THEOREM ServiceDataFollows == Spec => []DataFollows
<1>1. ServiceInv => DataFollows
  <2> SUFFICES ASSUME ServiceInv, Without({"chosen", "disturbed", "overlap", "strayed"}), box.runs
               PROVE  content[box.place] = 1..writes
    BY DEF DataFollows
  <2>1. /\ box.exists
        /\ (\A a \in Apply : at[a] \notin Away \union {"failing", "unmaking"})
               => box.place = row.place
        /\ (\A a \in Apply : at[a] \notin Away) => content[row.place] = 1..writes
        /\ \A a \in Apply : DataOf(a)
    BY DEF ServiceInv, RunsIfThere, DataInPlace
  <2>2. ASSUME NEW a \in Apply, at[a] \in Away PROVE content[box.place] = 1..writes
    BY <2>1, <2>2 DEF DataOf
  <2>3. CASE \A a \in Apply : at[a] \notin Away
    <3>1. box.place = row.place
      <4>1. ASSUME NEW a \in Apply, at[a] \in {"failing", "unmaking"} PROVE box.place = row.place
        BY <2>1, <4>1 DEF DataOf
      <4> QED BY <2>1, <2>3, <4>1
    <3> QED BY <2>1, <2>3, <3>1
  <2> QED BY <2>2, <2>3
<1> QED BY <1>1, ServicesCorrect, PTL

\* A container that is made again, by an application, its rollback or a boot,
\* does not open a port the row says is restricted.
THEOREM RestrictedStaysHidden == Spec => []RestrictedIsHidden
<1>1. ServiceInv => RestrictedIsHidden
  <2> SUFFICES ASSUME ServiceInv, Without({"overlap", "cut"}), row.access = "restricted", Idle(Patch),
                      box.runs, box.access = "open"
               PROVE  FALSE
    BY DEF RestrictedIsHidden
  <2>1. box.exists
    BY DEF ServiceInv, RunsIfThere
  <2>2. box.access = row.access
    BY <2>1 DEF ServiceInv, AccessInPlace, Idle
  <2> QED BY <2>2
<1> QED BY <1>1, ServicesCorrect, PTL

\* Once the panel is back and the requests are over, the service has its
\* container, wherever the panel died.
THEOREM ServiceKeepsContainer == Spec => []ServiceStands
<1>1. ServiceInv => ServiceStands
  BY DEF ServiceInv, Stands, ServiceStands, Idle
<1> QED BY <1>1, ServicesCorrect, PTL
=============================================================================
