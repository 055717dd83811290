---------------------------- MODULE PanelUpdateProofs ----------------------------
(***************************************************************************)
(* An update, a restore of the panel's store, and the boots between them    *)
(* lose nothing, for any number of versions, restores and faults.           *)
(*                                                                         *)
(* The store: StoreInPlace says that the swap has moved the store away by    *)
(* the time it puts another there, and whose journal lies beside it.        *)
(*                                                                         *)
(* The build: where the panel came up is .next but while a run swaps the two *)
(* directories, and from then to the exit it has announced.  WaysBack says  *)
(* so, and that neither timer nor another run comes in between; a boot that  *)
(* its own cleanup has overtaken is told apart until it comes up.           *)
(*                                                                         *)
(* The sources: as long as nothing was cut short, node_modules are those of *)
(* the checkout but while a run installs or undoes, and a run remembers     *)
(* where it began (RunLeadsBack).                                          *)
(***************************************************************************)
EXTENDS PanelUpdate, TLAPS

\* Where the store is while a boot swaps it, and whose journal lies beside it.
StoreInPlace ==
    /\ StoreKept
    /\ lastStore # Absent
    /\ proc \in {"setting sidecars aside", "placing"} => store = Absent
    /\ ~cut /\ proc # "setting sidecars aside" => journal \in {Absent, store}

\* Nothing runs in a process that is not up.
Asleep ==
    /\ proc # "up" => run = "idle" /\ ~exiting
    /\ proc \in {"down", "swapping", "setting sidecars aside", "placing", "unmarking", "settling"}
           => ~cleaning

\* From here on the run moves builds.
Committed == {"checking", "clearing", "moving", "replacing", "replaced"}

\* Where the build that last came up is, and who else may touch it.
WaysBack ==
    /\ BuildKept
    /\ early => proc # "up"
    /\ good # None
    /\ proc \notin {"up", "down"} => live = serving /\ live # None
    /\ run \in Committed => ~exiting /\ ~cleaning
    /\ run = "replacing" => live = None
    /\ exiting => file.phase # "awaiting-manual"
    /\ proc = "up" /\ good # live => ~cleaning /\ (exiting \/ run \in {"replacing", "replaced"})

\* What a run that is refused finds to go back to.
RunLeadsBack ==
    /\ run # "idle" => file.phase = "running"
    /\ ~stray =>
        /\ run = "idle" => file.phase # "running"
        /\ run \notin {"installing", "undoing", "reinstalling"} => deps = source
        /\ run \in {"preparing", "fetching", "resetting", "reinstalling"} => source = file.from
        /\ file.phase = "failed" => source = file.from

\* All of it.
UpdateInv == TypeOK /\ StoreInPlace /\ Asleep /\ WaysBack /\ RunLeadsBack

-----------------------------------------------------------------------------

\* A step of a run, and a press of the button, is taken in a panel that is up,
\* and touches neither the process nor its store.
LEMMA RunStepElsewhere == Press \/ PressFails \/ RunStep => Elsewhere /\ proc = "up"
BY DEF Press, PressFails, RunStep, Refuses, Prepares, Fetches, Resets, ResetThrows, Installs, Builds,
       HandsOver, Blocked, Commits, Clears, MovesAside, Replaces, ReplaceFails, Announces, StepThrows,
       Undoes, Reinstalls, UndoFails, At

\* Every step is a run's, a stop of the process, a person's, or the boot's.
LEMMA NextSplit ==
    ASSUME [Next]_vars
    PROVE  \/ Press \/ PressFails \/ RunStep \/ PutBack \/ Cleans \/ Push \/ UNCHANGED vars
           \/ Exits \/ Dies \/ Restarted
           \/ Boots \/ SwapsStore \/ Settles \/ ComesUp \/ RestoresStore
BY DEF Next

\* The counters of the bounds, and the flags.
LEMMA StoreParts ==
    ASSUME StoreTypeOK
    PROVE  /\ faults \in 0..MaxFaults /\ restores \in 0..MaxRestores
           /\ marker \in BOOLEAN /\ extracting \in BOOLEAN /\ cut \in BOOLEAN
BY DEF StoreTypeOK

\* A fault counts as one, up to the bound.
LEMMA FaultCounts ==
    ASSUME faults \in 0..MaxFaults, faults' = faults \/ Fault PROVE faults' \in 0..MaxFaults
BY BoundAssumption DEF Fault

\* The store and what lies beside it stay of their types.
LEMMA StoreTypes == TypeOK /\ [Next]_vars => StoreTypeOK'
<1> SUFFICES ASSUME StoreTypeOK, [Next]_vars PROVE StoreTypeOK'
  BY DEF TypeOK
<1>1. CASE Press \/ PressFails \/ RunStep
  <2>1. UNCHANGED <<proc, storeVars>>
    BY <1>1, RunStepElsewhere DEF Elsewhere
  <2>2. faults' = faults \/ Fault
    BY <1>1, Zenon DEF Press, PressFails, RunStep, Refuses, Prepares, Fetches, Resets, ResetThrows,
                       Installs, Builds, HandsOver, Blocked, Commits, Clears, MovesAside, Replaces,
                       ReplaceFails, Announces, StepThrows, Undoes, Reinstalls, UndoFails
  <2>3. faults' \in 0..MaxFaults
    BY <2>2, FaultCounts, StoreParts
  <2> QED BY <2>1, <2>3 DEF storeVars, StoreTypeOK, Content
<1>2. CASE PutBack \/ Cleans \/ Push \/ UNCHANGED vars
  <2>1. UNCHANGED <<proc, storeVars, faults>>
    BY <1>2 DEF PutBack, Cleans, Push, Elsewhere, vars
  <2> QED BY <2>1 DEF storeVars, StoreTypeOK, Content
<1>3. CASE Exits \/ Dies \/ Restarted
  <2>1. /\ proc' = "down" /\ StoreDies
        /\ faults' = faults \/ Fault
    BY <1>3 DEF Exits, Dies, Restarted, Leaves
  <2>2. cut' \in BOOLEAN /\ extracting' \in BOOLEAN
    BY <2>1 DEF StoreDies
  <2>3. faults' \in 0..MaxFaults
    BY <2>1, FaultCounts, StoreParts
  <2>4. {marker, extracting, cut}' \subseteq BOOLEAN
    BY <2>1, <2>2, StoreParts DEF StoreDies
  <2> QED BY <2>1, <2>3, <2>4 DEF StoreDies, StoreTypeOK, Content
<1>4. CASE Boots \/ Settles
  BY <1>4 DEF Boots, Settles, storeVars, StoreTypeOK, Content, Goes
<1>5. CASE SwapsStore
  <2>1. SwapStep
    BY <1>5 DEF SwapsStore
  <2>4. faults' = faults \/ Fault
    BY <2>1, Zenon DEF SwapStep, NothingToSwap, SetsStoreAside, SetsSidecarsAside, Places, Unmarks,
                       SwapFails
  <2>2. faults' \in 0..MaxFaults
    BY <2>4, FaultCounts, StoreParts
  <2>3. Absent \in Content
    BY BoundAssumption DEF Absent, Content, Torn
  <2> QED BY <2>1, <2>2, <2>3 DEF SwapStep, NothingToSwap, SetsStoreAside, SetsSidecarsAside, Places,
                                  Unmarks, SwapFails, storeVars, StoreTypeOK, Goes
<1>6. CASE ComesUp
  <2>1. Empty \in Content
    BY BoundAssumption DEF Empty, Content, Torn
  <2> QED BY <1>6, <2>1 DEF ComesUp, OpensStore, StoreTypeOK, Goes
<1>7. CASE RestoresStore
  <2>1. /\ Torn \in Content
        /\ restores \in Content
        /\ restores < MaxRestores => restores + 1 \in 0..MaxRestores
    BY StoreParts, BoundAssumption DEF Torn, Content
  <2>2. faults' = faults \/ Fault
    BY <1>7, Zenon DEF RestoresStore, Restoring, ExtractBegins, ExtractEnds, ExtractFails
  <2>3. faults' \in 0..MaxFaults
    BY <2>2, FaultCounts, StoreParts
  <2> QED BY <1>7, <2>1, <2>3 DEF RestoresStore, Restoring, ExtractBegins, ExtractEnds, ExtractFails,
                                  StoreTypeOK
<1> QED BY <1>1, <1>2, <1>3, <1>4, <1>5, <1>6, <1>7, NextSplit

\* The swap sets the store aside before it puts another in its place, and its
\* journal before that one is opened.
LEMMA StoreHolds == TypeOK /\ StoreInPlace /\ [Next]_vars => StoreInPlace'
<1> SUFFICES ASSUME StoreTypeOK, StoreInPlace, [Next]_vars PROVE StoreInPlace'
  BY DEF TypeOK
<1> USE DEF StoreInPlace, StoreKept, Goes
<1>1. CASE Press \/ PressFails \/ RunStep \/ PutBack \/ Cleans \/ Push \/ UNCHANGED vars
  <2>1. UNCHANGED <<proc, storeVars>>
    BY <1>1, RunStepElsewhere DEF PutBack, Cleans, Push, Elsewhere, vars
  <2> QED BY <2>1 DEF storeVars
<1>2. CASE Exits \/ Dies \/ Restarted
  <2>1. proc' = "down" /\ StoreDies
    BY <1>2 DEF Exits, Dies, Restarted, Leaves
  <2>2. ~cut' => ~cut /\ proc # "setting sidecars aside"
    BY <2>1 DEF StoreDies, InSwap
  <2> QED BY <2>1, <2>2 DEF StoreDies
<1>3. CASE Boots \/ Settles
  BY <1>3 DEF Boots, Settles, storeVars
<1>4. CASE SwapsStore
  BY <1>4 DEF SwapsStore, SwapStep, NothingToSwap, SetsStoreAside, SetsSidecarsAside, Places, Unmarks,
              SwapFails, storeVars
<1>5. CASE ComesUp
  BY <1>5 DEF ComesUp, OpensStore, Absent, Empty
<1>6. CASE RestoresStore
  <2>1. UNCHANGED <<proc, store, journal, kept, lastStore, cut>>
    BY <1>6 DEF RestoresStore, Restoring, ExtractBegins, ExtractEnds, ExtractFails
  <2> QED BY <2>1
<1> QED BY <1>1, <1>2, <1>3, <1>4, <1>5, <1>6, NextSplit

\* What dies with the process does not run while it is down or boots.
LEMMA AsleepHolds == TypeOK /\ Asleep /\ [Next]_vars => Asleep'
<1> SUFFICES ASSUME TypeOK, Asleep, [Next]_vars PROVE Asleep'
  OBVIOUS
<1> USE DEF Asleep, Goes
<1>1. CASE Press \/ PressFails \/ RunStep
  BY <1>1, RunStepElsewhere DEF Elsewhere
<1>2. CASE PutBack \/ Cleans \/ Push \/ RestoresStore \/ UNCHANGED vars
  <2>1. UNCHANGED <<proc, run, exiting>>
    BY <1>2, Zenon DEF PutBack, Cleans, Push, RestoresStore, Restoring, ExtractBegins, ExtractEnds,
                       ExtractFails, Elsewhere, update, vars
  <2>2. cleaning' => cleaning
    BY <1>2, Zenon DEF PutBack, Cleans, Push, RestoresStore, update, vars
  <2> QED BY <2>1, <2>2, Zenon
<1>3. CASE Exits \/ Dies \/ Restarted
  BY <1>3 DEF Exits, Dies, Restarted, Leaves
<1>4. CASE Boots \/ Settles \/ ComesUp
  <2>1. UNCHANGED <<run, exiting>> /\ proc # "up"
    BY <1>4 DEF Boots, Settles, ComesUp, OpensStore
  <2>2. ~exiting' /\ run' = "idle"
    BY <2>1
  <2>3. CASE Boots
    BY <1>4, <2>2, <2>3 DEF Boots
  <2>4. CASE Settles \/ ComesUp
    <3>1. proc' \in {"opening", "up"}
      BY <2>4 DEF Settles, ComesUp, OpensStore
    <3> QED BY <2>2, <3>1
  <2> QED BY <1>4, <2>3, <2>4
<1>5. CASE SwapsStore
  <2>1. UNCHANGED <<run, exiting, cleaning>>
    BY <1>5 DEF SwapsStore, update
  <2>2. proc \in {"swapping", "setting sidecars aside", "placing", "unmarking"}
    BY <1>5 DEF SwapsStore, SwapStep, NothingToSwap, SetsStoreAside, SetsSidecarsAside, Places,
                Unmarks, SwapFails, InSwap
  <2> QED BY <2>1, <2>2, Zenon
<1> QED BY <1>1, <1>2, <1>3, <1>4, <1>5, NextSplit

-----------------------------------------------------------------------------

\* A run that has passed its last check, or is swapping the builds, was started
\* after both timers went off: so that until it announces its own exit the panel
\* that came up is in .next, or aside while the two directories are swapped.
LEMMA WaysHold == TypeOK /\ Asleep /\ WaysBack /\ [Next]_vars => WaysBack'
<1> SUFFICES ASSUME TypeOK, Asleep, WaysBack, [Next]_vars PROVE WaysBack'
  OBVIOUS
<1> USE DEF WaysBack, BuildKept, Committed
<1>1. ASSUME Press \/ PressFails \/ Refuses \/ Prepares \/ Fetches \/ Resets \/ ResetThrows \/ Installs
             \/ HandsOver \/ Blocked \/ Undoes \/ Reinstalls \/ UndoFails \/ Builds \/ Commits
      PROVE  WaysBack'
  <2>1. UNCHANGED <<live, previous, serving, good, exiting, cleaning, early>> /\ proc = "up" /\ proc' = "up"
    BY <1>1 DEF Press, PressFails, Refuses, Prepares, Fetches, Resets, ResetThrows, Installs, HandsOver,
            Blocked, Undoes, Reinstalls, UndoFails, Builds, Commits, At, Elsewhere
  <2>2. run' \in Committed => ~exiting /\ ~cleaning
    BY <1>1 DEF Press, PressFails, Refuses, Prepares, Fetches, Resets, ResetThrows, Installs, HandsOver,
            Blocked, Undoes, Reinstalls, UndoFails, Builds, Commits, At, Ends, Refused, Thrown
  <2>3. run' # "replacing" /\ run \notin {"replacing", "replaced"}
    BY <1>1 DEF Press, PressFails, Refuses, Prepares, Fetches, Resets, ResetThrows, Installs, HandsOver,
            Blocked, Undoes, Reinstalls, UndoFails, Builds, Commits, At, Ends, Refused, Thrown
  <2>4. exiting => file'.phase # "awaiting-manual"
    <3>1. file \in File
      BY DEF TypeOK
    <3>2. CASE HandsOver
      BY <3>2 DEF HandsOver, At
    <3>3. CASE ~HandsOver
      <4>1. file'.phase \in {file.phase, "running", "none", "failed", "done"}
        BY <1>1, <3>1, <3>3 DEF Press, PressFails, Refuses, Prepares, Fetches, Resets, ResetThrows,
           Installs, Blocked, Undoes, Reinstalls, UndoFails, Builds, Commits, Ends, Thrown, File
      <4> QED BY <4>1
    <3> QED BY <3>2, <3>3
  <2> QED BY <2>1, <2>2, <2>3, <2>4, Zenon
<1>2. CASE StepThrows
  <2>1. UNCHANGED <<live, previous, serving, good, exiting, cleaning, early>> /\ proc = "up" /\ proc' = "up"
    BY <1>2 DEF StepThrows, At, Elsewhere
  <2>2. run' = "idle" /\ run \notin {"replacing", "replaced"}
    BY <1>2 DEF StepThrows, At, Thrown, Ends
  <2>3. file'.phase = "failed"
    BY <1>2 DEF StepThrows, Thrown, Ends, TypeOK, File
  <2> QED BY <2>1, <2>2, <2>3, Zenon
<1>3. CASE Clears
  <2>1. good = live /\ ~exiting /\ ~cleaning
    BY <1>3 DEF Clears, At
  <2>2. UNCHANGED <<live, serving, good, exiting, cleaning>> /\ run' = "moving" /\ proc' = "up" /\ ~early'
    BY <1>3 DEF Clears, At, Elsewhere
  <2> QED BY <2>1, <2>2, Zenon
<1>4. CASE MovesAside
  <2>1. good = live /\ ~exiting /\ ~cleaning
    BY <1>4 DEF MovesAside, At
  <2>2. UNCHANGED <<serving, good, exiting, cleaning>> /\ run' = "replacing" /\ proc' = "up" /\ ~early'
    BY <1>4 DEF MovesAside, At, Elsewhere
  <2>3. live' = None /\ previous' = live
    BY <1>4 DEF MovesAside
  <2> QED BY <2>1, <2>2, <2>3, Zenon
<1>5. CASE Replaces
  <2>1. good = previous /\ ~exiting /\ ~cleaning
    BY <1>5 DEF Replaces, At
  <2>2. /\ UNCHANGED <<serving, good, exiting, cleaning, previous>>
        /\ run' = "replaced" /\ proc' = "up" /\ ~early'
    BY <1>5 DEF Replaces, At, Elsewhere
  <2> QED BY <2>1, <2>2, Zenon
<1>6. CASE ReplaceFails
  <2>1. good = previous /\ ~exiting /\ ~cleaning
    BY <1>6 DEF ReplaceFails, At
  <2>2. UNCHANGED <<serving, good, exiting, cleaning>> /\ run' = "undoing" /\ proc' = "up" /\ ~early'
    BY <1>6 DEF ReplaceFails, At, Elsewhere, Refused
  <2>3. live' = previous
    BY <1>6 DEF ReplaceFails
  <2> QED BY <2>1, <2>2, <2>3, Zenon
<1>7. CASE Announces
  <2>1. ~cleaning /\ ~early' /\ UNCHANGED <<live, previous, serving, good, cleaning, early>>
    BY <1>7 DEF Announces, At, Elsewhere
  <2>2. exiting' /\ run' = "idle" /\ proc' = "up" /\ file'.phase = "awaiting-restart"
    BY <1>7 DEF Announces, At, Elsewhere, Ends, TypeOK, File
  <2> QED BY <2>1, <2>2, Zenon
<1>8. CASE Exits \/ Dies
  <2>1. UNCHANGED <<live, previous, good, early>> /\ proc' = "down" /\ run' = "idle"
    BY <1>8 DEF Exits, Dies, Leaves
  <2>2. ~exiting' /\ ~cleaning'
    BY <1>8 DEF Exits, Dies, Leaves
  <2> QED BY <2>1, <2>2, Zenon
<1>9. CASE Restarted
  <2>1. good = live
    BY <1>9 DEF Restarted
  <2>2. UNCHANGED good /\ proc' = "down" /\ run' = "idle"
    BY <1>9 DEF Restarted
  <2>3. ~exiting' /\ ~cleaning'
    BY <1>9 DEF Restarted
  <2>4. live' = live \/ previous' = live
    BY <1>9 DEF Restarted
  <2> QED BY <2>1, <2>2, <2>3, <2>4, Zenon
<1>10. CASE PutBack
  <2>1. good' = live' /\ good' # None /\ proc' = "down" /\ run' = "idle"
    BY <1>10 DEF PutBack, Asleep
  <2>2. ~exiting'
    BY <1>10 DEF PutBack, Asleep
  <2> QED BY <2>1, <2>2, Zenon
<1>11. CASE Boots
  <2>1. live' = serving' /\ live' # None /\ live' = live /\ UNCHANGED <<good, previous, early>>
    BY <1>11 DEF Boots
  <2>2. proc' = "swapping" /\ run' = "idle"
    BY <1>11 DEF Boots, Asleep, Goes
  <2>3. ~exiting'
    BY <1>11 DEF Boots, Asleep
  <2> QED BY <2>1, <2>2, <2>3, Zenon
<1>12. CASE SwapsStore \/ Settles
  <2>1. UNCHANGED <<live, previous, serving, good, run, exiting, early>>
    BY <1>12 DEF SwapsStore, Settles, update
  <2>2. proc \in {"swapping", "setting sidecars aside", "placing", "unmarking", "settling"}
    BY <1>12 DEF SwapsStore, SwapStep, NothingToSwap, SetsStoreAside, SetsSidecarsAside, Places,
                 Unmarks, SwapFails, InSwap, Settles
  <2>3. proc' # "up"
    BY <1>12 DEF SwapsStore, SwapStep, NothingToSwap, SetsStoreAside, SetsSidecarsAside, Places,
                 Unmarks, SwapFails, Settles, Goes
  <2>4. run = "idle" /\ ~exiting
    BY <2>2 DEF Asleep
  <2> QED BY <2>1, <2>2, <2>3, <2>4, Zenon
<1>13. CASE ComesUp
  <2>1. proc = "opening" /\ proc' = "up" /\ good' = serving /\ ~early'
    BY <1>13 DEF ComesUp, OpensStore, Goes
  <2>2. UNCHANGED <<live, previous, serving, run, exiting>>
    BY <1>13 DEF ComesUp
  <2>3. run = "idle" /\ ~exiting
    BY <2>1 DEF Asleep
  <2> QED BY <2>1, <2>2, <2>3, Zenon
<1>14. CASE Cleans
  <2>1. UNCHANGED <<live, serving, good, run, exiting, file, proc>>
    BY <1>14 DEF Cleans
  <2>2. ~cleaning'
    BY <1>14 DEF Cleans
  <2>3. early' <=> early \/ proc = "opening"
    BY <1>14 DEF Cleans
  <2>4. CASE proc = "up"
    <3>1. good = live
      BY <1>14, <2>4 DEF Cleans
    <3> QED BY <2>1, <2>2, <2>3, <2>4, <3>1, Zenon
  <2>5. CASE proc = "opening"
    <3>1. run = "idle" /\ ~exiting
      BY <2>5 DEF Asleep
    <3> QED BY <2>1, <2>2, <2>3, <2>5, <3>1, Zenon
  <2> QED BY <1>14, <2>4, <2>5 DEF Cleans
<1>15. CASE Push \/ RestoresStore \/ UNCHANGED vars
  <2>1. UNCHANGED <<live, previous, serving, good, run, exiting, cleaning, file, early>>
    BY <1>15 DEF Push, RestoresStore, update, vars
  <2>2. UNCHANGED proc
    BY <1>15 DEF Push, RestoresStore, Restoring, ExtractBegins, ExtractEnds, ExtractFails, vars
  <2> QED BY <2>1, <2>2, Zenon
<1> QED BY <1>1, <1>2, <1>3, <1>4, <1>5, <1>6, <1>7, <1>8, <1>9, <1>10, <1>11, <1>12, <1>13, <1>14,
           <1>15, NextSplit DEF RunStep

\* What a run that ends of itself leaves: as long as nothing was cut short, the
\* checkout is where the run began for as long as it has only looked, and once
\* the undoing has put it back, and node_modules follow it.
LEMMA RunHolds == TypeOK /\ Asleep /\ RunLeadsBack /\ [Next]_vars => RunLeadsBack'
<1> SUFFICES ASSUME TypeOK, Asleep, RunLeadsBack, [Next]_vars PROVE RunLeadsBack'
  OBVIOUS
<1>0. file \in File
  BY DEF TypeOK
<1>1. ASSUME Press PROVE RunLeadsBack'
  BY <1>0, <1>1 DEF Press, At, RunLeadsBack
<1>2. ASSUME PressFails PROVE RunLeadsBack'
  BY <1>0, <1>2 DEF PressFails, At, RunLeadsBack, File
<1>3. ASSUME Refuses \/ Prepares \/ Fetches PROVE RunLeadsBack'
  BY <1>0, <1>3 DEF Refuses, Prepares, Fetches, At, Ends, RunLeadsBack, File
<1>4. ASSUME Resets \/ Installs \/ Builds \/ Blocked \/ ReplaceFails \/ Undoes \/ Reinstalls
      PROVE  RunLeadsBack'
  BY <1>0, <1>4 DEF Resets, Installs, Builds, Blocked, ReplaceFails, Undoes, Reinstalls, At, Ends,
                    Refused, RunLeadsBack, File
<1>5. ASSUME HandsOver \/ Commits \/ Clears \/ MovesAside \/ Replaces \/ Announces
      PROVE  RunLeadsBack'
  BY <1>0, <1>5 DEF HandsOver, Commits, Clears, MovesAside, Replaces, Announces, At, Ends, RunLeadsBack,
                    File
<1>6. ASSUME ResetThrows \/ StepThrows \/ UndoFails PROVE RunLeadsBack'
  <2>1. run' = "idle" /\ stray'
    BY <1>6 DEF ResetThrows, StepThrows, UndoFails, Thrown, Ends
  <2> QED BY <2>1 DEF RunLeadsBack
<1>7. ASSUME Exits \/ Dies PROVE RunLeadsBack'
  <2>1. UNCHANGED <<source, deps, file>> /\ run' = "idle"
    BY <1>7 DEF Exits, Dies, Leaves
  <2>2. ~stray' => ~stray /\ run = "idle"
    BY <1>7 DEF Exits, Dies, Leaves
  <2> QED BY <2>1, <2>2 DEF RunLeadsBack
<1>8. ASSUME Restarted \/ Boots PROVE RunLeadsBack'
  <2>1. UNCHANGED <<source, deps, file, run, stray>>
    BY <1>8 DEF Restarted, Boots
  <2> QED BY <2>1, Zenon DEF RunLeadsBack
<1>9. ASSUME PutBack PROVE RunLeadsBack'
  <2>1. /\ UNCHANGED <<file, run>>
        /\ stray' <=> stray
        /\ source' = file.from /\ deps' = file.from
    BY <1>9 DEF PutBack
  <2> QED BY <2>1 DEF RunLeadsBack
<1>10. ASSUME Settles PROVE RunLeadsBack'
  <2>1. UNCHANGED <<source, deps, run>> /\ run = "idle"
    BY <1>10 DEF Settles, Asleep
  <2>2. stray' <=> stray
    BY <1>10 DEF Settles
  <2>3. ~stray => file'.phase # "running" /\ file'.from = file.from
                  /\ (file'.phase = "failed" => file.phase = "failed")
    BY <1>0, <1>10, <2>1 DEF Settles, Settled, RunLeadsBack, File
  <2> QED BY <2>1, <2>2, <2>3 DEF RunLeadsBack
<1>11. ASSUME SwapsStore \/ ComesUp \/ Cleans \/ Push \/ RestoresStore \/ UNCHANGED vars
       PROVE  RunLeadsBack'
  <2>1. UNCHANGED <<source, deps, file, run, stray>>
    BY <1>11 DEF SwapsStore, ComesUp, Cleans, Push, RestoresStore, update, vars
  <2> QED BY <2>1, Zenon DEF RunLeadsBack
<1> QED BY <1>1, <1>2, <1>3, <1>4, <1>5, <1>6, <1>7, <1>8, <1>9, <1>10, <1>11, NextSplit DEF RunStep

\* The parts of the type that the steps of an update write.
UpdateTypeOK ==
    /\ head \in Version /\ source \in Version
    /\ deps \in Version \cup {None} /\ live \in Version \cup {None}
    /\ previous \in Version \cup {None} /\ staging \in Version \cup {None}
    /\ serving \in Version \cup {None} /\ good \in Version \cup {None}
    /\ file \in File
    /\ run \in {"idle", "preparing", "fetching", "resetting", "installing", "building", "checking",
                "clearing", "moving", "replacing", "replaced", "undoing", "reinstalling"}

FlagsOK ==
    /\ exiting \in BOOLEAN /\ cleaning \in BOOLEAN /\ supervised \in BOOLEAN
    /\ stray \in BOOLEAN /\ early \in BOOLEAN

\* Builds and commits stay among the versions there are.
LEMMA UpdateTypes == UpdateTypeOK /\ FlagsOK /\ [Next]_vars => UpdateTypeOK'
<1> SUFFICES ASSUME UpdateTypeOK, FlagsOK, [Next]_vars PROVE UpdateTypeOK'
  OBVIOUS
<1>0. Mixed \in Version \cup {None} /\ None \in Version \cup {None} /\ Version \subseteq Version \cup {None}
  BY DEF Mixed, None
<1> USE DEF UpdateTypeOK, Elsewhere, At, Ends, Refused, Thrown
<1>1. CASE Press \/ PressFails
  <2>1. file' \in File
    <3>1. CASE Press
      BY <3>1 DEF Press, File, Phase
    <3>2. CASE PressFails
      BY <3>2 DEF PressFails, File, Phase
    <3> QED BY <1>1, <3>1, <3>2
  <2> QED BY <1>1, <2>1 DEF Press, PressFails
<1>2. CASE Refuses \/ Prepares \/ Fetches
  BY <1>0, <1>2 DEF Refuses, Prepares, Fetches, File, Phase
<1>3. CASE Resets \/ ResetThrows \/ Installs \/ Builds
  <2>1. file.to..head \subseteq Version
    <3>1. file.to \in Version /\ head \in Version
      BY DEF File
    <3> QED BY <3>1, VersionAssumption DEF Version
  <2> QED BY <1>0, <1>3, <2>1 DEF Resets, ResetThrows, Installs, Builds, File, Phase
<1>4. CASE HandsOver \/ Blocked \/ Commits \/ Clears \/ MovesAside
  BY <1>0, <1>4 DEF HandsOver, Blocked, Commits, Clears, MovesAside, File, Phase
<1>5. CASE Replaces \/ ReplaceFails \/ Announces \/ StepThrows
  BY <1>0, <1>5 DEF Replaces, ReplaceFails, Announces, StepThrows, File, Phase
<1>6. CASE Undoes \/ Reinstalls \/ UndoFails
  BY <1>0, <1>6 DEF Undoes, Reinstalls, UndoFails, File, Phase
<1>7. CASE Exits \/ Dies
  BY <1>7 DEF Exits, Dies, Leaves
<1>8. CASE Restarted \/ Boots
  BY <1>0, <1>8 DEF Restarted, Boots
<1>9. CASE PutBack
  BY <1>0, <1>9 DEF PutBack, File
<1>10. CASE Settles
  BY <1>0, <1>10 DEF Settles, Settled, File, Phase
<1>11. CASE ComesUp \/ Cleans
  BY <1>0, <1>11 DEF ComesUp, Cleans
<1>12. CASE SwapsStore \/ RestoresStore \/ UNCHANGED vars
  BY <1>12 DEF SwapsStore, RestoresStore, update, vars
<1>13. CASE Push
  <2>1. head' \in Version
    BY <1>13, VersionAssumption DEF Push, Version
  <2> QED BY <1>13, <2>1 DEF Push, update
<1> QED BY <1>1, <1>2, <1>3, <1>4, <1>5, <1>6, <1>7, <1>8, <1>9, <1>10, <1>11, <1>12, <1>13,
           NextSplit DEF RunStep

\* A flag is up or down.
LEMMA FlagTypes == FlagsOK /\ [Next]_vars => FlagsOK'
<1> SUFFICES ASSUME FlagsOK, [Next]_vars PROVE FlagsOK'
  OBVIOUS
<1>1. supervised' = supervised
  <2>1. CASE Press \/ PressFails \/ RunStep
    BY <2>1, RunStepElsewhere DEF Elsewhere
  <2>2. CASE ~(Press \/ PressFails \/ RunStep)
    BY <2>2, NextSplit, Zenon DEF PutBack, Cleans, Elsewhere, Push, vars, Exits, Dies, Restarted, Leaves,
       Boots, SwapsStore, Settles, ComesUp, RestoresStore
  <2> QED BY <2>1, <2>2
<1>2. exiting' \in BOOLEAN
  BY NextSplit, Zenon DEF FlagsOK, RunStep, Press, PressFails, Refuses, Prepares, Fetches, Resets,
     ResetThrows, Installs, Builds, HandsOver, Blocked, Commits, Clears, MovesAside, Replaces,
     ReplaceFails, Announces, StepThrows, Undoes, Reinstalls, UndoFails, PutBack, Cleans, Push, update,
     vars, Exits, Dies, Restarted, Leaves, Boots, SwapsStore, Settles, ComesUp, RestoresStore
<1>3. cleaning' \in BOOLEAN
  BY NextSplit, Zenon DEF FlagsOK, RunStep, Press, PressFails, Refuses, Prepares, Fetches, Resets,
     ResetThrows, Installs, Builds, HandsOver, Blocked, Commits, Clears, MovesAside, Replaces,
     ReplaceFails, Announces, StepThrows, Undoes, Reinstalls, UndoFails, PutBack, Cleans, Push, update,
     vars, Exits, Dies, Restarted, Leaves, Boots, SwapsStore, Settles, ComesUp, RestoresStore
<1>4. stray' \in BOOLEAN
  BY NextSplit, Zenon DEF FlagsOK, RunStep, Press, PressFails, Refuses, Prepares, Fetches, Resets,
     ResetThrows, Installs, Builds, HandsOver, Blocked, Commits, Clears, MovesAside, Replaces,
     ReplaceFails, Announces, StepThrows, Undoes, Reinstalls, UndoFails, PutBack, Cleans, Push, update,
     vars, Exits, Dies, Restarted, Leaves, Boots, SwapsStore, Settles, ComesUp, RestoresStore, Thrown
<1>5. early' \in BOOLEAN
  <2>1. CASE Press \/ PressFails \/ RunStep
    BY <2>1, RunStepElsewhere DEF Elsewhere, FlagsOK
  <2>2. CASE ~(Press \/ PressFails \/ RunStep)
    BY <2>2, NextSplit, Zenon DEF FlagsOK, PutBack, Cleans, Push, update, vars, Exits, Dies, Restarted,
       Leaves, Boots, SwapsStore, Settles, ComesUp, RestoresStore
  <2> QED BY <2>1, <2>2
<1> QED BY <1>1, <1>2, <1>3, <1>4, <1>5, Zenon DEF FlagsOK

\* So every variable keeps its type.
LEMMA TypeHolds == TypeOK /\ [Next]_vars => TypeOK'
<1> SUFFICES ASSUME TypeOK, [Next]_vars PROVE TypeOK'
  OBVIOUS
<1>1. UpdateTypeOK /\ FlagsOK
  BY DEF TypeOK, UpdateTypeOK, FlagsOK
<1>2. UpdateTypeOK' /\ FlagsOK'
  BY <1>1, UpdateTypes, FlagTypes
<1>3. {exiting, cleaning, supervised, stray, early}' \subseteq BOOLEAN
  BY <1>2 DEF FlagsOK
<1>4. StoreTypeOK'
  BY StoreTypes
<1> QED BY <1>2, <1>3, <1>4 DEF TypeOK, UpdateTypeOK

-----------------------------------------------------------------------------

\* The five hold together from the start, and with every step.
THEOREM UpdatesCorrect == Spec => []UpdateInv
<1>1. Init => UpdateInv
  <2> SUFFICES ASSUME Init PROVE UpdateInv
    OBVIOUS
  <2>0. 0 \in Content /\ Absent \in Content /\ Absent # 0
        /\ 0 \in 0..MaxRestores /\ 0 \in 0..MaxFaults
    BY BoundAssumption DEF Content, Absent, Torn
  <2>1. StoreTypeOK /\ StoreInPlace
    BY <2>0 DEF Init, StoreInit, StoreTypeOK, StoreInPlace, StoreKept
  <2>2. UpdateTypeOK
    BY VersionAssumption DEF Init, UpdateTypeOK, Version, None, File, Phase
  <2>3. {exiting, cleaning, supervised, stray, early} \subseteq BOOLEAN
    BY DEF Init
  <2>4. TypeOK
    BY <2>1, <2>2, <2>3 DEF TypeOK, UpdateTypeOK
  <2>5. Asleep /\ WaysBack /\ RunLeadsBack
    BY DEF Init, StoreInit, Asleep, WaysBack, BuildKept, Committed, None, RunLeadsBack
  <2> QED BY <2>1, <2>4, <2>5 DEF UpdateInv
<1>2. UpdateInv /\ [Next]_vars => UpdateInv'
  BY TypeHolds, StoreHolds, AsleepHolds, WaysHold, RunHolds DEF UpdateInv
<1> QED BY <1>1, <1>2, PTL DEF Spec

\* Neither an update nor a restore loses what would put the panel back: the build
\* that last came up, the store it had open, and that store's own journal (run.ts,
\* store-swap.ts), wherever either is cut short.
THEOREM UpdateLosesNothing == Spec => []NothingLost
<1>1. UpdateInv => NothingLost
  BY DEF UpdateInv, NothingLost, WaysBack, StoreInPlace, OwnJournal
<1> QED BY <1>1, UpdatesCorrect, PTL

\* A run that fails, of itself, leaves the checkout and node_modules as it found
\* them (run.ts, rollbackSource).
THEOREM RefusalsAreUndone == Spec => []RefusalUndone
<1>1. UpdateInv => RefusalUndone
  BY DEF UpdateInv, RefusalUndone, RunLeadsBack
<1> QED BY <1>1, UpdatesCorrect, PTL
=============================================================================
