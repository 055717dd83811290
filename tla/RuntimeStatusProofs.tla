-------------------------- MODULE RuntimeStatusProofs --------------------------
(***************************************************************************)
(* The scheduler's promises hold for any number of overlapping ticks, of     *)
(* operators and of occurrences.                                             *)
(***************************************************************************)
EXTENDS RuntimeStatus, TLAPS

Considering(t) == at[t] = "considering"

\* What a tick holds is an occurrence that had passed when it looked, and
\* restart_next_at has only moved forward since.
HeldIsPast ==
    \A t \in Tick : Considering(t) =>
        /\ held[t].due \in Occurrence
        /\ held[t].due <= held[t].now
        /\ held[t].due <= next

\* No occurrence from restart_next_at on has been claimed.
ClaimsAreBehind == \A n \in Occurrence : n >= next => claims[n] = 0

\* Once the attempt is spent the marker is off, and a tick that still holds a
\* crash holds an occurrence that is behind.
SpentAttempt ==
    attempts = 1 =>
        /\ ~crashed
        /\ \A t \in Tick :
             Considering(t) /\ held[t].decision = "after-crash" => held[t].due < next

SweepWritesReconcilable == sweep.at = "writing" => IsReconcilable(sweep.read)

RuntimeInv ==
    /\ TypeOK
    /\ HeldIsPast
    /\ ClaimsAreBehind
    /\ OncePerOccurrence
    /\ OneAttemptPerCrash
    /\ SpentAttempt
    /\ RunningHasNoMarker
    /\ SweepWritesReconcilable

-----------------------------------------------------------------------------

\* The invariant holds at first.
LEMMA InitInv == Init => RuntimeInv
<1> SUFFICES ASSUME Init PROVE RuntimeInv
  OBVIOUS
<1> USE RuntimeAssumption DEF Init, Occurrence
<1>1. NoSnapshot \in Snapshot
  BY DEF NoSnapshot, Snapshot, Decision
<1>2. TypeOK
  <2>1. next \in 1..(MaxTime + 1) /\ now \in 0..MaxTime /\ faults \in 0..MaxFaults
    OBVIOUS
  <2>2. sweep \in [at : {"idle", "asking", "writing", "ending"}, read : Status, saw : Answer]
    BY DEF NoSweep, Status, Answer
  <2>3. QED
    BY <1>1, <2>1, <2>2 DEF TypeOK, Status, Answer, Actor
<1>3. HeldIsPast /\ SpentAttempt /\ OneAttemptPerCrash
  BY DEF HeldIsPast, Considering, Actor, SpentAttempt, OneAttemptPerCrash
<1>4. ClaimsAreBehind /\ OncePerOccurrence
  BY DEF ClaimsAreBehind, OncePerOccurrence
<1>5. RunningHasNoMarker /\ SweepWritesReconcilable
  BY DEF RunningHasNoMarker, SweepWritesReconcilable, NoSweep
<1>6. QED
  BY <1>2, <1>3, <1>4, <1>5 DEF RuntimeInv

\* The type invariant is inductive by itself.
LEMMA TypeStep ==
  ASSUME TypeOK, [Next]_vars
  PROVE  TypeOK'
<1> USE RuntimeAssumption
    DEF TypeOK, Actor, Occurrence, Status, Answer, rowVars, sweepVars, actorVars, history,
        Goto, Fault, Write
<1>1. CASE SweepReads
  BY <1>1 DEF SweepReads
<1>2. CASE SweepAsks
  <2>1. sweep' \in [at : {"idle", "asking", "writing", "ending"}, read : Status, saw : Answer]
    <3>1. PICK saw \in Answer : sweep' = Ended(saw)
                                \/ sweep' = [sweep EXCEPT !.saw = saw, !.at = "writing"]
      BY <1>2 DEF SweepAsks
    <3>2. CASE sweep' = Ended(saw)
      BY <3>2 DEF Ended
    <3>3. CASE sweep' = [sweep EXCEPT !.saw = saw, !.at = "writing"]
      BY <3>3
    <3>4. QED
      BY <3>1, <3>2, <3>3
  <2>2. faults' \in 0..MaxFaults
    BY <1>2 DEF SweepAsks
  <2>3. UNCHANGED <<up, status, crashed, next, now, previous, at, held, deploying, claims, attempts>>
    BY <1>2 DEF SweepAsks
  <2>4. QED
    BY <2>1, <2>2, <2>3
<1>3. CASE SweepWrites
  <2> DEFINE to == Reconciled(sweep.read, sweep.saw, previous)
  <2>1. to \in Status
    BY DEF Reconciled
  <2>2. status' \in Status /\ attempts' \in Nat
    BY <1>3, <2>1 DEF SweepWrites
  <2>6. crashed' \in BOOLEAN
    BY <1>3 DEF SweepWrites
  <2>3. sweep' \in [at : {"idle", "asking", "writing", "ending"}, read : Status, saw : Answer]
    BY <1>3 DEF SweepWrites, Ended
  <2>4. UNCHANGED <<up, next, now, previous, at, held, deploying, faults, claims>>
    BY <1>3 DEF SweepWrites
  <2>5. QED
    BY <2>2, <2>3, <2>4, <2>6
<1>4. CASE SweepEnds \/ SweepFails
  BY <1>4 DEF SweepEnds, SweepFails, NoSweep
<1>5. ASSUME NEW t \in Tick, TickReads(t)
      PROVE  TypeOK'
  BY <1>5 DEF TickReads, Snapshot, Decision, Decide
<1>6. ASSUME NEW t \in Tick, TickConsiders(t)
      PROVE  TypeOK'
  <2>1. held[t].now + 1 \in 1..(MaxTime + 1)
    BY DEF Snapshot
  <2>2. NoSnapshot \in Snapshot
    BY DEF NoSnapshot, Snapshot, Decision
  <2>3. held' \in [Tick -> Snapshot] /\ next' \in 1..(MaxTime + 1)
    BY <1>6, <2>1, <2>2 DEF TickConsiders
  <2>4. attempts' \in Nat
    BY <1>6 DEF TickConsiders
  <2>9. claims' \in [Occurrence -> Nat]
    <3>1. claims' = claims \/ claims' = [claims EXCEPT ![held[t].due] = @ + 1]
      BY <1>6 DEF TickConsiders
    <3>2. CASE claims' = claims
      BY <3>2
    <3>3. CASE claims' = [claims EXCEPT ![held[t].due] = @ + 1]
      <4>1. \A n \in Occurrence : claims[n] + 1 \in Nat
        OBVIOUS
      <4>2. QED
        BY <3>3, <4>1, Zenon
    <3>4. QED
      BY <3>1, <3>2, <3>3
  <2>5. crashed' \in BOOLEAN
    BY <1>6 DEF TickConsiders
  <2>6. at' \in [Actor -> {"idle", "considering", "stopping", "restarting", "restarted"}]
    BY <1>6 DEF TickConsiders
  <2>7. UNCHANGED <<up, status, now, sweep, previous, deploying, faults>>
    BY <1>6 DEF TickConsiders
  <2>8. QED
    BY <2>3, <2>4, <2>5, <2>6, <2>7, <2>9
<1>7. ASSUME NEW a \in Actor, RestartStarts(a) \/ RestartWrites(a)
      PROVE  TypeOK'
  BY <1>7 DEF RestartStarts, RestartWrites
<1>8. ASSUME NEW o \in Operator, RestartAsked(o) \/ StopProcess(o) \/ StopWrites(o)
      PROVE  TypeOK'
  BY <1>8 DEF RestartAsked, StopProcess, StopWrites
<1>9. CASE DeployClaims \/ DeployMoves \/ DeployPublishes \/ DeployFails
  <2>1. CASE DeployClaims \/ DeployPublishes
    BY <2>1 DEF DeployClaims, DeployPublishes
  <2>2. CASE DeployMoves
    BY <2>2 DEF DeployMoves
  <2>3. CASE DeployFails
    <3>1. status' \in Status /\ faults' \in 0..MaxFaults
      BY <2>3 DEF DeployFails
    <3>2. QED
      BY <2>3, <3>1 DEF DeployFails
  <2>4. QED
    BY <1>9, <2>1, <2>2, <2>3
<1>10. CASE TimePasses \/ AppChanges
  <2>1. CASE TimePasses
    BY <2>1 DEF TimePasses
  <2>2. CASE AppChanges
    BY <2>2 DEF AppChanges
  <2>3. QED
    BY <1>10, <2>1, <2>2
<1>11. CASE PanelRestart
  <2>1. NoSnapshot \in Snapshot
    BY DEF NoSnapshot, Snapshot, Decision
  <2>2. up' \in BOOLEAN
    BY <1>11 DEF PanelRestart
  <2>4. status' \in Status /\ faults' \in 0..MaxFaults
    BY <1>11 DEF PanelRestart
  <2>3. QED
    BY <1>11, <2>1, <2>2, <2>4 DEF PanelRestart, NoSweep
<1>12. CASE UNCHANGED vars
  BY <1>12 DEF vars
<1>13. QED
  BY <1>1, <1>2, <1>3, <1>4, <1>5, <1>6, <1>7, <1>8, <1>9, <1>10, <1>11, <1>12
     DEF Next, SweepStep

-----------------------------------------------------------------------------
(* The schedule: what ticks hold, what they claim, and the crash marker.     *)

ScheduleInv ==
    HeldIsPast /\ ClaimsAreBehind /\ OncePerOccurrence /\ OneAttemptPerCrash /\ SpentAttempt

\* A step that claims nothing, sets no marker and makes nobody consider keeps it.
LEMMA ScheduleKept ==
  ASSUME TypeOK, ScheduleInv, UNCHANGED <<next, claims, attempts, held>>,
         crashed' => crashed,
         \A t \in Tick : Considering(t)' => Considering(t)
  PROVE  ScheduleInv'
  BY DEF ScheduleInv, HeldIsPast, ClaimsAreBehind, OncePerOccurrence, OneAttemptPerCrash,
         SpentAttempt, Considering, Occurrence

\* The sweep that marks a crash opens a new attempt.
LEMMA ScheduleMarked ==
  ASSUME TypeOK, ScheduleInv, SweepWrites
  PROVE  ScheduleInv'
<1>1. UNCHANGED <<next, claims, at, held>>
  BY DEF SweepWrites, actorVars
<1>2. attempts' = 0 \/ (attempts' = attempts /\ (crashed' => crashed))
  BY DEF SweepWrites, Write
<1>3. QED
  BY <1>1, <1>2
  DEF ScheduleInv, HeldIsPast, ClaimsAreBehind, OncePerOccurrence, OneAttemptPerCrash,
      SpentAttempt, Considering, Occurrence

\* A tick that reads a row holds an occurrence that has passed.
LEMMA ScheduleRead ==
  ASSUME TypeOK, ScheduleInv, NEW t \in Tick, TickReads(t)
  PROVE  ScheduleInv'
<1> USE DEF TickReads, Goto, rowVars, history, Considering
<1>1. /\ held'[t].due = next /\ held'[t].now = now
      /\ held'[t].decision = "after-crash" => crashed
      /\ next \in Occurrence /\ next <= now
  BY RuntimeAssumption DEF TypeOK, Occurrence, Decide
<1>2. \A u \in Tick \ {t} : held'[u] = held[u] /\ (Considering(u)' <=> Considering(u))
  BY DEF TypeOK, Actor
<1>3. HeldIsPast'
  BY <1>1, <1>2 DEF ScheduleInv, HeldIsPast, TypeOK, Occurrence
<1>4. SpentAttempt'
  BY <1>1, <1>2 DEF ScheduleInv, SpentAttempt, TypeOK
<1>5. QED
  BY <1>3, <1>4 DEF ScheduleInv, ClaimsAreBehind, OncePerOccurrence, OneAttemptPerCrash

\* The claim: only the occurrence restart_next_at stands at can be won, and
\* winning it moves restart_next_at past it.
LEMMA ScheduleClaimed ==
  ASSUME TypeOK, ScheduleInv, NEW t \in Tick, TickConsiders(t)
  PROVE  ScheduleInv'
<1> USE DEF TickConsiders, Goto, Considering
<1>1. ~Considering(t)' /\ \A u \in Tick \ {t} :
        held'[u] = held[u] /\ (Considering(u)' <=> Considering(u))
  BY DEF TypeOK, Actor, Wins
<1>2. CASE ~Wins(t)
  <2>1. UNCHANGED <<next, crashed, claims, attempts>>
    BY <1>2 DEF history
  <2>2. QED
    BY <1>1, <2>1
    DEF ScheduleInv, HeldIsPast, ClaimsAreBehind, OncePerOccurrence, OneAttemptPerCrash,
        SpentAttempt, Occurrence
<1>3. CASE Wins(t)
  <2> DEFINE s == held[t]
  <2>1. /\ s.due \in Occurrence /\ s.due = next /\ s.due <= s.now /\ s.now \in Nat
        /\ next' = s.now + 1 /\ next' \in Nat /\ next \in Nat /\ next < next'
        /\ claims' = [claims EXCEPT ![s.due] = @ + 1]
    BY <1>3 DEF Wins, ScheduleInv, HeldIsPast, TypeOK, Snapshot, Occurrence
  <2>2. claims[s.due] = 0
    BY <2>1 DEF ScheduleInv, ClaimsAreBehind, Occurrence
  <2>3. HeldIsPast'
    BY <1>1, <2>1 DEF ScheduleInv, HeldIsPast, Occurrence, TypeOK, Snapshot
  <2>4. ClaimsAreBehind'
    BY <2>1, <2>2 DEF ScheduleInv, ClaimsAreBehind, Occurrence, TypeOK
  <2>5. OncePerOccurrence'
    BY <2>1, <2>2 DEF ScheduleInv, OncePerOccurrence, TypeOK
  <2>6. CASE s.decision = "after-crash"
    <3>1. attempts = 0
      BY <1>3, <2>1, <2>6 DEF ScheduleInv, SpentAttempt, OneAttemptPerCrash, TypeOK
    <3>2. attempts' = 1
      BY <1>3, <2>6, <3>1
    <3>5. ~crashed'
      <4>1. crashed' = (crashed /\ s.decision = "skip")
        BY <1>3
      <4>2. QED
        BY <4>1, <2>6
    <3>3. \A u \in Tick : Considering(u)' => held'[u].due < next'
      BY <1>1, <2>1 DEF ScheduleInv, HeldIsPast, TypeOK, Snapshot, Occurrence
    <3>4. QED
      BY <2>3, <2>4, <2>5, <3>2, <3>3, <3>5 DEF ScheduleInv, SpentAttempt, OneAttemptPerCrash
  <2>7. CASE s.decision # "after-crash"
    <3>1. attempts' = attempts /\ (crashed' => crashed)
      BY <1>3, <2>7
    <3>2. SpentAttempt'
      BY <1>1, <2>1, <3>1 DEF ScheduleInv, SpentAttempt, TypeOK, Snapshot, Occurrence
    <3>3. QED
      BY <2>3, <2>4, <2>5, <3>1, <3>2 DEF ScheduleInv, OneAttemptPerCrash
  <2>8. QED
    BY <2>6, <2>7
<1>4. QED
  BY <1>2, <1>3

\* Every step keeps the claims behind the schedule.
LEMMA ScheduleStep ==
  ASSUME TypeOK, ScheduleInv, [Next]_vars
  PROVE  ScheduleInv'
<1> USE DEF rowVars, actorVars, sweepVars, history, Goto, Write, Considering
<1>1. CASE SweepWrites
  BY <1>1, ScheduleMarked
<1>2. ASSUME NEW t \in Tick, TickReads(t)
      PROVE  ScheduleInv'
  BY <1>2, ScheduleRead
<1>3. ASSUME NEW t \in Tick, TickConsiders(t)
      PROVE  ScheduleInv'
  BY <1>3, ScheduleClaimed
<1>4. CASE SweepReads \/ SweepAsks \/ SweepEnds \/ SweepFails
  <2>1. UNCHANGED <<next, claims, attempts, held, crashed, at>>
    BY <1>4 DEF SweepReads, SweepAsks, SweepEnds, SweepFails
  <2>2. QED
    BY <2>1, ScheduleKept
<1>5. ASSUME NEW a \in Actor, RestartStarts(a) \/ RestartWrites(a)
      PROVE  ScheduleInv'
  BY <1>5, ScheduleKept DEF RestartStarts, RestartWrites, TypeOK, Actor
<1>6. ASSUME NEW o \in Operator, RestartAsked(o) \/ StopProcess(o) \/ StopWrites(o)
      PROVE  ScheduleInv'
  BY <1>6, ScheduleKept DEF RestartAsked, StopProcess, StopWrites, TypeOK, Actor
<1>7. CASE DeployClaims \/ DeployMoves \/ DeployPublishes \/ DeployFails
  BY <1>7, ScheduleKept DEF DeployClaims, DeployMoves, DeployPublishes, DeployFails
<1>8. CASE TimePasses \/ AppChanges
  BY <1>8, ScheduleKept DEF TimePasses, AppChanges
<1>9. CASE PanelRestart
  BY <1>9
  DEF PanelRestart, ScheduleInv, HeldIsPast, ClaimsAreBehind, OncePerOccurrence,
      OneAttemptPerCrash, SpentAttempt, Actor
<1>10. CASE UNCHANGED vars
  BY <1>10, ScheduleKept DEF vars
<1>11. QED
  BY <1>1, <1>2, <1>3, <1>4, <1>5, <1>6, <1>7, <1>8, <1>9, <1>10 DEF Next, SweepStep

-----------------------------------------------------------------------------
(* The row: who writes a status with which marker. *)

\* Every step keeps the marker off what runs, and the sweep off the rest.
LEMMA RowStep ==
  ASSUME TypeOK, RunningHasNoMarker, SweepWritesReconcilable, [Next]_vars
  PROVE  RunningHasNoMarker' /\ SweepWritesReconcilable'
<1> USE DEF RunningHasNoMarker, SweepWritesReconcilable, IsReconcilable, rowVars, sweepVars,
            actorVars, history, Goto, Write
<1>1. CASE SweepReads
  BY <1>1 DEF SweepReads
<1>2. CASE SweepAsks
  BY <1>2 DEF SweepAsks, Ended, Reconciled, Answer, TypeOK
<1>3. CASE SweepWrites
  BY <1>3 DEF SweepWrites, Ended
<1>4. CASE SweepEnds \/ SweepFails
  BY <1>4 DEF SweepEnds, SweepFails, NoSweep
<1>5. ASSUME NEW t \in Tick, TickReads(t) \/ TickConsiders(t)
      PROVE  RunningHasNoMarker' /\ SweepWritesReconcilable'
  BY <1>5 DEF TickReads, TickConsiders
<1>6. ASSUME NEW a \in Actor, RestartStarts(a) \/ RestartWrites(a)
      PROVE  RunningHasNoMarker' /\ SweepWritesReconcilable'
  BY <1>6 DEF RestartStarts, RestartWrites
<1>7. ASSUME NEW o \in Operator, RestartAsked(o) \/ StopProcess(o) \/ StopWrites(o)
      PROVE  RunningHasNoMarker' /\ SweepWritesReconcilable'
  BY <1>7 DEF RestartAsked, StopProcess, StopWrites
<1>8. CASE DeployClaims \/ DeployMoves \/ DeployPublishes \/ DeployFails
  BY <1>8 DEF DeployClaims, DeployMoves, DeployPublishes, DeployFails
<1>9. CASE TimePasses \/ AppChanges
  BY <1>9 DEF TimePasses, AppChanges
<1>10. CASE PanelRestart
  BY <1>10 DEF PanelRestart, NoSweep
<1>11. CASE UNCHANGED vars
  BY <1>11 DEF vars
<1>12. QED
  BY <1>1, <1>2, <1>3, <1>4, <1>5, <1>6, <1>7, <1>8, <1>9, <1>10, <1>11 DEF Next, SweepStep

-----------------------------------------------------------------------------

\* The inductive invariant, for any number of ticks, operators and occurrences.
THEOREM RuntimeCorrect == Spec => []RuntimeInv
<1>1. RuntimeInv /\ [Next]_vars => RuntimeInv'
  BY TypeStep, ScheduleStep, RowStep DEF RuntimeInv, ScheduleInv
<1>2. QED
  BY InitInv, <1>1, PTL DEF Spec

\* An occurrence is claimed at most once, however many ticks overlap.
THEOREM OccurrencesClaimedOnce == Spec => []OncePerOccurrence
<1>1. RuntimeInv => OncePerOccurrence
  BY DEF RuntimeInv
<1>2. QED
  BY <1>1, RuntimeCorrect, PTL

\* A crash is given one attempt.
THEOREM CrashesTriedOnce == Spec => []OneAttemptPerCrash
<1>1. RuntimeInv => OneAttemptPerCrash
  BY DEF RuntimeInv
<1>2. QED
  BY <1>1, RuntimeCorrect, PTL

\* A project called running carries no crash marker.
THEOREM RunningIsUnmarked == Spec => []RunningHasNoMarker
<1>1. RuntimeInv => RunningHasNoMarker
  BY DEF RuntimeInv
<1>2. QED
  BY <1>1, RuntimeCorrect, PTL

\* The sweep never writes over a deploy, or over the error one left.
THEOREM DeploysSurviveTheSweep == Spec => SweepLeavesDeploysAlone
<1> DEFINE Leaves == sweep.at = "writing" /\ sweep'.at = "ending" /\ ~IsReconcilable(status)
                       => UNCHANGED <<status, crashed>>
<1>1. RuntimeInv /\ [Next]_vars => [Leaves]_vars
  <2> SUFFICES ASSUME RuntimeInv, Next, sweep.at = "writing", sweep'.at = "ending",
                      ~IsReconcilable(status)
               PROVE  UNCHANGED <<status, crashed>>
    OBVIOUS
  <2> USE DEF rowVars, sweepVars
  <2>1. CASE SweepWrites
    BY <2>1 DEF SweepWrites, RuntimeInv, SweepWritesReconcilable
  <2>2. CASE SweepReads \/ SweepAsks \/ SweepEnds \/ SweepFails
    BY <2>2 DEF SweepReads, SweepAsks, SweepEnds, SweepFails, NoSweep
  <2>3. CASE PanelRestart
    BY <2>3 DEF PanelRestart, NoSweep
  <2>4. CASE ~(SweepStep \/ SweepFails \/ PanelRestart)
    <3>1. sweep' = sweep
      BY <2>4
      DEF Next, TickReads, TickConsiders, RestartStarts, RestartWrites, RestartAsked,
          StopProcess, StopWrites, DeployClaims, DeployMoves, DeployPublishes, DeployFails,
          TimePasses, AppChanges
    <3>2. QED
      BY <3>1
  <2>5. QED
    BY <2>1, <2>2, <2>3, <2>4 DEF SweepStep
<1>2. QED
  BY <1>1, RuntimeCorrect, PTL DEF Spec, SweepLeavesDeploysAlone
=============================================================================
