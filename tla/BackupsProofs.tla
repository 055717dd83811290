----------------------------- MODULE BackupsProofs -----------------------------
(***************************************************************************)
(* Backups and restores for any number of policies, ticks, requests and     *)
(* restores, any bounds, and any faults.                                    *)
(*                                                                         *)
(* The flags are inductive by themselves once the points of the actors are  *)
(* typed.  That a restore writes alone needs a fact about the moment its    *)
(* safety copy ended: nobody could raise the other flag since (WritesAlone).*)
(* That the last archive is kept is not about retention's choice alone:     *)
(* the archives it removes are older than that of the very run it follows,  *)
(* which is stored and is the last run there is (LastRun, DoomedAreOlder),  *)
(* so whatever has been removed has something newer that was not            *)
(* (NewerIsStored).                                                         *)
(*                                                                         *)
(* What a backup freezes (VolumePause) is in the file: PausedIsJournaled    *)
(* alone says nothing about the two moments the file is rewritten from a    *)
(* loop's result.  PassCovers says that while a pass runs what is frozen is *)
(* still ahead of the loop or among what it keeps; PlanIsWritten, that the  *)
(* containers being frozen stay in the file until they are thawed;          *)
(* ReleasedIsThawed, that what a thaw lets go of is not frozen.             *)
(***************************************************************************)
EXTENDS Backups, VolumePause, WellFoundedInduction, TLAPS

\* Only a restore writes, and one with its safety copy does so with the backup
\* flag down: Free refuses the flag to everyone else until it is over.
WritesAlone ==
    /\ \A a \in Actor : at[a] = "writing" => a \in Restore
    /\ \A r \in Restore : at[r] = "writing" /\ safe[r] => backup = None

\* A backup works on the last run, stored before it is recorded.
LastRun ==
    \A a \in Actor :
        /\ at[a] = "inserting" => Len(runs) < MaxRuns
        /\ at[a] \in Working \ {"inserting"} => mine[a] = Len(runs) /\ mine[a] \in Run
        /\ at[a] \in {"recording", "pruning", "forgetting"} =>
              runs[mine[a]].archive = "stored"

\* Retention removes what is older than the run it follows, of the same policy.
DoomedAreOlder ==
    \A a \in Actor, i \in doomed : at[a] \in {"pruning", "forgetting"} =>
        i < mine[a] /\ runs[i].policy = runs[mine[a]].policy

\* What was removed has something newer, of the same policy, that is stored.
NewerIsStored ==
    \A i \in Run : runs[i].archive = "removed" =>
        \E j \in Run : /\ j > i /\ runs[j].policy = runs[i].policy
                       /\ runs[j].archive = "stored"

BackupInv ==
    TypeOK /\ FlagsAreHeld /\ WritesAlone /\ LastRun /\ DoomedAreOlder /\ NewerIsStored

-----------------------------------------------------------------------------
(* The operators *)

\* A nonempty set of runs has a greatest one.
LEMMA MaxIsMax ==
  ASSUME NEW n \in Nat, NEW S \in SUBSET (1..n), S # {}
  PROVE  Max(S) \in S /\ \A y \in S : Max(S) >= y
<1> DEFINE Less == {ss \in Nat \X Nat : ss[1] < ss[2]}
           T == {n - x : x \in S}
<1>1. IsWellFoundedOn(Less, Nat)
  BY NatLessThanWellFounded DEF OpToRel
<1>2. T \subseteq Nat /\ T # {}
  <2>1. \A x \in S : n - x \in Nat
    OBVIOUS
  <2>2. QED
    BY <2>1
<1> HIDE DEF Less
<1>3. PICK t \in T : \A u \in T : ~(<<u, t>> \in Less)
  BY <1>1, <1>2, WFMin
<1>4. PICK x \in S : t = n - x
  OBVIOUS
<1>5. ASSUME NEW y \in S PROVE x >= y
  <2>1. n - y \in T /\ n - y \in Nat /\ t \in Nat
    BY <1>2
  <2>2. ~(n - y < t)
    BY <1>3, <2>1 DEF Less
  <2>3. QED
    BY <1>4, <2>2
<1>6. QED
  BY <1>4, <1>5 DEF Max

\* The head of the candidates is the last run, when that one is among them.
LEMMA CollectableIsOlder ==
  ASSUME NEW n \in Nat, NEW C \in SUBSET (1..n), n \in C, NEW i \in Collectable(C)
  PROVE  i \in C /\ i < n
<1>1. Max(C) \in C /\ Max(C) >= n
  BY MaxIsMax
<1>2. Max(C) \in 1..n
  BY <1>1
<1>3. Max(C) = n
  BY <1>1, <1>2
<1>4. i \in C \ {n}
  BY <1>3 DEF Collectable
<1>5. QED
  BY <1>4

\* Where an actor goes after its backup is not a point of a backup.
LEMMA AfterwardsIsOver ==
  ASSUME NEW a \in Actor, NEW good
  PROVE  /\ a \in Tick => Afterwards(a, good) = "considering"
         /\ a \in Manual => Afterwards(a, good) = "idle"
         /\ a \in Restore => Afterwards(a, good) = IF good THEN "writing" ELSE "restored"
         /\ Afterwards(a, good) \in {"considering", "idle", "writing", "restored"}
  BY BackupsAssumption DEF Afterwards, Actor

\* What a statement that sets a column of one run leaves of the others.
LEMMA RowsType ==
  ASSUME runs \in Seq(Row), NEW f, f = [i \in Run |-> f[i]], \A i \in Run : f[i] \in Row
  PROVE  f \in Seq(Row) /\ Len(f) = Len(runs)
  BY DEF Run

-----------------------------------------------------------------------------

\* No run, no flag and nobody at work satisfy the invariant.
LEMMA BackupInit == Init => BackupInv
<1> SUFFICES ASSUME Init PROVE BackupInv
  OBVIOUS
<1> USE BackupsAssumption DEF Init
<1>1. TypeOK
  <2>1. runs \in Seq(Row) /\ Len(runs) = 0
    OBVIOUS
  <2>2. NoSnapshot \in Snapshot
    BY DEF NoSnapshot, Snapshot
  <2>3. QED
    BY <2>1, <2>2 DEF TypeOK, Actor
<1>2. FlagsAreHeld
  BY DEF FlagsAreHeld, Backing, Working, Actor
<1>3. WritesAlone /\ LastRun /\ DoomedAreOlder /\ NewerIsStored
  BY DEF WritesAlone, LastRun, DoomedAreOlder, NewerIsStored, Working, Run
<1>4. QED
  BY <1>1, <1>2, <1>3 DEF BackupInv

-----------------------------------------------------------------------------

\* The columns a statement may write.
LEMMA RowColumns ==
  ASSUME NEW r \in Row
  PROVE  /\ \A v \in {"running", "good", "failed", "gone"} :
              [r EXCEPT !.status = v] \in Row
         /\ \A v \in {"none", "stored", "removed"} : [r EXCEPT !.archive = v] \in Row
         /\ \A v : /\ [r EXCEPT !.status = v].policy = r.policy
                   /\ [r EXCEPT !.status = v].archive = r.archive
                   /\ [r EXCEPT !.archive = v].policy = r.policy
                   /\ [r EXCEPT !.archive = v].archive = v
  BY DEF Row

\* What a statement that touches no archive leaves of every run.
SameArchive(r, s) == s \in Row /\ s.policy = r.policy /\ s.archive = r.archive

\* A statement that sets a status leaves every archive and policy.
LEMMA StatusMoves ==
  ASSUME TypeOK, NEW i, NEW v \in {"running", "good", "failed", "gone"},
         runs' = [runs EXCEPT ![i].status = v]
  PROVE  /\ runs' \in Seq(Row) /\ Len(runs') = Len(runs)
         /\ \A j \in Run : SameArchive(runs[j], runs'[j])
<1>0. runs = [j \in Run |-> runs[j]] /\ \A j \in Run : runs[j] \in Row
  BY DEF TypeOK, Run
<1>1. \A j \in Run : SameArchive(runs[j], runs'[j])
  <2> SUFFICES ASSUME NEW j \in Run PROVE SameArchive(runs[j], runs'[j])
    OBVIOUS
  <2> DEFINE r == runs[j]
  <2>1. r \in Row
    BY <1>0
  <2>2. runs'[j] = IF j = i THEN [r EXCEPT !.status = v] ELSE r
    BY <1>0
  <2> HIDE DEF r
  <2>3. SameArchive(r, [r EXCEPT !.status = v]) /\ SameArchive(r, r)
    BY <2>1, RowColumns DEF SameArchive
  <2>4. SameArchive(r, runs'[j])
    BY <2>2, <2>3
  <2>5. QED
    BY <2>4 DEF r
<1>2. runs' = [j \in Run |-> runs'[j]] /\ \A j \in Run : runs'[j] \in Row
  BY <1>0, <1>1 DEF SameArchive
<1>3. runs' \in Seq(Row) /\ Len(runs') = Len(runs)
  BY <1>2, RowsType DEF TypeOK
<1>4. QED
  BY <1>1, <1>3

\* One that sets an archive leaves every other run.
LEMMA ArchiveMoves ==
  ASSUME TypeOK, NEW i \in Run, NEW v \in {"none", "stored", "removed"},
         runs' = [runs EXCEPT ![i].archive = v]
  PROVE  /\ runs' \in Seq(Row) /\ Len(runs') = Len(runs)
         /\ runs'[i].archive = v /\ runs'[i].policy = runs[i].policy
         /\ \A j \in Run \ {i} : runs'[j] = runs[j]
<1>0. runs = [j \in Run |-> runs[j]] /\ \A j \in Run : runs[j] \in Row
  BY DEF TypeOK, Run
<1> DEFINE r == runs[i]
<1>1. r \in Row /\ runs'[i] = [r EXCEPT !.archive = v]
  BY <1>0
<1>2. \A j \in Run \ {i} : runs'[j] = runs[j]
  BY <1>0
<1> HIDE DEF r
<1>3. LET q == [r EXCEPT !.archive = v] IN
        q \in Row /\ q.archive = v /\ q.policy = r.policy
  BY <1>1, RowColumns
<1>4. runs'[i] \in Row /\ runs'[i].archive = v /\ runs'[i].policy = r.policy
  BY <1>1, <1>3
<1>5. runs' = [j \in Run |-> runs'[j]] /\ \A j \in Run : runs'[j] \in Row
  BY <1>0, <1>2, <1>4
<1>6. runs' \in Seq(Row) /\ Len(runs') = Len(runs)
  BY <1>5, RowsType DEF TypeOK
<1>7. QED
  BY <1>2, <1>4, <1>6 DEF r

-----------------------------------------------------------------------------
(* Types *)

\* Every step keeps the table and the flags, and what each actor is at.
LEMMA TypeStep ==
  ASSUME TypeOK, LastRun, Next
  PROVE  TypeOK'
<1> USE BackupsAssumption DEF TypeOK, From, Goto, Fault, flags, schedule
<1>0. \A a \in Actor, good \in BOOLEAN :
        Afterwards(a, good) \in {"considering", "idle", "writing", "restored"}
  BY AfterwardsIsOver
<1>1. ASSUME NEW a \in Actor, Inserts(a)
      PROVE  TypeOK'
  <2> DEFINE r == [policy |-> aim[a], status |-> "running", archive |-> "none"]
  <2>1. r \in Row /\ Len(runs) < MaxRuns
    BY <1>1 DEF Inserts, Row, LastRun
  <2>2. runs' = Append(runs, r)
    BY <1>1 DEF Inserts
  <2> HIDE DEF r
  <2>3. runs' \in Seq(Row) /\ Len(runs') = Len(runs) + 1
    BY <2>1, <2>2
  <2>4. at' \in [Actor -> Working \union {"idle", "considering", "asked", "preparing",
                                          "writing", "restored"}]
    BY <1>1 DEF Inserts, Working
  <2>5. mine' \in [Actor -> 0..MaxRuns] /\ doomed' \subseteq Run'
    BY <1>1, <2>1, <2>3 DEF Inserts, Run
  <2>6. QED
    BY <1>1, <2>1, <2>3, <2>4, <2>5 DEF Inserts
<1>2. ASSUME NEW a \in Actor, InsertFails(a)
      PROVE  TypeOK'
  <2>1. PICK point \in {"considering", "idle", "writing", "restored"} : Goto(a, point)
    <3>1. Goto(a, Afterwards(a, FALSE))
      BY <1>2 DEF InsertFails
    <3>2. Afterwards(a, FALSE) \in {"considering", "idle", "writing", "restored"}
      BY <1>0
    <3>3. QED
      BY <3>1, <3>2, Zenon
  <2>2. UNCHANGED runs /\ backup' = None /\ faults' \in 0..MaxFaults
        /\ UNCHANGED <<restoring, aim, mine, safe, doomed, schedule>>
    BY <1>2 DEF InsertFails
  <2>3. QED
    BY <2>1, <2>2 DEF Run
<1>3. ASSUME NEW a \in Actor, Dumps(a) \/ Throws(a) \/ Pruned(a)
      PROVE  TypeOK'
  <2>1. CASE Dumps(a)
    BY <2>1 DEF Dumps, Working, Run
  <2>2. CASE Throws(a)
    BY <2>2 DEF Throws, Working, Run
  <2>3. CASE Pruned(a)
    BY <2>3 DEF Pruned, Working, Run
  <2>4. QED
    BY <1>3, <2>1, <2>2, <2>3
<1>4. ASSUME NEW a \in Actor, Stores(a)
      PROVE  TypeOK'
  <2>1. mine[a] \in Run
    BY <1>4 DEF Stores, LastRun, Working
  <2>2. runs' \in Seq(Row) /\ Len(runs') = Len(runs)
    BY <1>4, <2>1, ArchiveMoves DEF Stores, Set
  <2>3. QED
    BY <1>4, <2>2 DEF Stores, Working, Run
<1>5. ASSUME NEW a \in Actor, Records(a)
      PROVE  TypeOK'
  <2>1. mine[a] \in Run
    BY <1>5 DEF Records, LastRun, Working
  <2>2. runs' \in Seq(Row) /\ Len(runs') = Len(runs)
    BY <1>5, StatusMoves DEF Records
  <2>3. doomed' \subseteq Run
    BY <1>5, <2>1 DEF Records, Collectable, Candidates
  <2>4. QED
    BY <1>5, <2>2, <2>3 DEF Records, Working, Run
<1>6. ASSUME NEW a \in Actor, NEW i \in doomed, Removes(a, i)
      PROVE  TypeOK'
  <2>1. CASE UNCHANGED <<at, runs>>
    BY <1>6, <2>1 DEF Removes, Run
  <2>2. CASE Goto(a, "forgetting") /\ runs' = [runs EXCEPT ![i].archive = "removed"]
             /\ UNCHANGED <<doomed, faults>>
    <3>1. runs' \in Seq(Row) /\ Len(runs') = Len(runs)
      BY <2>2, ArchiveMoves
    <3>2. QED
      BY <1>6, <2>2, <3>1 DEF Removes, Working, Run
  <2>3. QED
    BY <1>6, <2>1, <2>2 DEF Removes
<1>7. ASSUME NEW a \in Actor, Forgets(a)
      PROVE  TypeOK'
  <2>1. PICK i : runs' = [runs EXCEPT ![i].status = "gone"] /\ doomed' \subseteq doomed
    BY <1>7 DEF Forgets
  <2>2. runs' \in Seq(Row) /\ Len(runs') = Len(runs)
    BY <2>1, StatusMoves
  <2>3. QED
    BY <1>7, <2>1, <2>2 DEF Forgets, Working, Run
<1>8. ASSUME NEW a \in Actor, Fails(a)
      PROVE  TypeOK'
  <2>1. runs' \in Seq(Row) /\ Len(runs') = Len(runs)
    BY <1>8, StatusMoves DEF Fails, Set
  <2>2. QED
    BY <1>8, <2>1 DEF Fails, Working, Run
<1>9. ASSUME NEW a \in Actor, Releases(a)
      PROVE  TypeOK'
  <2>1. Afterwards(a, runs[mine[a]].status = "good")
           \in {"considering", "idle", "writing", "restored"}
    BY <1>0
  <2>2. QED
    BY <1>9, <2>1 DEF Releases, Run
<1>10. \A t \in Tick : /\ t \in Actor
                       /\ held[t].todo \subseteq Policy
                       /\ held[t].now + 1 \in 1..(MaxTime + 1)
                       /\ \A T \in SUBSET Policy : [held[t] EXCEPT !.todo = T] \in Snapshot
  <2> SUFFICES ASSUME NEW t \in Tick
               PROVE  /\ held[t].todo \subseteq Policy
                      /\ held[t].now + 1 \in 1..(MaxTime + 1)
                      /\ \A T \in SUBSET Policy : [held[t] EXCEPT !.todo = T] \in Snapshot
    BY DEF Actor
  <2>1. held[t] \in Snapshot
    OBVIOUS
  <2>2. held[t].todo \subseteq Policy /\ held[t].now \in 0..MaxTime
    BY <2>1 DEF Snapshot
  <2>3. \A T \in SUBSET Policy : [held[t] EXCEPT !.todo = T] \in Snapshot
    BY <2>1 DEF Snapshot
  <2>4. held[t].now + 1 \in 1..(MaxTime + 1)
    BY <2>2
  <2>5. QED
    BY <2>2, <2>3, <2>4
<1>11. ASSUME NEW t \in Tick, NEW p \in Policy, Considered(t, p)
       PROVE  held' \in [Tick -> Snapshot]
  BY <1>10, <1>11 DEF Considered
<1>12. ASSUME NEW t \in Tick, NEW p \in Policy, Moves(t, p)
       PROVE  nextRun' \in [Policy -> 1..(MaxTime + 1)]
  BY <1>10, <1>12 DEF Moves
<1>13. ASSUME NEW a \in Actor, NEW p \in Policy \union {None}, Claims(a, p)
       PROVE  /\ backup' \in Actor \union {None} /\ aim' \in [Actor -> Policy \union {None}]
              /\ at' \in [Actor -> Working \union {"idle", "considering", "asked",
                                                   "preparing", "writing", "restored"}]
  BY <1>13 DEF Claims, Working
<1>14. ASSUME NEW t \in Tick, TickStep(t)
       PROVE  TypeOK'
  <2>1. ASSUME NEW p \in Policy, NotDue(t, p) \/ MissedForGood(t, p) \/ TickFindsBusy(t, p)
        PROVE  TypeOK'
    BY <1>11, <1>12, <2>1 DEF NotDue, MissedForGood, TickFindsBusy, Run
  <2>2. ASSUME NEW p \in Policy, TickStarts(t, p)
        PROVE  TypeOK'
    BY <1>10, <1>11, <1>12, <1>13, <2>2 DEF TickStarts, Run
  <2>3. CASE TickEnds(t)
    <3>1. NoSnapshot \in Snapshot
      BY DEF NoSnapshot, Snapshot
    <3>2. QED
      BY <1>10, <2>3, <3>1 DEF TickEnds, Run
  <2>4. QED
    BY <1>14, <2>1, <2>2, <2>3 DEF TickStep
<1>15. ASSUME NEW r \in Restore, RestoreStep(r)
       PROVE  TypeOK'
  <2>0. r \in Actor
    BY DEF Actor
  <2>1. CASE CopiesFirst(r)
    BY <1>13, <2>0, <2>1 DEF CopiesFirst, Run
  <2>2. CASE RestoreStarts(r)
    BY <2>0, <2>2 DEF RestoreStarts, Run
  <2>3. CASE RestoreRefused(r)
    BY <2>0, <2>3 DEF RestoreRefused, Run
  <2>4. CASE GivesUp(r)
    BY <2>0, <2>4 DEF GivesUp, Run
  <2>5. CASE SkipsCopy(r) \/ Writes(r)
    BY <2>0, <2>5 DEF SkipsCopy, Writes, Run
  <2>6. CASE RestoreEnds(r)
    BY <2>0, <2>6 DEF RestoreEnds, Run
  <2>7. QED
    BY <1>15, <2>1, <2>2, <2>3, <2>4, <2>5, <2>6 DEF RestoreStep
<1>16. ASSUME NEW t \in Tick, TickReads(t)
       PROVE  TypeOK'
  <2>1. [todo |-> Policy, next |-> nextRun, now |-> now] \in Snapshot
    BY DEF Snapshot
  <2>2. QED
    BY <1>10, <1>16, <2>1 DEF TickReads, Run
<1>17. ASSUME NEW m \in Manual, NEW p \in Policy, ManualStarts(m, p)
       PROVE  TypeOK'
  <2>0. m \in Actor
    BY DEF Actor
  <2>1. QED
    BY <1>13, <1>17, <2>0 DEF ManualStarts, Run
<1>18. ASSUME NEW r \in Restore, RestoreAsked(r)
       PROVE  TypeOK'
  <2>0. r \in Actor
    BY DEF Actor
  <2>1. safe' \in [Restore -> BOOLEAN]
    BY <1>18 DEF RestoreAsked
  <2>2. QED
    BY <1>18, <2>0, <2>1 DEF RestoreAsked, Run
<1>19. CASE Clock
  BY <1>19 DEF Clock, Run
<1>20. CASE PanelRestart
  <2>1. /\ runs' = [i \in Run |-> runs'[i]] /\ \A i \in Run : runs'[i] \in Row
    <3>1. \A i \in Run : runs[i] \in Row
      BY DEF Run
    <3>2. \A r \in Row : [r EXCEPT !.status = "failed"] \in Row
      BY RowColumns
    <3>3. QED
      BY <1>20, <3>1, <3>2 DEF PanelRestart
  <2>2. runs' \in Seq(Row) /\ Len(runs') = Len(runs)
    BY <2>1, RowsType
  <2>3. NoSnapshot \in Snapshot
    BY DEF NoSnapshot, Snapshot
  <2>4. /\ at' \in [Actor -> Working \union {"idle", "considering", "asked", "preparing",
                                             "writing", "restored"}]
        /\ aim' \in [Actor -> Policy \union {None}] /\ mine' \in [Actor -> 0..MaxRuns]
        /\ held' \in [Tick -> Snapshot]
    BY <1>20, <2>3 DEF PanelRestart
  <2>5. faults' \in 0..MaxFaults
    BY <1>20 DEF PanelRestart
  <2>6. QED
    BY <1>20, <2>2, <2>4, <2>5 DEF PanelRestart
<1>21. QED
  BY <1>1, <1>2, <1>3, <1>4, <1>5, <1>6, <1>7, <1>8, <1>9, <1>14, <1>15, <1>16, <1>17,
     <1>18, <1>19, <1>20 DEF Next, Step, BackupStep

-----------------------------------------------------------------------------
(* The flags *)

\* An actor's own moves, for the two flags.
LEMMA BackingMoves ==
  ASSUME TypeOK, FlagsAreHeld, WritesAlone, NEW a \in Actor, NEW point \in Working,
         Backing(a), at' = [at EXCEPT ![a] = point], UNCHANGED <<backup, restoring, safe>>
  PROVE  FlagsAreHeld' /\ WritesAlone'
<1>1. \A b \in Actor : Backing(b)' <=> Backing(b)
  BY DEF TypeOK, Backing
<1>2. \A b \in Actor \ {a} : at'[b] = at[b]
  BY DEF TypeOK
<1>3. at'[a] \in Working /\ at[a] \in Working /\ at'[a] # "writing"
  BY DEF TypeOK, Backing, Working
<1>4. Restore \subseteq Actor
  BY DEF Actor
<1>5. QED
  BY <1>1, <1>2, <1>3, <1>4 DEF FlagsAreHeld, WritesAlone

\* A claim is made with nobody backing and no restore but the claimer's.
LEMMA ClaimMoves ==
  ASSUME TypeOK, FlagsAreHeld, WritesAlone, NEW a \in Actor, NEW p, Claims(a, p),
         UNCHANGED <<restoring, safe>>,
         a \in Restore => at[a] = "preparing"
  PROVE  FlagsAreHeld' /\ WritesAlone'
<1>1. \A b \in Actor : ~Backing(b)
  BY BackupsAssumption DEF FlagsAreHeld, Claims, Free
<1>2. \A b \in Actor \ {a} : at'[b] = at[b]
  BY DEF TypeOK, Claims, Goto
<1>3. at'[a] = "inserting" /\ backup' = a
  BY DEF TypeOK, Claims, Goto
<1>4. FlagsAreHeld'
  <2>1. \A b \in Actor : Backing(b)' <=> backup' = b
    BY <1>1, <1>2, <1>3 DEF Backing, Working
  <2>2. \A r \in Restore : restoring' = r <=>
           at'[r] \in Working \union {"preparing", "writing", "restored"}
    BY <1>2, <1>3 DEF FlagsAreHeld, Working, Actor
  <2>3. QED
    BY <2>1, <2>2 DEF FlagsAreHeld
<1>5. \A r \in Restore \ {a} : at[r] # "writing"
  BY BackupsAssumption DEF Claims, Free, FlagsAreHeld, Actor
<1>6. QED
  BY <1>2, <1>3, <1>4, <1>5 DEF WritesAlone, Actor

\* The end of a backup gives its flag back, and with it a restore goes on alone.
LEMMA ReleaseMoves ==
  ASSUME TypeOK, FlagsAreHeld, WritesAlone, NEW a \in Actor, NEW good,
         Backing(a), Goto(a, Afterwards(a, good)), backup' = None,
         UNCHANGED <<restoring, safe>>
  PROVE  FlagsAreHeld' /\ WritesAlone'
<1>1. \A b \in Actor : Backing(b) => b = a
  BY DEF FlagsAreHeld
<1>2. \A b \in Actor \ {a} : at'[b] = at[b]
  BY DEF TypeOK, Goto
<1>3. at'[a] = Afterwards(a, good)
  BY DEF TypeOK, Goto
<1>4. at'[a] \in {"considering", "idle", "writing", "restored"}
  BY <1>3, AfterwardsIsOver
<1>5. /\ a \in Restore => at'[a] \in {"writing", "restored"}
      /\ a \notin Restore => at'[a] # "writing"
  BY <1>3, AfterwardsIsOver, BackupsAssumption DEF Actor
<1>6. FlagsAreHeld'
  <2>1. \A b \in Actor : ~Backing(b)' /\ backup' # b
    BY <1>1, <1>2, <1>4, BackupsAssumption DEF Backing, Working
  <2>2. \A r \in Restore : restoring' = r <=>
           at'[r] \in Working \union {"preparing", "writing", "restored"}
    BY <1>2, <1>5 DEF FlagsAreHeld, Actor, Backing
  <2>3. QED
    BY <2>1, <2>2 DEF FlagsAreHeld
<1>7. QED
  BY <1>2, <1>5, <1>6 DEF WritesAlone

\* An actor that is not backing moves to a point where it does not either.
LEMMA IdleMoves ==
  ASSUME TypeOK, FlagsAreHeld, WritesAlone, NEW a \in Actor,
         NEW point \in {"idle", "considering", "asked"},
         at[a] \in {"idle", "considering", "asked"},
         at' = [at EXCEPT ![a] = point], UNCHANGED <<backup, restoring>>,
         \A r \in Restore : r # a => safe'[r] = safe[r]
  PROVE  FlagsAreHeld' /\ WritesAlone'
<1>1. \A b \in Actor \ {a} : at'[b] = at[b]
  BY DEF TypeOK
<1>2. at'[a] = point
  BY DEF TypeOK
<1>3. FlagsAreHeld'
  BY <1>1, <1>2 DEF FlagsAreHeld, Backing, Working, Actor
<1>4. QED
  BY <1>1, <1>2, <1>3 DEF WritesAlone, Actor

\* Every step keeps each flag with the one who raised it.
LEMMA FlagsStep ==
  ASSUME TypeOK, FlagsAreHeld, WritesAlone, Next
  PROVE  FlagsAreHeld' /\ WritesAlone'
<1> USE DEF flags, schedule
<1>1. ASSUME NEW a \in Actor, Inserts(a) \/ Dumps(a) \/ Stores(a) \/ Records(a) \/ Throws(a)
                              \/ Fails(a) \/ Pruned(a) \/ Forgets(a)
      PROVE  FlagsAreHeld' /\ WritesAlone'
  <2>1. Backing(a) /\ UNCHANGED <<backup, restoring, safe>>
    BY <1>1 DEF Inserts, Dumps, Stores, Records, Throws, Fails, Pruned, Forgets, From,
                Backing, Working
  <2>2. PICK point \in Working : at' = [at EXCEPT ![a] = point]
    BY <1>1 DEF Inserts, Dumps, Stores, Records, Throws, Fails, Pruned, Forgets, From,
                Goto, Working
  <2>3. QED
    BY <2>1, <2>2, BackingMoves
<1>2. ASSUME NEW a \in Actor, NEW i \in doomed, Removes(a, i)
      PROVE  FlagsAreHeld' /\ WritesAlone'
  <2>1. Backing(a) /\ UNCHANGED <<backup, restoring, safe>>
    BY <1>2 DEF Removes, Backing, Working
  <2>2. PICK point \in Working : at' = [at EXCEPT ![a] = point]
    BY <1>2 DEF Removes, Goto, Working, TypeOK
  <2>3. QED
    BY <2>1, <2>2, BackingMoves
<1>3. ASSUME NEW a \in Actor, InsertFails(a) \/ Releases(a)
      PROVE  FlagsAreHeld' /\ WritesAlone'
  <2>1. Backing(a) /\ UNCHANGED <<restoring, safe>>
    BY <1>3 DEF InsertFails, Releases, From, Backing, Working
  <2>2. backup' = None
    BY <1>3, <2>1 DEF InsertFails, Releases, FlagsAreHeld
  <2>3. PICK good : Goto(a, Afterwards(a, good))
    BY <1>3, Zenon DEF InsertFails, Releases, From
  <2>4. QED
    BY <2>1, <2>2, <2>3, ReleaseMoves
<1>4. ASSUME UNCHANGED <<backup, restoring, at, safe>>
      PROVE  FlagsAreHeld' /\ WritesAlone'
  BY <1>4 DEF FlagsAreHeld, WritesAlone, Backing
<1>5. ASSUME NEW t \in Tick, TickStep(t)
      PROVE  FlagsAreHeld' /\ WritesAlone'
  <2>0. t \in Actor /\ t \notin Restore
    BY BackupsAssumption DEF Actor
  <2>1. ASSUME NEW p \in Policy, TickStarts(t, p)
        PROVE  FlagsAreHeld' /\ WritesAlone'
    BY <2>0, <2>1, ClaimMoves DEF TickStarts
  <2>2. ASSUME NEW p \in Policy, NotDue(t, p) \/ MissedForGood(t, p) \/ TickFindsBusy(t, p)
        PROVE  FlagsAreHeld' /\ WritesAlone'
    BY <1>4, <2>2 DEF NotDue, MissedForGood, TickFindsBusy
  <2>3. CASE TickEnds(t)
    BY <2>0, <2>3, IdleMoves DEF TickEnds, From, Goto
  <2>4. QED
    BY <1>5, <2>1, <2>2, <2>3 DEF TickStep
<1>6. ASSUME NEW r \in Restore, RestoreStep(r)
      PROVE  FlagsAreHeld' /\ WritesAlone'
  <2>0. r \in Actor /\ r # None
    BY BackupsAssumption DEF Actor
  <2>1. CASE RestoreStarts(r)
    <3>1. /\ \A b \in Actor \ {r} : at'[b] = at[b]
          /\ at[r] = "asked" /\ at'[r] = "preparing"
      BY <2>0, <2>1 DEF RestoreStarts, From, Goto, TypeOK
    <3>2. QED
      BY <2>0, <2>1, <3>1, BackupsAssumption
      DEF RestoreStarts, FlagsAreHeld, WritesAlone, Backing, Working, Actor
  <2>2. CASE RestoreRefused(r)
    BY <2>0, <2>2, IdleMoves DEF RestoreRefused, From, Goto
  <2>3. CASE CopiesFirst(r)
    BY <2>0, <2>3, ClaimMoves DEF CopiesFirst
  <2>4. CASE GivesUp(r) \/ SkipsCopy(r) \/ Writes(r)
    <3>1. /\ \A b \in Actor \ {r} : at'[b] = at[b]
          /\ at[r] \in {"preparing", "writing"} /\ at'[r] \in {"writing", "restored"}
          /\ at'[r] = "writing" => ~safe[r]
          /\ UNCHANGED <<backup, restoring, safe>>
      BY <2>0, <2>4 DEF GivesUp, SkipsCopy, Writes, From, Goto, TypeOK
    <3>2. FlagsAreHeld'
      BY <3>1 DEF FlagsAreHeld, Backing, Working, Actor
    <3>3. QED
      BY <3>1, <3>2 DEF WritesAlone, Actor
  <2>5. CASE RestoreEnds(r)
    <3>1. /\ \A b \in Actor \ {r} : at'[b] = at[b]
          /\ at[r] = "restored" /\ at'[r] = "idle" /\ restoring = r /\ restoring' = None
          /\ UNCHANGED <<backup, safe>>
      BY <2>0, <2>5 DEF RestoreEnds, From, Goto, TypeOK, FlagsAreHeld
    <3>2. FlagsAreHeld'
      BY <2>0, <3>1, BackupsAssumption DEF FlagsAreHeld, Backing, Working, Actor
    <3>3. QED
      BY <3>1, <3>2 DEF WritesAlone, Actor
  <2>6. QED
    BY <1>6, <2>1, <2>2, <2>3, <2>4, <2>5 DEF RestoreStep
<1>7. ASSUME NEW t \in Tick, TickReads(t)
      PROVE  FlagsAreHeld' /\ WritesAlone'
  BY <1>7, IdleMoves DEF TickReads, From, Goto, Actor
<1>8. ASSUME NEW m \in Manual, NEW p \in Policy, ManualStarts(m, p)
      PROVE  FlagsAreHeld' /\ WritesAlone'
  <2>0. m \in Actor /\ m \notin Restore
    BY BackupsAssumption DEF Actor
  <2>1. QED
    BY <1>8, <2>0, ClaimMoves DEF ManualStarts
<1>9. ASSUME NEW r \in Restore, RestoreAsked(r)
      PROVE  FlagsAreHeld' /\ WritesAlone'
  <2>1. \A q \in Restore : q # r => safe'[q] = safe[q]
    BY <1>9 DEF RestoreAsked, TypeOK
  <2>2. QED
    BY <1>9, <2>1, IdleMoves DEF RestoreAsked, From, Goto, Actor
<1>10. CASE Clock
  BY <1>4, <1>10 DEF Clock
<1>11. CASE PanelRestart
  <2>1. backup' = None /\ restoring' = None /\ \A a \in Actor : at'[a] = "idle"
    BY <1>11 DEF PanelRestart
  <2>2. QED
    BY <2>1, BackupsAssumption DEF FlagsAreHeld, WritesAlone, Backing, Working, Actor
<1>12. QED
  BY <1>1, <1>2, <1>3, <1>5, <1>6, <1>7, <1>8, <1>9, <1>10, <1>11
  DEF Next, Step, BackupStep

-----------------------------------------------------------------------------
(* The archives *)

ArchiveInv == LastRun /\ DoomedAreOlder /\ NewerIsStored

\* A step that stores and removes nothing, by the only backup there is or by
\* somebody who is not backing.
LEMMA NothingStored ==
  ASSUME TypeOK, TypeOK', ArchiveInv, Len(runs') = Len(runs),
         \A i \in Run : SameArchive(runs[i], runs'[i]),
         \A a \in Actor :
            /\ at'[a] = "inserting" => Len(runs) < MaxRuns
            /\ at'[a] \in Working \ {"inserting"} =>
                  at[a] \in Working \ {"inserting"} /\ mine'[a] = mine[a]
            /\ at'[a] \in {"recording", "pruning", "forgetting"} =>
                  at[a] \in {"recording", "pruning", "forgetting"}
            /\ at'[a] \in {"pruning", "forgetting"} => \A i \in doomed' :
                  i \in Run /\ i < mine[a] /\ runs[i].policy = runs[mine[a]].policy
  PROVE  ArchiveInv'
<1>1. Run' = Run
  BY DEF Run
<1>2. LastRun'
  <2> SUFFICES ASSUME NEW a \in Actor
               PROVE  /\ at'[a] = "inserting" => Len(runs') < MaxRuns
                      /\ at'[a] \in Working \ {"inserting"} =>
                           mine'[a] = Len(runs') /\ mine'[a] \in Run
                      /\ at'[a] \in {"recording", "pruning", "forgetting"} =>
                           runs'[mine'[a]].archive = "stored"
    BY <1>1 DEF LastRun
  <2>1. at'[a] \in Working \ {"inserting"} => mine'[a] = Len(runs') /\ mine'[a] \in Run
    BY DEF ArchiveInv, LastRun
  <2>2. at'[a] \in {"recording", "pruning", "forgetting"} =>
          mine'[a] = mine[a] /\ mine[a] \in Run /\ runs[mine[a]].archive = "stored"
    BY DEF ArchiveInv, LastRun, Working
  <2>3. QED
    BY <2>1, <2>2 DEF SameArchive
<1>3. DoomedAreOlder'
  <2> SUFFICES ASSUME NEW a \in Actor, NEW i \in doomed', at'[a] \in {"pruning", "forgetting"}
               PROVE  i < mine'[a] /\ runs'[i].policy = runs'[mine'[a]].policy
    BY DEF DoomedAreOlder
  <2>1. i \in Run /\ i < mine[a] /\ runs[i].policy = runs[mine[a]].policy
    OBVIOUS
  <2>2. mine'[a] = mine[a] /\ mine[a] \in Run
    BY DEF ArchiveInv, LastRun, Working
  <2>3. QED
    BY <2>1, <2>2 DEF SameArchive
<1>4. NewerIsStored'
  BY <1>1 DEF ArchiveInv, NewerIsStored, SameArchive
<1>5. QED
  BY <1>2, <1>3, <1>4 DEF ArchiveInv

\* An actor that goes on with the run it has, or leaves it.
LEMMA RunGoesOn ==
  ASSUME TypeOK, TypeOK', ArchiveInv, NEW a \in Actor, NEW point,
         at' = [at EXCEPT ![a] = point],
         Len(runs') = Len(runs), \A i \in Run : SameArchive(runs[i], runs'[i]),
         \A b \in Actor : at'[b] \in Working \ {"inserting"} => mine'[b] = mine[b],
         doomed' \subseteq doomed,
         point = "inserting" => Len(runs) < MaxRuns,
         point \in Working \ {"inserting"} => at[a] \in Working \ {"inserting"},
         point = "recording" => at[a] \in {"recording", "pruning", "forgetting"},
         point \in {"pruning", "forgetting"} => at[a] \in {"pruning", "forgetting"}
  PROVE  ArchiveInv'
<1>1. at'[a] = point /\ \A b \in Actor \ {a} : at'[b] = at[b]
  BY DEF TypeOK
<1>2. ASSUME NEW b \in Actor
      PROVE  /\ at'[b] = "inserting" => Len(runs) < MaxRuns
             /\ at'[b] \in Working \ {"inserting"} =>
                  at[b] \in Working \ {"inserting"} /\ mine'[b] = mine[b]
             /\ at'[b] \in {"recording", "pruning", "forgetting"} =>
                  at[b] \in {"recording", "pruning", "forgetting"}
             /\ at'[b] \in {"pruning", "forgetting"} => at[b] \in {"pruning", "forgetting"}
  BY <1>1 DEF ArchiveInv, LastRun
<1>3. ASSUME NEW b \in Actor, at'[b] \in {"pruning", "forgetting"}, NEW i \in doomed'
      PROVE  i \in Run /\ i < mine[b] /\ runs[i].policy = runs[mine[b]].policy
  <2>1. at[b] \in {"pruning", "forgetting"} /\ i \in doomed
    BY <1>2, <1>3
  <2>2. QED
    BY <2>1 DEF ArchiveInv, DoomedAreOlder, TypeOK
<1>4. QED
  BY <1>2, <1>3, NothingStored

\* A table that is not written has the same archives.
LEMMA SameRuns ==
  ASSUME TypeOK, UNCHANGED runs
  PROVE  Len(runs') = Len(runs) /\ \A i \in Run : SameArchive(runs[i], runs'[i])
  BY DEF SameArchive, TypeOK, Run

\* The run a backup opens is the last one.
LEMMA InsertStep ==
  ASSUME TypeOK, TypeOK', FlagsAreHeld, ArchiveInv, NEW a \in Actor, Inserts(a)
  PROVE  ArchiveInv'
<1> DEFINE r == [policy |-> aim[a], status |-> "running", archive |-> "none"]
<1>1. runs' = Append(runs, r)
  BY DEF Inserts
<1>2. r.archive = "none"
  OBVIOUS
<1> HIDE DEF r
<1>3. /\ Len(runs') = Len(runs) + 1
      /\ Run' = Run \union {Len(runs) + 1}
      /\ runs'[Len(runs) + 1] = r
      /\ \A i \in Run : runs'[i] = runs[i]
  BY <1>1 DEF TypeOK, Run
<1>4. at'[a] = "dumping" /\ mine'[a] = Len(runs) + 1
  BY DEF Inserts, From, Goto, TypeOK
<1>5. \A b \in Actor \ {a} : at'[b] = at[b] /\ at[b] \notin Working
  BY DEF Inserts, From, Goto, TypeOK, FlagsAreHeld, Backing, Working
<1>6. LastRun'
  BY <1>3, <1>4, <1>5 DEF LastRun, Working
<1>7. DoomedAreOlder'
  BY <1>4, <1>5 DEF DoomedAreOlder, Working
<1>8. NewerIsStored'
  <2> SUFFICES ASSUME NEW i \in Run', runs'[i].archive = "removed"
               PROVE  \E j \in Run' : /\ j > i /\ runs'[j].policy = runs'[i].policy
                                      /\ runs'[j].archive = "stored"
    BY DEF NewerIsStored
  <2>1. i \in Run
    BY <1>2, <1>3
  <2>2. PICK j \in Run : /\ j > i /\ runs[j].policy = runs[i].policy
                         /\ runs[j].archive = "stored"
    BY <1>3, <2>1 DEF ArchiveInv, NewerIsStored
  <2>3. QED
    BY <1>3, <2>1, <2>2
<1>9. QED
  BY <1>6, <1>7, <1>8 DEF ArchiveInv

\* It stores its archive before it is recorded.
LEMMA StoreStep ==
  ASSUME TypeOK, TypeOK', FlagsAreHeld, ArchiveInv, NEW a \in Actor, Stores(a)
  PROVE  ArchiveInv'
<1>1. at[a] = "storing" /\ mine[a] = Len(runs) /\ mine[a] \in Run
  BY DEF Stores, From, ArchiveInv, LastRun, Working
<1>2. /\ Len(runs') = Len(runs) /\ Run' = Run
      /\ runs'[mine[a]].archive = "stored" /\ runs'[mine[a]].policy = runs[mine[a]].policy
      /\ \A j \in Run \ {mine[a]} : runs'[j] = runs[j]
  BY <1>1, ArchiveMoves DEF Stores, Set, Run
<1>3. at'[a] = "recording" /\ mine' = mine
  BY DEF Stores, From, Goto, TypeOK
<1>4. \A b \in Actor \ {a} : at'[b] = at[b] /\ at[b] \notin Working
  BY DEF Stores, From, Goto, TypeOK, FlagsAreHeld, Backing, Working
<1>5. LastRun'
  BY <1>1, <1>2, <1>3, <1>4 DEF LastRun, Working
<1>6. DoomedAreOlder'
  BY <1>3, <1>4 DEF DoomedAreOlder, Working
<1>7. NewerIsStored'
  <2> SUFFICES ASSUME NEW i \in Run, runs'[i].archive = "removed"
               PROVE  \E j \in Run : /\ j > i /\ runs'[j].policy = runs'[i].policy
                                     /\ runs'[j].archive = "stored"
    BY <1>2 DEF NewerIsStored
  <2>1. i # mine[a] /\ runs'[i] = runs[i]
    BY <1>2
  <2>2. PICK j \in Run : /\ j > i /\ runs[j].policy = runs[i].policy
                         /\ runs[j].archive = "stored"
    BY <2>1 DEF ArchiveInv, NewerIsStored
  <2>3. QED
    BY <1>2, <2>1, <2>2
<1>8. QED
  BY <1>5, <1>6, <1>7 DEF ArchiveInv

\* Retention chooses among the runs that are not the newest: this one.
LEMMA RecordStep ==
  ASSUME TypeOK, TypeOK', FlagsAreHeld, ArchiveInv, NEW a \in Actor, Records(a)
  PROVE  ArchiveInv'
<1> DEFINE p == runs[mine[a]].policy
           C == {mine[a]} \union Candidates(p)
<1>1. /\ at[a] = "recording" /\ mine[a] = Len(runs) /\ mine[a] \in Run
      /\ mine' = mine /\ doomed' \subseteq Collectable(C)
  BY DEF Records, From, ArchiveInv, LastRun, Working
<1>2. Len(runs') = Len(runs) /\ \A i \in Run : SameArchive(runs[i], runs'[i])
  BY StatusMoves DEF Records
<1>3. at'[a] = "pruning" /\ \A b \in Actor \ {a} : at'[b] = at[b] /\ at[b] \notin Working
  BY DEF Records, From, Goto, TypeOK, FlagsAreHeld, Backing, Working
<1>4. \A i \in doomed' : i \in Run /\ i < mine[a] /\ runs[i].policy = p
  <2>1. C \in SUBSET (1..Len(runs)) /\ Len(runs) \in C /\ Len(runs) \in Nat
    BY <1>1 DEF Candidates, Run, TypeOK
  <2>2. \A i \in Collectable(C) : i \in C /\ i < Len(runs)
    BY <2>1, CollectableIsOlder
  <2>3. QED
    BY <1>1, <2>2 DEF Candidates
<1> HIDE DEF p, C
<1>5. ASSUME NEW b \in Actor
      PROVE  /\ at'[b] = "inserting" => Len(runs) < MaxRuns
             /\ at'[b] \in Working \ {"inserting"} =>
                   at[b] \in Working \ {"inserting"} /\ mine'[b] = mine[b]
             /\ at'[b] \in {"recording", "pruning", "forgetting"} =>
                   at[b] \in {"recording", "pruning", "forgetting"}
             /\ at'[b] \in {"pruning", "forgetting"} => b = a
  BY <1>1, <1>3 DEF Working
<1>6. QED
  BY <1>2, <1>4, <1>5, NothingStored DEF p

\* What is removed has the run being followed after it, and that one is stored.
LEMMA RemoveStep ==
  ASSUME TypeOK, TypeOK', FlagsAreHeld, ArchiveInv,
         NEW a \in Actor, NEW d \in doomed, at[a] = "pruning",
         Goto(a, "forgetting"), runs' = [runs EXCEPT ![d].archive = "removed"],
         UNCHANGED <<doomed, mine>>
  PROVE  ArchiveInv'
<1> DEFINE m == mine[a]
<1>1. /\ m = Len(runs) /\ m \in Run /\ runs[m].archive = "stored"
      /\ d \in Run /\ d < m /\ runs[d].policy = runs[m].policy
  BY DEF ArchiveInv, LastRun, DoomedAreOlder, Working, TypeOK
<1>2. /\ Len(runs') = Len(runs) /\ Run' = Run
      /\ runs'[d].archive = "removed" /\ runs'[d].policy = runs[d].policy
      /\ \A j \in Run \ {d} : runs'[j] = runs[j]
  BY <1>1, ArchiveMoves DEF Run
<1>3. at'[a] = "forgetting" /\ \A b \in Actor \ {a} : at'[b] = at[b] /\ at[b] \notin Working
  BY DEF Goto, TypeOK, FlagsAreHeld, Backing, Working
<1>4. runs'[m] = runs[m] /\ \A j \in Run : runs'[j].policy = runs[j].policy
  BY <1>1, <1>2
<1>5. LastRun'
  BY <1>1, <1>2, <1>3, <1>4 DEF LastRun, Working
<1>6. DoomedAreOlder'
  <2>1. \A i \in doomed : i \in Run /\ i < m /\ runs[i].policy = runs[m].policy
    BY DEF ArchiveInv, DoomedAreOlder, TypeOK
  <2>2. QED
    BY <1>1, <1>3, <1>4, <2>1 DEF DoomedAreOlder, Working
<1>7. NewerIsStored'
  <2> SUFFICES ASSUME NEW i \in Run, runs'[i].archive = "removed"
               PROVE  \E j \in Run : /\ j > i /\ runs'[j].policy = runs'[i].policy
                                     /\ runs'[j].archive = "stored"
    BY <1>2 DEF NewerIsStored
  <2>1. CASE i = d
    BY <1>1, <1>4, <2>1
  <2>2. CASE i # d
    <3>1. PICK j \in Run : /\ j > i /\ runs[j].policy = runs[i].policy
                           /\ runs[j].archive = "stored"
      BY <1>2, <2>2 DEF ArchiveInv, NewerIsStored
    <3>2. CASE j = d
      <4>1. m > i
        BY <1>1, <3>1, <3>2 DEF Run
      <4>2. QED
        BY <1>1, <1>4, <3>1, <3>2, <4>1
    <3>3. CASE j # d
      BY <1>2, <1>4, <3>1, <3>3
    <3>4. QED
      BY <3>2, <3>3
  <2>3. QED
    BY <2>1, <2>2
<1>8. QED
  BY <1>5, <1>6, <1>7 DEF ArchiveInv

\* Every step keeps something stored after whatever was removed.
LEMMA ArchiveStep ==
  ASSUME TypeOK, TypeOK', FlagsAreHeld, ArchiveInv, Next
  PROVE  ArchiveInv'
<1> USE DEF flags, schedule
<1>0. ASSUME NEW a \in Actor, UNCHANGED <<runs, mine, doomed>>, NEW point,
             at' = [at EXCEPT ![a] = point],
             point = "inserting" => Len(runs) < MaxRuns,
             point \in Working \ {"inserting"} => at[a] \in Working \ {"inserting"},
             point \notin {"recording", "pruning", "forgetting"}
      PROVE  ArchiveInv'
  BY <1>0, SameRuns, RunGoesOn
<1>1. ASSUME NEW a \in Actor, Dumps(a)
      PROVE  ArchiveInv'
  BY <1>0, <1>1 DEF Dumps, From, Goto, Working
<1>2. ASSUME NEW a \in Actor, InsertFails(a) \/ Releases(a)
      PROVE  ArchiveInv'
  <2>1. PICK good : Goto(a, Afterwards(a, good))
    BY <1>2, Zenon DEF InsertFails, Releases, From
  <2>2. PICK point \in {"considering", "idle", "writing", "restored"} : Goto(a, point)
    BY <2>1, AfterwardsIsOver, Zenon
  <2>3. \A b \in Actor : at'[b] \in Working \ {"inserting"} => mine'[b] = mine[b]
    BY <1>2, <2>2 DEF InsertFails, Releases, Goto, TypeOK, Working
  <2>4. point \notin Working
    BY <2>2 DEF Working
  <2>5. UNCHANGED <<runs, doomed>>
    BY <1>2 DEF InsertFails, Releases
  <2>6. QED
    BY <2>2, <2>3, <2>4, <2>5, SameRuns, RunGoesOn DEF Goto, Working
<1>3. ASSUME NEW a \in Actor, Throws(a)
      PROVE  ArchiveInv'
  <2>1. /\ at' = [at EXCEPT ![a] = "failing"] /\ at[a] \in Working \ {"inserting"}
        /\ UNCHANGED <<runs, mine>> /\ doomed' \subseteq doomed
    BY <1>3 DEF Throws, Goto, Working
  <2>2. QED
    BY <2>1, SameRuns, RunGoesOn
<1>4. ASSUME NEW a \in Actor, Pruned(a)
      PROVE  ArchiveInv'
  BY <1>0, <1>4 DEF Pruned, From, Goto, Working
<1>5. ASSUME NEW a \in Actor, NEW i \in doomed, Removes(a, i)
      PROVE  ArchiveInv'
  <2>1. CASE doomed' = doomed \ {i} /\ UNCHANGED <<at, runs>>
    <3>1. at' = [at EXCEPT ![a] = "pruning"] /\ UNCHANGED mine /\ at[a] = "pruning"
      BY <1>5, <2>1 DEF Removes, TypeOK
    <3>2. QED
      BY <2>1, <3>1, SameRuns, RunGoesOn DEF Working
  <2>2. CASE Goto(a, "forgetting") /\ runs' = [runs EXCEPT ![i].archive = "removed"]
             /\ UNCHANGED <<doomed, faults>>
    BY <1>5, <2>2, RemoveStep DEF Removes
  <2>3. QED
    BY <1>5, <2>1, <2>2 DEF Removes
<1>6. ASSUME NEW a \in Actor, Forgets(a)
      PROVE  ArchiveInv'
  <2>1. PICK i : runs' = [runs EXCEPT ![i].status = "gone"]
    BY <1>6 DEF Forgets
  <2>2. /\ at' = [at EXCEPT ![a] = "pruning"] /\ at[a] = "forgetting"
        /\ UNCHANGED mine /\ doomed' \subseteq doomed
    BY <1>6 DEF Forgets, From, Goto
  <2>3. QED
    BY <2>1, <2>2, StatusMoves, RunGoesOn DEF Working
<1>7. ASSUME NEW a \in Actor, Fails(a)
      PROVE  ArchiveInv'
  <2>1. /\ at' = [at EXCEPT ![a] = "releasing"] /\ at[a] = "failing"
        /\ UNCHANGED <<mine, doomed>>
    BY <1>7 DEF Fails, From, Goto
  <2>2. CASE runs' = [runs EXCEPT ![mine[a]].status = "failed"]
    BY <2>1, <2>2, StatusMoves, RunGoesOn DEF Working
  <2>3. CASE UNCHANGED runs
    BY <1>0, <2>1, <2>3 DEF Working
  <2>4. QED
    BY <1>7, <2>2, <2>3 DEF Fails, Set
<1>8. ASSUME NEW a \in Actor, BackupStep(a)
      PROVE  ArchiveInv'
  BY <1>1, <1>2, <1>3, <1>4, <1>5, <1>6, <1>7, <1>8, InsertStep, StoreStep, RecordStep
  DEF BackupStep
<1>9. ASSUME UNCHANGED <<runs, at, mine, doomed>>
      PROVE  ArchiveInv'
  BY <1>9 DEF ArchiveInv, LastRun, DoomedAreOlder, NewerIsStored, Run
<1>10. ASSUME NEW a \in Actor, NEW p, Claims(a, p), UNCHANGED <<runs, mine, doomed>>
       PROVE  ArchiveInv'
  BY <1>0, <1>10 DEF Claims, Goto
<1>11. ASSUME NEW t \in Tick, TickStep(t)
       PROVE  ArchiveInv'
  <2>0. t \in Actor
    BY DEF Actor
  <2>1. ASSUME NEW p \in Policy, TickStarts(t, p)
        PROVE  ArchiveInv'
    BY <1>10, <2>0, <2>1 DEF TickStarts
  <2>2. ASSUME NEW p \in Policy, NotDue(t, p) \/ MissedForGood(t, p) \/ TickFindsBusy(t, p)
        PROVE  ArchiveInv'
    BY <1>9, <2>2 DEF NotDue, MissedForGood, TickFindsBusy
  <2>3. CASE TickEnds(t)
    BY <1>0, <2>0, <2>3 DEF TickEnds, From, Goto, Working
  <2>4. QED
    BY <1>11, <2>1, <2>2, <2>3 DEF TickStep
<1>12. ASSUME NEW r \in Restore, RestoreStep(r) \/ RestoreAsked(r)
       PROVE  ArchiveInv'
  <2>0. r \in Actor
    BY DEF Actor
  <2>1. CASE CopiesFirst(r)
    BY <1>10, <2>0, <2>1 DEF CopiesFirst
  <2>2. ASSUME ~CopiesFirst(r)
        PROVE  /\ UNCHANGED <<runs, mine, doomed>>
               /\ \E point \in {"idle", "asked", "preparing", "writing", "restored"} :
                     at' = [at EXCEPT ![r] = point]
    BY <1>12, <2>2 DEF RestoreStep, RestoreAsked, RestoreStarts, RestoreRefused, GivesUp,
                       SkipsCopy, Writes, RestoreEnds, From, Goto
  <2>3. ASSUME ~CopiesFirst(r)
        PROVE  ArchiveInv'
    BY <1>0, <2>0, <2>2, <2>3 DEF Working
  <2>4. QED
    BY <2>1, <2>3
<1>13. ASSUME NEW t \in Tick, TickReads(t)
       PROVE  ArchiveInv'
  BY <1>0, <1>13 DEF TickReads, From, Goto, Working, Actor
<1>14. ASSUME NEW m \in Manual, NEW p \in Policy, ManualStarts(m, p)
       PROVE  ArchiveInv'
  BY <1>10, <1>14 DEF ManualStarts, Actor
<1>15. CASE Clock
  BY <1>9, <1>15 DEF Clock
<1>16. CASE PanelRestart
  <2>1. Len(runs') = Len(runs) /\ \A i \in Run : SameArchive(runs[i], runs'[i])
    <3>1. \A i \in Run : runs[i] \in Row
      BY DEF TypeOK, Run
    <3>2. \A r \in Row : SameArchive(r, [r EXCEPT !.status = "failed"]) /\ SameArchive(r, r)
      BY RowColumns DEF SameArchive
    <3>3. \A i \in Run : SameArchive(runs[i], runs'[i])
      BY <1>16, <3>1, <3>2 DEF PanelRestart
    <3>4. runs' = [i \in Run |-> runs'[i]] /\ \A i \in Run : runs'[i] \in Row
      BY <1>16, <3>3 DEF PanelRestart, SameArchive
    <3>5. QED
      BY <3>3, <3>4, RowsType DEF TypeOK
  <2>2. \A a \in Actor : at'[a] = "idle"
    BY <1>16 DEF PanelRestart
  <2>3. QED
    BY <2>1, <2>2, NothingStored DEF Working
<1>17. QED
  BY <1>8, <1>11, <1>12, <1>13, <1>14, <1>15, <1>16 DEF Next, Step

-----------------------------------------------------------------------------

\* Every step keeps the whole invariant.
LEMMA BackupStepKeeps == BackupInv /\ [Next]_vars => BackupInv'
<1> SUFFICES ASSUME BackupInv, [Next]_vars PROVE BackupInv'
  OBVIOUS
<1>1. CASE Next
  BY <1>1, TypeStep, FlagsStep, ArchiveStep DEF BackupInv, ArchiveInv
<1>2. CASE UNCHANGED vars
  <2> USE <1>2 DEF BackupInv, vars, flags, schedule
  <2>1. TypeOK'
    BY DEF TypeOK, Run
  <2>2. FlagsAreHeld' /\ WritesAlone'
    BY DEF FlagsAreHeld, WritesAlone, Backing
  <2>3. LastRun' /\ DoomedAreOlder' /\ NewerIsStored'
    BY DEF LastRun, DoomedAreOlder, NewerIsStored, Run
  <2>4. QED
    BY <2>1, <2>2, <2>3
<1>3. QED
  BY <1>1, <1>2

\* The invariant of the flags and of the archives.
THEOREM BackupsCorrect == Spec => []BackupInv
<1>1. QED
  BY BackupInit, BackupStepKeeps, PTL DEF Spec

\* A flag is up exactly while somebody works under it: no failure leaves the
\* panel refusing backups or restores.
THEOREM BackupFlagsHeld == Spec => []FlagsAreHeld
<1>1. BackupInv => FlagsAreHeld
  BY DEF BackupInv
<1>2. QED
  BY <1>1, BackupsCorrect, PTL

\* A restore that asked for its safety copy writes with nobody else at work,
\* whenever the backups and the other restores were asked for.
THEOREM SafeRestoresAlone == Spec => []SafeRestoreWritesAlone
<1>1. BackupInv => SafeRestoreWritesAlone
  <2> SUFFICES ASSUME BackupInv, NEW r \in Restore, at[r] = "writing", safe[r],
                      NEW a \in Actor \ {r}
               PROVE  ~Backing(a) /\ at[a] # "writing"
    BY DEF SafeRestoreWritesAlone
  <2>1. ~Backing(a)
    BY BackupsAssumption DEF BackupInv, WritesAlone, FlagsAreHeld
  <2>2. at[a] # "writing"
    BY DEF BackupInv, WritesAlone, FlagsAreHeld
  <2>3. QED
    BY <2>1, <2>2
<1>2. QED
  BY <1>1, BackupsCorrect, PTL

\* The last archive a policy stored is never removed, wherever retention or the
\* run it follows fails or is interrupted.
THEOREM LastArchivesKept == Spec => []LastArchiveKept
<1>1. BackupInv => LastArchiveKept
  <2> SUFFICES ASSUME BackupInv, NEW p \in Policy
               PROVE  LET made == {i \in Run : runs[i].policy = p /\ runs[i].archive # "none"}
                      IN made # {} => runs[Max(made)].archive = "stored"
    BY DEF LastArchiveKept
  <2> DEFINE made == {i \in Run : runs[i].policy = p /\ runs[i].archive # "none"}
  <2> SUFFICES ASSUME made # {} PROVE runs[Max(made)].archive = "stored"
    OBVIOUS
  <2>1. made \in SUBSET (1..Len(runs)) /\ Len(runs) \in Nat
    BY DEF BackupInv, TypeOK, Run
  <2>2. Max(made) \in made /\ \A y \in made : Max(made) >= y
    BY <2>1, MaxIsMax
  <2> DEFINE m == Max(made)
  <2> HIDE DEF m
  <2>3. m \in Run /\ m \in 1..Len(runs) /\ runs[m].policy = p /\ runs[m].archive # "none"
        /\ \A y \in made : m >= y
    BY <2>1, <2>2 DEF m
  <2>4. runs[m].archive # "removed"
    <3> SUFFICES ASSUME runs[m].archive = "removed" PROVE FALSE
      OBVIOUS
    <3>1. PICK j \in Run : j > m /\ runs[j].policy = p /\ runs[j].archive = "stored"
      BY <2>3 DEF BackupInv, NewerIsStored
    <3>2. j \in made /\ j \in 1..Len(runs)
      BY <2>1, <3>1
    <3>3. QED
      BY <2>3, <3>1, <3>2
  <2>5. runs[m] \in Row
    BY <2>3 DEF BackupInv, TypeOK, Run
  <2>6. runs[m].archive = "stored"
    BY <2>3, <2>4, <2>5 DEF Row
  <2>7. QED
    BY <2>6 DEF m
<1>2. QED
  BY <1>1, BackupsCorrect, PTL

-----------------------------------------------------------------------------
(* What a backup does to the containers that write to a volume              *)

\* While a pass runs, a frozen container is ahead of it or will be kept.
PassCovers ==
    InPass => \A c \in Container : state[c] = "paused" => c \in turn \union out \union lost

\* What is being frozen, copied or thawed is in the file, and the loops stay
\* inside it.
PlanIsWritten ==
    panelAt \in {"pausing", "copying", "thawing"} =>
        pausable \subseteq journal /\ turn \subseteq pausable

\* What a thaw lets go of is not frozen, as far as docker would say.
ReleasedIsThawed ==
    panelAt = "thawing" => \A c \in out : state[c] = "paused" => c \in lost

PauseInv == PauseTypeOK /\ PausedIsJournaled /\ PassCovers /\ PlanIsWritten /\ ReleasedIsThawed

-----------------------------------------------------------------------------

\* Every variable holds a value of its type: what is frozen is one of the
\* writers, because the loop goes over no other.
LEMMA PauseTypes == PauseTypeOK /\ PlanIsWritten /\ [PauseNext]_pauseVars => PauseTypeOK'
<1> SUFFICES ASSUME PauseTypeOK, PlanIsWritten, [PauseNext]_pauseVars PROVE PauseTypeOK'
  OBVIOUS
<1> USE PauseAssumption DEF PauseTypeOK, PauseFault, Becomes, Done, Loop, panel
<1>1. CASE Boots \/ BackupBegins \/ PassSkipped \/ PassEnds
  BY <1>1 DEF Boots, BackupBegins, PassSkipped, PassEnds, Abandoned, InPass, PassOver
<1>2. CASE Copying \/ CopyOver \/ Release \/ BackupOver
  BY <1>2 DEF Copying, CopyOver, Release, BackupOver
<1>3. ASSUME NEW c \in Container, Resume(c) PROVE PauseTypeOK'
  BY <1>3 DEF Resume
<1>4. ASSUME NEW c \in Container, Pause(c) PROVE PauseTypeOK'
  <2>1. paused' \subseteq pausable'
    BY <1>4 DEF Pause, PlanIsWritten
  <2> QED BY <1>4, <2>1 DEF Pause
<1>5. ASSUME NEW c \in Container, Thaw(c) PROVE PauseTypeOK'
  BY <1>5 DEF Thaw
<1>6. ASSUME NEW v \in Volume, PlanPause(v) PROVE PauseTypeOK'
  BY <1>6 DEF PlanPause, Recorded
<1>7. ASSUME NEW v \in Volume, CopyLive(v) PROVE PauseTypeOK'
  BY <1>7 DEF CopyLive
<1>8. CASE PanelDies
  BY <1>8 DEF PanelDies
<1>9. ASSUME NEW c \in Container, ContainerStops(c) \/ ContainerStarts(c) PROVE PauseTypeOK'
  BY <1>9 DEF ContainerStops, ContainerStarts
<1>10. CASE UNCHANGED pauseVars
  BY <1>10 DEF pauseVars
<1> QED BY <1>1, <1>2, <1>3, <1>4, <1>5, <1>6, <1>7, <1>8, <1>9, <1>10 DEF PauseNext, PanelStep

\* The writers of a volume are in the file before one of them is frozen, and
\* until the loop that thaws them has been over them all.
LEMMA PlanHolds == PauseTypeOK /\ PlanIsWritten /\ [PauseNext]_pauseVars => PlanIsWritten'
<1> SUFFICES ASSUME PauseTypeOK, PlanIsWritten, [PauseNext]_pauseVars PROVE PlanIsWritten'
  OBVIOUS
<1> USE DEF PauseTypeOK, PlanIsWritten, Done, Loop, panel
<1>1. CASE Boots \/ BackupBegins \/ PassSkipped \/ PassEnds
  BY <1>1 DEF Boots, BackupBegins, PassSkipped, PassEnds, PassOver
<1>2. CASE Copying \/ CopyOver \/ Release \/ BackupOver \/ PanelDies
  BY <1>2 DEF Copying, CopyOver, Release, BackupOver, PanelDies
<1>3. ASSUME NEW c \in Container, Resume(c) \/ Pause(c) \/ Thaw(c) PROVE PlanIsWritten'
  BY <1>3 DEF Resume, Pause, Thaw, InPass
<1>4. ASSUME NEW v \in Volume, PlanPause(v) PROVE PlanIsWritten'
  BY <1>4 DEF PlanPause, Recorded
<1>5. ASSUME NEW v \in Volume, CopyLive(v) PROVE PlanIsWritten'
  BY <1>5 DEF CopyLive
<1>6. ASSUME NEW c \in Container, ContainerStops(c) \/ ContainerStarts(c) PROVE PlanIsWritten'
  BY <1>6 DEF ContainerStops, ContainerStarts
<1>7. CASE UNCHANGED pauseVars
  BY <1>7 DEF pauseVars
<1> QED BY <1>1, <1>2, <1>3, <1>4, <1>5, <1>6, <1>7 DEF PauseNext, PanelStep

\* A container that is frozen after a step was frozen before it, or has just
\* been, by the loop that goes over the writers; and what is known of it as lost
\* stays known for as long as it is frozen.
LEMMA FrozenSince ==
    ASSUME PauseTypeOK, [PauseNext]_pauseVars, NEW c \in Container, state'[c] = "paused"
    PROVE  /\ state[c] = "paused" \/ (panelAt = "pausing" /\ c \in turn)
           /\ c \in lost => c \in lost'
<1> USE DEF PauseTypeOK, Becomes, panel
<1>1. CASE Boots \/ BackupBegins \/ PassSkipped \/ PassEnds \/ Copying \/ CopyOver \/ Release
           \/ BackupOver \/ PanelDies \/ UNCHANGED pauseVars
  BY <1>1 DEF Boots, BackupBegins, PassSkipped, PassEnds, Copying, CopyOver, Release,
         BackupOver, PanelDies, pauseVars
<1>2. ASSUME NEW d \in Container, Resume(d)
      PROVE  state[c] = "paused" /\ (c \in lost => c \in lost')
  BY <1>2 DEF Resume
<1>3. ASSUME NEW d \in Container, Pause(d)
      PROVE  (state[c] = "paused" \/ (panelAt = "pausing" /\ c \in turn)) /\ lost' = lost
  BY <1>3 DEF Pause
<1>4. ASSUME NEW d \in Container, Thaw(d)
      PROVE  state[c] = "paused" /\ (c \in lost => c \in lost')
  BY <1>4 DEF Thaw
<1>5. ASSUME NEW v \in Volume, PlanPause(v) \/ CopyLive(v)
      PROVE  state' = state /\ lost' = lost
  BY <1>5 DEF PlanPause, CopyLive
<1>6. ASSUME NEW d \in Container, ContainerStops(d) \/ ContainerStarts(d)
      PROVE  state[c] = "paused" /\ (c \in lost => c \in lost')
  BY <1>6 DEF ContainerStops, ContainerStarts
<1> QED BY <1>1, <1>2, <1>3, <1>4, <1>5, <1>6 DEF PauseNext, PanelStep

\* A container leaves the file only when a pass or a thaw has been over it, and
\* is then not frozen, or lost.
LEMMA JournalHolds ==
    /\ PauseTypeOK /\ PausedIsJournaled /\ PassCovers /\ PlanIsWritten /\ ReleasedIsThawed
    /\ [PauseNext]_pauseVars
    => PausedIsJournaled'
<1> SUFFICES ASSUME PauseTypeOK, PausedIsJournaled, PassCovers, PlanIsWritten, ReleasedIsThawed,
                    [PauseNext]_pauseVars, NEW c \in Container, state'[c] = "paused"
             PROVE  c \in journal' \/ c \in lost'
  BY DEF PausedIsJournaled
<1>1. c \in journal \/ c \in lost
  BY FrozenSince DEF PausedIsJournaled, PlanIsWritten
<1>2. c \in lost => c \in lost'
  BY FrozenSince
<1>3. CASE PassEnds
  <2>1. state[c] = "paused" /\ lost' = lost /\ journal' = out /\ InPass /\ turn = {}
    BY <1>3 DEF PassEnds
  <2> QED BY <2>1 DEF PassCovers
<1>4. CASE Release
  <2>1. state[c] = "paused" /\ lost' = lost /\ journal' = journal \ out /\ panelAt = "thawing"
    BY <1>4 DEF Release
  <2> QED BY <1>1, <2>1 DEF ReleasedIsThawed
<1>5. CASE ~PassEnds /\ ~Release
  <2>1. journal \subseteq journal'
    BY <1>5 DEF PauseNext, PanelStep, panel, pauseVars, Boots, BackupBegins, PassSkipped,
           Copying, CopyOver, BackupOver, Resume, Pause, Thaw, PlanPause, Recorded, CopyLive,
           PanelDies, ContainerStops, ContainerStarts
  <2> QED BY <1>1, <1>2, <2>1
<1> QED BY <1>3, <1>4, <1>5

\* The pass at boot, or at the start of a backup, keeps sight of everything
\* frozen: what it has passed is running, kept, or lost.
LEMMA PassHolds ==
    PauseTypeOK /\ PausedIsJournaled /\ PassCovers /\ [PauseNext]_pauseVars => PassCovers'
<1> SUFFICES ASSUME PauseTypeOK, PausedIsJournaled, PassCovers, [PauseNext]_pauseVars,
                    InPass', NEW c \in Container, state'[c] = "paused"
             PROVE  c \in turn' \/ c \in out' \/ c \in lost'
  BY DEF PassCovers
<1>1. c \in lost => c \in lost'
  BY FrozenSince
<1>2. CASE Boots \/ BackupBegins
  <2>1. state' = state /\ lost' = lost /\ turn' = journal
    BY <1>2 DEF Boots, BackupBegins, Loop, Abandoned
  <2> QED BY <2>1 DEF PausedIsJournaled
<1>3. ASSUME NEW d \in Container, Resume(d)
      PROVE  c \in turn' \/ c \in out' \/ c \in lost'
  <2>1. state[c] = "paused" /\ (c \in turn \/ c \in out \/ c \in lost)
    BY <1>3, FrozenSince DEF Resume, InPass, PassCovers
  <2>2. c \in out => c \in out'
    BY <1>3 DEF Resume
  <2>3. CASE c # d
    BY <1>1, <1>3, <2>1, <2>2, <2>3 DEF Resume, Done
  <2>4. CASE c = d
    BY <1>3, <2>1, <2>4 DEF Resume, Becomes, PauseTypeOK
  <2> QED BY <2>3, <2>4
<1>4. CASE ~Boots /\ ~BackupBegins /\ ~(\E d \in Container : Resume(d))
  <2>1. InPass /\ turn' = turn /\ out' = out
    BY <1>4 DEF PauseNext, PanelStep, panel, pauseVars, PassSkipped, PassEnds, PassOver, Loop,
           Copying, CopyOver, Release, BackupOver, Pause, Thaw, PlanPause, CopyLive, PanelDies,
           ContainerStops, ContainerStarts, InPass
  <2> QED BY <1>1, <2>1, FrozenSince DEF PassCovers, InPass
<1> QED BY <1>2, <1>3, <1>4

\* A thaw lets go of what it has seen running, or could not ask about.
LEMMA ThawHolds ==
    PauseTypeOK /\ PlanIsWritten /\ ReleasedIsThawed /\ [PauseNext]_pauseVars => ReleasedIsThawed'
<1> SUFFICES ASSUME PauseTypeOK, PlanIsWritten, ReleasedIsThawed, [PauseNext]_pauseVars,
                    panelAt' = "thawing", NEW c \in out', state'[c] = "paused"
             PROVE  c \in lost'
  BY DEF ReleasedIsThawed
<1>1. c \in Container
  BY PauseTypes DEF PauseTypeOK
<1>2. CASE CopyOver
  BY <1>2 DEF CopyOver, Loop
<1>3. ASSUME NEW d \in Container, Thaw(d) PROVE c \in lost'
  <2>1. CASE c \in out
    BY <1>1, <1>3, <2>1, FrozenSince DEF ReleasedIsThawed, Thaw
  <2>2. CASE c \notin out
    BY <1>1, <1>3, <2>2 DEF Thaw, Becomes, PauseTypeOK
  <2> QED BY <2>1, <2>2
<1>4. CASE ~CopyOver /\ ~(\E d \in Container : Thaw(d))
  <2>1. panelAt = "thawing" /\ out' = out
    BY <1>4 DEF PauseNext, PanelStep, panel, pauseVars, Boots, BackupBegins, PassSkipped,
           PassEnds, PassOver, Loop, Copying, Release, BackupOver, Resume, Pause, PlanPause,
           CopyLive, InPass, PanelDies, ContainerStops, ContainerStarts
  <2> QED BY <1>1, <2>1, FrozenSince DEF ReleasedIsThawed
<1> QED BY <1>2, <1>3, <1>4

-----------------------------------------------------------------------------

\* The five hold together from the start, and with every step.
THEOREM PausesCorrect == PauseSpec => []PauseInv
<1>1. PauseInit => PauseInv
  BY PauseAssumption DEF PauseInit, PauseInv, PauseTypeOK, PausedIsJournaled, PassCovers,
         PlanIsWritten, ReleasedIsThawed, InPass
<1>2. PauseInv /\ [PauseNext]_pauseVars => PauseInv'
  BY PauseTypes, JournalHolds, PassHolds, PlanHolds, ThawHolds DEF PauseInv
<1> QED BY <1>1, <1>2, PTL DEF PauseSpec

\* An application the panel froze is in the file that a later boot, or the next
\* backup, thaws it from: whichever docker calls fail, and wherever the panel
\* dies (pause-journal.ts).
THEOREM FrozenIsWritten == PauseSpec => []PausedIsJournaled
<1>1. PauseInv => PausedIsJournaled
  BY DEF PauseInv
<1> QED BY <1>1, PausesCorrect, PTL
================================================================================
