--------------------------- MODULE ProjectPartsProofs ---------------------------
(***************************************************************************)
(* The moves of a checkout, the binds, the poller and the gate for any      *)
(* number of requests, ticks and places, and any bounds; the schedules for  *)
(* any expressions and clocks.                                             *)
(*                                                                         *)
(* None of the first four's properties is inductive: each is about what is  *)
(* at rest, and holds because of what is on its way there.                  *)
(*                                                                         *)
(* Poller.  A commit is deployed once because whatever will be compared     *)
(* with a new head, recorded, read by a tick or answered, is not behind     *)
(* what was deployed (BehindTheLook).                                       *)
(*                                                                         *)
(* Mounts.  A bind is looked for in every place it can come back from: the  *)
(* contract, the copies a deploy or a form holds, what an application would *)
(* restore (BindsAreSeeded).                                                *)
(*                                                                         *)
(* Gate.  While the port is not held by whom the row says, a request that   *)
(* will see to it is under way (HeldOrDue), and goes by the row there is    *)
(* (GoesByTheRow).                                                          *)
(*                                                                         *)
(* Moves.  A whole copy where home leads has every safe write; unless it is *)
(* whole, one outside has them (HomeIsTrusted).  A step of a move keeps     *)
(* this because of where the move would go back to (WayBack) and how far it *)
(* is (HowFar); and while no move is cut short, what it comes from stays    *)
(* whole until home leads to a whole copy again (WholeAllAlong).            *)
(*                                                                         *)
(* Schedules.  The clock first comes to a time at an instant of its own     *)
(* (First), which the code's search and the reference both find, and to a   *)
(* later time no sooner.                                                   *)
(***************************************************************************)
EXTENDS MCProjectParts, WellFoundedInduction, TLAPS

-----------------------------------------------------------------------------
(* The poller *)

\* The commits the poller has asked a deploy for.
Deployed == {c \in Poll!Commit : deploys[c] # 0}

\* While no two checks are under way at once, a commit that was deployed is behind
\* whatever may yet be compared with a new head: the last commit recorded, if there is
\* one, that which the tick read, if it read one, and the head it was answered about;
\* and a commit to be deployed is ahead of the one read.
BehindTheLook ==
    /\ \A a, b \in Poll!Asker : at[a] # "idle" /\ at[b] # "idle" => a = b
    /\ \A c \in Deployed : deploys[c] = 1 /\ c <= head /\ (pollSha = 0 \/ c <= pollSha)
    /\ \A t \in Tick : at[t] # "idle" => read[t] = 0 \/ \A c \in Deployed : c <= read[t]
    /\ \A a \in Poll!Asker : at[a] \in {"hearing", "storing", "queueing"} =>
          \A c \in Deployed : c <= answer[a]
    /\ \A t \in Tick : at[t] \in {"hearing", "storing", "queueing"} => read[t] <= answer[t]
    /\ \A a \in Poll!Asker : at[a] = "queueing" =>
          /\ a \in Tick /\ read[a] # 0 /\ read[a] < answer[a]
          /\ pollSha \in {0, answer[a]}

\* Nothing is known of a branch beyond its head.
SeenUpToHead ==
    /\ pollSha <= head
    /\ \A t \in Tick : read[t] <= head
    /\ \A a \in Poll!Asker : answer[a] <= head

PollInv == Poll!TypeOK /\ SeenUpToHead /\ (~crossed => BehindTheLook)

\* Every variable of the poller holds a value of its type.
LEMMA PollTypes ==
    ASSUME Poll!PollAssumption, Poll!TypeOK, [Poll!Next]_(Poll!vars)
    PROVE  Poll!TypeOK'
<1>1. Tick \subseteq Poll!Asker /\ Primer \subseteq Poll!Asker
  BY DEF Poll!Asker
<1>2. /\ 0 \in Poll!Seen /\ (head < MaxCommit => head + 1 \in Poll!Seen \ {0})
      /\ edits < MaxEdits => edits + 1 \in 0..MaxEdits
      /\ pollFaults < PollFaults => pollFaults + 1 \in 0..PollFaults
  BY DEF Poll!PollAssumption, Poll!TypeOK, Poll!Seen
<1>3. ASSUME NEW t \in Tick, Poll!Queues(t) PROVE deploys' \in [Poll!Commit -> Nat]
  <2>1. deploys \in [Poll!Commit -> Nat] /\ deploys' = [deploys EXCEPT ![answer[t]] = @ + 1]
    BY <1>3 DEF Poll!Queues, Poll!TypeOK
  <2>2. answer[t] \in Poll!Commit => deploys[answer[t]] + 1 \in Nat
    BY <2>1
  <2> QED BY <2>1, <2>2
<1> USE DEF Poll!TypeOK, Poll!row, Poll!asked, Poll!history, Poll!From, Poll!Goto, Poll!Fault
<1>4. ASSUME NEW t \in Tick,
             Poll!TickReads(t) \/ Poll!TickPasses(t) \/ Poll!Queues(t)
      PROVE  Poll!TypeOK'
  BY <1>1, <1>2, <1>3, <1>4 DEF Poll!TickReads, Poll!TickPasses, Poll!Queues, Poll!Crosses
<1>5. ASSUME NEW t \in Tick, Poll!StoresNothing(t) \/ Poll!Stores(t) PROVE Poll!TypeOK'
  BY <1>1, <1>2, <1>5 DEF Poll!StoresNothing, Poll!Stores, Poll!IsNews, Poll!Looks
<1>6. ASSUME NEW p \in Primer, Poll!Follow(p) \/ Poll!Primes(p) PROVE Poll!TypeOK'
  <2>1. CASE Poll!Follow(p)
    BY <1>1, <1>2, <2>1 DEF Poll!Follow, Poll!Crosses
  <2>2. CASE Poll!Primes(p)
    <3>1. CASE modified[p]
      BY <1>1, <2>2, <3>1 DEF Poll!Primes
    <3>2. CASE ~modified[p]
      BY <1>1, <2>2, <3>2 DEF Poll!Primes
    <3> QED BY <3>1, <3>2
  <2> QED BY <1>6, <2>1, <2>2
<1>7. ASSUME NEW a \in Poll!Asker, Poll!Asks(a) PROVE Poll!TypeOK'
  <2>1. (etag # head) \in BOOLEAN
    OBVIOUS
  <2> QED BY <1>7, <2>1 DEF Poll!Asks
<1>8. ASSUME NEW a \in Poll!Asker, Poll!Hears(a) PROVE Poll!TypeOK'
  BY <1>8 DEF Poll!Hears
<1>9. ASSUME NEW a \in Poll!Asker, Poll!AskFails(a) PROVE Poll!TypeOK'
  BY <1>2, <1>9 DEF Poll!AskFails
<1>10. ASSUME NEW a \in Poll!Asker, Poll!StoreFails(a) PROVE Poll!TypeOK'
  BY <1>2, <1>10 DEF Poll!StoreFails
<1>11. CASE Poll!Pin \/ Poll!Release \/ Poll!Unfollow
  BY <1>2, <1>11 DEF Poll!Pin, Poll!Release, Poll!Unfollow, Poll!Edit
<1>12. CASE Poll!SwitchBranch \/ Poll!Push
  BY <1>2, <1>12 DEF Poll!SwitchBranch, Poll!Push, Poll!Edit
<1>13. CASE Poll!PanelRestart
  BY <1>2, <1>13 DEF Poll!PanelRestart
<1>14. CASE UNCHANGED Poll!vars
  BY <1>14 DEF Poll!vars
<1> QED BY <1>4, <1>5, <1>6, <1>7, <1>8, <1>9, <1>10, <1>11, <1>12, <1>13, <1>14 DEF Poll!Next

\* The head only goes forward, and what is recorded of it is what was answered.
LEMMA PollSeen ==
    ASSUME Poll!PollAssumption, Poll!TypeOK, SeenUpToHead, [Poll!Next]_(Poll!vars)
    PROVE  SeenUpToHead'
<1> USE DEF SeenUpToHead, Poll!row, Poll!asked, Poll!history, Poll!From, Poll!Goto
<1>1. Tick \subseteq Poll!Asker /\ Primer \subseteq Poll!Asker
  BY DEF Poll!Asker
<1>2. /\ head \in Nat /\ pollSha \in Nat
      /\ \A t \in Tick : read[t] \in Nat
      /\ \A a \in Poll!Asker : answer[a] \in Nat
      /\ read \in [Tick -> Poll!Seen] /\ answer \in [Poll!Asker -> Poll!Seen]
  BY DEF Poll!PollAssumption, Poll!TypeOK, Poll!Seen
<1>3. ASSUME NEW t \in Tick,
             \/ Poll!TickReads(t) \/ Poll!TickPasses(t) \/ Poll!StoresNothing(t)
             \/ Poll!Stores(t) \/ Poll!Queues(t)
      PROVE  SeenUpToHead'
  BY <1>1, <1>2, <1>3 DEF Poll!TickReads, Poll!TickPasses, Poll!StoresNothing, Poll!Stores,
                          Poll!Queues
<1>4. ASSUME NEW p \in Primer, Poll!Follow(p) \/ Poll!Primes(p) PROVE SeenUpToHead'
  BY <1>1, <1>2, <1>4 DEF Poll!Follow, Poll!Primes
<1>5. ASSUME NEW a \in Poll!Asker,
             Poll!Asks(a) \/ Poll!AskFails(a) \/ Poll!Hears(a) \/ Poll!StoreFails(a)
      PROVE  SeenUpToHead'
  BY <1>2, <1>5 DEF Poll!Asks, Poll!AskFails, Poll!Hears, Poll!StoreFails
<1>6. CASE \/ Poll!Pin \/ Poll!Release \/ Poll!Unfollow \/ Poll!SwitchBranch \/ Poll!Push
           \/ Poll!PanelRestart \/ UNCHANGED Poll!vars
  BY <1>2, <1>6 DEF Poll!Pin, Poll!Release, Poll!Unfollow, Poll!SwitchBranch, Poll!Push,
                    Poll!PanelRestart, Poll!Edit, Poll!vars
<1> QED BY <1>3, <1>4, <1>5, <1>6 DEF Poll!Next

\* A step of one check, while there is no other, leaves what was deployed behind it.
LEMMA PollBehind ==
    ASSUME Poll!PollAssumption, Poll!TypeOK, SeenUpToHead, ~crossed => BehindTheLook,
           [Poll!Next]_(Poll!vars), ~crossed'
    PROVE  BehindTheLook'
<1> USE DEF Poll!row, Poll!asked, Poll!history, Poll!From, Poll!Goto
<1>1. Tick \subseteq Poll!Asker /\ Primer \subseteq Poll!Asker /\ Tick \cap Primer = {}
  BY DEF Poll!Asker, Poll!PollAssumption
<1>2. /\ head \in Nat /\ pollSha \in Nat /\ head > 0
      /\ \A t \in Tick : read[t] \in Nat
      /\ \A a \in Poll!Asker : answer[a] \in Nat
      /\ \A c \in Deployed : c \in Nat /\ c \in Poll!Commit
      /\ at \in [Poll!Asker -> {"idle", "asking", "hearing", "storing", "queueing"}]
      /\ read \in [Tick -> Poll!Seen] /\ answer \in [Poll!Asker -> Poll!Seen]
  BY DEF Poll!PollAssumption, Poll!TypeOK, Poll!Seen, Poll!Commit, Deployed
<1>3. ASSUME NEW t \in Tick, Poll!TickReads(t) PROVE BehindTheLook'
  BY <1>1, <1>2, <1>3 DEF Poll!TickReads, Poll!Crosses, BehindTheLook, Deployed
<1>4. ASSUME NEW t \in Tick, Poll!TickPasses(t) \/ Poll!StoresNothing(t) PROVE BehindTheLook'
  BY <1>1, <1>2, <1>4 DEF Poll!TickPasses, Poll!StoresNothing, BehindTheLook, Deployed
<1>5. ASSUME NEW t \in Tick, Poll!Stores(t) PROVE BehindTheLook'
  BY <1>1, <1>2, <1>5 DEF Poll!Stores, Poll!IsNews, BehindTheLook, Deployed
<1>6. ASSUME NEW t \in Tick, Poll!Queues(t) PROVE BehindTheLook'
  <2>1. /\ BehindTheLook /\ at[t] = "queueing" /\ at' = [at EXCEPT ![t] = "idle"]
        /\ deploys' = [deploys EXCEPT ![answer[t]] = @ + 1]
        /\ UNCHANGED <<head, pollSha, read, answer>>
    BY <1>6 DEF Poll!Queues
  <2>2. \A a \in Poll!Asker : at'[a] = "idle"
    BY <1>1, <1>2, <2>1 DEF BehindTheLook
  <2>3. /\ answer[t] \in Poll!Commit /\ answer[t] \notin Deployed
        /\ answer[t] <= head /\ pollSha \in {0, answer[t]}
    BY <1>1, <1>2, <2>1 DEF BehindTheLook, Poll!TypeOK, Poll!Seen, Poll!Commit, SeenUpToHead
  <2>4. deploys'[answer[t]] = 1 /\ Deployed' = Deployed \cup {answer[t]}
    BY <2>1, <2>3 DEF Deployed, Poll!TypeOK
  <2>5. \A c \in Deployed : c # answer[t] /\ deploys'[c] = deploys[c]
    BY <2>1, <2>3 DEF Deployed, Poll!TypeOK
  <2> QED BY <1>1, <1>2, <2>1, <2>2, <2>3, <2>4, <2>5 DEF BehindTheLook
<1>7. ASSUME NEW p \in Primer, Poll!Follow(p) PROVE BehindTheLook'
  BY <1>1, <1>2, <1>7 DEF Poll!Follow, Poll!Crosses, BehindTheLook, Deployed
<1>8. ASSUME NEW p \in Primer, Poll!Primes(p) PROVE BehindTheLook'
  BY <1>1, <1>2, <1>8 DEF Poll!Primes, BehindTheLook, Deployed
<1>9. ASSUME NEW a \in Poll!Asker, Poll!Asks(a) PROVE BehindTheLook'
  BY <1>1, <1>2, <1>9 DEF Poll!Asks, BehindTheLook, Deployed, SeenUpToHead
<1>10. ASSUME NEW a \in Poll!Asker, Poll!AskFails(a) \/ Poll!Hears(a) \/ Poll!StoreFails(a)
       PROVE  BehindTheLook'
  BY <1>1, <1>2, <1>10 DEF Poll!AskFails, Poll!Hears, Poll!StoreFails, BehindTheLook, Deployed
<1>11. CASE Poll!Pin \/ Poll!Release \/ Poll!Unfollow \/ Poll!SwitchBranch \/ Poll!Push
  BY <1>1, <1>2, <1>11 DEF Poll!Pin, Poll!Release, Poll!Unfollow, Poll!SwitchBranch, Poll!Push,
                           Poll!Edit, BehindTheLook, Deployed
<1>12. CASE Poll!PanelRestart
  BY <1>1, <1>2, <1>12 DEF Poll!PanelRestart, BehindTheLook, Deployed
<1>13. CASE UNCHANGED Poll!vars
  BY <1>13 DEF Poll!vars, BehindTheLook, Deployed
<1> QED BY <1>3, <1>4, <1>5, <1>6, <1>7, <1>8, <1>9, <1>10, <1>11, <1>12, <1>13 DEF Poll!Next

\* The poller's invariant holds from the start, and with every step.
LEMMA PollInit == Poll!PollAssumption /\ Poll!Init => PollInv
<1> SUFFICES ASSUME Poll!PollAssumption, Poll!Init PROVE PollInv
  OBVIOUS
<1>1. Tick \subseteq Poll!Asker /\ 0 \in Poll!Seen /\ 1 \in Poll!Seen
  BY DEF Poll!PollAssumption, Poll!Asker, Poll!Seen
<1>2. Poll!TypeOK
  <2>1. {head, pollSha, etag, looked} \subseteq Poll!Seen /\ head # 0
    BY <1>1 DEF Poll!Init
  <2>2. {follows, pinned, skipped, crossed} \subseteq BOOLEAN
    BY DEF Poll!Init
  <2>3. /\ at \in [Poll!Asker -> {"idle", "asking", "hearing", "storing", "queueing"}]
        /\ modified \in [Poll!Asker -> BOOLEAN]
    BY DEF Poll!Init
  <2>4. read \in [Tick -> Poll!Seen] /\ answer \in [Poll!Asker -> Poll!Seen]
    BY <1>1 DEF Poll!Init
  <2>5. deploys \in [Poll!Commit -> Nat]
    BY DEF Poll!Init
  <2>6. edits \in 0..MaxEdits /\ pollFaults \in 0..PollFaults
    BY DEF Poll!PollAssumption, Poll!Init
  <2> QED BY <2>1, <2>2, <2>3, <2>4, <2>5, <2>6 DEF Poll!TypeOK
<1>3. SeenUpToHead /\ BehindTheLook
  BY <1>1 DEF Poll!Init, SeenUpToHead, BehindTheLook, Deployed
<1> QED BY <1>2, <1>3 DEF PollInv

\* Every step of the poller keeps its invariant.
LEMMA PollStep == Poll!PollAssumption /\ PollInv /\ [Poll!Next]_(Poll!vars) => PollInv'
  BY PollTypes, PollSeen, PollBehind DEF PollInv

-----------------------------------------------------------------------------
(* The mounts *)

\* One application is under way at a time.
AppliedAlone ==
    \A a, b \in Apply :
        apply[a].at \notin {"idle", "over"} /\ apply[b].at \notin {"idle", "over"} => a = b

\* A bind that is stored, deployed, being deployed, running, in an open form, or to be
\* put back, is over a directory that was filled.
BindsAreSeeded ==
    (\/ stored.bind \/ deployed = TRUE \/ building = TRUE \/ box = TRUE \/ TRUE \in shown
     \/ \E a \in Apply : apply[a].at \notin {"idle", "over"} /\ apply[a].base.bind)
    => folder = "whole"

\* An application fills the directory it found empty, and lists a bind once it is
\* filled.
SeedsBeforeListing ==
    \A a \in Apply :
        /\ apply[a].at = "accepted" /\ apply[a].seed => folder = "empty"
        /\ apply[a].at = "accepted" /\ ~apply[a].seed /\ apply[a].want => folder = "whole"
        /\ apply[a].at = "seeding" => folder = "empty"
        /\ apply[a].at = "listing" /\ apply[a].want => folder = "whole"

MountsInv ==
    /\ Mounts!TypeOK
    /\ ~adopted /\ ~appliesOverlapped => AppliedAlone /\ BindsAreSeeded /\ SeedsBeforeListing

\* An application that moves is still one, and the others are as they were.
LEMMA ApplyMoves ==
    ASSUME Mounts!TypeOK, NEW a \in Apply, NEW step \in Mounts!Steps, Mounts!To(a, step)
    PROVE  /\ apply' \in [Apply -> Mounts!Application]
           /\ apply'[a] = [apply[a] EXCEPT !.at = step]
           /\ \A b \in Apply \ {a} : apply'[b] = apply[b]
  BY DEF Mounts!To, Mounts!TypeOK, Mounts!Application

\* Every variable of the mounts holds a value of its type.
LEMMA MountsTypes ==
    ASSUME Mounts!MountsAssumption, Mounts!TypeOK, [Mounts!Next]_(Mounts!vars)
    PROVE  Mounts!TypeOK'
<1>1. /\ saves < MaxSaves => saves + 1 \in 0..MaxSaves
      /\ applyFaults < ApplyFaults => applyFaults + 1 \in 0..ApplyFaults
  BY DEF Mounts!MountsAssumption, Mounts!TypeOK
<1>2. \A a \in Apply : apply[a] \in Mounts!Application
  BY DEF Mounts!TypeOK
<1>3. ASSUME NEW a \in Apply, NEW want \in BOOLEAN, Mounts!Asks(a, want) PROVE Mounts!TypeOK'
  <2>1. apply' \in [Apply -> Mounts!Application]
    BY <1>2, <1>3 DEF Mounts!Asks, Mounts!TypeOK, Mounts!Application, Mounts!Steps
  <2>2. appliesOverlapped' \in BOOLEAN
    BY <1>3 DEF Mounts!Asks, Mounts!TypeOK
  <2> QED BY <1>3, <2>1, <2>2 DEF Mounts!Asks, Mounts!TypeOK
<1>4. ASSUME NEW a \in Apply, NEW adopt \in BOOLEAN, Mounts!Probes(a, adopt) PROVE Mounts!TypeOK'
  <2>1. apply' \in [Apply -> Mounts!Application]
    BY <1>2, <1>4 DEF Mounts!Probes, Mounts!To, Mounts!TypeOK, Mounts!Application, Mounts!Steps
  <2>2. adopted' \in BOOLEAN
    BY <1>4 DEF Mounts!Probes, Mounts!TypeOK
  <2> QED BY <1>4, <2>1, <2>2 DEF Mounts!Probes, Mounts!TypeOK
<1>5. ASSUME NEW a \in Apply, Mounts!Journals(a) PROVE Mounts!TypeOK'
  BY <1>5, ApplyMoves DEF Mounts!Journals, Mounts!Steps, Mounts!TypeOK
<1>6. ASSUME NEW a \in Apply, Mounts!Seeds(a) \/ Mounts!Copies(a) PROVE Mounts!TypeOK'
  BY <1>6, ApplyMoves DEF Mounts!Seeds, Mounts!Copies, Mounts!Steps, Mounts!TypeOK
<1>7. ASSUME NEW a \in Apply, Mounts!Lists(a) \/ Mounts!Unlists(a) PROVE Mounts!TypeOK'
  <2>1. stored' \in Mounts!Contract /\ shown' \subseteq BOOLEAN
    BY <1>2, <1>7 DEF Mounts!Lists, Mounts!Unlists, Mounts!Write, Mounts!Application,
                      Mounts!Contract, Mounts!TypeOK
  <2>2. apply' \in [Apply -> Mounts!Application] /\ mountApply' \in BOOLEAN
    BY <1>7, ApplyMoves DEF Mounts!Lists, Mounts!Unlists, Mounts!Steps, Mounts!TypeOK
  <2> QED BY <1>7, <2>1, <2>2 DEF Mounts!Lists, Mounts!Unlists, Mounts!TypeOK
<1>8. ASSUME NEW a \in Apply, Mounts!Restarts(a) \/ Mounts!Revives(a) PROVE Mounts!TypeOK'
  <2>1. box' \in BOOLEAN \cup {None}
    BY <1>8 DEF Mounts!Restarts, Mounts!Revives, Mounts!Restart, Mounts!TypeOK
  <2>2. apply' \in [Apply -> Mounts!Application]
    BY <1>8, ApplyMoves DEF Mounts!Restarts, Mounts!Revives, Mounts!Steps
  <2> QED BY <1>8, <2>1, <2>2 DEF Mounts!Restarts, Mounts!Revives, Mounts!TypeOK
<1>9. ASSUME NEW a \in Apply, Mounts!Closes(a) \/ Mounts!Undoes(a) PROVE Mounts!TypeOK'
  BY <1>9, ApplyMoves DEF Mounts!Closes, Mounts!Undoes, Mounts!Steps, Mounts!TypeOK
<1>10. ASSUME NEW a \in Apply, Mounts!Throws(a) \/ Mounts!UndoFails(a) PROVE Mounts!TypeOK'
  <2>1. box' \in BOOLEAN \cup {None} /\ applyInFlight' \in BOOLEAN
    BY <1>10 DEF Mounts!Throws, Mounts!UndoFails, Mounts!TypeOK
  <2>2. apply' \in [Apply -> Mounts!Application]
    BY <1>10, ApplyMoves DEF Mounts!Throws, Mounts!UndoFails, Mounts!Steps
  <2> QED BY <1>1, <1>10, <2>1, <2>2 DEF Mounts!Throws, Mounts!UndoFails, Mounts!Fault,
         Mounts!TypeOK
<1>11. ASSUME NEW bind \in BOOLEAN, Mounts!Saves(bind) PROVE Mounts!TypeOK'
  BY <1>1, <1>11 DEF Mounts!Saves, Mounts!Contract, Mounts!TypeOK
<1>12. CASE Mounts!OperatorRestarts
  BY <1>12 DEF Mounts!OperatorRestarts, Mounts!Restart, Mounts!TypeOK
<1>13. CASE Mounts!DeployReads
  BY <1>13 DEF Mounts!DeployReads, Mounts!Contract, Mounts!TypeOK
<1>14. CASE Mounts!DeployStarts \/ Mounts!DeployEnds
  BY <1>1, <1>14 DEF Mounts!DeployStarts, Mounts!DeployEnds, Mounts!Fault, Mounts!TypeOK
<1>15. CASE Mounts!Dies
  <2>1. apply' \in [Apply -> Mounts!Application]
    BY <1>2, <1>15 DEF Mounts!Dies, Mounts!Application, Mounts!Steps, Mounts!Idle,
                       Mounts!Nowhere, Mounts!Contract, Mounts!MountsAssumption
  <2> QED BY <1>1, <1>15, <2>1 DEF Mounts!Dies, Mounts!Fault, Mounts!TypeOK
<1>16. CASE UNCHANGED Mounts!vars
  BY <1>16 DEF Mounts!vars, Mounts!TypeOK
<1> QED
  BY <1>3, <1>4, <1>5, <1>6, <1>7, <1>8, <1>9, <1>10, <1>11, <1>12, <1>13, <1>14, <1>15, <1>16
  DEF Mounts!Next, Mounts!ApplyStep

\* An application that only moves on, to a step where it neither fills nor lists,
\* keeps the directories filled.
LEMMA MovesOn ==
    ASSUME Mounts!MountsAssumption, Mounts!TypeOK, AppliedAlone, BindsAreSeeded, SeedsBeforeListing,
           NEW a \in Apply, apply[a].at \notin {"idle", "over"},
           NEW step \in Mounts!Steps \ {"accepted", "seeding", "listing"}, Mounts!To(a, step),
           UNCHANGED <<stored, deployed, building, folder, shown>>,
           box' \in {box, deployed, None}
    PROVE  AppliedAlone' /\ BindsAreSeeded' /\ SeedsBeforeListing'
<1>1. /\ apply'[a].at = step /\ apply'[a].base = apply[a].base
      /\ \A b \in Apply \ {a} : apply'[b] = apply[b]
  <2>1. apply[a] \in Mounts!Application /\ step \in Mounts!Steps
    BY DEF Mounts!TypeOK
  <2>2. /\ apply'[a] = [apply[a] EXCEPT !.at = step]
        /\ \A b \in Apply \ {a} : apply'[b] = apply[b]
    BY <2>1, ApplyMoves
  <2>3. apply'[a].at = step /\ apply'[a].base = apply[a].base
    BY <2>1, <2>2 DEF Mounts!Application
  <2> QED BY <2>2, <2>3
<1>2. AppliedAlone'
  BY <1>1 DEF AppliedAlone
<1>3. BindsAreSeeded'
  <2>1. SUFFICES ASSUME folder # "whole" PROVE ~BindsAreSeeded \/ BindsAreSeeded'
    BY DEF BindsAreSeeded
  <2>2. /\ ~stored.bind /\ ~(deployed = TRUE) /\ ~(building = TRUE) /\ ~(box = TRUE)
        /\ TRUE \notin shown
        /\ \A b \in Apply : apply[b].at \notin {"idle", "over"} => ~apply[b].base.bind
    BY <2>1 DEF BindsAreSeeded
  <2>3. \A b \in Apply : apply'[b].at \notin {"idle", "over"} => ~apply'[b].base.bind
    BY <1>1, <2>2
  <2>4. ~(box' = TRUE)
    BY <2>2 DEF Mounts!MountsAssumption
  <2> QED BY <2>2, <2>3, <2>4 DEF BindsAreSeeded
<1>4. SeedsBeforeListing'
  BY <1>1 DEF SeedsBeforeListing
<1> QED BY <1>2, <1>3, <1>4

\* A step that takes a bind on, or empties the directory, finds it filled, or in
\* nobody's use.
LEMMA MountsSeeded ==
    ASSUME Mounts!MountsAssumption, MountsInv, [Mounts!Next]_(Mounts!vars),
           ~adopted', ~appliesOverlapped'
    PROVE  AppliedAlone' /\ BindsAreSeeded' /\ SeedsBeforeListing'
<1> DEFINE Goal == AppliedAlone' /\ BindsAreSeeded' /\ SeedsBeforeListing'
<1> USE DEF Mounts!At
<1>1. /\ \A a \in Apply : apply[a] \in Mounts!Application
      /\ apply \in [Apply -> Mounts!Application]
      /\ stored \in Mounts!Contract /\ None \notin BOOLEAN /\ Mounts!TypeOK
  BY DEF MountsInv, Mounts!TypeOK, Mounts!MountsAssumption
<1>2. ASSUME ~adopted, ~appliesOverlapped PROVE AppliedAlone /\ BindsAreSeeded /\ SeedsBeforeListing
  BY <1>2 DEF MountsInv
<1>3. ASSUME NEW a \in Apply, NEW want \in BOOLEAN, Mounts!Asks(a, want) PROVE Goal
  BY <1>1, <1>2, <1>3 DEF Mounts!Asks, Mounts!Underway, Mounts!Application, AppliedAlone,
                          BindsAreSeeded, SeedsBeforeListing
<1>4. ASSUME NEW a \in Apply, NEW adopt \in BOOLEAN, Mounts!Probes(a, adopt) PROVE Goal
  <2>1. /\ apply[a].at = "probing" /\ ~adopted /\ ~appliesOverlapped
        /\ UNCHANGED <<stored, deployed, building, box, folder, shown>>
    <3>1. apply[a].at = "probing" /\ UNCHANGED appliesOverlapped
      BY <1>4 DEF Mounts!Probes
    <3>2. ~adopted
      BY <1>4 DEF Mounts!Probes
    <3>3. UNCHANGED <<stored, deployed, building, box, folder, shown>>
      BY <1>4 DEF Mounts!Probes
    <3> QED BY <3>1, <3>2, <3>3
  <2>2. AppliedAlone /\ BindsAreSeeded /\ SeedsBeforeListing
    BY <1>2, <2>1
  <2>3. CASE folder = "empty"
    <3>1. /\ apply'[a].at = "accepted" /\ apply'[a].seed /\ apply'[a].base = apply[a].base
          /\ \A b \in Apply \ {a} : apply'[b] = apply[b]
      BY <1>1, <1>4, <2>3 DEF Mounts!Probes, Mounts!Application
    <3>2. AppliedAlone'
      BY <2>1, <2>2, <3>1 DEF AppliedAlone
    <3>3. \A b \in Apply : apply[b].at \notin {"idle", "over"} => ~apply[b].base.bind
      BY <2>2, <2>3 DEF BindsAreSeeded
    <3>4. BindsAreSeeded'
      BY <2>1, <2>2, <2>3, <3>1, <3>3 DEF BindsAreSeeded
    <3>5. SeedsBeforeListing'
      BY <2>1, <2>2, <2>3, <3>1 DEF SeedsBeforeListing
    <3> QED BY <3>2, <3>4, <3>5
  <2>4. CASE folder # "empty"
    <3>1. Mounts!To(a, "over")
      BY <1>4, <2>1, <2>4 DEF Mounts!Probes
    <3> QED BY <1>1, <2>1, <2>2, <3>1, MovesOn DEF Mounts!Steps
  <2> QED BY <2>3, <2>4
<1>5. ASSUME NEW a \in Apply, Mounts!Journals(a) PROVE Goal
  BY <1>1, <1>2, <1>5 DEF Mounts!Journals, Mounts!To, Mounts!Application, AppliedAlone,
                          BindsAreSeeded, SeedsBeforeListing
<1>6. ASSUME NEW a \in Apply, Mounts!Seeds(a) PROVE Goal
  BY <1>1, <1>2, <1>6 DEF Mounts!Seeds, Mounts!To, Mounts!Application, AppliedAlone,
                          BindsAreSeeded, SeedsBeforeListing
<1>7. ASSUME NEW a \in Apply, Mounts!Copies(a) PROVE Goal
  BY <1>1, <1>2, <1>7 DEF Mounts!Copies, Mounts!To, Mounts!Application, AppliedAlone,
                          BindsAreSeeded, SeedsBeforeListing
<1>8. ASSUME NEW a \in Apply, Mounts!Lists(a) PROVE Goal
  BY <1>1, <1>2, <1>8 DEF Mounts!Lists, Mounts!Write, Mounts!To, Mounts!Application,
                          Mounts!Contract, AppliedAlone, BindsAreSeeded, SeedsBeforeListing
<1>9. ASSUME NEW a \in Apply, Mounts!Unlists(a) PROVE Goal
  BY <1>1, <1>2, <1>9 DEF Mounts!Unlists, Mounts!Write, Mounts!To, Mounts!Application,
                          Mounts!Contract, AppliedAlone, BindsAreSeeded, SeedsBeforeListing
<1>10. ASSUME NEW a \in Apply,
              \/ Mounts!Restarts(a) \/ Mounts!Revives(a) \/ Mounts!Closes(a) \/ Mounts!Undoes(a)
              \/ Mounts!Throws(a) \/ Mounts!UndoFails(a)
       PROVE  Goal
  <2>1. PICK step \in {"closing", "failing", "over", "unlisting", "undoing"} : Mounts!To(a, step)
    BY <1>10 DEF Mounts!Restarts, Mounts!Revives, Mounts!Closes, Mounts!Undoes, Mounts!Throws,
                 Mounts!UndoFails
  <2>2. /\ ~adopted /\ ~appliesOverlapped /\ apply[a].at \notin {"idle", "over"}
        /\ UNCHANGED <<stored, deployed, building, folder, shown>>
    BY <1>10 DEF Mounts!Restarts, Mounts!Revives, Mounts!Closes, Mounts!Undoes, Mounts!Throws,
                 Mounts!UndoFails
  <2>3. box' \in {box, deployed, None}
    BY <1>10 DEF Mounts!Restarts, Mounts!Revives, Mounts!Closes, Mounts!Undoes, Mounts!Throws,
                 Mounts!UndoFails, Mounts!Restart
  <2>4. AppliedAlone /\ BindsAreSeeded /\ SeedsBeforeListing
    BY <1>2, <2>2
  <2> QED BY <1>1, <2>1, <2>2, <2>3, <2>4, MovesOn DEF Mounts!Steps
<1>11. ASSUME NEW bind \in BOOLEAN, Mounts!Saves(bind) PROVE Goal
  BY <1>1, <1>2, <1>11 DEF Mounts!Saves, AppliedAlone, BindsAreSeeded, SeedsBeforeListing
<1>12. CASE Mounts!OperatorRestarts
  BY <1>1, <1>2, <1>12 DEF Mounts!OperatorRestarts, Mounts!Restart, AppliedAlone,
                           BindsAreSeeded, SeedsBeforeListing
<1>13. CASE Mounts!DeployReads \/ Mounts!DeployStarts \/ Mounts!DeployEnds
  BY <1>1, <1>2, <1>13 DEF Mounts!DeployReads, Mounts!DeployStarts, Mounts!DeployEnds,
                           AppliedAlone, BindsAreSeeded, SeedsBeforeListing
<1>14. CASE Mounts!Dies
  BY <1>1, <1>2, <1>14 DEF Mounts!Dies, Mounts!Idle, Mounts!Nowhere, Mounts!Application,
                           AppliedAlone, BindsAreSeeded, SeedsBeforeListing
<1>15. CASE UNCHANGED Mounts!vars
  BY <1>2, <1>15 DEF Mounts!vars, AppliedAlone, BindsAreSeeded, SeedsBeforeListing
<1> QED
  BY <1>3, <1>4, <1>5, <1>6, <1>7, <1>8, <1>9, <1>10, <1>11, <1>12, <1>13, <1>14, <1>15
  DEF Mounts!Next, Mounts!ApplyStep

\* Nothing is applied yet, and no bind is stored or running.
LEMMA MountsInit ==
    ASSUME Mounts!MountsAssumption, Mounts!Init
    PROVE  MountsInv
<1>1. Mounts!TypeOK
  <2>1. 0 \in 0..MaxSaves /\ 0 \in 0..ApplyFaults
    BY DEF Mounts!MountsAssumption
  <2>2. stored \in Mounts!Contract
    BY <2>1 DEF Mounts!Init, Mounts!Contract, Mounts!Nowhere
  <2>3. Mounts!Idle \in Mounts!Application
    BY <2>1 DEF Mounts!Idle, Mounts!Application, Mounts!Contract, Mounts!Nowhere
  <2>4. apply \in [Apply -> Mounts!Application]
    BY <2>3 DEF Mounts!Init
  <2> QED BY <2>1, <2>2, <2>4 DEF Mounts!Init, Mounts!TypeOK
<1>2. AppliedAlone /\ BindsAreSeeded /\ SeedsBeforeListing
  BY DEF Mounts!MountsAssumption, Mounts!Init, Mounts!Nowhere, Mounts!Idle, AppliedAlone,
         BindsAreSeeded, SeedsBeforeListing
<1> QED BY <1>1, <1>2 DEF MountsInv

\* Every step of the mounts keeps their invariant.
LEMMA MountsStep ==
    ASSUME Mounts!MountsAssumption, MountsInv, [Mounts!Next]_(Mounts!vars)
    PROVE  MountsInv'
  BY MountsTypes, MountsSeeded DEF MountsInv

-----------------------------------------------------------------------------
(* The gate *)

\* A gate is being opened while one request has it listen, for a restricted project.
OneOpens ==
    /\ gate = "opening" => \E j \in Gate!Job : job[j].at = "setting"
    /\ \A j \in Gate!Job :
          job[j].at = "setting" => gate = "opening" /\ job[j].row.mode = "restricted"
    /\ \A i, j \in Gate!Job : job[i].at = "setting" /\ job[j].at = "setting" => i = j

\* The requests that go by a row they have read: it was there, and while nothing moved
\* it, it is the row there is.
GoesBy(j) ==
    \/ job[j].at \in {"building", "writing", "recording", "syncing", "setting"}
    \/ job[j].at \in {"closing", "waiting", "free"} /\ j \notin GateDelete

HasRead == \A j \in Gate!Job : GoesBy(j) => job[j].row # None
GoesByTheRow == \A j \in Gate!Job : GoesBy(j) => job[j].row = row

\* The changes that have still to move the app, and those that have still to close
\* the gate.
WillMove == \E p \in GatePatch : job[p].at \in {"reading", "rereading", "closing", "waiting", "free"}
WillClose == \E p \in GatePatch : job[p].at \in {"reading", "rereading", "closing", "syncing"}

\* The requests that took the gate away and have still to open it.
WillOpen ==
    \E j \in Gate!Job : job[j].at \in {"waiting", "free", "recording", "syncing", "setting"}

\* The port is held by whom the row says, or a request under way will see to it.
HeldOrDue ==
    IF row.mode = "restricted"
    THEN (listening # "public" \/ WillMove) /\ (listening = "loopback" => gate = "open" \/ WillOpen)
    ELSE (listening # "loopback" \/ WillMove) /\ (gate = "open" => WillClose)

GateInv ==
    /\ Gate!TypeOK
    /\ OneOpens
    /\ HasRead
    /\ row # None /\ ~stale /\ ~unapplied => GoesByTheRow /\ HeldOrDue

\* A request that moves is still one, and the others are as they were.
LEMMA RequestMoves ==
    ASSUME Gate!TypeOK, NEW j \in Gate!Job, NEW step \in Gate!Steps, Gate!To(j, step)
    PROVE  /\ job' \in [Gate!Job -> Gate!Request]
           /\ job'[j].at = step
           /\ step # "over" => job'[j].row = job[j].row
           /\ \A i \in Gate!Job \ {j} : job'[i] = job[i]
<1>1. job \in [Gate!Job -> Gate!Request] /\ job[j] \in Gate!Request
  BY DEF Gate!TypeOK
<1>2. CASE step = "over"
  <2>1. Gate!Idle \in Gate!Request
    BY DEF Gate!Idle, Gate!Request
  <2>2. /\ [Gate!Idle EXCEPT !.at = "over"] \in Gate!Request
        /\ [Gate!Idle EXCEPT !.at = "over"].at = "over"
    BY <2>1 DEF Gate!Request, Gate!Steps
  <2>3. job' = [job EXCEPT ![j] = [Gate!Idle EXCEPT !.at = "over"]]
    BY <1>2 DEF Gate!To
  <2> QED BY <1>1, <1>2, <2>2, <2>3
<1>3. CASE step # "over"
  <2>1. job' = [job EXCEPT ![j] = [job[j] EXCEPT !.at = step]]
    BY <1>3 DEF Gate!To
  <2>2. [job[j] EXCEPT !.at = step] \in Gate!Request
    BY <1>1 DEF Gate!Request
  <2>3. [job[j] EXCEPT !.at = step].at = step /\ [job[j] EXCEPT !.at = step].row = job[j].row
    BY <1>1 DEF Gate!Request
  <2> QED BY <1>1, <1>3, <2>1, <2>2, <2>3
<1> QED BY <1>2, <1>3

\* A request that reads the row goes by it, and the others are as they were.
LEMMA RequestReads ==
    ASSUME Gate!TypeOK, NEW j \in Gate!Job, NEW step \in Gate!Steps, row # None,
           NEW upper \in BOOLEAN, NEW access \in Gate!Access \cup {None},
           \/ job' = [job EXCEPT ![j].at = step, ![j].row = row]
           \/ job' = [job EXCEPT ![j].at = step, ![j].row = row, ![j].up = upper]
           \/ job' = [job EXCEPT ![j] = [at |-> step, row |-> row, next |-> access, up |-> upper]]
    PROVE  /\ job' \in [Gate!Job -> Gate!Request]
           /\ job'[j].at = step /\ job'[j].row = row
           /\ \A i \in Gate!Job \ {j} : job'[i] = job[i]
<1>1. job \in [Gate!Job -> Gate!Request] /\ job[j] \in Gate!Request /\ row \in Gate!Access \cup {None}
  BY DEF Gate!TypeOK
<1>2. PICK r \in Gate!Request : job' = [job EXCEPT ![j] = r] /\ r.at = step /\ r.row = row
  <2>1. CASE job' = [job EXCEPT ![j].at = step, ![j].row = row]
    <3>1. [[job[j] EXCEPT !.at = step] EXCEPT !.row = row] \in Gate!Request
      BY <1>1 DEF Gate!Request
    <3> QED BY <1>1, <2>1, <3>1 DEF Gate!Request
  <2>2. CASE job' = [job EXCEPT ![j].at = step, ![j].row = row, ![j].up = upper]
    <3>1. [[[job[j] EXCEPT !.at = step] EXCEPT !.row = row] EXCEPT !.up = upper] \in Gate!Request
      BY <1>1 DEF Gate!Request
    <3> QED BY <1>1, <2>2, <3>1 DEF Gate!Request
  <2>3. CASE job' = [job EXCEPT ![j] = [at |-> step, row |-> row, next |-> access, up |-> upper]]
    <3>1. [at |-> step, row |-> row, next |-> access, up |-> upper] \in Gate!Request
      BY <1>1 DEF Gate!Request
    <3> QED BY <1>1, <2>3, <3>1
  <2> QED BY <2>1, <2>2, <2>3
<1> QED BY <1>1, <1>2

\* Every variable of the gate holds a value of its type.
LEMMA GateTypes ==
    ASSUME Gate!GateAssumption, Gate!TypeOK, HasRead, [Gate!Next]_(Gate!vars)
    PROVE  Gate!TypeOK'
<1>1. gateFaults < GateFaults => gateFaults + 1 \in 0..GateFaults
  BY DEF Gate!GateAssumption, Gate!TypeOK
<1>2. /\ job \in [Gate!Job -> Gate!Request]
      /\ \A j \in Gate!Job :
            /\ job[j].row \in Gate!Access \cup {None} /\ job[j].next \in Gate!Access \cup {None}
            /\ job[j].up \in BOOLEAN
      /\ \A access \in Gate!Access : access.list \in List
  BY DEF Gate!TypeOK, Gate!Request, Gate!Access
<1>3. ASSUME NEW j \in Gate!Job, Gate!RestartReads(j) PROVE Gate!TypeOK'
  <2>1. job' \in [Gate!Job -> Gate!Request]
    <3>1. CASE Gate!To(j, "over")
      BY <3>1, RequestMoves DEF Gate!Steps
    <3>2. CASE row # None /\ job' = [job EXCEPT ![j].at = "closing", ![j].row = row]
      BY <1>2, <3>2, RequestReads DEF Gate!Steps
    <3> QED BY <1>3, <3>1, <3>2 DEF Gate!RestartReads
  <2>2. unapplied' \in BOOLEAN
    BY <1>3 DEF Gate!RestartReads, Gate!Drops, Gate!TypeOK
  <2> QED BY <1>3, <2>1, <2>2 DEF Gate!RestartReads, Gate!TypeOK
<1>4. ASSUME NEW j \in Gate!Job, Gate!Closes(j) PROVE Gate!TypeOK'
  <2>1. job' \in [Gate!Job -> Gate!Request]
    BY <1>4, RequestMoves DEF Gate!Closes, Gate!Steps
  <2> QED BY <1>4, <2>1 DEF Gate!Closes, Gate!CloseGate, Gate!history, Gate!TypeOK
<1>5. ASSUME NEW j \in Gate!Job, Gate!Starts(j) PROVE Gate!TypeOK'
  <2>1. job' \in [Gate!Job -> Gate!Request]
    BY <1>5, RequestMoves DEF Gate!Starts, Gate!Steps
  <2> QED BY <1>5, <2>1 DEF Gate!Starts, Gate!AppIs, Gate!history, Gate!TypeOK
<1>6. ASSUME NEW j \in Gate!Job, Gate!StartFails(j) PROVE Gate!TypeOK'
  <2>1. job' \in [Gate!Job -> Gate!Request]
    BY <1>6, RequestMoves DEF Gate!StartFails, Gate!Steps
  <2>2. gateFaults' \in 0..GateFaults
    BY <1>1, <1>6 DEF Gate!StartFails, Gate!Fault, Gate!TypeOK
  <2>3. unapplied' \in BOOLEAN
    BY <1>6 DEF Gate!StartFails, Gate!Drops, Gate!TypeOK
  <2> QED BY <1>6, <2>1, <2>2, <2>3 DEF Gate!StartFails, Gate!AppIs, Gate!TypeOK
<1>7. ASSUME NEW j \in Gate!Job, Gate!Records(j) PROVE Gate!TypeOK'
  <2>1. job' \in [Gate!Job -> Gate!Request]
    BY <1>7, RequestMoves DEF Gate!Records, Gate!Steps
  <2> QED BY <1>7, <2>1 DEF Gate!Records, Gate!history, Gate!TypeOK
<1>8. ASSUME NEW j \in Gate!Job,
             Gate!SyncsOpen(j) \/ Gate!Swaps(j) \/ Gate!Listens(j) \/ Gate!Sets(j) \/ Gate!Refused(j)
      PROVE  Gate!TypeOK'
  <2>1. job' \in [Gate!Job -> Gate!Request]
    BY <1>8, RequestMoves
    DEF Gate!SyncsOpen, Gate!Swaps, Gate!Listens, Gate!Sets, Gate!Refused, Gate!After, Gate!Steps
  <2>2. job[j].at \in {"syncing", "setting"}
    BY <1>8
    DEF Gate!SyncsOpen, Gate!Swaps, Gate!Listens, Gate!Sets, Gate!Refused, Gate!At
  <2>3. job[j].row.list \in List
    BY <1>2, <2>2 DEF HasRead, GoesBy
  <2>4. rules' \in {rules, None, job[j].row.list}
    BY <1>8
    DEF Gate!SyncsOpen, Gate!Swaps, Gate!Listens, Gate!Sets, Gate!Refused, Gate!CloseGate
  <2>5. rules' \in List \cup {None}
    BY <2>3, <2>4 DEF Gate!TypeOK
  <2>6. gate' \in {"closed", "opening", "open"} /\ clients' \subseteq {"gate", "closed"}
    BY <1>8
    DEF Gate!SyncsOpen, Gate!Swaps, Gate!Listens, Gate!Sets, Gate!Refused, Gate!CloseGate, Gate!TypeOK
  <2>7. unapplied' \in BOOLEAN /\ gateFaults' \in 0..GateFaults
    BY <1>1, <1>8
    DEF Gate!SyncsOpen, Gate!Swaps, Gate!Listens, Gate!Sets, Gate!Refused, Gate!Fault,
        Gate!history, Gate!TypeOK
  <2>8. UNCHANGED <<row, called, listening, stale>>
    BY <1>8
    DEF Gate!SyncsOpen, Gate!Swaps, Gate!Listens, Gate!Sets, Gate!Refused, Gate!history
  <2> QED BY <2>1, <2>5, <2>6, <2>7, <2>8 DEF Gate!TypeOK
<1>9. ASSUME NEW d \in GateDeploy, Gate!DeployReads(d) PROVE Gate!TypeOK'
  <2>1. PICK up \in BOOLEAN :
           job' = [job EXCEPT ![d].at = "building", ![d].row = row, ![d].up = up]
    BY <1>9 DEF Gate!DeployReads
  <2>2. job' \in [Gate!Job -> Gate!Request]
    <3>1. d \in Gate!Job /\ row # None /\ "building" \in Gate!Steps /\ None \in Gate!Access \cup {None}
      BY <1>9 DEF Gate!Job, Gate!DeployReads, Gate!Steps
    <3> QED BY <2>1, <3>1, RequestReads
  <2> QED BY <1>9, <2>2 DEF Gate!DeployReads, Gate!history, Gate!TypeOK
<1>10. ASSUME NEW d \in GateDeploy,
              Gate!DeployStops(d) \/ Gate!DeployFails(d) \/ Gate!DeployEnds(d)
       PROVE  Gate!TypeOK'
  <2>1. job' \in [Gate!Job -> Gate!Request]
    BY <1>10, RequestMoves DEF Gate!DeployStops, Gate!DeployFails, Gate!DeployEnds, Gate!Steps,
           Gate!Job
  <2> QED BY <1>10, <2>1
      DEF Gate!DeployStops, Gate!DeployFails, Gate!DeployEnds, Gate!AppIs, Gate!history, Gate!TypeOK
<1>11. ASSUME NEW p \in GatePatch, NEW access \in Gate!Access, Gate!PatchReads(p, access)
       PROVE  Gate!TypeOK'
  <2>1. PICK up \in BOOLEAN :
           job' = [job EXCEPT ![p] = [at |-> "writing", row |-> row, next |-> access, up |-> up]]
    BY <1>11 DEF Gate!PatchReads
  <2>2. job' \in [Gate!Job -> Gate!Request]
    <3>1. p \in Gate!Job /\ row # None /\ "writing" \in Gate!Steps /\ access \in Gate!Access \cup {None}
      BY <1>11 DEF Gate!Job, Gate!PatchReads, Gate!Steps
    <3> QED BY <2>1, <3>1, RequestReads
  <2> QED BY <1>11, <2>2 DEF Gate!PatchReads, Gate!history, Gate!TypeOK
<1>12. ASSUME NEW p \in GatePatch, Gate!PatchWrites(p) PROVE Gate!TypeOK'
  <2>1. p \in Gate!Job
    BY DEF Gate!Job
  <2>2. job' \in [Gate!Job -> Gate!Request]
    BY <1>12, <2>1, RequestMoves DEF Gate!PatchWrites, Gate!Steps
  <2>3. row' \in Gate!Access \cup {None} /\ stale' \in BOOLEAN
    BY <1>2, <1>12, <2>1 DEF Gate!PatchWrites, Gate!TypeOK
  <2> QED BY <1>12, <2>2, <2>3 DEF Gate!PatchWrites, Gate!TypeOK
<1>13. ASSUME NEW p \in GatePatch, Gate!PatchReadsAgain(p) PROVE Gate!TypeOK'
  <2>1. p \in Gate!Job /\ unapplied' \in BOOLEAN
    BY <1>13 DEF Gate!Job, Gate!PatchReadsAgain, Gate!TypeOK
  <2>2. job' \in [Gate!Job -> Gate!Request]
    <3>1. CASE Gate!To(p, "over")
      BY <2>1, <3>1, RequestMoves DEF Gate!Steps
    <3>2. CASE row # None /\ job' = [job EXCEPT ![p].at = "syncing", ![p].row = row]
      BY <1>2, <2>1, <3>2, RequestReads DEF Gate!Steps
    <3> QED BY <1>13, <3>1, <3>2 DEF Gate!PatchReadsAgain
  <2> QED BY <1>13, <2>1, <2>2 DEF Gate!PatchReadsAgain, Gate!TypeOK
<1>14. ASSUME NEW d \in GateDelete, Gate!DeleteReads(d) \/ Gate!Removes(d) \/ Gate!Forgets(d)
       PROVE  Gate!TypeOK'
  <2>1. job' \in [Gate!Job -> Gate!Request]
    BY <1>14, RequestMoves DEF Gate!DeleteReads, Gate!Removes, Gate!Forgets, Gate!Steps,
           Gate!Job
  <2> QED BY <1>14, <2>1
      DEF Gate!DeleteReads, Gate!Removes, Gate!Forgets, Gate!AppIs, Gate!history, Gate!TypeOK
<1>15. CASE Gate!OperatorStops \/ Gate!AppDies \/ Gate!ClientConnects \/ Gate!ClientsLeave
  BY <1>15
  DEF Gate!OperatorStops, Gate!AppDies, Gate!ClientConnects, Gate!ClientsLeave, Gate!AppIs,
      Gate!history, Gate!TypeOK
<1>16. CASE Gate!Dies
  <2>1. /\ Gate!Idle \in Gate!Request
        /\ [Gate!Idle EXCEPT !.at = "over"] \in Gate!Request
    <3>1. Gate!Idle \in Gate!Request
      BY DEF Gate!Idle, Gate!Request
    <3> QED BY <3>1 DEF Gate!Request, Gate!Steps
  <2>2. job' \in [Gate!Job -> Gate!Request]
    BY <1>16, <2>1 DEF Gate!Dies
  <2>3. rules' \in List \cup {None} /\ gate' \in {"closed", "opening", "open"}
    BY <1>2, <1>16 DEF Gate!Dies, Gate!TypeOK
  <2>4. gateFaults' \in 0..GateFaults /\ unapplied' \in BOOLEAN
    BY <1>1, <1>16 DEF Gate!Dies, Gate!Fault, Gate!TypeOK
  <2> QED BY <1>16, <2>2, <2>3, <2>4 DEF Gate!Dies, Gate!TypeOK
<1>17. CASE UNCHANGED Gate!vars
  BY <1>17 DEF Gate!vars, Gate!TypeOK
<1> QED
  BY <1>3, <1>4, <1>5, <1>6, <1>7, <1>8, <1>9, <1>10, <1>11, <1>12, <1>13, <1>14, <1>15, <1>16,
     <1>17
  DEF Gate!Next, Gate!JobStep

\* Who goes by a row after a step went by it before, or has just read it.
LEMMA GoesOn ==
    ASSUME Gate!TypeOK, [Gate!Next]_(Gate!vars), NEW i \in Gate!Job, GoesBy(i)'
    PROVE  \/ GoesBy(i) /\ job'[i].row = job[i].row
           \/ row # None /\ job'[i].row = row
<1> DEFINE Goal == \/ GoesBy(i) /\ job'[i].row = job[i].row
                   \/ row # None /\ job'[i].row = row
<1>1. ASSUME NEW j \in Gate!Job, NEW step \in Gate!Steps, Gate!To(j, step),
             \/ step \in {"over", "reading", "rereading", "checking", "forgetting"}
             \/ step = "closing" /\ j \in GateDelete
             \/ GoesBy(j)
      PROVE  Goal
  <2>1. /\ job'[j].at = step /\ (step # "over" => job'[j].row = job[j].row)
        /\ i # j => job'[i] = job[i]
    BY <1>1, RequestMoves
  <2>2. CASE i # j
    BY <2>1, <2>2 DEF GoesBy
  <2>3. CASE i = j
    BY <1>1, <2>1, <2>3 DEF GoesBy
  <2> QED BY <2>2, <2>3
<1>2. ASSUME NEW j \in Gate!Job, row # None, job'[j].row = row,
             \A k \in Gate!Job \ {j} : job'[k] = job[k]
      PROVE  Goal
  BY <1>2 DEF GoesBy
<1>3. ASSUME NEW j \in Gate!Job, Gate!RestartReads(j) PROVE Goal
  <2>1. CASE Gate!To(j, "over")
    BY <1>1, <2>1 DEF Gate!Steps
  <2>2. CASE row # None /\ job' = [job EXCEPT ![j].at = "closing", ![j].row = row]
    <3>1. job'[j].row = row /\ \A k \in Gate!Job \ {j} : job'[k] = job[k]
      BY <2>2, RequestReads DEF Gate!Steps
    <3> QED BY <1>2, <2>2, <3>1
  <2> QED BY <1>3, <2>1, <2>2 DEF Gate!RestartReads
<1>4. ASSUME NEW j \in Gate!Job, Gate!Closes(j) PROVE Goal
  <2>1. PICK step \in {"waiting", "free"} : Gate!To(j, step)
    BY <1>4 DEF Gate!Closes
  <2>2. CASE j \notin GateDelete
    BY <1>1, <1>4, <2>1, <2>2 DEF Gate!Closes, Gate!At, Gate!Steps, GoesBy
  <2>3. CASE j \in GateDelete
    <3>1. /\ job'[j].at = step
          /\ i # j => job'[i] = job[i]
      BY <2>1, RequestMoves DEF Gate!Steps
    <3> QED BY <2>3, <3>1 DEF GoesBy
  <2> QED BY <2>2, <2>3
<1>5. ASSUME NEW j \in Gate!Job, Gate!Starts(j) \/ Gate!StartFails(j) PROVE Goal
  <2>1. GoesBy(j)
    BY <1>5 DEF Gate!Starts, Gate!StartFails, Gate!Free, Gate!At, GoesBy
  <2>2. PICK step \in Gate!Steps : Gate!To(j, step)
    BY <1>5 DEF Gate!Starts, Gate!StartFails, Gate!Steps
  <2> QED BY <1>1, <2>1, <2>2
<1>6. ASSUME NEW j \in Gate!Job,
             \/ Gate!Records(j) \/ Gate!SyncsOpen(j) \/ Gate!Swaps(j) \/ Gate!Listens(j)
             \/ Gate!Sets(j) \/ Gate!Refused(j)
      PROVE  Goal
  <2>1. GoesBy(j)
    BY <1>6
    DEF Gate!Records, Gate!SyncsOpen, Gate!Swaps, Gate!Listens, Gate!Sets, Gate!Refused, Gate!At,
        GoesBy
  <2>2. PICK step \in Gate!Steps : Gate!To(j, step)
    BY <1>6
    DEF Gate!Records, Gate!SyncsOpen, Gate!Swaps, Gate!Listens, Gate!Sets, Gate!Refused,
        Gate!After, Gate!Steps
  <2> QED BY <1>1, <2>1, <2>2
<1>7. ASSUME NEW d \in GateDeploy, Gate!DeployReads(d) PROVE Goal
  <2>1. PICK up \in BOOLEAN :
           job' = [job EXCEPT ![d].at = "building", ![d].row = row, ![d].up = up]
    BY <1>7 DEF Gate!DeployReads
  <2>2. d \in Gate!Job /\ row # None /\ "building" \in Gate!Steps /\ None \in Gate!Access \cup {None}
    BY <1>7 DEF Gate!Job, Gate!DeployReads, Gate!Steps
  <2>3. job'[d].row = row /\ \A k \in Gate!Job \ {d} : job'[k] = job[k]
    BY <2>1, <2>2, RequestReads
  <2> QED BY <1>2, <2>2, <2>3
<1>8. ASSUME NEW d \in GateDeploy,
             Gate!DeployStops(d) \/ Gate!DeployFails(d) \/ Gate!DeployEnds(d)
      PROVE  Goal
  <2>1. /\ d \in Gate!Job
        /\ GoesBy(d) \/ Gate!To(d, "over")
    BY <1>8 DEF Gate!Job, Gate!DeployStops, Gate!DeployFails, Gate!DeployEnds, Gate!At, GoesBy
  <2>2. PICK step \in Gate!Steps : Gate!To(d, step)
    BY <1>8 DEF Gate!DeployStops, Gate!DeployFails, Gate!DeployEnds, Gate!Steps
  <2> QED BY <1>1, <2>1, <2>2 DEF Gate!Steps
<1>9. ASSUME NEW p \in GatePatch, NEW access \in Gate!Access, Gate!PatchReads(p, access)
      PROVE  Goal
  <2>1. PICK up \in BOOLEAN :
           job' = [job EXCEPT ![p] = [at |-> "writing", row |-> row, next |-> access, up |-> up]]
    BY <1>9 DEF Gate!PatchReads
  <2>2. p \in Gate!Job /\ row # None /\ "writing" \in Gate!Steps /\ access \in Gate!Access \cup {None}
    BY <1>9 DEF Gate!Job, Gate!PatchReads, Gate!Steps
  <2>3. job'[p].row = row /\ \A k \in Gate!Job \ {p} : job'[k] = job[k]
    BY <2>1, <2>2, RequestReads
  <2> QED BY <1>2, <2>2, <2>3
<1>10. ASSUME NEW p \in GatePatch, Gate!PatchWrites(p) PROVE Goal
  <2>1. PICK step \in {"over", "reading", "rereading"} : Gate!To(p, step)
    BY <1>10 DEF Gate!PatchWrites
  <2> QED BY <1>1, <2>1 DEF Gate!Job, Gate!Steps
<1>11. ASSUME NEW p \in GatePatch, Gate!PatchReadsAgain(p) PROVE Goal
  <2>1. p \in Gate!Job
    BY DEF Gate!Job
  <2>2. CASE Gate!To(p, "over")
    BY <1>1, <2>1, <2>2 DEF Gate!Steps
  <2>3. CASE row # None /\ job' = [job EXCEPT ![p].at = "syncing", ![p].row = row]
    <3>1. job'[p].row = row /\ \A k \in Gate!Job \ {p} : job'[k] = job[k]
      BY <2>1, <2>3, RequestReads DEF Gate!Steps
    <3> QED BY <1>2, <2>1, <2>3, <3>1
  <2> QED BY <1>11, <2>2, <2>3 DEF Gate!PatchReadsAgain
<1>12. ASSUME NEW d \in GateDelete, Gate!DeleteReads(d) \/ Gate!Removes(d) \/ Gate!Forgets(d)
       PROVE  Goal
  <2>1. PICK step \in {"closing", "forgetting", "over"} : Gate!To(d, step)
    BY <1>12 DEF Gate!DeleteReads, Gate!Removes, Gate!Forgets
  <2> QED BY <1>1, <2>1 DEF Gate!Job, Gate!Steps
<1>13. CASE \/ Gate!OperatorStops \/ Gate!AppDies \/ Gate!ClientConnects \/ Gate!ClientsLeave
            \/ UNCHANGED Gate!vars
  <2>1. job' = job
    BY <1>13
    DEF Gate!OperatorStops, Gate!AppDies, Gate!ClientConnects, Gate!ClientsLeave, Gate!vars
  <2> QED BY <2>1 DEF GoesBy
<1>14. CASE Gate!Dies
  <2>1. job'[i] = Gate!Idle \/ job'[i] = [Gate!Idle EXCEPT !.at = "over"]
    BY <1>14 DEF Gate!Dies
  <2>2. job'[i].at \in {"idle", "over"}
    BY <2>1 DEF Gate!Idle
  <2> QED BY <2>2 DEF GoesBy
<1> QED
  BY <1>3, <1>4, <1>5, <1>6, <1>7, <1>8, <1>9, <1>10, <1>11, <1>12, <1>13, <1>14
  DEF Gate!Next, Gate!JobStep

\* The row somebody goes by was there, and it is the row there is while nobody moves it
\* under them.
LEMMA GoesOnByTheRow ==
    ASSUME Gate!TypeOK, HasRead, [Gate!Next]_(Gate!vars)
    PROVE  /\ HasRead'
           /\ GoesByTheRow /\ ~stale' /\ row' # None => GoesByTheRow'
<1>1. HasRead'
  BY GoesOn DEF HasRead
<1>2. ASSUME GoesByTheRow, ~stale', row' # None PROVE GoesByTheRow'
  <2>1. CASE row' = row
    BY <1>2, <2>1, GoesOn DEF GoesByTheRow
  <2>2. CASE row' # row
    <3>1. PICK p \in GatePatch : Gate!PatchWrites(p)
      BY <1>2, <2>2
      DEF Gate!Next, Gate!JobStep, Gate!RestartReads, Gate!Closes, Gate!Starts, Gate!StartFails,
          Gate!Records, Gate!SyncsOpen, Gate!Swaps, Gate!Listens, Gate!Sets, Gate!Refused,
          Gate!DeployReads, Gate!DeployStops, Gate!DeployFails, Gate!DeployEnds, Gate!PatchReads,
          Gate!PatchReadsAgain, Gate!DeleteReads, Gate!Removes, Gate!Forgets, Gate!OperatorStops,
          Gate!AppDies, Gate!ClientConnects, Gate!ClientsLeave, Gate!Dies, Gate!vars
    <3>2. PICK step \in {"over", "reading", "rereading"} : Gate!To(p, step)
      BY <3>1 DEF Gate!PatchWrites
    <3>3. p \in Gate!Job /\ job'[p].at = step /\ \A i \in Gate!Job \ {p} : job'[i] = job[i]
      BY <3>2, RequestMoves DEF Gate!Job, Gate!Steps
    <3>4. \A i \in Gate!Job \ {p} : job[i].at \in {"idle", "over"}
      BY <1>2, <3>1 DEF Gate!PatchWrites, Gate!Under
    <3> QED BY <3>3, <3>4 DEF GoesByTheRow, GoesBy
  <2> QED BY <2>1, <2>2
<1> QED BY <1>1, <1>2

\* One gate at a time is being opened.
LEMMA OpensOne ==
    ASSUME Gate!TypeOK, OneOpens, [Gate!Next]_(Gate!vars)
    PROVE  OneOpens'
<1>1. ASSUME NEW j \in Gate!Job, NEW step \in Gate!Steps \ {"setting"},
             job'[j].at = step, \A i \in Gate!Job \ {j} : job'[i] = job[i],
             job[j].at # "setting", gate = "opening" <=> gate' = "opening"
      PROVE  OneOpens'
  BY <1>1 DEF OneOpens
<1>2. ASSUME NEW j \in Gate!Job, NEW step \in Gate!Steps \ {"setting"}, Gate!To(j, step),
             job[j].at # "setting", gate = "opening" <=> gate' = "opening"
      PROVE  OneOpens'
  BY <1>1, <1>2, RequestMoves
<1>3. ASSUME NEW j \in Gate!Job, Gate!RestartReads(j) PROVE OneOpens'
  <2>1. gate' = gate /\ job[j].at # "setting"
    BY <1>3 DEF Gate!RestartReads, Gate!At
  <2>2. CASE Gate!To(j, "over")
    BY <1>2, <2>1, <2>2 DEF Gate!Steps
  <2>3. CASE row # None /\ job' = [job EXCEPT ![j].at = "closing", ![j].row = row]
    <3>1. job'[j].at = "closing" /\ \A k \in Gate!Job \ {j} : job'[k] = job[k]
      BY <2>3, RequestReads DEF Gate!Steps
    <3> QED BY <1>1, <2>1, <3>1 DEF Gate!Steps
  <2> QED BY <1>3, <2>2, <2>3 DEF Gate!RestartReads
<1>4. ASSUME NEW j \in Gate!Job,
             \/ Gate!Closes(j) \/ Gate!Starts(j) \/ Gate!StartFails(j) \/ Gate!Records(j)
             \/ Gate!SyncsOpen(j) \/ Gate!Swaps(j) \/ Gate!Refused(j)
      PROVE  OneOpens'
  <2>1. PICK step \in Gate!Steps \ {"setting"} : Gate!To(j, step)
    BY <1>4
    DEF Gate!Closes, Gate!Starts, Gate!StartFails, Gate!Records, Gate!SyncsOpen, Gate!Swaps,
        Gate!Refused, Gate!After, Gate!Steps
  <2>2. job[j].at # "setting"
    BY <1>4
    DEF Gate!Closes, Gate!Starts, Gate!StartFails, Gate!Records, Gate!SyncsOpen, Gate!Swaps,
        Gate!Refused, Gate!Free, Gate!At
  <2>3. gate = "opening" <=> gate' = "opening"
    BY <1>4
    DEF Gate!Closes, Gate!Starts, Gate!StartFails, Gate!Records, Gate!SyncsOpen, Gate!Swaps,
        Gate!Refused, Gate!CloseGate
  <2> QED BY <1>2, <2>1, <2>2, <2>3
<1>5. ASSUME NEW j \in Gate!Job, Gate!Listens(j) PROVE OneOpens'
  <2>1. /\ gate = "closed" /\ gate' = "opening" /\ job[j].row.mode = "restricted"
        /\ Gate!To(j, "setting")
    BY <1>5 DEF Gate!Listens
  <2>2. /\ job'[j].at = "setting" /\ job'[j].row = job[j].row
        /\ \A i \in Gate!Job \ {j} : job'[i] = job[i]
    BY <2>1, RequestMoves DEF Gate!Steps
  <2>3. \A i \in Gate!Job : job[i].at # "setting"
    BY <2>1 DEF OneOpens
  <2> QED BY <2>1, <2>2, <2>3 DEF OneOpens
<1>6. ASSUME NEW j \in Gate!Job, Gate!Sets(j) PROVE OneOpens'
  <2>1. PICK step \in {"checking", "over"} : Gate!To(j, step)
    BY <1>6 DEF Gate!Sets, Gate!After
  <2>2. gate' = "open" /\ job[j].at = "setting"
    BY <1>6 DEF Gate!Sets, Gate!At
  <2>3. job'[j].at = step /\ \A i \in Gate!Job \ {j} : job'[i] = job[i]
    BY <2>1, RequestMoves DEF Gate!Steps
  <2>4. \A i \in Gate!Job \ {j} : job[i].at # "setting"
    BY <2>2 DEF OneOpens
  <2> QED BY <2>2, <2>3, <2>4 DEF OneOpens
<1>7. ASSUME NEW d \in GateDeploy, Gate!DeployReads(d) PROVE OneOpens'
  <2>1. PICK up \in BOOLEAN :
           job' = [job EXCEPT ![d].at = "building", ![d].row = row, ![d].up = up]
    BY <1>7 DEF Gate!DeployReads
  <2>2. d \in Gate!Job /\ row # None /\ "building" \in Gate!Steps /\ None \in Gate!Access \cup {None}
    BY <1>7 DEF Gate!Job, Gate!DeployReads, Gate!Steps
  <2>3. job'[d].at = "building" /\ \A k \in Gate!Job \ {d} : job'[k] = job[k]
    BY <2>1, <2>2, RequestReads
  <2> QED BY <1>1, <1>7, <2>2, <2>3 DEF Gate!DeployReads, Gate!At
<1>8. ASSUME NEW p \in GatePatch, NEW access \in Gate!Access, Gate!PatchReads(p, access)
      PROVE  OneOpens'
  <2>1. PICK up \in BOOLEAN :
           job' = [job EXCEPT ![p] = [at |-> "writing", row |-> row, next |-> access, up |-> up]]
    BY <1>8 DEF Gate!PatchReads
  <2>2. p \in Gate!Job /\ row # None /\ "writing" \in Gate!Steps /\ access \in Gate!Access \cup {None}
    BY <1>8 DEF Gate!Job, Gate!PatchReads, Gate!Steps
  <2>3. job'[p].at = "writing" /\ \A k \in Gate!Job \ {p} : job'[k] = job[k]
    BY <2>1, <2>2, RequestReads
  <2> QED BY <1>1, <1>8, <2>2, <2>3 DEF Gate!PatchReads, Gate!At
<1>9. ASSUME NEW j \in Gate!Job,
             \/ Gate!DeployStops(j) \/ Gate!DeployFails(j) \/ Gate!DeployEnds(j)
             \/ Gate!PatchWrites(j) \/ Gate!DeleteReads(j) \/ Gate!Removes(j) \/ Gate!Forgets(j)
      PROVE  OneOpens'
  <2>1. PICK step \in Gate!Steps \ {"setting"} : Gate!To(j, step)
    BY <1>9
    DEF Gate!DeployStops, Gate!DeployFails, Gate!DeployEnds, Gate!PatchWrites, Gate!DeleteReads,
        Gate!Removes, Gate!Forgets, Gate!Steps
  <2>2. job[j].at # "setting" /\ gate' = gate
    BY <1>9
    DEF Gate!DeployStops, Gate!DeployFails, Gate!DeployEnds, Gate!PatchWrites, Gate!DeleteReads,
        Gate!Removes, Gate!Forgets, Gate!Free, Gate!At
  <2> QED BY <1>2, <2>1, <2>2
<1>10. ASSUME NEW p \in GatePatch, Gate!PatchReadsAgain(p) PROVE OneOpens'
  <2>1. p \in Gate!Job /\ gate' = gate /\ job[p].at # "setting"
    BY <1>10 DEF Gate!PatchReadsAgain, Gate!At, Gate!Job
  <2>2. CASE Gate!To(p, "over")
    BY <1>2, <2>1, <2>2 DEF Gate!Steps
  <2>3. CASE row # None /\ job' = [job EXCEPT ![p].at = "syncing", ![p].row = row]
    <3>1. job'[p].at = "syncing" /\ \A k \in Gate!Job \ {p} : job'[k] = job[k]
      BY <2>1, <2>3, RequestReads DEF Gate!Steps
    <3> QED BY <1>1, <2>1, <3>1 DEF Gate!Steps
  <2> QED BY <1>10, <2>2, <2>3 DEF Gate!PatchReadsAgain
<1>11. CASE \/ Gate!OperatorStops \/ Gate!AppDies \/ Gate!ClientConnects \/ Gate!ClientsLeave
            \/ UNCHANGED Gate!vars
  <2>1. job' = job /\ gate' = gate
    BY <1>11
    DEF Gate!OperatorStops, Gate!AppDies, Gate!ClientConnects, Gate!ClientsLeave, Gate!vars
  <2> QED BY <2>1 DEF OneOpens
<1>12. CASE Gate!Dies
  <2>1. \A j \in Gate!Job : job'[j] = Gate!Idle \/ job'[j] = [Gate!Idle EXCEPT !.at = "over"]
    BY <1>12 DEF Gate!Dies
  <2>2. \A j \in Gate!Job : job'[j].at \in {"idle", "over"}
    BY <2>1 DEF Gate!Idle
  <2>3. gate' # "opening"
    BY <1>12 DEF Gate!Dies
  <2> QED BY <2>2, <2>3 DEF OneOpens
<1> QED
  BY <1>3, <1>4, <1>5, <1>6, <1>7, <1>8, <1>9, <1>10, <1>11, <1>12
  DEF Gate!Next, Gate!JobStep, Gate!Job

\* What has been missed stays missed, and a project that is gone stays gone.
LEMMA MissedStays ==
    ASSUME Gate!TypeOK, [Gate!Next]_(Gate!vars), row' # None, ~stale', ~unapplied'
    PROVE  row # None /\ ~stale /\ ~unapplied
<1>1. row # None
  BY DEF Gate!Next, Gate!JobStep, Gate!RestartReads, Gate!Closes, Gate!Starts, Gate!StartFails,
         Gate!Records, Gate!SyncsOpen, Gate!Swaps, Gate!Listens, Gate!Sets, Gate!Refused,
         Gate!DeployReads, Gate!DeployStops, Gate!DeployFails, Gate!DeployEnds, Gate!PatchReads,
         Gate!PatchWrites, Gate!PatchReadsAgain, Gate!DeleteReads, Gate!Removes, Gate!Forgets,
         Gate!OperatorStops, Gate!AppDies, Gate!ClientConnects, Gate!ClientsLeave, Gate!Dies,
         Gate!vars
<1>2. ~stale
  BY DEF Gate!Next, Gate!JobStep, Gate!RestartReads, Gate!Closes, Gate!Starts, Gate!StartFails,
         Gate!Records, Gate!SyncsOpen, Gate!Swaps, Gate!Listens, Gate!Sets, Gate!Refused,
         Gate!DeployReads, Gate!DeployStops, Gate!DeployFails, Gate!DeployEnds, Gate!PatchReads,
         Gate!PatchWrites, Gate!PatchReadsAgain, Gate!DeleteReads, Gate!Removes, Gate!Forgets,
         Gate!OperatorStops, Gate!AppDies, Gate!ClientConnects, Gate!ClientsLeave, Gate!Dies,
         Gate!vars, Gate!history, Gate!TypeOK
<1>3. ~unapplied
  BY DEF Gate!Next, Gate!JobStep, Gate!RestartReads, Gate!Closes, Gate!Starts, Gate!StartFails,
         Gate!Records, Gate!SyncsOpen, Gate!Swaps, Gate!Listens, Gate!Sets, Gate!Refused,
         Gate!DeployReads, Gate!DeployStops, Gate!DeployFails, Gate!DeployEnds, Gate!PatchReads,
         Gate!PatchWrites, Gate!PatchReadsAgain, Gate!DeleteReads, Gate!Removes, Gate!Forgets,
         Gate!OperatorStops, Gate!AppDies, Gate!ClientConnects, Gate!ClientsLeave, Gate!Dies,
         Gate!vars, Gate!history, Gate!Drops, Gate!TypeOK
<1> QED BY <1>1, <1>2, <1>3

\* What is due stays due while another moves, or while who will do it has not.
LEMMA DueStays ==
    ASSUME NEW j \in Gate!Job, NEW step \in Gate!Steps, job'[j].at = step,
           \A i \in Gate!Job \ {j} : job'[i] = job[i]
    PROVE  /\ \/ j \notin GatePatch
              \/ job[j].at \notin {"reading", "rereading", "closing", "waiting", "free"}
              \/ step \in {"reading", "rereading", "closing", "waiting", "free"}
              => (WillMove => WillMove')
           /\ \/ j \notin GatePatch
              \/ job[j].at \notin {"reading", "rereading", "closing", "syncing"}
              \/ step \in {"reading", "rereading", "closing", "syncing"}
              => (WillClose => WillClose')
           /\ \/ job[j].at \notin {"waiting", "free", "recording", "syncing", "setting"}
              \/ step \in {"waiting", "free", "recording", "syncing", "setting"}
              => (WillOpen => WillOpen')
           /\ step \in {"waiting", "free", "recording", "syncing", "setting"} => WillOpen'
<1>1. GatePatch \subseteq Gate!Job
  BY DEF Gate!Job
<1>2. \/ j \notin GatePatch
      \/ job[j].at \notin {"reading", "rereading", "closing", "waiting", "free"}
      \/ step \in {"reading", "rereading", "closing", "waiting", "free"}
      => (WillMove => WillMove')
  BY <1>1 DEF WillMove
<1>3. \/ j \notin GatePatch
      \/ job[j].at \notin {"reading", "rereading", "closing", "syncing"}
      \/ step \in {"reading", "rereading", "closing", "syncing"}
      => (WillClose => WillClose')
  BY <1>1 DEF WillClose
<1>4. \/ job[j].at \notin {"waiting", "free", "recording", "syncing", "setting"}
      \/ step \in {"waiting", "free", "recording", "syncing", "setting"}
      => (WillOpen => WillOpen')
  BY DEF WillOpen
<1>5. step \in {"waiting", "free", "recording", "syncing", "setting"} => WillOpen'
  BY DEF WillOpen
<1> QED BY <1>2, <1>3, <1>4, <1>5

\* A step leaves the port with whom the row says, or somebody who will see to it.
LEMMA HeldOrDueStays ==
    ASSUME Gate!TypeOK, OneOpens, GoesByTheRow, HeldOrDue, [Gate!Next]_(Gate!vars),
           row # None, row' # None, ~stale, ~unapplied, ~stale', ~unapplied'
    PROVE  HeldOrDue'
<1>1. row.mode \in {"open", "restricted"} /\ gate \in {"closed", "opening", "open"}
  BY DEF Gate!TypeOK, Gate!Access
\* The row and the gate are as they were, the app is or is down, nothing due is given up.
<1>2. ASSUME row' = row, gate' = gate, listening' \in {listening, "down"},
             listening' = "down" \/ (WillMove => WillMove'), WillClose => WillClose',
             listening' = "down" \/ (WillOpen => WillOpen')
      PROVE  HeldOrDue'
  BY <1>2 DEF HeldOrDue
<1>3. ASSUME NEW j \in Gate!Job, Gate!RestartReads(j) PROVE HeldOrDue'
  <2>1. /\ row' = row /\ gate' = gate /\ listening' = listening
        /\ job[j].at \in {"idle", "reading"}
    BY <1>3 DEF Gate!RestartReads, Gate!At
  <2>2. CASE Gate!To(j, "over") /\ Gate!Drops(j)
    <3>1. j \notin GatePatch
      BY <2>2 DEF Gate!Drops
    <3>2. job'[j].at = "over" /\ \A i \in Gate!Job \ {j} : job'[i] = job[i]
      BY <2>2, RequestMoves DEF Gate!Steps
    <3> QED BY <1>2, <2>1, <3>1, <3>2, DueStays DEF Gate!Steps
  <2>3. CASE row # None /\ job' = [job EXCEPT ![j].at = "closing", ![j].row = row]
    <3>1. job'[j].at = "closing" /\ \A k \in Gate!Job \ {j} : job'[k] = job[k]
      BY <2>3, RequestReads DEF Gate!Steps
    <3> QED BY <1>2, <2>1, <3>1, DueStays DEF Gate!Steps
  <2> QED BY <1>3, <2>2, <2>3 DEF Gate!RestartReads
<1>4. ASSUME NEW j \in Gate!Job, Gate!Closes(j) PROVE HeldOrDue'
  <2>1. PICK step \in {"waiting", "free"} : Gate!To(j, step)
    BY <1>4 DEF Gate!Closes
  <2>2. /\ row' = row /\ listening' = listening /\ gate' # "open"
        /\ job[j].at = "closing"
    BY <1>4 DEF Gate!Closes, Gate!CloseGate, Gate!At
  <2>3. job'[j].at = step /\ \A i \in Gate!Job \ {j} : job'[i] = job[i]
    BY <2>1, RequestMoves DEF Gate!Steps
  <2>4. (WillMove => WillMove') /\ WillOpen'
    BY <2>2, <2>3, DueStays DEF Gate!Steps
  <2> QED BY <2>2, <2>4 DEF HeldOrDue
<1>5. ASSUME NEW j \in Gate!Job, Gate!Starts(j) PROVE HeldOrDue'
  <2>1. /\ job[j].row = row /\ row' = row /\ gate' = gate
    BY <1>5 DEF Gate!Starts, Gate!Free, Gate!At, GoesByTheRow, GoesBy
  <2>2. CASE row.mode = "restricted"
    <3>1. listening' = "loopback"
      BY <1>5, <2>1, <2>2 DEF Gate!Starts, Gate!AppIs
    <3>2. PICK step \in {"recording", "syncing"} : Gate!To(j, step)
      BY <1>5, <2>1, <2>2 DEF Gate!Starts
    <3>3. job'[j].at = step /\ \A i \in Gate!Job \ {j} : job'[i] = job[i]
      BY <3>2, RequestMoves DEF Gate!Steps
    <3>4. WillOpen'
      BY <3>3, DueStays DEF Gate!Steps
    <3> QED BY <2>1, <2>2, <3>1, <3>4 DEF HeldOrDue
  <2>3. CASE row.mode # "restricted"
    <3>1. listening' = "public" /\ gate = "closed"
      BY <1>5, <2>1, <2>3 DEF Gate!Starts, Gate!AppIs
    <3> QED BY <2>1, <2>3, <3>1 DEF HeldOrDue
  <2> QED BY <2>2, <2>3
<1>6. ASSUME NEW j \in Gate!Job, Gate!StartFails(j) PROVE HeldOrDue'
  <2>1. /\ row' = row /\ gate' = gate /\ listening' = "down" /\ job[j].at \in {"waiting", "free"}
    BY <1>6 DEF Gate!StartFails, Gate!AppIs, Gate!Free, Gate!At
  <2>2. PICK step \in {"checking", "over", "recording"} : Gate!To(j, step)
    BY <1>6 DEF Gate!StartFails
  <2>3. job'[j].at = step /\ \A i \in Gate!Job \ {j} : job'[i] = job[i]
    BY <2>2, RequestMoves DEF Gate!Steps
  <2>4. WillClose => WillClose'
    BY <2>1, <2>3, DueStays DEF Gate!Steps
  <2> QED BY <1>2, <2>1, <2>4
<1>7. ASSUME NEW j \in Gate!Job, Gate!Records(j) PROVE HeldOrDue'
  <2>1. /\ row' = row /\ gate' = gate /\ listening' = listening /\ job[j].at = "recording"
        /\ Gate!To(j, "syncing")
    BY <1>7 DEF Gate!Records, Gate!At
  <2>2. job'[j].at = "syncing" /\ \A i \in Gate!Job \ {j} : job'[i] = job[i]
    BY <2>1, RequestMoves DEF Gate!Steps
  <2> QED BY <1>2, <2>1, <2>2, DueStays DEF Gate!Steps
<1>8. ASSUME NEW j \in Gate!Job, Gate!SyncsOpen(j) \/ Gate!Swaps(j) \/ Gate!Sets(j)
      PROVE  HeldOrDue'
  <2>1. job[j].at \in {"syncing", "setting"} /\ row' = row /\ listening' = listening
    BY <1>8 DEF Gate!SyncsOpen, Gate!Swaps, Gate!Sets, Gate!At
  <2>2. job[j].row = row
    BY <2>1 DEF GoesByTheRow, GoesBy
  <2>3. PICK step \in {"checking", "over"} : Gate!To(j, step)
    BY <1>8 DEF Gate!SyncsOpen, Gate!Swaps, Gate!Sets, Gate!After
  <2>4. job'[j].at = step /\ \A i \in Gate!Job \ {j} : job'[i] = job[i]
    BY <2>3, RequestMoves DEF Gate!Steps
  <2>5. WillMove => WillMove'
    BY <2>1, <2>4, DueStays DEF Gate!Steps
  <2>6. CASE Gate!SyncsOpen(j)
    <3>1. row.mode = "open" /\ gate' # "open"
      BY <2>2, <2>6 DEF Gate!SyncsOpen, Gate!CloseGate
    <3> QED BY <2>1, <2>5, <3>1 DEF HeldOrDue
  <2>7. CASE Gate!Swaps(j) \/ Gate!Sets(j)
    <3>1. row.mode = "restricted" /\ gate' = "open"
      BY <2>2, <2>7 DEF Gate!Swaps, Gate!Sets, Gate!At, OneOpens
    <3> QED BY <2>1, <2>5, <3>1 DEF HeldOrDue
  <2> QED BY <1>8, <2>6, <2>7
<1>9. ASSUME NEW j \in Gate!Job, Gate!Listens(j) PROVE HeldOrDue'
  <2>1. /\ row' = row /\ listening' = listening /\ listening # "public" /\ job[j].at = "syncing"
        /\ job[j].row.mode = "restricted" /\ Gate!To(j, "setting")
    BY <1>9 DEF Gate!Listens, Gate!At
  <2>2. row.mode = "restricted"
    BY <2>1 DEF GoesByTheRow, GoesBy
  <2>3. job'[j].at = "setting" /\ \A i \in Gate!Job \ {j} : job'[i] = job[i]
    BY <2>1, RequestMoves DEF Gate!Steps
  <2>4. WillOpen'
    BY <2>3, DueStays DEF Gate!Steps
  <2> QED BY <2>1, <2>2, <2>4 DEF HeldOrDue
<1>10. ASSUME NEW j \in Gate!Job, Gate!Refused(j) PROVE HeldOrDue'
  BY <1>10 DEF Gate!Refused
<1>11. ASSUME NEW d \in GateDeploy, Gate!DeployReads(d) PROVE HeldOrDue'
  <2>1. PICK up \in BOOLEAN :
           job' = [job EXCEPT ![d].at = "building", ![d].row = row, ![d].up = up]
    BY <1>11 DEF Gate!DeployReads
  <2>2. d \in Gate!Job /\ "building" \in Gate!Steps /\ None \in Gate!Access \cup {None}
    BY DEF Gate!Job, Gate!Steps
  <2>3. job'[d].at = "building" /\ \A k \in Gate!Job \ {d} : job'[k] = job[k]
    BY <2>1, <2>2, RequestReads
  <2>4. row' = row /\ gate' = gate /\ listening' = listening /\ job[d].at = "idle"
    BY <1>11 DEF Gate!DeployReads, Gate!At
  <2> QED BY <1>2, <2>2, <2>3, <2>4, DueStays
<1>12. ASSUME NEW d \in GateDeploy,
              Gate!DeployStops(d) \/ Gate!DeployFails(d) \/ Gate!DeployEnds(d)
       PROVE  HeldOrDue'
  <2>1. d \in Gate!Job
    BY DEF Gate!Job
  <2>2. /\ row' = row /\ gate' = gate /\ listening' \in {listening, "down"}
        /\ job[d].at \in {"building", "checking"}
    BY <1>12 DEF Gate!DeployStops, Gate!DeployFails, Gate!DeployEnds, Gate!AppIs, Gate!At
  <2>3. PICK step \in Gate!Steps : Gate!To(d, step)
    BY <1>12 DEF Gate!DeployStops, Gate!DeployFails, Gate!DeployEnds, Gate!Steps
  <2>4. job'[d].at = step /\ \A i \in Gate!Job \ {d} : job'[i] = job[i]
    BY <2>1, <2>3, RequestMoves
  <2> QED BY <1>2, <2>1, <2>2, <2>4, DueStays
<1>13. ASSUME NEW p \in GatePatch, NEW access \in Gate!Access, Gate!PatchReads(p, access)
       PROVE  HeldOrDue'
  <2>1. PICK up \in BOOLEAN :
           job' = [job EXCEPT ![p] = [at |-> "writing", row |-> row, next |-> access, up |-> up]]
    BY <1>13 DEF Gate!PatchReads
  <2>2. p \in Gate!Job /\ "writing" \in Gate!Steps /\ access \in Gate!Access \cup {None}
    BY DEF Gate!Job, Gate!Steps
  <2>3. job'[p].at = "writing" /\ \A k \in Gate!Job \ {p} : job'[k] = job[k]
    BY <2>1, <2>2, RequestReads
  <2>4. row' = row /\ gate' = gate /\ listening' = listening /\ job[p].at = "idle"
    BY <1>13 DEF Gate!PatchReads, Gate!At
  <2> QED BY <1>2, <2>2, <2>3, <2>4, DueStays
<1>14. ASSUME NEW p \in GatePatch, Gate!PatchWrites(p) PROVE HeldOrDue'
  <2>1. p \in Gate!Job /\ job[p].at = "writing" /\ gate' = gate /\ listening' = listening
    BY <1>14 DEF Gate!Job, Gate!PatchWrites, Gate!At
  <2>2. \A i \in Gate!Job \ {p} : job[i].at \in {"idle", "over"}
    BY <1>14 DEF Gate!PatchWrites, Gate!Under
  <2>3. job[p].row = row
    BY <2>1 DEF GoesByTheRow, GoesBy
  <2>4. ~WillMove /\ ~WillClose /\ ~WillOpen
    BY <2>1, <2>2 DEF WillMove, WillClose, WillOpen, Gate!Job
  <2>5. row' = job[p].next /\ row' \in Gate!Access
    <3>1. job[p].next \in Gate!Access \cup {None}
      BY <2>1 DEF Gate!TypeOK, Gate!Request
    <3> QED BY <1>14, <3>1 DEF Gate!PatchWrites
  <2>6. CASE row'.mode = row.mode
    BY <2>1, <2>4, <2>6 DEF HeldOrDue
  <2>7. CASE row'.mode # row.mode
    <3>1. PICK step \in {"reading", "rereading"} : Gate!To(p, step)
      BY <1>14, <2>3, <2>5, <2>7 DEF Gate!PatchWrites
    <3>2. job'[p].at = step
      BY <2>1, <3>1, RequestMoves DEF Gate!Steps
    <3>3. WillMove' /\ WillClose'
      BY <3>2 DEF WillMove, WillClose
    <3>4. row.mode = "open" => listening' # "loopback"
      BY <2>1, <2>4 DEF HeldOrDue
    <3>5. row'.mode \in {"open", "restricted"}
      BY <2>5 DEF Gate!Access
    <3> QED BY <1>1, <2>7, <3>3, <3>4, <3>5 DEF HeldOrDue
  <2> QED BY <2>6, <2>7
<1>15. ASSUME NEW p \in GatePatch, Gate!PatchReadsAgain(p) PROVE HeldOrDue'
  <2>1. /\ p \in Gate!Job /\ row' = row /\ gate' = gate /\ listening' = listening
        /\ listening = "down" /\ job[p].at = "rereading"
    BY <1>15 DEF Gate!Job, Gate!PatchReadsAgain, Gate!At
  <2>2. job' = [job EXCEPT ![p].at = "syncing", ![p].row = row]
    BY <1>15 DEF Gate!PatchReadsAgain
  <2>3. job'[p].at = "syncing" /\ \A k \in Gate!Job \ {p} : job'[k] = job[k]
    BY <2>1, <2>2, RequestReads DEF Gate!Steps
  <2> QED BY <1>2, <2>1, <2>3, DueStays DEF Gate!Steps
<1>16. ASSUME NEW d \in GateDelete, Gate!DeleteReads(d) \/ Gate!Removes(d) PROVE HeldOrDue'
  <2>1. /\ d \in Gate!Job /\ row' = row /\ gate' = gate
        /\ \/ job[d].at = "idle" /\ listening' = listening
           \/ job[d].at \in {"waiting", "free"} /\ listening' = "down"
    BY <1>16 DEF Gate!Job, Gate!DeleteReads, Gate!Removes, Gate!AppIs, Gate!Free, Gate!At
  <2>2. PICK step \in {"closing", "forgetting"} : Gate!To(d, step)
    BY <1>16 DEF Gate!DeleteReads, Gate!Removes
  <2>3. job'[d].at = step /\ \A i \in Gate!Job \ {d} : job'[i] = job[i]
    BY <2>1, <2>2, RequestMoves DEF Gate!Steps
  <2>4. WillClose => WillClose'
    BY <2>1, <2>3, DueStays DEF Gate!Steps
  <2>5. job[d].at = "idle" => (WillMove => WillMove') /\ (WillOpen => WillOpen')
    BY <2>1, <2>3, DueStays DEF Gate!Steps
  <2> QED BY <1>2, <2>1, <2>4, <2>5
<1>17. ASSUME NEW d \in GateDelete, Gate!Forgets(d) PROVE HeldOrDue'
  BY <1>17 DEF Gate!Forgets
<1>18. CASE \/ Gate!OperatorStops \/ Gate!AppDies \/ Gate!ClientConnects \/ Gate!ClientsLeave
            \/ UNCHANGED Gate!vars
  <2>1. job' = job /\ row' = row /\ gate' = gate /\ listening' \in {listening, "down"}
    BY <1>18
    DEF Gate!OperatorStops, Gate!AppDies, Gate!ClientConnects, Gate!ClientsLeave, Gate!AppIs,
        Gate!vars
  <2> QED BY <1>2, <2>1 DEF WillMove, WillClose, WillOpen
<1>19. CASE Gate!Dies
  <2>1. row' = row /\ listening' = listening
    BY <1>19 DEF Gate!Dies
  <2>2. ~WillMove
    <3>1. ~\E p \in GatePatch : Gate!Under(p) /\ ~Gate!At(p, "writing")
      BY <1>19 DEF Gate!Dies
    <3> QED BY <3>1 DEF WillMove, Gate!Under, Gate!At
  <2>3. gate' = IF row.mode = "restricted" /\ listening # "public" THEN "open" ELSE "closed"
    BY <1>19 DEF Gate!Dies
  <2> QED BY <2>1, <2>2, <2>3 DEF HeldOrDue
<1> QED
  BY <1>3, <1>4, <1>5, <1>6, <1>7, <1>8, <1>9, <1>10, <1>11, <1>12, <1>13, <1>14, <1>15, <1>16,
     <1>17, <1>18, <1>19
  DEF Gate!Next, Gate!JobStep

\* As the panel comes up the gate is what the row asks for.
LEMMA GateInit ==
    ASSUME Gate!GateAssumption, Gate!Init
    PROVE  GateInv
<1>1. \A j \in Gate!Job : job[j] = Gate!Idle /\ job[j].at = "idle"
  BY DEF Gate!Init, Gate!Idle
<1>2. Gate!TypeOK
  <2>1. 0 \in 0..GateFaults
    BY DEF Gate!GateAssumption
  <2>2. Gate!Idle \in Gate!Request
    BY DEF Gate!Idle, Gate!Request
  <2>3. job \in [Gate!Job -> Gate!Request]
    BY <2>2 DEF Gate!Init
  <2>4. row \in Gate!Access /\ rules \in List \cup {None}
    BY DEF Gate!Init, Gate!Access
  <2> QED BY <2>1, <2>3, <2>4 DEF Gate!Init, Gate!TypeOK
<1>3. OneOpens /\ HasRead /\ GoesByTheRow
  BY <1>1 DEF Gate!Init, OneOpens, HasRead, GoesByTheRow, GoesBy
<1>4. HeldOrDue
  BY DEF Gate!Init, HeldOrDue
<1> QED BY <1>2, <1>3, <1>4 DEF GateInv

\* Every step of the gate keeps its invariant.
LEMMA GateStep ==
    ASSUME Gate!GateAssumption, GateInv, [Gate!Next]_(Gate!vars)
    PROVE  GateInv'
<1>1. Gate!TypeOK' /\ OneOpens' /\ HasRead'
  BY GateTypes, OpensOne, GoesOnByTheRow DEF GateInv
<1>2. ASSUME row' # None, ~stale', ~unapplied' PROVE GoesByTheRow' /\ HeldOrDue'
  <2>1. row # None /\ ~stale /\ ~unapplied
    BY <1>2, MissedStays DEF GateInv
  <2>2. Gate!TypeOK /\ OneOpens /\ HasRead /\ GoesByTheRow /\ HeldOrDue
    BY <2>1 DEF GateInv
  <2> QED BY <1>2, <2>1, <2>2, GoesOnByTheRow, HeldOrDueStays
<1> QED BY <1>1, <1>2 DEF GateInv

-----------------------------------------------------------------------------
(* The moves *)

\* The app runs in a directory that is there.
AppIsSomewhere == app # None => holds[app] # None

\* One copy or rename at a time, and what is copied to has been begun.
OneBusy ==
    /\ \A a, b \in Move :
          /\ move[a].at \in {"copying", "renaming", "linking"}
          /\ move[b].at \in {"copying", "renaming", "linking"}
          => a = b
    /\ \A m \in Move : move[m].at = "copying" => holds[move[m].to] # None

\* A move goes elsewhere, takes the link away only to come home, and sets home aside
\* only to go out.
Itinerary ==
    \A m \in Move :
        /\ move[m].at # "idle" => move[m].from # move[m].to
        /\ move[m].unlinked => move[m].at # "idle" /\ move[m].to = "home"
        /\ move[m].at \in {"renaming", "linking"} => move[m].to # "home"

\* One move is under way at a time.
MovesAlone ==
    \A a, b \in Move :
        move[a].at \notin {"idle", "over"} /\ move[b].at \notin {"idle", "over"} => a = b

\* A copy that is whole has every safe write; and some copy outside does.
Trusted(p) == Repo!Whole(p) => safe \subseteq holds[p]
SafeOutside == \E p \in Outside : Repo!Whole(p) /\ safe \subseteq holds[p]

\* Home is a link or a directory; where it leads is trusted, and has the safe writes
\* unless a copy outside has.
HomeIsTrusted ==
    /\ link # None => holds["home"] = None
    /\ Trusted(Repo!Real)
    /\ Repo!Whole(Repo!Real) \/ SafeOutside

\* What a move would go back to: home as it was, the link it took away, or the
\* checkout it set aside; by the last two the safe writes are outside too.
WayBack(m) ==
    /\ ~move[m].moved /\ ~move[m].unlinked => Repo!Real = move[m].from
    /\ move[m].unlinked =>
          /\ ~move[m].moved /\ link = None
          /\ move[m].from \in Outside /\ Trusted(move[m].from) /\ SafeOutside
    /\ move[m].moved =>
          /\ move[m].to \in Outside /\ link \in {None, move[m].to} /\ holds["home"] = None
          /\ IF move[m].from = "home" THEN "home" \notin torn ELSE holds["aside"] = None
          /\ Trusted("aside") /\ Trusted(move[m].to) /\ SafeOutside

\* How far a move is.
Before(m) == ~move[m].moved /\ ~move[m].unlinked /\ holds[move[m].from] # None /\ holds[move[m].to] = None
Turned(m) == ~move[m].moved /\ (move[m].unlinked <=> move[m].to = "home")
Filled(m) == Trusted(move[m].to) /\ SafeOutside
Reached(m) == Repo!Real = move[m].to /\ (move[m].moved <=> move[m].to # "home")

HowFar(m) ==
    /\ move[m].at \in {"accepted", "stopping", "seeding"} => Before(m)
    /\ move[m].at = "copying" => Turned(m) /\ move[m].to \in torn
    /\ move[m].at \in {"verifying", "recreating", "renaming"} => Turned(m) /\ Filled(m)
    /\ move[m].at = "renaming" => holds["aside"] = None /\ "aside" \notin torn
    /\ move[m].at = "linking" => move[m].moved /\ link = None
    /\ move[m].at \in {"recording", "restarting", "closing"} => Reached(m)

\* Whose home it is: no one's, or that of a move that has been undone.
UnderWay(m) == move[m].at \notin {"idle", "reviving", "failing", "over"}

\* Only a move not yet in the journal leaves the copy left behind to be deleted.
LeftIsNoted ==
    \A m \in Move :
        move[m].at \notin {"idle", "accepted", "over"} =>
            ~(repoMove.phase = "done" /\ repoMove.left = "aside")

\* While no move was cut short, the checkout is whole where home leads, and what a move
\* came from and went to is.
Origin(m) == IF move[m].moved /\ move[m].from = "home" THEN "aside" ELSE move[m].from
WholeAllAlong ==
    /\ (\A m \in Move : UnderWay(m) => move[m].at \in {"accepted", "stopping", "seeding"})
       => Repo!Whole(Repo!Real)
    /\ \A m \in Move : UnderWay(m) =>
          /\ Repo!Whole(Origin(m))
          /\ move[m].at \in {"verifying", "recreating", "renaming", "linking", "recording",
                             "restarting", "closing"}
             => Repo!Whole(move[m].to)

MoveInv ==
    /\ Repo!TypeOK /\ AppIsSomewhere /\ OneBusy /\ Itinerary
    /\ ~movesOverlapped =>
          /\ MovesAlone /\ HomeIsTrusted /\ LeftIsNoted
          /\ \A m \in Move : UnderWay(m) => WayBack(m) /\ HowFar(m)
          /\ ~cut => WholeAllAlong

\* A move that goes on is still one, and the others are as they were.
LEMMA MoveSteps ==
    ASSUME Repo!TypeOK, NEW m \in Move, move[m].at # "idle", NEW step \in Repo!Steps,
           Repo!To(m, step)
    PROVE  /\ move' \in [Move -> Repo!Moving \cup {Repo!Idle}]
           /\ move'[m] \in Repo!Moving
           /\ move'[m].at = step /\ move'[m].from = move[m].from /\ move'[m].to = move[m].to
           /\ move'[m].running = move[m].running
           /\ move'[m].moved = move[m].moved /\ move'[m].unlinked = move[m].unlinked
           /\ \A i \in Move \ {m} : move'[i] = move[i]
<1>1. move \in [Move -> Repo!Moving \cup {Repo!Idle}] /\ move[m] \in Repo!Moving
  BY DEF Repo!TypeOK, Repo!Idle
<1>2. move' = [move EXCEPT ![m] = [move[m] EXCEPT !.at = step]]
  BY DEF Repo!To
<1>3. [move[m] EXCEPT !.at = step] \in Repo!Moving
  BY <1>1 DEF Repo!Moving
<1> QED BY <1>1, <1>2, <1>3 DEF Repo!Moving

\* A move that notes that it has set home aside.
LEMMA NotesMoved ==
    ASSUME Repo!TypeOK, NEW m \in Move, move[m].at # "idle",
           move' = [move EXCEPT ![m].at = "linking", ![m].moved = TRUE]
    PROVE  /\ move' \in [Move -> Repo!Moving \cup {Repo!Idle}]
           /\ move'[m].at = "linking" /\ move'[m].from = move[m].from /\ move'[m].to = move[m].to
           /\ move'[m].moved = TRUE /\ move'[m].unlinked = move[m].unlinked
           /\ \A i \in Move \ {m} : move'[i] = move[i]
<1>1. move \in [Move -> Repo!Moving \cup {Repo!Idle}] /\ move[m] \in Repo!Moving
  BY DEF Repo!TypeOK, Repo!Idle
<1>2. move' = [move EXCEPT ![m] = [[move[m] EXCEPT !.at = "linking"] EXCEPT !.moved = TRUE]]
  BY <1>1
<1>3. [[move[m] EXCEPT !.at = "linking"] EXCEPT !.moved = TRUE] \in Repo!Moving
  BY <1>1 DEF Repo!Moving, Repo!Steps
<1> QED BY <1>1, <1>2, <1>3 DEF Repo!Moving

\* A move that notes whether it has taken the link away.
LEMMA NotesUnlinked ==
    ASSUME Repo!TypeOK, NEW m \in Move, move[m].at # "idle", NEW unlinks \in BOOLEAN,
           move' = [move EXCEPT ![m].at = "copying", ![m].unlinked = unlinks]
    PROVE  /\ move' \in [Move -> Repo!Moving \cup {Repo!Idle}]
           /\ move'[m].at = "copying" /\ move'[m].from = move[m].from /\ move'[m].to = move[m].to
           /\ move'[m].moved = move[m].moved /\ move'[m].unlinked = unlinks
           /\ \A i \in Move \ {m} : move'[i] = move[i]
<1>1. move \in [Move -> Repo!Moving \cup {Repo!Idle}] /\ move[m] \in Repo!Moving
  BY DEF Repo!TypeOK, Repo!Idle
<1>2. move' = [move EXCEPT ![m] = [[move[m] EXCEPT !.at = "copying"] EXCEPT !.unlinked = unlinks]]
  BY <1>1
<1>3. [[move[m] EXCEPT !.at = "copying"] EXCEPT !.unlinked = unlinks] \in Repo!Moving
  BY <1>1 DEF Repo!Moving, Repo!Steps
<1> QED BY <1>1, <1>2, <1>3 DEF Repo!Moving

\* A move that notes what it leaves behind.
LEMMA NotesLeft ==
    ASSUME Repo!TypeOK, NEW m \in Move, move[m].at # "idle", NEW kept \in Repo!Place \cup {None},
           move' = [move EXCEPT ![m].at = "closing", ![m].left = kept]
    PROVE  /\ move' \in [Move -> Repo!Moving \cup {Repo!Idle}]
           /\ move'[m].at = "closing" /\ move'[m].from = move[m].from /\ move'[m].to = move[m].to
           /\ move'[m].moved = move[m].moved /\ move'[m].unlinked = move[m].unlinked
           /\ \A i \in Move \ {m} : move'[i] = move[i]
<1>1. move \in [Move -> Repo!Moving \cup {Repo!Idle}] /\ move[m] \in Repo!Moving
  BY DEF Repo!TypeOK, Repo!Idle
<1>2. move' = [move EXCEPT ![m] = [[move[m] EXCEPT !.at = "closing"] EXCEPT !.left = kept]]
  BY <1>1
<1>3. [[move[m] EXCEPT !.at = "closing"] EXCEPT !.left = kept] \in Repo!Moving
  BY <1>1 DEF Repo!Moving, Repo!Steps
<1> QED BY <1>1, <1>2, <1>3 DEF Repo!Moving

\* A move that has been accepted.
LEMMA MoveAsks ==
    ASSUME Repo!TypeOK, NEW m \in Move, NEW t \in Outside \cup {"home"}, Repo!Asks(m, t)
    PROVE  /\ move' \in [Move -> Repo!Moving \cup {Repo!Idle}]
           /\ move'[m].at = "accepted" /\ move'[m].from = Repo!Real /\ move'[m].to = t
           /\ move'[m].moved = FALSE /\ move'[m].unlinked = FALSE
           /\ \A i \in Move \ {m} : move'[i] = move[i]
<1>1. move \in [Move -> Repo!Moving \cup {Repo!Idle}] /\ Repo!Real \in Outside \cup {"home"}
  BY DEF Repo!TypeOK, Repo!Real
<1>2. PICK running \in BOOLEAN :
         move' = [move EXCEPT ![m] = [Repo!Idle EXCEPT !.at = "accepted", !.from = Repo!Real,
                                                      !.to = t, !.running = running]]
  BY DEF Repo!Asks
<1> DEFINE r == [Repo!Idle EXCEPT !.at = "accepted", !.from = Repo!Real, !.to = t,
                                  !.running = running]
<1>3. /\ r \in Repo!Moving
      /\ r.at = "accepted" /\ r.from = Repo!Real /\ r.to = t
      /\ r.moved = FALSE /\ r.unlinked = FALSE
  BY <1>1 DEF Repo!Idle, Repo!Moving, Repo!Steps
<1>4. move' = [move EXCEPT ![m] = r]
  BY <1>2
<1> HIDE DEF r
<1> QED BY <1>1, <1>3, <1>4

\* Where home leads is a place, and so are its home and what was set aside.
LEMMA Places ==
    ASSUME Repo!TypeOK
    PROVE  /\ "home" \in Repo!Place /\ "aside" \in Repo!Place /\ Outside \subseteq Repo!Place
           /\ Repo!Real \in Outside \cup {"home"} /\ Repo!Real \in Repo!Place
  BY DEF Repo!TypeOK, Repo!Real, Repo!Place

\* What fails in the catch leaves the disk as it was, or home without its link, or
\* what had taken the link's place gone or in part.
LEMMA UndoFailsLeaves ==
    ASSUME NEW m \in Move, Repo!UndoFails(m)
    PROVE  \/ UNCHANGED <<link, holds, torn>> /\ app' \in {app, None}
           \/ /\ move[m].at = "undoing" /\ move[m].moved
              /\ link' = None /\ UNCHANGED <<holds, torn, app>>
           \/ /\ move[m].at = "undoing" /\ move[m].unlinked
              /\ link' = None
              /\ holds' = [holds EXCEPT !["home"] = None] /\ torn' = torn \ {"home"}
              /\ app' = IF app = "home" THEN None ELSE app
           \/ /\ move[m].at = "undoing" /\ move[m].unlinked
              /\ link = None /\ torn' = torn \cup {"home"} /\ UNCHANGED <<link, holds, app>>
BY DEF Repo!UndoFails, Repo!HomeHalfUndone, Repo!disk, Repo!At

\* A move that is not idle has everything a move has.
LEMMA MoveFields ==
    ASSUME Repo!TypeOK, NEW m \in Move, move[m].at # "idle"
    PROVE  /\ move[m].at \in Repo!Steps
           /\ move[m].from \in Outside \cup {"home"} /\ move[m].to \in Outside \cup {"home"}
           /\ move[m].from \in Repo!Place /\ move[m].to \in Repo!Place
           /\ move[m].running \in BOOLEAN /\ move[m].moved \in BOOLEAN
           /\ move[m].unlinked \in BOOLEAN /\ move[m].left \in Repo!Place \cup {None}
<1>1. move[m] \in Repo!Moving
  BY DEF Repo!TypeOK, Repo!Idle
<1> QED BY <1>1 DEF Repo!Moving, Repo!Place

\* A write adds to a directory that is there, and to nothing else.
LEMMA WriteTypes ==
    ASSUME Repo!MoveAssumption, Repo!TypeOK, NEW p \in Repo!Place, holds[p] # None, Repo!Write(p)
    PROVE  /\ holds' \in [Repo!Place -> Repo!Writes \cup {None}]
           /\ made' \in 0..MaxWrites /\ safe' \subseteq 1..made'
           /\ holds'[p] = holds[p] \cup {made + 1}
           /\ holds'[p] # None /\ \A q \in Repo!Place \ {p} : holds'[q] = holds[q]
<1>1. /\ made \in 0..MaxWrites /\ made < MaxWrites /\ made' = made + 1 /\ MaxWrites \in Nat
      /\ safe \subseteq 1..made
  BY DEF Repo!MoveAssumption, Repo!TypeOK, Repo!Write
<1>2. made + 1 \in 1..MaxWrites /\ made' \in 0..MaxWrites /\ 1..made \subseteq 1..made'
      /\ made + 1 \in 1..made'
  BY <1>1
<1>3. safe' \in {safe, safe \cup {made + 1}}
  BY DEF Repo!Write
<1>4. safe' \subseteq 1..made'
  BY <1>1, <1>2, <1>3
<1>5. holds[p] \in Repo!Writes /\ holds \in [Repo!Place -> Repo!Writes \cup {None}]
  BY DEF Repo!TypeOK
<1>6. holds[p] \cup {made + 1} \in Repo!Writes
  BY <1>2, <1>5 DEF Repo!Writes
<1>7. holds' = [holds EXCEPT ![p] = holds[p] \cup {made + 1}]
  BY DEF Repo!Write
<1>8. holds[p] \cup {made + 1} # None
  BY <1>6 DEF Repo!Writes, Repo!MoveAssumption
<1> QED BY <1>2, <1>4, <1>5, <1>6, <1>7, <1>8

\* Every variable of the checkout holds a value of its type.
LEMMA MoveTypes ==
    ASSUME Repo!MoveAssumption, Repo!TypeOK, AppIsSomewhere, OneBusy, Itinerary,
           [Repo!Next]_(Repo!vars)
    PROVE  Repo!TypeOK'
<1> USE DEF Repo!At
<1>1. /\ moveFaults < MoveFaults => moveFaults + 1 \in 0..MoveFaults
      /\ "home" \in Repo!Place /\ "aside" \in Repo!Place /\ Outside \subseteq Repo!Place
      /\ Repo!Real \in Outside \cup {"home"} /\ Repo!Real \in Repo!Place
  BY Places DEF Repo!MoveAssumption, Repo!TypeOK
<1>2. {} \in Repo!Writes /\ \A v, w \in Repo!Writes : v \cup w \in Repo!Writes
  BY DEF Repo!Writes
<1>3. ASSUME NEW m \in Move, NEW t \in Outside \cup {"home"}, Repo!Asks(m, t) PROVE Repo!TypeOK'
  <2>1. move' \in [Move -> Repo!Moving \cup {Repo!Idle}]
    BY <1>3, MoveAsks
  <2>2. movesOverlapped' \in BOOLEAN
    BY <1>3 DEF Repo!Asks, Repo!TypeOK
  <2> QED BY <1>3, <2>1, <2>2 DEF Repo!Asks, Repo!disk, Repo!row, Repo!TypeOK
<1>4. ASSUME NEW m \in Move,
             \/ Repo!Journals(m) \/ Repo!Verifies(m) \/ Repo!Skips(m) \/ Repo!Closes(m)
             \/ Repo!Fails(m) \/ Repo!Records(m) \/ Repo!Misses(m)
      PROVE  Repo!TypeOK'
  <2>1. move[m].at # "idle"
    BY <1>4
    DEF Repo!Journals, Repo!Verifies, Repo!Skips, Repo!Closes, Repo!Fails, Repo!Records, Repo!Misses
  <2>2. PICK step \in Repo!Steps : Repo!To(m, step)
    BY <1>4
    DEF Repo!Journals, Repo!Verifies, Repo!Skips, Repo!Closes, Repo!Fails, Repo!Records,
        Repo!Misses, Repo!Steps
  <2>3. move' \in [Move -> Repo!Moving \cup {Repo!Idle}]
    BY <2>1, <2>2, MoveSteps
  <2>4. move[m].left \in Repo!Place \cup {None} /\ move[m].to \in Outside \cup {"home"}
    BY <2>1, MoveFields
  <2>5. repoMove' \in [phase : Repo!Ended \cup {"moving"}, left : Repo!Place \cup {None}]
    BY <1>4, <2>4
    DEF Repo!Journals, Repo!Verifies, Repo!Skips, Repo!Closes, Repo!Fails, Repo!Records,
        Repo!Misses, Repo!Phase, Repo!Ended, Repo!row, Repo!TypeOK
  <2>6. repoPath' \in Outside \cup {None} /\ moveInFlight' \in BOOLEAN
    BY <1>4, <2>4
    DEF Repo!Journals, Repo!Verifies, Repo!Skips, Repo!Closes, Repo!Fails, Repo!Records,
        Repo!Misses, Repo!Returning, Repo!row, Repo!TypeOK
  <2>7. UNCHANGED <<link, holds, torn, app, status, discarding, made, safe, movesOverlapped, cut,
                    moveFaults>>
    BY <1>4
    DEF Repo!Journals, Repo!Verifies, Repo!Skips, Repo!Closes, Repo!Fails, Repo!Records,
        Repo!Misses, Repo!row, Repo!disk
  <2> QED BY <2>3, <2>5, <2>6, <2>7 DEF Repo!TypeOK
<1>5. ASSUME NEW m \in Move, Repo!Stops(m) PROVE Repo!TypeOK'
  <2>1. /\ move' \in [Move -> Repo!Moving \cup {Repo!Idle}]
        /\ move[m].left \in Repo!Place \cup {None}
    BY <1>5, MoveSteps, MoveFields DEF Repo!Stops, Repo!Steps
  <2>2. repoMove' \in [phase : Repo!Ended \cup {"moving"}, left : Repo!Place \cup {None}]
    BY <1>5, <2>1 DEF Repo!Stops, Repo!Phase
  <2>3. app' \in Repo!Place \cup {None} /\ moveFaults' \in 0..MoveFaults
    BY <1>1, <1>5 DEF Repo!Stops, Repo!Fault, Repo!TypeOK
  <2> QED BY <1>5, <2>1, <2>2, <2>3 DEF Repo!Stops, Repo!TypeOK
<1>6. ASSUME NEW m \in Move, Repo!Seeds(m) PROVE Repo!TypeOK'
  <2>1. /\ move[m].left \in Repo!Place \cup {None} /\ move[m].to \in Repo!Place
        /\ move[m].at # "idle" /\ move[m].moved \in BOOLEAN
    BY <1>6, MoveFields DEF Repo!Seeds
  <2>2. repoMove' \in [phase : Repo!Ended \cup {"moving"}, left : Repo!Place \cup {None}]
    BY <1>6, <2>1 DEF Repo!Seeds, Repo!Phase
  <2>3. PICK unlinks \in BOOLEAN :
           move' = [move EXCEPT ![m].at = "copying", ![m].unlinked = unlinks]
    BY <1>6 DEF Repo!Seeds, Repo!Returning
  <2>4. move' \in [Move -> Repo!Moving \cup {Repo!Idle}]
    BY <2>1, <2>3, NotesUnlinked
  <2>5. holds' \in [Repo!Place -> Repo!Writes \cup {None}]
    BY <1>2, <1>6, <2>1 DEF Repo!Seeds, Repo!TypeOK
  <2>6. link' \in Outside \cup {None} /\ torn' \subseteq Repo!Place
    BY <1>6, <2>1 DEF Repo!Seeds, Repo!TypeOK
  <2> QED BY <1>6, <2>2, <2>4, <2>5, <2>6 DEF Repo!Seeds, Repo!TypeOK
<1>7. ASSUME NEW m \in Move, Repo!Copies(m) PROVE Repo!TypeOK'
  <2>1. /\ move' \in [Move -> Repo!Moving \cup {Repo!Idle}]
        /\ move[m].from \in Repo!Place /\ move[m].to \in Repo!Place
    BY <1>7, MoveSteps, MoveFields DEF Repo!Copies, Repo!Steps
  <2>2. holds[move[m].to] # None /\ holds[move[m].from] # None
    BY <1>7 DEF Repo!Copies, OneBusy
  <2>3. holds[move[m].to] \cup holds[move[m].from] \in Repo!Writes
    BY <1>2, <2>1, <2>2 DEF Repo!TypeOK
  <2>4. holds' \in [Repo!Place -> Repo!Writes \cup {None}]
    BY <1>7, <2>1, <2>3 DEF Repo!Copies, Repo!TypeOK
  <2>5. torn' \subseteq Repo!Place
    BY <1>7, <2>1 DEF Repo!Copies, Repo!TypeOK
  <2> QED BY <1>7, <2>1, <2>4, <2>5 DEF Repo!Copies, Repo!row, Repo!TypeOK
<1>8. ASSUME NEW m \in Move, Repo!Clears(m) PROVE Repo!TypeOK'
  <2>1. /\ move' \in [Move -> Repo!Moving \cup {Repo!Idle}]
        /\ move[m].left \in Repo!Place \cup {None}
    BY <1>8, MoveSteps, MoveFields DEF Repo!Clears, Repo!Steps
  <2>2. repoMove' \in [phase : Repo!Ended \cup {"moving"}, left : Repo!Place \cup {None}]
    BY <1>8, <2>1 DEF Repo!Clears, Repo!Phase
  <2>3. holds' \in [Repo!Place -> Repo!Writes \cup {None}] /\ torn' \subseteq Repo!Place
    BY <1>8 DEF Repo!Clears, Repo!TypeOK
  <2> QED BY <1>8, <2>1, <2>2, <2>3 DEF Repo!Clears, Repo!TypeOK
<1>9. ASSUME NEW m \in Move, Repo!SetsAside(m) PROVE Repo!TypeOK'
  <2>1. move[m].unlinked \in BOOLEAN /\ move[m].left \in Repo!Place \cup {None} /\ move[m].at # "idle"
    BY <1>9, MoveFields DEF Repo!SetsAside
  <2>2. move' = [move EXCEPT ![m].at = "linking", ![m].moved = TRUE]
    BY <1>9 DEF Repo!SetsAside
  <2>3. move' \in [Move -> Repo!Moving \cup {Repo!Idle}]
    BY <2>1, <2>2, NotesMoved
  <2>4. holds' \in [Repo!Place -> Repo!Writes \cup {None}] /\ torn' \subseteq Repo!Place
    BY <1>1, <1>9 DEF Repo!SetsAside, Repo!TypeOK
  <2>5. link' \in Outside \cup {None} /\ app' \in Repo!Place \cup {None}
    BY <1>1, <1>9 DEF Repo!SetsAside, Repo!TypeOK
  <2> QED BY <1>9, <2>3, <2>4, <2>5 DEF Repo!SetsAside, Repo!row, Repo!TypeOK
<1>10. ASSUME NEW m \in Move, Repo!Links(m) PROVE Repo!TypeOK'
  <2>1. /\ move' \in [Move -> Repo!Moving \cup {Repo!Idle}]
        /\ move[m].to \in Outside \cup {"home"} /\ move[m].to # "home"
    BY <1>10, MoveSteps, MoveFields DEF Repo!Links, Repo!Steps, Itinerary
  <2>2. link' \in Outside \cup {None}
    BY <1>10, <2>1 DEF Repo!Links
  <2> QED BY <1>10, <2>1, <2>2 DEF Repo!Links, Repo!row, Repo!TypeOK
<1>11. ASSUME NEW m \in Move, Repo!Restarts(m) \/ Repo!Revives(m) PROVE Repo!TypeOK'
  <2>1. app' \in Repo!Place \cup {None} /\ status' \in {"running", "stopped", "deploying"}
    BY <1>1, <1>11 DEF Repo!Restarts, Repo!Revives, Repo!Restart, Repo!TypeOK
  <2>2. /\ move[m].at # "idle" /\ move[m].from \in Repo!Place
        /\ move[m].moved \in BOOLEAN /\ move[m].unlinked \in BOOLEAN
    BY <1>11, MoveFields DEF Repo!Restarts, Repo!Revives
  <2>3. move' \in [Move -> Repo!Moving \cup {Repo!Idle}]
    <3>1. CASE Repo!Restarts(m)
      <4>1. PICK left \in Repo!Place \cup {None} :
               move' = [move EXCEPT ![m].at = "closing", ![m].left = left]
        BY <1>1, <2>2, <3>1 DEF Repo!Restarts
      <4> QED BY <2>2, <4>1, NotesLeft
    <3>2. CASE Repo!Revives(m)
      BY <2>2, <3>2, MoveSteps DEF Repo!Revives, Repo!Steps
    <3> QED BY <1>11, <3>1, <3>2
  <2> QED BY <1>11, <2>1, <2>3 DEF Repo!Restarts, Repo!Revives, Repo!TypeOK
<1>12. ASSUME NEW m \in Move, Repo!Throws(m) \/ Repo!UndoFails(m) PROVE Repo!TypeOK'
  <2>1. move[m].at # "idle"
    BY <1>12 DEF Repo!Throws, Repo!UndoFails
  <2>2. PICK step \in Repo!Steps : Repo!To(m, step)
    BY <1>12 DEF Repo!Throws, Repo!UndoFails, Repo!Steps
  <2>3. move' \in [Move -> Repo!Moving \cup {Repo!Idle}]
    BY <2>1, <2>2, MoveSteps
  <2>4. app' \in Repo!Place \cup {None} /\ link' \in Outside \cup {None}
    BY <1>1, <1>12, UndoFailsLeaves DEF Repo!Throws, Repo!TypeOK
  <2>5. moveInFlight' \in BOOLEAN /\ cut' \in BOOLEAN
    BY <1>12 DEF Repo!Throws, Repo!UndoFails, Repo!TypeOK
  <2>6. moveFaults' \in 0..MoveFaults
    BY <1>1, <1>12 DEF Repo!Throws, Repo!UndoFails, Repo!Fault, Repo!TypeOK
  <2>7. UNCHANGED <<status, repoPath, repoMove, discarding, made, safe, movesOverlapped>>
    BY <1>12 DEF Repo!Throws, Repo!UndoFails, Repo!row
  <2>8. holds' \in [Repo!Place -> Repo!Writes \cup {None}] /\ torn' \subseteq Repo!Place
    BY <1>12, UndoFailsLeaves, Places DEF Repo!Throws, Repo!TypeOK
  <2> QED BY <2>3, <2>4, <2>5, <2>6, <2>7, <2>8 DEF Repo!TypeOK
<1>13. ASSUME NEW m \in Move, Repo!Undoes(m) PROVE Repo!TypeOK'
  <2>1. /\ move' \in [Move -> Repo!Moving \cup {Repo!Idle}]
        /\ move[m].left \in Repo!Place \cup {None}
        /\ move[m].moved \in BOOLEAN /\ move[m].unlinked \in BOOLEAN
        /\ move[m].from \in Outside \cup {"home"} /\ move[m].at # "idle"
    BY <1>13, MoveSteps, MoveFields DEF Repo!Undoes, Repo!Steps
  <2>2. repoMove' \in [phase : Repo!Ended \cup {"moving"}, left : Repo!Place \cup {None}]
    BY <1>13, <2>1 DEF Repo!Undoes, Repo!Phase
  <2>3. holds' \in [Repo!Place -> Repo!Writes \cup {None}] /\ torn' \subseteq Repo!Place
    BY <1>1, <1>13, <2>1 DEF Repo!Undoes, Repo!disk, Repo!TypeOK
  <2>4. move[m].unlinked => move[m].from \in Outside
    BY <2>1 DEF Itinerary
  <2>5. link' \in Outside \cup {None} /\ app' \in Repo!Place \cup {None} /\ cut' \in BOOLEAN
    BY <1>1, <1>13, <2>1, <2>4 DEF Repo!Undoes, Repo!disk, Repo!TypeOK
  <2> QED BY <1>13, <2>1, <2>2, <2>3, <2>5 DEF Repo!Undoes, Repo!TypeOK
<1>14. CASE Repo!Discards
  <2>1. holds' \in [Repo!Place -> Repo!Writes \cup {None}] /\ torn' \subseteq Repo!Place
    BY <1>14 DEF Repo!Discards, Repo!TypeOK
  <2> QED BY <1>14, <2>1 DEF Repo!Discards, Repo!row, Repo!TypeOK
<1>15. CASE Repo!Notes
  <2>1. repoMove' \in [phase : Repo!Ended \cup {"moving"}, left : Repo!Place \cup {None}]
    BY <1>15 DEF Repo!Notes, Repo!Ended
  <2> QED BY <1>15, <2>1 DEF Repo!Notes, Repo!disk, Repo!TypeOK
<1>16. CASE Repo!AppWrites
  <2>1. app \in Repo!Place /\ holds[app] # None /\ Repo!Write(app)
    BY <1>16 DEF Repo!AppWrites, AppIsSomewhere, Repo!TypeOK
  <2>2. /\ holds' \in [Repo!Place -> Repo!Writes \cup {None}]
        /\ made' \in 0..MaxWrites /\ safe' \subseteq 1..made'
    BY <2>1, WriteTypes
  <2> QED BY <1>16, <2>2 DEF Repo!AppWrites, Repo!row, Repo!TypeOK
<1>17. CASE Repo!DeployFetches
  <2>1. holds[Repo!Real] # None /\ Repo!Write(Repo!Real)
    BY <1>17 DEF Repo!DeployFetches, Repo!Leads
  <2>2. /\ holds' \in [Repo!Place -> Repo!Writes \cup {None}]
        /\ made' \in 0..MaxWrites /\ safe' \subseteq 1..made'
    BY <1>1, <2>1, WriteTypes
  <2> QED BY <1>17, <2>2 DEF Repo!DeployFetches, Repo!TypeOK
<1>18. CASE Repo!OperatorStarts \/ Repo!OperatorStops \/ Repo!DeployEnds
  BY <1>1, <1>18
  DEF Repo!OperatorStarts, Repo!OperatorStops, Repo!DeployEnds, Repo!Restart, Repo!TypeOK
<1>19. CASE Repo!Dies
  <2>1. move' \in [Move -> Repo!Moving \cup {Repo!Idle}]
    <3>1. \A m \in Move : move[m].at = "idle" \/ move[m] \in Repo!Moving
      BY DEF Repo!TypeOK, Repo!Idle
    <3>2. \A r \in Repo!Moving : [r EXCEPT !.at = "over"] \in Repo!Moving
      BY DEF Repo!Moving, Repo!Steps
    <3> QED BY <1>19, <3>1, <3>2 DEF Repo!Dies
  <2>2. cut' \in BOOLEAN /\ moveFaults' \in 0..MoveFaults
    BY <1>1, <1>19 DEF Repo!Dies, Repo!Fault, Repo!TypeOK
  <2> QED BY <1>19, <2>1, <2>2 DEF Repo!Dies, Repo!disk, Repo!TypeOK
<1>20. CASE UNCHANGED Repo!vars
  BY <1>20 DEF Repo!vars, Repo!disk, Repo!row, Repo!TypeOK
<1> QED
  BY <1>3, <1>4, <1>5, <1>6, <1>7, <1>8, <1>9, <1>10, <1>11, <1>12, <1>13, <1>14, <1>15, <1>16,
     <1>17, <1>18, <1>19, <1>20
  DEF Repo!Next, Repo!MoveStep

\* What every step of a move is like: it moves on, alone where it copies or renames.
LEMMA MoveActs ==
    ASSUME Repo!MoveAssumption, Repo!TypeOK, NEW m \in Move,
           Repo!MoveStep(m) \/ Repo!Throws(m) \/ Repo!UndoFails(m)
    PROVE  /\ move[m].at \notin {"idle", "over"}
           /\ move'[m].at \in Repo!Steps
           /\ move'[m].from = move[m].from /\ move'[m].to = move[m].to
           /\ \A i \in Move \ {m} : move'[i] = move[i]
           /\ move'[m].unlinked => move[m].unlinked \/ move[m].to = "home"
           /\ move'[m].at \in {"renaming", "linking"} =>
                 move[m].to # "home" \/ move[m].at = "renaming"
           /\ move'[m].at \in {"copying", "renaming", "linking"} =>
                 Repo!Free \/ move[m].at = "renaming"
           /\ move'[m].at = "copying" => holds'[move[m].to] # None
           /\ move[m].at \in {"copying", "renaming", "linking"} \/ Repo!Free \/ holds' = holds
<1> USE DEF Repo!At
<1>1. CASE Repo!Seeds(m)
  <2>1. move[m].at = "seeding" /\ Repo!Free /\ move[m].moved \in BOOLEAN /\ move[m].to \in Repo!Place
    BY <1>1, MoveFields DEF Repo!Seeds
  <2>2. PICK unlinks \in BOOLEAN :
           /\ move' = [move EXCEPT ![m].at = "copying", ![m].unlinked = unlinks]
           /\ unlinks => move[m].to = "home"
    BY <1>1 DEF Repo!Seeds, Repo!Returning
  <2>3. /\ move'[m].at = "copying" /\ move'[m].unlinked = unlinks
        /\ move'[m].from = move[m].from /\ move'[m].to = move[m].to
        /\ \A i \in Move \ {m} : move'[i] = move[i]
    BY <2>1, <2>2, NotesUnlinked
  <2>4. holds'[move[m].to] # None
    <3>1. holds' = [holds EXCEPT ![move[m].to] = IF holds[move[m].to] = None THEN {} ELSE holds[move[m].to]]
      BY <1>1 DEF Repo!Seeds
    <3>2. {} # None
      BY DEF Repo!MoveAssumption
    <3> QED BY <2>1, <3>1, <3>2 DEF Repo!TypeOK
  <2> QED BY <2>1, <2>2, <2>3, <2>4 DEF Repo!Steps
<1>2. CASE Repo!SetsAside(m)
  <2>1. move[m].at = "renaming" /\ move[m].unlinked \in BOOLEAN /\ move[m].left \in Repo!Place \cup {None}
    BY <1>2, MoveFields DEF Repo!SetsAside
  <2>2. move' = [move EXCEPT ![m].at = "linking", ![m].moved = TRUE]
    BY <1>2 DEF Repo!SetsAside
  <2>3. /\ move'[m].at = "linking" /\ move'[m].unlinked = move[m].unlinked
        /\ move'[m].from = move[m].from /\ move'[m].to = move[m].to
        /\ \A i \in Move \ {m} : move'[i] = move[i]
    BY <2>1, <2>2, NotesMoved
  <2> QED BY <2>1, <2>3 DEF Repo!Steps
<1>3. CASE Repo!Restarts(m)
  <2>1. /\ move[m].at = "restarting" /\ Repo!Free
        /\ move[m].moved \in BOOLEAN /\ move[m].unlinked \in BOOLEAN /\ move[m].from \in Repo!Place
    BY <1>3, MoveFields DEF Repo!Restarts
  <2>2. PICK left \in Repo!Place \cup {None} :
           move' = [move EXCEPT ![m].at = "closing", ![m].left = left]
    BY <1>3, <2>1, Places DEF Repo!Restarts
  <2>3. /\ move'[m].at = "closing" /\ move'[m].unlinked = move[m].unlinked
        /\ move'[m].from = move[m].from /\ move'[m].to = move[m].to
        /\ \A i \in Move \ {m} : move'[i] = move[i]
    BY <2>1, <2>2, NotesLeft
  <2> QED BY <2>1, <2>3 DEF Repo!Steps
<1>4. CASE \/ Repo!Journals(m) \/ Repo!Stops(m) \/ Repo!Copies(m) \/ Repo!Verifies(m)
           \/ Repo!Clears(m) \/ Repo!Links(m) \/ Repo!Skips(m) \/ Repo!Records(m)
           \/ Repo!Closes(m) \/ Repo!Misses(m) \/ Repo!Undoes(m) \/ Repo!Revives(m)
           \/ Repo!Fails(m) \/ Repo!Throws(m) \/ Repo!UndoFails(m)
  <2>1. move[m].at \notin {"idle", "over"}
    BY <1>4
    DEF Repo!Journals, Repo!Stops, Repo!Copies, Repo!Verifies, Repo!Clears, Repo!Links, Repo!Skips,
        Repo!Records, Repo!Closes, Repo!Misses, Repo!Undoes, Repo!Revives, Repo!Fails,
        Repo!Throws, Repo!UndoFails
  <2>2. PICK step \in Repo!Steps \ {"copying", "linking"} :
           /\ Repo!To(m, step)
           /\ step = "renaming" => move[m].to # "home" /\ Repo!Free
    BY <1>4
    DEF Repo!Journals, Repo!Stops, Repo!Copies, Repo!Verifies, Repo!Clears, Repo!Links, Repo!Skips,
        Repo!Records, Repo!Closes, Repo!Misses, Repo!Undoes, Repo!Revives, Repo!Fails,
        Repo!Throws, Repo!UndoFails, Repo!Returning, Repo!Steps
  <2>3. move[m].at \in {"copying", "renaming", "linking"} \/ Repo!Free \/ holds' = holds
    BY <1>4
    DEF Repo!Journals, Repo!Stops, Repo!Copies, Repo!Verifies, Repo!Clears, Repo!Links, Repo!Skips,
        Repo!Records, Repo!Closes, Repo!Misses, Repo!Undoes, Repo!Revives, Repo!Fails,
        Repo!Throws, Repo!UndoFails, Repo!disk
  <2>4. /\ move'[m].at = step /\ move'[m].unlinked = move[m].unlinked
        /\ move'[m].from = move[m].from /\ move'[m].to = move[m].to
        /\ \A i \in Move \ {m} : move'[i] = move[i]
    BY <2>1, <2>2, MoveSteps
  <2> QED BY <2>1, <2>2, <2>3, <2>4
<1> QED BY <1>1, <1>2, <1>3, <1>4 DEF Repo!MoveStep

\* What the others do leaves the moves as they were, and a copy under way its target.
LEMMA OthersAct ==
    ASSUME Repo!MoveAssumption, Repo!TypeOK, AppIsSomewhere,
           \/ Repo!Discards \/ Repo!Notes \/ Repo!AppWrites \/ Repo!OperatorStarts
           \/ Repo!OperatorStops \/ Repo!DeployFetches \/ Repo!DeployEnds \/ UNCHANGED Repo!vars
    PROVE  /\ move' = move
           /\ Repo!Free \/ \A p \in Repo!Place : holds[p] # None => holds'[p] # None
<1>1. CASE Repo!AppWrites
  <2>1. app \in Repo!Place /\ holds[app] # None /\ Repo!Write(app)
    BY <1>1 DEF Repo!AppWrites, AppIsSomewhere, Repo!TypeOK
  <2> QED BY <1>1, <2>1, WriteTypes DEF Repo!AppWrites
<1>2. CASE \/ Repo!Discards \/ Repo!Notes \/ Repo!OperatorStarts \/ Repo!OperatorStops
           \/ Repo!DeployFetches \/ Repo!DeployEnds
  BY <1>2
  DEF Repo!Discards, Repo!Notes, Repo!OperatorStarts, Repo!OperatorStops, Repo!DeployFetches,
      Repo!DeployEnds
<1>3. CASE UNCHANGED Repo!vars
  BY <1>3 DEF Repo!vars, Repo!disk
<1> QED BY <1>1, <1>2, <1>3

\* After the panel has died every move is idle or over.
LEMMA AllOver ==
    ASSUME Repo!TypeOK, Repo!Dies
    PROVE  \A m \in Move :
              /\ move'[m].at \in {"idle", "over"}
              /\ move'[m].at = "idle" => move'[m].unlinked = FALSE
              /\ move'[m].at # "idle" =>
                    /\ move[m].at # "idle" /\ move'[m].unlinked = move[m].unlinked
                    /\ move'[m].from = move[m].from /\ move'[m].to = move[m].to
<1> SUFFICES ASSUME NEW m \in Move
             PROVE  /\ move'[m].at \in {"idle", "over"}
                    /\ move'[m].at = "idle" => move'[m].unlinked = FALSE
                    /\ move'[m].at # "idle" =>
                          /\ move[m].at # "idle" /\ move'[m].unlinked = move[m].unlinked
                          /\ move'[m].from = move[m].from /\ move'[m].to = move[m].to
  OBVIOUS
<1>1. CASE move[m].at = "idle"
  <2>1. move'[m] = Repo!Idle
    BY <1>1 DEF Repo!Dies
  <2> QED BY <2>1 DEF Repo!Idle
<1>2. CASE move[m].at # "idle"
  <2>1. move[m] \in Repo!Moving
    BY <1>2 DEF Repo!TypeOK, Repo!Idle
  <2>2. move'[m] = [move[m] EXCEPT !.at = "over"]
    BY <1>2 DEF Repo!Dies
  <2> QED BY <1>2, <2>1, <2>2 DEF Repo!Moving
<1> QED BY <1>1, <1>2

\* One copy or rename at a time, and every move where it was to go.
LEMMA MoveOneBusy ==
    ASSUME Repo!MoveAssumption, Repo!TypeOK, AppIsSomewhere, OneBusy, Itinerary,
           [Repo!Next]_(Repo!vars)
    PROVE  OneBusy' /\ Itinerary'
<1>1. ASSUME NEW m \in Move, Repo!MoveStep(m) \/ Repo!Throws(m) \/ Repo!UndoFails(m)
      PROVE  OneBusy' /\ Itinerary'
  <2>1. /\ move[m].at \notin {"idle", "over"}
        /\ move'[m].from = move[m].from /\ move'[m].to = move[m].to
        /\ \A i \in Move \ {m} : move'[i] = move[i]
    BY <1>1, MoveActs
  <2>2. move'[m].at \in {"copying", "renaming", "linking"} => Repo!Free \/ move[m].at = "renaming"
    BY <1>1, MoveActs
  <2>3. \A a, b \in Move :
           /\ move'[a].at \in {"copying", "renaming", "linking"}
           /\ move'[b].at \in {"copying", "renaming", "linking"}
           => a = b
    BY <2>1, <2>2 DEF OneBusy, Repo!Free
  <2>4. ASSUME NEW i \in Move, move'[i].at = "copying" PROVE holds'[move'[i].to] # None
    <3>1. CASE i = m
      BY <1>1, <2>1, <2>4, <3>1, MoveActs
    <3>2. CASE i # m
      <4>1. move[i].at = "copying" /\ move'[i] = move[i]
        BY <2>1, <2>4, <3>2
      <4>2. holds' = holds
        BY <1>1, <3>2, <4>1, MoveActs DEF OneBusy, Repo!Free
      <4> QED BY <4>1, <4>2 DEF OneBusy
    <3> QED BY <3>1, <3>2
  <2>5. Itinerary'
    <3>1. /\ move'[m].unlinked => move[m].unlinked \/ move[m].to = "home"
          /\ move'[m].at \in {"renaming", "linking"} =>
                move[m].to # "home" \/ move[m].at = "renaming"
          /\ move'[m].at # "idle"
      BY <1>1, MoveActs DEF Repo!Steps
    <3> QED BY <2>1, <3>1 DEF Itinerary
  <2> QED BY <2>3, <2>4, <2>5 DEF OneBusy
<1>2. ASSUME NEW m \in Move, NEW t \in Outside \cup {"home"}, Repo!Asks(m, t)
      PROVE  OneBusy' /\ Itinerary'
  <2>1. /\ move'[m].at = "accepted" /\ move'[m].from = Repo!Real /\ move'[m].to = t
        /\ move'[m].unlinked = FALSE
        /\ \A i \in Move \ {m} : move'[i] = move[i]
    BY <1>2, MoveAsks
  <2>2. Repo!Real # t /\ holds' = holds
    BY <1>2 DEF Repo!Asks, Repo!disk
  <2> QED BY <2>1, <2>2 DEF OneBusy, Itinerary
<1>3. CASE \/ Repo!Discards \/ Repo!Notes \/ Repo!AppWrites \/ Repo!OperatorStarts
           \/ Repo!OperatorStops \/ Repo!DeployFetches \/ Repo!DeployEnds \/ UNCHANGED Repo!vars
  <2>1. move' = move /\ (Repo!Free \/ \A p \in Repo!Place : holds[p] # None => holds'[p] # None)
    BY <1>3, OthersAct
  <2>2. \A i \in Move : move[i].at = "copying" => move[i].to \in Repo!Place
    BY MoveFields
  <2> QED BY <2>1, <2>2 DEF OneBusy, Itinerary, Repo!Free
<1>4. CASE Repo!Dies
  BY <1>4, AllOver DEF OneBusy, Itinerary
<1> QED BY <1>1, <1>2, <1>3, <1>4 DEF Repo!Next

\* The app is down when what it ran in is removed, and follows what is renamed.
LEMMA MoveApp ==
    ASSUME Repo!MoveAssumption, Repo!TypeOK, AppIsSomewhere, OneBusy, [Repo!Next]_(Repo!vars)
    PROVE  AppIsSomewhere'
<1>1. /\ app \in Repo!Place \cup {None} /\ holds \in [Repo!Place -> Repo!Writes \cup {None}]
      /\ \A w \in Repo!Writes : w # None
  BY DEF Repo!TypeOK, Repo!MoveAssumption, Repo!Writes
<1>2. /\ "home" \in Repo!Place /\ "aside" \in Repo!Place /\ Repo!Real \in Repo!Place
  BY Places
<1>3. ASSUME holds' = holds, app' \in {app, None} \/ (Repo!Leads /\ app' = Repo!Real)
      PROVE  AppIsSomewhere'
  BY <1>3 DEF AppIsSomewhere, Repo!Leads
<1>4. ASSUME NEW m \in Move, Repo!Seeds(m) PROVE AppIsSomewhere'
  BY <1>1, <1>4 DEF Repo!Seeds, AppIsSomewhere, Repo!MoveAssumption
<1>5. ASSUME NEW m \in Move, Repo!Copies(m) PROVE AppIsSomewhere'
  <2>1. /\ move[m].from \in Repo!Place /\ move[m].to \in Repo!Place
        /\ holds[move[m].to] # None /\ holds[move[m].from] # None
    BY <1>5, MoveFields DEF Repo!Copies, Repo!At, OneBusy
  <2>2. holds[move[m].to] \cup holds[move[m].from] # None
    <3>1. holds[move[m].to] \cup holds[move[m].from] \in Repo!Writes
      BY <1>1, <2>1 DEF Repo!Writes
    <3> QED BY <1>1, <3>1
  <2> QED BY <1>1, <1>5, <2>1, <2>2 DEF Repo!Copies, AppIsSomewhere
<1>6. ASSUME NEW m \in Move, Repo!Clears(m) \/ Repo!SetsAside(m) PROVE AppIsSomewhere'
  BY <1>1, <1>2, <1>6 DEF Repo!Clears, Repo!SetsAside, AppIsSomewhere
<1>7. ASSUME NEW m \in Move, Repo!Undoes(m) PROVE AppIsSomewhere'
  BY <1>1, <1>2, <1>7 DEF Repo!Undoes, Repo!disk, AppIsSomewhere
<1>8. ASSUME NEW m \in Move,
             \/ Repo!Journals(m) \/ Repo!Stops(m) \/ Repo!Verifies(m) \/ Repo!Links(m)
             \/ Repo!Skips(m) \/ Repo!Records(m) \/ Repo!Restarts(m) \/ Repo!Closes(m)
             \/ Repo!Misses(m) \/ Repo!Revives(m) \/ Repo!Fails(m) \/ Repo!Throws(m)
             \/ \E t \in Outside \cup {"home"} : Repo!Asks(m, t)
      PROVE  AppIsSomewhere'
  <2>1. holds' = holds
    BY <1>8
    DEF Repo!Journals, Repo!Stops, Repo!Verifies, Repo!Links, Repo!Skips, Repo!Records,
        Repo!Restarts, Repo!Closes, Repo!Misses, Repo!Revives, Repo!Fails, Repo!Throws,
        Repo!Asks, Repo!disk
  <2>2. app' \in {app, None} \/ (Repo!Leads /\ app' = Repo!Real)
    BY <1>8
    DEF Repo!Journals, Repo!Stops, Repo!Verifies, Repo!Links, Repo!Skips, Repo!Records,
        Repo!Restarts, Repo!Closes, Repo!Misses, Repo!Revives, Repo!Fails, Repo!Throws,
        Repo!Asks, Repo!disk, Repo!Restart
  <2> QED BY <1>3, <2>1, <2>2
<1>9. CASE \/ Repo!Notes \/ Repo!OperatorStarts \/ Repo!OperatorStops \/ Repo!DeployEnds
           \/ Repo!Dies \/ UNCHANGED Repo!vars
  <2>1. /\ holds' = holds
        /\ app' \in {app, None} \/ (Repo!Leads /\ app' = Repo!Real)
    BY <1>9
    DEF Repo!Notes, Repo!OperatorStarts, Repo!OperatorStops, Repo!DeployEnds, Repo!Dies,
        Repo!disk, Repo!vars, Repo!Restart
  <2> QED BY <1>3, <2>1
<1>10. CASE Repo!Discards
  BY <1>1, <1>10 DEF Repo!Discards, AppIsSomewhere
<1>11. CASE Repo!AppWrites
  <2>1. app \in Repo!Place /\ holds[app] # None /\ Repo!Write(app) /\ app' = app
    BY <1>1, <1>11 DEF Repo!AppWrites, AppIsSomewhere
  <2> QED BY <2>1, WriteTypes DEF AppIsSomewhere
<1>12. CASE Repo!DeployFetches
  <2>1. holds[Repo!Real] # None /\ Repo!Write(Repo!Real) /\ app' = app
    BY <1>12 DEF Repo!DeployFetches, Repo!Leads
  <2> QED BY <1>1, <1>2, <2>1, WriteTypes DEF AppIsSomewhere
<1>13. ASSUME NEW m \in Move, Repo!UndoFails(m) PROVE AppIsSomewhere'
  BY <1>1, <1>2, <1>3, <1>13, UndoFailsLeaves DEF AppIsSomewhere
<1> QED
  BY <1>4, <1>5, <1>6, <1>7, <1>8, <1>9, <1>10, <1>11, <1>12, <1>13
  DEF Repo!Next, Repo!MoveStep

\* A step that leaves the disk, and what a move has noted, as they were.
LEMMA DiskKept ==
    ASSUME UNCHANGED <<link, holds, torn, safe>>, HomeIsTrusted
    PROVE  /\ HomeIsTrusted'
           /\ \A m \in Move :
                 /\ move'[m].from = move[m].from /\ move'[m].to = move[m].to
                 /\ move'[m].moved = move[m].moved /\ move'[m].unlinked = move[m].unlinked
                 => /\ WayBack(m) => WayBack(m)'
                    /\ Before(m) => Before(m)'
                    /\ Turned(m) => Turned(m)'
                    /\ Filled(m) => Filled(m)'
                    /\ Reached(m) => Reached(m)'
<1>1. HomeIsTrusted'
  BY DEF HomeIsTrusted, Trusted, SafeOutside, Repo!Real, Repo!Whole
<1>2. ASSUME NEW m \in Move,
             move'[m].from = move[m].from, move'[m].to = move[m].to,
             move'[m].moved = move[m].moved, move'[m].unlinked = move[m].unlinked
      PROVE  /\ WayBack(m) => WayBack(m)'
             /\ Before(m) => Before(m)'
             /\ Turned(m) => Turned(m)'
             /\ Filled(m) => Filled(m)'
             /\ Reached(m) => Reached(m)'
  <2>1. WayBack(m) => WayBack(m)'
    BY <1>2 DEF WayBack, Trusted, SafeOutside, Repo!Real, Repo!Whole
  <2>2. (Before(m) => Before(m)') /\ (Turned(m) => Turned(m)') /\ (Reached(m) => Reached(m)')
    BY <1>2 DEF Before, Turned, Reached, Repo!Real
  <2>3. Filled(m) => Filled(m)'
    BY <1>2 DEF Filled, Trusted, SafeOutside, Repo!Whole
  <2> QED BY <2>1, <2>2, <2>3
<1> QED BY <1>1, <1>2

\* The steps of a move that leave the disk as it was, and how far each takes it.
LEMMA MoveStepsOffDisk ==
    ASSUME Repo!MoveAssumption, Repo!TypeOK, NEW m \in Move,
           \/ Repo!Journals(m) \/ Repo!Stops(m) \/ Repo!Verifies(m) \/ Repo!Skips(m)
           \/ Repo!Records(m) \/ Repo!Restarts(m) \/ Repo!Closes(m) \/ Repo!Misses(m)
           \/ Repo!Revives(m) \/ Repo!Fails(m) \/ Repo!Throws(m)
    PROVE  /\ UNCHANGED <<link, holds, torn, safe, cut>>
           /\ move[m].at \notin {"idle", "over"}
           /\ move'[m].from = move[m].from /\ move'[m].to = move[m].to
           /\ move'[m].moved = move[m].moved /\ move'[m].unlinked = move[m].unlinked
           /\ \/ <<move[m].at, move'[m].at>> \in
                    {<<"accepted", "stopping">>, <<"stopping", "seeding">>,
                     <<"verifying", "recreating">>, <<"recording", "restarting">>,
                     <<"restarting", "closing">>}
              \/ move[m].at = "recreating" /\ move[m].to = "home" /\ move'[m].at = "recording"
              \/ UnderWay(m) /\ move'[m].at = "undoing"
              \/ move[m].at \in {"accepted", "closing"} /\ move'[m].at = "over"
              \/ ~UnderWay(m) /\ move'[m].at \in {"failing", "over"}
<1> USE DEF Repo!At
<1>1. UNCHANGED <<link, holds, torn, safe, cut>>
  BY DEF Repo!Journals, Repo!Stops, Repo!Verifies, Repo!Skips, Repo!Records, Repo!Restarts,
         Repo!Closes, Repo!Misses, Repo!Revives, Repo!Fails, Repo!Throws, Repo!disk
<1>2. move[m].at \notin {"idle", "over"}
  BY DEF Repo!Journals, Repo!Stops, Repo!Verifies, Repo!Skips, Repo!Records, Repo!Restarts,
         Repo!Closes, Repo!Misses, Repo!Revives, Repo!Fails, Repo!Throws
<1>3. CASE Repo!Restarts(m)
  <2>1. move[m].at = "restarting" /\ move[m].from \in Repo!Place
    BY <1>3, MoveFields DEF Repo!Restarts
  <2>2. PICK left \in Repo!Place \cup {None} :
           move' = [move EXCEPT ![m].at = "closing", ![m].left = left]
    BY <1>3, <2>1, Places DEF Repo!Restarts
  <2> QED BY <1>1, <2>1, <2>2, NotesLeft
<1>4. CASE \/ Repo!Journals(m) \/ Repo!Stops(m) \/ Repo!Verifies(m) \/ Repo!Skips(m)
           \/ Repo!Records(m) \/ Repo!Closes(m) \/ Repo!Misses(m)
           \/ Repo!Revives(m) \/ Repo!Fails(m) \/ Repo!Throws(m)
  <2>1. PICK step \in Repo!Steps :
           /\ Repo!To(m, step)
           /\ \/ <<move[m].at, step>> \in
                    {<<"accepted", "stopping">>, <<"stopping", "seeding">>,
                     <<"verifying", "recreating">>, <<"recording", "restarting">>}
              \/ move[m].at = "recreating" /\ move[m].to = "home" /\ step = "recording"
              \/ UnderWay(m) /\ step = "undoing"
              \/ move[m].at \in {"accepted", "closing"} /\ step = "over"
              \/ ~UnderWay(m) /\ step \in {"failing", "over"}
    BY <1>4
    DEF Repo!Journals, Repo!Stops, Repo!Verifies, Repo!Skips, Repo!Records, Repo!Closes,
        Repo!Misses, Repo!Revives, Repo!Fails, Repo!Throws, Repo!Returning, Repo!Steps, UnderWay
  <2> QED BY <1>1, <1>2, <2>1, MoveSteps
<1> QED BY <1>3, <1>4

\* What a move that is under way says of itself holds after its steps that leave the
\* disk as it was.
LEMMA MoveOffDisk ==
    ASSUME Repo!MoveAssumption, Repo!TypeOK, Itinerary, HomeIsTrusted, NEW m \in Move,
           UnderWay(m) => WayBack(m) /\ HowFar(m),
           \/ Repo!Journals(m) \/ Repo!Stops(m) \/ Repo!Verifies(m) \/ Repo!Skips(m)
           \/ Repo!Records(m) \/ Repo!Restarts(m) \/ Repo!Closes(m) \/ Repo!Misses(m)
           \/ Repo!Revives(m) \/ Repo!Fails(m) \/ Repo!Throws(m)
    PROVE  HomeIsTrusted' /\ (UnderWay(m)' => WayBack(m)' /\ HowFar(m)')
<1>1. UNCHANGED <<link, holds, torn, safe>> /\ move[m].at \notin {"idle", "over"}
  BY MoveStepsOffDisk
<1>2. /\ move'[m].from = move[m].from /\ move'[m].to = move[m].to
      /\ move'[m].moved = move[m].moved /\ move'[m].unlinked = move[m].unlinked
      /\ \/ <<move[m].at, move'[m].at>> \in
               {<<"accepted", "stopping">>, <<"stopping", "seeding">>, <<"verifying", "recreating">>,
                <<"recording", "restarting">>, <<"restarting", "closing">>}
         \/ move[m].at = "recreating" /\ move[m].to = "home" /\ move'[m].at = "recording"
         \/ UnderWay(m) /\ move'[m].at = "undoing"
         \/ move'[m].at \in {"over", "failing"}
  BY MoveStepsOffDisk
<1>3. HomeIsTrusted'
  BY <1>1, DiskKept
<1>4. ASSUME UnderWay(m)' PROVE WayBack(m)' /\ HowFar(m)'
  <2>1. UnderWay(m) /\ WayBack(m) /\ HowFar(m)
    BY <1>1, <1>2, <1>4 DEF UnderWay
  <2>2. WayBack(m)'
    BY <1>1, <1>2, <2>1, DiskKept
  <2>3. CASE move'[m].at = "undoing"
    BY <2>2, <2>3 DEF HowFar
  <2>4. CASE move[m].at = "recreating" /\ move[m].to = "home" /\ move'[m].at = "recording"
    <3>1. ~move[m].moved /\ move[m].unlinked /\ link = None
      BY <2>1, <2>4 DEF HowFar, Turned, WayBack
    <3>2. Reached(m)
      BY <2>4, <3>1 DEF Reached, Repo!Real
    <3>3. Reached(m)'
      BY <1>1, <1>2, <3>2, DiskKept
    <3> QED BY <2>2, <2>4, <3>3 DEF HowFar
  <2>5. CASE <<move[m].at, move'[m].at>> \in
               {<<"accepted", "stopping">>, <<"stopping", "seeding">>}
    <3>1. Before(m)'
      BY <1>1, <1>2, <2>1, <2>5, DiskKept DEF HowFar
    <3> QED BY <2>2, <2>5, <3>1 DEF HowFar
  <2>6. CASE move[m].at = "verifying" /\ move'[m].at = "recreating"
    <3>1. Turned(m)' /\ Filled(m)'
      BY <1>1, <1>2, <2>1, <2>6, DiskKept DEF HowFar
    <3> QED BY <2>2, <2>6, <3>1 DEF HowFar
  <2>7. CASE <<move[m].at, move'[m].at>> \in
               {<<"recording", "restarting">>, <<"restarting", "closing">>}
    <3>1. Reached(m)'
      BY <1>1, <1>2, <2>1, <2>7, DiskKept DEF HowFar
    <3> QED BY <2>2, <2>7, <3>1 DEF HowFar
  <2> QED BY <1>2, <1>4, <2>3, <2>4, <2>5, <2>6, <2>7 DEF UnderWay
<1> QED BY <1>3, <1>4

\* A copy is begun where there is nothing, and home led to where it is copied from.
LEMMA MoveSeeds ==
    ASSUME Repo!MoveAssumption, Repo!TypeOK, Itinerary, HomeIsTrusted, NEW m \in Move,
           WayBack(m), HowFar(m), Repo!Seeds(m)
    PROVE  HomeIsTrusted' /\ WayBack(m)' /\ HowFar(m)'
<1>1. /\ move[m].at = "seeding" /\ Before(m)
      /\ move[m].to \in Outside \cup {"home"} /\ move[m].from \in Outside \cup {"home"}
      /\ move[m].from \in Repo!Place /\ move[m].to \in Repo!Place
      /\ move[m].from # move[m].to
  BY MoveFields DEF Repo!Seeds, Repo!At, HowFar, Itinerary
<1>2. Repo!Real = move[m].from
  BY <1>1 DEF Before, WayBack
<1> DEFINE unlinks == move[m].to = "home"
<1>3. unlinks => link # None /\ link = move[m].from /\ move[m].from \in Outside
  BY <1>1, <1>2 DEF Repo!Real, Repo!TypeOK
<1>4. /\ move' = [move EXCEPT ![m].at = "copying", ![m].unlinked = unlinks]
      /\ link' = IF unlinks THEN None ELSE link
      /\ safe' = safe /\ torn' = torn \cup {move[m].to}
      /\ holds' = [holds EXCEPT ![move[m].to] = {}]
  BY <1>1, <1>3 DEF Repo!Seeds, Repo!Returning, Before
<1>5. /\ move'[m].at = "copying" /\ move'[m].from = move[m].from /\ move'[m].to = move[m].to
      /\ ~move'[m].moved /\ (move'[m].unlinked <=> unlinks)
  BY <1>1, <1>4, NotesUnlinked DEF Before
<1>6. \A p \in Repo!Place \ {move[m].to} :
         /\ holds'[p] = holds[p] /\ (p \in torn' <=> p \in torn)
         /\ Trusted(p) => Trusted(p)'
         /\ Repo!Whole(p) => Repo!Whole(p)'
  BY <1>1, <1>4 DEF Repo!TypeOK, Trusted, Repo!Whole
<1>7. SafeOutside => SafeOutside'
  <2>1. ~Repo!Whole(move[m].to)
    BY <1>1 DEF Before, Repo!Whole
  <2> QED BY <1>4, <1>6, <2>1, Places DEF SafeOutside
<1>8. Trusted(move[m].from) /\ (Repo!Whole(move[m].from) \/ SafeOutside)
  BY <1>2 DEF HomeIsTrusted
<1>9. Trusted(move[m].from)' /\ (Repo!Whole(move[m].from)' \/ SafeOutside')
  BY <1>1, <1>5, <1>6, <1>7, <1>8 DEF Trusted, Repo!Whole
<1>10. Trusted(move[m].to)' /\ move[m].to \in torn'
  <2>1. move[m].to \in torn' /\ move'[m].to = move[m].to
    BY <1>4, <1>5
  <2> QED BY <2>1 DEF Trusted, Repo!Whole
<1>11. CASE unlinks
  <2>1. link' = None /\ Repo!Real' = "home"
    BY <1>4, <1>11 DEF Repo!Real
  <2>2. SafeOutside'
    <3>1. CASE Repo!Whole(move[m].from)
      BY <1>1, <1>3, <1>4, <1>6, <1>8, <1>11, <3>1 DEF Trusted, SafeOutside
    <3>2. CASE SafeOutside
      BY <1>7, <3>2
    <3> QED BY <1>8, <3>1, <3>2
  <2>3. HomeIsTrusted'
    BY <1>5, <1>10, <1>11, <2>1, <2>2 DEF HomeIsTrusted
  <2>4. WayBack(m)'
    BY <1>3, <1>5, <1>9, <1>11, <2>1, <2>2 DEF WayBack
  <2>5. HowFar(m)'
    BY <1>5, <1>10, <1>11 DEF HowFar, Turned
  <2> QED BY <2>3, <2>4, <2>5
<1>12. CASE ~unlinks
  <2>1. link' = link /\ Repo!Real' = move[m].from
    BY <1>2, <1>4, <1>12 DEF Repo!Real
  <2>2. link' # None => holds'["home"] = None
    BY <1>6, <1>12, <2>1, Places DEF HomeIsTrusted
  <2>3. HomeIsTrusted'
    BY <1>5, <1>9, <2>1, <2>2 DEF HomeIsTrusted
  <2>4. WayBack(m)'
    BY <1>5, <1>12, <2>1 DEF WayBack
  <2>5. HowFar(m)'
    BY <1>5, <1>10, <1>12 DEF HowFar, Turned
  <2> QED BY <2>3, <2>4, <2>5
<1> QED BY <1>11, <1>12

\* A copy that goes through is as whole as what it was made from, and has its writes.
LEMMA MoveCopies ==
    ASSUME Repo!MoveAssumption, Repo!TypeOK, OneBusy, Itinerary, HomeIsTrusted, NEW m \in Move,
           WayBack(m), HowFar(m), Repo!Copies(m)
    PROVE  /\ HomeIsTrusted' /\ WayBack(m)' /\ HowFar(m)'
           /\ Repo!Whole(move[m].from) => Repo!Whole(move[m].to)' /\ Repo!Whole(move[m].from)'
<1>1. /\ move[m].at = "copying" /\ Turned(m) /\ move[m].to \in torn
      /\ move[m].to \in Outside \cup {"home"} /\ move[m].from \in Outside \cup {"home"}
      /\ move[m].from \in Repo!Place /\ move[m].to \in Repo!Place
      /\ move[m].from # move[m].to
      /\ holds[move[m].from] # None /\ holds[move[m].to] # None
  BY MoveFields DEF Repo!Copies, Repo!At, HowFar, Itinerary, OneBusy
<1>2. /\ move'[m].at = "verifying" /\ move'[m].from = move[m].from /\ move'[m].to = move[m].to
      /\ move'[m].moved = move[m].moved /\ move'[m].unlinked = move[m].unlinked
  BY <1>1, MoveSteps DEF Repo!Copies, Repo!Steps
<1>3. /\ link' = link /\ safe' = safe
      /\ holds' = [holds EXCEPT ![move[m].to] = holds[move[m].to] \cup holds[move[m].from]]
      /\ torn' = (torn \ {move[m].to}) \cup {p \in {move[m].to} : move[m].from \in torn}
  BY DEF Repo!Copies
<1>4. \A p \in Repo!Place \ {move[m].to} :
         /\ holds'[p] = holds[p] /\ (p \in torn' <=> p \in torn)
         /\ Trusted(p) => Trusted(p)'
         /\ Repo!Whole(p) => Repo!Whole(p)'
  BY <1>1, <1>3 DEF Repo!TypeOK, Trusted, Repo!Whole
<1>5. /\ holds'[move[m].to] = holds[move[m].to] \cup holds[move[m].from]
      /\ move[m].to \in torn' <=> move[m].from \in torn
  BY <1>1, <1>3 DEF Repo!TypeOK
<1>6. holds'[move[m].to] # None
  <2>1. holds[move[m].to] \cup holds[move[m].from] \in SUBSET (1..MaxWrites)
    BY <1>1 DEF Repo!TypeOK, Repo!Writes
  <2> QED BY <1>5, <2>1 DEF Repo!MoveAssumption
<1>7. Trusted(move[m].from)
  BY <1>1 DEF Turned, WayBack, HomeIsTrusted
<1>8. Trusted(move[m].to)'
  BY <1>1, <1>2, <1>3, <1>5, <1>7 DEF Trusted, Repo!Whole
<1>9. Repo!Whole(move[m].from) => Repo!Whole(move[m].to)' /\ Repo!Whole(move[m].from)'
  BY <1>1, <1>2, <1>4, <1>5, <1>6 DEF Repo!Whole
<1>10. SafeOutside'
  <2>1. CASE SafeOutside
    BY <1>1, <1>3, <1>4, <2>1, Places DEF SafeOutside, Repo!Whole
  <2>2. CASE ~SafeOutside
    <3>1. ~move[m].unlinked /\ ~move[m].moved /\ Repo!Real = move[m].from
      BY <1>1, <2>2 DEF WayBack, Turned
    <3>2. Repo!Whole(move[m].from) /\ move[m].to \in Outside
      BY <1>1, <2>2, <3>1 DEF HomeIsTrusted, Turned
    <3>3. Repo!Whole(move[m].to)'
      BY <1>9, <3>2
    <3>4. safe' \subseteq holds'[move[m].to]
      BY <1>2, <1>8, <3>3 DEF Trusted
    <3> QED BY <1>2, <3>2, <3>3, <3>4 DEF SafeOutside
  <2> QED BY <2>1, <2>2
<1>11. HomeIsTrusted'
  <2>1. Repo!Real' = Repo!Real
    BY <1>3 DEF Repo!Real
  <2>2. Trusted(Repo!Real)'
    BY <1>2, <1>4, <1>8, <2>1, Places DEF HomeIsTrusted
  <2>3. link' # None => holds'["home"] = None
    BY <1>1, <1>3, <1>4, Places DEF HomeIsTrusted, Turned, WayBack
  <2> QED BY <1>10, <2>2, <2>3 DEF HomeIsTrusted
<1>12. WayBack(m)'
  <2>1. Trusted(move[m].from)'
    BY <1>1, <1>2, <1>4, <1>7
  <2> QED BY <1>1, <1>2, <1>3, <1>10, <2>1 DEF WayBack, Turned, Repo!Real
<1>13. HowFar(m)'
  BY <1>1, <1>2, <1>8, <1>10 DEF HowFar, Turned, Filled
<1> QED BY <1>9, <1>11, <1>12, <1>13

\* What was set aside earlier goes, when the safe writes are outside.
LEMMA MoveClears ==
    ASSUME Repo!MoveAssumption, Repo!TypeOK, Itinerary, HomeIsTrusted, NEW m \in Move,
           WayBack(m), HowFar(m), Repo!Clears(m)
    PROVE  HomeIsTrusted' /\ WayBack(m)' /\ HowFar(m)'
<1>1. /\ move[m].at = "recreating" /\ Turned(m) /\ Filled(m) /\ move[m].to # "home"
      /\ move[m].to \in Outside \cup {"home"} /\ move[m].from \in Outside \cup {"home"}
  BY MoveFields DEF Repo!Clears, Repo!At, Repo!Returning, HowFar
<1>2. /\ move'[m].at = "renaming" /\ move'[m].from = move[m].from /\ move'[m].to = move[m].to
      /\ move'[m].moved = move[m].moved /\ move'[m].unlinked = move[m].unlinked
  BY <1>1, MoveSteps DEF Repo!Clears, Repo!Steps
<1>3. /\ link' = link /\ safe' = safe /\ torn' = torn \ {"aside"}
      /\ holds' = [holds EXCEPT !["aside"] = None]
      /\ holds'["aside"] = None
  BY Places DEF Repo!Clears, Repo!TypeOK
<1>4. \A p \in Outside \cup {"home"} :
         /\ holds'[p] = holds[p]
         /\ Trusted(p) => Trusted(p)'
         /\ Repo!Whole(p) => Repo!Whole(p)'
  BY <1>3, Places DEF Repo!MoveAssumption, Repo!TypeOK, Trusted, Repo!Whole
<1>5. SafeOutside'
  BY <1>1, <1>3, <1>4 DEF Filled, SafeOutside
<1>6. HomeIsTrusted'
  BY <1>3, <1>4, <1>5, Places DEF HomeIsTrusted, Repo!Real
<1>7. WayBack(m)'
  BY <1>1, <1>2, <1>3 DEF WayBack, Turned, Repo!Real
<1>8. HowFar(m)'
  <2>1. Trusted(move[m].to)'
    BY <1>1, <1>2, <1>4 DEF Filled
  <2> QED BY <1>1, <1>2, <1>3, <1>5, <2>1 DEF HowFar, Turned, Filled
<1> QED BY <1>6, <1>7, <1>8

\* Home is set aside with what it holds, or its link goes.
LEMMA MoveSetsAside ==
    ASSUME Repo!MoveAssumption, Repo!TypeOK, Itinerary, HomeIsTrusted, NEW m \in Move,
           WayBack(m), HowFar(m), Repo!SetsAside(m)
    PROVE  HomeIsTrusted' /\ WayBack(m)' /\ HowFar(m)'
<1>1. /\ move[m].at = "renaming" /\ Turned(m) /\ Filled(m) /\ move[m].to # "home"
      /\ holds["aside"] = None
      /\ move[m].to \in Outside \cup {"home"} /\ move[m].from \in Outside \cup {"home"}
  BY MoveFields DEF Repo!SetsAside, Repo!At, HowFar, Itinerary
<1>2. Repo!Real = move[m].from /\ ~move[m].unlinked
  BY <1>1 DEF Turned, WayBack
<1>3. /\ move'[m].at = "linking" /\ move'[m].from = move[m].from /\ move'[m].to = move[m].to
      /\ move'[m].moved /\ ~move'[m].unlinked
  BY <1>1, <1>2, NotesMoved DEF Repo!SetsAside
<1>4. safe' = safe /\ link' = None
  BY DEF Repo!SetsAside
<1>5. \A p \in Outside :
         /\ holds'[p] = holds[p] /\ (p \in torn' <=> p \in torn)
         /\ Trusted(p) => Trusted(p)'
         /\ Repo!Whole(p) => Repo!Whole(p)'
  BY <1>4, Places DEF Repo!SetsAside, Repo!MoveAssumption, Repo!TypeOK, Trusted, Repo!Whole
<1>6. SafeOutside'
  BY <1>1, <1>4, <1>5 DEF Filled, SafeOutside
<1>7. /\ holds'["home"] = None
      /\ IF move[m].from = "home" THEN "home" \notin torn' ELSE holds'["aside"] = None
      /\ Trusted("aside")'
  <2>1. CASE link # None
    <3>1. holds' = holds /\ torn' = torn
      BY <2>1 DEF Repo!SetsAside
    <3>2. move[m].from # "home"
      BY <1>2, <2>1 DEF Repo!Real, Repo!TypeOK, Repo!MoveAssumption
    <3> QED BY <1>1, <2>1, <3>1, <3>2 DEF HomeIsTrusted, Trusted, Repo!Whole
  <2>2. CASE link = None
    <3>1. move[m].from = "home" /\ Trusted("home")
      BY <1>2, <2>2 DEF HomeIsTrusted, Repo!Real
    <3>2. /\ holds'["aside"] = holds["home"] /\ holds'["home"] = None
          /\ ("home" \in torn => "aside" \in torn') /\ "home" \notin torn'
      BY <2>2, Places DEF Repo!SetsAside, Repo!TypeOK
    <3> QED BY <1>4, <3>1, <3>2 DEF Trusted, Repo!Whole
  <2> QED BY <2>1, <2>2
<1>8. HomeIsTrusted'
  BY <1>4, <1>6, <1>7 DEF HomeIsTrusted, Trusted, Repo!Whole, Repo!Real
<1>9. WayBack(m)'
  <2>1. Trusted(move[m].to)'
    BY <1>1, <1>3, <1>5 DEF Filled
  <2> QED BY <1>1, <1>3, <1>4, <1>6, <1>7, <2>1 DEF WayBack
<1>10. HowFar(m)'
  BY <1>3, <1>4 DEF HowFar
<1> QED BY <1>8, <1>9, <1>10

\* Home leads to the copy.
LEMMA MoveLinks ==
    ASSUME Repo!MoveAssumption, Repo!TypeOK, Itinerary, HomeIsTrusted, NEW m \in Move,
           WayBack(m), HowFar(m), Repo!Links(m)
    PROVE  HomeIsTrusted' /\ WayBack(m)' /\ HowFar(m)'
<1>1. /\ move[m].at = "linking" /\ move[m].moved /\ move[m].to # "home"
      /\ move[m].to \in Outside /\ holds["home"] = None /\ Trusted(move[m].to) /\ SafeOutside
      /\ ~move[m].unlinked
  BY DEF Repo!Links, Repo!At, HowFar, WayBack, Itinerary
<1>2. /\ move'[m].at = "recording" /\ move'[m].from = move[m].from /\ move'[m].to = move[m].to
      /\ move'[m].moved = move[m].moved /\ move'[m].unlinked = move[m].unlinked
  BY <1>1, MoveSteps DEF Repo!Links, Repo!Steps
<1>3. /\ link' = move[m].to /\ holds' = holds /\ torn' = torn /\ safe' = safe
      /\ Repo!Real' = move[m].to
  BY <1>1 DEF Repo!Links, Repo!Real, Repo!MoveAssumption
<1>4. HomeIsTrusted'
  BY <1>1, <1>2, <1>3 DEF HomeIsTrusted, Trusted, SafeOutside, Repo!Whole
<1>5. WayBack(m)'
  BY <1>1, <1>2, <1>3 DEF WayBack, Trusted, SafeOutside, Repo!Whole
<1>6. HowFar(m)'
  BY <1>1, <1>2, <1>3 DEF HowFar, Reached
<1> QED BY <1>4, <1>5, <1>6

\* Home goes back from aside, or the link to where it pointed: to a copy that is
\* trusted.
LEMMA MoveUndoes ==
    ASSUME Repo!MoveAssumption, Repo!TypeOK, Itinerary, HomeIsTrusted, NEW m \in Move,
           WayBack(m), Repo!Undoes(m)
    PROVE  HomeIsTrusted'
<1>1. /\ move[m].at = "undoing" /\ move[m].moved \in BOOLEAN /\ move[m].unlinked \in BOOLEAN
      /\ safe' = safe
  BY MoveFields DEF Repo!Undoes, Repo!At
<1>2. CASE move[m].moved
  <2>1. holds["home"] = None /\ Trusted("aside") /\ SafeOutside
    BY <1>2 DEF WayBack
  <2>2. link' = None
    BY <1>2 DEF Repo!Undoes
  <2>3. SafeOutside'
    <3>1. \A p \in Outside : holds'[p] = holds[p] /\ (p \in torn => p \in torn') /\ (p \in torn' => p \in torn)
      BY <1>2, Places DEF Repo!Undoes, Repo!MoveAssumption, Repo!TypeOK
    <3> QED BY <1>1, <2>1, <3>1 DEF SafeOutside, Repo!Whole
  <2>4. CASE holds["aside"] # None
    <3>1. /\ holds'["home"] = holds["aside"]
          /\ "aside" \in torn => "home" \in torn'
      BY <1>2, <2>4, Places DEF Repo!Undoes, Repo!TypeOK
    <3>2. Trusted("home")'
      BY <1>1, <2>1, <3>1 DEF Trusted, Repo!Whole
    <3> QED BY <2>2, <2>3, <3>2 DEF HomeIsTrusted, Repo!Real
  <2>5. CASE holds["aside"] = None
    <3>1. holds' = holds
      BY <1>2, <2>5 DEF Repo!Undoes
    <3> QED BY <2>1, <2>2, <2>3, <3>1 DEF HomeIsTrusted, Repo!Real, Trusted, Repo!Whole
  <2> QED BY <2>4, <2>5
<1>3. CASE ~move[m].moved /\ move[m].unlinked
  <2>1. move[m].from \in Outside /\ Trusted(move[m].from) /\ SafeOutside
    BY <1>3 DEF WayBack
  <2>2. link' = move[m].from /\ holds' = [holds EXCEPT !["home"] = None] /\ torn' = torn \ {"home"}
    BY <1>3 DEF Repo!Undoes
  <2>3. \A p \in Outside : holds'[p] = holds[p] /\ (p \in torn <=> p \in torn')
    BY <2>2, Places DEF Repo!MoveAssumption, Repo!TypeOK
  <2>4. SafeOutside'
    BY <1>1, <2>1, <2>3 DEF SafeOutside, Repo!Whole
  <2>5. Repo!Real' = move[m].from /\ holds'["home"] = None
    BY <2>1, <2>2, Places DEF Repo!Real, Repo!MoveAssumption, Repo!TypeOK
  <2>6. holds'[Repo!Real'] # None /\ Repo!Real' \notin torn' => safe' \subseteq holds'[Repo!Real']
    BY <1>1, <2>1, <2>3, <2>5 DEF Trusted, Repo!Whole
  <2> QED BY <2>4, <2>5, <2>6 DEF HomeIsTrusted, Trusted, Repo!Whole
<1>4. CASE ~move[m].moved /\ ~move[m].unlinked
  <2>1. UNCHANGED <<link, holds, torn, safe>>
    BY <1>1, <1>4 DEF Repo!Undoes, Repo!disk
  <2> QED BY <2>1, DiskKept
<1> QED BY <1>1, <1>2, <1>3, <1>4

\* What fails in the catch leaves home leading where it did, or nowhere.
LEMMA MoveUndoFails ==
    ASSUME Repo!MoveAssumption, Repo!TypeOK, HomeIsTrusted, NEW m \in Move,
           UnderWay(m) => WayBack(m), Repo!UndoFails(m)
    PROVE  HomeIsTrusted'
<1>1. safe' = safe
  BY DEF Repo!UndoFails
<1>2. CASE UNCHANGED <<link, holds, torn>>
  BY <1>1, <1>2, DiskKept
<1>3. CASE /\ move[m].at = "undoing" /\ move[m].moved
           /\ link' = None /\ UNCHANGED <<holds, torn>>
  <2>1. holds["home"] = None /\ SafeOutside
    BY <1>3 DEF UnderWay, WayBack
  <2> QED BY <1>1, <1>3, <2>1 DEF HomeIsTrusted, Trusted, SafeOutside, Repo!Whole, Repo!Real
<1>4. ASSUME move[m].at = "undoing", move[m].unlinked, link' = None,
             \A p \in Outside : holds'[p] = holds[p] /\ (p \in torn <=> p \in torn'),
             holds'["home"] = None \/ "home" \in torn'
      PROVE  HomeIsTrusted'
  <2>1. SafeOutside'
    BY <1>1, <1>4 DEF UnderWay, WayBack, SafeOutside, Repo!Whole
  <2>2. ~Repo!Whole("home")'
    BY <1>4 DEF Repo!Whole
  <2> QED BY <1>4, <2>1, <2>2 DEF HomeIsTrusted, Trusted, Repo!Real
<1>5. "home" \notin Outside /\ holds \in [Repo!Place -> Repo!Writes \cup {None}]
  BY DEF Repo!MoveAssumption, Repo!TypeOK
<1> QED BY <1>2, <1>3, <1>4, <1>5, UndoFailsLeaves, Places

\* A write to the checkout is safe only where home leads, to a whole copy, and then
\* home has every safe write.
LEMMA MoveWrites ==
    ASSUME Repo!MoveAssumption, Repo!TypeOK, HomeIsTrusted,
           \A m \in Move : UnderWay(m) => WayBack(m) /\ HowFar(m),
           NEW p \in Repo!Place, holds[p] # None, Repo!Write(p), UNCHANGED <<link, torn, move>>
    PROVE  HomeIsTrusted' /\ \A m \in Move : UnderWay(m)' => WayBack(m)' /\ HowFar(m)'
<1>1. /\ holds'[p] = holds[p] \cup {made + 1}
      /\ holds'[p] # None /\ \A q \in Repo!Place \ {p} : holds'[q] = holds[q]
  BY WriteTypes
<1>2. Repo!Real' = Repo!Real
  BY DEF Repo!Real
<1>3. \A q \in Repo!Place : holds[q] = None <=> holds'[q] = None
  BY <1>1
<1>4. CASE safe' = safe
  <2>1. \A q \in Repo!Place :
           /\ Trusted(q) => Trusted(q)'
           /\ Repo!Whole(q) => Repo!Whole(q)'
           /\ safe \subseteq holds[q] => safe' \subseteq holds'[q]
    BY <1>1, <1>3, <1>4 DEF Trusted, Repo!Whole
  <2>2. SafeOutside => SafeOutside'
    BY <2>1, Places DEF SafeOutside
  <2>3. HomeIsTrusted'
    BY <1>2, <1>3, <2>1, <2>2, Places DEF HomeIsTrusted
  <2>4. ASSUME NEW m \in Move, UnderWay(m)' PROVE WayBack(m)' /\ HowFar(m)'
    <3>1. /\ move[m].from \in Repo!Place /\ move[m].to \in Repo!Place
          /\ WayBack(m) /\ HowFar(m) /\ move'[m] = move[m]
      BY <2>4, MoveFields DEF UnderWay
    <3>2. WayBack(m)'
      BY <1>2, <1>3, <2>1, <2>2, <3>1, Places DEF WayBack
    <3>3. HowFar(m)'
      BY <1>2, <1>3, <2>1, <2>2, <3>1, Places DEF HowFar, Before, Turned, Filled, Reached
    <3> QED BY <3>2, <3>3
  <2> QED BY <2>3, <2>4
<1>5. CASE safe' # safe
  <2>1. ~Repo!Copied /\ p \notin torn /\ p = Repo!Real /\ safe' = safe \cup {made + 1}
    BY <1>5 DEF Repo!Write
  <2>2. HomeIsTrusted'
    <3>1. Repo!Whole(p) /\ safe \subseteq holds[p]
      BY <2>1 DEF Repo!Whole, HomeIsTrusted, Trusted
    <3>2. holds'[p] # None /\ p \notin torn' /\ safe' \subseteq holds'[p]
      BY <1>1, <2>1, <3>1
    <3> QED BY <1>2, <1>3, <2>1, <3>2, Places DEF HomeIsTrusted, Trusted, Repo!Whole
  <2>3. ASSUME NEW m \in Move, UnderWay(m)' PROVE WayBack(m)' /\ HowFar(m)'
    <3>1. /\ move[m].from \in Repo!Place /\ move[m].to \in Repo!Place
          /\ WayBack(m) /\ HowFar(m) /\ move'[m] = move[m]
          /\ move[m].at \in {"accepted", "stopping", "seeding"}
      BY <2>1, <2>3, MoveFields DEF UnderWay, Repo!Copied
    <3>2. Before(m) /\ Before(m)'
      BY <1>3, <3>1 DEF HowFar, Before
    <3>3. WayBack(m)'
      BY <1>2, <3>1, <3>2 DEF WayBack, Before
    <3>4. HowFar(m)'
      BY <3>1, <3>2 DEF HowFar
    <3> QED BY <3>3, <3>4
  <2> QED BY <2>2, <2>3
<1> QED BY <1>4, <1>5

\* While one move at a time is under way: home is trusted, and the move can go on and
\* go back.
LEMMA MoveSound ==
    ASSUME Repo!MoveAssumption, Repo!TypeOK, AppIsSomewhere, OneBusy, Itinerary, MovesAlone,
           HomeIsTrusted, LeftIsNoted, \A m \in Move : UnderWay(m) => WayBack(m) /\ HowFar(m),
           [Repo!Next]_(Repo!vars), movesOverlapped \in BOOLEAN, ~movesOverlapped'
    PROVE  /\ MovesAlone' /\ HomeIsTrusted' /\ LeftIsNoted'
           /\ \A m \in Move : UnderWay(m)' => WayBack(m)' /\ HowFar(m)'
<1>1. ASSUME NEW m \in Move, Repo!MoveStep(m) \/ Repo!Throws(m) \/ Repo!UndoFails(m)
      PROVE  /\ MovesAlone' /\ HomeIsTrusted' /\ LeftIsNoted'
             /\ \A i \in Move : UnderWay(i)' => WayBack(i)' /\ HowFar(i)'
  <2>1. /\ move[m].at \notin {"idle", "over"}
        /\ \A i \in Move \ {m} : move'[i] = move[i] /\ move'[i].at \in {"idle", "over"}
    BY <1>1, MoveActs DEF MovesAlone
  <2>2. MovesAlone'
    BY <2>1 DEF MovesAlone
  <2>3. HomeIsTrusted' /\ (UnderWay(m)' => WayBack(m)' /\ HowFar(m)')
    <3>1. CASE \/ Repo!Journals(m) \/ Repo!Stops(m) \/ Repo!Verifies(m) \/ Repo!Skips(m)
               \/ Repo!Records(m) \/ Repo!Restarts(m) \/ Repo!Closes(m) \/ Repo!Misses(m)
               \/ Repo!Revives(m) \/ Repo!Fails(m) \/ Repo!Throws(m)
      BY <3>1, MoveOffDisk
    <3>2. CASE \/ Repo!Seeds(m) \/ Repo!Copies(m) \/ Repo!Clears(m) \/ Repo!SetsAside(m)
               \/ Repo!Links(m)
      <4>1. UnderWay(m)
        BY <3>2
        DEF Repo!Seeds, Repo!Copies, Repo!Clears, Repo!SetsAside, Repo!Links, Repo!At, UnderWay
      <4> QED BY <3>2, <4>1, MoveSeeds, MoveCopies, MoveClears, MoveSetsAside, MoveLinks
    <3>3. CASE Repo!Undoes(m)
      <4>1. UnderWay(m) /\ Repo!To(m, "reviving")
        BY <3>3 DEF Repo!Undoes, Repo!At, UnderWay
      <4>2. move'[m].at = "reviving"
        BY <2>1, <4>1, MoveSteps DEF Repo!Steps
      <4> QED BY <3>3, <4>1, <4>2, MoveUndoes DEF UnderWay
    <3>4. CASE Repo!UndoFails(m)
      <4>1. PICK step \in {"over", "failing"} : Repo!To(m, step)
        BY <3>4 DEF Repo!UndoFails
      <4>2. move'[m].at = step
        BY <2>1, <4>1, MoveSteps DEF Repo!Steps
      <4> QED BY <3>4, <4>2, MoveUndoFails DEF UnderWay
    <3> QED BY <1>1, <3>1, <3>2, <3>3, <3>4 DEF Repo!MoveStep
  <2>4. LeftIsNoted'
    <3>1. SUFFICES ASSUME move'[m].at \notin {"idle", "accepted", "over"}
                   PROVE  ~(repoMove'.phase = "done" /\ repoMove'.left = "aside")
      BY <2>1 DEF LeftIsNoted
    <3>2. repoMove'.phase = "moving" \/ (repoMove' = repoMove /\ move[m].at # "accepted")
      <4>1. CASE Repo!Closes(m) \/ Repo!Fails(m) \/ (Repo!Throws(m) /\ move[m].at = "accepted")
        <5>1. Repo!To(m, "over")
          BY <4>1 DEF Repo!Closes, Repo!Fails, Repo!Throws, Repo!At
        <5>2. move'[m].at = "over"
          BY <2>1, <5>1, MoveSteps DEF Repo!Steps
        <5> QED BY <3>1, <5>2
      <4>2. CASE ~(Repo!Closes(m) \/ Repo!Fails(m) \/ (Repo!Throws(m) /\ move[m].at = "accepted"))
        BY <1>1, <4>2
        DEF Repo!MoveStep, Repo!Journals, Repo!Stops, Repo!Seeds, Repo!Copies, Repo!Verifies,
            Repo!Clears, Repo!SetsAside, Repo!Links, Repo!Skips, Repo!Records, Repo!Restarts,
            Repo!Misses, Repo!Undoes, Repo!Revives, Repo!Throws, Repo!UndoFails, Repo!Phase,
            Repo!row, Repo!At
      <4> QED BY <4>1, <4>2
    <3> QED BY <2>1, <3>2 DEF LeftIsNoted
  <2> QED BY <2>1, <2>2, <2>3, <2>4 DEF UnderWay
<1>2. ASSUME NEW m \in Move, NEW t \in Outside \cup {"home"}, Repo!Asks(m, t)
      PROVE  /\ MovesAlone' /\ HomeIsTrusted' /\ LeftIsNoted'
             /\ \A i \in Move : UnderWay(i)' => WayBack(i)' /\ HowFar(i)'
  <2>1. /\ move'[m].at = "accepted" /\ move'[m].from = Repo!Real /\ move'[m].to = t
        /\ ~move'[m].moved /\ ~move'[m].unlinked
        /\ \A i \in Move \ {m} : move'[i] = move[i]
    BY <1>2, MoveAsks
  <2>2. /\ UNCHANGED <<link, holds, torn, safe, repoMove>>
        /\ \A i \in Move : move[i].at \in {"idle", "over"}
        /\ Repo!Leads /\ Repo!Real # t /\ (t # "home" => holds[t] = None)
    BY <1>2 DEF Repo!Asks, Repo!disk, Repo!row, Repo!Underway
  <2>3. HomeIsTrusted'
    BY <2>2, DiskKept
  <2>4. MovesAlone' /\ LeftIsNoted'
    BY <2>1, <2>2 DEF MovesAlone, LeftIsNoted
  <2>5. WayBack(m)'
    BY <2>1, <2>2 DEF WayBack, Repo!Real
  <2>6. holds[t] = None
    BY <2>2 DEF HomeIsTrusted, Repo!Real
  <2>7. HowFar(m)'
    BY <2>1, <2>2, <2>6 DEF HowFar, Before, Repo!Leads
  <2> QED BY <2>1, <2>2, <2>3, <2>4, <2>5, <2>7 DEF UnderWay
<1>3. CASE Repo!Discards
  <2>1. /\ link' = link /\ safe' = safe /\ torn' = torn \ {"aside"} /\ move' = move
        /\ holds' = [holds EXCEPT !["aside"] = None] /\ repoMove' = repoMove
        /\ repoMove.phase = "done" /\ repoMove.left = "aside"
    BY <1>3 DEF Repo!Discards, Repo!row
  <2>2. \A i \in Move : move[i].at \in {"idle", "accepted", "over"}
    BY <2>1 DEF LeftIsNoted
  <2>3. \A p \in Outside \cup {"home"} : holds'[p] = holds[p] /\ (p \in torn <=> p \in torn')
    BY <2>1, Places DEF Repo!MoveAssumption, Repo!TypeOK
  <2>4. HomeIsTrusted'
    BY <2>1, <2>3, Places DEF HomeIsTrusted, Trusted, SafeOutside, Repo!Whole, Repo!Real
  <2>5. ASSUME NEW i \in Move, UnderWay(i)' PROVE WayBack(i)' /\ HowFar(i)'
    <3>1. /\ move'[i] = move[i] /\ move[i].at = "accepted" /\ WayBack(i) /\ HowFar(i)
          /\ move[i].from \in Outside \cup {"home"} /\ move[i].to \in Outside \cup {"home"}
      BY <2>1, <2>2, <2>5, MoveFields DEF UnderWay
    <3>2. Before(i) /\ Before(i)'
      BY <2>3, <3>1 DEF HowFar, Before
    <3>3. WayBack(i)'
      BY <2>1, <3>1, <3>2 DEF WayBack, Before, Repo!Real
    <3> QED BY <3>1, <3>2, <3>3 DEF HowFar
  <2>6. MovesAlone' /\ LeftIsNoted'
    BY <2>1 DEF MovesAlone, LeftIsNoted
  <2> QED BY <2>4, <2>5, <2>6
<1>4. CASE Repo!AppWrites \/ Repo!DeployFetches
  <2>1. PICK p \in Repo!Place : holds[p] # None /\ Repo!Write(p)
    BY <1>4, Places DEF Repo!AppWrites, Repo!DeployFetches, Repo!Leads, AppIsSomewhere,
           Repo!TypeOK
  <2>2. UNCHANGED <<link, torn, move, repoMove>>
    BY <1>4 DEF Repo!AppWrites, Repo!DeployFetches, Repo!row
  <2>3. MovesAlone' /\ LeftIsNoted'
    BY <2>2 DEF MovesAlone, LeftIsNoted
  <2> QED BY <2>1, <2>2, <2>3, MoveWrites
<1>5. CASE \/ Repo!Notes \/ Repo!OperatorStarts \/ Repo!OperatorStops \/ Repo!DeployEnds
           \/ UNCHANGED Repo!vars
  <2>1. UNCHANGED <<link, holds, torn, safe, move>>
    BY <1>5
    DEF Repo!Notes, Repo!OperatorStarts, Repo!OperatorStops, Repo!DeployEnds, Repo!disk, Repo!vars
  <2>2. repoMove' = repoMove \/ repoMove'.left = None
    BY <1>5
    DEF Repo!Notes, Repo!OperatorStarts, Repo!OperatorStops, Repo!DeployEnds, Repo!row, Repo!vars
  <2>3. MovesAlone' /\ LeftIsNoted'
    BY <2>1, <2>2 DEF MovesAlone, LeftIsNoted, Repo!MoveAssumption
  <2>4. HomeIsTrusted'
    BY <2>1, DiskKept
  <2>5. ASSUME NEW m \in Move, UnderWay(m)' PROVE WayBack(m)' /\ HowFar(m)'
    <3>1. WayBack(m) /\ HowFar(m) /\ move'[m] = move[m]
      BY <2>1, <2>5 DEF UnderWay
    <3>2. WayBack(m)'
      BY <2>1, <3>1, DiskKept
    <3>3. HowFar(m)'
      BY <2>1, <3>1 DEF HowFar, Before, Turned, Filled, Reached, Trusted, SafeOutside,
             Repo!Whole, Repo!Real
    <3> QED BY <3>2, <3>3
  <2> QED BY <2>3, <2>4, <2>5
<1>6. CASE Repo!Dies
  <2>1. UNCHANGED <<link, holds, torn, safe>> /\ \A m \in Move : move'[m].at \in {"idle", "over"}
    BY <1>6, AllOver DEF Repo!Dies, Repo!disk
  <2>2. HomeIsTrusted'
    BY <2>1, DiskKept
  <2> QED BY <2>1, <2>2 DEF MovesAlone, LeftIsNoted, UnderWay
<1> QED BY <1>1, <1>2, <1>3, <1>4, <1>5, <1>6 DEF Repo!Next

\* A step of a move that leaves the disk as it was leaves what was whole whole; and a
\* move ends where home leads to a whole checkout.
LEMMA WholeOffDisk ==
    ASSUME Repo!MoveAssumption, Repo!TypeOK, NEW m \in Move,
           UnderWay(m) => WayBack(m) /\ HowFar(m), WholeAllAlong,
           \A i \in Move \ {m} : move'[i] = move[i] /\ ~UnderWay(i),
           \/ Repo!Journals(m) \/ Repo!Stops(m) \/ Repo!Verifies(m) \/ Repo!Skips(m)
           \/ Repo!Records(m) \/ Repo!Restarts(m) \/ Repo!Closes(m) \/ Repo!Misses(m)
           \/ Repo!Revives(m) \/ Repo!Fails(m) \/ Repo!Throws(m)
    PROVE  WholeAllAlong'
<1>1. /\ UNCHANGED <<link, holds, torn>> /\ Repo!Real' = Repo!Real
      /\ move'[m].from = move[m].from /\ move'[m].to = move[m].to
      /\ move'[m].moved = move[m].moved
  BY MoveStepsOffDisk DEF Repo!Real
<1>2. \/ <<move[m].at, move'[m].at>> \in
            {<<"accepted", "stopping">>, <<"stopping", "seeding">>,
             <<"verifying", "recreating">>, <<"recording", "restarting">>,
             <<"restarting", "closing">>}
      \/ move[m].at = "recreating" /\ move[m].to = "home" /\ move'[m].at = "recording"
      \/ UnderWay(m) /\ move'[m].at = "undoing"
      \/ move[m].at \in {"accepted", "closing"} /\ move'[m].at = "over"
      \/ ~UnderWay(m) /\ move'[m].at \in {"failing", "over"}
  BY MoveStepsOffDisk
<1>3. \A i \in Move \ {m} : ~UnderWay(i)'
  BY DEF UnderWay
<1>4. ASSUME \A i \in Move : UnderWay(i)' => move'[i].at \in {"accepted", "stopping", "seeding"}
      PROVE  Repo!Whole(Repo!Real)
  <2>1. CASE move[m].at = "closing"
    <3>1. Repo!Real = move[m].to /\ Repo!Whole(move[m].to)
      BY <2>1 DEF UnderWay, HowFar, Reached, WholeAllAlong
    <3> QED BY <3>1
  <2>2. CASE ~UnderWay(m) \/ move[m].at \in {"accepted", "stopping"}
    BY <2>2 DEF WholeAllAlong
  <2> QED BY <1>2, <1>4, <2>1, <2>2 DEF UnderWay
<1>5. ASSUME UnderWay(m)'
      PROVE  /\ Repo!Whole(Origin(m))
             /\ move'[m].at \in {"verifying", "recreating", "renaming", "linking", "recording",
                                 "restarting", "closing"}
                => Repo!Whole(move[m].to)
  <2>1. UnderWay(m)
    BY <1>2, <1>5 DEF UnderWay
  <2> QED BY <1>2, <2>1 DEF WholeAllAlong
<1>6. Repo!Whole(Repo!Real) => Repo!Whole(Repo!Real)'
  BY <1>1 DEF Repo!Whole
<1>7. /\ Repo!Whole(Origin(m)) => Repo!Whole(Origin(m))'
      /\ Repo!Whole(move[m].to) => Repo!Whole(move[m].to)'
  BY <1>1 DEF Repo!Whole, Origin
<1> QED BY <1>3, <1>4, <1>5, <1>6, <1>7 DEF WholeAllAlong

\* Until home has turned, the disk keeps whole what a move comes from; then what it goes
\* to too.
LEMMA WholeOnDisk ==
    ASSUME Repo!MoveAssumption, Repo!TypeOK, OneBusy, Itinerary, HomeIsTrusted, NEW m \in Move,
           WayBack(m), HowFar(m), WholeAllAlong, UnderWay(m),
           \A i \in Move \ {m} : move'[i] = move[i] /\ ~UnderWay(i),
           \/ Repo!Seeds(m) \/ Repo!Copies(m) \/ Repo!Clears(m) \/ Repo!SetsAside(m)
           \/ Repo!Links(m)
    PROVE  WholeAllAlong'
<1>1. /\ move[m].to \in Outside \cup {"home"} /\ move[m].from \in Outside \cup {"home"}
      /\ move[m].from \in Repo!Place /\ move[m].to \in Repo!Place
      /\ move[m].from # move[m].to
      /\ Repo!Whole(Origin(m))
  BY MoveFields DEF UnderWay, Itinerary, WholeAllAlong
<1> DEFINE after == {"verifying", "recreating", "renaming", "linking", "recording",
                     "restarting", "closing"}
<1>2. SUFFICES /\ move'[m].at \in after \cup {"copying"}
               /\ move'[m].from = move[m].from /\ move'[m].to = move[m].to
               /\ Repo!Whole(Origin(m))'
               /\ move'[m].at \in after => Repo!Whole(move[m].to)'
  <2>1. \A i \in Move \ {m} : ~UnderWay(i)'
    BY DEF UnderWay
  <2> QED BY <2>1 DEF WholeAllAlong, UnderWay
<1>3. CASE Repo!Seeds(m)
  <2>1. move[m].at = "seeding" /\ Before(m)
    BY <1>3 DEF Repo!Seeds, Repo!At, HowFar
  <2>2. /\ torn' = torn \cup {move[m].to}
        /\ holds' = [holds EXCEPT ![move[m].to] = {}]
    BY <1>3, <2>1 DEF Repo!Seeds, Before
  <2>3. /\ move'[m].at = "copying" /\ move'[m].from = move[m].from /\ move'[m].to = move[m].to
        /\ ~move'[m].moved
    <3>1. PICK unlinks \in BOOLEAN :
             move' = [move EXCEPT ![m].at = "copying", ![m].unlinked = unlinks]
      BY <1>3 DEF Repo!Seeds, Repo!Returning
    <3> QED BY <2>1, <3>1, NotesUnlinked DEF Before
  <2>4. Repo!Whole(move[m].from)
    BY <1>1, <2>1 DEF Before, Origin
  <2>5. holds'[move[m].from] # None /\ move[m].from \notin torn'
    BY <1>1, <2>2, <2>4 DEF Repo!TypeOK, Repo!Whole
  <2>6. Origin(m)' = move[m].from
    BY <2>3 DEF Origin
  <2> QED BY <2>3, <2>5, <2>6 DEF Repo!Whole
<1>4. CASE Repo!Copies(m)
  <2>1. move[m].at = "copying" /\ ~move[m].moved
    BY <1>4 DEF Repo!Copies, Repo!At, HowFar, Turned
  <2>2. /\ move'[m].at = "verifying" /\ move'[m].from = move[m].from /\ move'[m].to = move[m].to
        /\ move'[m].moved = move[m].moved
    BY <1>4, <2>1, MoveSteps DEF Repo!Copies, Repo!Steps
  <2>3. Repo!Whole(move[m].from)
    BY <1>1, <2>1 DEF Origin
  <2>4. Repo!Whole(move[m].to)' /\ Repo!Whole(move[m].from)'
    BY <1>4, <2>3, MoveCopies
  <2>5. Origin(m)' = move[m].from
    BY <2>1, <2>2 DEF Origin
  <2> QED BY <2>2, <2>4, <2>5 DEF Repo!Whole
<1>5. CASE Repo!Clears(m)
  <2>1. move[m].at = "recreating" /\ ~move[m].moved
    BY <1>5 DEF Repo!Clears, Repo!At, HowFar, Turned
  <2>2. /\ move'[m].at = "renaming" /\ move'[m].from = move[m].from /\ move'[m].to = move[m].to
        /\ move'[m].moved = move[m].moved
    BY <1>5, <2>1, MoveSteps DEF Repo!Clears, Repo!Steps
  <2>3. Repo!Whole(move[m].from) /\ Repo!Whole(move[m].to)
    BY <1>1, <2>1 DEF Origin, WholeAllAlong
  <2>4. \A p \in Outside \cup {"home"} : holds'[p] = holds[p] /\ (p \in torn' => p \in torn)
    BY <1>5, Places DEF Repo!Clears, Repo!MoveAssumption, Repo!TypeOK
  <2>5. Origin(m)' = move[m].from
    BY <2>1, <2>2 DEF Origin
  <2> QED BY <1>1, <2>2, <2>3, <2>4, <2>5 DEF Repo!Whole
<1>6. CASE Repo!SetsAside(m)
  <2>1. /\ move[m].at = "renaming" /\ ~move[m].moved /\ ~move[m].unlinked
        /\ move[m].to \in Outside /\ Repo!Real = move[m].from
        /\ "aside" \notin torn
    BY <1>1, <1>6 DEF Repo!SetsAside, Repo!At, HowFar, Turned, WayBack, Itinerary
  <2>2. /\ move'[m].at = "linking" /\ move'[m].from = move[m].from /\ move'[m].to = move[m].to
        /\ move'[m].moved
    BY <1>6, <2>1, NotesMoved DEF Repo!SetsAside
  <2>3. Repo!Whole(move[m].from) /\ Repo!Whole(move[m].to)
    BY <1>1, <2>1 DEF Origin, WholeAllAlong
  <2>4. \A p \in Outside : holds'[p] = holds[p] /\ (p \in torn' => p \in torn)
    BY <1>6, Places DEF Repo!SetsAside, Repo!MoveAssumption, Repo!TypeOK
  <2>5. CASE move[m].from = "home"
    <3>1. link = None
      BY <2>1, <2>5 DEF Repo!Real, Repo!TypeOK, Repo!MoveAssumption
    <3>2. holds'["aside"] = holds["home"] /\ ("home" \notin torn => "aside" \notin torn')
      BY <1>6, <2>1, <3>1, Places DEF Repo!SetsAside, Repo!TypeOK
    <3>3. Origin(m)' = "aside"
      BY <2>2, <2>5 DEF Origin
    <3> QED BY <2>1, <2>2, <2>3, <2>4, <2>5, <3>2, <3>3 DEF Repo!Whole
  <2>6. CASE move[m].from \in Outside
    <3>1. Origin(m)' = move[m].from
      BY <2>2, <2>6 DEF Origin, Repo!MoveAssumption
    <3> QED BY <2>1, <2>2, <2>3, <2>4, <2>6, <3>1 DEF Repo!Whole
  <2> QED BY <1>1, <2>5, <2>6
<1>7. CASE Repo!Links(m)
  <2>1. move[m].at = "linking" /\ UNCHANGED <<holds, torn>>
    BY <1>7 DEF Repo!Links, Repo!At
  <2>2. /\ move'[m].at = "recording" /\ move'[m].from = move[m].from /\ move'[m].to = move[m].to
        /\ move'[m].moved = move[m].moved
    BY <1>7, <2>1, MoveSteps DEF Repo!Links, Repo!Steps
  <2>3. Repo!Whole(move[m].to)
    BY <2>1 DEF WholeAllAlong
  <2>4. Origin(m)' = Origin(m)
    BY <2>2 DEF Origin
  <2> QED BY <1>1, <2>1, <2>2, <2>3, <2>4 DEF Repo!Whole
<1> QED BY <1>3, <1>4, <1>5, <1>6, <1>7

\* A move that is undone gives home back whole.
LEMMA WholeUndone ==
    ASSUME Repo!MoveAssumption, Repo!TypeOK, NEW m \in Move, WayBack(m), WholeAllAlong,
           Repo!Undoes(m), ~cut'
    PROVE  Repo!Whole(Repo!Real)'
<1>1. move[m].at = "undoing" /\ Repo!Whole(Origin(m))
  BY DEF Repo!Undoes, Repo!At, UnderWay, WholeAllAlong
<1>2. move[m].moved \in BOOLEAN /\ move[m].unlinked \in BOOLEAN
  BY <1>1, MoveFields
<1>3. CASE move[m].moved
  <2>1. holds["aside"] # None
    BY <1>3 DEF Repo!Undoes
  <2>2. move[m].from = "home" /\ Repo!Whole("aside") /\ "home" \notin torn
    BY <1>1, <1>3, <2>1 DEF WayBack, Origin
  <2>3. /\ link' = None /\ holds'["home"] = holds["aside"]
        /\ torn' = (torn \ {"aside"}) \cup {p \in {"home"} : "aside" \in torn}
    BY <1>3, <2>1, Places DEF Repo!Undoes, Repo!TypeOK
  <2>4. Repo!Real' = "home"
    BY <2>3 DEF Repo!Real
  <2>5. holds'["home"] # None /\ "home" \notin torn'
    BY <2>2, <2>3 DEF Repo!Whole
  <2> QED BY <2>4, <2>5 DEF Repo!Whole
<1>4. CASE ~move[m].moved /\ move[m].unlinked
  <2>1. move[m].from \in Outside /\ Repo!Whole(move[m].from)
    BY <1>1, <1>4 DEF WayBack, Origin
  <2>2. link' = move[m].from /\ holds' = [holds EXCEPT !["home"] = None] /\ torn' = torn \ {"home"}
    BY <1>4 DEF Repo!Undoes
  <2>3. Repo!Real' = move[m].from /\ holds'[move[m].from] = holds[move[m].from]
    BY <2>1, <2>2, Places DEF Repo!Real, Repo!MoveAssumption, Repo!TypeOK
  <2> QED BY <2>1, <2>2, <2>3 DEF Repo!Whole
<1>5. CASE ~move[m].moved /\ ~move[m].unlinked
  <2>1. UNCHANGED <<link, holds, torn>>
    BY <1>5 DEF Repo!Undoes, Repo!disk
  <2>2. Repo!Whole(Repo!Real)
    BY <1>1, <1>5 DEF WayBack, Origin
  <2> QED BY <2>1, <2>2 DEF Repo!Whole, Repo!Real
<1> QED BY <1>2, <1>3, <1>4, <1>5

\* While no two moves overlap and none is cut short: the checkout is whole where home
\* leads, and a move comes from a whole copy and goes on to another.
LEMMA MoveWhole ==
    ASSUME Repo!MoveAssumption, Repo!TypeOK, AppIsSomewhere, OneBusy, Itinerary, MovesAlone,
           HomeIsTrusted, LeftIsNoted, \A m \in Move : UnderWay(m) => WayBack(m) /\ HowFar(m),
           WholeAllAlong, [Repo!Next]_(Repo!vars), movesOverlapped \in BOOLEAN,
           ~movesOverlapped', ~cut'
    PROVE  WholeAllAlong'
<1>1. ASSUME NEW m \in Move, Repo!MoveStep(m) \/ Repo!Throws(m) \/ Repo!UndoFails(m)
      PROVE  WholeAllAlong'
  <2>1. /\ move[m].at \notin {"idle", "over"}
        /\ \A i \in Move \ {m} : move'[i] = move[i] /\ ~UnderWay(i)
    BY <1>1, MoveActs DEF MovesAlone, UnderWay
  <2>2. CASE \/ Repo!Journals(m) \/ Repo!Stops(m) \/ Repo!Verifies(m) \/ Repo!Skips(m)
             \/ Repo!Records(m) \/ Repo!Restarts(m) \/ Repo!Closes(m) \/ Repo!Misses(m)
             \/ Repo!Revives(m) \/ Repo!Fails(m) \/ Repo!Throws(m)
    BY <2>1, <2>2, WholeOffDisk
  <2>3. CASE \/ Repo!Seeds(m) \/ Repo!Copies(m) \/ Repo!Clears(m) \/ Repo!SetsAside(m)
             \/ Repo!Links(m)
    <3>1. UnderWay(m)
      BY <2>3
      DEF Repo!Seeds, Repo!Copies, Repo!Clears, Repo!SetsAside, Repo!Links, Repo!At, UnderWay
    <3> QED BY <2>1, <2>3, <3>1, WholeOnDisk
  <2>4. CASE Repo!Undoes(m)
    <3>1. UnderWay(m) /\ Repo!To(m, "reviving")
      BY <2>4 DEF Repo!Undoes, Repo!At, UnderWay
    <3>2. move'[m].at = "reviving"
      BY <2>1, <3>1, MoveSteps DEF Repo!Steps
    <3>3. \A i \in Move : ~UnderWay(i)'
      BY <2>1, <3>2 DEF UnderWay
    <3>4. Repo!Whole(Repo!Real)'
      BY <2>4, <3>1, WholeUndone
    <3> QED BY <3>3, <3>4 DEF WholeAllAlong
  <2>5. CASE Repo!UndoFails(m)
    <3>1. /\ move[m].at = "reviving" /\ Repo!To(m, "failing")
          /\ UNCHANGED <<link, holds, torn>>
      BY <2>5 DEF Repo!UndoFails, Repo!At
    <3>2. move'[m].at = "failing"
      BY <2>1, <3>1, MoveSteps DEF Repo!Steps
    <3>3. \A i \in Move : ~UnderWay(i) /\ ~UnderWay(i)'
      BY <2>1, <3>1, <3>2 DEF UnderWay
    <3>4. Repo!Whole(Repo!Real)
      BY <3>3 DEF WholeAllAlong
    <3>5. Repo!Whole(Repo!Real)'
      BY <3>1, <3>4 DEF Repo!Whole, Repo!Real
    <3> QED BY <3>3, <3>5 DEF WholeAllAlong
  <2> QED BY <1>1, <2>2, <2>3, <2>4, <2>5 DEF Repo!MoveStep
<1>2. ASSUME NEW m \in Move, NEW t \in Outside \cup {"home"}, Repo!Asks(m, t)
      PROVE  WholeAllAlong'
  <2>1. /\ move'[m].at = "accepted" /\ move'[m].from = Repo!Real /\ ~move'[m].moved
        /\ \A i \in Move \ {m} : move'[i] = move[i]
    BY <1>2, MoveAsks
  <2>2. /\ UNCHANGED <<link, holds, torn>>
        /\ \A i \in Move : move[i].at \in {"idle", "over"}
    BY <1>2 DEF Repo!Asks, Repo!disk, Repo!Underway
  <2>3. Repo!Whole(Repo!Real)
    BY <2>2 DEF WholeAllAlong, UnderWay
  <2>4. Repo!Whole(Repo!Real)' /\ Repo!Real' = Repo!Real
    BY <2>2, <2>3 DEF Repo!Whole, Repo!Real
  <2>5. Origin(m)' = Repo!Real
    BY <2>1 DEF Origin
  <2>6. \A i \in Move \ {m} : ~UnderWay(i)'
    BY <2>1, <2>2 DEF UnderWay
  <2> QED BY <2>1, <2>4, <2>5, <2>6 DEF WholeAllAlong, Repo!Whole
<1>3. ASSUME UNCHANGED move, Repo!Real' = Repo!Real,
             \A p \in Repo!Place : Repo!Whole(p) => Repo!Whole(p)'
      PROVE  WholeAllAlong'
  <2>1. Repo!Whole(Repo!Real) => Repo!Whole(Repo!Real)'
    <3>1. Repo!Whole(Repo!Real) => holds'[Repo!Real] # None /\ Repo!Real \notin torn'
      BY <1>3, Places DEF Repo!Whole
    <3> QED BY <1>3, <3>1 DEF Repo!Whole
  <2>2. ASSUME NEW m \in Move, UnderWay(m)
        PROVE  /\ Repo!Whole(Origin(m)) => Repo!Whole(Origin(m))'
               /\ Repo!Whole(move[m].to) => Repo!Whole(move[m].to)'
    <3>1. Origin(m) \in Repo!Place /\ move[m].to \in Repo!Place
      BY <2>2, MoveFields, Places DEF Origin, UnderWay
    <3>2. Origin(m)' = Origin(m) /\ move'[m] = move[m]
      BY <1>3 DEF Origin
    <3>3. /\ Repo!Whole(Origin(m)) => holds'[Origin(m)] # None /\ Origin(m) \notin torn'
          /\ Repo!Whole(move[m].to) => holds'[move[m].to] # None /\ move[m].to \notin torn'
      BY <1>3, <3>1 DEF Repo!Whole
    <3> QED BY <3>2, <3>3 DEF Repo!Whole
  <2>3. \A m \in Move : (UnderWay(m)' <=> UnderWay(m)) /\ move'[m] = move[m]
    BY <1>3 DEF UnderWay
  <2> QED BY <2>1, <2>2, <2>3 DEF WholeAllAlong
<1>4. CASE Repo!Discards
  <2>1. /\ link' = link /\ torn' = torn \ {"aside"} /\ move' = move
        /\ holds' = [holds EXCEPT !["aside"] = None]
        /\ repoMove.phase = "done" /\ repoMove.left = "aside"
    BY <1>4 DEF Repo!Discards, Repo!row
  <2>2. \A i \in Move : UnderWay(i) => move[i].at = "accepted" /\ Origin(i) = Repo!Real
    BY <2>1 DEF LeftIsNoted, UnderWay, HowFar, Before, WayBack, Origin
  <2>3. Repo!Whole(Repo!Real)
    BY <2>2 DEF WholeAllAlong
  <2>4. Repo!Real' = Repo!Real
    BY <2>1 DEF Repo!Real
  <2>5. holds'[Repo!Real] # None /\ Repo!Real \notin torn'
    BY <2>1, <2>3, Places DEF Repo!Whole, Repo!MoveAssumption, Repo!TypeOK
  <2>6. \A i \in Move : Origin(i)' = Origin(i) /\ (UnderWay(i)' <=> UnderWay(i)) /\ move'[i] = move[i]
    BY <2>1 DEF Origin, UnderWay
  <2> QED BY <2>2, <2>4, <2>5, <2>6 DEF WholeAllAlong, Repo!Whole
<1>5. CASE Repo!AppWrites \/ Repo!DeployFetches
  <2>1. PICK p \in Repo!Place : holds[p] # None /\ Repo!Write(p)
    BY <1>5, Places DEF Repo!AppWrites, Repo!DeployFetches, Repo!Leads, AppIsSomewhere,
           Repo!TypeOK
  <2>2. UNCHANGED <<link, torn, move>>
    BY <1>5 DEF Repo!AppWrites, Repo!DeployFetches
  <2>3. holds'[p] # None /\ \A q \in Repo!Place \ {p} : holds'[q] = holds[q]
    BY <2>1, WriteTypes
  <2> QED BY <1>3, <2>2, <2>3 DEF Repo!Whole, Repo!Real
<1>6. CASE \/ Repo!Notes \/ Repo!OperatorStarts \/ Repo!OperatorStops \/ Repo!DeployEnds
           \/ UNCHANGED Repo!vars
  <2>1. UNCHANGED <<link, holds, torn, move>>
    BY <1>6
    DEF Repo!Notes, Repo!OperatorStarts, Repo!OperatorStops, Repo!DeployEnds, Repo!disk, Repo!vars
  <2> QED BY <1>3, <2>1 DEF Repo!Whole, Repo!Real
<1>7. CASE Repo!Dies
  <2>1. UNCHANGED <<link, holds, torn>> /\ ~Repo!Underway
    BY <1>7 DEF Repo!Dies, Repo!disk
  <2>2. \A m \in Move : ~UnderWay(m) /\ ~UnderWay(m)'
    BY <1>7, <2>1, AllOver DEF Repo!Underway, UnderWay
  <2>3. Repo!Whole(Repo!Real)
    BY <2>2 DEF WholeAllAlong
  <2>4. Repo!Whole(Repo!Real)'
    BY <2>1, <2>3 DEF Repo!Whole, Repo!Real
  <2> QED BY <2>2, <2>4 DEF WholeAllAlong
<1> QED BY <1>1, <1>2, <1>4, <1>5, <1>6, <1>7 DEF Repo!Next

\* What has been overlapped or cut short stays so.
LEMMA MoveHistory ==
    ASSUME Repo!TypeOK, [Repo!Next]_(Repo!vars)
    PROVE  (~movesOverlapped' => ~movesOverlapped) /\ (~cut' => ~cut)
<1>1. movesOverlapped \in BOOLEAN /\ cut \in BOOLEAN
  BY DEF Repo!TypeOK
<1>2. ASSUME NEW m \in Move, Repo!MoveStep(m)
      PROVE  movesOverlapped' = movesOverlapped /\ (cut' = cut \/ cut' = TRUE)
  BY <1>2
  DEF Repo!MoveStep, Repo!Journals, Repo!Stops, Repo!Seeds, Repo!Copies, Repo!Verifies,
      Repo!Clears, Repo!SetsAside, Repo!Links, Repo!Skips, Repo!Records, Repo!Restarts,
      Repo!Closes, Repo!Misses, Repo!Undoes, Repo!Revives, Repo!Fails
<1>3. ASSUME NEW m \in Move, Repo!Throws(m) \/ Repo!UndoFails(m)
      PROVE  movesOverlapped' = movesOverlapped /\ (cut' = cut \/ cut' = TRUE)
  BY <1>3 DEF Repo!Throws, Repo!UndoFails
<1>4. ASSUME NEW m \in Move, NEW t \in Outside \cup {"home"}, Repo!Asks(m, t)
      PROVE  (movesOverlapped => movesOverlapped') /\ cut' = cut
  BY <1>4 DEF Repo!Asks
<1>5. CASE \/ Repo!Discards \/ Repo!Notes \/ Repo!AppWrites \/ Repo!OperatorStarts
           \/ Repo!OperatorStops \/ Repo!DeployFetches \/ Repo!DeployEnds \/ UNCHANGED Repo!vars
  BY <1>5
  DEF Repo!Discards, Repo!Notes, Repo!AppWrites, Repo!OperatorStarts, Repo!OperatorStops,
      Repo!DeployFetches, Repo!DeployEnds, Repo!vars
<1>6. CASE Repo!Dies
  BY <1>1, <1>6 DEF Repo!Dies
<1> QED BY <1>1, <1>2, <1>3, <1>4, <1>5, <1>6 DEF Repo!Next

\* No move is under way yet, and nothing has been written.
LEMMA MoveInit ==
    ASSUME Repo!MoveAssumption, Repo!Init
    PROVE  MoveInv
<1>1. link \in Outside \cup {None} /\ repoPath = link /\ torn = {} /\ safe = {} /\ made = 0
  BY DEF Repo!Init
<1>2. Repo!Real \in Outside \cup {"home"} /\ Repo!Real \in Repo!Place
  BY <1>1 DEF Repo!Real, Repo!Place
<1>3. PICK kept \in BOOLEAN :
        /\ holds = [p \in Repo!Place |->
              IF p = Repo!Real \/ (p = "aside" /\ link # None /\ kept) THEN {} ELSE None]
        /\ repoMove = [phase |-> IF link = None THEN "none" ELSE "done",
                       left  |-> IF link # None /\ kept THEN "aside" ELSE None]
  BY DEF Repo!Init, Repo!Real
<1>4. move = [m \in Move |-> Repo!Idle] /\ \A m \in Move : move[m] = Repo!Idle
  BY DEF Repo!Init
<1>5. {} \in Repo!Writes /\ {} # None
  BY DEF Repo!MoveAssumption, Repo!Writes
<1>6. app \in {None, Repo!Real}
  BY DEF Repo!Init, Repo!Real
<1>7. Repo!TypeOK
  <2>1. holds \in [Repo!Place -> Repo!Writes \cup {None}]
    BY <1>3, <1>5
  <2>2. repoMove \in [phase : Repo!Ended \cup {"moving"}, left : Repo!Place \cup {None}]
    BY <1>3 DEF Repo!Ended, Repo!Place
  <2>3. move \in [Move -> Repo!Moving \cup {Repo!Idle}]
    BY <1>4
  <2>4. made \in 0..MaxWrites /\ safe \subseteq 1..made /\ moveFaults \in 0..MoveFaults
    BY <1>1 DEF Repo!Init, Repo!MoveAssumption
  <2>5. app \in Repo!Place \cup {None}
    BY <1>2, <1>6
  <2>6. /\ status \in {"running", "stopped", "deploying"} /\ moveInFlight \in BOOLEAN
        /\ discarding \in BOOLEAN /\ movesOverlapped \in BOOLEAN /\ cut \in BOOLEAN
        /\ torn \subseteq Repo!Place
    BY DEF Repo!Init
  <2> QED BY <1>1, <2>1, <2>2, <2>3, <2>4, <2>5, <2>6 DEF Repo!TypeOK
<1>8. Repo!Whole(Repo!Real)
  BY <1>1, <1>2, <1>3, <1>5 DEF Repo!Whole
<1>9. AppIsSomewhere
  BY <1>6, <1>8 DEF AppIsSomewhere, Repo!Whole
<1>10. \A m \in Move : move[m].at = "idle" /\ move[m].unlinked = FALSE
  BY <1>4 DEF Repo!Idle
<1>11. OneBusy /\ Itinerary /\ MovesAlone /\ LeftIsNoted
  BY <1>10 DEF OneBusy, Itinerary, MovesAlone, LeftIsNoted
<1>12. HomeIsTrusted
  <2>1. link # None => holds["home"] = None
    BY <1>1, <1>3, <1>7, Places DEF Repo!Real, Repo!MoveAssumption
  <2> QED BY <1>1, <1>8, <2>1 DEF HomeIsTrusted, Trusted
<1>13. \A m \in Move : ~UnderWay(m)
  BY <1>10 DEF UnderWay
<1> QED BY <1>7, <1>8, <1>9, <1>11, <1>12, <1>13 DEF MoveInv, WholeAllAlong

\* Every step of the moves keeps their invariant.
LEMMA MoveStep ==
    ASSUME Repo!MoveAssumption, MoveInv, [Repo!Next]_(Repo!vars)
    PROVE  MoveInv'
<1>1. Repo!TypeOK /\ AppIsSomewhere /\ OneBusy /\ Itinerary
  BY DEF MoveInv
<1>2. Repo!TypeOK' /\ AppIsSomewhere' /\ OneBusy' /\ Itinerary'
  BY <1>1, MoveTypes, MoveApp, MoveOneBusy
<1>3. ASSUME ~movesOverlapped'
      PROVE  /\ MovesAlone' /\ HomeIsTrusted' /\ LeftIsNoted'
             /\ \A m \in Move : UnderWay(m)' => WayBack(m)' /\ HowFar(m)'
             /\ ~cut' => WholeAllAlong'
  <2>1. movesOverlapped \in BOOLEAN /\ ~movesOverlapped /\ (~cut' => ~cut)
    BY <1>1, <1>3, MoveHistory DEF Repo!TypeOK
  <2>2. /\ MovesAlone /\ HomeIsTrusted /\ LeftIsNoted
        /\ \A m \in Move : UnderWay(m) => WayBack(m) /\ HowFar(m)
        /\ ~cut => WholeAllAlong
    BY <2>1 DEF MoveInv
  <2>3. /\ MovesAlone' /\ HomeIsTrusted' /\ LeftIsNoted'
        /\ \A m \in Move : UnderWay(m)' => WayBack(m)' /\ HowFar(m)'
    BY <1>1, <1>3, <2>1, <2>2, MoveSound
  <2>4. ASSUME ~cut' PROVE WholeAllAlong'
    BY <1>1, <1>3, <2>1, <2>2, <2>4, MoveWhole
  <2> QED BY <2>3, <2>4
<1> QED BY <1>2, <1>3 DEF MoveInv

-----------------------------------------------------------------------------
(* Schedules *)

\* The clock shows less than w before this instant, and not at it: the minute itself,
\* by the clock as it was or as it is once moved, or the move that passes over it.
First(w) ==
    IF w - zone.before < zone.moved THEN w - zone.before
    ELSE IF w - zone.after >= zone.moved THEN w - zone.after
    ELSE zone.moved

\* The types of a schedule and its clock.
SchedulesInv == fields \in Fields /\ zone \in Zones /\ from \in Int

\* The zone's clock, and how long a day is.
LEMMA Clocks ==
    ASSUME Occurrences!CronAssumption, zone \in Zones
    PROVE  /\ zone.before \in Int /\ zone.after \in Int /\ zone.moved \in Int
           /\ Occurrences!Hour \in Nat \ {0} /\ Occurrences!Day \in Nat \ {0}
           /\ zone.before < Occurrences!Day /\ - zone.before < Occurrences!Day
           /\ zone.after < Occurrences!Day /\ - zone.after < Occurrences!Day
<1>1. Occurrences!Hour \in Nat \ {0} /\ HoursOfDay \in Nat \ {0}
  BY DEF Occurrences!CronAssumption, Occurrences!Hour
<1>2. ASSUME NEW i \in Nat \ {0}, NEW j \in Nat \ {0} PROVE i * j \in Nat \ {0}
  BY <1>2
<1>3. Occurrences!Day \in Nat \ {0}
  BY <1>1, <1>2 DEF Occurrences!Day
<1>4. /\ zone.before \in (1 - Occurrences!Day)..(Occurrences!Day - 1)
      /\ zone.after \in (1 - Occurrences!Day)..(Occurrences!Day - 1)
      /\ zone.moved \in Int
  BY DEF Occurrences!CronAssumption
<1> QED BY <1>1, <1>3, <1>4

\* The clock shows a minute.
LEMMA ClockShows ==
    ASSUME Occurrences!CronAssumption, zone \in Zones, NEW i \in Int
    PROVE  Occurrences!WallTime(i) \in Int
  BY Clocks DEF Occurrences!WallTime, Occurrences!OffsetAt

\* That instant is the first at which the clock has come to w.
LEMMA FirstIsFirst ==
    ASSUME Occurrences!CronAssumption, zone \in Zones, NEW w \in Int
    PROVE  /\ First(w) \in Int
           /\ Occurrences!WallTime(First(w)) >= w
           /\ \A i \in Int : i < First(w) => Occurrences!WallTime(i) < w
           /\ First(w) \in (w - Occurrences!Day)..(w + 2 * Occurrences!Day)
<1> USE Clocks DEF Occurrences!WallTime, Occurrences!OffsetAt
<1>1. CASE w - zone.before < zone.moved
  <2>1. First(w) = w - zone.before
    BY <1>1 DEF First
  <2> QED BY <1>1, <2>1
<1>2. CASE ~(w - zone.before < zone.moved) /\ w - zone.after >= zone.moved
  <2>1. First(w) = w - zone.after
    BY <1>2 DEF First
  <2> QED BY <1>2, <2>1
<1>3. CASE ~(w - zone.before < zone.moved) /\ ~(w - zone.after >= zone.moved)
  <2>1. First(w) = zone.moved
    BY <1>3 DEF First
  <2> QED BY <1>3, <2>1
<1> QED BY <1>1, <1>2, <1>3

\* Later times are reached no sooner.
LEMMA FirstIsMonotone ==
    ASSUME Occurrences!CronAssumption, zone \in Zones, NEW v \in Int, NEW w \in Int, v <= w
    PROVE  First(v) <= First(w)
<1>1. SUFFICES ASSUME First(w) < First(v) PROVE FALSE
  BY FirstIsFirst
<1>2. Occurrences!WallTime(First(w)) < v /\ Occurrences!WallTime(First(w)) >= w
  BY <1>1, FirstIsFirst
<1>3. Occurrences!WallTime(First(w)) \in Int
  BY FirstIsFirst, ClockShows
<1> QED BY <1>2, <1>3

\* The reference finds it.
LEMMA ReachedIsFirst ==
    ASSUME Occurrences!CronAssumption, zone \in Zones, NEW w \in Int
    PROVE  Occurrences!Reached(w) = First(w)
<1> DEFINE range == (w - Occurrences!Day)..(w + 2 * Occurrences!Day)
           Is(i) == /\ Occurrences!WallTime(i) >= w
                    /\ \A j \in (w - Occurrences!Day)..(i - 1) : Occurrences!WallTime(j) < w
<1>1. Occurrences!Day \in Nat
  BY Clocks
<1>2. First(w) \in range /\ Is(First(w))
  BY <1>1, FirstIsFirst
<1>3. ASSUME NEW i \in range, Is(i) PROVE i = First(w)
  <2>1. i \in Int /\ First(w) \in Int /\ Occurrences!WallTime(i) \in Int
    BY <1>1, FirstIsFirst, ClockShows
  <2>2. ~(i < First(w))
    BY <1>3, <2>1, FirstIsFirst
  <2>3. ~(First(w) < i)
    <3>1. First(w) < i => First(w) \in (w - Occurrences!Day)..(i - 1)
      BY <1>1, <1>2, <2>1
    <3>2. Occurrences!WallTime(First(w)) \in Int
      BY <2>1, ClockShows
    <3> QED BY <1>2, <1>3, <3>1, <3>2
  <2> QED BY <2>1, <2>2, <2>3
<1>4. Occurrences!Reached(w) = CHOOSE i \in range : Is(i)
  BY DEF Occurrences!Reached
<1> HIDE DEF range, Is
<1> QED BY <1>2, <1>3, <1>4

\* A set of integers that has a lower bound has a least one.
LEMMA MinIsMin ==
    ASSUME NEW b \in Int, NEW S \in SUBSET Int, S # {}, \A x \in S : b <= x
    PROVE  Occurrences!Min(S) \in S /\ \A y \in S : Occurrences!Min(S) <= y
<1> DEFINE Less == {ss \in Nat \X Nat : ss[1] < ss[2]}
           T == {x - b : x \in S}
<1>1. IsWellFoundedOn(Less, Nat)
  BY NatLessThanWellFounded DEF OpToRel
<1>2. T \subseteq Nat /\ T # {}
  <2>1. \A x \in S : x - b \in Nat
    OBVIOUS
  <2> QED BY <2>1
<1> HIDE DEF Less
<1>3. PICK t \in T : \A u \in T : ~(<<u, t>> \in Less)
  BY <1>1, <1>2, WFMin
<1>4. PICK x \in S : t = x - b
  OBVIOUS
<1>5. ASSUME NEW y \in S PROVE x <= y
  <2>1. y - b \in T /\ y - b \in Nat /\ t \in Nat
    BY <1>2
  <2>2. ~(y - b < t)
    BY <1>3, <2>1 DEF Less
  <2> QED BY <1>4, <2>2
<1> QED BY <1>4, <1>5 DEF Occurrences!Min

\* Where the halving of l to h ends, for a move at m.
Found(m, l, h) ==
    IF h - l <= 1 THEN h
    ELSE IF m <= l + 1 THEN l + 1
    ELSE IF m >= h THEN h ELSE m

\* It ends there in the half that it goes on with.
LEMMA FoundInHalf ==
    ASSUME NEW m \in Int, NEW l \in Int, NEW h \in Int, NEW mid \in Int, l < mid, mid < h
    PROVE  Found(m, l, h) = IF mid >= m THEN Found(m, l, mid) ELSE Found(m, mid, h)
<1>1. CASE mid >= m
  <2>1. CASE m <= l + 1
    BY <1>1, <2>1 DEF Found
  <2>2. CASE ~(m <= l + 1)
    BY <1>1, <2>2 DEF Found
  <2> QED BY <2>1, <2>2
<1>2. CASE ~(mid >= m)
  <2>1. CASE m >= h
    BY <1>2, <2>1 DEF Found
  <2>2. CASE ~(m >= h)
    BY <1>2, <2>2 DEF Found
  <2> QED BY <2>1, <2>2
<1> QED BY <1>1, <1>2

\* One halving, of which the search is the fixed point.
Half(l, h) == l + (h - l) \div 2
HalveOnce(f, w, r) ==
    IF r[2] - r[1] <= 1 THEN r[2]
    ELSE IF Occurrences!WallTime(Half(r[1], r[2])) >= w
         THEN f[<<r[1], Half(r[1], r[2])>>]
         ELSE f[<<Half(r[1], r[2]), r[2]>>]
HalvedOnce(f, w) == [r \in Int \X Int |-> HalveOnce(f, w, r)]

\* What halving asks of a clock that passes over w, it asks of the instant of the move.
LEMMA HalvingShows ==
    ASSUME Occurrences!CronAssumption, zone \in Zones, NEW w \in Int,
           w - zone.before >= zone.moved, w - zone.after < zone.moved,
           NEW f, NEW l \in Int, NEW h \in Int
    PROVE  HalveOnce(f, w, <<l, h>>) =
             IF h - l <= 1 THEN h
             ELSE IF Half(l, h) >= zone.moved THEN f[<<l, Half(l, h)>>] ELSE f[<<Half(l, h), h>>]
<1>1. Half(l, h) \in Int
  BY DEF Half
<1>2. Occurrences!WallTime(Half(l, h)) >= w <=> Half(l, h) >= zone.moved
  BY <1>1, Clocks DEF Occurrences!WallTime, Occurrences!OffsetAt
<1> QED BY <1>2 DEF HalveOnce

\* The halving finds the move of a clock that passes over w.
LEMMA NarrowFinds ==
    ASSUME Occurrences!CronAssumption, zone \in Zones, NEW w \in Int,
           NEW lo \in Int, NEW hi \in Int, lo < zone.moved, zone.moved <= hi,
           w - zone.before >= zone.moved, w - zone.after < zone.moved
    PROVE  Occurrences!Narrow(w, lo, hi) = zone.moved
<1> DEFINE narrow == CHOOSE f : f = HalvedOnce(f, w)
           found == [r \in Int \X Int |-> Found(zone.moved, r[1], r[2])]
           Less == {ss \in Nat \X Nat : ss[1] < ss[2]}
           Misses(n) == \E l, h \in Int : /\ h - l = n /\ l < zone.moved /\ zone.moved <= h
                                          /\ narrow[<<l, h>>] # zone.moved
           T == {n \in Nat : Misses(n)}
<1>1. Occurrences!Narrow(w, lo, hi) = narrow[<<lo, hi>>]
  BY DEF Occurrences!Narrow, HalvedOnce, HalveOnce, Half
<1>2. zone.moved \in Int
  BY Clocks
<1>4. found = HalvedOnce(found, w)
  <2> HIDE DEF found
  <2>2. ASSUME NEW l \in Int, NEW h \in Int
        PROVE  Found(zone.moved, l, h) = HalveOnce(found, w, <<l, h>>)
    <3>1. CASE h - l <= 1
      BY <3>1, HalvingShows DEF Found
    <3>2. CASE ~(h - l <= 1)
      <4>1. Half(l, h) \in Int /\ l < Half(l, h) /\ Half(l, h) < h
        BY <3>2 DEF Half
      <4>2. HalveOnce(found, w, <<l, h>>) =
              IF h - l <= 1 THEN h
              ELSE IF Half(l, h) >= zone.moved
                   THEN found[<<l, Half(l, h)>>] ELSE found[<<Half(l, h), h>>]
        BY HalvingShows
      <4>3. /\ found[<<l, Half(l, h)>>] = Found(zone.moved, l, Half(l, h))
            /\ found[<<Half(l, h), h>>] = Found(zone.moved, Half(l, h), h)
        BY <4>1 DEF found
      <4>4. Found(zone.moved, l, h) =
              IF Half(l, h) >= zone.moved THEN Found(zone.moved, l, Half(l, h))
              ELSE Found(zone.moved, Half(l, h), h)
        BY <1>2, <4>1, FoundInHalf
      <4> QED BY <3>2, <4>2, <4>3, <4>4
    <3> QED BY <3>1, <3>2
  <2>3. ASSUME NEW r \in Int \X Int PROVE Found(zone.moved, r[1], r[2]) = HalveOnce(found, w, r)
    <3>1. r[1] \in Int /\ r[2] \in Int /\ r = <<r[1], r[2]>>
      OBVIOUS
    <3> QED BY <2>2, <3>1
  <2>4. [r \in Int \X Int |-> Found(zone.moved, r[1], r[2])] = HalvedOnce(found, w)
    BY <2>3 DEF HalvedOnce
  <2> QED BY <2>4 DEF found
<1> HIDE DEF found
<1>5. narrow = HalvedOnce(narrow, w)
  BY <1>4
<1> HIDE DEF narrow
<1>6. ASSUME NEW l \in Int, NEW h \in Int
      PROVE  narrow[<<l, h>>] =
               IF h - l <= 1 THEN h
               ELSE IF Half(l, h) >= zone.moved
                    THEN narrow[<<l, Half(l, h)>>] ELSE narrow[<<Half(l, h), h>>]
  <2>1. \A f : HalvedOnce(f, w)[<<l, h>>] = HalveOnce(f, w, <<l, h>>)
    BY DEF HalvedOnce
  <2>2. narrow[<<l, h>>] = HalvedOnce(narrow, w)[<<l, h>>]
    BY <1>5
  <2> QED BY <2>1, <2>2, HalvingShows
<1>7. T = {}
  <2>1. SUFFICES ASSUME T # {} PROVE FALSE
    OBVIOUS
  <2>2. IsWellFoundedOn(Less, Nat)
    BY NatLessThanWellFounded DEF OpToRel
  <2>3. T \subseteq Nat
    OBVIOUS
  <2> HIDE DEF Less, T
  <2>4. PICK n \in T : \A k \in T : ~(<<k, n>> \in Less)
    BY <2>1, <2>2, <2>3, WFMin
  <2>5. n \in Nat /\ Misses(n)
    BY DEF T
  <2>6. PICK l \in Int, h \in Int : /\ h - l = n /\ l < zone.moved /\ zone.moved <= h
                                    /\ narrow[<<l, h>>] # zone.moved
    BY <2>5
  <2>7. ASSUME NEW k \in Nat, k < n PROVE ~Misses(k)
    <3>1. <<k, n>> \in Less
      BY <2>5, <2>7 DEF Less
    <3>2. k \notin T
      BY <2>4, <3>1
    <3> QED BY <3>2 DEF T
  <2>8. narrow[<<l, h>>] =
          IF h - l <= 1 THEN h
          ELSE IF Half(l, h) >= zone.moved
               THEN narrow[<<l, Half(l, h)>>] ELSE narrow[<<Half(l, h), h>>]
    BY <1>6
  <2>9. h - l > 1
    BY <1>2, <2>6, <2>8
  <2>10. Half(l, h) \in Int /\ l < Half(l, h) /\ Half(l, h) < h
    BY <2>9 DEF Half
  <2>11. CASE Half(l, h) >= zone.moved
    <3>1. narrow[<<l, Half(l, h)>>] # zone.moved
      BY <2>6, <2>8, <2>9, <2>11
    <3>2. Half(l, h) - l \in Nat /\ Half(l, h) - l < n
      BY <2>6, <2>10
    <3>3. Misses(Half(l, h) - l)
      BY <2>6, <2>10, <2>11, <3>1
    <3> HIDE DEF Misses
    <3> QED BY <2>7, <3>2, <3>3
  <2>12. CASE ~(Half(l, h) >= zone.moved)
    <3>1. narrow[<<Half(l, h), h>>] # zone.moved
      BY <2>6, <2>8, <2>9, <2>12
    <3>2. h - Half(l, h) \in Nat /\ h - Half(l, h) < n
      BY <2>6, <2>10
    <3>3. Misses(h - Half(l, h))
      <4>1. Half(l, h) < zone.moved
        BY <1>2, <2>10, <2>12
      <4> QED BY <2>6, <2>10, <3>1, <4>1
    <3> HIDE DEF Misses
    <3> QED BY <2>7, <3>2, <3>3
  <2> QED BY <2>11, <2>12
<1>8. hi - lo \in Nat /\ ~Misses(hi - lo)
  <2>1. hi - lo \in Nat
    BY <1>2
  <2> QED BY <1>7, <2>1
<1> QED BY <1>1, <1>8

\* A lower bound in a set is its least member.
LEMMA MinIs ==
    ASSUME NEW S \in SUBSET Int, NEW m \in S, \A x \in S : m <= x
    PROVE  Occurrences!Min(S) = m
<1>1. ASSUME NEW n \in S, \A x \in S : n <= x PROVE n = m
  <2>1. n <= m /\ m <= n /\ n \in Int /\ m \in Int
    BY <1>1
  <2> QED BY <2>1
<1> QED BY <1>1 DEF Occurrences!Min

\* The least and the greatest of two.
LEMMA OfTwo ==
    ASSUME NEW i \in Int, NEW j \in Int, i <= j
    PROVE  Occurrences!Min({i, j}) = i /\ Occurrences!Max({i, j}) = j
  BY DEF Occurrences!Min, Occurrences!Max

\* What the code takes for the instant of a wall time is the first that has come to it.
LEMMA WallToInstantIsFirst ==
    ASSUME Occurrences!CronAssumption, zone \in Zones, NEW w \in Int
    PROVE  Occurrences!WallToInstant(w) = First(w)
<1> DEFINE before == w - zone.before
           after == w - zone.after
           candidates == {w - Occurrences!OffsetAt(i) : i \in {w, w - Occurrences!Day, w + Occurrences!Day}}
           valid == {c \in candidates : Occurrences!WallTime(c) = w}
<1>1. Occurrences!WallToInstant(w) =
        IF valid # {} THEN Occurrences!Min(valid)
        ELSE Occurrences!Narrow(w, Occurrences!Min(candidates), Occurrences!Max(candidates))
  BY DEF Occurrences!WallToInstant
<1>2. /\ zone.before \in Int /\ zone.after \in Int /\ zone.moved \in Int /\ before \in Int /\ after \in Int
      /\ w - Occurrences!Day \in Int /\ w + Occurrences!Day \in Int
      /\ w - Occurrences!Day < before /\ w - Occurrences!Day < after
      /\ before < w + Occurrences!Day /\ after < w + Occurrences!Day
  BY Clocks
<1>3. candidates = {w - Occurrences!OffsetAt(w), w - Occurrences!OffsetAt(w - Occurrences!Day),
                    w - Occurrences!OffsetAt(w + Occurrences!Day)}
  OBVIOUS
<1>4. \A i \in Int : w - Occurrences!OffsetAt(i) = IF i < zone.moved THEN before ELSE after
  BY DEF Occurrences!OffsetAt
<1>5. \A i \in Int : Occurrences!WallTime(i) = w <=> i = IF i < zone.moved THEN before ELSE after
  BY <1>2 DEF Occurrences!WallTime, Occurrences!OffsetAt
<1>6. First(w) = IF before < zone.moved THEN before ELSE IF after >= zone.moved THEN after ELSE zone.moved
  BY DEF First
<1> HIDE DEF candidates, before, after
<1>7. candidates \subseteq {before, after}
  BY <1>2, <1>3, <1>4
<1>8. CASE before < zone.moved
  <2>1. w - Occurrences!OffsetAt(w - Occurrences!Day) = before
    BY <1>2, <1>4, <1>8
  <2>2. before \in valid
    BY <1>2, <1>3, <1>5, <1>8, <2>1
  <2>3. \A c \in valid : before <= c
    BY <1>2, <1>5, <1>7, <1>8
  <2>4. \A c \in valid : c \in Int
    BY <1>2, <1>7
  <2>5. Occurrences!Min(valid) = before
    <3> HIDE DEF valid
    <3>1. valid \in SUBSET Int
      BY <2>4
    <3> QED BY <2>2, <2>3, <3>1, MinIs
  <2> QED BY <1>1, <1>6, <1>8, <2>2, <2>5
<1>9. CASE ~(before < zone.moved) /\ after >= zone.moved
  <2>1. w - Occurrences!OffsetAt(w + Occurrences!Day) = after
    BY <1>2, <1>4, <1>9
  <2>2. after \in valid
    BY <1>2, <1>3, <1>5, <1>9, <2>1
  <2>3. \A c \in valid : c = after
    BY <1>2, <1>5, <1>7, <1>9
  <2>4. valid = {after}
    BY <2>2, <2>3
  <2>5. Occurrences!Min({after}) = after
    BY <1>2 DEF Occurrences!Min
  <2> QED BY <1>1, <1>6, <1>9, <2>4, <2>5
<1>10. CASE ~(before < zone.moved) /\ ~(after >= zone.moved)
  <2>1. /\ w - Occurrences!OffsetAt(w - Occurrences!Day) = before
        /\ w - Occurrences!OffsetAt(w + Occurrences!Day) = after
    BY <1>2, <1>4, <1>10
  <2>2. candidates = {after, before}
    <3>1. before \in candidates /\ after \in candidates
      BY <1>3, <2>1
    <3> QED BY <1>7, <3>1
  <2>3. valid = {}
    <3>1. Occurrences!WallTime(before) # w /\ Occurrences!WallTime(after) # w
      BY <1>2, <1>5, <1>10
    <3> QED BY <1>7, <3>1
  <2>4. Occurrences!Min(candidates) = after /\ Occurrences!Max(candidates) = before
    BY <1>2, <1>10, <2>2, OfTwo
  <2>5. Occurrences!WallToInstant(w) = Occurrences!Narrow(w, after, before)
    BY <1>1, <2>3, <2>4
  <2>6. Occurrences!Narrow(w, after, before) = zone.moved
    <3>1. /\ after < zone.moved /\ zone.moved <= before
          /\ w - zone.before >= zone.moved /\ w - zone.after < zone.moved
      BY <1>2, <1>10 DEF before, after
    <3> QED BY <1>2, <3>1, NarrowFinds
  <2> QED BY <1>6, <1>10, <2>5, <2>6
<1> QED BY <1>8, <1>9, <1>10

\* A whole number of days has gone by, not more.
LEMMA WholeDays ==
    ASSUME NEW x \in Int, NEW d \in Nat \ {0}
    PROVE  x \div d \in Int /\ (x \div d) * d <= x
  BY Z3

\* So many of one are so many of another at most.
LEMMA Times ==
    ASSUME NEW i \in Int, NEW j \in Int, NEW d \in Nat, i <= j
    PROVE  i * d \in Int /\ j * d \in Int /\ i * d <= j * d
  OBVIOUS

\* The times of a schedule on these days are of the days.
LEMMA TimesOfDays ==
    ASSUME Occurrences!CronAssumption, SchedulesInv, NEW lo \in Int, NEW hi \in Int,
           NEW w \in Occurrences!WallTimes(Occurrences!ParseCron(fields), lo..hi)
    PROVE  /\ w \in Int
           /\ \E d \in lo..hi :
                 /\ d * Occurrences!Day <= w /\ w < (d + 1) * Occurrences!Day
                 /\ \A days : d \in days =>
                       w \in Occurrences!WallTimes(Occurrences!ParseCron(fields), days)
<1> DEFINE spec == Occurrences!ParseCron(fields)
<1>1. /\ MinutesOfHour \in Nat \ {0} /\ HoursOfDay \in Nat \ {0}
      /\ Occurrences!Hour = MinutesOfHour /\ Occurrences!Day = HoursOfDay * MinutesOfHour
  BY DEF Occurrences!CronAssumption, Occurrences!Hour, Occurrences!Day
<1>2. spec.minutes \subseteq 0..(MinutesOfHour - 1) /\ spec.hours \subseteq 0..(HoursOfDay - 1)
  BY DEF Occurrences!CronAssumption, SchedulesInv, Occurrences!ParseCron
<1> HIDE DEF spec
<1>3. \A days : Occurrences!WallTimes(spec, days) =
         {x * Occurrences!Day + h * Occurrences!Hour + m :
             x \in {y \in days : Occurrences!DayMatches(spec, y)}, h \in spec.hours, m \in spec.minutes}
  BY DEF Occurrences!WallTimes
<1>4. PICK d \in lo..hi, h \in spec.hours, m \in spec.minutes :
         Occurrences!DayMatches(spec, d) /\ w = d * Occurrences!Day + h * Occurrences!Hour + m
  BY <1>3 DEF spec
<1>5. /\ d \in Int /\ h \in 0..(HoursOfDay - 1) /\ m \in 0..(MinutesOfHour - 1)
  BY <1>2
<1>6. 0 * Occurrences!Hour <= h * Occurrences!Hour
  BY <1>1, <1>5, Times
<1>7. h * Occurrences!Hour <= (HoursOfDay - 1) * Occurrences!Hour
  BY <1>1, <1>5, Times
<1>8. (HoursOfDay - 1) * Occurrences!Hour = Occurrences!Day - Occurrences!Hour
  BY <1>1
<1>9. (d + 1) * Occurrences!Day = d * Occurrences!Day + Occurrences!Day
  BY <1>1, <1>5
<1>10. d * Occurrences!Day \in Int /\ h * Occurrences!Hour \in Int /\ Occurrences!Day \in Int
  BY <1>1, <1>5
<1>11. w \in Int /\ d * Occurrences!Day <= w /\ w < (d + 1) * Occurrences!Day
  BY <1>1, <1>4, <1>5, <1>6, <1>7, <1>8, <1>9, <1>10
<1>12. ASSUME NEW days, d \in days PROVE w \in Occurrences!WallTimes(spec, days)
  BY <1>3, <1>4, <1>12
<1> QED BY <1>4, <1>11, <1>12 DEF spec

\* What the schedules ask and what they are to be told: the first of the times due.
LEMMA NextIsFirst ==
    ASSUME Occurrences!CronAssumption, SchedulesInv
    PROVE  /\ Occurrences!NextIsNext
           /\ Occurrences!NextAfter(Occurrences!ParseCron(fields), from) \in Int \cup {None}
<1> DEFINE spec == Occurrences!ParseCron(fields)
           today == Occurrences!WallTime(from) \div Occurrences!Day
           last == today + DaysAhead - 1
           times == Occurrences!WallTimes(spec, today..last)
           more == Occurrences!WallTimes(spec, (today - 2)..last)
           due == {w \in times : First(w) > from}
           later == {i \in {First(w) : w \in more} : i > from}
<1>1. zone \in Zones /\ from \in Int /\ DaysAhead \in Int /\ Occurrences!Day \in Nat \ {0}
  BY Clocks DEF SchedulesInv, Occurrences!CronAssumption
<1>2. Occurrences!WallTime(from) \in Int
  BY <1>1, ClockShows
<1>3. today \in Int /\ today * Occurrences!Day <= Occurrences!WallTime(from)
  BY <1>1, <1>2, WholeDays
<1> HIDE DEF today
<1>4. last \in Int /\ today - 2 \in Int
  BY <1>1, <1>3
<1> HIDE DEF spec, last
<1>5. ASSUME NEW w \in times PROVE w \in Int /\ today * Occurrences!Day <= w /\ w \in more
  <2>1. PICK d \in today..last :
           /\ d * Occurrences!Day <= w /\ w \in Int
           /\ \A days : d \in days => w \in Occurrences!WallTimes(spec, days)
    BY <1>3, <1>4, TimesOfDays DEF spec
  <2>2. today * Occurrences!Day <= d * Occurrences!Day
    BY <1>1, <1>3, <1>4, Times
  <2>3. d \in (today - 2)..last /\ d \in Int
    BY <1>3, <1>4
  <2>4. today * Occurrences!Day \in Int /\ d * Occurrences!Day \in Int
    BY <1>1, <1>3, <2>3, Times
  <2>5. today * Occurrences!Day <= w
    <3>1. ASSUME NEW i \in Int, NEW j \in Int, i <= j, j <= w, w \in Int PROVE i <= w
      BY <3>1
    <3> QED BY <2>1, <2>2, <2>4, <3>1
  <2>6. w \in more
    BY <2>1, <2>3
  <2> QED BY <2>1, <2>5, <2>6
<1>6. ASSUME NEW w \in more PROVE w \in Int /\ (First(w) > from => w \in times)
  <2>1. PICK d \in (today - 2)..last :
           /\ w < (d + 1) * Occurrences!Day /\ w \in Int
           /\ \A days : d \in days => w \in Occurrences!WallTimes(spec, days)
    BY <1>4, TimesOfDays DEF spec
  <2>2. CASE d >= today
    <3>1. d \in today..last
      BY <1>3, <1>4, <2>2
    <3> QED BY <2>1, <3>1
  <2>3. CASE ~(d >= today)
    <3>1. d + 1 \in Int /\ d + 1 <= today
      BY <1>3, <1>4, <2>3
    <3>2. /\ (d + 1) * Occurrences!Day \in Int /\ today * Occurrences!Day \in Int
          /\ (d + 1) * Occurrences!Day <= today * Occurrences!Day
      BY <1>1, <1>3, <3>1, Times
    <3>3. ~(Occurrences!WallTime(from) < w)
      BY <1>2, <1>3, <2>1, <3>2
    <3>4. ~(from < First(w))
      BY <1>1, <2>1, <3>3, FirstIsFirst
    <3>5. First(w) \in Int
      BY <1>1, <2>1, FirstIsFirst
    <3> QED BY <1>1, <2>1, <3>4, <3>5
  <2> QED BY <1>3, <1>4, <2>2, <2>3
<1> HIDE DEF times, more
<1>7. later = {First(w) : w \in due}
  BY <1>5, <1>6
<1>8. \A w \in due : w \in Int /\ First(w) \in Int /\ today * Occurrences!Day <= w
  BY <1>1, <1>5, FirstIsFirst
<1>9. Occurrences!NextAfter(spec, from) =
        IF due = {} THEN None ELSE Occurrences!WallToInstant(Occurrences!Min(due))
  <2>1. {w \in times : Occurrences!WallToInstant(w) > from} = due
    BY <1>1, <1>5, WallToInstantIsFirst
  <2> QED BY <2>1 DEF Occurrences!NextAfter, today, times, last
<1>10. Occurrences!NextIsNext <=>
         Occurrences!NextAfter(spec, from) = IF later = {} THEN None ELSE Occurrences!Min(later)
  <2>1. {Occurrences!Reached(w) : w \in more} = {First(w) : w \in more}
    BY <1>1, <1>6, ReachedIsFirst
  <2> QED BY <2>1 DEF Occurrences!NextIsNext, spec, today, more, last
<1> HIDE DEF due, later
<1>11. CASE due = {}
  <2>1. later = {}
    BY <1>7, <1>11
  <2> QED BY <1>9, <1>10, <1>11, <2>1 DEF spec
<1>12. CASE due # {}
  <2>1. due \in SUBSET Int /\ today * Occurrences!Day \in Int
    BY <1>1, <1>3, <1>8
  <2>2. Occurrences!Min(due) \in due /\ \A w \in due : Occurrences!Min(due) <= w
    BY <1>8, <1>12, <2>1, MinIsMin
  <2> DEFINE least == Occurrences!Min(due)
  <2> HIDE DEF least
  <2>3. least \in due /\ least \in Int /\ \A w \in due : least <= w
    BY <2>1, <2>2 DEF least
  <2>4. later \in SUBSET Int /\ First(least) \in later
    BY <1>7, <1>8, <2>3
  <2>5. \A i \in later : First(least) <= i
    <3>1. \A w \in due : First(least) <= First(w)
      BY <1>1, <1>8, <2>3, FirstIsMonotone
    <3> QED BY <1>7, <3>1
  <2>6. Occurrences!Min(later) = First(least)
    BY <2>4, <2>5, MinIs
  <2>7. Occurrences!WallToInstant(least) = First(least) /\ First(least) \in Int
    BY <1>1, <1>8, <2>3, WallToInstantIsFirst
  <2>8. Occurrences!NextAfter(spec, from) = First(least)
    BY <1>9, <1>12, <2>7 DEF least
  <2>9. later # {}
    BY <2>4
  <2> QED BY <1>10, <2>6, <2>7, <2>8, <2>9 DEF spec
<1> QED BY <1>11, <1>12

\* The instants asked about are instants.
LEMMA SchedulesStep ==
    ASSUME Occurrences!CronAssumption, SchedulesInv, [Occurrences!Next]_(Occurrences!vars)
    PROVE  SchedulesInv'
<1>1. CASE Occurrences!Occurs
  BY <1>1, NextIsFirst DEF Occurrences!Occurs, SchedulesInv
<1>2. CASE Occurrences!Passes
  BY <1>2 DEF Occurrences!Passes, SchedulesInv
<1>3. CASE UNCHANGED Occurrences!vars
  BY <1>3 DEF Occurrences!vars, SchedulesInv
<1> QED BY <1>1, <1>2, <1>3 DEF Occurrences!Next

-----------------------------------------------------------------------------
(* The parts together *)

\* A behaviour is of one part, and the part has its invariant.
PartsInv ==
    /\ part = "moves" => MoveInv
    /\ part = "mounts" => MountsInv
    /\ part = "poll" => PollInv
    /\ part = "gate" => GateInv
    /\ part = "schedules" => SchedulesInv

\* A step of a behaviour is a step of its part.
LEMMA PartsStep ==
    ASSUME [Next]_vars
    PROVE  /\ part' = part
           /\ part = "moves" => [Repo!Next]_(Repo!vars)
           /\ part = "mounts" => [Mounts!Next]_(Mounts!vars)
           /\ part = "poll" => [Poll!Next]_(Poll!vars)
           /\ part = "gate" => [Gate!Next]_(Gate!vars)
           /\ part = "schedules" => [Occurrences!Next]_(Occurrences!vars)
<1>1. part' = part
  BY DEF Next, vars
<1>2. ASSUME part = "moves" PROVE [Repo!Next]_(Repo!vars)
  BY <1>2 DEF Next, vars, repo, Repo!vars, Repo!disk, Repo!row
<1>3. ASSUME part = "mounts" PROVE [Mounts!Next]_(Mounts!vars)
  BY <1>3 DEF Next, vars, mounts, Mounts!vars
<1>4. ASSUME part = "poll" PROVE [Poll!Next]_(Poll!vars)
  BY <1>4 DEF Next, vars, poll, Poll!vars, Poll!row, Poll!asked, Poll!history
<1>5. ASSUME part = "gate" PROVE [Gate!Next]_(Gate!vars)
  BY <1>5 DEF Next, vars, port, Gate!vars
<1>6. ASSUME part = "schedules" PROVE [Occurrences!Next]_(Occurrences!vars)
  BY <1>6 DEF Next, vars, schedules, Occurrences!vars
<1> QED BY <1>1, <1>2, <1>3, <1>4, <1>5, <1>6

\* The invariant of every part holds from the start, and with every step: so do the
\* types of project-repo.ts, project-mounts.ts, deploy-poll.ts and access.ts.
THEOREM PartsCorrect == Spec => []PartsInv
<1>1. Init => PartsInv
  BY PartsAssumption, MoveInit, MountsInit, PollInit, GateInit
     DEF Init, PartsInv, Occurrences!Init, SchedulesInv
<1>2. PartsInv /\ [Next]_vars => PartsInv'
  BY PartsAssumption, PartsStep, MoveStep, MountsStep, PollStep, GateStep, SchedulesStep DEF PartsInv
<1> QED BY <1>1, <1>2, PTL DEF Spec

\* A write made to the checkout where home led is in a whole copy, wherever a move is
\* and however it was cut, by a call that failed in it, by one that failed in its catch
\* or by a panel that died, while no two moves are accepted at once (project-repo.ts).
THEOREM SafeWritesKept == Spec => []NothingErased
<1>1. PartsInv => NothingErased
  <2> SUFFICES ASSUME MoveInv, ~movesOverlapped
               PROVE  \E p \in Repo!Place : Repo!Whole(p) /\ safe \subseteq holds[p]
    BY DEF PartsInv, NothingErased, Repo!NothingErased
  <2>1. HomeIsTrusted /\ Outside \subseteq Repo!Place /\ Repo!Real \in Repo!Place
    BY Places DEF MoveInv
  <2> QED BY <2>1 DEF HomeIsTrusted, Trusted, SafeOutside
<1> QED BY <1>1, PartsCorrect, PTL

\* After a move that ended, or was undone whole, home leads to a whole checkout with
\* every such write (project-repo.ts, runMove and its catch).
THEOREM HomeLeadsHome == Spec => []HomeLeads
<1>1. PartsInv => HomeLeads
  <2> SUFFICES ASSUME MoveInv, ~Repo!Underway, ~movesOverlapped, ~cut
               PROVE  Repo!Whole(Repo!Real) /\ safe \subseteq holds[Repo!Real]
    BY DEF PartsInv, HomeLeads, Repo!HomeLeads
  <2>1. HomeIsTrusted /\ WholeAllAlong
    BY DEF MoveInv
  <2>2. \A m \in Move : ~UnderWay(m)
    BY DEF Repo!Underway, UnderWay
  <2> QED BY <2>1, <2>2 DEF WholeAllAlong, HomeIsTrusted, Trusted
<1> QED BY <1>1, PartsCorrect, PTL

\* No bind, stored or running, is over a directory that was not filled from what it
\* covers, through failures, rollbacks, forms saved late and deaths at any step, unless
\* the operator took the directory as it was or two applications were accepted at once
\* (project-mounts.ts, runApply).
THEOREM BindsCoverNothing == Spec => []BoundIsSeeded
<1>1. PartsInv => BoundIsSeeded
  BY DEF PartsInv, MountsInv, BindsAreSeeded, BoundIsSeeded, Mounts!BoundIsSeeded
<1> QED BY <1>1, PartsCorrect, PTL

\* No commit is deployed twice on the poller's account, through lost answers, failed
\* statements, crashes and changes of what the project follows, while no two checks
\* are under way at once (deploy-poll.ts).
THEOREM CommitsDeployedOnce == Spec => []OneAttemptPerCommit
<1>1. PartsInv => OneAttemptPerCommit
  <2> SUFFICES ASSUME PartsInv, part = "poll", ~crossed, NEW c \in Poll!Commit
               PROVE  deploys[c] <= 1
    BY DEF OneAttemptPerCommit, Poll!OneAttemptPerCommit
  <2>1. deploys[c] \in Nat /\ (deploys[c] # 0 => deploys[c] = 1)
    BY DEF PartsInv, PollInv, Poll!TypeOK, BehindTheLook, Deployed
  <2> QED BY <2>1
<1> QED BY <1>1, PartsCorrect, PTL

\* Once no request is under way, nothing but the gate of a restricted project reaches
\* its app from outside, and an open one's app is reached with no gate over it; unless
\* the row moved under somebody who had read it, or a change did not come to its end
\* (access.ts, access-gate.ts).
THEOREM PortHeldAsTheRowSays == Spec => []PortMatchesRow
<1>1. PartsInv => PortMatchesRow
  <2> SUFFICES ASSUME GateInv, Gate!Quiet, row # None, ~stale, ~unapplied
               PROVE  IF row.mode = "restricted"
                      THEN listening # "public" /\ (listening = "loopback" => gate = "open")
                      ELSE listening # "loopback" /\ gate = "closed"
    BY DEF PartsInv, PortMatchesRow, Gate!PortMatchesRow
  <2>1. Gate!TypeOK /\ OneOpens /\ HeldOrDue
    BY DEF GateInv
  <2>2. ~WillMove /\ ~WillClose /\ ~WillOpen /\ ~(\E j \in Gate!Job : job[j].at = "setting")
    BY DEF Gate!Quiet, Gate!Under, Gate!Job, WillMove, WillClose, WillOpen
  <2>3. gate \in {"closed", "open"}
    BY <2>1, <2>2 DEF Gate!TypeOK, OneOpens
  <2> QED BY <2>1, <2>2, <2>3 DEF HeldOrDue
<1> QED BY <1>1, PartsCorrect, PTL

\* The next run of a schedule is the first minute of it that is due after the instant
\* asked about, for any expression, a clock that is moved once at any instant, with
\* offsets of less than a day, and hours and days of any length: none is skipped,
\* answered twice or out of order (lib/cron.ts, nextAfter and wallToInstant).
THEOREM SchedulesMissNothing == Spec => []NextIsNext
<1>1. PartsInv => NextIsNext
  BY PartsAssumption, NextIsFirst DEF PartsInv, NextIsNext
<1> QED BY <1>1, PartsCorrect, PTL
=============================================================================
