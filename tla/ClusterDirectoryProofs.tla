------------------------- MODULE ClusterDirectoryProofs ------------------------
(***************************************************************************)
(* The merge of two copies of the directory is a join: it does not matter   *)
(* who merges with whom, in which order, or how often.  From that, no step  *)
(* of ClusterDirectory takes a row back unless two statements crossed.      *)
(***************************************************************************)
EXTENDS ClusterDirectory, TLAPS

\* The later of two times is a time.
LEMMA LaterNat == \A s, t \in Nat : Later(s, t) \in Nat
  BY DEF Later

\* A row is its time and its content, and one at 0 is no row.
LEMMA RowParts ==
  ASSUME NEW r \in Row
  PROVE  /\ r.at \in Nat /\ r.content \in Nat
         /\ r = [at |-> r.at, content |-> r.content]
         /\ r.at = 0 <=> r = NoRow
         /\ r.content = 0 <=> r = NoRow
  <1>1. CASE r = NoRow
    BY <1>1 DEF NoRow
  <1>2. CASE r \in [at : Nat \ {0}, content : Nat \ {0}]
    BY <1>2 DEF NoRow
  <1>3. QED
    BY <1>1, <1>2 DEF Row

\* Of two rows that are not the same, one wins and the other does not.
LEMMA WinsIsTotal ==
  ASSUME NEW r \in Row, NEW s \in Row
  PROVE  /\ ~(Wins(r, s) /\ Wins(s, r))
         /\ r # s => Wins(r, s) \/ Wins(s, r)
         /\ ~Wins(r, r)
  BY RowParts DEF Wins

\* Two entries merge to an entry.
LEMMA MergeEntryType ==
  ASSUME NEW e \in Entry, NEW f \in Entry
  PROVE  MergeEntry(e, f) \in Entry
  <1>1. /\ e.row \in Row /\ f.row \in Row /\ e.tomb \in Nat /\ f.tomb \in Nat
        /\ NoRow \in Row
    BY DEF Entry, Row
  <1>2. QED
    BY <1>1, LaterNat DEF MergeEntry, Entry

\* An entry as its parts.
LEMMA EntryParts ==
  ASSUME NEW e \in Entry
  PROVE  /\ e.row \in Row /\ e.tomb \in Nat
         /\ e = [row |-> e.row, tomb |-> e.tomb]
  BY DEF Entry

\* Both sides of an exchange come to the same entry (mergeDirectory: "both sides
\* pick the same one whichever direction the merge runs").
THEOREM MergeCommutes ==
  ASSUME NEW e \in Entry, NEW f \in Entry
  PROVE  MergeEntry(e, f) = MergeEntry(f, e)
  <1>1. e.row \in Row /\ f.row \in Row /\ e.tomb \in Nat /\ f.tomb \in Nat
    BY EntryParts
  <1>2. Later(e.tomb, f.tomb) = Later(f.tomb, e.tomb)
    BY <1>1 DEF Later
  <1>3. (IF Wins(f.row, e.row) THEN f.row ELSE e.row) = (IF Wins(e.row, f.row) THEN e.row ELSE f.row)
    BY <1>1, WinsIsTotal
  <1>4. QED
    BY <1>2, <1>3 DEF MergeEntry

\* Whoever hears from whom first, three panels come to the same entry.
THEOREM MergeAssociates ==
  ASSUME NEW e \in Entry, NEW f \in Entry, NEW g \in Entry
  PROVE  MergeEntry(MergeEntry(e, f), g) = MergeEntry(e, MergeEntry(f, g))
  <1>1. /\ e.row \in Row /\ f.row \in Row /\ g.row \in Row
        /\ e.tomb \in Nat /\ f.tomb \in Nat /\ g.tomb \in Nat
    BY EntryParts
  <1>2. /\ e.row.at \in Nat /\ f.row.at \in Nat /\ g.row.at \in Nat
        /\ e.row.content \in Nat /\ f.row.content \in Nat /\ g.row.content \in Nat
    BY <1>1, RowParts
  <1>3. /\ NoRow.at = 0 /\ NoRow.content = 0
        /\ e.row.at = 0 => e.row = NoRow
        /\ f.row.at = 0 => f.row = NoRow
        /\ g.row.at = 0 => g.row = NoRow
        /\ e.row.at = f.row.at /\ e.row.content = f.row.content => e.row = f.row
        /\ e.row.at = g.row.at /\ e.row.content = g.row.content => e.row = g.row
        /\ f.row.at = g.row.at /\ f.row.content = g.row.content => f.row = g.row
    BY <1>1, RowParts DEF NoRow
  <1>4. QED
    BY <1>1, <1>2, <1>3 DEF MergeEntry, Wins, Later

\* What a merge leaves is settled, and merging it again leaves it alone.
THEOREM MergeSettles ==
  ASSUME NEW e \in Entry, NEW f \in Entry
  PROVE  /\ Settled(MergeEntry(e, f))
         /\ MergeEntry(MergeEntry(e, f), f) = MergeEntry(e, f)
  <1>1. /\ e.row \in Row /\ f.row \in Row /\ e.tomb \in Nat /\ f.tomb \in Nat
    BY EntryParts
  <1>2. /\ e.row.at \in Nat /\ f.row.at \in Nat
        /\ e.row.content \in Nat /\ f.row.content \in Nat
        /\ NoRow.at = 0 /\ NoRow.content = 0
        /\ f.row.at = 0 => f.row = NoRow
    BY <1>1, RowParts DEF NoRow
  <1>3. Settled(MergeEntry(e, f))
    BY <1>1, <1>2 DEF MergeEntry, Settled, Later
  <1>4. MergeEntry(MergeEntry(e, f), f) = MergeEntry(e, f)
    BY <1>1, <1>2 DEF MergeEntry, Wins, Later
  <1>5. QED
    BY <1>3, <1>4

\* "one round trip converges both sides" (app/api/cluster/directory/route.ts): the
\* sender folds in the result and has what the other side has.
THEOREM RoundTripConverges ==
  ASSUME NEW U, NEW local \in [U -> Entry], NEW remote \in [U -> Entry]
  PROVE  LET answer == MergeDirectory(remote, local)
         IN  MergeDirectory(local, answer) = answer
  <1> DEFINE answer == MergeDirectory(remote, local)
  <1>1. DOMAIN remote = U /\ DOMAIN local = U
    OBVIOUS
  <1>2. \A u \in U : MergeEntry(local[u], answer[u]) = answer[u]
    <2> TAKE u \in U
    <2>1. local[u] \in Entry /\ remote[u] \in Entry
      OBVIOUS
    <2>2. answer[u] = MergeEntry(remote[u], local[u])
      BY <1>1 DEF MergeDirectory
    <2>3. MergeEntry(local[u], answer[u]) = MergeEntry(answer[u], local[u])
      BY <2>1, <2>2, MergeCommutes, MergeEntryType
    <2>4. QED
      BY <2>1, <2>2, <2>3, MergeSettles
  <1>3. QED
    BY <1>1, <1>2 DEF MergeDirectory

\* An edit is stamped after what the row carried, whatever the clock says.
LEMMA BumpIsLater ==
  ASSUME NEW previous \in Nat, NEW now \in Nat
  PROVE  BumpedUpdatedAt(previous, now) \in Nat /\ BumpedUpdatedAt(previous, now) > previous
  BY DEF BumpedUpdatedAt

-----------------------------------------------------------------------------
(* No step takes a copy back. *)

\* What a merge may make of an entry.
Ahead(base, merged) ==
    /\ merged.tomb >= base.tomb
    /\ merged.row \notin {base.row, NoRow} =>
            merged.row.at >= base.row.at /\ merged.row.at > merged.tomb

Entries == [User -> Entry]

Planned(plan) ==
    /\ plan.base \in Entries
    /\ \A u \in User : Ahead(plan.base[u], plan.copy[u])

\* Nobody knows of an account that has not been made.
Unknown(u) ==
    /\ \A p \in Panel : copy[p][u] = Nothing /\ (request[p] # Idle => request[p].user # u)
    /\ \A pq \in Pair :
        /\ exchange[pq] # Quiet => exchange[pq].copy[u] = Nothing
        /\ exchange[pq].step \in {"planned", "unheard", "folding"} => exchange[pq].base[u] = Nothing

Whole(e) == e = [step |-> e.step, base |-> e.base, copy |-> e.copy]

Exchanges ==
    /\ DOMAIN exchange = Pair
    /\ \A pq \in Pair :
        exchange[pq] # Quiet =>
            /\ Whole(exchange[pq])
            /\ exchange[pq].step \in {"sent", "answered", "planned", "unheard", "folding"}
            /\ exchange[pq].copy \in Entries
            /\ exchange[pq].step \in {"planned", "unheard", "folding"} => Planned(exchange[pq])

Asked == [step : {"idle", "written", "stamping", "deleted"}, user : User, read : Nat, wrote : Address]

ClusterInv ==
    /\ copy \in [Panel -> Entries]
    /\ clock \in [Panel -> Nat \ {0}]
    /\ request \in [Panel -> Asked]
    /\ Exchanges
    /\ made \subseteq User
    /\ \A u \in User \ made : Unknown(u)

\* What Forward says of one step.
ForwardStep ==
    ~crossed' =>
        \A p \in Panel, u \in User :
            RowOf(p, u)' # NoRow =>
                /\ RowOf(p, u)'.at >= RowOf(p, u).at
                /\ ~Present(p, u) => RowOf(p, u)'.at > copy[p][u].tomb

\* The values everything starts with are of their types.
LEMMA SmallFacts ==
    /\ 1 \in User /\ 1 \in Address
    /\ NoRow \in Row /\ Nothing \in Entry
    /\ Idle \in Asked /\ Idle.user = 1 /\ Idle.step = "idle"
    /\ Quiet.step = "idle"
    /\ Nothing.row = NoRow /\ Nothing.tomb = 0
    /\ \A now \in 1..MaxTime : now \in Nat \ {0}
    /\ Address \subseteq Nat \ {0}
  BY ClusterAssumption DEF User, Address, NoRow, Row, Nothing, Entry, Idle, Asked, Quiet, Message

\* A merge is ahead of what is merged into.
LEMMA MergeAhead ==
  ASSUME NEW e \in Entry, NEW f \in Entry
  PROVE  /\ Ahead(e, MergeEntry(e, f))
         /\ e = Nothing /\ f = Nothing => MergeEntry(e, f) = Nothing
  <1>1. /\ e.row \in Row /\ f.row \in Row /\ e.tomb \in Nat /\ f.tomb \in Nat
    BY EntryParts
  <1>2. /\ e.row.at \in Nat /\ f.row.at \in Nat
        /\ e.row.content \in Nat /\ f.row.content \in Nat
        /\ NoRow.at = 0 /\ NoRow.content = 0
    BY <1>1, RowParts DEF NoRow
  <1>3. Ahead(e, MergeEntry(e, f))
    BY <1>1, <1>2 DEF MergeEntry, Ahead, Wins, Later
  <1>4. ASSUME e = Nothing, f = Nothing PROVE MergeEntry(e, f) = Nothing
    BY <1>4 DEF MergeEntry, Nothing, NoRow, Later, Wins
  <1>5. QED
    BY <1>3, <1>4

Elsewhere(p, u) == \A q \in Panel, v \in User : (q # p \/ v # u) => copy'[q][v] = copy[q][v]

\* Writing one row of a copy.
LEMMA RowWritten ==
  ASSUME copy \in [Panel -> Entries], NEW p \in Panel, NEW u \in User, NEW row \in Row,
         SetRow(p, u, row)
  PROVE  /\ copy' \in [Panel -> Entries] /\ Elsewhere(p, u)
         /\ copy'[p][u] = [row |-> row, tomb |-> copy[p][u].tomb]
         /\ RowOf(p, u)' = row
  <1>1. copy[p] \in [User -> Entry] /\ copy[p][u] \in Entry
    BY DEF Entries
  <1>2. [copy[p][u] EXCEPT !.row = row] = [row |-> row, tomb |-> copy[p][u].tomb]
    BY <1>1 DEF Entry
  <1>3. [row |-> row, tomb |-> copy[p][u].tomb] \in Entry
    BY <1>1 DEF Entry
  <1>4. [copy[p] EXCEPT ![u].row = row] \in [User -> Entry]
    BY <1>1, <1>2, <1>3
  <1>5. QED
    BY <1>1, <1>2, <1>4 DEF Entries, SetRow, Elsewhere, RowOf

\* Noting one deletion in a copy.
LEMMA TombWritten ==
  ASSUME copy \in [Panel -> Entries], NEW p \in Panel, NEW u \in User, NEW tomb \in Nat,
         copy' = [copy EXCEPT ![p][u].tomb = tomb]
  PROVE  /\ copy' \in [Panel -> Entries] /\ Elsewhere(p, u)
         /\ RowOf(p, u)' = RowOf(p, u)
  <1>1. copy[p] \in [User -> Entry] /\ copy[p][u] \in Entry
    BY DEF Entries
  <1>2. [copy[p][u] EXCEPT !.tomb = tomb] = [row |-> copy[p][u].row, tomb |-> tomb]
    BY <1>1 DEF Entry
  <1>3. [row |-> copy[p][u].row, tomb |-> tomb] \in Entry
    BY <1>1 DEF Entry
  <1>4. [copy[p] EXCEPT ![u].tomb = tomb] \in [User -> Entry]
    BY <1>1, <1>2, <1>3
  <1>5. QED
    BY <1>1, <1>2, <1>4 DEF Entries, Elsewhere, RowOf

\* Where nothing but one row of p changed, only that row can have gone back.
LEMMA OneRowForward ==
  ASSUME copy \in [Panel -> Entries], NEW p \in Panel, NEW u \in User, Elsewhere(p, u),
         ~crossed' => \/ RowOf(p, u)' = NoRow
                      \/ RowOf(p, u)' = RowOf(p, u)
                      \/ Present(p, u) /\ RowOf(p, u)'.at >= RowOf(p, u).at
  PROVE  ForwardStep
  <1> SUFFICES ASSUME ~crossed', NEW q \in Panel, NEW v \in User, RowOf(q, v)' # NoRow
               PROVE  /\ RowOf(q, v)'.at >= RowOf(q, v).at
                      /\ ~Present(q, v) => RowOf(q, v)'.at > copy[q][v].tomb
    BY DEF ForwardStep
  <1>1. RowOf(q, v) \in Row /\ RowOf(q, v).at \in Nat
    BY RowParts DEF Entries, Entry, RowOf
  <1>2. CASE q = p /\ v = u
    BY <1>1, <1>2 DEF Present
  <1>3. CASE ~(q = p /\ v = u)
    <2>1. RowOf(q, v)' = RowOf(q, v)
      BY <1>3 DEF Elsewhere, RowOf
    <2>2. QED
      BY <1>1, <2>1 DEF Present
  <1>4. QED
    BY <1>2, <1>3

\* An account with a row has been made.
LEMMA PresentIsMade ==
  ASSUME ClusterInv, NEW p \in Panel, NEW u \in User, Present(p, u)
  PROVE  u \in made
  BY SmallFacts DEF ClusterInv, Unknown, Present, RowOf

\* What the copies hold are rows and tombstones.
LEMMA RowsAreRows ==
  ASSUME ClusterInv, NEW p \in Panel, NEW u \in User
  PROVE  /\ copy[p][u] \in Entry /\ RowOf(p, u) \in Row /\ copy[p][u].tomb \in Nat
         /\ RowOf(p, u).at \in Nat /\ RowOf(p, u).content \in Nat
  <1>1. copy[p][u] \in Entry
    BY DEF ClusterInv, Entries
  <1>2. QED
    BY <1>1, EntryParts, RowParts DEF RowOf

\* A clock that moves is still a time.
LEMMA ClockKeepsType ==
  ASSUME ClusterInv, NEW p \in Panel, NEW now \in 1..MaxTime, Clock(p, now)
  PROVE  clock' \in [Panel -> Nat \ {0}]
  BY SmallFacts DEF ClusterInv, Clock

\* A request of p that is of a made account.
LEMMA RequestKeepsInv ==
  ASSUME ClusterInv, NEW p \in Panel, NEW r, SetRequest(p, r),
         r \in Asked,
         r # Idle => r.user \in made
  PROVE  /\ request' \in [Panel -> Asked]
         /\ \A u \in User \ made : \A q \in Panel : request'[q] # Idle => request'[q].user # u
  <1>1. \A q \in Panel : request'[q] = IF q = p THEN r ELSE request[q]
    BY DEF ClusterInv, SetRequest
  <1>3. request' \in [Panel -> Asked]
    BY DEF ClusterInv, SetRequest
  <1>4. \A u \in User \ made : \A q \in Panel : request'[q] # Idle => request'[q].user # u
    BY <1>1 DEF ClusterInv, Unknown
  <1>5. QED
    BY <1>3, <1>4

\* An account that is made was in no copy, so making it takes none back.
LEMMA MakeKeeps ==
  ASSUME ClusterInv, NEW p \in Panel, NEW u \in User, NEW a \in Address, NEW now \in 1..MaxTime,
         Make(p, u, a, now)
  PROVE  ClusterInv' /\ ForwardStep
  <1> DEFINE row == [at |-> now, content |-> a]
  <1>1. row \in Row /\ row.at = now /\ now \in Nat \ {0}
    BY SmallFacts DEF Row
  <1>2. SetRow(p, u, row) /\ made' = made \cup {u} /\ UNCHANGED <<request, exchange>>
    BY DEF Make
  <1>3. copy[p][u] = Nothing /\ copy \in [Panel -> Entries]
    BY DEF Make, ClusterInv, Unknown
  <1> HIDE DEF row
  <1>4. /\ copy' \in [Panel -> Entries] /\ Elsewhere(p, u)
        /\ RowOf(p, u)' = row
    BY <1>1, <1>2, <1>3, RowWritten
  <1>5. clock' \in [Panel -> Nat \ {0}]
    BY ClockKeepsType DEF Make
  <1>6. \A v \in User \ made' : Unknown(v)'
    BY <1>2, <1>4 DEF ClusterInv, Unknown, Elsewhere
  <1>7. Exchanges' /\ request' \in [Panel -> Asked] /\ made' \subseteq User
    BY <1>2 DEF ClusterInv, Exchanges
  <1>8. ForwardStep
    <2> SUFFICES ASSUME NEW q \in Panel, NEW v \in User, RowOf(q, v)' # NoRow
                 PROVE  /\ RowOf(q, v)'.at >= RowOf(q, v).at
                        /\ ~Present(q, v) => RowOf(q, v)'.at > copy[q][v].tomb
      BY DEF ForwardStep
    <2>1. CASE q = p /\ v = u
      <3>1. RowOf(q, v).at = 0 /\ copy[q][v].tomb = 0
        BY <1>3, <2>1 DEF RowOf, NoRow, Nothing
      <3>2. QED
        BY <1>1, <1>4, <2>1, <3>1
    <2>2. CASE ~(q = p /\ v = u)
      <3>1. RowOf(q, v)' = RowOf(q, v)
        BY <1>4, <2>2 DEF Elsewhere, RowOf
      <3>2. QED
        BY <3>1, RowsAreRows DEF Present
    <2>3. QED
      BY <2>1, <2>2
  <1>9. QED
    BY <1>4, <1>5, <1>6, <1>7, <1>8 DEF ClusterInv

\* A step that changes what p keeps of one account that was made, and p's request.
LEMMA RowStepKeeps ==
  ASSUME ClusterInv, NEW p \in Panel, NEW u \in User, NEW r,
         u \in made, copy' \in [Panel -> Entries], Elsewhere(p, u),
         SetRequest(p, r), r \in Asked,
         r # Idle => r.user \in made,
         clock' \in [Panel -> Nat \ {0}], UNCHANGED <<exchange, made>>
  PROVE  ClusterInv'
  <1>1. /\ request' \in [Panel -> Asked]
        /\ \A v \in User \ made : \A q \in Panel : request'[q] # Idle => request'[q].user # v
    BY RequestKeepsInv
  <1>2. \A v \in User \ made' : Unknown(v)'
    BY <1>1 DEF ClusterInv, Unknown, Elsewhere
  <1>3. Exchanges' /\ made' \subseteq User
    BY DEF ClusterInv, Exchanges
  <1>4. QED
    BY <1>1, <1>2, <1>3 DEF ClusterInv

\* The row of an edit keeps its time until it is stamped.
LEMMA EditWritesKeeps ==
  ASSUME ClusterInv, NEW p \in Panel, NEW u \in User, NEW a \in Address, EditWrites(p, u, a)
  PROVE  ClusterInv' /\ ForwardStep
  <1> DEFINE row == [RowOf(p, u) EXCEPT !.content = a]
             r == [Idle EXCEPT !.step = "written", !.user = u, !.wrote = a]
  <1>1. /\ u \in made /\ RowOf(p, u) \in Row /\ Present(p, u) /\ RowOf(p, u).at \in Nat
        /\ copy \in [Panel -> Entries]
    BY PresentIsMade, RowsAreRows DEF EditWrites, ClusterInv
  <1>2. row \in Row /\ row.at = RowOf(p, u).at
    BY <1>1, RowParts, SmallFacts DEF Row, Present
  <1>3. r \in Asked /\ r.user = u
    BY DEF Idle, Asked
  <1>4. SetRow(p, u, row) /\ SetRequest(p, r) /\ UNCHANGED <<clock, exchange, made>>
    BY DEF EditWrites, history
  <1>5. clock' \in [Panel -> Nat \ {0}]
    BY <1>4 DEF ClusterInv
  <1> HIDE DEF row, r
  <1>6. /\ copy' \in [Panel -> Entries] /\ Elsewhere(p, u)
        /\ RowOf(p, u)' = row
    BY <1>1, <1>2, <1>4, RowWritten
  <1>7. ClusterInv'
    BY <1>1, <1>3, <1>4, <1>5, <1>6, RowStepKeeps
  <1>8. ForwardStep
    BY <1>1, <1>2, <1>6, OneRowForward
  <1>9. QED
    BY <1>7, <1>8

\* What is read for the stamp is the time of the row.
LEMMA TouchReadsKeeps ==
  ASSUME ClusterInv, NEW p \in Panel, TouchReads(p)
  PROVE  ClusterInv' /\ ForwardStep
  <1>0. PICK u \in User : u = request[p].user
    BY DEF ClusterInv, Asked
  <1> DEFINE r == IF Present(p, u) THEN [request[p] EXCEPT !.step = "stamping", !.read = RowOf(p, u).at] ELSE Idle
  <1>1. request[p] \in Asked /\ request[p] # Idle
    BY <1>0, SmallFacts DEF ClusterInv, TouchReads
  <1>2. u \in made
    BY <1>0, <1>1 DEF ClusterInv, Unknown
  <1>3. r \in Asked /\ (r # Idle => r.user \in made)
    <2>1. RowOf(p, u).at \in Nat
      BY RowsAreRows
    <2>2. [request[p] EXCEPT !.step = "stamping", !.read = RowOf(p, u).at] \in Asked
      BY <1>1, <2>1 DEF Asked
    <2>3. [request[p] EXCEPT !.step = "stamping", !.read = RowOf(p, u).at].user = u
      BY <1>0, <1>1 DEF Asked
    <2>4. QED
      BY <1>2, <2>2, <2>3, SmallFacts
  <1>4. copy' = copy /\ SetRequest(p, r) /\ UNCHANGED <<clock, exchange, made>>
    BY <1>0 DEF TouchReads, history
  <1>5. clock' \in [Panel -> Nat \ {0}] /\ copy \in [Panel -> Entries]
    BY <1>4 DEF ClusterInv
  <1> HIDE DEF r
  <1>6. Elsewhere(p, u) /\ RowOf(p, u)' = RowOf(p, u)
    BY <1>4 DEF Elsewhere, RowOf
  <1>7. ClusterInv'
    BY <1>1, <1>2, <1>3, <1>4, <1>5, <1>6, RowStepKeeps
  <1>8. ForwardStep
    BY <1>1, <1>5, <1>6, OneRowForward
  <1>9. QED
    BY <1>7, <1>8

\* The stamp is later than what was read.
LEMMA TouchWritesKeeps ==
  ASSUME ClusterInv, NEW p \in Panel, NEW now \in 1..MaxTime, TouchWrites(p, now)
  PROVE  ClusterInv' /\ ForwardStep
  <1>0. PICK u \in User : u = request[p].user
    BY DEF ClusterInv, Asked
  <1>a. PICK read \in Nat : read = request[p].read
    BY DEF ClusterInv, Asked
  <1> DEFINE stamp == BumpedUpdatedAt(read, now)
             row == [RowOf(p, u) EXCEPT !.at = stamp]
  <1>1. u \in User /\ read \in Nat /\ request[p] # Idle
    BY <1>0, <1>a, SmallFacts DEF ClusterInv, TouchWrites
  <1>2. u \in made
    BY <1>0, <1>1 DEF ClusterInv, Unknown
  <1>3. stamp \in Nat /\ stamp > read
    BY <1>1, BumpIsLater, SmallFacts
  <1>4. RowOf(p, u) \in Row /\ RowOf(p, u).at \in Nat /\ copy \in [Panel -> Entries]
    BY <1>1, RowsAreRows DEF ClusterInv
  <1>5. SetRequest(p, Idle) /\ UNCHANGED <<exchange, made>>
    BY DEF TouchWrites, history
  <1>6. clock' \in [Panel -> Nat \ {0}]
    BY ClockKeepsType DEF TouchWrites
  <1>7. IF Present(p, u) THEN SetRow(p, u, row) ELSE UNCHANGED copy
    BY <1>0, <1>a DEF TouchWrites
  <1>8. ~crossed' => RowOf(p, u).at = read
    BY <1>0, <1>a DEF TouchWrites, Crosses
  <1>9. Present(p, u) => row \in Row /\ row.at = stamp
    <2> SUFFICES ASSUME RowOf(p, u) # NoRow PROVE row \in Row /\ row.at = stamp
      BY DEF Present
    <2>1. RowOf(p, u) \in [at : Nat \ {0}, content : Nat \ {0}]
      BY <1>4 DEF Row
    <2>2. stamp \in Nat \ {0}
      BY <1>1, <1>3
    <2> HIDE DEF stamp
    <2>3. row \in [at : Nat \ {0}, content : Nat \ {0}] /\ row.at = stamp
      BY <2>1, <2>2
    <2>4. QED
      BY <2>3 DEF Row
  <1> HIDE DEF row, stamp
  <1>10. /\ copy' \in [Panel -> Entries] /\ Elsewhere(p, u)
         /\ RowOf(p, u)' = IF Present(p, u) THEN row ELSE RowOf(p, u)
    <2>1. CASE Present(p, u)
      BY <1>1, <1>4, <1>7, <1>9, <2>1, RowWritten
    <2>2. CASE ~Present(p, u)
      BY <1>4, <1>7, <2>2 DEF Elsewhere, RowOf
    <2>3. QED
      BY <2>1, <2>2
  <1>11. ClusterInv'
    BY <1>1, <1>2, <1>5, <1>6, <1>10, RowStepKeeps, SmallFacts
  <1>12. ~crossed' => \/ RowOf(p, u)' = RowOf(p, u)
                      \/ Present(p, u) /\ RowOf(p, u)'.at >= RowOf(p, u).at
    BY <1>1, <1>3, <1>4, <1>8, <1>9, <1>10
  <1>13. ForwardStep
    BY <1>1, <1>4, <1>10, <1>12, OneRowForward
  <1>14. QED
    BY <1>11, <1>13

\* A deletion removes a row that was there.
LEMMA DeletesKeeps ==
  ASSUME ClusterInv, NEW p \in Panel, NEW u \in User, Deletes(p, u)
  PROVE  ClusterInv' /\ ForwardStep
  <1> DEFINE r == [Idle EXCEPT !.step = "deleted", !.user = u, !.read = RowOf(p, u).at]
  <1>1. u \in made /\ RowOf(p, u).at \in Nat /\ copy \in [Panel -> Entries]
    BY PresentIsMade, RowsAreRows DEF Deletes, ClusterInv
  <1>2. r \in Asked /\ r.user = u
    BY <1>1, SmallFacts DEF Idle, Asked
  <1>3. SetRow(p, u, NoRow) /\ SetRequest(p, r) /\ UNCHANGED <<clock, exchange, made>>
    BY DEF Deletes, history
  <1>4. clock' \in [Panel -> Nat \ {0}]
    BY <1>3 DEF ClusterInv
  <1> HIDE DEF r
  <1>5. /\ copy' \in [Panel -> Entries] /\ Elsewhere(p, u)
        /\ RowOf(p, u)' = NoRow
    <2>1. NoRow \in Row
      BY SmallFacts
    <2>2. QED
      BY <1>1, <1>3, <2>1, RowWritten
  <1>6. ClusterInv'
    BY <1>1, <1>2, <1>3, <1>4, <1>5, RowStepKeeps
  <1>7. ForwardStep
    BY <1>1, <1>5, OneRowForward
  <1>8. QED
    BY <1>6, <1>7

\* Its tombstone leaves the row alone.
LEMMA BuriesKeeps ==
  ASSUME ClusterInv, NEW p \in Panel, NEW now \in 1..MaxTime, Buries(p, now)
  PROVE  ClusterInv' /\ ForwardStep
  <1>0. PICK u \in User : u = request[p].user
    BY DEF ClusterInv, Asked
  <1>1. u \in User /\ request[p] # Idle /\ now \in Nat /\ copy \in [Panel -> Entries]
    BY <1>0, SmallFacts DEF ClusterInv, Buries
  <1>2. u \in made
    BY <1>0, <1>1 DEF ClusterInv, Unknown
  <1>3. SetRequest(p, Idle) /\ UNCHANGED <<exchange, made>>
    BY <1>0 DEF Buries
  <1>4. clock' \in [Panel -> Nat \ {0}]
    BY ClockKeepsType DEF Buries
  <1>5. /\ copy' \in [Panel -> Entries] /\ Elsewhere(p, u)
        /\ RowOf(p, u)' = RowOf(p, u)
    <2>1. copy' = [copy EXCEPT ![p][u].tomb = now]
      BY <1>0 DEF Buries
    <2>2. QED
      BY <1>1, <2>1, TombWritten
  <1>6. ClusterInv'
    BY <1>1, <1>2, <1>3, <1>4, <1>5, RowStepKeeps, SmallFacts
  <1>7. ForwardStep
    BY <1>1, <1>5, OneRowForward
  <1>8. QED
    BY <1>6, <1>7

-----------------------------------------------------------------------------
(* An exchange *)

\* An exchange as ClusterInv has it.
Sound(e) ==
    /\ Whole(e)
    /\ e.step \in {"sent", "answered", "planned", "unheard", "folding"}
    /\ e.step \in {"planned", "unheard", "folding"} => Planned(e)
    /\ e.copy \in Entries
    /\ \A u \in User \ made :
        /\ e.copy[u] = Nothing
        /\ e.step \in {"planned", "unheard", "folding"} => e.base[u] = Nothing

\* What stands of an exchange does not depend on the others.
LEMMA ExchangeKeepsInv ==
  ASSUME ClusterInv, NEW pq \in Pair, NEW e, SetExchange(pq, e),
         e = Quiet \/ Sound(e)
  PROVE  /\ Exchanges'
         /\ \A u \in User \ made : \A xy \in Pair :
                /\ exchange'[xy] # Quiet => exchange'[xy].copy[u] = Nothing
                /\ exchange'[xy].step \in {"planned", "unheard", "folding"} => exchange'[xy].base[u] = Nothing
  <1>1. DOMAIN exchange' = Pair
    BY DEF ClusterInv, Exchanges, SetExchange
  <1>2. \A xy \in Pair : exchange'[xy] = IF xy = pq THEN e ELSE exchange[xy]
    BY DEF ClusterInv, Exchanges, SetExchange
  <1>3. Exchanges'
    <2> SUFFICES ASSUME NEW xy \in Pair, exchange'[xy] # Quiet
                 PROVE  /\ Whole(exchange'[xy])
                        /\ exchange'[xy].step \in {"sent", "answered", "planned", "unheard", "folding"}
                        /\ exchange'[xy].copy \in Entries
                        /\ exchange'[xy].step \in {"planned", "unheard", "folding"} => Planned(exchange'[xy])
      BY <1>1 DEF Exchanges, Planned, Ahead, Whole
    <2>1. CASE xy = pq
      BY <1>2, <2>1 DEF Sound
    <2>2. CASE xy # pq
      BY <1>2, <2>2 DEF ClusterInv, Exchanges
    <2>3. QED
      BY <2>1, <2>2
  <1>4. ASSUME NEW u \in User \ made, NEW xy \in Pair
        PROVE  /\ exchange'[xy] # Quiet => exchange'[xy].copy[u] = Nothing
               /\ exchange'[xy].step \in {"planned", "unheard", "folding"} => exchange'[xy].base[u] = Nothing
    <2>1. CASE xy = pq
      BY <1>2, <2>1, SmallFacts DEF Sound
    <2>2. CASE xy # pq
      BY <1>2, <2>2 DEF ClusterInv, Unknown
    <2>3. QED
      BY <2>1, <2>2
  <1>5. QED
    BY <1>3, <1>4

\* A step of an exchange that writes no copy.
LEMMA QuietStepKeeps ==
  ASSUME ClusterInv, Exchanges',
         \A u \in User \ made : \A xy \in Pair :
                /\ exchange'[xy] # Quiet => exchange'[xy].copy[u] = Nothing
                /\ exchange'[xy].step \in {"planned", "unheard", "folding"} => exchange'[xy].base[u] = Nothing,
         UNCHANGED <<copy, clock, request, made>>
  PROVE  ClusterInv' /\ ForwardStep
  <1>1. \A u \in User \ made' : Unknown(u)'
    BY DEF ClusterInv, Unknown
  <1>2. ClusterInv'
    BY <1>1 DEF ClusterInv
  <1>3. ForwardStep
    BY RowsAreRows DEF ForwardStep, RowOf, Present
  <1>4. QED
    BY <1>2, <1>3

\* What is sent is the copy of a panel.
LEMMA SendsKeeps ==
  ASSUME ClusterInv, NEW p \in Panel, NEW q \in Panel, <<p, q>> \in Pair, Sends(p, q)
  PROVE  ClusterInv' /\ ForwardStep
  <1> DEFINE e == Message("sent", copy[p])
  <1>1. Whole(e) /\ e.step = "sent" /\ e.copy = copy[p]
    BY DEF Message, Whole
  <1>2. SetExchange(<<p, q>>, e) /\ UNCHANGED <<copy, clock, request, made>>
    BY DEF Sends, history
  <1>3. copy[p] \in Entries /\ \A u \in User \ made : copy[p][u] = Nothing
    BY DEF ClusterInv, Unknown
  <1> HIDE DEF e
  <1>a. Sound(e)
    BY <1>1, <1>3 DEF Sound
  <1>4. /\ Exchanges'
        /\ \A u \in User \ made : \A xy \in Pair :
                /\ exchange'[xy] # Quiet => exchange'[xy].copy[u] = Nothing
                /\ exchange'[xy].step \in {"planned", "unheard", "folding"} => exchange'[xy].base[u] = Nothing
    BY <1>2, <1>a, ExchangeKeepsInv
  <1>5. QED
    BY <1>2, <1>4, QuietStepKeeps

\* What applySnapshot decides is a merge of what it read.
LEMMA DecidesKeeps ==
  ASSUME ClusterInv, NEW pq \in Pair, NEW x \in Panel, NEW here, NEW there,
         here \in {"sent", "answered"}, there \in {"planned", "unheard", "folding"},
         Decides(pq, x, here, there)
  PROVE  ClusterInv' /\ ForwardStep
  <1> DEFINE merged == MergeDirectory(copy[x], exchange[pq].copy)
             e == [step |-> there, base |-> copy[x], copy |-> merged]
  <1>1. /\ exchange[pq] # Quiet /\ exchange[pq].copy \in Entries /\ copy[x] \in Entries
        /\ SetExchange(pq, e) /\ UNCHANGED <<copy, clock, request, made>>
    BY SmallFacts DEF Decides, ClusterInv, Exchanges, history
  <1>2. /\ DOMAIN merged = User
        /\ \A u \in User : merged[u] = MergeEntry(copy[x][u], exchange[pq].copy[u])
        /\ merged \in Entries
    BY <1>1, MergeEntryType DEF MergeDirectory, Entries
  <1>3. \A u \in User : Ahead(copy[x][u], merged[u])
    BY <1>1, <1>2, MergeAhead DEF Entries
  <1>4. \A u \in User \ made : merged[u] = Nothing /\ copy[x][u] = Nothing
    <2> TAKE u \in User \ made
    <2>1. copy[x][u] = Nothing /\ exchange[pq].copy[u] = Nothing
      BY <1>1 DEF ClusterInv, Unknown
    <2>2. QED
      BY <1>2, <2>1, MergeAhead, SmallFacts
  <1> HIDE DEF merged
  <1>5. Whole(e) /\ e.step = there /\ e.base = copy[x] /\ e.copy = merged
    BY DEF Whole
  <1> HIDE DEF e
  <1>6. Planned(e)
    BY <1>1, <1>3, <1>5 DEF Planned
  <1>7. Sound(e)
    BY <1>2, <1>4, <1>5, <1>6 DEF Sound
  <1>8. /\ Exchanges'
        /\ \A u \in User \ made : \A xy \in Pair :
                /\ exchange'[xy] # Quiet => exchange'[xy].copy[u] = Nothing
                /\ exchange'[xy].step \in {"planned", "unheard", "folding"} => exchange'[xy].base[u] = Nothing
    BY <1>1, <1>7, ExchangeKeepsInv
  <1>9. QED
    BY <1>1, <1>8, QuietStepKeeps

\* What a plan writes in a copy leaves a copy.
LEMMA WrittenType ==
  ASSUME copy \in [Panel -> Entries], NEW x \in Panel, NEW plan, plan.copy \in Entries
  PROVE  Written(x, plan) \in Entries
  <1>1. \A u \in User : /\ plan.copy[u].row \in Row /\ plan.copy[u].tomb \in Nat
                        /\ RowOf(x, u) \in Row /\ copy[x][u].tomb \in Nat
    BY EntryParts DEF Entries, RowOf
  <1>2. QED
    BY <1>1 DEF Written, Entries, Entry

\* Where nobody wrote since the reading, the transaction brings nothing back.
LEMMA CommitForward ==
  ASSUME ClusterInv, NEW x \in Panel, NEW pq \in Pair, exchange[pq] # Quiet,
         exchange[pq].step \in {"planned", "unheard", "folding"}, Commits(x, exchange[pq])
  PROVE  /\ copy' \in [Panel -> Entries]
         /\ \A u \in User \ made : \A p \in Panel : copy'[p][u] = Nothing
         /\ ForwardStep
  <1> DEFINE plan == exchange[pq]
  <1>1. /\ plan.copy \in Entries /\ plan.base \in Entries
        /\ \A u \in User : Ahead(plan.base[u], plan.copy[u])
        /\ \A u \in User \ made : plan.copy[u] = Nothing /\ plan.base[u] = Nothing
        /\ copy \in [Panel -> Entries]
    BY DEF ClusterInv, Exchanges, Planned, Unknown
  <1>2. CASE Refused(x, plan)
    <2>1. copy' = copy
      BY <1>2 DEF Commits
    <2>2. ForwardStep
      BY <2>1, RowsAreRows DEF ForwardStep, RowOf, Present
    <2>3. QED
      BY <1>1, <2>1, <2>2 DEF ClusterInv, Unknown
  <1>3. CASE ~Refused(x, plan)
    <2>1. /\ copy' = [copy EXCEPT ![x] = Written(x, plan)]
          /\ ~crossed' => \A u \in User : plan.base[u] = copy[x][u] \/ Written(x, plan)[u] = copy[x][u]
      BY <1>3 DEF Commits, Crosses
    <2>2. Written(x, plan) \in Entries
      BY <1>1, WrittenType
    <2>3. /\ copy' \in [Panel -> Entries]
          /\ \A p \in Panel, u \in User :
                copy'[p][u] = IF p = x THEN Written(x, plan)[u] ELSE copy[p][u]
      BY <1>1, <2>1, <2>2
    <2>4. \A u \in User : Written(x, plan)[u] =
            [row  |-> IF plan.copy[u].row # plan.base[u].row THEN plan.copy[u].row ELSE RowOf(x, u),
             tomb |-> IF plan.copy[u].tomb # 0 THEN plan.copy[u].tomb ELSE copy[x][u].tomb]
      BY DEF Written
    <2>a. \A u \in User :
            /\ plan.copy[u].row = plan.base[u].row => Written(x, plan)[u].row = RowOf(x, u)
            /\ plan.copy[u].row # plan.base[u].row => Written(x, plan)[u].row = plan.copy[u].row
      <3> TAKE u \in User
      <3>1. PICK row, tomb : /\ Written(x, plan)[u] = [row |-> row, tomb |-> tomb]
                             /\ row = IF plan.copy[u].row # plan.base[u].row THEN plan.copy[u].row ELSE RowOf(x, u)
        BY <2>4
      <3>2. QED
        BY <3>1
    <2>5. ASSUME NEW u \in User \ made, NEW p \in Panel PROVE copy'[p][u] = Nothing
      <3>1. copy[p][u] = Nothing
        BY DEF ClusterInv, Unknown
      <3>2. p = x => Written(x, plan)[u] = [row |-> NoRow, tomb |-> 0]
        BY <1>1, <2>4, <3>1, SmallFacts DEF RowOf
      <3>3. QED
        BY <2>3, <3>1, <3>2 DEF Nothing
    <2>6. ForwardStep
      <3> SUFFICES ASSUME ~crossed', NEW p \in Panel, NEW u \in User, RowOf(p, u)' # NoRow
                   PROVE  /\ RowOf(p, u)'.at >= RowOf(p, u).at
                          /\ ~Present(p, u) => RowOf(p, u)'.at > copy[p][u].tomb
        BY DEF ForwardStep
      <3>1. /\ RowOf(p, u).at \in Nat /\ copy[p][u].tomb \in Nat
            /\ plan.copy[u].tomb \in Nat /\ plan.base[u].tomb \in Nat
            /\ plan.copy[u].row \in Row /\ plan.copy[u].row.at \in Nat
        BY <1>1, RowsAreRows, EntryParts, RowParts DEF Entries
      <3>2. CASE RowOf(p, u)' = RowOf(p, u)
        BY <3>1, <3>2 DEF Present
      <3>3. CASE RowOf(p, u)' # RowOf(p, u)
        <4>1. p = x /\ RowOf(p, u)' = Written(x, plan)[u].row
          BY <2>3, <3>3 DEF RowOf
        <4>2. Written(x, plan)[u] # copy[x][u]
          BY <3>3, <4>1 DEF RowOf
        <4>3. plan.base[u] = copy[x][u]
          BY <2>1, <4>2
        <4>4. RowOf(p, u)' = plan.copy[u].row /\ plan.copy[u].row # plan.base[u].row
          <5>1. Written(x, plan)[u].row # RowOf(x, u)
            BY <3>3, <4>1 DEF RowOf
          <5>2. CASE plan.copy[u].row = plan.base[u].row
            BY <2>a, <5>1, <5>2
          <5>3. CASE plan.copy[u].row # plan.base[u].row
            BY <2>a, <4>1, <5>3
          <5>4. QED
            BY <5>2, <5>3
        <4>5. Ahead(plan.base[u], plan.copy[u])
          BY <1>1
        <4>6. /\ plan.copy[u].row.at >= plan.base[u].row.at
              /\ plan.copy[u].row.at > plan.copy[u].tomb /\ plan.copy[u].tomb >= plan.base[u].tomb
          BY <4>4, <4>5 DEF Ahead
        <4>7. plan.base[u].row = RowOf(p, u) /\ plan.base[u].tomb = copy[p][u].tomb
          BY <4>1, <4>3 DEF RowOf
        <4>8. QED
          BY <3>1, <4>4, <4>6, <4>7
      <3>4. QED
        BY <3>2, <3>3
    <2>7. QED
      BY <2>3, <2>5, <2>6
  <1>4. QED
    BY <1>2, <1>3

\* A commit, and what becomes of the exchange it belonged to.
LEMMA CommitKeeps ==
  ASSUME ClusterInv, NEW x \in Panel, NEW pq \in Pair, exchange[pq] # Quiet,
         exchange[pq].step \in {"planned", "unheard", "folding"}, Commits(x, exchange[pq]),
         NEW e, SetExchange(pq, e),
         \/ e = Quiet
         \/ /\ Whole(e) /\ e.step = "answered"
            /\ e.copy = exchange[pq].copy,
         UNCHANGED <<clock, request, made>>
  PROVE  ClusterInv' /\ ForwardStep
  <1>1. /\ copy' \in [Panel -> Entries]
        /\ \A u \in User \ made : \A p \in Panel : copy'[p][u] = Nothing
        /\ ForwardStep
    BY CommitForward
  <1>2. /\ exchange[pq].copy \in Entries
        /\ \A u \in User \ made : exchange[pq].copy[u] = Nothing
    BY DEF ClusterInv, Exchanges, Unknown
  <1>3. /\ Exchanges'
        /\ \A u \in User \ made : \A xy \in Pair :
                /\ exchange'[xy] # Quiet => exchange'[xy].copy[u] = Nothing
                /\ exchange'[xy].step \in {"planned", "unheard", "folding"} => exchange'[xy].base[u] = Nothing
    <2>1. CASE e = Quiet
      BY <2>1, ExchangeKeepsInv
    <2>2. CASE Whole(e) /\ e.step = "answered" /\ e.copy = exchange[pq].copy
      <3>1. Sound(e)
        BY <1>2, <2>2 DEF Sound
      <3>2. QED
        BY <3>1, ExchangeKeepsInv
    <2>3. QED
      BY <2>1, <2>2
  <1>4. \A u \in User \ made' : Unknown(u)'
    BY <1>1, <1>3 DEF ClusterInv, Unknown
  <1>5. ClusterInv'
    BY <1>1, <1>3, <1>4 DEF ClusterInv
  <1>6. QED
    BY <1>1, <1>5

\* The transaction of the one that was called.
LEMMA AnswersKeeps ==
  ASSUME ClusterInv, NEW p \in Panel, NEW q \in Panel, <<p, q>> \in Pair, Answers(p, q)
  PROVE  ClusterInv' /\ ForwardStep
  <1>1. PICK plan : plan = exchange[<<p, q>>]
    OBVIOUS
  <1> DEFINE e == IF plan.step = "unheard" \/ Refused(q, plan) THEN Quiet
                  ELSE Message("answered", plan.copy)
  <1>2. /\ plan.step \in {"planned", "unheard"} /\ Commits(q, plan) /\ SetExchange(<<p, q>>, e)
        /\ UNCHANGED <<clock, request, made>>
    BY <1>1 DEF Answers, history
  <1>3. e = Quiet \/ (Whole(e) /\ e.step = "answered" /\ e.copy = plan.copy)
    <2>1. CASE plan.step = "unheard" \/ Refused(q, plan)
      BY <2>1
    <2>2. CASE ~(plan.step = "unheard" \/ Refused(q, plan))
      <3>1. e = Message("answered", plan.copy)
        BY <2>2
      <3>2. QED
        BY <3>1 DEF Message, Whole
    <2>3. QED
      BY <2>1, <2>2
  <1>4. plan # Quiet
    BY <1>2, SmallFacts
  <1> HIDE DEF e
  <1>5. QED
    BY <1>1, <1>2, <1>3, <1>4, CommitKeeps

\* And that of the caller, with the answer.
LEMMA AppliesKeeps ==
  ASSUME ClusterInv, NEW p \in Panel, NEW q \in Panel, <<p, q>> \in Pair, Applies(p, q)
  PROVE  ClusterInv' /\ ForwardStep
  <1>1. /\ exchange[<<p, q>>].step = "folding" /\ Commits(p, exchange[<<p, q>>])
        /\ SetExchange(<<p, q>>, Quiet) /\ UNCHANGED <<clock, request, made>>
    BY DEF Applies, history
  <1>2. exchange[<<p, q>>] # Quiet
    BY <1>1, SmallFacts
  <1>3. QED
    BY <1>1, <1>2, CommitKeeps

\* What is lost on the way leaves the copies alone.
LEMMA LosesKeeps ==
  ASSUME ClusterInv, NEW p \in Panel, NEW q \in Panel, <<p, q>> \in Pair, Loses(p, q)
  PROVE  ClusterInv' /\ ForwardStep
  <1>1. UNCHANGED <<copy, clock, request, made>>
    BY DEF Loses, history
  <1>2. CASE SetExchange(<<p, q>>, Quiet)
    BY <1>1, <1>2, ExchangeKeepsInv, QuietStepKeeps
  <1>3. CASE /\ exchange[<<p, q>>].step = "planned"
             /\ SetExchange(<<p, q>>, [exchange[<<p, q>>] EXCEPT !.step = "unheard"])
    <2> DEFINE e == [exchange[<<p, q>>] EXCEPT !.step = "unheard"]
    <2>1. exchange[<<p, q>>] # Quiet
      BY <1>3, SmallFacts
    <2>2. /\ Whole(exchange[<<p, q>>]) /\ Planned(exchange[<<p, q>>])
          /\ exchange[<<p, q>>].copy \in Entries
      BY <1>3, <2>1 DEF ClusterInv, Exchanges
    <2>3. /\ Whole(e) /\ e.step = "unheard"
          /\ e.copy = exchange[<<p, q>>].copy /\ e.base = exchange[<<p, q>>].base
      BY <2>2 DEF Whole
    <2>4. \A u \in User \ made : e.copy[u] = Nothing /\ e.base[u] = Nothing
      BY <1>3, <2>1, <2>3 DEF ClusterInv, Unknown
    <2>5. SetExchange(<<p, q>>, e)
      BY <1>3
    <2> HIDE DEF e
    <2>6. Planned(e)
      BY <2>2, <2>3 DEF Planned
    <2>7. /\ Exchanges'
          /\ \A u \in User \ made : \A xy \in Pair :
                /\ exchange'[xy] # Quiet => exchange'[xy].copy[u] = Nothing
                /\ exchange'[xy].step \in {"planned", "unheard", "folding"} => exchange'[xy].base[u] = Nothing
      <3>1. Sound(e)
        BY <2>2, <2>3, <2>4, <2>6 DEF Sound
      <3>2. QED
        BY <2>5, <3>1, ExchangeKeepsInv
    <2>8. QED
      BY <1>1, <2>7, QuietStepKeeps
  <1>4. QED
    BY <1>2, <1>3 DEF Loses

\* A panel that dies forgets what it was serving and waiting for.
LEMMA DiesKeeps ==
  ASSUME ClusterInv, NEW p \in Panel, Dies(p)
  PROVE  ClusterInv' /\ ForwardStep
  <1>1. SetRequest(p, Idle) /\ UNCHANGED <<copy, clock, made>>
    BY DEF Dies, history
  <1>2. DOMAIN exchange' = Pair
    BY DEF Dies
  <1>3. ASSUME NEW pq \in Pair
        PROVE  \/ exchange'[pq] = exchange[pq]
               \/ exchange'[pq] = Quiet
               \/ /\ exchange[pq].step = "planned"
                  /\ exchange'[pq] = [exchange[pq] EXCEPT !.step = "unheard"]
    BY DEF Dies
  <1>4. ASSUME NEW pq \in Pair, exchange'[pq] # Quiet
        PROVE  /\ exchange[pq] # Quiet /\ Whole(exchange'[pq])
               /\ \/ exchange'[pq].step = exchange[pq].step
                  \/ exchange[pq].step = "planned" /\ exchange'[pq].step = "unheard"
               /\ exchange'[pq].copy = exchange[pq].copy
               /\ exchange'[pq].base = exchange[pq].base
    <2>1. CASE exchange'[pq] = exchange[pq]
      BY <1>4, <2>1 DEF ClusterInv, Exchanges, Whole
    <2>2. CASE /\ exchange[pq].step = "planned"
               /\ exchange'[pq] = [exchange[pq] EXCEPT !.step = "unheard"]
      <3>1. exchange[pq] # Quiet
        BY <2>2, SmallFacts
      <3>2. Whole(exchange[pq])
        BY <3>1 DEF ClusterInv, Exchanges
      <3>3. QED
        BY <2>2, <3>1, <3>2 DEF Whole
    <2>3. QED
      BY <1>3, <1>4, <2>1, <2>2
  <1>5. Exchanges'
    <2> SUFFICES ASSUME NEW pq \in Pair, exchange'[pq] # Quiet
                 PROVE  /\ Whole(exchange'[pq])
                        /\ exchange'[pq].step \in {"sent", "answered", "planned", "unheard", "folding"}
                        /\ exchange'[pq].copy \in Entries
                        /\ exchange'[pq].step \in {"planned", "unheard", "folding"} => Planned(exchange'[pq])
      BY <1>2 DEF Exchanges, Planned, Ahead, Whole
    <2>1. /\ exchange[pq].step \in {"sent", "answered", "planned", "unheard", "folding"}
          /\ exchange[pq].copy \in Entries
          /\ exchange[pq].step \in {"planned", "unheard", "folding"} => Planned(exchange[pq])
      BY <1>4 DEF ClusterInv, Exchanges
    <2>2. QED
      BY <1>4, <2>1 DEF Planned
  <1>6. ASSUME NEW u \in User \ made, NEW pq \in Pair
        PROVE  /\ exchange'[pq] # Quiet => exchange'[pq].copy[u] = Nothing
               /\ exchange'[pq].step \in {"planned", "unheard", "folding"} => exchange'[pq].base[u] = Nothing
    <2>1. CASE exchange'[pq] = Quiet
      BY <2>1, SmallFacts
    <2>2. CASE exchange'[pq] # Quiet
      BY <1>4, <2>2 DEF ClusterInv, Unknown
    <2>3. QED
      BY <2>1, <2>2
  <1>7. /\ request' \in [Panel -> Asked]
        /\ \A u \in User \ made : \A q \in Panel : request'[q] # Idle => request'[q].user # u
    BY <1>1, RequestKeepsInv, SmallFacts
  <1>8. \A u \in User \ made' : Unknown(u)'
    BY <1>1, <1>6, <1>7 DEF ClusterInv, Unknown
  <1>9. ClusterInv'
    BY <1>1, <1>5, <1>7, <1>8 DEF ClusterInv
  <1>10. ForwardStep
    BY <1>1, RowsAreRows DEF ForwardStep, RowOf, Present
  <1>11. QED
    BY <1>9, <1>10

-----------------------------------------------------------------------------
\* The invariant holds at first.
LEMMA InitInv == Init => ClusterInv
  <1> SUFFICES ASSUME Init PROVE ClusterInv
    OBVIOUS
  <1>1. PICK n \in Joined :
            /\ copy = [p \in Panel |-> [u \in User |->
                    IF u <= n THEN [row |-> [at |-> 1, content |-> u], tomb |-> 0] ELSE Nothing]]
            /\ made = 1..n
    BY DEF Init
  <1>2. n \in User /\ NUsers \in Nat
    BY <1>1, ClusterAssumption
  <1>3. \A u \in User : [row |-> [at |-> 1, content |-> u], tomb |-> 0] \in Entry
    BY <1>2 DEF User, Entry, Row
  <1>4. copy \in [Panel -> Entries]
    BY <1>1, <1>3, SmallFacts DEF Entries
  <1>5. made \subseteq User /\ \A u \in User : u \notin made <=> ~(u <= n)
    BY <1>1, <1>2 DEF User
  <1>6. /\ clock \in [Panel -> Nat \ {0}] /\ request \in [Panel -> Asked]
        /\ \A p \in Panel : request[p] = Idle
    BY SmallFacts DEF Init
  <1>7. Exchanges /\ \A pq \in Pair : exchange[pq] = Quiet
    BY DEF Init, Exchanges
  <1>8. \A u \in User \ made : Unknown(u)
    BY <1>1, <1>5, <1>6, <1>7, SmallFacts DEF Unknown
  <1>9. QED
    BY <1>4, <1>5, <1>6, <1>7, <1>8 DEF ClusterInv

\* A step that changes nothing keeps it.
LEMMA StutterKeeps ==
  ASSUME ClusterInv, UNCHANGED vars
  PROVE  ClusterInv' /\ ForwardStep
  <1>1. UNCHANGED <<copy, clock, request, exchange, made>>
    BY DEF vars, history
  <1>2. ClusterInv'
    BY <1>1 DEF ClusterInv, Exchanges, Unknown
  <1>3. ForwardStep
    BY <1>1, RowsAreRows DEF ForwardStep, RowOf, Present
  <1>4. QED
    BY <1>2, <1>3

\* Every step keeps it, and takes no copy back.
LEMMA NextKeeps ==
  ASSUME ClusterInv, [Next]_vars
  PROVE  ClusterInv' /\ ForwardStep
  <1>1. ASSUME NEW p \in Panel, RequestStep(p) PROVE ClusterInv' /\ ForwardStep
    BY <1>1, TouchReadsKeeps, TouchWritesKeeps, BuriesKeeps DEF RequestStep
  <1>2. ASSUME NEW p \in Panel, Dies(p) PROVE ClusterInv' /\ ForwardStep
    BY <1>2, DiesKeeps
  <1>3. ASSUME NEW p \in Panel, NEW u \in User, Deletes(p, u) PROVE ClusterInv' /\ ForwardStep
    BY <1>3, DeletesKeeps
  <1>4. ASSUME NEW p \in Panel, NEW u \in User, NEW a \in Address, EditWrites(p, u, a)
        PROVE  ClusterInv' /\ ForwardStep
    BY <1>4, EditWritesKeeps
  <1>5. ASSUME NEW p \in Panel, NEW u \in User, NEW a \in Address, NEW now \in 1..MaxTime, Make(p, u, a, now)
        PROVE  ClusterInv' /\ ForwardStep
    BY <1>5, MakeKeeps
  <1>6. ASSUME NEW pq \in Pair, ExchangeStep(pq[1], pq[2]) \/ Loses(pq[1], pq[2])
        PROVE  ClusterInv' /\ ForwardStep
    <2>1. PICK p \in Panel, q \in Panel : pq = <<p, q>> /\ p = pq[1] /\ q = pq[2]
      BY DEF Pair
    <2>2. Loses(p, q) => ClusterInv' /\ ForwardStep
      BY <2>1, LosesKeeps
    <2>3. Plans(p, q) => ClusterInv' /\ ForwardStep
      BY <2>1, DecidesKeeps DEF Plans
    <2>4. Folds(p, q) => ClusterInv' /\ ForwardStep
      BY <2>1, DecidesKeeps DEF Folds
    <2>5. Sends(p, q) \/ Answers(p, q) \/ Applies(p, q) => ClusterInv' /\ ForwardStep
      BY <2>1, SendsKeeps, AnswersKeeps, AppliesKeeps
    <2>6. QED
      BY <1>6, <2>1, <2>2, <2>3, <2>4, <2>5 DEF ExchangeStep
  <1>7. CASE UNCHANGED vars
    BY <1>7, StutterKeeps
  <1>8. QED
    BY <1>1, <1>2, <1>3, <1>4, <1>5, <1>6, <1>7 DEF Next

\* For any number of panels, accounts and addresses, and whatever is lost: no
\* statement takes a copy back, but where a row was written between two others.
THEOREM CopiesMoveForward == Spec => Forward
  <1>1. Init => ClusterInv
    BY InitInv
  <1>2. ClusterInv /\ [Next]_vars => ClusterInv'
    BY NextKeeps
  <1>3. ClusterInv /\ [Next]_vars =>
          [~crossed' =>
            \A p \in Panel, u \in User :
                RowOf(p, u)' # NoRow =>
                    /\ RowOf(p, u)'.at >= RowOf(p, u).at
                    /\ ~Present(p, u) => RowOf(p, u)'.at > copy[p][u].tomb]_vars
    BY NextKeeps DEF ForwardStep
  <1>4. QED
    BY <1>1, <1>2, <1>3, PTL DEF Spec, Forward
=============================================================================
