---------------------------- MODULE DirectoryMerge -----------------------------
(***************************************************************************)
(* lib/cluster-directory.ts: how two copies of the directory that every     *)
(* member of a cluster keeps are folded into one.  What the code does for   *)
(* accounts and for members is done record by record, so an entry here is   *)
(* one id: its row, and when it was noted as deleted.                       *)
(*                                                                         *)
(* A row is the time of its last edit and its content; 0 stands for none.   *)
(* Content is a number: the order of the numbers is the order of the        *)
(* canonical texts (stableStringify), and a smaller text wins a tie.        *)
(***************************************************************************)
EXTENDS Naturals

NoRow == [at |-> 0, content |-> 0]

Row == {NoRow} \cup [at : Nat \ {0}, content : Nat \ {0}]
Entry == [row : Row, tomb : Nat]

Nothing == [row |-> NoRow, tomb |-> 0]

\* Mutant: a tie is nobody's.
WinsIfNewer(candidate, incumbent) == candidate.at > incumbent.at

\* wins: the newer row, and of two as old the one with the smaller text.
Wins(candidate, incumbent) ==
    \/ candidate.at > incumbent.at
    \/ candidate.at = incumbent.at /\ candidate.content < incumbent.content

\* dedupeTombstones keeps the later of two.
Later(s, t) == IF s > t THEN s ELSE t

\* mergeRecords, for one id.
MergeEntry(local, remote) ==
    LET winner == IF Wins(remote.row, local.row) THEN remote.row ELSE local.row
        tomb   == Later(local.tomb, remote.tomb)
    IN  [row |-> IF winner.at <= tomb THEN NoRow ELSE winner, tomb |-> tomb]

\* mergeDirectory's `result`, for two copies of the same ids.
MergeDirectory(local, remote) ==
    [u \in DOMAIN local |-> MergeEntry(local[u], remote[u])]

\* An entry no merge with itself would change.
Settled(e) == e.row = NoRow \/ e.row.at > e.tomb

\* Mutant: the clock alone decides.
BumpedToNow(previous, now) == now

\* bumpedUpdatedAt: strictly after what the row carried, whatever the clock says.
BumpedUpdatedAt(previous, now) == IF now > previous THEN now ELSE previous + 1
=============================================================================
