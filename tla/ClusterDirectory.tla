--------------------------- MODULE ClusterDirectory ----------------------------
(***************************************************************************)
(* services/cluster: the accounts every panel of a cluster keeps a copy of. *)
(* Any panel edits its own copy (lib/users.ts), and exchanges copies with   *)
(* the others (sync.ts, directory.ts, the route cluster/directory).        *)
(*                                                                         *)
(* The content of a row is its address, the one field two accounts may not  *)
(* share.  A statement of the store is one step, and so is localSnapshot.   *)
(* Members and shared settings are merged by the same rules and left out,   *)
(* as is the thirty-day limit of a tombstone.                              *)
(***************************************************************************)
EXTENDS DirectoryMerge

CONSTANTS
    Panel,
    NUsers,     \* accounts there may be; their ids sort as their numbers do
    Joined,     \* how many of them the panels may have had when they were joined
    NAddresses, \* addresses
    MaxTime,    \* bound: what the clocks reach
    MaxEdits,   \* bound: accounts made, edited or deleted
    MaxFaults   \* bound: calls that fail and panels that die

User == 1..NUsers
Address == 1..NAddresses
Pair == {pq \in Panel \X Panel : pq[1] # pq[2]}

ASSUME ClusterAssumption ==
    /\ NUsers \in Nat \ {0} /\ Joined \subseteq User \cap Address
    /\ NAddresses \in Nat \ {0} /\ MaxTime \in Nat \ {0}
    /\ MaxEdits \in Nat /\ MaxFaults \in Nat

VARIABLES
    copy,       \* each panel's users and cluster_tombstones
    clock,      \* each panel's clock; nothing keeps two of them together
    request,    \* the request of an operator each panel is serving
    exchange,   \* for each pair, the exchange the first began with the second
    made,       \* the accounts made so far
    erased,     \* history: the newest version of an account each panel deleted and noted
    crossed,    \* history: a row was written between two statements that count on it
    edits,
    faults

history == <<made, erased>>
vars == <<copy, clock, request, exchange, history, crossed, edits, faults>>

Time == 0..(MaxTime + MaxEdits)
Copy == [User -> [row : {NoRow} \cup [at : Time \ {0}, content : Address], tomb : 0..MaxTime]]

\* The account of a request, the updated_at it read and the address it wrote.
Idle == [step |-> "idle", user |-> 1, read |-> 0, wrote |-> 1]
Request == [step : {"written", "stamping", "deleted"}, user : User, read : Time, wrote : Address]

\* What is carried, and the copy it was made from.
Message(step, c) == [step |-> step, base |-> <<>>, copy |-> c]
Quiet == Message("idle", <<>>)
Carrying == [step : {"sent", "answered"}, base : {<<>>}, copy : Copy]
Planning == [step : {"planned", "unheard", "folding"}, base : Copy, copy : Copy]

TypeOK ==
    /\ copy \in [Panel -> Copy]
    /\ clock \in [Panel -> 1..MaxTime]
    /\ request \in [Panel -> Request \cup {Idle}]
    /\ \A pq \in Pair : exchange[pq] = Quiet \/ exchange[pq] \in Carrying \/ exchange[pq] \in Planning
    /\ made \subseteq User
    /\ erased \in [Panel -> [User -> Time]]
    /\ crossed \in BOOLEAN
    /\ edits \in 0..MaxEdits /\ faults \in 0..MaxFaults

\* A panel joins with the copy of another; the first account is the owner's.
Init ==
    /\ \E n \in Joined :
        /\ copy = [p \in Panel |-> [u \in User |->
                IF u <= n THEN [row |-> [at |-> 1, content |-> u], tomb |-> 0] ELSE Nothing]]
        /\ made = 1..n
    /\ clock = [p \in Panel |-> 1]
    /\ request = [p \in Panel |-> Idle]
    /\ exchange = [pq \in Pair |-> Quiet]
    /\ erased = [p \in Panel |-> [u \in User |-> 0]]
    /\ crossed = FALSE
    /\ edits = 0 /\ faults = 0

RowOf(p, u) == copy[p][u].row
Present(p, u) == RowOf(p, u) # NoRow
Taken(p, u, a) == \E v \in User \ {u} : RowOf(p, v).content = a
SetRow(p, u, row) == copy' = [copy EXCEPT ![p][u].row = row]

\* nowIso, on a clock that has moved on by as much as it likes.
Clock(p, now) ==
    /\ now >= clock[p]
    /\ clock' = [clock EXCEPT ![p] = now]

SetRequest(p, r) == request' = [request EXCEPT ![p] = r]
SetExchange(pq, e) == exchange' = [exchange EXCEPT ![pq] = e]
Crosses(happened) == crossed' = (crossed \/ happened)
Edit == edits < MaxEdits /\ edits' = edits + 1
Fault == faults < MaxFaults /\ faults' = faults + 1

-----------------------------------------------------------------------------
(* The requests of an operator: lib/users.ts *)

\* createInvitedUser: one insert, refused when the address is taken here.
Make(p, u, a, now) ==
    /\ u \notin made /\ ~Taken(p, u, a)
    /\ Edit /\ Clock(p, now)
    /\ SetRow(p, u, [at |-> now, content |-> a])
    /\ made' = made \cup {u}
    /\ UNCHANGED <<request, exchange, erased, crossed, faults>>

\* setOwnEmail: the row is written first, and its updated_at is not.
EditWrites(p, u, a) ==
    /\ request[p] = Idle
    /\ Present(p, u) /\ RowOf(p, u).content # a /\ ~Taken(p, u, a)
    /\ Edit
    /\ SetRow(p, u, [RowOf(p, u) EXCEPT !.content = a])
    /\ SetRequest(p, [Idle EXCEPT !.step = "written", !.user = u, !.wrote = a])
    /\ UNCHANGED <<clock, exchange, history, crossed, faults>>

\* touch reads the row it is going to stamp, if there still is one.
TouchReads(p) ==
    LET u == request[p].user
    IN  /\ request[p].step = "written"
        /\ SetRequest(p, IF Present(p, u)
                         THEN [request[p] EXCEPT !.step = "stamping", !.read = RowOf(p, u).at]
                         ELSE Idle)
        /\ UNCHANGED <<copy, clock, exchange, history, crossed, edits, faults>>

TouchWrites(p, now) ==
    LET u == request[p].user
        stamp == BumpedUpdatedAt(request[p].read, now)
    IN  /\ request[p].step = "stamping"
        /\ Clock(p, now)
        /\ IF Present(p, u) THEN SetRow(p, u, [RowOf(p, u) EXCEPT !.at = stamp]) ELSE UNCHANGED copy
        /\ Crosses(RowOf(p, u).at # request[p].read)
        /\ SetRequest(p, Idle)
        /\ UNCHANGED <<exchange, history, edits, faults>>

\* deleteUser: the row first, and not the owner's.
Deletes(p, u) ==
    /\ request[p] = Idle
    /\ u # 1 /\ Present(p, u)
    /\ Edit
    /\ SetRow(p, u, NoRow)
    /\ SetRequest(p, [Idle EXCEPT !.step = "deleted", !.user = u, !.read = RowOf(p, u).at])
    /\ UNCHANGED <<clock, exchange, history, crossed, faults>>

\* tombstone: by this panel's clock, over whatever was noted before.
Buries(p, now) ==
    LET u == request[p].user
    IN  /\ request[p].step = "deleted"
        /\ Clock(p, now)
        /\ copy' = [copy EXCEPT ![p][u].tomb = now]
        /\ erased' = [erased EXCEPT ![p][u] = Later(@, request[p].read)]
        /\ Crosses(Present(p, u))
        /\ SetRequest(p, Idle)
        /\ UNCHANGED <<exchange, made, edits, faults>>

RequestStep(p) == TouchReads(p) \/ \E now \in 1..MaxTime : TouchWrites(p, now) \/ Buries(p, now)

-----------------------------------------------------------------------------
(* An exchange: syncWithMember at p, the route at q, applySnapshot at both *)

\* The ping told another hash than ours; p sends its copy.
Sends(p, q) ==
    /\ exchange[<<p, q>>] = Quiet
    /\ copy[p] # copy[q]
    /\ SetExchange(<<p, q>>, Message("sent", copy[p]))
    /\ UNCHANGED <<copy, clock, request, history, crossed, edits, faults>>

\* applySnapshot reads the copy of x and decides what the transaction will write.
Decides(pq, x, here, there) ==
    /\ exchange[pq].step = here
    /\ SetExchange(pq, [step |-> there, base |-> copy[x],
                        copy |-> MergeDirectory(copy[x], exchange[pq].copy)])
    /\ UNCHANGED <<copy, clock, request, history, crossed, edits, faults>>

Plans(p, q) == Decides(<<p, q>>, q, "sent", "planned")
Folds(p, q) == Decides(<<p, q>>, p, "answered", "folding")

\* The transaction removes and upserts the rows that differ from those it read,
\* and stores every tombstone it knows of.
Written(x, plan) ==
    [u \in User |->
        [row  |-> IF plan.copy[u].row # plan.base[u].row THEN plan.copy[u].row ELSE RowOf(x, u),
         tomb |-> IF plan.copy[u].tomb # 0 THEN plan.copy[u].tomb ELSE copy[x][u].tomb]]

\* Upserts go by id, after the removals: one whose address is still another
\* row's is refused by the unique index, and the transaction with it.
Refused(x, plan) ==
    LET upsert(u) == plan.copy[u].row \notin {plan.base[u].row, NoRow}
        meets(u, v) == IF v < u \/ Written(x, plan)[v].row = NoRow
                       THEN Written(x, plan)[v].row ELSE RowOf(x, v)
    IN  \E u, v \in User : u # v /\ upsert(u) /\ meets(u, v).content = plan.copy[u].row.content

\* The transaction crosses whoever wrote, since the reading, what it writes over.
Commits(x, plan) ==
    IF Refused(x, plan) THEN UNCHANGED <<copy, crossed>>
    ELSE /\ copy' = [copy EXCEPT ![x] = Written(x, plan)]
         /\ Crosses(\E u \in User : /\ plan.base[u] # copy[x][u]
                                    /\ Written(x, plan)[u] # copy[x][u])

\* q commits and answers with the result it planned, or with an error.
Answers(p, q) ==
    LET plan == exchange[<<p, q>>]
    IN  /\ plan.step \in {"planned", "unheard"}
        /\ Commits(q, plan)
        /\ SetExchange(<<p, q>>, IF plan.step = "unheard" \/ Refused(q, plan) THEN Quiet
                                 ELSE Message("answered", plan.copy))
        /\ UNCHANGED <<clock, request, history, edits, faults>>

\* p commits what it made of the answer; nobody hears if it is refused.
Applies(p, q) ==
    /\ exchange[<<p, q>>].step = "folding"
    /\ Commits(p, exchange[<<p, q>>])
    /\ SetExchange(<<p, q>>, Quiet)
    /\ UNCHANGED <<clock, request, history, edits, faults>>

ExchangeStep(p, q) ==
    Sends(p, q) \/ Plans(p, q) \/ Answers(p, q) \/ Folds(p, q) \/ Applies(p, q)

\* The call is lost, before or after the other side had it, or times out.
Loses(p, q) ==
    /\ Fault
    /\ \/ /\ exchange[<<p, q>>].step \in {"sent", "answered"}
          /\ SetExchange(<<p, q>>, Quiet)
       \/ /\ exchange[<<p, q>>].step = "planned"
          /\ SetExchange(<<p, q>>, [exchange[<<p, q>>] EXCEPT !.step = "unheard"])
    /\ UNCHANGED <<copy, clock, request, history, crossed, edits>>

\* A panel dies and comes back: what it was serving and waiting for is gone.
Dies(p) ==
    /\ Fault
    /\ SetRequest(p, Idle)
    /\ exchange' = [pq \in Pair |->
            CASE pq[1] = p /\ exchange[pq].step = "planned" -> [exchange[pq] EXCEPT !.step = "unheard"]
              [] pq[1] = p /\ exchange[pq].step \in {"sent", "answered", "folding"} -> Quiet
              [] pq[2] = p /\ exchange[pq].step \in {"planned", "unheard"} -> Quiet
              [] OTHER -> exchange[pq]]
    /\ UNCHANGED <<copy, clock, history, crossed, edits>>

Next ==
    \/ \E p \in Panel :
        \/ RequestStep(p) \/ Dies(p)
        \/ \E u \in User : Deletes(p, u)
        \/ \E u \in User, a \in Address :
            EditWrites(p, u, a) \/ \E now \in 1..MaxTime : Make(p, u, a, now)
    \/ \E pq \in Pair : ExchangeStep(pq[1], pq[2]) \/ Loses(pq[1], pq[2])

Spec == Init /\ [][Next]_vars

\* Statements end, and the poller comes back every minute to whoever differs.
FairSpec ==
    /\ Spec
    /\ \A p \in Panel : WF_vars(RequestStep(p))
    /\ \A pq \in Pair : WF_vars(ExchangeStep(pq[1], pq[2]))

-----------------------------------------------------------------------------
(* Properties *)

\* No statement takes a copy back: a row is not replaced by an older one, and an
\* account that is not there does not come in from before its tombstone -- but
\* for a row written between two statements that count on it
\* (lib/cluster-directory.ts, and applySnapshot's transaction).
Forward ==
    [][~crossed' =>
        \A p \in Panel, u \in User :
            RowOf(p, u)' # NoRow =>
                /\ RowOf(p, u)'.at >= RowOf(p, u).at
                /\ ~Present(p, u) => RowOf(p, u)'.at > copy[p][u].tomb]_vars

Agree == \A p, q \in Panel : copy[p] = copy[q]

\* No row is there that its tombstone covers.
Clean == \A p \in Panel, u \in User : Settled(copy[p][u])

\* Two panels hold one address for two accounts.
Clash ==
    \E p, q \in Panel, u, v \in User :
        u # v /\ Present(p, u) /\ Present(q, v) /\ RowOf(p, u).content = RowOf(q, v).content

\* When the edits are over the copies become the same and stay so, whatever was
\* lost on the way, unless two accounts go on holding an address; and they agree
\* on no deleted account, unless a row was written between two statements
\* (services/cluster/sync.ts, directory.ts).
Converges == <>[](Agree /\ (crossed \/ Clean)) \/ <>[]Clash

Newest(p, u) == Present(p, u) /\ \A q \in Panel : ~Wins(RowOf(q, u), RowOf(p, u))

\* The last edits of two accounts gave them one address.
Contested ==
    \E p, q \in Panel, u, v \in User :
        u # v /\ Newest(p, u) /\ Newest(q, v) /\ RowOf(p, u).content = RowOf(q, v).content

\* "Any panel may edit any of it; copies converge by merging per record"
\* (lib/cluster-directory.ts:5-6), as long as no two accounts want one address.
CopiesConverge == <>[]Agree \/ <>[]Contested

\* "a tombstone wins over a record changed at or before the deletion"
\* (lib/cluster-directory.ts:9), in the end.
TombstoneWins == <>[]Clean \/ <>[]Clash

\* "So no other member's copy brings the account back" (lib/users.ts:255): a
\* panel that deleted an account and noted it does not hold that version of it, or
\* an older one, again -- even where no statement came between two others.
DeletedStaysDeleted ==
    \A p \in Panel, u \in User :
        Present(p, u) /\ erased[p][u] > 0 /\ ~crossed => RowOf(p, u).at > erased[p][u]

\* "so an edit made here wins over the copy it was merged from" (lib/users.ts:47):
\* what touch stamps is what the request wrote.
EditIsStamped ==
    \A p \in Panel :
        request[p].step = "stamping" => RowOf(p, request[p].user).content = request[p].wrote
=============================================================================
