------------------------------ MODULE DeployPoll -------------------------------
(***************************************************************************)
(* services/deploy-poll.ts: a project whose branch is asked after, with the *)
(* requests that change what it follows.  The last commit seen is poll_sha, *)
(* in the store; the ETag of the last answer is in memory.  A tick works on *)
(* the row it read when it began, and nothing keeps two ticks apart.       *)
(*                                                                         *)
(* Commits are numbered in the order they come to be the head of a branch   *)
(* the project follows; 0 is none.  When a check is due is left open, and   *)
(* a deploy is what the queue is asked for (module DeployQueue).            *)
(***************************************************************************)
EXTENDS Naturals

CONSTANTS
    Tick,       \* ticks of the poller that may be under way at once
    Primer,     \* settings requests that may be recording a baseline
    MaxCommit,  \* bound: commits
    MaxEdits,   \* bound: changes of what the project follows
    MaxFaults   \* bound: calls and statements that fail, and deaths of the panel

Asker == Tick \cup Primer

PollAssumption ==
    /\ Tick \cap Primer = {}
    /\ MaxCommit \in Nat \ {0} /\ MaxEdits \in Nat /\ MaxFaults \in Nat

VARIABLES
    head,       \* the head of the branch, at GitHub
    follows,    \* auto_deploy is on, by polling, from GitHub
    pinned,     \* pinned_sha is set
    pollSha,    \* poll_sha
    etag,       \* the commit of the ETag kept for the project
    at,         \* where each asker is
    read,       \* the poll_sha of the row each tick read
    answer,     \* the head each asker was answered about
    modified,   \* whether that answer named it, or said "not modified"
    deploys,    \* how many deploys were asked for each commit
    looked,     \* history: the head last looked at since the branch began to be followed, or 0
    skipped,    \* history: a commit was only recorded, though a look had come before
    crossed,    \* history: an asker began while another was at it
    edits,
    faults

row == <<follows, pinned, pollSha>>
asked == <<at, read, answer, modified>>
history == <<deploys, looked, skipped, crossed>>
vars == <<head, row, etag, asked, history, edits, faults>>

Commit == 1..MaxCommit
Seen == 0..MaxCommit

TypeOK ==
    /\ {head, pollSha, etag, looked} \subseteq Seen /\ head # 0
    /\ {follows, pinned, skipped, crossed} \subseteq BOOLEAN
    /\ at \in [Asker -> {"idle", "asking", "hearing", "storing", "queueing"}]
    /\ read \in [Tick -> Seen]
    /\ answer \in [Asker -> Seen] /\ modified \in [Asker -> BOOLEAN]
    /\ deploys \in [Commit -> Nat]
    /\ edits \in 0..MaxEdits /\ faults \in 0..MaxFaults

Init ==
    /\ head = 1
    /\ follows = FALSE /\ pinned = FALSE /\ pollSha = 0
    /\ etag = 0
    /\ at = [a \in Asker |-> "idle"]
    /\ read = [t \in Tick |-> 0]
    /\ answer = [a \in Asker |-> 0] /\ modified = [a \in Asker |-> FALSE]
    /\ deploys = [c \in Commit |-> 0]
    /\ looked = 0 /\ skipped = FALSE /\ crossed = FALSE
    /\ edits = 0 /\ faults = 0

Goto(a, point) == at' = [at EXCEPT ![a] = point]
From(a, here, there) == at[a] = here /\ Goto(a, there)
Fault == faults < MaxFaults /\ faults' = faults + 1
Crosses == crossed' = (crossed \/ \E a \in Asker : at[a] # "idle")

-----------------------------------------------------------------------------
(* pollTick and checkProject *)

\* The tick selects the projects to ask after; ours may not be its first.
TickReads(t) ==
    /\ follows /\ ~pinned
    /\ From(t, "idle", "asking")
    /\ read' = [read EXCEPT ![t] = pollSha]
    /\ Crosses
    /\ UNCHANGED <<head, row, etag, answer, modified, deploys, looked, skipped, edits, faults>>

\* Seen too recently, or one of the requests before ours ended the tick.
TickPasses(t) ==
    /\ From(t, "asking", "idle")
    /\ UNCHANGED <<head, row, etag, read, answer, modified, history, edits, faults>>

\* headSha: with the ETag it has, and what GitHub answers to that.
Asks(a) ==
    /\ From(a, "asking", "hearing")
    /\ answer' = [answer EXCEPT ![a] = head]
    /\ modified' = [modified EXCEPT ![a] = etag # head]
    /\ UNCHANGED <<head, row, etag, read, history, edits, faults>>

AskFails(a) ==
    /\ From(a, "hearing", "idle") /\ Fault
    /\ UNCHANGED <<head, row, etag, read, answer, modified, history, edits>>

\* The answer arrives; its ETag is kept before anything else is done with it.
Hears(a) ==
    /\ From(a, "hearing", "storing")
    /\ etag' = IF modified[a] THEN answer[a] ELSE etag
    /\ UNCHANGED <<head, row, read, answer, modified, history, edits, faults>>

IsNews(t) == modified[t] /\ answer[t] # read[t]

\* A look counts if what the project follows has not changed under it.
Looks(t) == IF read[t] = pollSha THEN answer[t] ELSE looked

\* Only poll_checked_at moves.
StoresNothing(t) ==
    /\ ~IsNews(t)
    /\ From(t, "storing", "idle")
    /\ looked' = Looks(t)
    /\ UNCHANGED <<head, row, etag, read, answer, modified, deploys, skipped, crossed, edits, faults>>

\* Mutant: the commit is left to be recorded once its deploy has begun.
StoresBaselineOnly(t) ==
    /\ IsNews(t)
    /\ From(t, "storing", IF read[t] = 0 THEN "idle" ELSE "queueing")
    /\ pollSha' = IF read[t] = 0 THEN answer[t] ELSE pollSha
    /\ looked' = Looks(t)
    /\ skipped' = (skipped \/ (read[t] = 0 /\ looked \notin {0, answer[t]}))
    /\ UNCHANGED <<head, follows, pinned, etag, read, answer, modified, deploys, crossed, edits, faults>>

\* The commit is recorded; a first look goes no further.
Stores(t) ==
    /\ IsNews(t)
    /\ From(t, "storing", IF read[t] = 0 THEN "idle" ELSE "queueing")
    /\ pollSha' = answer[t]
    /\ looked' = Looks(t)
    /\ skipped' = (skipped \/ (read[t] = 0 /\ looked \notin {0, answer[t]}))
    /\ UNCHANGED <<head, follows, pinned, etag, read, answer, modified, deploys, crossed, edits, faults>>

\* enqueueDeploy is called and not waited for.
Queues(t) ==
    /\ From(t, "queueing", "idle")
    /\ deploys' = [deploys EXCEPT ![answer[t]] = @ + 1]
    /\ UNCHANGED <<head, row, etag, read, answer, modified, looked, skipped, crossed, edits, faults>>

\* A statement throws, and ends the tick.
StoreFails(a) ==
    /\ at[a] \in {"storing", "queueing"} /\ Goto(a, "idle") /\ Fault
    /\ UNCHANGED <<head, row, etag, read, answer, modified, history, edits>>

-----------------------------------------------------------------------------
(* primePollBaseline, in a request that turns polling on *)

\* The row is written, and GitHub's answer will be the baseline.
Follow(p) ==
    /\ ~follows /\ edits < MaxEdits
    /\ From(p, "idle", "asking")
    /\ follows' = TRUE
    /\ looked' = 0
    /\ edits' = edits + 1
    /\ Crosses
    /\ UNCHANGED <<head, pinned, pollSha, etag, read, answer, modified, deploys, skipped, faults>>

\* "Not modified" is no answer to it: nothing is recorded.
Primes(p) ==
    /\ From(p, "storing", "idle")
    /\ IF modified[p] THEN pollSha' = answer[p] /\ looked' = answer[p] ELSE UNCHANGED <<pollSha, looked>>
    /\ UNCHANGED <<head, follows, pinned, etag, read, answer, modified, deploys, skipped, crossed, edits, faults>>

-----------------------------------------------------------------------------
(* The other requests: one statement each *)

Edit ==
    /\ edits < MaxEdits
    /\ edits' = edits + 1
    /\ UNCHANGED <<etag, asked, deploys, skipped, crossed, faults>>

\* A commit is chosen: the project is held at it.
Pin ==
    /\ Edit /\ ~pinned
    /\ pinned' = TRUE
    /\ UNCHANGED <<head, follows, pollSha, looked>>

\* Released: the next look is to be a first one again.
Release ==
    /\ Edit /\ pinned
    /\ pinned' = FALSE
    /\ pollSha' = 0 /\ looked' = 0
    /\ UNCHANGED <<head, follows>>

\* Auto-deploy off, by itself; or to webhooks, or the app removed.
Unfollow ==
    /\ Edit /\ follows
    /\ follows' = FALSE
    /\ \/ UNCHANGED <<pinned, pollSha>>
       \/ pollSha' = 0 /\ UNCHANGED pinned
       \/ pollSha' = 0 /\ pinned' = FALSE
    /\ UNCHANGED <<head, looked>>

\* Another branch, with a head of its own.
SwitchBranch ==
    /\ Edit /\ head < MaxCommit
    /\ head' = head + 1
    /\ pollSha' = 0 /\ pinned' = FALSE /\ looked' = 0
    /\ UNCHANGED follows

Push ==
    /\ head < MaxCommit
    /\ head' = head + 1
    /\ UNCHANGED <<row, etag, asked, history, edits, faults>>

\* The panel dies: its requests and the ETag are gone.
PanelRestart ==
    /\ Fault
    /\ etag' = 0
    /\ at' = [a \in Asker |-> "idle"]
    /\ UNCHANGED <<head, row, read, answer, modified, history, edits>>

Next ==
    \/ \E t \in Tick : TickReads(t) \/ TickPasses(t) \/ StoresNothing(t) \/ Stores(t) \/ Queues(t)
    \/ \E p \in Primer : Follow(p) \/ Primes(p)
    \/ \E a \in Asker : Asks(a) \/ AskFails(a) \/ Hears(a) \/ StoreFails(a)
    \/ Pin \/ Release \/ Unfollow \/ SwitchBranch
    \/ Push \/ PanelRestart

Spec == Init /\ [][Next]_vars

-----------------------------------------------------------------------------
(* Properties *)

\* One attempt per commit: through lost answers, failed statements, crashes and
\* whatever is done to the settings, and as long as no two checks are under way
\* at once, no commit is deployed twice on the poller's account (deploy-poll.ts).
OneAttemptPerCommit == ~crossed => \A c \in Commit : deploys[c] <= 1

\* "Deploy what comes next": once a look has been taken since the project began
\* to follow its branch, what the poller finds later is deployed, not just recorded.
NextIsDeployed == ~crossed => ~skipped
=============================================================================
