------------------------------ MODULE DeploySlot -------------------------------
(***************************************************************************)
(* What the callers of services/deploy-queue.ts may count on, with no word  *)
(* of how: a project has one slot for a deploy and one place for a          *)
(* follow-up, and a request is deployed at most once.  DeployQueue is shown *)
(* to implement it.                                                        *)
(***************************************************************************)

CONSTANTS
    Request,
    None        \* no request

VARIABLES
    running,    \* the request being deployed, or None
    waiting,    \* the request that comes next, or None
    fresh       \* the requests that may still be deployed

slotVars == <<running, waiting, fresh>>

Init == running = None /\ waiting = None /\ fresh = Request

\* A deploy begins in a free slot, and uses its request up.
Begin(r) ==
    /\ running = None /\ r \in fresh
    /\ running' = r
    /\ fresh' = fresh \ {r}
    /\ UNCHANGED waiting

\* However it ends, the slot is free again.
End ==
    /\ running # None
    /\ running' = None
    /\ UNCHANGED <<waiting, fresh>>

\* The newest follow-up takes the place of the one before.
Wait(r) ==
    /\ r \in fresh
    /\ waiting' = r
    /\ fresh' = fresh \ ({waiting} \ {r})
    /\ UNCHANGED running

Take ==
    /\ waiting # None
    /\ waiting' = None
    /\ UNCHANGED <<running, fresh>>

\* A request that comes to nothing.
Drop(r) ==
    /\ r \in fresh
    /\ fresh' = fresh \ {r}
    /\ UNCHANGED <<running, waiting>>

\* The panel forgets the deploy, the follow-up and what was asked.
Forget ==
    /\ running' = None /\ waiting' = None
    /\ fresh' \in SUBSET fresh

Next ==
    \/ \E r \in Request : Begin(r) \/ Wait(r) \/ Drop(r)
    \/ End \/ Take \/ Forget

Spec == Init /\ [][Next]_slotVars

\* A deploy does not hold the slot for ever.
FairSpec == Spec /\ WF_slotVars(End)
=============================================================================
