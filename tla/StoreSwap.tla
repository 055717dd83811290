------------------------------- MODULE StoreSwap -------------------------------
(***************************************************************************)
(* services/backup/store-swap.ts: a restore of the panel's own SQLite store *)
(* leaves the new file and a marker beside the one in use, and the next     *)
(* boot swaps them before anything opens the store.  Every rename may fail, *)
(* and the panel may die between any two.                                  *)
(*                                                                         *)
(* A store is a number: 0 is the first, k the one restore k wrote.  The     *)
(* sidecars (-wal and -shm) are named by the store they belong to.         *)
(***************************************************************************)
EXTENDS Integers

CONSTANTS
    MaxRestores,    \* bound: restores of the panel's store
    MaxFaults       \* bound: failures and deaths of the panel, together

ASSUME BoundAssumption == MaxRestores \in Nat /\ MaxFaults \in Nat

VARIABLES
    proc,       \* where the panel's process is
    store,      \* the content of runpanel.db
    journal,    \* whose journal lies beside it
    pending,    \* the content of runpanel.restored.db
    marker,     \* .restore-pending is there
    kept,       \* the stores moved aside
    extracting, \* a restore is extracting onto it (in memory)
    lastStore,  \* history: the store the panel last had open
    cut,        \* history: a swap has failed or was interrupted
    restores,
    faults

storeVars == <<store, journal, pending, marker, kept, extracting, lastStore, restores, cut>>

Absent == -1    \* no such file
Empty == -2     \* a store made from nothing because none was there
Torn == -3      \* a store whose extraction did not finish
Content == Torn..MaxRestores

StoreTypeOK ==
    /\ proc \in {"down", "swapping", "setting sidecars aside", "placing", "unmarking",
                 "settling", "opening", "up"}
    /\ {store, journal, pending, lastStore} \cup kept \subseteq Content
    /\ {marker, extracting, cut} \subseteq BOOLEAN
    /\ restores \in 0..MaxRestores
    /\ faults \in 0..MaxFaults

StoreInit ==
    /\ proc = "up"
    /\ store = 0 /\ journal = 0 /\ lastStore = 0
    /\ pending = Absent /\ marker = FALSE /\ extracting = FALSE /\ kept = {}
    /\ cut = FALSE /\ restores = 0 /\ faults = 0

Fault == faults < MaxFaults /\ faults' = faults + 1
Goes(point) == proc' = point

-----------------------------------------------------------------------------
(* restorePanelStore, in a panel that is up *)

\* The archive is extracted straight onto the pending file.
ExtractBegins ==
    /\ proc = "up" /\ ~extracting /\ restores < MaxRestores
    /\ pending' = Torn
    /\ restores' = restores + 1
    /\ extracting' = TRUE
    /\ UNCHANGED <<proc, store, journal, marker, kept, lastStore, cut, faults>>

\* Extracted, and marked for the next boot.
ExtractEnds ==
    /\ proc = "up" /\ extracting
    /\ pending' = restores
    /\ marker' = TRUE
    /\ extracting' = FALSE
    /\ UNCHANGED <<proc, store, journal, kept, lastStore, restores, cut, faults>>

\* The restore throws, and what was extracted stays where it is.
ExtractFails ==
    /\ proc = "up" /\ extracting /\ Fault
    /\ extracting' = FALSE
    /\ UNCHANGED <<proc, store, journal, pending, marker, kept, lastStore, restores, cut>>

Restoring == ExtractBegins \/ ExtractEnds \/ ExtractFails

-----------------------------------------------------------------------------
(* applyPendingStoreRestore, before the store is opened *)

InSwap == proc \in {"swapping", "setting sidecars aside", "placing", "unmarking"}

NothingToSwap ==
    /\ proc = "swapping" /\ ~(marker /\ pending # Absent)
    /\ Goes("settling")
    /\ UNCHANGED <<storeVars, faults>>

SetsStoreAside ==
    /\ proc = "swapping" /\ marker /\ pending # Absent
    /\ IF store = Absent
       THEN Goes("placing") /\ UNCHANGED <<store, kept>>
       ELSE /\ Goes("setting sidecars aside")
            /\ kept' = kept \cup {store}
            /\ store' = Absent
    /\ UNCHANGED <<journal, pending, marker, extracting, lastStore, restores, cut, faults>>

SetsSidecarsAside ==
    /\ proc = "setting sidecars aside"
    /\ journal' = Absent
    /\ Goes("placing")
    /\ UNCHANGED <<store, pending, marker, kept, extracting, lastStore, restores, cut, faults>>

Places ==
    /\ proc = "placing"
    /\ store' = pending
    /\ pending' = Absent
    /\ Goes("unmarking")
    /\ UNCHANGED <<journal, marker, kept, extracting, lastStore, restores, cut, faults>>

Unmarks ==
    /\ proc = "unmarking"
    /\ marker' = FALSE
    /\ Goes("settling")
    /\ UNCHANGED <<store, journal, pending, kept, extracting, lastStore, restores, cut, faults>>

\* A rename that throws is logged, and the boot goes on.
SwapFails ==
    /\ proc = "swapping" => marker /\ pending # Absent
    /\ InSwap
    /\ Fault
    /\ cut' = TRUE
    /\ Goes("settling")
    /\ UNCHANGED <<store, journal, pending, marker, kept, extracting, lastStore, restores>>

\* The panel dies: of all this only what was in memory is lost.
StoreDies ==
    /\ extracting' = FALSE
    /\ cut' = (cut \/ InSwap)
    /\ UNCHANGED <<store, journal, pending, marker, kept, lastStore, restores>>

\* getDb: SQLite creates a store where there is none.
OpensStore ==
    /\ proc = "opening"
    /\ store' = IF store = Absent THEN Empty ELSE store
    /\ journal' = store'
    /\ lastStore' = store'
    /\ Goes("up")
    /\ UNCHANGED <<pending, marker, kept, extracting, restores, cut, faults>>

SwapStep ==
    \/ NothingToSwap \/ SetsStoreAside \/ SetsSidecarsAside \/ Places \/ Unmarks
    \/ SwapFails

-----------------------------------------------------------------------------
\* The store the panel last worked on is never lost to a restore: it is in its
\* place or set aside, however the swap is cut short.
StoreKept == lastStore \in kept \cup {store}

\* A swap that was not cut short leaves no journal beside a store but its own:
\* SQLite would replay another's onto it.
OwnJournal == ~cut /\ proc = "opening" => journal \in {Absent, store}

=============================================================================
