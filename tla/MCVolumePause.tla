----------------------------- MODULE MCVolumePause -----------------------------
\* Two volumes that share a writer, so that the second pause finds the first's leftovers.
EXTENDS VolumePause, TLC
CONSTANTS web, worker, data, files
MCMounts == data :> {web, worker} @@ files :> {web}
=============================================================================
