-------------------------- MODULE MCClusterDirectory ---------------------------
(* Two panels, the owner and one more account. *)
EXTENDS ClusterDirectory
=============================================================================
