--------------------------- MODULE MCProjectControl ---------------------------
(* Two calls of enqueueDeploy and two requests of any kinds. *)
EXTENDS ProjectControl
=============================================================================
