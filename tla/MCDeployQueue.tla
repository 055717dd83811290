---------------------------- MODULE MCDeployQueue -----------------------------
(* DeployQueue for TLC: three calls are enough for a deploy, a follow-up and a  *)
(* third request that overtakes one of the two.                                *)
EXTENDS DeployQueue
=============================================================================
