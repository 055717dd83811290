-------------------------- MODULE MCOneTimeCommands ---------------------------
(* Two commands, two deploys that may overlap, two phases of which the second *)
(* belongs to the build.  The properties are about steps and states, so ids   *)
(* may be permuted.                                                           *)
EXTENDS OneTimeCommands, TLC

MCBuildPhases == {2}
MCSymmetry == Permutations(Command) \union Permutations(Deploy)
=============================================================================
