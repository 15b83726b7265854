--------------------------- MODULE MCConfiguration ---------------------------
(***************************************************************************)
(* Configuration for TLC.  Every constant gets its value in the cfg files; *)
(* the sets of inputs and the bounds differ from run to run, see README.   *)
(***************************************************************************)
EXTENDS Configuration
=============================================================================
