-------------------------- MODULE MCStartDetector --------------------------
(***************************************************************************)
(* Instances of StartDetector for TLC: the values of the constants are in  *)
(* the .cfg files.                                                         *)
(***************************************************************************)
EXTENDS StartDetector
=============================================================================
