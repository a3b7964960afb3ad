---------------------------- MODULE MCLocalCopy ----------------------------
(* Instances of LocalCopy for TLC. *)
EXTENDS LocalCopy

CONSTANTS o1, e1
=============================================================================
