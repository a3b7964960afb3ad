-------------------------- MODULE MCUploadProtocol --------------------------
(* Instances of UploadProtocol for TLC. *)
EXTENDS UploadProtocol, TLC

CONSTANTS j1, j2, t1, t2, c1, c2

Symmetry == Permutations(Jobs) \cup Permutations(Threads)
=============================================================================
