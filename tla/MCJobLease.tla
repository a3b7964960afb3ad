----------------------------- MODULE MCJobLease -----------------------------
(* Small instances of JobLease for TLC. *)
EXTENDS JobLease, TLC

CONSTANTS j1, w1, w2, p1, p2, t1, t2, t3

OneUpload == j1 :> "upload"
OneHome == w1 :> p1 @@ w2 :> p1
TwoHomes == w1 :> p1 @@ w2 :> p2

\* Tokens are interchangeable, and so are the processes with their workers.
Swap == p1 :> p2 @@ p2 :> p1 @@ w1 :> w2 @@ w2 :> w1
Same == p1 :> p1 @@ p2 :> p2 @@ w1 :> w1 @@ w2 :> w2
Symmetry == {f @@ g : f \in Permutations({t1, t2, t3}), g \in {Swap, Same}}
=============================================================================
