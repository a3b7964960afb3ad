----------------------------- MODULE DurableCopy -----------------------------
(***************************************************************************)
(* What FrostVault promises when it replaces one stored copy of verified   *)
(* content by another (a colder class, a new key): the catalog first       *)
(* trusts the new copy and only then gives up the old one, so that content *)
(* the catalog trusts is always stored.                                    *)
(***************************************************************************)

VARIABLES
    stored,   \* which of the copies "old" and "new" are stored, intact
    trusted   \* which of them the catalog calls verified and available

Init == stored = {"old"} /\ trusted = {"old"}

\* A copy is made; nothing relies on it yet.
Make == stored' = stored \cup {"new"} /\ UNCHANGED trusted

\* A stored copy is published.
Trust == "new" \in stored /\ trusted' = trusted \cup {"new"} /\ UNCHANGED stored

\* The old copy is deleted while the new one is trusted, and
GiveUp == "new" \in trusted /\ stored' = stored \ {"old"} /\ UNCHANGED trusted

\* the catalog learns of it afterwards.
Forget == "new" \in trusted /\ "old" \notin stored /\ trusted' = trusted \ {"old"} /\ UNCHANGED stored

\* A verified placement moves in one transaction; the old version is kept.
Replace == "new" \in stored /\ trusted' = {"new"} /\ UNCHANGED stored

Next == Make \/ Trust \/ GiveUp \/ Forget \/ Replace

Spec == Init /\ [][Next]_<<stored, trusted>>
=============================================================================
