------------------------ MODULE MCCatalogEventsSafe ------------------------
(***************************************************************************)
(* CatalogEvents in one of four settings, chosen at the start: two         *)
(* queries, events of one or both and pages of one (the constants of the   *)
(* configuration); three events for both, with pages of two; one query     *)
(* with two catch-up requests and no fault; or one with one request.       *)
(***************************************************************************)
EXTENDS MCCatalogEvents

VARIABLE setting

Longer == INSTANCE CatalogEvents WITH Changes <- BothChange, PageLimit <- 2, MaxRevision <- 3

Twice == INSTANCE CatalogEvents WITH
    Domains <- {files}, Changes <- FilesChange, Requests <- {r1, r2}, MaxFaults <- 0

Once == INSTANCE CatalogEvents WITH
    Domains <- {files}, Changes <- FilesChange, Requests <- {r1}

SafeSpec ==
    /\ \/ setting = "stream" /\ Init
       \/ setting = "longer" /\ Longer!Init
       \/ setting = "twice" /\ Twice!Init
       \/ setting = "once" /\ Once!Init
    /\ [][/\ UNCHANGED setting
          /\ \/ setting = "stream" /\ Next
             \/ setting = "longer" /\ Longer!Next
             \/ setting = "twice" /\ Twice!Next
             \/ setting = "once" /\ Once!Next]_<<vars, setting>>

\* NothingMissed of the setting: the cursor of the browser never passes an
\* event that the queries it concerns were not told of (useCatalogEvents.ts).
NoEventMissed ==
    CASE setting = "stream" -> TypeOK /\ NothingMissed
      [] setting = "longer" -> Longer!TypeOK /\ Longer!NothingMissed
      [] setting = "twice" -> Twice!TypeOK /\ Twice!NothingMissed
      [] setting = "once" -> Once!TypeOK /\ Once!NothingMissed
=============================================================================
