-------------------------- MODULE MCCloudContent --------------------------
(***************************************************************************)
(* What becomes of stored versions, for TLC.  CloudPurge or CloudScan is   *)
(* at work: `part` is chosen at the start, and the other stays in an       *)
(* initial state.                                                          *)
(***************************************************************************)
EXTENDS CloudPurge

CONSTANTS f1, f2, w1, w2

VARIABLES part, bucket, row, incidents, op, scan, audit, lost, erased

scanVars == <<bucket, row, incidents, op, scan, audit, lost, erased>>

S == INSTANCE CloudScan WITH VersionIds <- {1, 2}, MaxLosses <- 1

ContentInit == Init /\ S!Init /\ part \in {"purge", "scan"}

ContentNext ==
    /\ UNCHANGED part
    /\ \/ part = "purge" /\ Next /\ UNCHANGED scanVars
       \/ part = "scan" /\ S!Next /\ UNCHANGED vars

\* Fairness of each, for the part at work.
ContentFairness ==
    /\ WF_vars(part = "purge" /\ DelayElapses) /\ WF_vars(part = "purge" /\ \E w \in Workers : Claim(w))
    /\ \A w \in Workers : WF_vars(part = "purge" /\ WorkerStep(w))
    /\ WF_vars(part = "purge" /\ Arrive) /\ WF_vars(part = "purge" /\ Reconcile)
    /\ WF_vars(part = "purge" /\ ReleaseRoot)
    /\ \A f \in Files : WF_vars(part = "purge" /\ Expire(f) /\ Orphaned(f))
    /\ WF_scanVars(part = "scan" /\ S!ScanStep) /\ SF_scanVars(part = "scan" /\ S!ScanList /\ scan'.pc = "keep")
    /\ WF_scanVars(part = "scan" /\ S!OpStep) /\ WF_scanVars(part = "scan" /\ (S!AuditRead \/ S!AuditWrite))

ContentSpec == ContentInit /\ [][ContentNext]_<<vars, scanVars, part>> /\ ContentFairness

\* What the catalog says of a deletion is so: what it calls purged or deleted is
\* gone (PurgedIsGone), and a stopped folder is released when its deletion is
\* over (RootHeld) (_process_purge_group, release_decommissioned_roots).
DeletionIsTrue == TypeOK /\ PurgedIsGone /\ RootHeld

\* DeletesAuthorized and GroupWhole: workers delete on whole, valid and undivided
\* groups (claim_purge_group, validate_execution).
GroupsAct == DeletesAuthorized /\ GroupWhole


Begun(i) ==
    CASE part = "purge" -> IF i = 1 THEN Active # {} ELSE stop.dec = "decommissioning"
      [] part = "scan"  -> i \notin bucket /\ row[i].av = "available"

Over(i) ==
    CASE part = "purge" -> IF i = 1 THEN Active = {}
                           ELSE \/ stop.dec = "decommissioned"
                                \/ \E f \in Members : jobs[f].st = "failed"
      [] part = "scan"  -> row[i].av # "available" \/ i \in bucket

\* GroupEnds and StopEnds of CloudPurge, AvailabilityHeals of CloudScan: deletions
\* come to an end and stopped folders give their root back; the catalog does not
\* keep calling a version available that is gone, even when a stale listing has
\* revived it.  (`part` does not change, so the formulas of both are in one.)
ContentSettles == \A i \in {1, 2} : Begun(i) ~> Over(i)
=============================================================================
