--------------------------- MODULE MCJobLeaseSafe ---------------------------
(***************************************************************************)
(* JobLease in one of two settings, chosen at the start: heartbeats that   *)
(* may come late, with short leases; or punctual ones (the constants of    *)
(* the configuration), with timestamps that age and two faults.            *)
(***************************************************************************)
EXTENDS MCJobLease

VARIABLE setting

Late == INSTANCE JobLease WITH Lease <- 1, Stale <- 0, MaxFaults <- 1, Punctual <- FALSE

SafeSpec ==
    /\ setting \in {"late", "punctual"}
    /\ \/ setting = "late" /\ Late!Init
       \/ setting = "punctual" /\ Init
    /\ [][/\ UNCHANGED setting
          /\ \/ setting = "late" /\ Late!Next
             \/ setting = "punctual" /\ Next]_<<vars, setting>>

\* ExclusiveExecution when heartbeats are punctual: a Job is executed by one
\* thread at a time, apart from threads that know they have lost it or that
\* their process stops (_ClaimLeaseHeartbeat).
PunctualIsExclusive == setting = "punctual" => ExclusiveExecution
=============================================================================
