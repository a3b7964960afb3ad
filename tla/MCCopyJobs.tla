---------------------------- MODULE MCCopyJobs ----------------------------
(***************************************************************************)
(* The Jobs that replace a stored copy by another, and the aggregates that *)
(* follow the catalog, for TLC.  One of ClassMove, Rename and              *)
(* DirectoryAggregates is at work: `part` is chosen at the start, and the  *)
(* others stay in an initial state.                                        *)
(***************************************************************************)
EXTENDS ClassMove

CONSTANTS w1, w2, t1, pa, pb, y1, d1, d2, Sweep, None

VARIABLES
    part,
    disk, files, objs, stored, renamedRows, renameJob, invs, proofs, renamer, edits, renameFaults,
    cat, agg, marks, status, rowLock, tx, owner, pending, inflight, changes, aborts, lost

renameVars == <<disk, files, objs, stored, renamedRows, renameJob, invs, proofs, renamer, edits, renameFaults>>
aggVars == <<cat, agg, marks, status, rowLock, tx, owner, pending, inflight, changes, aborts, lost>>

R == INSTANCE Rename WITH
    Paths <- {pa, pb}, Home <- pa, Workers <- {w1}, MaxFiles <- 3, MaxEdits <- 3, MaxFaults <- 1,
    rows <- renamedRows, job <- renameJob, wk <- renamer, faults <- renameFaults

\* File y1 is in directory d2, which is in directory d1.
D == INSTANCE DirectoryAggregates WITH
    Files <- {y1}, Dirs <- {d1, d2}, Above <- [f \in {y1} |-> {d1, d2}], Writers <- {w1}, Threads <- {t1},
    MaxChanges <- 2, MaxAborts <- 1, lock <- rowLock

JobsInit ==
    /\ Init /\ R!Init /\ D!Init
    /\ part \in {"move", "rename", "aggregates"}
    /\ part # "move" => kind = "move" /\ restore = "warm"
    /\ part # "aggregates" => status = "ready"

JobsNext ==
    /\ UNCHANGED part
    /\ \/ part = "move" /\ Next /\ UNCHANGED <<renameVars, aggVars>>
       \/ part = "rename" /\ R!Next /\ UNCHANGED <<vars, aggVars>>
       \/ part = "aggregates" /\ D!Next /\ UNCHANGED <<vars, renameVars>>

\* Fairness of each, for the part at work.
JobsFairness ==
    /\ WF_vars(part = "move" /\ \E w \in Workers : Claim(w))
    /\ \A w \in Workers : WF_vars(part = "move" /\ Step(w))
    /\ WF_vars(part = "move" /\ Expire /\ Orphaned)
    /\ WF_vars(part = "move" /\ Reconcile) /\ WF_vars(part = "move" /\ RestoreDone)
    /\ WF_renameVars(part = "rename" /\ R!Claim(w1)) /\ WF_renameVars(part = "rename" /\ R!Step(w1))
    /\ WF_renameVars(part = "rename" /\ R!Expire /\ R!Orphaned)
    /\ WF_renameVars(part = "rename" /\ R!Reconcile)
    /\ WF_aggVars(part = "aggregates" /\ D!Step(w1))
    /\ \A t \in {t1, Sweep} : WF_aggVars(part = "aggregates" /\ D!Maintain(t))

JobsSpec == JobsInit /\ [][JobsNext]_<<vars, renameVars, aggVars, part>> /\ JobsFairness



\* RetiredOwnsNothing of Rename: a file retired in favour of another owns no
\* archived content and no work, whatever was uploaded between the scan and the
\* confirmation of a move.
RetiredOwnsNothing == R!RetiredOwnsNothing

\* Of DirectoryAggregates: a directory whose rollup is not what the catalog says
\* has a durable mark or the Vault a request for a rebuild, unless a flush
\* overwrote that request (StaleIsMarkedUnlessLost), and what is pending has
\* someone to take it over (NoStrandedFollowUp).
NoChangeForgotten == D!TypeOK /\ D!StaleIsMarkedUnlessLost /\ D!NoStrandedFollowUp

Settled(p) ==
    CASE p = "move" ->
           \/ job.st \in Terminal \cup {"none"}
           \/ kind = "plain" /\ restore = "no" /\ job.st \in {"running", "restoring"}
      [] p = "rename" -> renameJob.st \in R!Terminal
      [] p = "aggregates" -> lost \/ \A x \in {d1, d2} : agg[x] = D!Shown(x)

=============================================================================
