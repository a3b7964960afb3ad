--------------------------- MODULE MCJobLeaseLive ---------------------------
(***************************************************************************)
(* JobLease with one Job of any of three operations: `operation`, chosen   *)
(* at the start, selects the instance whose steps are taken.               *)
(***************************************************************************)
EXTENDS MCJobLease

VARIABLE operation

M == INSTANCE JobLease WITH Action <- (j1 :> "storage-class")
R == INSTANCE JobLease WITH Action <- (j1 :> "recover")

LiveInit == Init /\ operation \in {"upload", "storage-class", "recover"}
LiveNext ==
    /\ UNCHANGED operation
    /\ \/ operation = "upload" /\ Next
       \/ operation = "storage-class" /\ M!Next
       \/ operation = "recover" /\ R!Next

\* The steps that depend on the operation, for the one that was chosen.
Of(u, m, r) ==
    \/ operation = "upload" /\ u
    \/ operation = "storage-class" /\ m
    \/ operation = "recover" /\ r

\* Fairness of JobLease, for that operation.
LiveFairness ==
    /\ WF_vars(Of(Tick, M!Tick, R!Tick))
    /\ \A p \in Processes :
         /\ WF_vars(\E age \in Ages : Of(ReconcileSelect(p, age), M!ReconcileSelect(p, age),
                                         R!ReconcileSelect(p, age)))
         /\ WF_vars(\E outcome \in Terminal \cup {"queued"}, age \in Ages :
                       Of(ReconcileOne(p, j1, outcome, age), M!ReconcileOne(p, j1, outcome, age),
                          R!ReconcileOne(p, j1, outcome, age)))
         /\ WF_vars(\E age \in Ages : Of(ListClaimable(p, age), M!ListClaimable(p, age),
                                         R!ListClaimable(p, age)))
         /\ SF_vars(\E c \in sched[p].listed, w \in Workers, tok \in Tokens, age \in Ages :
                       Of(ClaimJob(p, c, w, tok, age), M!ClaimJob(p, c, w, tok, age),
                          R!ClaimJob(p, c, w, tok, age)))
         /\ WF_vars(EndPass(p)) /\ WF_vars(CancelCommit(p)) /\ WF_vars(Restart(p))
    /\ \A w \in Workers :
         /\ WF_vars(\E age \in Ages : Of(Dispatch(w, age), M!Dispatch(w, age), R!Dispatch(w, age)))
         /\ WF_vars(\E age \in Ages : Of(Complete(w, age) \/ Fail(w, age),
                                         M!Complete(w, age) \/ M!Fail(w, age),
                                         R!Complete(w, age) \/ R!Fail(w, age)))

LiveSpec == LiveInit /\ [][LiveNext]_<<vars, operation>> /\ LiveFairness

\* No Job is left behind: none stays in a held status (HeldIsTransient) and none
\* stays queued (QueuedIsServed), also after a crash, a shutdown or a claim without
\* dispatch (process_jobs_once, reconcile_interrupted_jobs).
NoJobIsStranded == HeldIsTransient /\ QueuedIsServed
=============================================================================
