------------------------------ MODULE JobLease ------------------------------
(***************************************************************************)
(* The durable Job queue of app/storage.py and app/catalog.py: how rows of *)
(* the jobs table are leased to worker threads, renewed, released,         *)
(* retried, parked, cancelled, approved and reconciled after a crash.      *)
(*                                                                         *)
(* Several processes share one database.  Each has a scheduler             *)
(* (process_jobs_once), a pool of worker threads, an in-memory set of      *)
(* cancelled Job ids and a shutdown flag; all of that is lost in a crash,  *)
(* while a Job row, its claim token and its lease survive.                 *)
(*                                                                         *)
(* Time.  A row keeps claim_expires_at; the model keeps the time that is   *)
(* left, so that no clock grows without bound.  Every statement compares   *)
(* with a timestamp taken before the statement got its row lock: age is    *)
(* how old that timestamp is, any number in 0..Stale.                      *)
(***************************************************************************)
EXTENDS Integers, FiniteSets

CONSTANTS
    Jobs,         \* ids of Job rows
    Action,       \* Action[j]: the operation Job j asks for
    Workers,      \* worker threads
    Processes,    \* application processes
    Home,         \* Home[w]: the process whose pool worker w belongs to
    Tokens,       \* claim tokens (uuid4: never equal to one still in use)
    NoToken,      \* SQL NULL in claim_token
    NoJob,        \* no Job
    Lease,        \* JOB_CLAIM_LEASE_SECONDS, in ticks
    Stale,        \* largest age of the timestamp a statement compares with
    MaxAttempts,  \* UPLOAD_RETRY_MAX_ATTEMPTS
    MaxFaults,    \* bound: crashes, shutdowns, outages, failed statements
    Punctual      \* TRUE: a live heartbeat always renews before expiry

Operations == {"upload", "rename", "recover", "free-space", "storage-class"}

ASSUME LeaseAssumption ==
    /\ Action \in [Jobs -> Operations]
    /\ Home \in [Workers -> Processes]
    /\ NoToken \notin Tokens
    /\ NoJob \notin Jobs
    /\ Lease \in Nat /\ Stale \in Nat /\ Stale < Lease
    /\ MaxAttempts \in Nat
    /\ MaxFaults \in Nat
    /\ Punctual \in BOOLEAN

Terminal == {"completed", "failed", "cancelled"}
Held == {"downloading", "uploading", "verifying", "cleaning"}
Waiting == {"queued", "retrying", "restoring", "pending_approval"}
Statuses == Terminal \cup Held \cup Waiting

\* Operations that touch the Source Volume.
LocalOperations == {"upload", "rename", "recover", "free-space"}

\* The held statuses that the handler of an operation writes with set_job.
HandlerStatuses(op) ==
    CASE op = "upload"        -> {"uploading", "verifying"}
      [] op = "rename"        -> {"uploading", "verifying", "cleaning"}
      [] op = "recover"       -> {"downloading", "verifying"}
      [] op = "free-space"    -> {"cleaning"}
      [] op = "storage-class" -> {"uploading"}

\* Mutant: two rows of the matrix are forgotten.
InterruptedStatusesShort(op) ==
    IF op = "storage-class" THEN {} ELSE HandlerStatuses(op) \ {"verifying"}

\* The states that _INTERRUPTED_JOB_SQL hands to restart reconciliation.
InterruptedStatuses(op) ==
    CASE op = "upload"        -> {"uploading", "verifying"}
      [] op = "rename"        -> {"uploading", "verifying", "cleaning"}
      [] op = "recover"       -> {"downloading", "verifying"}
      [] op = "free-space"    -> {"cleaning"}
      [] op = "storage-class" -> {"uploading"}

\* What restart reconciliation may decide for an interrupted Job.
ReconcileOutcomes(op) ==
    IF op \in {"upload", "rename"} THEN {"queued"}
    ELSE {"queued", "completed", "failed"}

\* The statuses from which _process_claimed_job runs a handler.
RunnableStatuses(op) ==
    CASE op = "upload"                      -> {"queued", "retrying"}
      [] op \in {"rename", "free-space"}    -> {"queued"}
      [] op \in {"recover", "storage-class"} ->
                                     {"queued", "retrying", "restoring"}

VARIABLES
    jobs,        \* the jobs table
    run,         \* what each worker thread is doing
    sched,       \* where each process's scheduler pass is
    cancelFlags, \* cancelled_jobs of each process
    cancelling,  \* the cancel request a process has open, or NoJob
    approving,   \* ids an open approval request has selected
    stopping,    \* shutdown_state.requested of each process
    faults       \* how many of those faults have happened

vars == <<jobs, run, sched, cancelFlags, cancelling, approving, stopping,
          faults>>

Ages == 0..Stale

\* left: claim_expires_at minus now; wait: 1 until retry_after or the next
\* restore poll is due; approved: approved_at is set.
Row == [status: Statuses, token: Tokens \cup {NoToken}, left: (-Stale)..Lease,
        retries: 0..MaxAttempts, wait: 0..1, approved: BOOLEAN]

Idle == [pc |-> "idle", job |-> NoJob, token |-> NoToken, seen |-> "queued",
         retries |-> 0, approved |-> FALSE, lost |-> FALSE]

\* seen, retries and approved are the copies of the row that the thread works
\* from: the status loaded at dispatch, the others as old as the listing.
Thread == [pc: {"idle", "claimed", "working"}, job: Jobs \cup {NoJob},
           token: Tokens \cup {NoToken}, seen: Statuses,
           retries: 0..MaxAttempts, approved: BOOLEAN, lost: BOOLEAN]

\* todo: interrupted Jobs selected and not yet reconciled.
\* listed: the candidate rows read, with retry_count and approved_at.
Candidate == [job: Jobs, retries: 0..MaxAttempts, approved: BOOLEAN]

Scheduler == [pc: {"idle", "reconcile", "claim"}, todo: SUBSET Jobs,
              listed: SUBSET Candidate]

NewPass == [pc |-> "idle", todo |-> {}, listed |-> {}]

TypeOK ==
    /\ jobs \in [Jobs -> Row]
    /\ run \in [Workers -> Thread]
    /\ sched \in [Processes -> Scheduler]
    /\ cancelFlags \in [Processes -> SUBSET Jobs]
    /\ cancelling \in [Processes -> Jobs \cup {NoJob}]
    /\ approving \in [Processes -> SUBSET Jobs]
    /\ stopping \in [Processes -> BOOLEAN]
    /\ faults \in 0..MaxFaults

Init ==
    /\ jobs = [j \in Jobs |-> [status |-> "queued", token |-> NoToken,
                               left |-> -Stale, retries |-> 0, wait |-> 0,
                               approved |-> FALSE]]
    /\ run = [w \in Workers |-> Idle]
    /\ sched = [p \in Processes |-> NewPass]
    /\ cancelFlags = [p \in Processes |-> {}]
    /\ cancelling = [p \in Processes |-> NoJob]
    /\ approving = [p \in Processes |-> {}]
    /\ stopping = [p \in Processes |-> FALSE]
    /\ faults = 0

-----------------------------------------------------------------------------
(* Predicates of the SQL statements.                                       *)

IsTerminal(j) == jobs[j].status \in Terminal

\* Mutant: the timestamp lies in the future.
ClaimStaleEarly(j, age) ==
    \/ jobs[j].token = NoToken
    \/ jobs[j].left - age <= 0

\* claim_token IS NULL OR claim_expires_at <= timestamp.
ClaimStale(j, age) ==
    \/ jobs[j].token = NoToken
    \/ jobs[j].left + age <= 0

\* Mutants: the write does not compare the token, or not the status.
OwnsRowAnyToken(w, age) ==
    LET row == jobs[run[w].job]
    IN  /\ row.token # NoToken
        /\ row.left + age > 0
        /\ row.status \notin Terminal

OwnsRowAnyStatus(w, age) ==
    LET row == jobs[run[w].job]
    IN  /\ row.token = run[w].token
        /\ row.left + age > 0

\* The compare-and-swap condition of every claimed write.
OwnsRow(w, age) ==
    LET row == jobs[run[w].job]
    IN  /\ row.token = run[w].token
        /\ row.left + age > 0
        /\ row.status \notin Terminal

\* Mutants: a live lease does not stop a claim, or any lease stops it.
ClaimableLeased(j, age) ==
    \/ jobs[j].status = "queued"
    \/ jobs[j].status = "retrying" /\ jobs[j].wait = 0
    \/ jobs[j].status = "restoring" /\ jobs[j].wait = 0

ClaimableUnleased(j, age) ==
    ClaimableLeased(j, age) /\ jobs[j].token = NoToken

\* A Job that a scheduler may claim.
Claimable(j, age) ==
    /\ \/ jobs[j].status = "queued"
       \/ jobs[j].status = "retrying" /\ jobs[j].wait = 0
       \/ /\ jobs[j].status = "restoring" /\ jobs[j].wait = 0
          /\ Action[j] \in {"recover", "storage-class"}
    /\ ClaimStale(j, age)

\* A token that nobody holds and no row carries.
FreshToken(tok) ==
    /\ \A w \in Workers : run[w].token # tok
    /\ \A j \in Jobs : jobs[j].token # tok

\* set_job and schedule_upload_retry lock the Vault row that an open cancel
\* request holds FOR UPDATE.
VaultUnlocked == \A p \in Processes : cancelling[p] = NoJob

Busy(w) == run[w].pc # "idle"

-----------------------------------------------------------------------------
(* Effects of one statement on a Job row.                                  *)


Released(row, status) ==
    [row EXCEPT !.status = status, !.token = NoToken, !.left = -Stale,
                !.wait = IF status = "restoring" THEN 1 ELSE row.wait]

Renewed(row, age) == [row EXCEPT !.left = Lease - age]

\* set_job(job, status) by worker w: a no-op unless the claim is still owned.
SetJob(w, status, age) ==
    LET j == run[w].job
    IN  jobs' = IF ~run[w].lost /\ OwnsRow(w, age)
                THEN [jobs EXCEPT ![j] =
                        IF status \in Held
                        THEN [Renewed(@, age) EXCEPT !.status = status]
                        ELSE Released(@, status)]
                ELSE jobs

Stop(w) == run' = [run EXCEPT ![w] = Idle]

-----------------------------------------------------------------------------
(* The scheduler pass of process p: process_jobs_once.                     *)

\* The statement that selects interrupted Jobs whose claim is stale.
ReconcileSelect(p, age) ==
    /\ sched[p].pc = "idle"
    /\ ~stopping[p]
    /\ sched' = [sched EXCEPT ![p].pc = "reconcile",
          ![p].todo = {j \in Jobs :
              /\ jobs[j].status \in InterruptedStatuses(Action[j])
              /\ ClaimStale(j, age)}]
    /\ UNCHANGED <<jobs, run, cancelFlags, cancelling, approving, stopping,
                   faults>>

\* Mutant: the decision is published over a terminal status.
ReconcileOneBlind(p, j, outcome, age) ==
    /\ j \in sched[p].todo
    /\ outcome \in ReconcileOutcomes(Action[j])
    /\ jobs' = IF ClaimStale(j, age)
               THEN [jobs EXCEPT ![j] = Released(@, outcome)]
               ELSE jobs
    /\ sched' = [sched EXCEPT ![p].todo = @ \ {j}]
    /\ UNCHANGED <<run, cancelFlags, cancelling, approving, stopping, faults>>

\* One selected Job is decided and published: only the claim and terminal
\* statuses are checked again, not the status it was selected in.
ReconcileOne(p, j, outcome, age) ==
    /\ j \in sched[p].todo
    /\ outcome \in ReconcileOutcomes(Action[j])
    /\ jobs' = IF ClaimStale(j, age) /\ ~IsTerminal(j)
               THEN [jobs EXCEPT ![j] = Released(@, outcome)]
               ELSE jobs
    /\ sched' = [sched EXCEPT ![p].todo = @ \ {j}]
    /\ UNCHANGED <<run, cancelFlags, cancelling, approving, stopping, faults>>

\* A local operation stays interrupted while its Source Volume is away.
ReconcileSuspended(p, j) ==
    /\ j \in sched[p].todo
    /\ Action[j] \in LocalOperations
    /\ faults < MaxFaults
    /\ faults' = faults + 1
    /\ sched' = [sched EXCEPT ![p].todo = @ \ {j}]
    /\ UNCHANGED <<jobs, run, cancelFlags, cancelling, approving, stopping>>

ListClaimable(p, age) ==
    /\ sched[p].pc = "reconcile"
    /\ sched[p].todo = {}
    /\ sched' = [sched EXCEPT ![p] =
          [pc |-> "claim", todo |-> {},
           listed |-> {[job |-> j, retries |-> jobs[j].retries,
                        approved |-> jobs[j].approved] :
                       j \in {k \in Jobs : Claimable(k, age)}}]]
    /\ UNCHANGED <<jobs, run, cancelFlags, cancelling, approving, stopping,
                   faults>>

\* The conditional UPDATE of claim_job, then dispatch to an idle thread; a
\* process that still runs the Job keeps the new claim without running it.
ClaimJob(p, c, w, tok, age) ==
    /\ sched[p].pc = "claim"
    /\ ~stopping[p]
    /\ c \in sched[p].listed
    /\ Home[w] = p /\ ~Busy(w)
    /\ FreshToken(tok)
    /\ sched' = [sched EXCEPT ![p].listed = @ \ {c}]
    /\ IF Claimable(c.job, age)
       THEN /\ jobs' = [jobs EXCEPT ![c.job] =
                          [Renewed(@, age) EXCEPT !.token = tok]]
            /\ run' = IF \E v \in Workers : Home[v] = p /\ run[v].job = c.job
                      THEN run
                      ELSE [run EXCEPT ![w] =
                             [Idle EXCEPT !.pc = "claimed", !.job = c.job,
                                          !.token = tok,
                                          !.retries = c.retries,
                                          !.approved = c.approved]]
       ELSE UNCHANGED <<jobs, run>>
    /\ UNCHANGED <<cancelFlags, cancelling, approving, stopping, faults>>

\* The pass ends: nothing listed is left, or no slot, or the preflight gate
\* is closed, or shutdown was requested.
EndPass(p) ==
    /\ sched[p].pc = "claim"
    /\ sched' = [sched EXCEPT ![p] = NewPass]
    /\ UNCHANGED <<jobs, run, cancelFlags, cancelling, approving, stopping,
                   faults>>

-----------------------------------------------------------------------------
(* A worker thread: process_job, its heartbeat and the handlers.           *)

\* The head of _process_claimed_job.
Dispatch(w, age) ==
    LET p == Home[w]
        j == run[w].job
        status == jobs[j].status
    IN  /\ run[w].pc = "claimed"
        /\ IF stopping[p] \/ ~OwnsRow(w, age)
           THEN Stop(w) /\ UNCHANGED <<jobs, cancelFlags>>
           ELSE /\ jobs' = [jobs EXCEPT ![j] = Renewed(@, age)]
                /\ cancelFlags' =
                     IF status \in {"queued", "retrying", "restoring"}
                     THEN [cancelFlags EXCEPT ![p] = @ \ {j}]
                     ELSE cancelFlags
                /\ IF status \in RunnableStatuses(Action[j])
                   THEN run' = [run EXCEPT ![w].pc = "working",
                                           ![w].seen = status]
                   ELSE Stop(w)
        /\ UNCHANGED <<sched, cancelling, approving, stopping, faults>>

\* _ClaimLeaseHeartbeat._run: renew, or tell the thread its claim is lost.
Heartbeat(w, age) ==
    /\ Busy(w) /\ ~run[w].lost /\ ~stopping[Home[w]]
    /\ IF OwnsRow(w, age)
       THEN /\ jobs' = [jobs EXCEPT ![run[w].job] = Renewed(@, age)]
            /\ UNCHANGED run
       ELSE /\ run' = [run EXCEPT ![w].lost = TRUE]
            /\ UNCHANGED jobs
    /\ UNCHANGED <<sched, cancelFlags, cancelling, approving, stopping, faults>>

\* A heartbeat whose statement raises, after its retries, gives the claim up.
HeartbeatError(w) ==
    /\ Busy(w) /\ ~run[w].lost /\ ~stopping[Home[w]]
    /\ faults < MaxFaults
    /\ faults' = faults + 1
    /\ run' = [run EXCEPT ![w].lost = TRUE]
    /\ UNCHANGED <<jobs, sched, cancelFlags, cancelling, approving, stopping>>

\* ensure_job_active and ensure_job_claim_owned_in_transaction, with the
\* handlers of the exceptions they raise.
Checkpoint(w, age) ==
    /\ run[w].pc = "working"
    /\ IF stopping[Home[w]]
       THEN Stop(w) /\ UNCHANGED jobs
       ELSE IF run[w].job \in cancelFlags[Home[w]]
       THEN VaultUnlocked /\ SetJob(w, "cancelled", age) /\ Stop(w)
       ELSE IF run[w].lost \/ ~OwnsRow(w, age)
       THEN Stop(w) /\ UNCHANGED jobs
       ELSE /\ jobs' = [jobs EXCEPT ![run[w].job] = Renewed(@, age)]
            /\ UNCHANGED run
    /\ UNCHANGED <<sched, cancelFlags, cancelling, approving, stopping, faults>>

\* A handler moves to a held status; it does not look at set_job's answer.
EnterStatus(w, status, age) ==
    /\ run[w].pc = "working"
    /\ VaultUnlocked
    /\ status \in HandlerStatuses(Action[run[w].job])
    /\ SetJob(w, status, age)
    /\ UNCHANGED <<run, sched, cancelFlags, cancelling, approving, stopping,
                   faults>>

\* set_job_progress renews the lease; its answer is not looked at either.
Progress(w, age) ==
    /\ run[w].pc = "working"
    /\ ~run[w].lost /\ OwnsRow(w, age)
    /\ jobs' = [jobs EXCEPT ![run[w].job] = Renewed(@, age)]
    /\ UNCHANGED <<run, sched, cancelFlags, cancelling, approving, stopping,
                   faults>>

Complete(w, age) ==
    /\ run[w].pc = "working"
    /\ VaultUnlocked
    /\ SetJob(w, "completed", age)
    /\ Stop(w)
    /\ UNCHANGED <<sched, cancelFlags, cancelling, approving, stopping, faults>>

\* The handler has asked S3 for a restore, and polls it later.
AwaitRestore(w, age) ==
    /\ run[w].pc = "working"
    /\ Action[run[w].job] \in {"recover", "storage-class"}
    /\ VaultUnlocked
    /\ SetJob(w, "restoring", age)
    /\ Stop(w)
    /\ UNCHANGED <<sched, cancelFlags, cancelling, approving, stopping, faults>>

\* process_recover holds an unapproved high-impact restore for the Owner; this
\* statement neither locks the Vault nor looks at the lost signal.
HoldForApproval(w, age) ==
    LET j == run[w].job
    IN  /\ run[w].pc = "working"
        /\ Action[j] = "recover"
        /\ ~run[w].approved
        /\ jobs' = IF OwnsRow(w, age)
                   THEN [jobs EXCEPT ![j] = Released(@, "pending_approval")]
                   ELSE jobs
        /\ Stop(w)
        /\ UNCHANGED <<sched, cancelFlags, cancelling, approving, stopping,
                       faults>>

\* Back to the queue: the automatic upload is not ready, the Vault is
\* suspended, or the Source Volume is unavailable.
Requeue(w, age) ==
    /\ run[w].pc = "working"
    /\ Action[run[w].job] \in LocalOperations
    /\ VaultUnlocked
    /\ SetJob(w, "queued", age)
    /\ Stop(w)
    /\ UNCHANGED <<sched, cancelFlags, cancelling, approving, stopping, faults>>

\* S3 is not ready: back to the status the Job was claimed in.
PreflightBlocked(w, age) ==
    /\ run[w].pc = "working"
    /\ VaultUnlocked
    /\ SetJob(w, run[w].seen, age)
    /\ Stop(w)
    /\ UNCHANGED <<sched, cancelFlags, cancelling, approving, stopping, faults>>

\* Mutant: one attempt too many.
RetryLaterOnceMore(w, age) ==
    LET j == run[w].job
        attempt == run[w].retries + 1
    IN  /\ run[w].pc = "working"
        /\ Action[j] \in {"upload", "storage-class"}
        /\ run[w].retries <= MaxAttempts
        /\ VaultUnlocked
        /\ jobs' = IF ~run[w].lost /\ OwnsRow(w, age)
                   THEN [jobs EXCEPT ![j] =
                          [Released(@, "retrying") EXCEPT !.retries = attempt,
                                                          !.wait = 1]]
                   ELSE jobs
        /\ Stop(w)
        /\ UNCHANGED <<sched, cancelFlags, cancelling, approving, stopping,
                       faults>>

\* A transient failure: schedule_upload_retry while attempts are left, counted
\* from the retry_count that was listed.
RetryLater(w, age) ==
    LET j == run[w].job
        attempt == run[w].retries + 1
    IN  /\ run[w].pc = "working"
        /\ Action[j] \in {"upload", "storage-class"}
        /\ attempt <= MaxAttempts
        /\ VaultUnlocked
        /\ jobs' = IF ~run[w].lost /\ OwnsRow(w, age)
                   THEN [jobs EXCEPT ![j] =
                          [Released(@, "retrying") EXCEPT !.retries = attempt,
                                                          !.wait = 1]]
                   ELSE jobs
        /\ Stop(w)
        /\ UNCHANGED <<sched, cancelFlags, cancelling, approving, stopping,
                       faults>>

\* Any other failure, or a transient one with no attempt left.
Fail(w, age) ==
    /\ run[w].pc = "working"
    /\ VaultUnlocked
    /\ SetJob(w, "failed", age)
    /\ Stop(w)
    /\ UNCHANGED <<sched, cancelFlags, cancelling, approving, stopping, faults>>

-----------------------------------------------------------------------------
(* Requests of the Owner.                                                  *)

\* cancel_job_group locks the Vault, reads the open Jobs of the group and
\* signals the threads of its own process, before its UPDATE commits.
CancelBegin(p, j) ==
    /\ VaultUnlocked
    /\ ~IsTerminal(j)
    /\ cancelling' = [cancelling EXCEPT ![p] = j]
    /\ cancelFlags' = [cancelFlags EXCEPT ![p] = @ \cup {j}]
    /\ UNCHANGED <<jobs, run, sched, approving, stopping, faults>>

\* The UPDATE leaves the claim columns as they are.
CancelCommit(p) ==
    LET j == cancelling[p]
    IN  /\ j # NoJob
        /\ jobs' = IF IsTerminal(j) THEN jobs
                   ELSE [jobs EXCEPT ![j].status = "cancelled"]
        /\ cancelling' = [cancelling EXCEPT ![p] = NoJob]
        /\ UNCHANGED <<run, sched, cancelFlags, approving, stopping, faults>>

\* The request fails before its UPDATE: the signal to the threads stays.
CancelFail(p) ==
    /\ cancelling[p] # NoJob
    /\ faults < MaxFaults
    /\ faults' = faults + 1
    /\ cancelling' = [cancelling EXCEPT ![p] = NoJob]
    /\ UNCHANGED <<jobs, run, sched, cancelFlags, approving, stopping>>

\* approve_recover selects the group's waiting Jobs, without a lock ...
ApproveSelect(p) ==
    LET waiting == {j \in Jobs : /\ Action[j] = "recover"
                                 /\ jobs[j].status = "pending_approval"}
    IN  /\ approving[p] = {} /\ waiting # {}
        /\ approving' = [approving EXCEPT ![p] = waiting]
        /\ UNCHANGED <<jobs, run, sched, cancelFlags, cancelling, stopping,
                       faults>>

\* ... and its UPDATE queues them by id, whatever has become of them.
ApproveUpdate(p) ==
    /\ approving[p] # {}
    /\ jobs' = [j \in Jobs |->
                 IF j \in approving[p]
                 THEN [jobs[j] EXCEPT !.status = "queued", !.approved = TRUE]
                 ELSE jobs[j]]
    /\ approving' = [approving EXCEPT ![p] = {}]
    /\ UNCHANGED <<run, sched, cancelFlags, cancelling, stopping, faults>>

-----------------------------------------------------------------------------
(* Time, shutdown and crashes.                                             *)

\* Whether worker w has a heartbeat that keeps its lease alive.
Beating(w) ==
    /\ Busy(w) /\ ~run[w].lost /\ ~stopping[Home[w]]
    /\ jobs[run[w].job].token = run[w].token
    /\ ~IsTerminal(run[w].job)

Tick ==
    /\ \E j \in Jobs : jobs[j].left > -Stale \/ jobs[j].wait = 1
    /\ Punctual => \A w \in Workers : Beating(w) => jobs[run[w].job].left > 1
    /\ jobs' = [j \in Jobs |->
                 [jobs[j] EXCEPT !.left = IF @ > -Stale THEN @ - 1 ELSE @,
                                 !.wait = 0]]
    /\ UNCHANGED <<run, sched, cancelFlags, cancelling, approving, stopping,
                   faults>>

\* ShutdownState.request: heartbeats stop, leases are kept.
RequestShutdown(p) ==
    /\ ~stopping[p]
    /\ faults < MaxFaults
    /\ faults' = faults + 1
    /\ stopping' = [stopping EXCEPT ![p] = TRUE]
    /\ UNCHANGED <<jobs, run, sched, cancelFlags, cancelling, approving>>

\* The memory of process p is gone: its open transactions roll back.
Reboot(p) ==
    /\ run' = [w \in Workers |-> IF Home[w] = p THEN Idle ELSE run[w]]
    /\ sched' = [sched EXCEPT ![p] = NewPass]
    /\ cancelFlags' = [cancelFlags EXCEPT ![p] = {}]
    /\ cancelling' = [cancelling EXCEPT ![p] = NoJob]
    /\ approving' = [approving EXCEPT ![p] = {}]
    /\ stopping' = [stopping EXCEPT ![p] = FALSE]
    /\ UNCHANGED jobs

\* After a requested shutdown, when the pool is drained or the watchdog fires.
Restart(p) ==
    /\ stopping[p]
    /\ Reboot(p)
    /\ UNCHANGED faults

Crash(p) ==
    /\ faults < MaxFaults
    /\ faults' = faults + 1
    /\ Reboot(p)

-----------------------------------------------------------------------------
SchedulerStep(p, age) ==
    \/ ReconcileSelect(p, age)
    \/ \E j \in Jobs, outcome \in Terminal \cup {"queued"} :
          ReconcileOne(p, j, outcome, age)
    \/ ListClaimable(p, age)
    \/ \E c \in sched[p].listed, w \in Workers, tok \in Tokens :
          ClaimJob(p, c, w, tok, age)

WorkerStep(w, age) ==
    \/ Dispatch(w, age)
    \/ Heartbeat(w, age)
    \/ Checkpoint(w, age)
    \/ \E status \in Held : EnterStatus(w, status, age)
    \/ Progress(w, age)
    \/ Complete(w, age)
    \/ AwaitRestore(w, age)
    \/ HoldForApproval(w, age)
    \/ Requeue(w, age)
    \/ PreflightBlocked(w, age)
    \/ RetryLater(w, age)
    \/ Fail(w, age)

ProcessStep(p) ==
    \/ EndPass(p)
    \/ \E j \in Jobs : ReconcileSuspended(p, j)
    \/ \E j \in Jobs : CancelBegin(p, j)
    \/ CancelCommit(p)
    \/ CancelFail(p)
    \/ ApproveSelect(p)
    \/ ApproveUpdate(p)
    \/ RequestShutdown(p)
    \/ Restart(p)
    \/ Crash(p)

Next ==
    \/ \E p \in Processes, age \in Ages : SchedulerStep(p, age)
    \/ \E w \in Workers, age \in Ages : WorkerStep(w, age)
    \/ \E p \in Processes : ProcessStep(p)
    \/ \E w \in Workers : HeartbeatError(w)
    \/ Tick

Spec == Init /\ [][Next]_vars

\* Time passes, schedulers keep polling, an accepted cancel request commits, a
\* stopped process is started again, and a handler that is not interrupted
\* returns.  A Job that is listed again and again is claimed some time: the
\* preflight gate does not stay closed and slots are handed out fairly.
Fairness ==
    /\ WF_vars(Tick)
    /\ \A p \in Processes :
         /\ WF_vars(\E age \in Ages : ReconcileSelect(p, age))
         /\ \A j \in Jobs : WF_vars(\E outcome \in Terminal \cup {"queued"},
                                      age \in Ages :
                                      ReconcileOne(p, j, outcome, age))
         /\ WF_vars(\E age \in Ages : ListClaimable(p, age))
         /\ \A j \in Jobs : SF_vars(\E c \in sched[p].listed, w \in Workers,
                                      tok \in Tokens, age \in Ages :
                                      c.job = j /\ ClaimJob(p, c, w, tok, age))
         /\ WF_vars(EndPass(p))
         /\ WF_vars(CancelCommit(p))
         /\ WF_vars(Restart(p))
    /\ \A w \in Workers :
         /\ WF_vars(\E age \in Ages : Dispatch(w, age))
         /\ WF_vars(\E age \in Ages : Complete(w, age) \/ Fail(w, age))

FairSpec == Spec /\ Fairness

-----------------------------------------------------------------------------
(* Properties.                                                             *)

\* No two threads can both win the compare-and-swap that guards every claimed
\* write (set_job, renew_job_claim, schedule_upload_retry), whatever stale
\* claims, takeovers and aged timestamps there are.
SingleWriter ==
    \A v, w \in Workers, a, b \in Ages :
        /\ Busy(v) /\ Busy(w) /\ v # w
        /\ run[v].job = run[w].job
        => ~(OwnsRow(v, a) /\ OwnsRow(w, b))

\* A finished Job stays finished: no late worker, reconciliation, cancel or
\* claim resurrects it ("a harmless no-op instead of resurrecting the Job").
\* Approval is the exception, so this is for the other operations.
TerminalIsFinal ==
    [][\A j \in Jobs : IsTerminal(j) /\ Action[j] # "recover"
                          => jobs'[j].status = jobs[j].status]_vars

\* A finished recover Job is reopened by nothing but an approval request that
\* selected it earlier, while it was waiting for approval.
ReopenedByApprovalOnly ==
    [][\A j \in Jobs : IsTerminal(j) /\ jobs'[j].status # jobs[j].status
          => /\ jobs'[j].status = "queued"
             /\ \E p \in Processes : j \in approving[p] /\ approving'[p] = {}]_vars

\* A lease that has not run out is given up by nobody but the thread it was
\* given to, which stops in the same step: neither a scheduler of another
\* process nor reconciliation takes it away ("never live ones").
LiveClaimKept ==
    [][\A j \in Jobs :
          /\ jobs[j].token # NoToken /\ jobs[j].left > 0
          /\ jobs'[j].token # jobs[j].token
          => \E w \in Workers : /\ run[w].token = jobs[j].token
                                /\ run'[w].pc = "idle"]_vars

\* When heartbeats are never late, a Job is executed by one thread at a time,
\* apart from threads that know they have lost it or that their process stops.
\* A cancelled Job may still have its thread, until the next checkpoint.
ExclusiveExecution ==
    \A v, w \in Workers :
        /\ Busy(v) /\ Busy(w) /\ v # w
        /\ run[v].job = run[w].job
        => \E x \in {v, w} : run[x].lost \/ stopping[Home[x]]


\* No Job stays in a held status: the thread finishes, or its lease runs out
\* and reconciliation finds the Job (_INTERRUPTED_JOB_SQL names every status a
\* handler can leave behind).
HeldIsTransient ==
    \A j \in Jobs : jobs[j].status \in Held ~> jobs[j].status \notin Held

\* A queued Job is not left behind: it is dispatched to a thread or moves on,
\* also when a crash, a shutdown or a claim without dispatch left it leased.
QueuedIsServed ==
    \A j \in Jobs : jobs[j].status = "queued"
        ~> \/ jobs[j].status # "queued"
           \/ \E w \in Workers : run[w].pc = "working" /\ run[w].job = j
=============================================================================
