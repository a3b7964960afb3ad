--------------------------- MODULE JobLeaseProofs ---------------------------
(* Theorems about JobLease, for all Jobs, workers, processes and bounds. *)
EXTENDS JobLease, TLAPS

\* An idle thread carries nothing; a busy one has a Job and a claim token.
ThreadsOK ==
    \A w \in Workers :
        IF run[w].pc = "idle" THEN run[w] = Idle
        ELSE run[w].job \in Jobs /\ run[w].token \in Tokens

\* What the state must be like for the next step to be well typed.
TypeInv == TypeOK /\ ThreadsOK

\* NULL is not a claim token, ages are naturals, and what is left of a lease is
\* an integer.
LEMMA NullFact == NoToken \notin Tokens
  BY LeaseAssumption

LEMMA AgeFact == \A age \in Ages : age \in Nat
  BY LeaseAssumption DEF Ages

LEMMA LeftFact == Stale \in Nat /\ \A row \in Row : row.left \in Int
  <1>1. Stale \in Nat /\ (-Stale)..Lease \subseteq Int
    BY LeaseAssumption
  <1> QED
    BY <1>1 DEF Row

\* A status that set_job is called with is a status.
LEMMA StatusFacts ==
    /\ Terminal \subseteq Statuses /\ Held \subseteq Statuses
    /\ Waiting \subseteq Statuses
    /\ \A op : ReconcileOutcomes(op) \subseteq Statuses
  BY DEF Terminal, Held, Waiting, Statuses, ReconcileOutcomes

\* The row effects keep a row a row.
LEMMA RenewedType ==
    ASSUME NEW row \in Row, NEW age \in Ages
    PROVE  Renewed(row, age) \in Row
  <1>1. Lease - age \in (-Stale)..Lease
    BY LeaseAssumption DEF Ages
  <1> QED
    BY <1>1 DEF Row, Renewed

\* Giving a claim back keeps a row a row.
LEMMA ReleasedType ==
    ASSUME NEW row \in Row, NEW status \in Statuses
    PROVE  Released(row, status) \in Row
  <1> DEFINE wait == IF status = "restoring" THEN 1 ELSE row.wait
  <1>1. -Stale \in (-Stale)..Lease
    BY LeaseAssumption
  <1>2. wait \in 0..1
    BY DEF Row
  <1>3. Released(row, status) =
          [row EXCEPT !.status = status, !.token = NoToken, !.left = -Stale,
                      !.wait = wait]
    BY DEF Released
  <1> HIDE DEF wait
  <1> QED
    BY <1>1, <1>2, <1>3 DEF Row

\* Changing the status alone keeps a row a row.
LEMMA StatusType ==
    ASSUME NEW row \in Row, NEW status \in Statuses
    PROVE  [row EXCEPT !.status = status] \in Row
  BY DEF Row

\* set_job of a busy thread keeps the jobs table well typed.
LEMMA SetJobType ==
    ASSUME TypeInv, NEW w \in Workers, Busy(w), NEW age \in Ages,
           NEW status \in Statuses, SetJob(w, status, age)
    PROVE  jobs' \in [Jobs -> Row]
  <1>1. run[w].job \in Jobs
    BY DEF TypeInv, ThreadsOK, Busy
  <1>2. jobs[run[w].job] \in Row
    BY <1>1 DEF TypeInv, TypeOK
  <1> QED
    BY <1>1, <1>2, RenewedType, ReleasedType, StatusType
    DEF SetJob, TypeInv, TypeOK

\* A thread that stops is idle and well typed.
LEMMA StopType ==
    ASSUME TypeInv, NEW w \in Workers, Stop(w)
    PROVE  /\ run' \in [Workers -> Thread]
           /\ ThreadsOK'
  <1>1. Idle \in Thread
    BY LeaseAssumption
    DEF Idle, Thread, Statuses, Waiting
  <1> QED
    BY <1>1 DEF Stop, TypeInv, TypeOK, ThreadsOK, Idle

\* A thread that learns that its claim is lost keeps its Job and token.
LEMMA LostType ==
    ASSUME TypeInv, NEW w \in Workers, Busy(w),
           run' = [run EXCEPT ![w].lost = TRUE]
    PROVE  /\ run' \in [Workers -> Thread]
           /\ ThreadsOK'
  <1>0. run[w] \in Thread
    BY DEF TypeInv, TypeOK
  <1>1. [run[w] EXCEPT !.lost = TRUE] \in Thread
    BY <1>0 DEF Thread
  <1>2. run' = [run EXCEPT ![w] = [run[w] EXCEPT !.lost = TRUE]]
    OBVIOUS
  <1>3. run' \in [Workers -> Thread]
    BY <1>1, <1>2 DEF TypeInv, TypeOK
  <1>4. \A v \in Workers : /\ run'[v].pc = run[v].pc
                           /\ run'[v].job = run[v].job
                           /\ run'[v].token = run[v].token
                           /\ v # w => run'[v] = run[v]
    BY <1>2 DEF TypeInv, TypeOK, Thread
  <1> QED
    BY <1>3, <1>4 DEF TypeInv, ThreadsOK, Busy

\* Steps that leave the jobs table and the threads alone.
LEMMA TypeRest ==
    ASSUME TypeInv, UNCHANGED <<jobs, run>>,
           sched' \in [Processes -> Scheduler],
           cancelFlags' \in [Processes -> SUBSET Jobs],
           cancelling' \in [Processes -> Jobs \cup {NoJob}],
           approving' \in [Processes -> SUBSET Jobs],
           stopping' \in [Processes -> BOOLEAN],
           faults' \in 0..MaxFaults
    PROVE  TypeInv'
  BY DEF TypeInv, TypeOK, ThreadsOK

\* Init establishes the type invariant.
LEMMA TypeInit == Init => TypeInv
  <1> SUFFICES ASSUME Init PROVE TypeInv
    OBVIOUS
  <1>1. jobs \in [Jobs -> Row]
    <2>1. -Stale \in (-Stale)..Lease
      BY LeaseAssumption
    <2> QED
      BY <2>1, LeaseAssumption DEF Init, Row, Statuses, Waiting
  <1>2. run \in [Workers -> Thread] /\ ThreadsOK
    <2>1. Idle \in Thread
      BY LeaseAssumption DEF Idle, Thread, Statuses, Waiting
    <2> QED
      BY <2>1 DEF Init, ThreadsOK, Idle
  <1>3. NewPass \in Scheduler
    BY DEF NewPass, Scheduler
  <1>4. sched \in [Processes -> Scheduler]
    BY <1>3 DEF Init
  <1>5. /\ cancelFlags \in [Processes -> SUBSET Jobs]
        /\ cancelling \in [Processes -> Jobs \cup {NoJob}]
        /\ approving \in [Processes -> SUBSET Jobs]
    BY DEF Init
  <1>6. stopping \in [Processes -> BOOLEAN]
    BY Zenon DEF Init
  <1>7. faults \in 0..MaxFaults
    BY LeaseAssumption DEF Init
  <1> QED
    BY <1>1, <1>2, <1>4, <1>5, <1>6, <1>7 DEF TypeInv, TypeOK

\* Changing where a scheduler is, or its selection, keeps it a scheduler.
LEMMA SchedulerType ==
    ASSUME NEW s \in Scheduler, NEW T \in SUBSET Jobs
    PROVE  /\ [s EXCEPT !.todo = T] \in Scheduler
           /\ [s EXCEPT !.pc = "reconcile", !.todo = T] \in Scheduler
  BY DEF Scheduler

\* A scheduler pass keeps the types.
LEMMA TypeScheduler ==
    ASSUME TypeInv, NEW p \in Processes, NEW age \in Ages,
           SchedulerStep(p, age)
    PROVE  TypeInv'
  <1> USE DEF TypeInv
  <1>1. CASE ReconcileSelect(p, age)
    <2> DEFINE T == {j \in Jobs :
                      /\ jobs[j].status \in InterruptedStatuses(Action[j])
                      /\ ClaimStale(j, age)}
    <2>0. T \in SUBSET Jobs
      OBVIOUS
    <2> DEFINE s == [sched[p] EXCEPT !.pc = "reconcile", !.todo = T]
    <2>2. sched \in [Processes -> Scheduler]
      BY DEF TypeOK
    <2>3. sched' = [sched EXCEPT ![p] = s]
      BY <1>1, <2>2 DEF ReconcileSelect
    <2> HIDE DEF T
    <2>4. s \in Scheduler
      BY <2>0, <2>2, SchedulerType
    <2> HIDE DEF s
    <2>1. sched' \in [Processes -> Scheduler]
      BY <2>2, <2>3, <2>4
    <2> QED
      BY <1>1, <2>1, TypeRest DEF ReconcileSelect, TypeOK
  <1>2. CASE \E j \in Jobs, outcome \in Terminal \cup {"queued"} :
               ReconcileOne(p, j, outcome, age)
    <2> PICK j \in Jobs, outcome \in Terminal \cup {"queued"} :
          ReconcileOne(p, j, outcome, age)
      BY <1>2
    <2>1. jobs' \in [Jobs -> Row]
      <3>1. jobs[j] \in Row /\ outcome \in Statuses
        BY StatusFacts DEF TypeOK, Statuses, Waiting
      <3> QED
        BY <3>1, ReleasedType DEF ReconcileOne, TypeOK
    <2>2. sched' \in [Processes -> Scheduler]
      <3> DEFINE s == [sched[p] EXCEPT !.todo = @ \ {j}]
      <3>1. sched \in [Processes -> Scheduler]
        BY DEF TypeOK
      <3>2. sched[p].todo \ {j} \in SUBSET Jobs
        BY <3>1 DEF Scheduler
      <3>3. s \in Scheduler
        BY <3>1, <3>2, SchedulerType
      <3>4. sched' = [sched EXCEPT ![p] = s]
        BY <3>1 DEF ReconcileOne
      <3> HIDE DEF s
      <3> QED
        BY <3>1, <3>3, <3>4
    <2> QED
      BY <2>1, <2>2 DEF ReconcileOne, TypeOK, ThreadsOK
  <1>3. CASE ListClaimable(p, age)
    <2> DEFINE L == {[job |-> j, retries |-> jobs[j].retries,
                      approved |-> jobs[j].approved] :
                     j \in {k \in Jobs : Claimable(k, age)}}
    <2>1. L \in SUBSET Candidate
      BY DEF TypeOK, Row, Candidate
    <2>2. sched' = [sched EXCEPT ![p] = [pc |-> "claim",
                                         todo |-> {},
                                         listed |-> L]]
      BY <1>3 DEF ListClaimable
    <2> HIDE DEF L
    <2>3. sched' \in [Processes -> Scheduler]
      BY <2>1, <2>2 DEF TypeOK, Scheduler
    <2> QED
      BY <1>3, <2>3, TypeRest DEF ListClaimable, TypeOK
  <1>4. CASE \E c \in sched[p].listed, w \in Workers, tok \in Tokens :
               ClaimJob(p, c, w, tok, age)
    <2> PICK c \in sched[p].listed, w \in Workers, tok \in Tokens :
          ClaimJob(p, c, w, tok, age)
      BY <1>4
    <2>1. c \in Candidate
      BY DEF TypeOK, Scheduler
    <2>2. sched' \in [Processes -> Scheduler]
      BY DEF ClaimJob, TypeOK, Scheduler
    <2>3. jobs' \in [Jobs -> Row]
      <3>1. ASSUME NEW row \in Row PROVE [row EXCEPT !.token = tok] \in Row
        BY DEF Row
      <3> QED
        BY <2>1, <3>1, RenewedType DEF ClaimJob, TypeOK, Candidate
    <2>4. run' \in [Workers -> Thread] /\ ThreadsOK'
      <3> DEFINE r == [Idle EXCEPT !.pc = "claimed", !.job = c.job,
                                   !.token = tok, !.retries = c.retries,
                                   !.approved = c.approved]
      <3>1. r \in Thread /\ r.job \in Jobs /\ r.token \in Tokens
              /\ r.pc = "claimed"
        BY <2>1 DEF Idle, Thread, Candidate, Statuses, Waiting
      <3>2. run' = run \/ run' = [run EXCEPT ![w] = r]
        BY DEF ClaimJob
      <3> HIDE DEF r
      <3> QED
        BY <3>1, <3>2 DEF TypeOK, ThreadsOK
    <2> QED
      BY <2>2, <2>3, <2>4 DEF ClaimJob, TypeOK
  <1> QED
    BY <1>1, <1>2, <1>3, <1>4 DEF SchedulerStep

\* A thread keeps the types.
LEMMA TypeWorker ==
    ASSUME TypeInv, NEW w \in Workers, NEW age \in Ages, WorkerStep(w, age)
    PROVE  TypeInv'
  <1> USE DEF TypeInv
  <1> DEFINE j == run[w].job
  <1>b. Busy(w)
    BY DEF WorkerStep, Busy, Dispatch, Heartbeat, Checkpoint, EnterStatus,
           Progress, Complete, AwaitRestore, HoldForApproval, Requeue,
           PreflightBlocked, RetryLater, Fail
  <1>j. j \in Jobs /\ jobs[j] \in Row /\ run[w] \in Thread
    BY <1>b DEF ThreadsOK, TypeOK, Busy
  <1>r. [jobs EXCEPT ![j] = Renewed(@, age)] \in [Jobs -> Row]
    BY <1>j, RenewedType DEF TypeOK
  <1>s. ASSUME NEW status \in Statuses
        PROVE  [jobs EXCEPT ![j] = Released(@, status)] \in [Jobs -> Row]
    BY <1>j, ReleasedType DEF TypeOK
  <1> HIDE DEF j
  <1>1. CASE Dispatch(w, age)
    <2>1. jobs' \in [Jobs -> Row]
      BY <1>1, <1>r DEF Dispatch, TypeOK, j
    <2>2. run' \in [Workers -> Thread] /\ ThreadsOK'
      <3>1. CASE Stop(w)
        BY <3>1, StopType
      <3>2. CASE run' = [run EXCEPT ![w].pc = "working",
                                    ![w].seen = jobs[j].status]
        <4>1. jobs[j].status \in Statuses
          BY <1>j DEF Row
        <4> QED
          BY <3>2, <4>1, <1>j, <1>b DEF TypeOK, Thread, ThreadsOK, Busy
      <3> QED
        BY <1>1, <3>1, <3>2 DEF Dispatch, j
    <2>3. cancelFlags' \in [Processes -> SUBSET Jobs]
      BY <1>1 DEF Dispatch, TypeOK
    <2> QED
      BY <1>1, <2>1, <2>2, <2>3 DEF Dispatch, TypeOK
  <1>2. CASE Heartbeat(w, age)
    <2>1. jobs' \in [Jobs -> Row]
      BY <1>2, <1>r DEF Heartbeat, TypeOK, j
    <2>2. run' \in [Workers -> Thread] /\ ThreadsOK'
      <3>1. UNCHANGED run \/ run' = [run EXCEPT ![w].lost = TRUE]
        BY <1>2 DEF Heartbeat
      <3> QED
        BY <3>1, <1>b, LostType DEF TypeOK, ThreadsOK
    <2> QED
      BY <1>2, <2>1, <2>2 DEF Heartbeat, TypeOK
  <1>3. CASE Checkpoint(w, age)
    <2>1. jobs' \in [Jobs -> Row]
      <3>1. CASE SetJob(w, "cancelled", age)
        BY <1>b, <3>1, SetJobType DEF Statuses, Terminal
      <3> QED
        BY <1>3, <1>r, <3>1 DEF Checkpoint, TypeOK, j
    <2>2. run' \in [Workers -> Thread] /\ ThreadsOK'
      <3>1. Stop(w) \/ UNCHANGED run
        BY <1>3 DEF Checkpoint
      <3> QED
        BY <3>1, StopType DEF TypeOK, ThreadsOK
    <2> QED
      BY <1>3, <2>1, <2>2 DEF Checkpoint, TypeOK
  <1>4. CASE \E status \in Held : EnterStatus(w, status, age)
    <2> PICK status \in Held : EnterStatus(w, status, age)
      BY <1>4
    <2>1. jobs' \in [Jobs -> Row]
      BY <1>b, SetJobType, StatusFacts DEF EnterStatus
    <2> QED
      BY <2>1 DEF EnterStatus, TypeOK, ThreadsOK
  <1>5. CASE Progress(w, age)
    BY <1>5, <1>r DEF Progress, TypeOK, ThreadsOK, j
  <1>6. ASSUME NEW status \in Statuses, SetJob(w, status, age), Stop(w),
               UNCHANGED <<sched, cancelFlags, cancelling, approving,
                           stopping, faults>>
        PROVE  TypeInv'
    <2>1. jobs' \in [Jobs -> Row]
      BY <1>b, <1>6, SetJobType
    <2> QED
      BY <1>6, <2>1, StopType DEF TypeOK
  <1>7. CASE Complete(w, age)
    BY <1>6, <1>7 DEF Complete, Statuses, Terminal
  <1>8. CASE AwaitRestore(w, age)
    BY <1>6, <1>8 DEF AwaitRestore, Statuses, Waiting
  <1>9. CASE HoldForApproval(w, age)
    <2>1. jobs' \in [Jobs -> Row]
      BY <1>9, <1>s DEF HoldForApproval, Statuses, Waiting, TypeOK, j
    <2> QED
      BY <1>9, <2>1, StopType DEF HoldForApproval, TypeOK
  <1>10. CASE Requeue(w, age)
    BY <1>6, <1>10 DEF Requeue, Statuses, Waiting
  <1>11. CASE PreflightBlocked(w, age)
    BY <1>6, <1>11, <1>j DEF PreflightBlocked, Thread
  <1>12. CASE RetryLater(w, age)
    <2>1. jobs' \in [Jobs -> Row]
      <3> DEFINE row == Released(jobs[j], "retrying")
                 n == run[w].retries + 1
      <3>1. row \in Row
        BY <1>j, ReleasedType DEF Statuses, Waiting
      <3>2. n \in 0..MaxAttempts
        BY <1>12, <1>j, LeaseAssumption DEF RetryLater, Thread
      <3>3. [row EXCEPT !.retries = n, !.wait = 1] \in Row
        <4> HIDE DEF row, n
        <4>1. 1 \in 0..1
          OBVIOUS
        <4> QED
          BY <3>1, <3>2, <4>1 DEF Row
      <3>4. \/ jobs' = [jobs EXCEPT ![j] =
                           [row EXCEPT !.retries = n, !.wait = 1]]
            \/ jobs' = jobs
        BY <1>12 DEF RetryLater, j
      <3> HIDE DEF row, n
      <3> QED
        BY <3>3, <3>4, <1>j DEF TypeOK
    <2> QED
      BY <1>12, <2>1, StopType DEF RetryLater, TypeOK
  <1>13. CASE Fail(w, age)
    BY <1>6, <1>13 DEF Fail, Statuses, Terminal
  <1> QED
    BY <1>1, <1>2, <1>3, <1>4, <1>5, <1>7, <1>8, <1>9, <1>10, <1>11, <1>12,
       <1>13
    DEF WorkerStep

\* A reboot keeps the types.
LEMMA TypeReboot ==
    ASSUME TypeInv, NEW p \in Processes, Reboot(p), faults' \in 0..MaxFaults
    PROVE  TypeInv'
  <1>1. Idle \in Thread
    BY LeaseAssumption DEF Idle, Thread, Statuses, Waiting
  <1>2. run' \in [Workers -> Thread] /\ ThreadsOK'
    BY <1>1 DEF Reboot, TypeInv, TypeOK, ThreadsOK, Idle
  <1>3. NewPass \in Scheduler
    BY DEF NewPass, Scheduler
  <1>4. stopping' \in [Processes -> BOOLEAN]
    BY DEF Reboot, TypeInv, TypeOK
  <1> QED
    BY <1>2, <1>3, <1>4 DEF Reboot, TypeInv, TypeOK

\* Requests, shutdowns, crashes, lost heartbeats and time keep the types.
LEMMA TypeProcess ==
    ASSUME TypeInv, NEW p \in Processes, ProcessStep(p)
    PROVE  TypeInv'
  <1> USE DEF TypeInv
  <1>f. ASSUME faults < MaxFaults, faults' = faults + 1
        PROVE  faults' \in 0..MaxFaults
    BY <1>f, LeaseAssumption DEF TypeOK
  <1>1. CASE EndPass(p)
    <2>1. NewPass \in Scheduler
      BY DEF NewPass, Scheduler
    <2> QED
      BY <1>1, <2>1, TypeRest DEF EndPass, TypeOK
  <1>2. CASE \E j \in Jobs : ReconcileSuspended(p, j)
    <2>1. sched' \in [Processes -> Scheduler]
      BY <1>2 DEF ReconcileSuspended, TypeOK, Scheduler
    <2> QED
      BY <1>2, <1>f, <2>1, TypeRest DEF ReconcileSuspended, TypeOK
  <1>3. CASE \E j \in Jobs : CancelBegin(p, j)
    BY <1>3, TypeRest DEF CancelBegin, TypeOK
  <1>4. CASE CancelCommit(p)
    <2> DEFINE j == cancelling[p]
    <2>1. j \in Jobs /\ jobs[j] \in Row
      BY <1>4 DEF CancelCommit, TypeOK
    <2>2. [jobs[j] EXCEPT !.status = "cancelled"] \in Row
      BY <2>1, StatusType DEF Statuses, Terminal
    <2>3. \/ jobs' = jobs
          \/ jobs' = [jobs EXCEPT ![j] =
                         [jobs[j] EXCEPT !.status = "cancelled"]]
      BY <1>4 DEF CancelCommit
    <2>4. jobs' \in [Jobs -> Row]
      BY <2>1, <2>2, <2>3 DEF TypeOK
    <2> QED
      BY <1>4, <2>4 DEF CancelCommit, TypeOK, ThreadsOK
  <1>5. CASE CancelFail(p)
    BY <1>5, <1>f, TypeRest DEF CancelFail, TypeOK
  <1>6. CASE ApproveSelect(p)
    BY <1>6, TypeRest DEF ApproveSelect, TypeOK
  <1>7. CASE ApproveUpdate(p)
    <2>0. ASSUME NEW row \in Row
          PROVE  [row EXCEPT !.status = "queued", !.approved = TRUE] \in Row
      BY DEF Row, Statuses, Waiting
    <2>1. \A j \in Jobs : [jobs[j] EXCEPT !.status = "queued",
                                         !.approved = TRUE] \in Row
      BY <2>0 DEF TypeOK
    <2>2. jobs' \in [Jobs -> Row]
      BY <1>7, <2>1 DEF ApproveUpdate, TypeOK
    <2> QED
      BY <1>7, <2>2 DEF ApproveUpdate, TypeOK, ThreadsOK
  <1>8. CASE RequestShutdown(p)
    BY <1>8, <1>f, TypeRest DEF RequestShutdown, TypeOK
  <1>9. CASE Restart(p)
    BY <1>9, TypeReboot DEF Restart, TypeOK
  <1>10. CASE Crash(p)
    BY <1>10, <1>f, TypeReboot DEF Crash
  <1> QED
    BY <1>1, <1>2, <1>3, <1>4, <1>5, <1>6, <1>7, <1>8, <1>9, <1>10
    DEF ProcessStep

\* A heartbeat that fails keeps the types.
LEMMA TypeHeartbeatError ==
    ASSUME TypeInv, NEW w \in Workers, HeartbeatError(w)
    PROVE  TypeInv'
  <1>1. run' \in [Workers -> Thread] /\ ThreadsOK'
    BY LostType DEF HeartbeatError
  <1>2. faults' \in 0..MaxFaults
    BY LeaseAssumption DEF HeartbeatError, TypeInv, TypeOK
  <1> QED
    BY <1>1, <1>2 DEF HeartbeatError, TypeInv, TypeOK

\* Time keeps the types.
LEMMA TypeTick ==
    ASSUME TypeInv, Tick
    PROVE  TypeInv'
  <1> DEFINE left(j) == IF jobs[j].left > -Stale THEN jobs[j].left - 1
                        ELSE jobs[j].left
  <1>1. \A j \in Jobs : left(j) \in (-Stale)..Lease
    BY LeaseAssumption DEF TypeInv, TypeOK, Row
  <1>2. jobs' = [j \in Jobs |->
                   [jobs[j] EXCEPT !.left = left(j), !.wait = 0]]
    BY DEF Tick
  <1>3. 0 \in 0..1
    OBVIOUS
  <1> HIDE DEF left
  <1>4. ASSUME NEW row \in Row, NEW n \in (-Stale)..Lease
        PROVE  [row EXCEPT !.left = n, !.wait = 0] \in Row
    BY <1>3 DEF Row
  <1>5. jobs' \in [Jobs -> Row]
    BY <1>1, <1>2, <1>4 DEF TypeInv, TypeOK
  <1> QED
    BY <1>5 DEF Tick, TypeInv, TypeOK, ThreadsOK

\* The type invariant is inductive.
LEMMA TypeStep == TypeInv /\ [Next]_vars => TypeInv'
  <1>1. ASSUME TypeInv, UNCHANGED vars PROVE TypeInv'
    BY <1>1 DEF vars, TypeInv, TypeOK, ThreadsOK
  <1> QED
    BY <1>1, TypeScheduler, TypeWorker, TypeProcess, TypeHeartbeatError,
       TypeTick
    DEF Next

\* Every reachable state is well typed: in particular a lease never exceeds
\* JOB_CLAIM_LEASE_SECONDS and retry_count never exceeds the budget that
\* _process_claimed_job compares with.
THEOREM TypeCorrect == Spec => []TypeOK
  <1>1. TypeInv => TypeOK
    BY DEF TypeInv
  <1> QED
    BY <1>1, TypeInit, TypeStep, PTL DEF Spec

-----------------------------------------------------------------------------
(* One writer per Job.                                                     *)

\* Claim tokens of busy threads are pairwise different.
TokensUnique ==
    \A v, w \in Workers : v # w /\ Busy(v) /\ Busy(w)
                            => run[v].token # run[w].token

\* A thread that has lost its claim does not forget it.
LostKept(v) == run[v].lost => run'[v].lost

\* What a step other than a claim does to the threads.
ThreadsKept ==
    \A v \in Workers : Busy(v)' => /\ Busy(v)
                                  /\ run'[v].token = run[v].token
                                  /\ run'[v].job = run[v].job
                                  /\ LostKept(v)

\* A thread that stops, loses its claim or starts working starts no other.
LEMMA ThreadsKeptExcept ==
    ASSUME TypeInv, NEW w \in Workers,
           \/ UNCHANGED run
           \/ Stop(w)
           \/ Busy(w) /\ run' = [run EXCEPT ![w].lost = TRUE]
           \/ /\ Busy(w)
              /\ \E status : run' = [run EXCEPT ![w].pc = "working",
                                               ![w].seen = status]
    PROVE  ThreadsKept
  BY DEF ThreadsKept, LostKept, TypeInv, TypeOK, Thread, Stop, Idle, Busy

\* The steps that start no thread, in terms of ThreadsKept.
LEMMA ThreadStep ==
    ASSUME TypeInv, [Next]_vars
    PROVE  \/ ThreadsKept
           \/ \E p \in Processes, age \in Ages :
                 \E c \in sched[p].listed, w \in Workers, tok \in Tokens :
                   ClaimJob(p, c, w, tok, age)
  <1>0. ASSUME UNCHANGED run PROVE ThreadsKept
    BY <1>0 DEF ThreadsKept, LostKept, Busy
  <1>1. CASE UNCHANGED vars
    BY <1>0, <1>1 DEF vars
  <1>2. CASE \E p \in Processes, age \in Ages : SchedulerStep(p, age)
    <2> PICK p \in Processes, age \in Ages : SchedulerStep(p, age)
      BY <1>2
    <2> QED
      BY <1>0 DEF SchedulerStep, ReconcileSelect, ReconcileOne, ListClaimable
  <1>3. CASE \E w \in Workers, age \in Ages : WorkerStep(w, age)
    <2> PICK w \in Workers, age \in Ages : WorkerStep(w, age)
      BY <1>3
    <2>1. CASE Dispatch(w, age)
      BY <2>1, ThreadsKeptExcept DEF Dispatch, Busy
    <2>2. CASE Heartbeat(w, age)
      BY <2>2, ThreadsKeptExcept DEF Heartbeat
    <2>3. CASE Checkpoint(w, age)
      BY <2>3, ThreadsKeptExcept DEF Checkpoint
    <2> QED
      BY <1>0, <2>1, <2>2, <2>3, ThreadsKeptExcept
      DEF WorkerStep, EnterStatus, Progress, Complete, AwaitRestore,
          HoldForApproval, Requeue, PreflightBlocked, RetryLater, Fail
  <1>4. CASE \E p \in Processes : ProcessStep(p)
    <2> PICK p \in Processes : ProcessStep(p)
      BY <1>4
    <2>1. ASSUME Reboot(p) PROVE ThreadsKept
      BY <2>1 DEF Reboot, ThreadsKept, LostKept, TypeInv, TypeOK, Idle, Busy
    <2> QED
      BY <1>0, <2>1
      DEF ProcessStep, EndPass, ReconcileSuspended, CancelBegin, CancelCommit,
          CancelFail, ApproveSelect, ApproveUpdate, RequestShutdown, Restart,
          Crash
  <1>5. CASE \E w \in Workers : HeartbeatError(w)
    BY <1>5, ThreadsKeptExcept DEF HeartbeatError
  <1>6. CASE Tick
    BY <1>0, <1>6 DEF Tick
  <1> QED
    BY <1>1, <1>2, <1>3, <1>4, <1>5, <1>6 DEF Next

\* A claim starts at most one thread, an idle one, with the fresh token.
OneStarts(c, w, tok, age) ==
    /\ c.job \in Jobs /\ ~Busy(w)
    /\ \A v \in Workers \ {w} : run'[v] = run[v]
    /\ \/ run' = run
       \/ /\ Claimable(c.job, age)
          /\ run'[w].token = tok /\ run'[w].job = c.job
          /\ run'[w].lost = FALSE

\* A claim gives its thread a token nobody holds.
LEMMA ClaimThreads ==
    ASSUME TypeInv, NEW p \in Processes, NEW age \in Ages,
           NEW c \in sched[p].listed, NEW w \in Workers, NEW tok \in Tokens,
           ClaimJob(p, c, w, tok, age)
    PROVE  OneStarts(c, w, tok, age)
  <1> DEFINE r == [Idle EXCEPT !.pc = "claimed", !.job = c.job,
                               !.token = tok, !.retries = c.retries,
                               !.approved = c.approved]
  <1>1. c.job \in Jobs
    BY DEF TypeInv, TypeOK, Scheduler, Candidate
  <1>2. r.token = tok /\ r.job = c.job /\ r.lost = FALSE
    BY DEF Idle
  <1>3. \/ run' = run
        \/ /\ Claimable(c.job, age)
           /\ run' = [run EXCEPT ![w] = r]
    BY DEF ClaimJob
  <1>4. ~Busy(w)
    BY DEF ClaimJob
  <1> HIDE DEF r
  <1> QED
    BY <1>1, <1>2, <1>3, <1>4 DEF TypeInv, TypeOK, OneStarts

\* Every step keeps tokens unique.
LEMMA UniqueStep ==
    ASSUME TypeInv, TokensUnique, [Next]_vars
    PROVE  TokensUnique'
  <1>1. CASE ThreadsKept
    BY <1>1 DEF TokensUnique, ThreadsKept, Busy
  <1>2. ASSUME NEW p \in Processes, NEW age \in Ages,
               NEW c \in sched[p].listed, NEW w \in Workers,
               NEW tok \in Tokens, ClaimJob(p, c, w, tok, age)
        PROVE  TokensUnique'
    <2>1. \A v \in Workers : run[v].token # tok
      BY <1>2 DEF ClaimJob, FreshToken
    <2>2. OneStarts(c, w, tok, age)
      BY <1>2, ClaimThreads
    <2>3. ASSUME NEW u \in Workers, NEW v \in Workers, u # v,
                 Busy(u)', Busy(v)'
          PROVE  run'[u].token # run'[v].token
      <3>1. CASE run' = run
        BY <2>3, <3>1 DEF TokensUnique, Busy
      <3>2. CASE run'[w].token = tok
        BY <2>1, <2>2, <2>3, <3>2 DEF TokensUnique, Busy, OneStarts
      <3> QED
        BY <2>2, <3>1, <3>2 DEF OneStarts
    <2> QED
      BY <2>3 DEF TokensUnique
  <1> QED
    BY <1>1, <1>2, ThreadStep

\* For any number of Jobs, threads and processes, whatever leases expire and
\* are taken over: at most one thread can win set_job, renew_job_claim or
\* schedule_upload_retry on a Job at a time.
THEOREM OneWriter == Spec => []SingleWriter
  <1>1. Init => TokensUnique
    BY DEF Init, TokensUnique, Busy, Idle
  <1>2. TypeInv /\ TokensUnique /\ [Next]_vars => TokensUnique'
    BY UniqueStep
  <1>3. TokensUnique => SingleWriter
    BY DEF TokensUnique, SingleWriter, OwnsRow
  <1> QED
    BY <1>1, <1>2, <1>3, TypeInit, TypeStep, PTL DEF Spec

-----------------------------------------------------------------------------
(* What a step may not do to a Job row.                                    *)

\* The two action properties, for one step.
TerminalKept ==
    \A j \in Jobs : IsTerminal(j) /\ Action[j] # "recover"
                       => jobs'[j].status = jobs[j].status

LiveKept ==
    \A j \in Jobs :
        /\ jobs[j].token # NoToken /\ jobs[j].left > 0
        /\ jobs'[j].token # jobs[j].token
        => \E w \in Workers : /\ run[w].token = jobs[j].token
                              /\ run'[w].pc = "idle"

\* A claim that stays keeps its time, or is renewed, unless time passes.
LeftKept ==
    \A j \in Jobs :
        jobs'[j].token = NoToken \/ jobs'[j].left \in {n \in Int : n > 0}
        \/ jobs'[j].left = jobs[j].left

RowsKept == TerminalKept /\ LiveKept /\ (Tick \/ LeftKept)

\* Open approvals hold recover Jobs only.
ApprovalsOK ==
    \A p \in Processes : \A j \in approving[p] : Action[j] = "recover"

\* Opaque names for the shapes of a step, so that lemmas are easy to match.
SetRow(k, r) == jobs' = [jobs EXCEPT ![k] = r]

SameApprovals == UNCHANGED approving

DropApprovals(p) == approving' = [approving EXCEPT ![p] = {}]

\* Approval requests select recover Jobs only, in every step.
LEMMA ApprovalsStep ==
    ASSUME TypeInv, ApprovalsOK, [Next]_vars
    PROVE  ApprovalsOK'
  <1>1. SameApprovals => ApprovalsOK'
    BY DEF ApprovalsOK, SameApprovals
  <1>2. ASSUME NEW p \in Processes, ApproveSelect(p) PROVE ApprovalsOK'
    BY <1>2 DEF ApproveSelect, ApprovalsOK, TypeInv, TypeOK
  <1>3. ASSUME NEW p \in Processes, DropApprovals(p) PROVE ApprovalsOK'
    BY <1>3 DEF ApprovalsOK, TypeInv, TypeOK, DropApprovals
  <1>4. ASSUME NEW p \in Processes, NEW age \in Ages, SchedulerStep(p, age)
        PROVE  SameApprovals
    <2> USE DEF SameApprovals
    <2>1. CASE ReconcileSelect(p, age)
      BY <2>1 DEF ReconcileSelect
    <2>2. ASSUME NEW j, NEW outcome, ReconcileOne(p, j, outcome, age)
          PROVE  SameApprovals
      BY <2>2 DEF ReconcileOne
    <2>3. CASE ListClaimable(p, age)
      BY <2>3 DEF ListClaimable
    <2>4. ASSUME NEW c, NEW w, NEW tok, ClaimJob(p, c, w, tok, age)
          PROVE  SameApprovals
      BY <2>4 DEF ClaimJob
    <2> HIDE DEF SameApprovals
    <2> QED
      BY <1>4, <2>1, <2>2, <2>3, <2>4 DEF SchedulerStep
  <1>5. ASSUME NEW w \in Workers, NEW age \in Ages, WorkerStep(w, age)
        PROVE  SameApprovals
    <2> USE DEF SameApprovals
    <2>1. CASE Dispatch(w, age)
      BY <2>1 DEF Dispatch
    <2>2. CASE Heartbeat(w, age)
      BY <2>2 DEF Heartbeat
    <2>3. CASE Checkpoint(w, age)
      BY <2>3 DEF Checkpoint
    <2> QED
      BY <1>5, <2>1, <2>2, <2>3
      DEF WorkerStep, EnterStatus, Progress, Complete, AwaitRestore,
          HoldForApproval, Requeue, PreflightBlocked, RetryLater, Fail
  <1>6. ASSUME NEW p \in Processes, ProcessStep(p) PROVE ApprovalsOK'
    <2>1. EndPass(p) \/ CancelCommit(p) \/ CancelFail(p) \/ RequestShutdown(p)
            => SameApprovals
      BY DEF EndPass, CancelCommit, CancelFail, RequestShutdown, SameApprovals
    <2>2. ASSUME NEW j, ReconcileSuspended(p, j) \/ CancelBegin(p, j)
          PROVE  SameApprovals
      BY <2>2 DEF ReconcileSuspended, CancelBegin, SameApprovals
    <2>3. ApproveUpdate(p) => DropApprovals(p)
      BY DEF ApproveUpdate, DropApprovals
    <2>4. Restart(p) \/ Crash(p) => DropApprovals(p)
      BY DEF Restart, Crash, Reboot, DropApprovals
    <2> QED
      BY <1>1, <1>2, <1>3, <1>6, <2>1, <2>2, <2>3, <2>4 DEF ProcessStep
  <1>7. ASSUME NEW w \in Workers, HeartbeatError(w) PROVE SameApprovals
    BY <1>7 DEF HeartbeatError, SameApprovals
  <1>8. Tick => SameApprovals
    BY DEF Tick, SameApprovals
  <1>9. UNCHANGED vars => SameApprovals
    BY DEF vars, SameApprovals
  <1>10. CASE Next
    BY <1>1, <1>4, <1>5, <1>6, <1>7, <1>8, <1>10 DEF Next
  <1> QED
    BY <1>1, <1>9, <1>10

\* A step that leaves the jobs table alone.
LEMMA NoRowStep ==
    ASSUME UNCHANGED jobs
    PROVE  RowsKept
  BY DEF RowsKept, TerminalKept, LiveKept, LeftKept

\* What an update of row k must respect: the claim is stale, or its thread
\* stops.
MayLose(k, age) ==
    \/ ClaimStale(k, age)
    \/ \E w \in Workers : /\ run[w].token = jobs[k].token
                          /\ run'[w].pc = "idle"

TimeKept(k, r) == \/ r.token = NoToken
                  \/ r.left \in {n \in Int : n > 0}
                  \/ r.left = jobs[k].left

\* A renewal sets the lease and nothing else.
LEMMA RenewedTime ==
    ASSUME NEW row \in Row, NEW age \in Ages
    PROVE  /\ Renewed(row, age).token = row.token
           /\ Renewed(row, age).status = row.status
           /\ Renewed(row, age).left \in {n \in Int : n > 0}
  BY LeaseAssumption DEF Renewed, Row, Ages

\* A release drops the token.
LEMMA ReleasedTime ==
    ASSUME NEW row \in Row, NEW status
    PROVE  Released(row, status).token = NoToken
  BY DEF Released, Row

\* A step that changes a single row and obeys both rules there.
LEMMA OneRowStep ==
    ASSUME TypeInv, NEW k \in Jobs, NEW r, NEW age \in Ages, SetRow(k, r),
           ~IsTerminal(k) \/ r.status = jobs[k].status,
           r.token = jobs[k].token \/ MayLose(k, age), TimeKept(k, r)
    PROVE  RowsKept
  <1>1. \A j \in Jobs : jobs'[j] = IF j = k THEN r ELSE jobs[j]
    BY DEF TypeInv, TypeOK, SetRow
  <1>2. TerminalKept
    BY <1>1 DEF TerminalKept, IsTerminal
  <1>3. ClaimStale(k, age) => jobs[k].token = NoToken \/ ~(jobs[k].left > 0)
    BY LeaseAssumption DEF ClaimStale, TypeInv, TypeOK, Row, Ages
  <1>4. LiveKept
    BY <1>1, <1>3 DEF LiveKept, MayLose
  <1>5. LeftKept
    BY <1>1 DEF LeftKept, TimeKept
  <1> QED
    BY <1>2, <1>4, <1>5 DEF RowsKept

\* A claimed write: it renews or moves to a held status, or its thread stops.
LEMMA OwnedStep ==
    ASSUME TypeInv, NEW w \in Workers, Busy(w), NEW age \in Ages, NEW r,
           OwnsRow(w, age), SetRow(run[w].job, r),
           r.token = jobs[run[w].job].token \/ Stop(w),
           TimeKept(run[w].job, r)
    PROVE  RowsKept
  <1>1. run[w].job \in Jobs
    BY DEF TypeInv, ThreadsOK, Busy
  <1>2. Stop(w) => run'[w].pc = "idle"
    <2>1. Idle.pc = "idle" /\ run \in [Workers -> Thread]
      BY DEF Idle, TypeInv, TypeOK
    <2> QED
      BY <2>1 DEF Stop
  <1>3. /\ ~IsTerminal(run[w].job)
        /\ run[w].token = jobs[run[w].job].token
    BY DEF OwnsRow, IsTerminal
  <1>4. Stop(w) => MayLose(run[w].job, age)
    BY <1>2, <1>3 DEF MayLose
  <1> QED
    BY <1>1, <1>3, <1>4, OneRowStep

\* set_job obeys both rules, by its compare-and-swap.
LEMMA SetJobStep ==
    ASSUME TypeInv, NEW w \in Workers, Busy(w), NEW age \in Ages,
           NEW status \in Statuses, SetJob(w, status, age),
           status \in Held \/ Stop(w)
    PROVE  RowsKept
  <1> DEFINE k == run[w].job
             r == IF status \in Held
                  THEN [Renewed(jobs[k], age) EXCEPT !.status = status]
                  ELSE Released(jobs[k], status)
  <1>1. k \in Jobs /\ jobs[k] \in Row
    BY DEF TypeInv, TypeOK, ThreadsOK, Busy
  <1>2. status \in Held => r.token = jobs[k].token
    BY <1>1 DEF Renewed, Row
  <1>t. TimeKept(k, r)
    <2>1. CASE status \in Held
      <3>1. Renewed(jobs[k], age) \in Row
        BY <1>1, RenewedType
      <3>2. r.left = Renewed(jobs[k], age).left
        BY <2>1, <3>1 DEF Row
      <3> QED
        BY <1>1, <3>2, RenewedTime DEF TimeKept
    <2>2. CASE status \notin Held
      BY <1>1, <2>2, ReleasedTime DEF TimeKept
    <2> QED
      BY <2>1, <2>2
  <1>3. \/ OwnsRow(w, age) /\ SetRow(k, r)
        \/ UNCHANGED jobs
    BY DEF SetJob, SetRow
  <1>4. CASE OwnsRow(w, age) /\ SetRow(k, r)
    <2> HIDE DEF r
    <2> QED
      BY <1>2, <1>4, <1>t, OwnedStep
  <1> QED
    BY <1>3, <1>4, NoRowStep

\* A scheduler pass: reconciliation and claims need a stale claim.
LEMMA RowsScheduler ==
    ASSUME TypeInv, NEW p \in Processes, NEW age \in Ages,
           SchedulerStep(p, age)
    PROVE  RowsKept
  <1>1. CASE ReconcileSelect(p, age)
    BY <1>1, NoRowStep DEF ReconcileSelect
  <1>2. ASSUME NEW j \in Jobs, NEW outcome, ReconcileOne(p, j, outcome, age)
        PROVE  RowsKept
    <2> DEFINE r == Released(jobs[j], outcome)
    <2>1. \/ ClaimStale(j, age) /\ ~IsTerminal(j) /\ SetRow(j, r)
          \/ UNCHANGED jobs
      BY <1>2 DEF ReconcileOne, SetRow
    <2>2. TimeKept(j, r)
      BY ReleasedTime DEF TimeKept, TypeInv, TypeOK
    <2> HIDE DEF r
    <2> QED
      BY <2>1, <2>2, OneRowStep, NoRowStep DEF MayLose
  <1>3. CASE ListClaimable(p, age)
    BY <1>3, NoRowStep DEF ListClaimable
  <1>4. ASSUME NEW c \in sched[p].listed, NEW w \in Workers,
               NEW tok \in Tokens, ClaimJob(p, c, w, tok, age)
        PROVE  RowsKept
    <2> DEFINE j == c.job
               r == [Renewed(jobs[j], age) EXCEPT !.token = tok]
    <2>1. j \in Jobs /\ jobs[j] \in Row
      BY DEF TypeInv, TypeOK, Scheduler, Candidate
    <2>2. \/ Claimable(j, age) /\ SetRow(j, r)
          \/ UNCHANGED jobs
      BY <1>4 DEF ClaimJob, SetRow
    <2>3. Claimable(j, age) => ClaimStale(j, age)
      BY DEF Claimable
    <2>4. r.status = jobs[j].status /\ r.left = Renewed(jobs[j], age).left
      BY <2>1 DEF Renewed, Row
    <2>5. TimeKept(j, r)
      BY <2>1, <2>4, RenewedTime DEF TimeKept
    <2> HIDE DEF r, j
    <2> QED
      BY <2>1, <2>2, <2>3, <2>4, <2>5, OneRowStep, NoRowStep DEF MayLose
  <1> QED
    BY <1>1, <1>2, <1>3, <1>4 DEF SchedulerStep

\* A thread: every write of a handler is fenced by its claim.
LEMMA RowsWorker ==
    ASSUME TypeInv, NEW w \in Workers, NEW age \in Ages, WorkerStep(w, age)
    PROVE  RowsKept
  <1> DEFINE j == run[w].job
             renewed == Renewed(jobs[j], age)
             held == Released(jobs[j], "pending_approval")
             retry == [Released(jobs[j], "retrying") EXCEPT
                         !.retries = run[w].retries + 1, !.wait = 1]
  <1>b. Busy(w)
    BY DEF WorkerStep, Busy, Dispatch, Heartbeat, Checkpoint, EnterStatus,
           Progress, Complete, AwaitRestore, HoldForApproval, Requeue,
           PreflightBlocked, RetryLater, Fail
  <1>j. jobs[j] \in Row /\ run[w] \in Thread
    BY <1>b DEF TypeInv, ThreadsOK, TypeOK, Busy
  <1>r. ASSUME OwnsRow(w, age), SetRow(j, renewed)
        PROVE  RowsKept
    <2>1. renewed.token = jobs[j].token /\ TimeKept(j, renewed)
      BY <1>j, RenewedTime DEF TimeKept
    <2> HIDE DEF renewed
    <2> QED
      BY <1>b, <1>r, <2>1, OwnedStep
  <1>1. CASE Dispatch(w, age)
    <2>1. (OwnsRow(w, age) /\ SetRow(j, renewed)) \/ UNCHANGED jobs
      BY <1>1 DEF Dispatch, SetRow
    <2> QED
      BY <1>r, <2>1, NoRowStep
  <1>2. CASE Heartbeat(w, age)
    <2>1. (OwnsRow(w, age) /\ SetRow(j, renewed)) \/ UNCHANGED jobs
      BY <1>2 DEF Heartbeat, SetRow
    <2> QED
      BY <1>r, <2>1, NoRowStep
  <1>3. CASE Checkpoint(w, age)
    <2>1. \/ OwnsRow(w, age) /\ SetRow(j, renewed)
          \/ SetJob(w, "cancelled", age) /\ Stop(w)
          \/ UNCHANGED jobs
      BY <1>3 DEF Checkpoint, SetRow
    <2>2. "cancelled" \in Statuses
      BY DEF Statuses, Terminal
    <2> QED
      BY <1>b, <1>r, <2>1, <2>2, SetJobStep, NoRowStep
  <1>4. CASE \E status \in Held : EnterStatus(w, status, age)
    <2> PICK status \in Held : EnterStatus(w, status, age)
      BY <1>4
    <2> QED
      BY <1>b, SetJobStep, StatusFacts DEF EnterStatus
  <1>5. CASE Progress(w, age)
    <2>1. OwnsRow(w, age) /\ SetRow(j, renewed)
      BY <1>5 DEF Progress, SetRow
    <2> QED
      BY <1>r, <2>1
  <1>6. ASSUME NEW status \in Statuses, SetJob(w, status, age), Stop(w)
        PROVE  RowsKept
    BY <1>b, <1>6, SetJobStep
  <1>7. CASE Complete(w, age)
    BY <1>6, <1>7 DEF Complete, Statuses, Terminal
  <1>8. CASE AwaitRestore(w, age)
    BY <1>6, <1>8 DEF AwaitRestore, Statuses, Waiting
  <1>9. CASE HoldForApproval(w, age)
    <2>1. (OwnsRow(w, age) /\ SetRow(j, held) /\ Stop(w)) \/ UNCHANGED jobs
      BY <1>9 DEF HoldForApproval, SetRow
    <2>2. TimeKept(j, held)
      BY <1>j, ReleasedTime DEF TimeKept
    <2> HIDE DEF held
    <2> QED
      BY <1>b, <2>1, <2>2, OwnedStep, NoRowStep
  <1>10. CASE Requeue(w, age)
    BY <1>6, <1>10 DEF Requeue, Statuses, Waiting
  <1>11. CASE PreflightBlocked(w, age)
    BY <1>6, <1>11, <1>j DEF PreflightBlocked, Thread
  <1>12. CASE RetryLater(w, age)
    <2>1. (OwnsRow(w, age) /\ SetRow(j, retry) /\ Stop(w)) \/ UNCHANGED jobs
      BY <1>12 DEF RetryLater, SetRow
    <2>2. retry.token = NoToken
      BY <1>j DEF Released, Row
    <2>3. TimeKept(j, retry)
      BY <2>2 DEF TimeKept
    <2> HIDE DEF retry
    <2> QED
      BY <1>b, <2>1, <2>3, OwnedStep, NoRowStep
  <1>13. CASE Fail(w, age)
    BY <1>6, <1>13 DEF Fail, Statuses, Terminal
  <1> QED
    BY <1>1, <1>2, <1>3, <1>4, <1>5, <1>7, <1>8, <1>9, <1>10, <1>11, <1>12,
       <1>13
    DEF WorkerStep

\* Requests, shutdowns and crashes: cancel writes open Jobs only.
LEMMA RowsProcess ==
    ASSUME TypeInv, ApprovalsOK, NEW p \in Processes, ProcessStep(p)
    PROVE  RowsKept
  <1>1. EndPass(p) \/ CancelFail(p) \/ RequestShutdown(p) => UNCHANGED jobs
    BY DEF EndPass, CancelFail, RequestShutdown
  <1>2. ASSUME NEW j, ReconcileSuspended(p, j) \/ CancelBegin(p, j)
        PROVE  RowsKept
    BY <1>2, NoRowStep DEF ReconcileSuspended, CancelBegin
  <1>3. CASE CancelCommit(p)
    <2> DEFINE j == cancelling[p]
               r == [jobs[j] EXCEPT !.status = "cancelled"]
    <2>1. j \in Jobs /\ jobs[j] \in Row
      BY <1>3 DEF CancelCommit, TypeInv, TypeOK
    <2>2. (~IsTerminal(j) /\ SetRow(j, r)) \/ UNCHANGED jobs
      BY <1>3 DEF CancelCommit, SetRow
    <2>3. r.token = jobs[j].token /\ TimeKept(j, r)
      BY <2>1 DEF Row, TimeKept
    <2>4. 0 \in Ages
      BY LeaseAssumption DEF Ages
    <2> HIDE DEF r, j
    <2> QED
      BY <2>1, <2>2, <2>3, <2>4, OneRowStep, NoRowStep
  <1>4. ApproveSelect(p) => UNCHANGED jobs
    BY DEF ApproveSelect
  <1>5. CASE ApproveUpdate(p)
    <2>1. \A j \in Jobs : jobs'[j] =
            IF j \in approving[p]
            THEN [jobs[j] EXCEPT !.status = "queued", !.approved = TRUE]
            ELSE jobs[j]
      BY <1>5 DEF ApproveUpdate
    <2>2. TerminalKept
      BY <2>1 DEF TerminalKept, ApprovalsOK
    <2>3. \A j \in Jobs : /\ jobs'[j].token = jobs[j].token
                          /\ jobs'[j].left = jobs[j].left
      <3>1. ASSUME NEW row \in Row
            PROVE  LET r == [row EXCEPT !.status = "queued",
                                        !.approved = TRUE]
                   IN  r.token = row.token /\ r.left = row.left
        BY DEF Row
      <3>2. \A j \in Jobs : jobs[j] \in Row
        BY DEF TypeInv, TypeOK
      <3> QED
        BY <2>1, <3>1, <3>2
    <2> QED
      BY <2>2, <2>3 DEF RowsKept, LiveKept, LeftKept
  <1>6. Restart(p) \/ Crash(p) => UNCHANGED jobs
    BY DEF Restart, Crash, Reboot
  <1> QED
    BY <1>1, <1>2, <1>3, <1>4, <1>5, <1>6, NoRowStep DEF ProcessStep

\* Time changes neither status nor token.
LEMMA RowsTick ==
    ASSUME TypeInv, Tick
    PROVE  RowsKept
  <1>1. \A j \in Jobs : /\ jobs'[j].token = jobs[j].token
                        /\ jobs'[j].status = jobs[j].status
    BY DEF Tick, TypeInv, TypeOK, Row
  <1> QED
    BY <1>1 DEF RowsKept, TerminalKept, LiveKept

\* Every step obeys both rules on every row.
LEMMA RowsStep ==
    ASSUME TypeInv, ApprovalsOK, [Next]_vars
    PROVE  RowsKept
  <1>1. UNCHANGED vars => UNCHANGED jobs
    BY DEF vars
  <1>2. ASSUME NEW w \in Workers, HeartbeatError(w)
        PROVE  RowsKept
    BY <1>2, NoRowStep DEF HeartbeatError
  <1>3. CASE Next
    BY <1>2, <1>3, RowsScheduler, RowsWorker, RowsProcess, RowsTick DEF Next
  <1> QED
    BY <1>1, <1>3, NoRowStep

\* No approval is open initially.
LEMMA ApprovalsInit == Init => ApprovalsOK
  BY DEF Init, ApprovalsOK

\* No late thread, scheduler, reconciliation, cancel or shutdown changes the
\* outcome of a finished Job, for every number of them: the compare-and-swap
\* of set_job and the status conditions of the other statements suffice.
THEOREM FinishedStaysFinished == Spec => TerminalIsFinal
  <1>1. TypeInv /\ ApprovalsOK /\ [Next]_vars => TypeInv' /\ ApprovalsOK'
    BY TypeStep, ApprovalsStep
  <1>2. TypeInv /\ ApprovalsOK /\ [Next]_vars => TerminalKept
    BY RowsStep DEF RowsKept
  <1>3. TerminalKept =>
          [\A j \in Jobs : IsTerminal(j) /\ Action[j] # "recover"
                             => jobs'[j].status = jobs[j].status]_vars
    BY DEF TerminalKept
  <1> QED
    BY <1>1, <1>2, <1>3, TypeInit, ApprovalsInit, PTL DEF Spec, TerminalIsFinal

\* No claim, reconciliation or request takes a lease that has not run out away
\* from the thread it was given to.
THEOREM LiveClaimsAreKept == Spec => LiveClaimKept
  <1>1. TypeInv /\ ApprovalsOK /\ [Next]_vars => TypeInv' /\ ApprovalsOK'
    BY TypeStep, ApprovalsStep
  <1>2. TypeInv /\ ApprovalsOK /\ [Next]_vars => LiveKept
    BY RowsStep DEF RowsKept
  <1>3. LiveKept =>
          [\A j \in Jobs :
             /\ jobs[j].token # NoToken /\ jobs[j].left > 0
             /\ jobs'[j].token # jobs[j].token
             => \E w \in Workers : /\ run[w].token = jobs[j].token
                                   /\ run'[w].pc = "idle"]_vars
    BY DEF LiveKept
  <1> QED
    BY <1>1, <1>2, <1>3, TypeInit, ApprovalsInit, PTL DEF Spec, LiveClaimKept

-----------------------------------------------------------------------------
(* One thread per Job, when heartbeats are on time.                        *)

\* A thread that neither lost its claim nor is being stopped.
Live(w) == Busy(w) /\ ~run[w].lost /\ ~stopping[Home[w]]

\* The strengthening: the lease of a live thread is its own and has time left,
\* until its Job is finished.
LiveHolds ==
    \A w \in Workers :
        Live(w) => \/ IsTerminal(run[w].job)
                   \/ /\ jobs[run[w].job].token = run[w].token
                      /\ jobs[run[w].job].left > 0

ExclInv == TypeInv /\ TokensUnique /\ ApprovalsOK /\ LiveHolds
           /\ ExclusiveExecution

\* A process that is no longer stopping has been rebooted.
StoppingKept ==
    \A p \in Processes : stopping[p] /\ ~stopping'[p] =>
        \A w \in Workers : Home[w] = p => ~Busy(w)'

SameStopping == UNCHANGED stopping

\* A process leaves its shutdown only by losing all its threads.
LEMMA StoppingStep ==
    ASSUME TypeInv, [Next]_vars
    PROVE  StoppingKept
  <1>1. SameStopping => StoppingKept
    BY DEF SameStopping, StoppingKept
  <1>2. ASSUME NEW p \in Processes, NEW age \in Ages, SchedulerStep(p, age)
        PROVE  SameStopping
    <2> USE DEF SameStopping
    <2>1. CASE ReconcileSelect(p, age)
      BY <2>1 DEF ReconcileSelect
    <2>2. ASSUME NEW j, NEW outcome, ReconcileOne(p, j, outcome, age)
          PROVE  SameStopping
      BY <2>2 DEF ReconcileOne
    <2>3. CASE ListClaimable(p, age)
      BY <2>3 DEF ListClaimable
    <2>4. ASSUME NEW c, NEW w, NEW tok, ClaimJob(p, c, w, tok, age)
          PROVE  SameStopping
      BY <2>4 DEF ClaimJob
    <2> HIDE DEF SameStopping
    <2> QED
      BY <1>2, <2>1, <2>2, <2>3, <2>4 DEF SchedulerStep
  <1>3. ASSUME NEW w \in Workers, NEW age \in Ages, WorkerStep(w, age)
        PROVE  SameStopping
    <2> USE DEF SameStopping
    <2>1. CASE Dispatch(w, age)
      BY <2>1 DEF Dispatch
    <2>2. CASE Heartbeat(w, age)
      BY <2>2 DEF Heartbeat
    <2>3. CASE Checkpoint(w, age)
      BY <2>3 DEF Checkpoint
    <2> QED
      BY <1>3, <2>1, <2>2, <2>3
      DEF WorkerStep, EnterStatus, Progress, Complete, AwaitRestore,
          HoldForApproval, Requeue, PreflightBlocked, RetryLater, Fail
  <1>4. ASSUME NEW p \in Processes, ProcessStep(p) PROVE StoppingKept
    <2>1. EndPass(p) \/ CancelCommit(p) \/ CancelFail(p) \/ ApproveSelect(p)
            => SameStopping
      BY DEF EndPass, CancelCommit, CancelFail, ApproveSelect, SameStopping
    <2>2. ASSUME NEW j, ReconcileSuspended(p, j) \/ CancelBegin(p, j)
          PROVE  SameStopping
      BY <2>2 DEF ReconcileSuspended, CancelBegin, SameStopping
    <2>3. ApproveUpdate(p) => SameStopping
      BY DEF ApproveUpdate, SameStopping
    <2>4. RequestShutdown(p) => StoppingKept
      BY DEF RequestShutdown, StoppingKept, TypeInv, TypeOK
    <2>5. Reboot(p) => StoppingKept
      BY DEF Reboot, StoppingKept, Busy, Idle, TypeInv, TypeOK
    <2>6. Restart(p) \/ Crash(p) => Reboot(p)
      BY DEF Restart, Crash
    <2> QED
      BY <1>1, <1>4, <2>1, <2>2, <2>3, <2>4, <2>5, <2>6 DEF ProcessStep
  <1>5. ASSUME NEW w \in Workers, HeartbeatError(w) PROVE SameStopping
    BY <1>5 DEF HeartbeatError, SameStopping
  <1>6. Tick => SameStopping
    BY DEF Tick, SameStopping
  <1>7. UNCHANGED vars => SameStopping
    BY DEF vars, SameStopping
  <1>8. CASE Next
    BY <1>1, <1>2, <1>3, <1>4, <1>5, <1>6, <1>8 DEF Next
  <1> QED
    BY <1>1, <1>7, <1>8

\* Time does not run out for a live thread: that is what Punctual says.
LEMMA TickKeepsLive ==
    ASSUME Punctual, TypeInv, Tick, NEW w \in Workers, Live(w),
           jobs[run[w].job].token = run[w].token, ~IsTerminal(run[w].job)
    PROVE  jobs'[run[w].job].left > 0
  <1>1. run[w].job \in Jobs
    BY DEF TypeInv, ThreadsOK, Live, Busy
  <1>2. jobs[run[w].job].left > 1
    BY DEF Tick, Beating, Live
  <1> DEFINE row == jobs[run[w].job]
             n == IF row.left > -Stale THEN row.left - 1 ELSE row.left
  <1>3. jobs'[run[w].job] = [row EXCEPT !.left = n, !.wait = 0]
    BY <1>1 DEF Tick
  <1>4. row \in Row
    BY <1>1 DEF TypeInv, TypeOK
  <1>5. n = row.left - 1 /\ row.left \in Int
    BY <1>2, <1>4, LeftFact
  <1>6. jobs'[run[w].job].left = n
    <2> HIDE DEF n, row
    <2> QED
      BY <1>3, <1>4 DEF Row
  <1> QED
    BY <1>2, <1>5, <1>6

\* A thread that is live before and after a step holds its lease afterwards.
LEMMA LiveStays ==
    ASSUME Punctual, \A j \in Jobs : Action[j] # "recover",
           TypeInv, TokensUnique, RowsKept, NEW w \in Workers,
           Live(w), Busy(w)', run'[w].job = run[w].job,
           run'[w].token = run[w].token,
           \/ IsTerminal(run[w].job)
           \/ /\ jobs[run[w].job].token = run[w].token
              /\ jobs[run[w].job].left > 0
    PROVE  \/ IsTerminal(run[w].job)'
           \/ /\ jobs'[run[w].job].token = run[w].token
              /\ jobs'[run[w].job].left > 0
  <1> DEFINE j == run[w].job
  <1>1. j \in Jobs /\ run[w].token \in Tokens
    BY DEF TypeInv, ThreadsOK, Live, Busy
  <1>2. CASE IsTerminal(j)
    BY <1>1, <1>2 DEF RowsKept, TerminalKept, IsTerminal
  <1>3. CASE ~IsTerminal(j)
    <2>1. jobs[j].token = run[w].token /\ jobs[j].left > 0
      BY <1>3
    <2>2. jobs'[j].token = run[w].token
      <3>1. SUFFICES ASSUME jobs'[j].token # jobs[j].token PROVE FALSE
        BY <2>1
      <3>2. PICK v \in Workers : /\ run[v].token = jobs[j].token
                                /\ run'[v].pc = "idle"
        BY <1>1, <2>1, <3>1, NullFact DEF RowsKept, LiveKept
      <3>3. Busy(v)
        <4>1. run[v].token # NoToken
          BY <1>1, <2>1, <3>2, NullFact
        <4>2. ThreadsOK
          BY DEF TypeInv
        <4>3. Idle.token = NoToken
          BY DEF Idle
        <4> QED
          BY <4>1, <4>2, <4>3 DEF Busy, ThreadsOK
      <3>4. v = w
        BY <2>1, <3>2, <3>3 DEF TokensUnique, Live
      <3> QED
        BY <3>2, <3>4 DEF Busy
    <2>3. jobs'[j].left > 0
      <3>1. CASE Tick
        BY <1>3, <2>1, <3>1, TickKeepsLive
      <3>2. CASE LeftKept
        BY <1>1, <2>1, <2>2, <3>2, NullFact DEF LeftKept
      <3> QED
        BY <3>1, <3>2 DEF RowsKept
    <2> QED
      BY <2>2, <2>3
  <1> QED
    BY <1>2, <1>3

\* A thread that is live after a step that starts none was live before.
LEMMA LiveBefore ==
    ASSUME TypeInv, ThreadsKept, StoppingKept, NEW w \in Workers, Live(w)'
    PROVE  /\ Live(w)
           /\ run'[w].token = run[w].token
           /\ run'[w].job = run[w].job
  <1>1. Busy(w)' /\ ~run'[w].lost /\ ~stopping'[Home[w]]
    BY DEF Live
  <1>2. Home[w] \in Processes
    BY LeaseAssumption
  <1>3. ~stopping[Home[w]]
    BY <1>1, <1>2 DEF StoppingKept
  <1>4. ~run[w].lost
    BY <1>1 DEF ThreadsKept, LostKept
  <1> QED
    BY <1>1, <1>3, <1>4 DEF ThreadsKept, Live

\* The invariant survives a step in which no thread starts.
LEMMA ExclKept ==
    ASSUME Punctual, \A j \in Jobs : Action[j] # "recover",
           ExclInv, RowsKept, ThreadsKept, StoppingKept
    PROVE  LiveHolds' /\ ExclusiveExecution'
  <1>1. LiveHolds'
    <2> SUFFICES ASSUME NEW w \in Workers, Live(w)'
                 PROVE  \/ IsTerminal(run[w].job)'
                        \/ /\ jobs'[run'[w].job].token = run'[w].token
                           /\ jobs'[run'[w].job].left > 0
      BY DEF LiveHolds
    <2>1. /\ Live(w) /\ Busy(w)'
          /\ run'[w].token = run[w].token
          /\ run'[w].job = run[w].job
      BY LiveBefore DEF ExclInv, Live
    <2>2. \/ IsTerminal(run[w].job)
          \/ /\ jobs[run[w].job].token = run[w].token
             /\ jobs[run[w].job].left > 0
      BY <2>1 DEF ExclInv, LiveHolds
    <2>3. \/ IsTerminal(run[w].job)'
          \/ /\ jobs'[run[w].job].token = run[w].token
             /\ jobs'[run[w].job].left > 0
      BY <2>1, <2>2, LiveStays DEF ExclInv
    <2> QED
      BY <2>1, <2>3
  <1>2. ExclusiveExecution'
    <2> SUFFICES ASSUME NEW v \in Workers, NEW w \in Workers, Live(v)',
                        Live(w)', v # w, run'[v].job = run'[w].job
                 PROVE  FALSE
      BY DEF ExclusiveExecution, Live
    <2>1. Live(v) /\ Live(w) /\ run[v].job = run[w].job
      BY LiveBefore DEF ExclInv
    <2> QED
      BY <2>1 DEF ExclInv, ExclusiveExecution, Live
  <1> QED
    BY <1>1, <1>2

\* The invariant survives a claim: the Job had no live thread, because a live
\* thread's lease is not stale.
LEMMA ExclClaim ==
    ASSUME Punctual, \A j \in Jobs : Action[j] # "recover",
           ExclInv, RowsKept, StoppingKept,
           NEW p \in Processes, NEW age \in Ages, NEW c \in sched[p].listed,
           NEW w \in Workers, NEW tok \in Tokens, ClaimJob(p, c, w, tok, age)
    PROVE  LiveHolds' /\ ExclusiveExecution'
  <1> DEFINE k == c.job
             row == [Renewed(jobs[k], age) EXCEPT !.token = tok]
  <1>1. OneStarts(c, w, tok, age)
    BY ClaimThreads DEF ExclInv
  <1>2. CASE run' = run
    <2>1. ThreadsKept
      BY <1>2 DEF ThreadsKept, LostKept, Busy
    <2> QED
      BY <2>1, ExclKept
  <1>3. CASE run' # run
    <2>1. /\ Claimable(k, age) /\ k \in Jobs
          /\ run'[w].token = tok /\ run'[w].job = k
          /\ \A v \in Workers \ {w} : run'[v] = run[v]
      BY <1>1, <1>3 DEF OneStarts
    <2>2. SetRow(k, row)
      BY <2>1 DEF ClaimJob, SetRow
    <2>3. jobs[k] \in Row /\ Renewed(jobs[k], age) \in Row
      BY <2>1, RenewedType DEF ExclInv, TypeInv, TypeOK
    <2>4. row.token = tok /\ row.left > 0
      BY <2>3, RenewedTime DEF Row
    <2>5. jobs'[k] = row
      BY <2>1, <2>2 DEF SetRow, ExclInv, TypeInv, TypeOK
    <2>6. ~IsTerminal(k) /\ ClaimStale(k, age)
      BY <2>1 DEF Claimable, IsTerminal, Terminal
    <2>7. jobs[k].token \in Tokens => ~(jobs[k].left > 0)
      <3>1. NoToken \notin Tokens /\ age \in Nat
        BY NullFact, AgeFact
      <3>2. jobs[k].left \in Int
        BY <2>3, LeftFact
      <3> QED
        BY <2>6, <3>1, <3>2 DEF ClaimStale
    <2>8. ASSUME NEW v \in Workers, v # w, Live(v)'
          PROVE  Live(v) /\ run[v].job # k
      <3>1. run'[v] = run[v]
        BY <2>1, <2>8
      <3>2. UNCHANGED stopping
        BY DEF ClaimJob
      <3>3. Live(v)
        BY <2>8, <3>1, <3>2 DEF Live, Busy
      <3>4. run[v].token \in Tokens
        BY <3>3 DEF Live, Busy, ExclInv, TypeInv, ThreadsOK
      <3> QED
        BY <2>6, <2>7, <3>3, <3>4 DEF ExclInv, LiveHolds
    <2> HIDE DEF k, row
    <2>9. LiveHolds'
      <3> SUFFICES ASSUME NEW v \in Workers, Live(v)'
                   PROVE  \/ IsTerminal(run[v].job)'
                          \/ /\ jobs'[run'[v].job].token = run'[v].token
                             /\ jobs'[run'[v].job].left > 0
        BY DEF LiveHolds
      <3>1. CASE v = w
        BY <2>1, <2>4, <2>5, <3>1
      <3>2. CASE v # w
        <4>1. run'[v] = run[v] /\ Live(v) /\ Busy(v)'
          BY <2>1, <2>8, <3>2 DEF Live
        <4>2. \/ IsTerminal(run[v].job)
              \/ /\ jobs[run[v].job].token = run[v].token
                 /\ jobs[run[v].job].left > 0
          BY <4>1 DEF ExclInv, LiveHolds
        <4>3. \/ IsTerminal(run[v].job)'
              \/ /\ jobs'[run[v].job].token = run[v].token
                 /\ jobs'[run[v].job].left > 0
          BY <4>1, <4>2, LiveStays DEF ExclInv
        <4> QED
          BY <4>1, <4>3
      <3> QED
        BY <3>1, <3>2
    <2>10. ExclusiveExecution'
      <3> SUFFICES ASSUME NEW u \in Workers, NEW v \in Workers, Live(u)',
                          Live(v)', u # v, run'[u].job = run'[v].job
                   PROVE  FALSE
        BY DEF ExclusiveExecution, Live
      <3>1. CASE u = w
        BY <2>1, <2>8, <3>1
      <3>2. CASE v = w
        BY <2>1, <2>8, <3>2
      <3>3. CASE u # w /\ v # w
        <4>1. Live(u) /\ Live(v) /\ run[u].job = run[v].job
          BY <2>1, <2>8, <3>3
        <4> QED
          BY <4>1 DEF ExclInv, ExclusiveExecution, Live
      <3> QED
        BY <3>1, <3>2, <3>3
    <2> QED
      BY <2>9, <2>10
  <1> QED
    BY <1>2, <1>3

\* Every step keeps the invariant.
LEMMA ExclStep ==
    ASSUME Punctual, \A j \in Jobs : Action[j] # "recover", ExclInv,
           [Next]_vars
    PROVE  ExclInv'
  <1>1. TypeInv' /\ TokensUnique' /\ ApprovalsOK'
    BY TypeStep, UniqueStep, ApprovalsStep DEF ExclInv
  <1>2. RowsKept /\ StoppingKept
    BY RowsStep, StoppingStep DEF ExclInv
  <1>3. CASE ThreadsKept
    BY <1>1, <1>2, <1>3, ExclKept DEF ExclInv
  <1>4. ASSUME NEW p \in Processes, NEW age \in Ages,
               NEW c \in sched[p].listed, NEW w \in Workers,
               NEW tok \in Tokens, ClaimJob(p, c, w, tok, age)
        PROVE  ExclInv'
    <2>1. LiveHolds' /\ ExclusiveExecution'
      BY <1>2, <1>4, ExclClaim
    <2> QED
      BY <1>1, <2>1 DEF ExclInv
  <1>5. TypeInv
    BY DEF ExclInv
  <1> QED
    BY <1>3, <1>4, <1>5, ThreadStep

\* Initially no thread runs.
LEMMA ExclInit == Init => ExclInv
  <1> SUFFICES ASSUME Init PROVE ExclInv
    OBVIOUS
  <1>1. \A w \in Workers : ~Busy(w)
    BY DEF Init, Busy, Idle
  <1> QED
    BY <1>1, TypeInit, ApprovalsInit
    DEF ExclInv, TokensUnique, LiveHolds, ExclusiveExecution, Live

\* If every heartbeat renews before the lease runs out, no two threads execute
\* the same Job at once, apart from threads that know that they lost it or
\* that belong to a process that is stopping: the lease, not only the final
\* write, is exclusive.  Recover Jobs are excepted because an approval may
\* reopen a cancelled Job whose thread has not noticed yet.
THEOREM OneThreadPerJob ==
    ASSUME Punctual, \A j \in Jobs : Action[j] # "recover"
    PROVE  Spec => []ExclusiveExecution
  <1>1. ExclInv /\ [Next]_vars => ExclInv'
    BY ExclStep
  <1>2. ExclInv => ExclusiveExecution
    BY DEF ExclInv
  <1> QED
    BY <1>1, <1>2, ExclInit, PTL DEF Spec
=============================================================================
