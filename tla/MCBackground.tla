---------------------------- MODULE MCBackground ----------------------------
(***************************************************************************)
(* The loops of the background worker for TLC.  One part is at work,       *)
(* chosen at the start, and the others stay in an initial state: one Job   *)
(* of one of three operations (JobLease), the choice of Jobs               *)
(* (JobScheduler), the gate on S3 readiness (PreflightGate), Backups or    *)
(* Notifications.                                                          *)
(***************************************************************************)
EXTENDS MCJobLease

CONSTANTS req, Free

VARIABLES
    part,
    queue, away, gone,
    works, gateRow, ready, lock, th, lapsed, flips, gateFaults,
    config, now, catalog, schema, app, files, store, runs, proc, mark, verifier, made, backupFaults, clash, failures,
    mount, health, job, outbox, incident, note, mail, worker, mailFaults, sent, tries, crashes, raced

queueVars == <<queue, away, gone>>
gateVars == <<works, gateRow, ready, lock, th, lapsed, flips, gateFaults>>
backupVars == <<config, now, catalog, schema, app, files, store, runs, proc, mark, verifier, made, backupFaults, clash, failures>>
noteVars == <<mount, health, job, outbox, incident, note, mail, worker, mailFaults, sent, tries, crashes, raced>>

M == INSTANCE JobLease WITH Action <- (j1 :> "storage-class")
R == INSTANCE JobLease WITH Action <- (j1 :> "recover")

\* Model values of JobLease serve as Vaults and threads.
S == INSTANCE JobScheduler WITH
    Vaults <- {p1, p2}, MaxJobs <- 3, Concurrency <- 1, BatchSize <- 3, MaxAway <- 1, jobs <- queue

G == INSTANCE PreflightGate WITH
    Processes <- {p1, p2}, Threads <- {w1, w2, t1}, Home <- (w1 :> p1 @@ w2 :> p2 @@ t1 :> p1), Loop <- {w1, w2},
    MaxFlips <- 1, MaxFaults <- 1, row <- gateRow, faults <- gateFaults

B == INSTANCE Backups WITH
    Keep <- 1, Requests <- {req}, MaxSeconds <- 1, MaxMade <- 2, MaxFaults <- 1, faults <- backupFaults

N == INSTANCE Notifications WITH MaxFaults <- 2, MaxAttempts <- 2, faults <- mailFaults

Operation == {"upload", "storage-class", "recover"}

BackgroundInit ==
    /\ part \in Operation \cup {"schedule", "gate", "backups", "notifications"}
    /\ Init /\ S!Init /\ G!Init /\ B!Init /\ N!Init
    /\ part # "gate" => works /\ gateRow.st = "ready"
    /\ part # "backups" => schema = "head" /\ config.off /\ config.key
    /\ part # "notifications" => job = "running"

BackgroundNext ==
    /\ UNCHANGED part
    /\ \/ /\ \/ part = "upload" /\ Next
             \/ part = "storage-class" /\ M!Next
             \/ part = "recover" /\ R!Next
          /\ UNCHANGED <<queueVars, gateVars, backupVars, noteVars>>
       \/ part = "schedule" /\ S!Next /\ UNCHANGED <<vars, gateVars, backupVars, noteVars>>
       \/ part = "gate" /\ G!Next /\ UNCHANGED <<vars, queueVars, backupVars, noteVars>>
       \/ part = "backups" /\ B!Next /\ UNCHANGED <<vars, queueVars, gateVars, noteVars>>
       \/ part = "notifications" /\ N!Next /\ UNCHANGED <<vars, queueVars, gateVars, backupVars>>

\* The steps that depend on the operation, for the one that was chosen.
Of(u, m, r) ==
    \/ part = "upload" /\ u
    \/ part = "storage-class" /\ m
    \/ part = "recover" /\ r

\* Fairness of each, for the part at work.
BackgroundFairness ==
    /\ WF_vars(Of(Tick, M!Tick, R!Tick))
    /\ \A p \in Processes :
         /\ WF_vars(\E age \in Ages : Of(ReconcileSelect(p, age), M!ReconcileSelect(p, age),
                                         R!ReconcileSelect(p, age)))
         /\ WF_vars(\E outcome \in Terminal \cup {"queued"}, age \in Ages :
                       Of(ReconcileOne(p, j1, outcome, age), M!ReconcileOne(p, j1, outcome, age),
                          R!ReconcileOne(p, j1, outcome, age)))
         /\ WF_vars(\E age \in Ages : Of(ListClaimable(p, age), M!ListClaimable(p, age),
                                         R!ListClaimable(p, age)))
         /\ SF_vars(\E c \in sched[p].listed, w \in Workers, tok \in Tokens, age \in Ages :
                       Of(ClaimJob(p, c, w, tok, age), M!ClaimJob(p, c, w, tok, age),
                          R!ClaimJob(p, c, w, tok, age)))
         /\ WF_vars(part \in Operation /\ EndPass(p))
         /\ WF_vars(part \in Operation /\ CancelCommit(p))
         /\ WF_vars(part \in Operation /\ Restart(p))
    /\ \A w \in Workers :
         /\ WF_vars(\E age \in Ages : Of(Dispatch(w, age), M!Dispatch(w, age), R!Dispatch(w, age)))
         /\ WF_vars(\E age \in Ages : Of(Complete(w, age) \/ Fail(w, age),
                                         M!Complete(w, age) \/ M!Fail(w, age),
                                         R!Complete(w, age) \/ R!Fail(w, age)))
    /\ WF_queueVars(part = "schedule" /\ S!ProcessJobsOnce)
    /\ WF_queueVars(part = "schedule" /\ \E j \in S!Ids : S!End(j))
    /\ \A t \in {w1, w2, t1} : WF_gateVars(part = "gate" /\ G!Step(t)) /\ SF_gateVars(part = "gate" /\ G!Fence(t))
    /\ \A t \in {w1, w2} : /\ SF_gateVars(part = "gate" /\ G!BeginCheck(t) /\ lock = Free)
                           /\ SF_gateVars(part = "gate" /\ G!TryLock(t) /\ lock = Free)
    /\ WF_gateVars(part = "gate" /\ G!Tick)
    /\ \A p \in B!Procs : WF_backupVars(part = "backups" /\ B!Backup(p))
    /\ WF_backupVars(part = "backups" /\ B!BeginScheduled) /\ WF_backupVars(part = "backups" /\ B!BeginGate)
    /\ WF_backupVars(part = "backups" /\ B!Start) /\ WF_backupVars(part = "backups" /\ B!Tick)
    /\ WF_noteVars(part = "notifications" /\ N!Deliver) /\ SF_noteVars(part = "notifications" /\ N!Monitor)

BackgroundSpec ==
    /\ BackgroundInit
    /\ [][BackgroundNext]_<<vars, queueVars, gateVars, backupVars, noteVars, part>>
    /\ BackgroundFairness

\* Of PreflightGate and JobScheduler: no probe that began before a refusal opens
\* the gate again, unless its lock was lost (RefusalFences); and Vaults are
\* served in turns, the oldest Jobs first (SelectionIsFair)
\* (cloud_preflight_gate.py, select_fair_jobs).
DispatchIsSound == G!TypeOK /\ G!RefusalFences /\ S!TypeOK /\ S!SelectionIsFair

\* What the record of a run says is so: a successful one is stored
\* (SucceededIsStored) and a verified one was restored (VerifiedIsRestored)
\* (run_metadata_backup, _verify_latest_metadata_backup_once).
RunsAreTrue == [](B!TypeOK /\ B!SucceededIsStored) /\ B!VerifiedIsRestored

\* UpgradeIsBackedUp of Backups: the schema changes only when the catalog is
\* backed up (ensure_schema_current).
UpgradesAreBackedUp == B!UpgradeIsBackedUp

\* Of Notifications: an open problem has been mailed for this episode or still
\* will be, unless the delivery worker wrote its result over the next episode
\* (EpisodeIsMailedUnlessRaced); it is mailed so many times at most
\* (AttemptsBounded); and that of a source ends only with a scan that succeeds
\* or its absence (ScanOwnsResolution) (set_problem, deliver_pending_notifications).
EpisodesHold ==
    [](N!TypeOK /\ N!EpisodeIsMailedUnlessRaced /\ N!AttemptsBounded) /\ N!ScanOwnsResolution

\* What is due, and that it has happened, for the part at work.
Due(i) ==
    CASE part \in Operation /\ i = 1 -> jobs[j1].status \in Held
      [] part \in Operation /\ i = 2 -> jobs[j1].status = "queued"
      [] part = "schedule" -> i \in S!Ids /\ queue[i].st = "queued" /\ S!Ready(i)
      [] part = "gate" -> TRUE
      [] part = "backups" /\ i = 1 -> config.key /\ schema = "old"
      [] part = "backups" /\ i = 2 -> B!BackupDue
      [] part = "notifications" /\ i = 1 -> job = "remediated"
      [] part = "notifications" /\ i = 2 -> incident = "resolved"
      [] part = "notifications" /\ i = 3 -> job \notin {"running", "absent"}
      [] OTHER -> FALSE
Happened(i) ==
    CASE part \in Operation /\ i = 1 -> jobs[j1].status \notin Held
      [] part \in Operation /\ i = 2 ->
           jobs[j1].status # "queued" \/ \E w \in Workers : run[w].pc = "working" /\ run[w].job = j1
      [] part = "schedule" -> ~(i \in S!Ids /\ queue[i].st = "queued" /\ S!Ready(i))
      [] part = "gate" /\ i = 1 -> G!DispatchReady(p1) <=> works
      [] part = "gate" /\ i = 2 -> G!DispatchReady(p2) <=> works
      [] part = "backups" /\ i = 1 -> schema = "head"
      [] part = "backups" /\ i = 2 -> B!BackupTaken
      [] part = "notifications" /\ i = 1 -> note["job"].st = "resolved"
      [] part = "notifications" /\ i = 2 -> note["incident"].st = "resolved"
      [] part = "notifications" /\ i = 3 -> note["job"].st # "none"
      [] OTHER -> TRUE

\* No Job stays in a held status or queued (HeldIsTransient, QueuedIsServed), also
\* after a crash, a shutdown or a claim without dispatch; none starves
\* (NoJobStarves); the gate follows the credentials (GateFollows); backups that
\* are due are taken (BackupsHappen); what is over is closed, and a terminal Job
\* notified (OverIsClosed, TerminalIsNotified); and a Source Volume that stays
\* away is reported (LossIsReported).  (`part` does not change, so that one
\* formula speaks of all parts.)
WorkIsDone == (\A i \in 1..3 : Due(i) ~> Happened(i)) /\ N!LossIsReported
=============================================================================
