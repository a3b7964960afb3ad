----------------------------- MODULE CloudPurge -----------------------------
(***************************************************************************)
(* Deleting cloud content: the seven-day consent of the Owner              *)
(* (services/cloud_deletion.py), its execution as one leased group of Jobs *)
(* (process_cloud_purge, catalog.claim_purge_group), its reconciliation    *)
(* after a restart, and stopping the protection of a folder                *)
(* (services/protection_stop.py).                                          *)
(*                                                                         *)
(* One Vault.  A file has at most two objects: the version it starts with  *)
(* and one that another writer may put.  The catalog holds the Jobs and    *)
(* items of the latest group only; every Vault transaction holds the row   *)
(* lock of the Vault and is one step.                                      *)
(***************************************************************************)
EXTENDS Integers, FiniteSets

CONSTANTS
    Files,
    Workers,
    NoWorker,
    MaxGroups,  \* bound: deletions requested
    MaxEdits,   \* bound: files put back and versions put by others
    MaxFaults   \* bound: crashes, errors, lost answers and leases

ASSUME CloudPurgeAssumption ==
    /\ NoWorker \notin Workers
    /\ MaxGroups \in Nat /\ MaxEdits \in Nat /\ MaxFaults \in Nat

VARIABLES
    disk,    \* files present on the server
    seen,    \* files local_copies says are present
    store,   \* objects in the bucket
    known,   \* archive_versions.availability
    group,   \* [n, origin, due]: the latest group
    jobs,    \* its Jobs: status, claim token, and whether the lease is live
    items,   \* its cloud_deletion_items
    stop,    \* [dec, disp, own]: decommission_state and protection_stops
    worker,  \* worker threads
    net,     \* DeleteObjects requests on their way
    edits,
    faults,
    begun,   \* history: targets some worker was cleared to delete
    spared   \* history: other targets, of groups cancelled before they started

vars == <<disk, seen, store, known, group, jobs, items, stop, worker, net,
          edits, faults, begun, spared>>

Objects == Files \X {1, 2}
Of(S) == S \X {1, 2}

Terminal == {"completed", "failed", "cancelled"}
NoJob == [st |-> "none", tok |-> NoWorker, live |-> FALSE]

Idle == [pc |-> "idle", mine |-> {}, todo |-> {}, sent |-> {}, out |-> "none"]

TypeOK ==
    /\ disk \subseteq Files /\ seen \subseteq Files /\ store \subseteq Objects
    /\ known \in [Objects -> {"none", "available", "missing", "purged"}]
    /\ group \in [n: 0..MaxGroups, origin: {"manual", "stop-protection"}, due: BOOLEAN]
    /\ jobs \in [Files -> [st: {"none", "pending_delay", "queued", "cleaning"} \cup Terminal,
                           tok: Workers \cup {NoWorker}, live: BOOLEAN]]
    /\ items \in [Objects -> {"none", "pending", "deleted", "failed", "skipped"}]
    /\ stop \in [dec: {"active", "decommissioning", "decommissioned"},
                 disp: {"none", "keep", "delete"}, own: BOOLEAN]
    /\ worker \in [Workers -> [pc: {"idle", "load", "check", "send", "wait", "mark", "final"},
                               mine: SUBSET Files, todo: SUBSET Objects,
                               sent: SUBSET Objects, out: {"none", "gone", "error"}]]
    /\ net \subseteq [w: Workers, o: Objects]
    /\ edits \in 0..MaxEdits /\ faults \in 0..MaxFaults
    /\ begun \subseteq Objects /\ spared \subseteq Objects

Members == {f \in Files : jobs[f].st # "none"}
Active == {f \in Members : jobs[f].st \notin Terminal}

\* _versions and _markers: what the catalog still counts.
Versions(f) == {o \in Of({f}) : known[o] \in {"available", "missing"}}

\* av: the newest of them, available.
LatestAvailable(f) ==
    LET n == IF <<f, 2>> \in Versions(f) THEN 2 ELSE 1 IN known[<<f, n>>] = "available"

\* _validate_files and require_local_absence.
Deletable(f) == f \notin seen /\ f \notin disk /\ LatestAvailable(f)

Fault == faults < MaxFaults /\ faults' = faults + 1

(***************************************************************************)
(* Consent.                                                                *)
(***************************************************************************)

\* Another request cleared the objects from the history of spared ones.
Group(S, origin) ==
    /\ group' = [n |-> group.n + 1, origin |-> origin, due |-> FALSE]
    /\ jobs' = [f \in Files |-> IF f \in S THEN [NoJob EXCEPT !.st = "pending_delay"] ELSE NoJob]
    /\ items' = [o \in Objects |-> IF o \in UNION {Versions(f) : f \in S}
                                   THEN "pending" ELSE "none"]
    /\ spared' = spared \ UNION {Versions(f) : f \in S}

\* schedule_cloud_purge: the Owner typed the name of the Vault.
Schedule(S) ==
    /\ S # {} /\ stop.dec = "active" /\ Active = {} /\ group.n < MaxGroups
    /\ \A f \in S : Versions(f) # {} /\ Deletable(f)
    /\ Group(S, "manual")
    /\ UNCHANGED <<disk, seen, store, known, stop, worker, net, edits, faults, begun>>

\* The seven days pass.
DelayElapses ==
    /\ Active # {} /\ ~group.due
    /\ group' = [group EXCEPT !.due = TRUE]
    /\ UNCHANGED <<disk, seen, store, known, jobs, items, stop, worker, net,
                   edits, faults, spared, begun>>

\* Mutant: only the Job of the file that came back is cancelled.
CancelRowsPresent(S) ==
    LET P == S \cap disk
    IN  /\ jobs' = [f \in Files |-> IF f \in P THEN [NoJob EXCEPT !.st = "cancelled"] ELSE jobs[f]]
        /\ items' = [o \in Objects |-> IF o \in Of(P) /\ items[o] \in {"pending", "failed"}
                                       THEN "skipped" ELSE items[o]]

\* Mutant: items get the status of the Job.
CancelRowsAlike(S) ==
    /\ jobs' = [f \in Files |-> IF f \in S THEN [NoJob EXCEPT !.st = "cancelled"] ELSE jobs[f]]
    /\ items' = [o \in Objects |-> IF o \in Of(S) THEN "cancelled" ELSE items[o]]

\* _cancel_rows of the members S.
CancelRows(S) ==
    /\ jobs' = [f \in Files |-> IF f \in S THEN [NoJob EXCEPT !.st = "cancelled"] ELSE jobs[f]]
    /\ items' = [o \in Objects |-> IF o \in Of(S) /\ items[o] \in {"pending", "failed"}
                                   THEN "skipped" ELSE items[o]]

\* The guard of cancel_cloud_deletion.
Cancellable ==
    /\ Members # {}
    /\ \A f \in Members : jobs[f].st = "pending_delay" /\ jobs[f].tok = NoWorker

\* cancel_cloud_deletion, with what it spares.
CancelGroup ==
    /\ CancelRows(Members)
    /\ spared' = spared \cup {o \in Objects : items[o] = "pending" /\ o \notin begun}

\* cancel_job_group for a deletion.
Cancel ==
    /\ Cancellable /\ group.origin = "manual"
    /\ CancelGroup
    /\ UNCHANGED <<disk, seen, store, known, group, stop, worker, net, edits, faults, begun>>

(***************************************************************************)
(* The folder, the bucket, and what the catalog learns of them.            *)
(***************************************************************************)

PutFile(f) ==
    /\ f \notin disk /\ edits < MaxEdits /\ edits' = edits + 1
    /\ disk' = disk \cup {f}
    /\ UNCHANGED <<seen, store, known, group, jobs, items, stop, worker, net,
                   faults, spared, begun>>

RemoveFile(f) ==
    /\ f \in disk
    /\ disk' = disk \ {f}
    /\ UNCHANGED <<seen, store, known, group, jobs, items, stop, worker, net,
                   edits, faults, spared, begun>>

\* observe_local_copy: a reappeared file revokes a pending consent for good.
Observe(f) ==
    /\ stop.dec = "active" /\ (f \in disk) # (f \in seen)
    /\ IF f \in disk
       THEN /\ seen' = seen \cup {f}
            /\ IF jobs[f].st = "pending_delay"
               THEN Cancellable /\ CancelGroup
               ELSE UNCHANGED <<jobs, items, spared>>
       ELSE seen' = seen \ {f} /\ UNCHANGED <<jobs, items, spared>>
    /\ UNCHANGED <<disk, store, known, group, stop, worker, net, edits, faults, begun>>

\* Another writer of the prefix.
ForeignPut(f) ==
    /\ known[<<f, 2>>] = "none" /\ <<f, 2>> \notin store
    /\ edits < MaxEdits /\ edits' = edits + 1
    /\ store' = store \cup {<<f, 2>>}
    /\ UNCHANGED <<disk, seen, known, group, jobs, items, stop, worker, net,
                   faults, spared, begun>>

\* scan_cloud records what is listed and marks what is not.
CloudScan ==
    /\ stop.dec = "active"
    /\ known' = [o \in Objects |->
                    CASE o \in store /\ known[o] \in {"none", "missing"} -> "available"
                      [] o \notin store /\ known[o] = "available" -> "missing"
                      [] OTHER -> known[o]]
    /\ known' # known
    /\ UNCHANGED <<disk, seen, store, group, jobs, items, stop, worker, net,
                   edits, faults, spared, begun>>

(***************************************************************************)
(* Execution.                                                              *)
(***************************************************************************)

Owned(w, f) == jobs[f].st = "cleaning" /\ jobs[f].tok = w /\ jobs[f].live

\* renew_purge_group_claim: exactly the members that were claimed.
Renewed(w) == {f \in Files : Owned(w, f)} = worker[w].mine

\* _purge_job_is_runnable.
Runnable(f) ==
    ~jobs[f].live /\ (jobs[f].st = "queued" \/ (jobs[f].st = "pending_delay" /\ group.due))

\* Mutant: an interrupted member is claimed without the rest of its group.
ClaimSome == {f \in Active : Runnable(f) \/ (jobs[f].st = "cleaning" /\ ~jobs[f].live)}

\* claim_purge_group: all active members or none.
ClaimGroup == IF \A f \in Active : Runnable(f) THEN Active ELSE {}

\* process_jobs_once hands a due group to a worker.
Claim(w) ==
    /\ worker[w].pc = "idle" /\ ClaimGroup # {}
    /\ stop.dec = "active" \/ group.origin = "stop-protection"
    /\ jobs' = [f \in Files |-> IF f \in ClaimGroup THEN [st |-> "cleaning", tok |-> w, live |-> TRUE]
                                ELSE jobs[f]]
    /\ worker' = [worker EXCEPT ![w] = [Idle EXCEPT !.pc = "load", !.mine = ClaimGroup]]
    /\ UNCHANGED <<disk, seen, store, known, group, items, stop, net, edits,
                   faults, spared, begun>>

\* validate_execution for one member: only confirmed content, all of it
\* confirmed, and no file that came back.
Authorized(f) ==
    LET mine == {o \in Of({f}) : items[o] # "none"}
    IN  /\ f \notin disk
        /\ Versions(f) # {} => Deletable(f)
        /\ mine # {} /\ Versions(f) \subseteq mine
        /\ Versions(f) = {} => \A o \in mine : items[o] = "deleted"

\* validate_execution.
Valid ==
    /\ Active # {} /\ group.due
    /\ \/ stop.dec = "active" /\ group.origin = "manual"
       \/ stop.dec = "decommissioning" /\ stop.disp = "delete" /\ stop.own
          /\ group.origin = "stop-protection"
    /\ \A f \in Active : Authorized(f)

Leave(w) == worker' = [worker EXCEPT ![w] = Idle]

\* A worker that finds its lease lost writes nothing more.
Lost(w) == Leave(w) /\ UNCHANGED <<known, jobs, items, faults>>

\* Consent that no longer holds (or cannot be confirmed) is revoked.
Revoke(w) == CancelRows(Active) /\ Leave(w) /\ UNCHANGED known

\* load_claimed_purge_group: every active member, still claimed by w.
Claimed(w) == IF \A f \in Active : Owned(w, f) THEN Active ELSE {}

\* The first validation, and what is left to delete.
Load(w) ==
    /\ worker[w].pc = "load"
    /\ \/ ~Valid /\ Revoke(w) /\ UNCHANGED faults
       \/ Valid /\ Fault /\ Revoke(w)
       \/ /\ Valid
          /\ IF Claimed(w) # {}
             THEN worker' = [worker EXCEPT ![w].pc = "check", ![w].mine = Claimed(w),
                    ![w].todo = {o \in Of(Active) : items[o] \in {"pending", "failed"}}]
             ELSE Leave(w)
          /\ UNCHANGED <<known, jobs, items, faults>>
    /\ UNCHANGED <<disk, seen, store, group, stop, net, edits, spared, begun>>

\* validate_cloud_vault is blocked: _release_preflight_purge_claim.
Blocked(w) ==
    /\ worker[w].pc = "check" /\ worker[w].sent = {} /\ Fault
    /\ jobs' = [f \in Files |-> IF Owned(w, f) THEN [NoJob EXCEPT !.st = "queued"] ELSE jobs[f]]
    /\ Leave(w)
    /\ UNCHANGED <<disk, seen, store, known, group, items, stop, net, edits, spared, begun>>

\* Before every batch the consent is validated and the claim renewed.
Check(w) ==
    /\ worker[w].pc = "check"
    /\ IF worker[w].todo = {}
       THEN /\ worker' = [worker EXCEPT ![w].pc = "final"]
            /\ UNCHANGED <<known, jobs, items, faults, begun>>
       ELSE \/ ~Valid /\ Revoke(w) /\ UNCHANGED <<faults, begun>>
            \/ Valid /\ ~Renewed(w) /\ Lost(w) /\ UNCHANGED begun
            \/ /\ Valid /\ Renewed(w)
               /\ \E o \in worker[w].todo :
                    /\ worker' = [worker EXCEPT ![w].pc = "send", ![w].todo = @ \ {o},
                                                ![w].sent = {o}]
                    /\ begun' = begun \cup {o}
               /\ UNCHANGED <<known, jobs, items, faults>>
    /\ UNCHANGED <<disk, seen, store, group, stop, net, edits, spared>>

Send(w) ==
    /\ worker[w].pc = "send"
    /\ net' = net \cup {[w |-> w, o |-> o] : o \in worker[w].sent}
    /\ worker' = [worker EXCEPT ![w].pc = "wait"]
    /\ UNCHANGED <<disk, seen, store, known, group, jobs, items, stop, edits,
                   faults, spared, begun>>

\* The outcome a worker that still waits for r is told.
Told(r, out) ==
    worker' = IF worker[r.w].pc = "wait" /\ r.o \in worker[r.w].sent
              THEN [worker EXCEPT ![r.w].pc = "mark", ![r.w].out = out] ELSE worker

\* S3 deletes the version, rejects the request, or its answer is lost.
Delete(r) ==
    /\ r \in net
    /\ net' = net \ {r}
    /\ \/ store' = store \ {r.o} /\ Told(r, "gone") /\ UNCHANGED faults
       \/ store' = store \ {r.o} /\ Told(r, "error") /\ Fault
       \/ Told(r, "error") /\ Fault /\ UNCHANGED store
    /\ UNCHANGED <<disk, seen, known, group, jobs, items, stop, edits, spared, begun>>

\* The client gives up; the request may still be executed.
Timeout(w) ==
    /\ worker[w].pc = "wait" /\ Fault
    /\ worker' = [worker EXCEPT ![w].pc = "mark", ![w].out = "error"]
    /\ UNCHANGED <<disk, seen, store, known, group, jobs, items, stop, net, edits, spared, begun>>

\* Mutant: the answer is taken for success without looking at its errors.
MarkAllItems(gone, failed) ==
    /\ items' = [o \in Objects |-> IF o \in gone \cup failed THEN "deleted" ELSE items[o]]
    /\ known' = [o \in Objects |-> IF o \in gone \cup failed THEN "purged" ELSE known[o]]

\* mark_items_deleted and mark_items_failed.
MarkItems(gone, failed) ==
    /\ items' = [o \in Objects |-> IF o \in gone THEN "deleted"
                                   ELSE IF o \in failed THEN "failed" ELSE items[o]]
    /\ known' = [o \in Objects |-> IF o \in gone THEN "purged" ELSE known[o]]

\* The outcome of a batch is recorded behind another renewal.
Mark(w) ==
    /\ worker[w].pc = "mark"
    /\ \/ ~Renewed(w) /\ Lost(w)
       \/ /\ Renewed(w)
          /\ LET gone == IF worker[w].out = "gone" THEN worker[w].sent ELSE {}
             IN  MarkItems(gone, worker[w].sent \ gone)
          /\ worker' = [worker EXCEPT ![w].pc = "check", ![w].out = "none"]
          /\ UNCHANGED <<jobs, faults>>
    /\ UNCHANGED <<disk, seen, store, group, stop, net, edits, spared, begun>>

\* finalize_purge_job.
Outcome(f) ==
    IF \A o \in Of({f}) : items[o] \in {"none", "deleted"} THEN "completed" ELSE "failed"

Finalize(w) ==
    /\ worker[w].pc = "final"
    /\ \/ ~Renewed(w) /\ Lost(w)
       \/ /\ Renewed(w)
          /\ jobs' = [f \in Files |-> IF f \in worker[w].mine
                                      THEN [NoJob EXCEPT !.st = Outcome(f)] ELSE jobs[f]]
          /\ Leave(w)
          /\ UNCHANGED <<known, items, faults>>
    /\ UNCHANGED <<disk, seen, store, group, stop, net, edits, spared, begun>>

\* An exception of the handler fails the leading Job only.
Raise(w) ==
    /\ worker[w].pc \notin {"idle", "wait"} /\ Fault
    /\ \E f \in worker[w].mine :
         jobs' = IF Owned(w, f) THEN [jobs EXCEPT ![f] = [NoJob EXCEPT !.st = "failed"]] ELSE jobs
    /\ Leave(w)
    /\ UNCHANGED <<disk, seen, store, known, group, items, stop, net, edits, spared, begun>>

\* The process dies, its requests do not.
Crash(w) ==
    /\ worker[w].pc # "idle" /\ Fault
    /\ Leave(w)
    /\ UNCHANGED <<disk, seen, store, known, group, jobs, items, stop, net, edits, spared, begun>>

Orphaned(f) == jobs[f].live /\ f \notin worker[jobs[f].tok].mine

\* Without its worker a lease runs out; under a live worker the heartbeat
\* renews only the leading Job, so that one member may run out alone.
Expire(f) ==
    /\ jobs[f].live
    /\ IF Orphaned(f) THEN UNCHANGED faults ELSE Fault
    /\ jobs' = [jobs EXCEPT ![f].live = FALSE]
    /\ UNCHANGED <<disk, seen, store, known, group, items, stop, worker, net, edits, spared, begun>>

\* _object_version_entries no longer lists the target.
Absent(o) == items[o] = "pending" /\ o \notin store

\* Mutant: settled members keep their group from being reconciled.
InterruptedWhole == \A f \in Members : ~jobs[f].live /\ jobs[f].st \in {"cleaning", "queued"}

\* No live claim, and nobody waits for the delay.
Interrupted == \A f \in Active : ~jobs[f].live /\ jobs[f].st \in {"cleaning", "queued"}

\* _reconcile_cloud_purge_group.
Reconcile ==
    LET J == {f \in Active : jobs[f].st = "cleaning"}
    IN  /\ J # {} /\ Interrupted
        /\ \/ /\ \E o \in Of(J) : items[o] = "failed"
              /\ jobs' = [f \in Files |-> IF f \in J THEN [NoJob EXCEPT !.st = "failed"] ELSE jobs[f]]
              /\ UNCHANGED <<known, items, faults>>
           \/ /\ \A o \in Of(J) : items[o] # "failed"
              /\ jobs' = [f \in Files |-> IF f \in J THEN [NoJob EXCEPT !.st = "queued"] ELSE jobs[f]]
              /\ MarkItems({o \in Of(J) : Absent(o)}, {})
              /\ UNCHANGED faults
           \/ /\ Fault
              /\ jobs' = [f \in Files |-> IF f \in J THEN [NoJob EXCEPT !.st = "failed"] ELSE jobs[f]]
              /\ UNCHANGED <<known, items>>
        /\ UNCHANGED <<disk, seen, store, group, stop, worker, net, edits, spared, begun>>

(***************************************************************************)
(* Stopping protection.                                                    *)
(***************************************************************************)

\* stop_protection.  Without a selection the root is released at once, by the
\* reconcile_one at its end; so it is when the cloud content is kept.
StopProtection(disp) ==
    LET S == {f \in Files : Versions(f) # {}}
        own == disp = "delete" /\ S # {}
    IN  /\ stop.dec = "active" /\ Active = {}
        /\ IF own
           THEN /\ group.n < MaxGroups /\ \A f \in S : Deletable(f)
                /\ Group(S, "stop-protection")
           ELSE UNCHANGED <<group, jobs, items, spared>>
        /\ stop' = [dec |-> IF own THEN "decommissioning" ELSE "decommissioned",
                    disp |-> disp, own |-> own]
        /\ UNCHANGED <<disk, seen, store, known, worker, net, edits, faults, begun>>

\* stop_protection called again, to keep what a failed deletion left.
KeepAfterFailure ==
    /\ stop.dec = "decommissioning" /\ stop.disp = "delete" /\ Active = {}
    /\ stop' = [stop EXCEPT !.dec = "decommissioned", !.disp = "keep"]
    /\ UNCHANGED <<disk, seen, store, known, group, jobs, items, worker, net,
                   edits, faults, spared, begun>>

\* cancel_deletion.
CancelStopped ==
    /\ stop.dec = "decommissioning" /\ stop.own /\ Cancellable
    /\ CancelGroup
    /\ stop' = [stop EXCEPT !.dec = "decommissioned", !.disp = "keep"]
    /\ UNCHANGED <<disk, seen, store, known, group, worker, net, edits, faults, begun>>

\* Mutant: a root is released when no member has failed.
SettledUnlessFailed == \A f \in Members : jobs[f].st # "failed"

\* Mutant: a revoked deletion holds the root.
SettledIfCompleted == Members # {} /\ \A f \in Members : jobs[f].st = "completed"

Settled == Members # {} /\ \A f \in Members : jobs[f].st \in {"completed", "cancelled"}

\* reconcile_one: a failed deletion waits for the Owner.
ReleaseRoot ==
    /\ stop.dec = "decommissioning"
    /\ stop.disp = "delete" => Settled
    /\ stop' = [stop EXCEPT !.dec = "decommissioned",
                  !.disp = IF \E f \in Members : jobs[f].st = "cancelled" THEN "keep" ELSE @]
    /\ UNCHANGED <<disk, seen, store, known, group, jobs, items, worker, net,
                   edits, faults, spared, begun>>

Init ==
    /\ disk = {} /\ seen = {}
    /\ store = Files \X {1}
    /\ known = [o \in Objects |-> IF o[2] = 1 THEN "available" ELSE "none"]
    /\ group = [n |-> 0, origin |-> "manual", due |-> FALSE]
    /\ jobs = [f \in Files |-> NoJob]
    /\ items = [o \in Objects |-> "none"]
    /\ stop = [dec |-> "active", disp |-> "none", own |-> FALSE]
    /\ worker = [w \in Workers |-> Idle]
    /\ net = {} /\ edits = 0 /\ faults = 0 /\ begun = {} /\ spared = {}

WorkerStep(w) == Load(w) \/ Check(w) \/ Send(w) \/ Mark(w) \/ Finalize(w)
Arrive == \E r \in net : Delete(r)

Next ==
    \/ \E S \in SUBSET Files : Schedule(S)
    \/ DelayElapses \/ Cancel \/ CloudScan
    \/ \E f \in Files : PutFile(f) \/ RemoveFile(f) \/ Observe(f) \/ ForeignPut(f) \/ Expire(f)
    \/ \E w \in Workers : Claim(w) \/ WorkerStep(w) \/ Blocked(w) \/ Timeout(w)
                          \/ Raise(w) \/ Crash(w)
    \/ Arrive \/ Reconcile
    \/ \E disp \in {"keep", "delete"} : StopProtection(disp)
    \/ KeepAfterFailure \/ CancelStopped \/ ReleaseRoot

\* The scheduler and the sweep poll, threads go on, requests arrive, leases
\* run out, reconcile_all is periodic, and time passes.
Fairness ==
    /\ WF_vars(DelayElapses) /\ WF_vars(\E w \in Workers : Claim(w))
    /\ \A w \in Workers : WF_vars(WorkerStep(w))
    /\ WF_vars(Arrive) /\ WF_vars(Reconcile) /\ WF_vars(ReleaseRoot)
    /\ \A f \in Files : WF_vars(Expire(f) /\ Orphaned(f))

Spec == Init /\ [][Next]_vars /\ Fairness

(***************************************************************************)
(* Properties.                                                             *)
(***************************************************************************)

\* A version the catalog calls purged, or an item it calls deleted, is not in
\* the bucket: not after a lost answer, a timeout, a rejected target or the
\* listing of an interrupted group.
PurgedIsGone ==
    \A o \in Objects : known[o] = "purged" \/ items[o] = "deleted" => o \notin store

\* A deletion cancelled before it started, by the Owner or because a file came
\* back, deletes nothing: no request for its targets is on the way or follows,
\* until the Owner confirms them again.
SparedStays ==
    /\ spared \subseteq store
    /\ \A r \in net : r.o \notin spared

\* As long as one of its leases is live, a worker about to delete acts on
\* consent that is due, not revoked and complete: no other worker has claimed
\* or settled any member of its group since it was cleared.
DeletesAuthorized ==
    \A w \in Workers :
        worker[w].pc = "send" /\ (\E f \in worker[w].mine : jobs[f].tok = w /\ jobs[f].live) =>
            /\ group.due /\ worker[w].mine = Active
            /\ \A f \in worker[w].mine : jobs[f].tok = w
            /\ \A o \in worker[w].sent : items[o] \in {"pending", "failed"}
            /\ stop.dec = "active" <=> group.origin = "manual"

\* A group is not split: its members wait for their delay together, so that
\* the cancellation inside an observation cannot fail, and live leases of two
\* workers are never held at once.
GroupWhole ==
    /\ (\E f \in Members : jobs[f].st = "pending_delay") => Cancellable
    /\ \A f, g \in Active : jobs[f].live /\ jobs[g].live => jobs[f].tok = jobs[g].tok

\* The root of a stopped folder is released only when no Job of its deletion
\* is active; and when it is recorded as deleted, every target is gone.
RootHeld ==
    stop.dec = "decommissioned" =>
        /\ Active = {}
        /\ stop.own /\ stop.disp = "delete" =>
               \A o \in Objects : items[o] # "none" => items[o] = "deleted" /\ o \notin store

\* A requested deletion comes to an end: completed, failed or cancelled, also
\* after crashes, lost leases and errors between its batches.
GroupEnds == Active # {} ~> Active = {}

\* A stopped folder gives its root back, unless a deletion failed and the
\* Owner has to choose.
StopEnds ==
    stop.dec = "decommissioning" ~>
        stop.dec = "decommissioned" \/ \E f \in Members : jobs[f].st = "failed"
=============================================================================
