------------------------ MODULE DirectoryAggregates ------------------------
(***************************************************************************)
(* The directory aggregates of one Vault: a projection of the catalog that *)
(* listings read (services/directory_aggregates.py).                       *)
(*                                                                         *)
(* Every actor works in a transaction at READ COMMITTED: a statement sees  *)
(* what is committed when it runs, and the changes of its own transaction; *)
(* what it writes is there for the others when it commits.  A file is the  *)
(* number of its last change, a rollup the files under a directory.        *)
(***************************************************************************)
EXTENDS Integers, FiniteSets

CONSTANTS
    Files,
    Dirs,
    Above,      \* directories above each file, [Files -> SUBSET Dirs]
    Writers,    \* catalog transactions of scans, Jobs and requests
    Threads,    \* targeted maintenance threads
    Sweep,      \* the sweep of the background loop
    None,
    MaxChanges, \* bound: catalog transactions that change something
    MaxAborts   \* bound: transactions that roll back

VARIABLES
    cat,      \* the catalog, as committed
    agg,      \* directory_aggregates
    marks,    \* directory_aggregate_dirty: <<directory, mark_id>>
    status,   \* directory_aggregate_status: "none", "ready" or "rebuild_required"
    lock,     \* who holds the Vault row
    tx,       \* each actor's transaction
    owner,    \* _vault_maintenance_owners
    pending,  \* _vault_maintenance_pending
    inflight, \* _maintenance_inflight
    changes,  \* transactions that changed something so far
    aborts,
    lost      \* history: a request for a rebuild was overwritten

data == <<cat, agg, marks, status>>
runtime == <<owner, pending, inflight>>
vars == <<data, lock, tx, runtime, changes, aborts, lost>>

Actors == Writers \cup Threads \cup {Sweep}

\* ch, n: the files it changes, to n; bulk: it asks for a rebuild; full, claims,
\* todo, seen: a flush; out, dead, ready: the aggregates it wrote, the marks it
\* deleted, whether it set the status.
NoTx == [pc |-> "idle", ch |-> {}, n |-> 0, bulk |-> FALSE, full |-> FALSE, claims |-> {},
         todo |-> {}, seen |-> <<>>, out |-> <<>>, dead |-> {}, ready |-> FALSE]

Below(d) == {f \in Files : d \in Above[f]}

\* What actor a sees of file f.
Sees(a, f) == IF f \in tx[a].ch THEN tx[a].n ELSE cat[f]

\* _rebuild_directory, of what is seen.
Rollup(a, d) == [f \in Below(d) |-> Sees(a, f)]

Goto(a, pc) == tx' = [tx EXCEPT ![a].pc = pc]
Leave(a) == /\ tx' = [tx EXCEPT ![a] = NoTx]
            /\ lock' = IF lock = a THEN None ELSE lock

(***************************************************************************)
(* Catalog transactions.                                                   *)
(***************************************************************************)

\* mark_path_dirty: every ancestor of a file that changes.
Marked(ch) == UNION {Above[f] : f \in ch}

\* A change of some files: by a Job ("row"); by the watcher, which publishes a
\* revision in the same transaction, with the Vault row when it observed a file
\* ("observe") and without when one is gone ("missing"); or by the end of a scan,
\* which names no path ("bulk").  Each scan publishes a revision of its own
\* ("publish").
Change(a, ch, kind) ==
    /\ tx[a].pc = "idle" /\ changes < MaxChanges
    /\ \A b \in Writers : tx[b].ch \cap ch = {}
    /\ kind = "observe" => lock = None
    /\ changes' = changes + 1
    /\ lock' = IF kind = "observe" THEN a ELSE lock
    /\ tx' = [tx EXCEPT ![a].ch = ch, ![a].n = changes + 1, ![a].bulk = (kind = "bulk"),
                        ![a].pc = CASE kind = "row" -> "commit" [] kind = "bulk" -> "request"
                                    [] OTHER -> "status"]
    /\ UNCHANGED <<data, runtime, aborts, lost>>

\* request_vault_rebuild takes the Vault row.
RequestRebuild(a) ==
    /\ tx[a].pc = "request" /\ lock \in {None, a}
    /\ lock' = a /\ Goto(a, "commit")
    /\ UNCHANGED <<data, runtime, changes, aborts, lost>>

Applied(a) == [f \in Files |-> Sees(a, f)]

Commit(a) ==
    /\ tx[a].pc = "commit"
    /\ cat' = Applied(a)
    /\ marks' = IF tx[a].bulk THEN marks ELSE marks \cup {<<d, tx[a].n>> : d \in Marked(tx[a].ch)}
    /\ status' = IF tx[a].bulk THEN "rebuild_required" ELSE status
    /\ Leave(a)
    /\ UNCHANGED <<agg, runtime, changes, aborts, lost>>

(***************************************************************************)
(* flush_directory_aggregates, in the transaction of a.                    *)
(***************************************************************************)

ReadStatus(a) ==
    /\ tx[a].pc = "status"
    /\ tx' = [tx EXCEPT ![a].full = (status = "rebuild_required"), ![a].pc = "claim"]
    /\ UNCHANGED <<data, lock, runtime, changes, aborts, lost>>

\* _claim_dirty_rows, and the marks of the transaction itself.
ClaimMarks(a) ==
    /\ tx[a].pc = "claim"
    /\ LET mine == IF tx[a].ready THEN {} ELSE Marked(tx[a].ch)
           dirty == {m[1] : m \in marks \ tx[a].dead} \cup mine
       IN  tx' = [tx EXCEPT ![a].claims = marks,
                            ![a].todo = IF tx[a].full THEN Files ELSE dirty,
                            ![a].pc = IF tx[a].full \/ dirty # {} THEN "lock" ELSE "flushed"]
    /\ UNCHANGED <<data, lock, runtime, changes, aborts, lost>>

\* lock_vaults_in_order.
TakeLock(a) ==
    /\ tx[a].pc = "lock" /\ lock \in {None, a}
    /\ lock' = a /\ Goto(a, "read")
    /\ UNCHANGED <<data, runtime, changes, aborts, lost>>

\* _rebuild_directory of one directory; or one page of the files, for a full
\* rebuild (_iter_visible_file_contribution_batches).
ReadOne(a) ==
    /\ tx[a].pc = "read"
    /\ \E x \in tx[a].todo :
         tx' = [tx EXCEPT ![a].todo = @ \ {x},
                          ![a].seen = [y \in DOMAIN @ \cup {x} |->
                              IF y # x THEN @[y] ELSE IF tx[a].full THEN Sees(a, x) ELSE Rollup(a, x)]]
    /\ UNCHANGED <<data, lock, runtime, changes, aborts, lost>>

\* Mutant: the marks of the rebuilt directories go, whoever wrote them.
SettledByPath(a) == IF tx[a].full THEN marks ELSE {m \in marks : m[1] \in DOMAIN tx[a].seen}

\* _delete_claimed_dirty_rows: the marks that were claimed, and no others.
Settled(a) == tx[a].claims

\* rebuild_vault_directory_aggregates, or the directories that were dirty.
Rebuilt(a) ==
    IF tx[a].full THEN [d \in Dirs |-> [f \in Below(d) |-> tx[a].seen[f]]]
    ELSE [d \in DOMAIN tx[a].seen \cup DOMAIN tx[a].out |->
             IF d \in DOMAIN tx[a].seen THEN tx[a].seen[d] ELSE tx[a].out[d]]

\* The aggregates, the deletion of the claims and _mark_status.  Maintenance
\* publishes its revision, which flushes again.
FlushWrite(a) ==
    /\ tx[a].pc = "read" /\ tx[a].todo = {}
    /\ tx' = [tx EXCEPT ![a].out = Rebuilt(a), ![a].dead = @ \cup Settled(a), ![a].seen = <<>>,
                        ![a].claims = {}, ![a].full = FALSE, ![a].ready = TRUE,
                        ![a].pc = IF a \in Writers \/ tx[a].ready THEN "flushed" ELSE "claim"]
    /\ lost' = (lost \/ (status = "rebuild_required" /\ ~tx[a].full /\ ~tx[a].ready))
    /\ UNCHANGED <<data, lock, runtime, changes, aborts>>

After(a) == [NoTx EXCEPT !.pc = IF a \in Writers THEN "idle" ELSE "release"]

FlushCommit(a) ==
    /\ tx[a].pc = "flushed"
    /\ agg' = [d \in Dirs |-> IF d \in DOMAIN tx[a].out THEN tx[a].out[d] ELSE agg[d]]
    /\ marks' = marks \ tx[a].dead
    /\ status' = IF tx[a].ready THEN "ready" ELSE status
    /\ cat' = Applied(a)
    /\ lock' = IF lock = a THEN None ELSE lock
    /\ tx' = [tx EXCEPT ![a] = After(a)]
    /\ UNCHANGED <<runtime, changes, aborts, lost>>

\* A transaction is rolled back.  A writer's change is gone; maintenance fails,
\* or runs again as the owner it is (retry_database_unit).
Abort(a) ==
    /\ tx[a].pc \in {"commit", "request", "status", "claim", "lock", "read", "flushed"}
    /\ aborts < MaxAborts /\ aborts' = aborts + 1
    /\ lock' = IF lock = a THEN None ELSE lock
    /\ \/ tx' = [tx EXCEPT ![a] = After(a)]
       \/ a \notin Writers /\ tx' = [tx EXCEPT ![a] = [NoTx EXCEPT !.pc = "status"]]
    /\ UNCHANGED <<data, runtime, changes, lost>>

(***************************************************************************)
(* Scheduling of maintenance.                                              *)
(***************************************************************************)

\* schedule_directory_aggregate_maintenance(vault_id), with actor a going on at pc.
Schedule(now, a, pc) ==
    /\ UNCHANGED owner
    /\ LET rest == IF a = None THEN now ELSE [now EXCEPT ![a].pc = pc]
       IN  \/ /\ owner # None \/ inflight # None
              /\ pending' = TRUE /\ tx' = rest /\ UNCHANGED inflight
           \/ /\ owner = None /\ inflight = None
              /\ \E t \in Threads : /\ rest[t].pc = "idle" /\ inflight' = t
                                    /\ tx' = [rest EXCEPT ![t].pc = "try"]
              /\ UNCHANGED pending

\* ensure_directory_aggregates: a listing asks for maintenance.  The first one
\* requests the rebuild, and schedules it before its transaction commits.
Listing ==
    /\ status = "rebuild_required" \/ (status = "ready" /\ marks # {})
    /\ Schedule(tx, None, "")
    /\ UNCHANGED <<data, lock, changes, aborts, lost>>

FirstListing(a) ==
    /\ tx[a].pc = "idle" /\ status = "none" /\ lock = None
    /\ lock' = a
    /\ Schedule([tx EXCEPT ![a].bulk = TRUE], a, "commit")
    /\ UNCHANGED <<data, changes, aborts, lost>>

Wanted(a) ==
    \/ a \in Threads /\ tx[a].pc = "try"
    \/ a = Sweep /\ tx[a].pc = "idle" /\ (status = "rebuild_required" \/ marks # {})

Ends(a) == IF a = Sweep THEN "idle" ELSE "handoff"

\* Mutant: a sweep does not look for an owner.
TryClaimSweep(a) ==
    /\ Wanted(a)
    /\ IF owner = None \/ a = Sweep
       THEN owner' = a /\ Goto(a, "status") /\ UNCHANGED pending
       ELSE pending' = TRUE /\ Goto(a, Ends(a)) /\ UNCHANGED owner
    /\ UNCHANGED <<data, lock, inflight, changes, aborts, lost>>

\* process_directory_aggregate_maintenance claims the Vault.
TryClaim(a) ==
    /\ Wanted(a)
    /\ IF owner = None
       THEN owner' = a /\ Goto(a, "status") /\ UNCHANGED pending
       ELSE pending' = TRUE /\ Goto(a, Ends(a)) /\ UNCHANGED owner
    /\ UNCHANGED <<data, lock, inflight, changes, aborts, lost>>

\* Mutant: an owner that is asked for a follow-up keeps the Vault for it.
ReleaseKept(a) ==
    /\ tx[a].pc = "release"
    /\ owner' = IF owner = a /\ ~pending THEN None ELSE owner
    /\ pending' = FALSE
    /\ Goto(a, IF pending THEN "again" ELSE Ends(a))
    /\ UNCHANGED <<data, lock, inflight, changes, aborts, lost>>

\* _release_vault_maintenance.
Release(a) ==
    /\ tx[a].pc = "release"
    /\ owner' = IF owner = a THEN None ELSE owner
    /\ pending' = FALSE
    /\ Goto(a, IF pending THEN "again" ELSE Ends(a))
    /\ UNCHANGED <<data, lock, inflight, changes, aborts, lost>>

Again(a) ==
    /\ tx[a].pc = "again" /\ Schedule(tx, a, Ends(a))
    /\ UNCHANGED <<data, lock, changes, aborts, lost>>

\* Mutant: the slot is given up without a look at what is pending.
HandoffBlind(t) ==
    /\ tx[t].pc = "handoff"
    /\ inflight' = IF inflight = t THEN None ELSE inflight
    /\ Goto(t, "idle")
    /\ UNCHANGED <<data, lock, owner, pending, changes, aborts, lost>>

\* _run_scheduled_maintenance: the slot and what is pending, in one step.
Handoff(t) ==
    /\ tx[t].pc = "handoff"
    /\ inflight' = IF inflight = t THEN None ELSE inflight
    /\ pending' = IF inflight = t THEN FALSE ELSE pending
    /\ Goto(t, IF inflight = t /\ pending THEN "follow" ELSE "idle")
    /\ UNCHANGED <<data, lock, owner, changes, aborts, lost>>

Follow(t) ==
    /\ tx[t].pc = "follow" /\ Schedule(tx, t, "idle")
    /\ UNCHANGED <<data, lock, changes, aborts, lost>>

Init ==
    /\ cat = [f \in Files |-> 0]
    /\ agg = [d \in Dirs |-> [f \in Below(d) |-> 0]]
    /\ marks = {} /\ status \in {"none", "ready"} /\ lock = None
    /\ tx = [a \in Actors |-> NoTx]
    /\ owner = None /\ pending = FALSE /\ inflight = None
    /\ changes = 0 /\ aborts = 0 /\ lost = FALSE

Flush(a) == ReadStatus(a) \/ ClaimMarks(a) \/ TakeLock(a) \/ ReadOne(a)
            \/ FlushWrite(a) \/ FlushCommit(a)
Step(a) == Flush(a) \/ RequestRebuild(a) \/ Commit(a)
Maintain(a) == Flush(a) \/ TryClaim(a) \/ Release(a) \/ Again(a) \/ Handoff(a) \/ Follow(a)

Next ==
    \/ \E a \in Writers :
         \/ \E f \in Files, kind \in {"row", "observe", "missing"} : Change(a, {f}, kind)
         \/ Change(a, Files, "bulk")
         \/ Change(a, {}, "publish")
         \/ FirstListing(a)
         \/ Step(a)
    \/ \E a \in Threads \cup {Sweep} : Maintain(a)
    \/ \E a \in Actors : Abort(a)
    \/ Listing

\* Transactions and threads go on, the sweep runs in every turn of the loop.
Fairness ==
    /\ \A a \in Writers : WF_vars(Step(a))
    /\ \A a \in Threads \cup {Sweep} : WF_vars(Maintain(a))

Spec == Init /\ [][Next]_vars /\ Fairness

(***************************************************************************)
(* Properties.                                                             *)
(***************************************************************************)

Shown(d) == [f \in Below(d) |-> cat[f]]

\* Types; flushes of maintenance exclude each other in the process.
TypeOK ==
    /\ status \in {"none", "ready", "rebuild_required"}
    /\ lock \in Actors \cup {None} /\ owner \in Threads \cup {Sweep, None}
    /\ Cardinality({a \in Threads \cup {Sweep} : tx[a].pc \in {"status", "claim", "lock", "read", "flushed"}}) <= 1

\* A directory whose rollup is not what the catalog says has a durable mark, or
\* the Vault a request for a rebuild: a change that commits while a flush is
\* between its reads is not forgotten with the marks the flush deletes.
StaleIsMarkedUnlessLost ==
    \A d \in Dirs : agg[d] # Shown(d) =>
        \/ \E m \in marks : m[1] = d
        \/ status = "rebuild_required"
        \/ lost

\* The same without the exception.  "Unclaimed Vaults keep durable dirty/rebuild
\* rows for the owner currently in flight or the next schedule/background pass",
\* says process_directory_aggregate_maintenance.
StaleIsMarked ==
    \A d \in Dirs : agg[d] # Shown(d) =>
        (\E m \in marks : m[1] = d) \/ status = "rebuild_required"

\* What is pending has someone to take it over: "no stranded follow-up".
NoStrandedFollowUp == pending => owner # None \/ inflight # None

\* Once the catalog is quiet, the aggregates show what it says.
AggregatesConverge == <>[](lost \/ \A d \in Dirs : agg[d] = Shown(d))
=============================================================================
