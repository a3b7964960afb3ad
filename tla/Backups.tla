------------------------------ MODULE Backups ------------------------------
(***************************************************************************)
(* Metadata backups: services/metadata_backups.py, the scheduled backup    *)
(* and its verification in storage.py, the gate before a schema upgrade in *)
(* migrate_on_start.py.                                                    *)
(*                                                                         *)
(* A backup is made in steps by a thread of the maintenance pool, by a     *)
(* request, or by the container's start before a migration.  Its digest    *)
(* stands for its bytes: which backup it is, and the catalog it holds.     *)
(* Its name has the second it was made in and the reason.                  *)
(***************************************************************************)
EXTENDS Integers, Sequences, FiniteSets

CONSTANTS
    Keep,       \* metadata_backup_retention
    Requests,   \* concurrent requests for a manual backup
    MaxSeconds, \* bound: the clock
    MaxMade,    \* bound: artifacts after which no manual backup is requested
    MaxFaults   \* bound: failed commands, failed calls, crashes; and restarts of a
                \* backup that cannot succeed

VARIABLES
    config,   \* whether a bucket (off) and a master key (key) are configured
    now,      \* the clock, in seconds
    catalog,  \* version of the database's content
    schema,   \* "none", "old", "head" or "ahead"
    app,      \* "down", "gate", "migrate" or "up"
    files,    \* the local backup volume: name -> digest
    store,    \* the bucket: name -> digest
    runs,     \* metadata_backup_runs
    proc,     \* the backups in progress
    mark,     \* last_backup of the background loop
    verifier, \* _verify_latest_metadata_backup_once
    made,     \* number of artifacts written so far
    faults,
    clash,    \* history: names that were written twice
    failures  \* history: backups that failed, by reason

disk == <<files, store>>
vars == <<config, now, catalog, schema, app, disk, runs, proc, mark, verifier, made, faults, clash, failures>>

Procs == {"scheduled", "pre_upgrade"} \cup Requests
Reason(p) == IF p \in Requests THEN "manual" ELSE p
Idle == [pc |-> "idle", name |-> <<>>, digest |-> <<>>]
NoVerify == [pc |-> "idle", run |-> 0, name |-> <<>>]

Put(f, k, v) == [x \in DOMAIN f \cup {k} |-> IF x = k THEN v ELSE f[x]]
Goto(p, pc) == proc' = [proc EXCEPT ![p].pc = pc]
Fault == faults < MaxFaults /\ faults' = faults + 1

\* The order of the names: by time, then by reason.
Rank(r) == CASE r = "manual" -> 0 [] r = "pre_upgrade" -> 1 [] r = "scheduled" -> 2
Newer(a, b) == a[1] > b[1] \/ (a[1] = b[1] /\ Rank(a[2]) > Rank(b[2]))

(***************************************************************************)
(* run_metadata_backup.                                                    *)
(***************************************************************************)

\* background_loop: a scheduled backup is due (every second here).  The mark moves
\* on even when _submit_maintenance drops it because the last one still runs.
BeginScheduled ==
    /\ app = "up" /\ now > mark /\ mark' = now
    /\ IF proc["scheduled"].pc = "idle" THEN Goto("scheduled", "create") ELSE UNCHANGED proc
    /\ UNCHANGED <<config, now, catalog, schema, app, disk, runs, verifier, made, faults, clash, failures>>

\* POST /api/general/metadata-backups/run.
BeginManual(p) ==
    /\ app = "up" /\ proc[p].pc = "idle" /\ made < MaxMade /\ failures["manual"] <= MaxFaults
    /\ Goto(p, "create")
    /\ UNCHANGED mark
    /\ UNCHANGED <<config, now, catalog, schema, app, disk, runs, verifier, made, faults, clash, failures>>

\* run_pre_upgrade_backup_gate when a backup is required.
BeginGate ==
    /\ app = "gate" /\ (config.off \/ config.key) /\ proc["pre_upgrade"].pc = "idle"
    /\ failures["pre_upgrade"] <= MaxFaults
    /\ Goto("pre_upgrade", "create")
    /\ UNCHANGED mark
    /\ UNCHANGED <<config, now, catalog, schema, app, disk, runs, verifier, made, faults, clash, failures>>

\* _dump_postgres_bytes, packed and encrypted: no two are alike.
Artifact == <<made + 1, catalog>>

\* create_metadata_backup.
Create(p) ==
    /\ proc[p].pc = "create" /\ config.key
    /\ LET name == <<now, Reason(p)>>
       IN  /\ files' = Put(files, name, Artifact)
           /\ clash' = IF \E q \in Procs : proc[q].name = name \/ \E i \in DOMAIN runs : runs[i].name = name
                       THEN clash \cup {name} ELSE clash
           /\ proc' = [proc EXCEPT ![p] = [pc |-> IF config.off THEN "put" ELSE "rotate",
                                           name |-> name, digest |-> Artifact]]
    /\ made' = made + 1
    /\ UNCHANGED <<config, now, catalog, schema, app, store, runs, mark, verifier, faults, failures>>

\* store_backup_to_object_store: what the file holds now is uploaded, then read
\* back.
PutOff(p) ==
    /\ proc[p].pc = "put" /\ proc[p].name \in DOMAIN files
    /\ store' = Put(store, proc[p].name, files[proc[p].name])
    /\ Goto(p, "readback")
    /\ UNCHANGED <<config, now, catalog, schema, app, files, runs, mark, verifier, made, faults, clash, failures>>

\* Mutant: what was uploaded is taken as stored.
ReadBackNot(p) ==
    /\ proc[p].pc = "readback" /\ Goto(p, "rotate")
    /\ UNCHANGED <<config, now, catalog, schema, app, disk, runs, mark, verifier, made, faults, clash, failures>>

ReadBack(p) ==
    /\ proc[p].pc = "readback" /\ store[proc[p].name] = proc[p].digest
    /\ Goto(p, "rotate")
    /\ UNCHANGED <<config, now, catalog, schema, app, disk, runs, mark, verifier, made, faults, clash, failures>>

\* The bucket holds other bytes than were sent.
Corrupt(n) ==
    /\ Fault /\ \E p \in Procs : proc[p].pc = "readback" /\ proc[p].name = n
    /\ store' = [store EXCEPT ![n] = <<0, 0>>]
    /\ UNCHANGED <<config, now, catalog, schema, app, files, runs, proc, mark, verifier, made, clash, failures>>

\* rotate_local_retention: all but the newest Keep, by name.
Outdated(fs) == {n \in DOMAIN fs : Cardinality({m \in DOMAIN fs : Newer(m, n)}) >= Keep}

Rotate(p) ==
    /\ proc[p].pc = "rotate"
    /\ files' = [n \in DOMAIN files \ Outdated(files) |-> files[n]]
    /\ Goto(p, "record")
    /\ UNCHANGED <<config, now, catalog, schema, app, store, runs, mark, verifier, made, faults, clash, failures>>

\* record_backup_run, stamped when it is written.
Run(p, status) ==
    [reason |-> Reason(p), status |-> status, at |-> now, name |-> proc[p].name, digest |-> proc[p].digest]

\* The caller's transaction commits; the gate opens.
Record(p) ==
    /\ proc[p].pc = "record"
    /\ runs' = Append(runs, Run(p, "succeeded"))
    /\ proc' = [proc EXCEPT ![p] = Idle]
    /\ app' = IF p = "pre_upgrade" THEN "migrate" ELSE app
    /\ UNCHANGED <<config, now, catalog, schema, disk, mark, verifier, made, faults, clash, failures>>

\* No key, a command or a call that fails, a file that another backup rotated
\* away, other bytes read back.
Fails(p) ==
    \/ proc[p].pc = "create" /\ ~config.key /\ UNCHANGED faults
    \/ proc[p].pc = "put" /\ proc[p].name \notin DOMAIN files /\ UNCHANGED faults
    \/ proc[p].pc = "readback" /\ store[proc[p].name] # proc[p].digest /\ UNCHANGED faults
    \/ proc[p].pc \in {"create", "put", "readback"} /\ Fault

\* Mutant: the single-flight entry is kept after a failure.
FailHeld(p) ==
    /\ Fails(p)
    /\ Goto(p, "held")
    /\ failures' = [failures EXCEPT ![Reason(p)] = @ + 1]
    /\ app' = IF p = "pre_upgrade" THEN "down" ELSE app
    /\ UNCHANGED <<config, now, catalog, schema, disk, runs, mark, verifier, made, clash>>

\* The failed run and its notification are written in the transaction that the
\* exception then rolls back.  The gate goes on to write them once more.
Fail(p) ==
    /\ Fails(p)
    /\ proc' = [proc EXCEPT ![p] = IF p = "pre_upgrade" THEN [Idle EXCEPT !.pc = "persist"] ELSE Idle]
    /\ failures' = IF p = "pre_upgrade" THEN failures ELSE [failures EXCEPT ![Reason(p)] = @ + 1]
    /\ UNCHANGED <<config, now, catalog, schema, app, disk, runs, mark, verifier, made, clash>>

\* _persist_pre_upgrade_backup_failure, in a transaction of its own, which may
\* fail; the start is refused either way.
Persist(p) ==
    /\ proc[p].pc = "persist"
    /\ \/ /\ runs' = Append(runs, Run(p, "failed"))
          /\ failures' = [failures EXCEPT ![Reason(p)] = @ + 1]
          /\ UNCHANGED faults
       \/ Fault /\ UNCHANGED <<runs, failures>>
    /\ proc' = [proc EXCEPT ![p] = Idle]
    /\ app' = "down"
    /\ UNCHANGED <<config, now, catalog, schema, disk, mark, verifier, made, clash>>

(***************************************************************************)
(* ensure_schema_current.                                                  *)
(***************************************************************************)

\* initial_maintenance_marks: the loop goes on from the last scheduled run.
Marked ==
    LET at == {runs[i].at : i \in {j \in DOMAIN runs : runs[j].reason = "scheduled"}}
    IN  IF at = {} THEN -1 ELSE CHOOSE t \in at : \A u \in at : t >= u

\* _verify_database_revision_ancestry: what may be upgraded by this build.
Ancestors == {"old", "head"}

\* ensure_schema_current: an unknown or newer revision stops the start.
Boot ==
    /\ app = "down" /\ schema \in Ancestors \cup {"none"}
    /\ app' = CASE schema = "none" -> "migrate" [] schema = "head" -> "up" [] OTHER -> "gate"
    /\ mark' = Marked
    /\ UNCHANGED <<config, now, catalog, schema, disk, runs, proc, verifier, made, faults, clash, failures>>

\* Mutant: without a bucket there is no backup to wait for.
GateOpensLocal ==
    /\ app = "gate" /\ ~config.off /\ proc["pre_upgrade"].pc = "idle"
    /\ app' = "migrate"
    /\ UNCHANGED <<config, now, catalog, schema, disk, runs, proc, mark, verifier, made, faults, clash, failures>>

\* run_pre_upgrade_backup_gate without bucket and key: LOCAL_ONLY_ALLOWED.
GateOpens ==
    /\ app = "gate" /\ ~config.off /\ ~config.key
    /\ app' = "migrate"
    /\ UNCHANGED <<config, now, catalog, schema, disk, runs, proc, mark, verifier, made, faults, clash, failures>>

\* Mutant: the exit code of the upgrade is not looked at.
MigrateUnchecked ==
    /\ app = "migrate" /\ app' = "up"
    /\ \/ schema' = "head" /\ UNCHANGED faults
       \/ Fault /\ UNCHANGED schema
    /\ UNCHANGED <<config, now, catalog, disk, runs, proc, mark, verifier, made, clash, failures>>

\* _alembic_upgrade, which may fail, and the check of the revision after it.
Migrate ==
    /\ app = "migrate"
    /\ \/ schema' = "head" /\ app' = "up" /\ UNCHANGED faults
       \/ Fault /\ app' = "down" /\ UNCHANGED schema
    /\ UNCHANGED <<config, now, catalog, disk, runs, proc, mark, verifier, made, clash, failures>>

(***************************************************************************)
(* _verify_latest_metadata_backup_once.                                    *)
(***************************************************************************)

\* Mutant: the newest artifact stands for the newest run.
ArtifactsNewest(r) == {n \in DOMAIN files : \A m \in DOMAIN files : ~Newer(m, n)}

\* The artifact bound to a run: the one at its path, or one with its digest.
Artifacts(r) ==
    IF r.name \in DOMAIN files /\ files[r.name] = r.digest THEN {r.name}
    ELSE {n \in DOMAIN files : files[n] = r.digest}

Latest ==
    LET ok == {i \in DOMAIN runs : runs[i].status = "succeeded"}
    IN  IF ok = {} THEN 0 ELSE CHOOSE i \in ok : \A j \in ok : i >= j

VerifyBegin ==
    /\ app = "up" /\ verifier.pc = "idle" /\ Latest # 0
    /\ \E n \in Artifacts(runs[Latest]) : verifier' = [pc |-> "restore", run |-> Latest, name |-> n]
    /\ UNCHANGED <<config, now, catalog, schema, app, disk, runs, proc, mark, made, faults, clash, failures>>

\* verify_restore_isolated reads the file again; it may have been rotated away.
Restores == verifier.name \in DOMAIN files

VerifyEnd ==
    /\ verifier.pc = "restore" /\ verifier' = NoVerify
    /\ \/ /\ Restores
          /\ runs' = [runs EXCEPT ![verifier.run].status = "verified"]
          /\ UNCHANGED faults
       \/ ~Restores /\ UNCHANGED <<runs, faults>>
       \/ Fault /\ UNCHANGED runs
    /\ UNCHANGED <<config, now, catalog, schema, app, disk, proc, mark, made, clash, failures>>

(***************************************************************************)
(* The rest of the world.                                                  *)
(***************************************************************************)

Tick ==
    /\ now < MaxSeconds /\ now' = now + 1
    /\ catalog' = IF app = "up" THEN catalog + 1 ELSE catalog
    /\ UNCHANGED <<config, schema, app, disk, runs, proc, mark, verifier, made, faults, clash, failures>>

Crash ==
    /\ app # "down" /\ Fault /\ app' = "down"
    /\ proc' = [p \in Procs |-> Idle] /\ verifier' = NoVerify
    /\ UNCHANGED <<config, now, catalog, schema, disk, runs, mark, made, clash, failures>>

Init ==
    /\ config \in [off : BOOLEAN, key : BOOLEAN]
    /\ now = 0 /\ catalog = 0 /\ schema \in {"none", "old", "head", "ahead"} /\ app = "down"
    /\ files = <<>> /\ store = <<>> /\ runs = <<>>
    /\ proc = [p \in Procs |-> Idle] /\ mark = -1 /\ verifier = NoVerify
    /\ made = 0 /\ faults = 0 /\ clash = {}
    /\ failures = [r \in {"scheduled", "manual", "pre_upgrade"} |-> 0]

Backup(p) == Create(p) \/ PutOff(p) \/ ReadBack(p) \/ Rotate(p) \/ Record(p) \/ Fail(p) \/ Persist(p)
Start == Boot \/ GateOpens \/ Migrate

Next ==
    \/ \E p \in Procs : Backup(p)
    \/ BeginScheduled \/ BeginGate \/ \E p \in Requests : BeginManual(p)
    \/ \E n \in DOMAIN store : Corrupt(n)
    \/ Start \/ VerifyBegin \/ VerifyEnd \/ Tick \/ Crash

\* Threads go on, the container restarts, the loop submits what is due.
Fairness ==
    /\ \A p \in Procs : WF_vars(Backup(p))
    /\ WF_vars(BeginScheduled) /\ WF_vars(BeginGate)
    /\ WF_vars(Start) /\ WF_vars(Tick)

Spec == Init /\ [][Next]_vars /\ Fairness

(***************************************************************************)
(* Properties.                                                             *)
(***************************************************************************)

Good(r) == r.status \in {"succeeded", "verified"}

\* The types, and that the application only runs on the schema of its build
\* (ensure_schema_current).
TypeOK ==
    /\ app \in {"down", "gate", "migrate", "up"}
    /\ DOMAIN store \subseteq (0..MaxSeconds) \X {"manual", "pre_upgrade", "scheduled"}
    /\ Cardinality(DOMAIN files) <= Keep + Cardinality(Procs)
    /\ app = "up" => schema = "head"

\* A schema changes only from nothing or from an older revision, and then, when a
\* bucket or a key is configured, a recorded backup of the catalog as it is now
\* is in the bucket, or in the local volume when there is no bucket
\* (run_pre_upgrade_backup_gate before _alembic_upgrade).
UpgradeIsBackedUp ==
    [][schema' # schema =>
         \/ schema = "none"
         \/ schema = "old" /\ ~config.off /\ ~config.key
         \/ schema = "old" /\ \E i \in DOMAIN runs :
              /\ Good(runs[i]) /\ runs[i].reason = "pre_upgrade" /\ runs[i].digest[2] = catalog
              /\ LET kept == IF config.off THEN store ELSE files
                 IN  runs[i].name \in DOMAIN kept /\ kept[runs[i].name] = runs[i].digest]_vars

\* A run recorded as a success keeps its bytes in the bucket, unless two backups
\* of one reason were made in the same second and share the key
\* (store_backup_to_object_store's read-back, create_metadata_backup's name).
SucceededIsStored ==
    \A i \in DOMAIN runs :
        config.off /\ Good(runs[i]) /\ runs[i].name \notin clash => store[runs[i].name] = runs[i].digest

\* A run becomes verified only when its own bytes were restored, whatever was
\* rotated or written since it was picked, unless the name was written twice
\* (_verify_latest_metadata_backup_once).
VerifiedIsRestored ==
    [][\A i \in DOMAIN runs : runs'[i].status # runs[i].status =>
         verifier.name \in clash \/ files[verifier.name] = runs[i].digest]_vars

\* Every backup that fails while the database can be written leaves a failed run
\* (test_failed_backup_records_status_and_notifies_admins).
FailureIsRecorded ==
    \A r \in DOMAIN failures :
        Cardinality({i \in DOMAIN runs : runs[i].reason = r /\ runs[i].status = "failed"}) >= failures[r]

BackupDue ==
    /\ config.key /\ faults = MaxFaults /\ app = "up" /\ proc["scheduled"].pc = "idle"
    /\ mark < now /\ now = MaxSeconds
BackupTaken ==
    \/ \E i \in DOMAIN runs : runs[i].reason = "scheduled" /\ Good(runs[i]) /\ runs[i].at = MaxSeconds
    \/ Cardinality({n \in DOMAIN files : n[1] = MaxSeconds}) >= Keep

\* With a key, once faults stop: an older schema is upgraded however often the
\* gate refused the start before, and a scheduled backup that is due is recorded,
\* or as many newer ones as the volume keeps took its place before it was stored
\* (background_loop, _submit_maintenance, ensure_schema_current).
BackupsHappen ==
    /\ (config.key /\ schema = "old") ~> schema = "head"
    /\ BackupDue ~> BackupTaken
=============================================================================
