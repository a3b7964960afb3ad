------------------------------- MODULE Rename -------------------------------
(***************************************************************************)
(* Renames of local files: the recognition of a move by equal content      *)
(* (catalog.list_rename_candidates, confirm_file_rename), and the Job that *)
(* brings the cloud copy to the key of the new path and removes the old    *)
(* one (storage.process_rename).                                           *)
(*                                                                         *)
(* Vault File 1 is archived under the key of its path.  The user moves,    *)
(* writes and removes files; scans observe and hash paths one at a time.   *)
(* Content is 1 (what is archived) or 2; a key is the path it stands for.  *)
(* Time windows of the recognition are left out: a move may go unnoticed.  *)
(***************************************************************************)
EXTENDS Integers, FiniteSets, Sequences

CONSTANTS
    Paths,
    Home,      \* the path of Vault File 1
    Workers,
    NoWorker,
    MaxFiles,  \* bound: Vault Files
    MaxEdits,  \* bound: changes by the user
    MaxFaults  \* bound: crashes, lost leases and answers

VARIABLES
    disk,    \* content at each path, 0 if none
    files,   \* Vault Files: [st, paths, pres, dig, hold, up]; paths:
             \* file_paths in order, the last is current; hold: the cloud-only
             \* version other content must respect; up: its upload Job
    objs,    \* versions ever stored: [key, dig, tok]; tok: the file whose
             \* upload has put its token on it, or 0
    stored,  \* those still stored
    rows,    \* archive_versions: [file, st, disc]
    job,     \* the rename Job: [n, st, tok, live, file, path, prev]
    invs,    \* snapshot_cleanup_inventories not completed: [n, file, prev,
             \* keeper, since, keys, vers]
    proofs,  \* snapshot_cleanup_proofs: <<version, keeper>>
    wk,      \* workers: [pc, path, dst, dig, exp]
    edits,
    faults

vars == <<disk, files, objs, stored, rows, job, invs, proofs, wk, edits, faults>>
local == <<disk, files, edits>>
cloud == <<objs, stored>>
ledger == <<invs, proofs>>

Ids == 1..MaxFiles
Terminal == {"none", "completed", "failed", "cancelled"}
NoFile == [st |-> "none", paths |-> <<>>, pres |-> "none", dig |-> 0, hold |-> 0, up |-> "no"]
NoJob == [n |-> 0, st |-> "none", tok |-> NoWorker, live |-> FALSE, file |-> 0, path |-> Home, prev |-> 0]
Idle == [pc |-> "idle", path |-> Home, dst |-> 0, dig |-> 0, exp |-> {}]
NoRow == [file |-> 0, st |-> "none", disc |-> FALSE]

Active == {f \in Ids : files[f].st = "active"}
Path(f) == files[f].paths[Len(files[f].paths)]
At(p) == {f \in Active : Path(f) = p}
New(p) == [st |-> "active", paths |-> <<p>>, pres |-> "present", dig |-> disk[p],
           hold |-> 0, up |-> "no"]
RowsOf(f) == {v \in DOMAIN objs : rows[v].file = f}
Held(f) == {v \in RowsOf(f) : rows[v].st # "purged"}
Pending(f) == files[f].up # "no" \/ (job.st \notin Terminal /\ job.file = f)

\* The newest version of a file that is not purged: what a scan found is
\* never preferred to a verified one.
Latest(f) ==
    LET own == {v \in Held(f) : ~rows[v].disc \/ rows[v].st = "verified"}
        S == IF own = {} THEN Held(f) ELSE own
    IN  IF S = {} THEN 0 ELSE CHOOSE v \in S : \A u \in S : u <= v

Fault == faults < MaxFaults /\ faults' = faults + 1

(***************************************************************************)
(* The user, and what scans see.                                           *)
(***************************************************************************)

Edit(d) == /\ edits < MaxEdits /\ edits' = edits + 1
           /\ disk' = d
           /\ UNCHANGED <<files, cloud, rows, job, ledger, wk, faults>>

Move(p, q) == disk[p] # 0 /\ disk[q] = 0 /\ Edit([disk EXCEPT ![q] = disk[p], ![p] = 0])
Write(p, c) == disk[p] # c /\ Edit([disk EXCEPT ![p] = c])

\* _only_cloud_copy_sql: the newest verified version of a file.
OnlyCloudCopy(f) ==
    LET S == {v \in RowsOf(f) : rows[v].st = "verified"}
    IN  IF S = {} THEN 0 ELSE CHOOSE v \in S : \A u \in S : u <= v

\* settle_cloud_only_copies: identical content is no longer held back, nor is
\* content whose cloud copy is not recoverable.
Settled(h, d) == IF h = 0 \/ rows[h].st # "verified" \/ objs[h].dig = d THEN 0 ELSE h

\* observe_local_copy, the hash of the content and settle_cloud_only_copies, for
\* one path: a new path becomes a provisional Vault File.
Observe(p) ==
    /\ \/ /\ disk[p] # 0 /\ At(p) = {}
          /\ \E f \in Ids :
               /\ files[f].st = "none" /\ \A g \in Ids : g < f => files[g].st # "none"
               /\ files' = [files EXCEPT ![f] = New(p)]
       \/ \E f \in At(p) :
            /\ disk[p] # 0
            /\ <<files[f].pres, files[f].dig>> # <<"present", disk[p]>>
            /\ LET h == IF files[f].pres = "present" THEN files[f].hold ELSE OnlyCloudCopy(f)
               IN  files' = [files EXCEPT ![f].pres = "present", ![f].dig = disk[p],
                                          ![f].hold = Settled(h, disk[p])]
       \/ \E f \in At(p) :
            /\ disk[p] = 0 /\ files[f].pres = "present"
            /\ files' = [files EXCEPT ![f].pres = "missing"]
    /\ UNCHANGED <<disk, cloud, rows, job, ledger, wk, edits, faults>>

Same(pres, d) == {f \in Active : files[f].pres = pres /\ files[f].dig = d /\ files[f].hold = 0}

\* Mutant: a destination that was archived already is taken over.
CandidateArchived(f, g) ==
    LET d == files[f].dig
    IN  /\ Same("missing", d) = {f} /\ Same("present", d) = {g}
        /\ ~Pending(f) /\ ~Pending(g)

\* list_rename_candidates: one missing and one present file of that content,
\* the present one never archived, neither with work pending.
Candidate(f, g) ==
    LET d == files[f].dig
    IN  /\ Same("missing", d) = {f} /\ Same("present", d) = {g}
        /\ RowsOf(g) = {} /\ ~Pending(f) /\ ~Pending(g)

\* Mutant: the provisional file stays.
ReboundBoth(f, g) ==
    [files EXCEPT ![f].paths = Append(@, Path(g)), ![f].pres = "present"]

\* _load_rename_candidate and the compare-and-swap conditions.
Loaded(f, g) ==
    /\ {f, g} \subseteq Active /\ f # g
    /\ files[f].pres = "missing" /\ files[g].pres = "present" /\ files[f].dig = files[g].dig
    /\ files[f].hold = 0 /\ files[g].hold = 0

\* confirm_file_rename: the provisional file is retired and its path and
\* observation go to the missing one, under the Vault lock.
Rebound(f, g) ==
    [files EXCEPT ![g].st = "retired", ![g].pres = "none",
                  ![f].paths = Append(@, Path(g)), ![f].pres = "present"]

\* queue_jobs for a rename: a verified current version is needed.
Admitted(f, p) ==
    IF Latest(f) # 0 /\ rows[Latest(f)].st = "verified"
    THEN [NoJob EXCEPT !.n = job.n + 1, !.st = "queued", !.file = f, !.path = p, !.prev = Latest(f)]
    ELSE job

\* _apply_auto_renames, for one candidate; one rename Job at a time.
Confirm(f, g) ==
    /\ Loaded(f, g) /\ Candidate(f, g) /\ job.st \in Terminal
    /\ files' = Rebound(f, g)
    /\ job' = Admitted(f, Path(g))
    /\ UNCHANGED <<disk, cloud, rows, ledger, wk, edits, faults>>

(***************************************************************************)
(* First uploads of other files, and the cloud scan.                       *)
(***************************************************************************)

\* A version comes into the bucket, with no row yet.
Store(o) ==
    /\ objs' = Append(objs, o) /\ stored' = stored \cup {Len(objs) + 1}
    /\ rows' = Append(rows, NoRow)

UploadAdmit(f) ==
    /\ f \in Active /\ files[f].pres = "present" /\ RowsOf(f) = {} /\ ~Pending(f)
    /\ files' = [files EXCEPT ![f].up = "queued"]
    /\ UNCHANGED <<disk, cloud, rows, job, ledger, wk, edits, faults>>

\* The PUT of an upload, with its token; or it ends without one.
UploadPut(f) ==
    /\ files[f].up = "queued"
    /\ \/ /\ disk[Path(f)] # 0 /\ Store([key |-> Path(f), dig |-> disk[Path(f)], tok |-> f])
          /\ files' = [files EXCEPT ![f].up = "sent"]
       \/ /\ disk[Path(f)] # files[f].dig
          /\ files' = [files EXCEPT ![f].up = "no"] /\ UNCHANGED <<cloud, rows>>
    /\ UNCHANGED <<disk, job, ledger, wk, edits, faults>>

UploadRecord(f) ==
    /\ files[f].up = "sent"
    /\ rows' = [v \in DOMAIN rows |-> IF objs[v].tok = f
                 THEN [file |-> f, st |-> "verified", disc |-> FALSE] ELSE rows[v]]
    /\ files' = [files EXCEPT ![f].up = "no"]
    /\ UNCHANGED <<disk, cloud, job, ledger, wk, edits, faults>>

\* _resolve_cloud_path_file: the file whose path this is, or was.
Resolved(k) ==
    IF At(k) # {} THEN At(k)
    ELSE {f \in Active : \E i \in DOMAIN files[f].paths : files[f].paths[i] = k}

\* record_archive_version of a listed version.
ScanRecord(v) ==
    /\ v \in stored /\ rows[v].file = 0
    /\ \E f \in Resolved(objs[v].key) :
         rows' = [rows EXCEPT ![v] = [file |-> f, st |-> "unverified", disc |-> TRUE]]
    /\ UNCHANGED <<local, cloud, job, ledger, wk, faults>>

(***************************************************************************)
(* The rename Job.                                                         *)
(***************************************************************************)

Owns(w) == job.st = "running" /\ job.tok = w /\ job.live
Become(st) == job' = [job EXCEPT !.st = st, !.tok = NoWorker, !.live = FALSE]
Leave(w) == wk' = [wk EXCEPT ![w] = Idle]
Goto(w, pc) == wk' = [wk EXCEPT ![w].pc = pc]
Fail(w) == Become("failed") /\ Leave(w)

Claim(w) ==
    /\ wk[w].pc = "idle" /\ job.st = "queued"
    /\ job' = [job EXCEPT !.st = "running", !.tok = w, !.live = TRUE]
    /\ wk' = [wk EXCEPT ![w].pc = "start", ![w].path = job.path]
    /\ UNCHANGED <<local, cloud, ledger, rows, faults>>

\* ensure_job_active and ensure_job_claim_owned: the worker stops here.
Lost(w) ==
    /\ wk[w].pc # "idle" /\ ~Owns(w)
    /\ Leave(w)
    /\ UNCHANGED <<local, cloud, ledger, rows, job, faults>>

Crash(w) ==
    /\ wk[w].pc # "idle" /\ Fault
    /\ Leave(w)
    /\ UNCHANGED <<local, cloud, ledger, rows, job>>

Orphaned == job.live /\ wk[job.tok].pc = "idle"

Expire ==
    /\ job.live /\ (IF Orphaned THEN UNCHANGED faults ELSE Fault)
    /\ job' = [job EXCEPT !.live = FALSE]
    /\ UNCHANGED <<local, cloud, ledger, rows, wk>>


\* Restart reconciliation puts an interrupted rename back into the queue.
Reconcile ==
    /\ job.st = "running" /\ ~job.live
    /\ Become("queued")
    /\ UNCHANGED <<local, cloud, ledger, rows, wk, faults>>

Cancel ==
    /\ job.st \notin Terminal /\ Become("cancelled")
    /\ UNCHANGED <<local, cloud, ledger, rows, wk, faults>>


\* Keys of the file: of its versions that are not purged, and of every path
\* it has had.
Keys == {objs[v].key : v \in Held(job.file)} \cup {job.path}
            \cup {files[job.file].paths[i] : i \in DOMAIN files[job.file].paths}
Under(keys) == {v \in stored : objs[v].key \in keys}

\* target and _require_namespace_owner: nothing is held back at the file, and no
\* other file has one of these paths now.
OwnsNamespace == files[job.file].hold = 0 /\ \A k \in Keys : At(k) \subseteq {job.file}

Since == Len(files[job.file].paths)

\* pin_inventory: what an interrupted cleanup of the Job, or else of an earlier
\* one of the same version, has pinned; otherwise what is stored now.
Earlier(linked) ==
    LET own == {i \in invs : i.n = job.n}
    IN  IF own # {} THEN own
        ELSE {i \in invs : i.file = job.file /\ (i.keeper = linked \/ (i.keeper = 0 /\ i.prev = linked))}
Fresh == [n |-> job.n, file |-> job.file, prev |-> job.prev, keeper |-> 0, since |-> Since,
          keys |-> Keys, vers |-> Under(Keys)]

\* The file and its verified version must be there; the inventory is pinned
\* before anything is sent.
Start(w) ==
    /\ wk[w].pc = "start" /\ Owns(w)
    /\ LET ready == disk[job.path] # 0 /\ rows[job.prev].st = "verified"
           there == objs[job.prev].key = job.path
           pinned == Earlier(job.prev) # {}
       IN  \/ ~ready /\ Fail(w) /\ UNCHANGED invs
           \/ ready /\ there /\ Become("completed") /\ Leave(w) /\ UNCHANGED invs
           \/ ready /\ ~there /\ ~pinned /\ ~OwnsNamespace /\ Fail(w) /\ UNCHANGED invs
           \/ /\ ready /\ ~there /\ (pinned \/ OwnsNamespace)
              /\ invs' = IF pinned THEN invs ELSE invs \cup {Fresh}
              /\ Goto(w, "select") /\ UNCHANGED job
    /\ UNCHANGED <<local, cloud, rows, proofs, faults>>

\* _select_live_rename_destination: a verified copy of the same content first,
\* then one that was left unverified.
Reusable(st) ==
    {v \in Held(job.file) \cap stored :
        /\ objs[v].key = job.path /\ rows[v].st = st
        /\ st = "verified" => objs[v].dig = objs[job.prev].dig}

Choices == IF Reusable("verified") # {} THEN Reusable("verified") ELSE Reusable("unverified")

Select(w) ==
    /\ wk[w].pc = "select" /\ Owns(w)
    /\ LET dst == IF Choices = {} THEN 0 ELSE CHOOSE v \in Choices : \A u \in Choices : u <= v
       IN  wk' = [wk EXCEPT ![w].dst = dst,
                            ![w].pc = IF Reusable("verified") # {} THEN "head" ELSE "hash"]
    /\ UNCHANGED <<local, cloud, rows, job, ledger, faults>>

\* hash_stable_regular_file: the local file must still be the archived content.
Hash(w) ==
    /\ wk[w].pc = "hash" /\ Owns(w)
    /\ IF disk[job.path] = objs[job.prev].dig
       THEN /\ wk' = [wk EXCEPT ![w].dig = disk[job.path],
                                ![w].pc = IF wk[w].dst = 0 THEN "put" ELSE "verify"]
            /\ UNCHANGED job
       ELSE Fail(w)
    /\ UNCHANGED <<local, cloud, ledger, rows, faults>>

\* upload_s3_file reads the file again; the claim was checked before, so it may
\* be lost by now, and the answer may be lost.
PutNew(w) ==
    /\ wk[w].pc = "put"
    /\ \/ disk[wk[w].path] = 0 /\ Owns(w) /\ Fail(w) /\ UNCHANGED <<cloud, rows, faults>>
       \/ /\ disk[wk[w].path] # 0
          /\ Store([key |-> wk[w].path, dig |-> disk[wk[w].path], tok |-> 0])
          /\ \/ /\ wk' = [wk EXCEPT ![w].pc = "record", ![w].dst = Len(objs) + 1]
                /\ UNCHANGED <<job, faults>>
             \/ Owns(w) /\ Fault /\ Fail(w)
    /\ UNCHANGED <<local, ledger>>

\* record_archive_version, then the look at the file's stat.
Record(w) ==
    /\ wk[w].pc = "record" /\ Owns(w)
    /\ rows' = [rows EXCEPT ![wk[w].dst] = [file |-> job.file, st |-> "unverified", disc |-> FALSE]]
    /\ IF disk[job.path] = wk[w].dig THEN Goto(w, "verify") /\ UNCHANGED job ELSE Fail(w)
    /\ UNCHANGED <<local, cloud, ledger, faults>>

\* Mutant: the local hash stands for the stored bytes.
MatchesLocal(w) == disk[job.path] = wk[w].dig

\* The stored version is downloaded and hashed.
Matches(w) == wk[w].dst \in stored /\ objs[wk[w].dst].dig = wk[w].dig

\* _verify_rename_destination_bytes.
Verify(w) ==
    /\ wk[w].pc = "verify" /\ Owns(w)
    /\ IF Matches(w)
       THEN /\ rows' = [rows EXCEPT ![wk[w].dst].st = "verified"]
            /\ Goto(w, "head") /\ UNCHANGED job
       ELSE /\ rows' = IF wk[w].dst \in stored THEN [rows EXCEPT ![wk[w].dst].st = "mismatch"] ELSE rows
            /\ Fail(w)
    /\ UNCHANGED <<local, cloud, ledger, faults>>

\* _head_exact_archive_version of the destination.
HeadDestination(w) ==
    /\ wk[w].pc = "head" /\ Owns(w)
    /\ IF wk[w].dst \in stored THEN Goto(w, "bind") /\ UNCHANGED job ELSE Fail(w)
    /\ UNCHANGED <<local, cloud, ledger, rows, faults>>

\* _keeper: the newest verified version, under the key of the Job's path.
Keeper(w) ==
    /\ rows[wk[w].dst].st = "verified" /\ objs[wk[w].dst].key = job.path
    /\ \A v \in Held(job.file) : v > wk[w].dst => rows[v].st # "verified"

\* _has_lineage: a verified version the application wrote for this file.
Lineage(v) ==
    rows[v].file = job.file /\ rows[v].st = "verified" /\ (objs[v].tok # 0 \/ v = job.prev)

\* exact_duplicate: the same bytes, with the token of no upload.
Duplicate(v, w) == objs[v].tok = 0 /\ objs[v].dig = objs[wk[w].dst].dig

\* _require_version_owner, and one of the two proofs.
Proven(v, w) == rows[v].file \in {0, job.file} /\ (Lineage(v) \/ Duplicate(v, w))

\* snapshot_cleanup.cleanup: the inventory, and the keeper bound to it.
Bind(w) ==
    /\ wk[w].pc = "bind" /\ Owns(w)
    /\ LET found == Earlier(wk[w].dst)
           ok == Keeper(w) /\ files[job.file].hold = 0 /\ (found # {} \/ OwnsNamespace)
       IN  \E i \in (IF found # {} THEN found ELSE {Fresh}) :
             IF ok /\ i.keeper \in {0, wk[w].dst}
             THEN /\ invs' = (invs \ {i}) \cup {[i EXCEPT !.keeper = wk[w].dst]}
                  /\ Goto(w, "prove") /\ UNCHANGED job
             ELSE /\ invs' = IF ok THEN invs \cup {i} ELSE invs
                  /\ Fail(w)
    /\ UNCHANGED <<local, cloud, rows, proofs, faults>>

\* The pinned inventory must fit: the same path since, the same keys, nothing
\* that came since but the keeper, nothing gone but what was proven.
Fits(i, w) ==
    LET k == wk[w].dst
    IN  /\ i.since = Since /\ i.keys = Keys
        /\ k \in stored /\ Under(Keys) \subseteq i.vers \cup {k}
        /\ \A v \in i.vers \ stored : <<v, k>> \in proofs

\* Every other version is proven superfluous.
Prove(w) ==
    /\ wk[w].pc = "prove" /\ Owns(w)
    /\ LET rest == Under(Keys) \ {wk[w].dst}
           batch == {i \in invs : i.keeper = wk[w].dst}
       IN  IF /\ Keeper(w) /\ OwnsNamespace /\ \A i \in batch : Fits(i, w)
              /\ \A v \in rest : Proven(v, w)
           THEN /\ proofs' = proofs \cup {<<v, wk[w].dst>> : v \in rest}
                /\ wk' = [wk EXCEPT ![w].pc = "delete", ![w].exp = rest]
                /\ UNCHANGED job
           ELSE Fail(w) /\ UNCHANGED proofs
    /\ UNCHANGED <<local, cloud, rows, invs, faults>>

\* Checked again under the locks that are held while one version is deleted.
Safe(w) == OwnsNamespace /\ Keeper(w) /\ Under(Keys) = wk[w].exp \cup {wk[w].dst}

Delete(w) ==
    /\ wk[w].pc = "delete" /\ Owns(w) /\ wk[w].exp # {}
    /\ IF Safe(w) /\ \A v \in wk[w].exp : rows[v].file \in {0, job.file}
       THEN \E v \in wk[w].exp :
              /\ stored' = stored \ {v} /\ wk' = [wk EXCEPT ![w].exp = @ \ {v}]
              /\ UNCHANGED job
       ELSE Fail(w) /\ UNCHANGED stored
    /\ UNCHANGED <<local, objs, rows, ledger, faults>>

\* persist_purge: proven versions that are gone are purged in the catalog.
PersistPurge(w) ==
    /\ wk[w].pc = "delete" /\ Owns(w) /\ wk[w].exp = {}
    /\ IF Safe(w)
       THEN /\ rows' = [v \in DOMAIN rows |->
                          IF rows[v].file = job.file /\ <<v, wk[w].dst>> \in proofs /\ v \notin stored
                          THEN [rows[v] EXCEPT !.st = "purged"] ELSE rows[v]]
            /\ invs' = {i \in invs : i.keeper # wk[w].dst}
            /\ Goto(w, "complete") /\ UNCHANGED job
       ELSE Fail(w) /\ UNCHANGED <<rows, invs>>
    /\ UNCHANGED <<local, cloud, proofs, faults>>

\* link_job_version and the end of the Job.
Complete(w) ==
    /\ wk[w].pc = "complete" /\ Owns(w)
    /\ job' = [job EXCEPT !.st = "completed", !.tok = NoWorker, !.live = FALSE, !.prev = wk[w].dst]
    /\ Leave(w)
    /\ UNCHANGED <<local, cloud, ledger, rows, faults>>

Init ==
    /\ disk = [p \in Paths |-> IF p = Home THEN 1 ELSE 0]
    /\ files = [f \in Ids |-> IF f = 1 THEN New(Home) ELSE NoFile]
    /\ objs = <<[key |-> Home, dig |-> 1, tok |-> 1]>> /\ stored = {1}
    /\ rows = <<[file |-> 1, st |-> "verified", disc |-> FALSE]>>
    /\ invs = {} /\ proofs = {} /\ job = NoJob /\ wk = [w \in Workers |-> Idle]
    /\ edits = 0 /\ faults = 0

Step(w) ==
    \/ Start(w) \/ Select(w) \/ Hash(w) \/ PutNew(w) \/ Record(w) \/ Verify(w)
    \/ HeadDestination(w) \/ Bind(w) \/ Prove(w) \/ Delete(w) \/ PersistPurge(w) \/ Complete(w) \/ Lost(w)

Next ==
    \/ \E p, q \in Paths : Move(p, q)
    \/ \E p \in Paths : Observe(p) \/ \E c \in 0..2 : Write(p, c)
    \/ \E f, g \in Ids : Confirm(f, g)
    \/ \E f \in Ids : UploadAdmit(f) \/ UploadPut(f) \/ UploadRecord(f)
    \/ \E v \in DOMAIN objs : ScanRecord(v)
    \/ \E w \in Workers : Claim(w) \/ Step(w) \/ Crash(w)
    \/ Expire \/ Reconcile \/ Cancel

\* Workers poll and go on, leases of dead ones run out, the sweep is periodic.
Fairness ==
    /\ WF_vars(\E w \in Workers : Claim(w)) /\ \A w \in Workers : WF_vars(Step(w))
    /\ WF_vars(Expire /\ Orphaned) /\ WF_vars(Reconcile)

Spec == Init /\ [][Next]_vars /\ Fairness

(***************************************************************************)
(* Properties.                                                             *)
(***************************************************************************)

\* Types; a path is the current path of one active file at most.
TypeOK ==
    /\ \A p \in Paths : Cardinality(At(p)) <= 1
    /\ DOMAIN rows = DOMAIN objs /\ stored \subseteq DOMAIN objs
    /\ \A v \in DOMAIN rows : rows[v].st \in {"none", "unverified", "verified", "mismatch", "purged"}
    /\ job.st \in Terminal \cup {"queued", "running"}

\* A file that is retired in favour of another owns no archived content and no
\* work: the recognition of a move never merges away what can be recovered,
\* whatever was uploaded between the scan and the confirmation.
RetiredOwnsNothing ==
    \A f \in Ids : files[f].st = "retired" => RowsOf(f) = {} /\ ~Pending(f)

\* What the catalog calls verified is stored, unless the Job that removes it
\* has a verified copy of the same content under the new key.
VerifiedIsStored ==
    \A v \in DOMAIN rows : rows[v].st = "verified" =>
        \/ v \in stored
        \/ \E u \in stored \cap RowsOf(rows[v].file) : rows[u].st = "verified" /\ objs[u].dig = objs[v].dig

\* A Job that is completed has left one verified copy in the bucket, under the
\* key of the path it was asked for.  (The row of an earlier copy may still say
\* verified, when an earlier Job deleted it and stopped before persist_purge.)
CompletedIsMoved ==
    job.st = "completed" =>
        /\ objs[job.prev].key = job.path /\ rows[job.prev].st = "verified"
        /\ \A v \in RowsOf(job.file) \cap stored : rows[v].st = "verified" => v = job.prev

\* Every rename Job comes to an end.
JobEnds == job.st \notin Terminal ~> job.st \in Terminal

\* Vault File 1 seen as two copies: its first version, and any later one.
StoredCopies ==
    (IF 1 \in stored THEN {"old"} ELSE {}) \cup
    (IF \E v \in stored \ {1} : objs[v].dig = 1 THEN {"new"} ELSE {})
TrustedCopies ==
    {IF v = 1 THEN "old" ELSE "new" : v \in {u \in RowsOf(1) : rows[u].st = "verified"}}

Abstract == INSTANCE DurableCopy WITH stored <- StoredCopies, trusted <- TrustedCopies

\* A rename implements the replacement of one durable copy by another.
ImplementsDurableCopy == Abstract!Spec
=============================================================================
