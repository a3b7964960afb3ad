------------------------------ MODULE LocalCopy ------------------------------
(***************************************************************************)
(* One path of a Vault folder and its local_copies row (app/storage.py,    *)
(* app/catalog.py): the full scan, the filesystem watcher, "free local     *)
(* space", "recover" and the reconciliation of interrupted Jobs, while the *)
(* Owner writes and deletes the file.                                      *)
(*                                                                         *)
(* One process.  Scans, watcher batches, a release and the publication of  *)
(* a recovery hold the per-Vault scan lock; the Owner and reconciliation   *)
(* do not.  The file has one Archive Version, verified and available, with *)
(* content Old.  An entry of the file system is a content and the stat     *)
(* (size, mtime) the application compares.                                 *)
(***************************************************************************)
EXTENDS Integers, FiniteSets

CONSTANTS
    Old,        \* plaintext of the verified Archive Version
    Edits,      \* what the Owner may write
    NoContent,
    MaxEdits,   \* bound: saves and removals of the Owner
    MaxFaults,  \* bound: crashes, errors and leases lost
    MaxJobs     \* bound: Jobs admitted

ASSUME LocalCopyAssumption ==
    /\ Old \in Edits /\ NoContent \notin Edits
    /\ MaxEdits \in Nat /\ MaxFaults \in Nat /\ MaxJobs \in Nat

VARIABLES
    file,    \* the entry at the path
    claims,  \* the .cleanup-*.tmp entries beside it
    temp,    \* the .restore-*.tmp entry beside it
    row,     \* local_copies
    pend,    \* the watcher holds an unprocessed change of the path
    armed,   \* the watcher is registered
    echo,    \* local_observation: what the application itself last wrote
    lock,    \* holder of the scan lock
    scan,    \* the full scan
    job,     \* the file's latest Job
    work,    \* the worker thread
    sweep,   \* reconciliation of interrupted Jobs
    stats,   \* last stat handed out
    edits,   \* saves and removals so far
    faults,  \* faults so far
    owed,    \* history: the Owner's content, that the application must keep
    clobber, \* history: a recovery replaced a file created under its hands
    sly,     \* history: a write left the stat the row has
    blind,   \* history: changes were unwatched, or read before the row
             \* changed and written after
    unsure,  \* history: row may differ from the disk until a full scan
    gone     \* history: the row was missing, its new content is undecided

disk == <<file, claims, temp>>
watch == <<pend, armed, echo>>
ghosts == <<owed, clobber, sly, blind, unsure, gone>>
vars == <<disk, row, watch, lock, scan, job, work, sweep, stats, edits, faults, ghosts>>

\* A Job downloads once, and once more after each fault.
MaxStat == 1 + MaxEdits + MaxJobs * (MaxFaults + 1)
Stats == 0..MaxStat
Entry == [c: Edits \cup {NoContent}, m: Stats]
NoFile == [c |-> NoContent, m |-> 0]

\* seen: last_seen_at, and late: observed_at > scan_started_at, both relative
\* to the running scan; no scan, no difference.
Row == [presence: {"present", "missing"}, m: Stats, digest: Edits \cup {NoContent},
        matched: BOOLEAN, hold: BOOLEAN, seen: BOOLEAN, late: BOOLEAN]

Scan == [pc: {"idle", "walk", "flush", "hash", "apply", "final"}, saw: Entry,
         complete: BOOLEAN, journal: {<<>>} \cup {<<r>> : r \in Row},
         upd: Entry, old: Stats, clean: BOOLEAN]

ScanIdle == [pc |-> "idle", saw |-> NoFile, complete |-> TRUE, journal |-> <<>>,
             upd |-> NoFile, old |-> 0, clean |-> TRUE]

Job == [act: {"free-space", "recover"}, n: 0..MaxJobs,
        st: {"none", "queued", "running", "restoring", "completed", "failed"},
        owned: BOOLEAN]

Active == {"queued", "running", "restoring"}

Work == [pc: {"idle", "start", "rename", "hash", "unlink", "undo", "repair",
              "look", "publish", "finish", "download", "enter",
              "replace", "lstat", "record"},
         tgt: Stats, got: Entry, swap: BOOLEAN]

WorkIdle == [pc |-> "idle", tgt |-> 0, got |-> NoFile, swap |-> FALSE]

Sweep == [pc: {"idle", "glob", "restore", "free", "adopt"}, got: Entry]
SweepIdle == [pc |-> "idle", got |-> NoFile]

TypeOK ==
    /\ file \in Entry /\ claims \subseteq Entry /\ temp \in Entry
    /\ row \in Row
    /\ pend \in BOOLEAN /\ armed \in BOOLEAN /\ echo \in Entry
    /\ lock \in {"none", "scan", "watch", "worker"}
    /\ scan.pc \in {"idle", "walk", "flush", "hash", "apply", "final"}
    /\ scan.saw \in Entry /\ scan.upd \in Entry /\ scan.old \in Stats
    /\ scan.complete \in BOOLEAN /\ scan.clean \in BOOLEAN
    /\ scan.journal = <<>> \/ scan.journal[1] \in Row
    /\ job \in Job /\ work \in Work /\ sweep \in Sweep
    /\ stats \in Stats /\ edits \in 0..MaxEdits /\ faults \in 0..MaxFaults
    /\ owed \in Edits \cup {NoContent}
    /\ clobber \in BOOLEAN /\ sly \in BOOLEAN /\ blind \in BOOLEAN /\ unsure \in BOOLEAN
    /\ gone \in BOOLEAN

(***************************************************************************)
(* The row: ArchiveCatalog.                                                *)
(***************************************************************************)

\* observe_local_copy(s_batch): the digest survives an unchanged stat, and
\* content that appears where none was is held back unless it was recovered.
Observed(r, m, seen, recovered) ==
    [presence |-> "present", m |-> m,
     digest |-> IF r.m = m THEN r.digest ELSE NoContent,
     matched |-> r.m = m /\ r.matched,
     hold |-> IF r.presence = "present" THEN r.hold ELSE ~recovered,
     seen |-> seen, late |-> scan.pc # "idle"]

\* settle_cloud_only_copies.
Settle(r) ==
    IF r.hold /\ r.presence = "present" /\ r.digest = Old
    THEN [r EXCEPT !.matched = TRUE, !.hold = FALSE] ELSE r

\* set_local_fingerprint.
Fingerprinted(r, c) == Settle([r EXCEPT !.digest = c, !.matched = (c = Old)])


\* A watcher event: the content is unknown even if the stat is the same.
Invalidated(r) == [r EXCEPT !.digest = NoContent, !.matched = FALSE]

\* mark_local_copy_missing, mark_local_path_missing.
Missing(r) == [r EXCEPT !.presence = "missing", !.late = scan.pc # "idle"]

\* Mutant: the new file counts as the Owner's decision.
ReplacedFreely(m) ==
    [presence |-> "present", m |-> m, digest |-> NoContent, matched |-> FALSE,
     hold |-> FALSE, seen |-> FALSE, late |-> scan.pc # "idle"]

\* observe_replaced_local_copy.
Replaced(m) ==
    [presence |-> "present", m |-> m, digest |-> NoContent, matched |-> FALSE,
     hold |-> TRUE, seen |-> FALSE, late |-> scan.pc # "idle"]

\* _checked_local_release_target, and the admission test of queue_jobs.
Releasable(r) ==
    r.presence = "present" /\ r.matched /\ r.digest = Old /\ ~r.hold

\* The row becomes r; gone remembers that it passed through "missing".
SetRow(r) ==
    /\ row' = r
    /\ gone' = /\ gone \/ r.presence = "missing"
               /\ ~(r.presence = "present" /\ r.matched /\ r.digest = Old)

KeepRow == UNCHANGED <<row, gone>>

Fault == faults < MaxFaults /\ faults' = faults + 1

(***************************************************************************)
(* The Owner.                                                              *)
(***************************************************************************)

\* A change of the path: the watcher learns of it, or nobody does.
Touched ==
    /\ pend' = (pend \/ armed)
    /\ unsure' = (unsure \/ ~armed)
    /\ scan' = [scan EXCEPT !.clean = scan.clean /\ armed]

Untouched == UNCHANGED <<pend, unsure, scan>>

\* The entry the application remembered is gone: another inode or ctime will
\* take its place, even with its bytes and mtime.
Forgotten == echo' = [echo EXCEPT !.m = 0]

\* A save has a stat of its own, or one the row already has (a tool that
\* restores the mtime).
Save(c) ==
    /\ \E m \in {stats + 1, row.m} :
        /\ file' = [c |-> c, m |-> m]
        /\ stats' = IF m = stats + 1 THEN m ELSE stats
        /\ sly' = (sly \/ (m = row.m /\ c # row.digest))
    /\ edits < MaxEdits /\ edits' = edits + 1
    /\ file # file'
    /\ owed' = c
    /\ Touched
    /\ IF file' = echo THEN Forgotten ELSE UNCHANGED echo
    /\ UNCHANGED <<claims, temp, row, armed, lock, job, work, sweep,
                   faults, clobber, blind, gone>>

Remove ==
    /\ edits < MaxEdits /\ edits' = edits + 1
    /\ file # NoFile
    /\ file' = NoFile
    /\ owed' = NoContent
    /\ Touched /\ Forgotten
    /\ UNCHANGED <<claims, temp, row, armed, lock, job, work, sweep,
                   stats, faults, clobber, sly, blind, gone>>

\* confirm_cloud_only_replacement.
ConfirmReplacement ==
    /\ row.presence = "present" /\ row.hold /\ row.digest \notin {Old, NoContent}
    /\ row' = [row EXCEPT !.hold = FALSE]
    /\ gone' = FALSE
    /\ UNCHANGED <<disk, watch, lock, scan, job, work, sweep, stats, edits,
                   faults, owed, clobber, sly, blind, unsure>>

(***************************************************************************)
(* The full scan: scan_vault, _verified_local_scan.                        *)
(***************************************************************************)

ScanKeeps == UNCHANGED <<disk, watch, job, work, sweep, stats, edits, owed, clobber, sly, blind>>

ScanStart ==
    /\ lock = "none" /\ scan.pc = "idle"
    /\ lock' = "scan"
    /\ scan' = [ScanIdle EXCEPT !.pc = "walk"]
    /\ UNCHANGED <<row, gone, faults, unsure>> /\ ScanKeeps

\* _scan_tree reads the directory; an unreadable entry makes it incomplete.
ScanWalk ==
    /\ scan.pc = "walk"
    /\ \/ scan' = [scan EXCEPT !.pc = "flush", !.saw = file]
          /\ UNCHANGED faults
       \/ file # NoFile /\ Fault
          /\ scan' = [scan EXCEPT !.pc = "flush", !.complete = FALSE]
    /\ UNCHANGED <<lock, unsure>> /\ KeepRow /\ ScanKeeps

\* flush: the old row goes to the journal, then the batch is committed.
ScanFlush ==
    /\ scan.pc = "flush"
    /\ IF scan.saw = NoFile
       THEN /\ scan' = [scan EXCEPT !.pc = "hash"]
            /\ KeepRow
       ELSE /\ scan' = [scan EXCEPT !.pc = "hash", !.journal = <<row>>]
            /\ SetRow(Observed(row, scan.saw.m, TRUE, FALSE))
    /\ UNCHANGED <<lock, faults, unsure>> /\ ScanKeeps

\* _collect_local_fingerprint_updates, outside any transaction.
ScanHash ==
    /\ scan.pc = "hash"
    /\ IF row.presence = "present" /\ row.digest = NoContent /\ file # NoFile
       THEN \/ scan' = [scan EXCEPT !.pc = "apply", !.upd = file, !.old = row.m]
               /\ UNCHANGED faults
            \/ scan' = [scan EXCEPT !.pc = "apply", !.complete = FALSE] /\ Fault
       ELSE scan' = [scan EXCEPT !.pc = "apply"] /\ UNCHANGED faults
    /\ UNCHANGED <<lock, unsure>> /\ KeepRow /\ ScanKeeps

\* The row is still the one that was hashed.
SameObservation(r, u, old) ==
    u # NoFile /\ r.presence = "present" /\ r.digest = NoContent /\ r.m = old

\* _apply_local_fingerprint_updates.
ScanApply ==
    /\ scan.pc = "apply"
    /\ scan' = [scan EXCEPT !.pc = "final"]
    /\ IF SameObservation(row, scan.upd, scan.old)
       THEN SetRow([row EXCEPT !.m = scan.upd.m, !.digest = scan.upd.c,
                               !.matched = FALSE, !.seen = TRUE, !.late = TRUE])
       ELSE KeepRow
    /\ UNCHANGED <<lock, faults, unsure>> /\ ScanKeeps

\* Mutant: files that disappeared unnoticed stay present.
NeverUnseen(r) == FALSE /\ r.seen

\* mark_unseen_local_copies_missing.
Unseen(r) == r.presence = "present" /\ ~r.seen /\ ~r.late

\* Without a scan nothing is seen by it.
ScanOver(r) ==
    /\ SetRow([r EXCEPT !.seen = FALSE, !.late = FALSE])
    /\ scan' = ScanIdle
    /\ lock' = "none"

\* The last transaction: conflicts are settled, and only a complete walk
\* turns what it has not seen into missing.
ScanFinal ==
    /\ scan.pc = "final"
    /\ LET r == Settle(row)
       IN  ScanOver(IF scan.complete /\ Unseen(r) THEN Missing(r) ELSE r)
    /\ unsure' = (unsure /\ ~(scan.complete /\ scan.clean))
    /\ UNCHANGED faults /\ ScanKeeps

\* _rollback_local_scan_journal: an observation newer than the scan stays.
RolledBack(r) ==
    IF scan.journal # <<>> /\ r.seen
    THEN [scan.journal[1] EXCEPT !.hold = r.hold] ELSE r

\* The root changed, a transaction failed: compensated, best effort.
ScanFail ==
    /\ scan.pc \notin {"idle", "walk"}
    /\ Fault
    /\ ScanOver(RolledBack(row)) \/ ScanOver(row)
    /\ UNCHANGED unsure /\ ScanKeeps

(***************************************************************************)
(* The watcher: _watch_vault_filesystem, apply_filesystem_changes.         *)
(***************************************************************************)

WatchKeeps == UNCHANGED <<disk, scan, job, work, sweep, stats, edits, owed, clobber, sly>>

WatchArm ==
    /\ ~armed
    /\ armed' = TRUE
    /\ UNCHANGED <<pend, echo, lock, faults, unsure, blind>> /\ KeepRow /\ WatchKeeps

\* local_observation.consume: an event is an echo only if both the stat and
\* the re-read content are what the application wrote.
IsEcho == echo # NoFile /\ file = echo

WatchTake ==
    /\ armed /\ pend /\ lock = "none"
    /\ pend' = FALSE
    /\ IF IsEcho
       THEN UNCHANGED <<echo, lock>>
       ELSE echo' = NoFile /\ lock' = "watch"
    /\ UNCHANGED <<armed, faults, unsure, blind>> /\ KeepRow /\ WatchKeeps

WatchApply ==
    /\ lock = "watch"
    /\ lock' = "none"
    /\ IF file # NoFile
       THEN SetRow(Invalidated(Observed(row, file.m, FALSE, FALSE)))
       ELSE SetRow(Missing(row))
    /\ UNCHANGED <<watch, faults, unsure, blind>> /\ WatchKeeps

\* The batch is kept and replayed, but until the observer is registered again
\* changes go unnoticed.
WatchFail ==
    /\ lock = "watch"
    /\ Fault
    /\ lock' = "none"
    /\ pend' = TRUE
    /\ armed' = FALSE /\ blind' = TRUE
    /\ UNCHANGED <<echo, unsure>> /\ KeepRow /\ WatchKeeps

(***************************************************************************)
(* Jobs.                                                                   *)
(***************************************************************************)

JobKeeps == UNCHANGED <<armed, stats, edits, owed, clobber, sly, blind>>

\* queue_jobs, under the Vault lock.
Admit(act) ==
    /\ job.st \notin Active /\ job.n < MaxJobs
    /\ act = "free-space" => row.presence = "present" /\ row.matched /\ row.digest = Old
    /\ act = "recover" => row.presence # "present"
    /\ job' = [act |-> act, n |-> job.n + 1, st |-> "queued", owned |-> FALSE]
    /\ UNCHANGED <<disk, row, echo, lock, work, sweep, faults, gone>>
    /\ Untouched /\ JobKeeps

\* claim_job.
Claim ==
    /\ job.st \in {"queued", "restoring"} /\ work.pc = "idle"
    /\ job' = [job EXCEPT !.st = "running", !.owned = TRUE]
    /\ work' = [WorkIdle EXCEPT !.pc = "start"]
    /\ UNCHANGED <<disk, row, echo, lock, sweep, faults, gone>> /\ Untouched
    /\ JobKeeps

\* The lease of a live worker runs out; reconciliation may take the Job.
LoseLease ==
    /\ job.st = "running" /\ job.owned /\ Fault
    /\ job' = [job EXCEPT !.owned = FALSE]
    /\ UNCHANGED <<disk, row, echo, lock, work, sweep, gone>> /\ Untouched
    /\ JobKeeps

\* set_job: fenced by the claim.
JobBecomes(st) ==
    job' = IF job.owned THEN [job EXCEPT !.st = st, !.owned = FALSE] ELSE job

\* Mutant: the scan lock is not released on an error.
RaiseHoldingLock ==
    /\ JobBecomes("failed")
    /\ work' = WorkIdle
    /\ UNCHANGED lock

\* The worker raises: the Job fails if it is still the worker's.
Raise ==
    /\ JobBecomes("failed")
    /\ work' = WorkIdle
    /\ lock' = IF lock = "worker" THEN "none" ELSE lock

\* process_free_space up to the claim: under the lock, authorised by the row
\* and by a HEAD of the exact version.
FreeStart ==
    /\ job.act = "free-space" /\ work.pc = "start" /\ lock = "none"
    /\ \/ /\ job.owned /\ Releasable(row)
          /\ work' = [work EXCEPT !.pc = "rename", !.tgt = row.m]
          /\ lock' = "worker"
          /\ UNCHANGED <<job, faults>>
       \/ ~(job.owned /\ Releasable(row)) /\ Raise /\ UNCHANGED faults
       \/ Fault /\ Raise
    /\ UNCHANGED <<disk, row, echo, sweep, gone>> /\ Untouched /\ JobKeeps

FreeRename ==
    /\ work.pc = "rename"
    /\ IF job.owned /\ file # NoFile
       THEN /\ claims' = claims \cup {file}
            /\ file' = NoFile
            /\ Touched /\ Forgotten
            /\ work' = [work EXCEPT !.pc = "hash", !.got = file]
            /\ UNCHANGED <<job, lock>>
       ELSE Raise /\ Untouched /\ UNCHANGED <<claims, file, echo>>
    /\ UNCHANGED <<temp, row, sweep, faults, gone>> /\ JobKeeps

\* Mutant: the claimed file is not read again.
FreeTrustStat ==
    /\ work.pc = "hash"
    /\ work' = [work EXCEPT !.pc =
                    IF work.got \in claims /\ work.got.m = work.tgt
                    THEN "unlink" ELSE "undo"]
    /\ UNCHANGED <<disk, row, echo, lock, job, sweep, faults, gone>> /\ Untouched
    /\ JobKeeps

FreeHash ==
    /\ work.pc = "hash"
    /\ work' = [work EXCEPT !.pc =
                    IF work.got \in claims /\ work.got.m = work.tgt /\ work.got.c = Old
                    THEN "unlink" ELSE "undo"]
    /\ UNCHANGED <<disk, row, echo, lock, job, sweep, faults, gone>> /\ Untouched
    /\ JobKeeps

\* The transaction that authorises the unlink once more; it may still fail to
\* commit after the file is gone.
FreeUnlink ==
    /\ work.pc = "unlink"
    /\ IF job.owned /\ Releasable(row) /\ row.m = work.tgt /\ work.got \in claims
       THEN /\ claims' = claims \ {work.got}
            /\ \/ work' = [work EXCEPT !.pc = "look"] /\ UNCHANGED faults
               \/ work' = [work EXCEPT !.pc = "undo"] /\ Fault
       ELSE /\ work' = [work EXCEPT !.pc = "undo"]
            /\ UNCHANGED <<claims, faults>>
    /\ UNCHANGED <<file, temp, row, echo, lock, job, sweep, gone>> /\ Untouched
    /\ JobKeeps

\* restore_claimed_local_copy: never over an entry that is there.
FreeUndo ==
    /\ work.pc = "undo"
    /\ IF work.got \in claims /\ file = NoFile
       THEN /\ file' = work.got
            /\ claims' = claims \ {work.got}
            /\ Touched
       ELSE Untouched /\ UNCHANGED <<file, claims>>
    /\ work' = [work EXCEPT !.pc = "repair",
                            !.swap = (work.got \in claims /\ file # NoFile)]
    /\ UNCHANGED <<temp, row, echo, lock, job, sweep, faults, gone>>
    /\ JobKeeps

\* _repair_failed_local_release, and the exception goes on.
FreeRepair ==
    /\ work.pc = "repair"
    /\ IF file # NoFile
       THEN /\ SetRow(Fingerprinted(IF work.swap THEN Replaced(file.m)
                                    ELSE Observed(row, file.m, FALSE, FALSE), file.c))
            /\ echo' = file
       ELSE KeepRow /\ UNCHANGED echo
    /\ Raise
    /\ UNCHANGED <<disk, sweep, faults>> /\ Untouched /\ JobKeeps

\* lstat of the path, before the transaction that records it.
FreeLook ==
    /\ work.pc = "look"
    /\ IF job.owned
       THEN work' = [work EXCEPT !.pc = "publish", !.got = file] /\ UNCHANGED <<job, lock>>
       ELSE Raise
    /\ UNCHANGED <<disk, row, echo, sweep, faults, gone>> /\ Untouched /\ JobKeeps

FreePublish ==
    /\ work.pc = "publish"
    /\ IF job.owned
       THEN /\ row' = IF work.got = NoFile THEN Missing(row) ELSE Replaced(work.got.m)
            /\ gone' = TRUE
            /\ work' = [work EXCEPT !.pc = "finish"]
            /\ UNCHANGED <<job, lock>>
       ELSE Raise /\ KeepRow
    /\ UNCHANGED <<disk, echo, sweep, faults>> /\ Untouched /\ JobKeeps

Finish ==
    /\ work.pc = "finish"
    /\ JobBecomes("completed")
    /\ work' = WorkIdle
    /\ lock' = IF lock = "worker" THEN "none" ELSE lock
    /\ UNCHANGED <<disk, row, echo, sweep, faults, gone>> /\ Untouched /\ JobKeeps

\* process_recover up to the download: a cold object is restored first, and
\* the Job waits for the scheduler.
RecoverStart ==
    /\ job.act = "recover" /\ work.pc = "start"
    /\ IF job.owned /\ row.presence # "present"
       THEN \/ work' = [work EXCEPT !.pc = "download"] /\ UNCHANGED <<job, lock, faults>>
            \/ JobBecomes("restoring") /\ work' = WorkIdle /\ Fault /\ UNCHANGED lock
       ELSE Raise /\ UNCHANGED faults
    /\ UNCHANGED <<disk, row, echo, sweep, gone>> /\ Untouched /\ JobKeeps

\* download_exact_version_plaintext; damaged bytes are found by the digest.
RecoverDownload ==
    /\ work.pc = "download"
    /\ \/ /\ job.owned
          /\ temp' = [c |-> Old, m |-> stats + 1]
          /\ stats' = stats + 1
          /\ work' = [work EXCEPT !.pc = "enter", !.got = temp']
          /\ UNCHANGED <<job, lock, faults>>
       \/ ~job.owned /\ Raise /\ UNCHANGED <<temp, stats, faults>>
       \/ Fault /\ Raise /\ UNCHANGED <<temp, stats>>
    /\ UNCHANGED <<file, claims, row, echo, sweep, gone, armed, edits, owed, clobber,
                   sly, blind>>
    /\ Untouched

\* The temporary file is unlinked whatever happens.
RecoverRaise == Raise /\ temp' = NoFile

\* The scan lock, the claim, the temporary file and the free destination.
RecoverEnter ==
    /\ work.pc = "enter" /\ lock = "none"
    /\ IF job.owned /\ temp = work.got /\ file = NoFile
       THEN /\ work' = [work EXCEPT !.pc = "replace"]
            /\ lock' = "worker"
            /\ UNCHANGED <<job, temp>>
       ELSE RecoverRaise
    /\ UNCHANGED <<file, claims, row, echo, sweep, faults, gone>> /\ Untouched
    /\ JobKeeps

\* os.replace: it would replace a file created since the test.
RecoverReplace ==
    /\ work.pc = "replace"
    /\ IF temp = NoFile
       THEN RecoverRaise /\ Untouched /\ UNCHANGED <<file, clobber>>
       ELSE /\ file' = temp
            /\ temp' = NoFile
            /\ clobber' = (clobber \/ file # NoFile)
            /\ Touched
            /\ work' = [work EXCEPT !.pc = "lstat"]
            /\ UNCHANGED <<job, lock>>
    /\ UNCHANGED <<claims, row, echo, sweep, faults, gone, armed, stats, edits,
                   owed, sly, blind>>

\* The stat the watcher's echo will be compared with.
RecoverStat ==
    /\ work.pc = "lstat"
    /\ IF file = NoFile
       THEN Raise
       ELSE /\ work' = [work EXCEPT !.pc = "record", !.tgt = file.m]
            /\ UNCHANGED <<job, lock>>
    /\ UNCHANGED <<disk, row, echo, sweep, faults, gone>> /\ Untouched /\ JobKeeps

\* The transaction of the publication, and local_observation.remember.
RecoverRecord ==
    /\ work.pc = "record"
    /\ IF job.owned
       THEN /\ SetRow(Fingerprinted(Observed(row, work.got.m, FALSE, TRUE), Old))
            /\ echo' = [c |-> Old, m |-> work.tgt]
            /\ work' = [work EXCEPT !.pc = "finish"]
            /\ lock' = "none"
            /\ UNCHANGED job
       ELSE Raise /\ KeepRow /\ UNCHANGED echo
    /\ UNCHANGED <<disk, sweep, faults>> /\ Untouched /\ JobKeeps

(***************************************************************************)
(* _reconcile_interrupted_jobs_impl, for a Job whose lease has run out.    *)
(* It does not take the scan lock.                                         *)
(***************************************************************************)

SweepKeeps == UNCHANGED <<armed, echo, lock, work, stats, edits, faults, owed, clobber, sly>>

\* Mutant: a status the schema does not have.
TransitionUnknown(st) == job' = [job EXCEPT !.st = IF st = "queued" THEN "retry" ELSE st]

\* _reconcile_job_transition.
Transition(st) == job' = [job EXCEPT !.st = st]

Interrupted == job.st = "running" /\ ~job.owned

SweepStart ==
    /\ Interrupted /\ sweep.pc = "idle"
    /\ \/ /\ file # NoFile /\ job.act = "free-space"
          /\ Transition("queued") /\ UNCHANGED <<temp, sweep>>
       \/ /\ file = NoFile /\ job.act = "free-space"
          /\ sweep' = [SweepIdle EXCEPT !.pc = "glob"]
          /\ UNCHANGED <<temp, job>>
       \/ /\ job.act = "recover"
          /\ temp' = NoFile
          /\ IF file = NoFile THEN Transition("queued") /\ UNCHANGED sweep
             ELSE IF file.c # Old THEN Transition("failed") /\ UNCHANGED sweep
             ELSE sweep' = [pc |-> "adopt", got |-> file] /\ UNCHANGED job
    /\ UNCHANGED <<file, claims>> /\ Untouched /\ KeepRow
    /\ UNCHANGED blind /\ SweepKeeps

\* Claims that survived, if any, are put back one at a time.
SweepGlob ==
    /\ sweep.pc = "glob"
    /\ \/ claims = {} /\ sweep' = [sweep EXCEPT !.pc = "free"]
       \/ \E e \in claims : sweep' = [pc |-> "restore", got |-> e]
    /\ UNCHANGED <<disk, job>> /\ Untouched /\ KeepRow
    /\ UNCHANGED blind /\ SweepKeeps

SweepRestore ==
    /\ sweep.pc = "restore"
    /\ LET there == sweep.got \in claims
       IN  IF there /\ file = NoFile
           THEN /\ file' = sweep.got
                /\ claims' = claims \ {sweep.got}
                /\ Touched
                /\ Transition("queued")
                /\ sweep' = SweepIdle
           ELSE /\ IF ~there /\ file # NoFile
                   THEN Transition("queued") /\ sweep' = SweepIdle
                   ELSE sweep' = [sweep EXCEPT !.pc = "free"] /\ UNCHANGED job
                /\ UNCHANGED <<file, claims>> /\ Untouched
    /\ UNCHANGED <<temp, blind>> /\ KeepRow /\ SweepKeeps

\* With no claim left the local space was freed.
SweepFree ==
    /\ sweep.pc = "free"
    /\ IF claims # {}
       THEN Transition("failed") /\ UNCHANGED <<scan, unsure>> /\ KeepRow
       ELSE /\ SetRow(Missing(row))
            /\ Transition("completed")
            /\ unsure' = TRUE
            /\ scan' = [scan EXCEPT !.clean = FALSE]
    /\ sweep' = SweepIdle
    /\ UNCHANGED <<disk, pend, blind>> /\ SweepKeeps

\* _reconcile_recover_job adopts the verified destination.
SweepAdopt ==
    /\ sweep.pc = "adopt"
    /\ Transition("completed")
    /\ SetRow(Fingerprinted(Observed(row, sweep.got.m, FALSE, TRUE), Old))
    /\ sweep' = SweepIdle
    /\ unsure' = TRUE /\ blind' = TRUE
    /\ scan' = [scan EXCEPT !.clean = FALSE]
    /\ UNCHANGED <<disk, pend>> /\ SweepKeeps

\* The process dies and starts again.  cleanup_abandoned_restore_files removes
\* what recoveries left, never a claim.
Restart ==
    /\ Fault
    /\ temp' = NoFile
    /\ pend' = FALSE /\ armed' = FALSE /\ echo' = NoFile
    /\ lock' = "none" /\ scan' = ScanIdle /\ work' = WorkIdle /\ sweep' = SweepIdle
    /\ job' = [job EXCEPT !.owned = FALSE]
    /\ unsure' = TRUE
    /\ blind' = TRUE
    /\ SetRow([row EXCEPT !.seen = FALSE, !.late = FALSE])
    /\ UNCHANGED <<file, claims, stats, edits, owed, clobber, sly>>

Init ==
    /\ file = [c |-> Old, m |-> 1] /\ claims = {} /\ temp = NoFile
    /\ row = [presence |-> "present", m |-> 1, digest |-> Old, matched |-> TRUE,
              hold |-> FALSE, seen |-> FALSE, late |-> FALSE]
    /\ pend = FALSE /\ armed = TRUE /\ echo = NoFile
    /\ lock = "none" /\ scan = ScanIdle
    /\ job = [act |-> "recover", n |-> 0, st |-> "none", owned |-> FALSE]
    /\ work = WorkIdle /\ sweep = SweepIdle
    /\ stats = 1 /\ edits = 0 /\ faults = 0
    /\ owed = Old /\ clobber = FALSE /\ sly = FALSE /\ blind = FALSE /\ unsure = FALSE
    /\ gone = FALSE

ScanStep == ScanWalk \/ ScanFlush \/ ScanHash \/ ScanApply \/ ScanFinal
WatchStep == WatchArm \/ WatchApply
WorkStep ==
    \/ FreeRename \/ FreeHash \/ FreeUnlink \/ FreeUndo \/ FreeRepair
    \/ FreeLook \/ FreePublish \/ Finish
    \/ RecoverStart \/ RecoverDownload \/ RecoverReplace \/ RecoverStat
    \/ RecoverRecord
SweepStep == SweepStart \/ SweepGlob \/ SweepRestore \/ SweepFree \/ SweepAdopt

Next ==
    \/ \E c \in Edits : Save(c)
    \/ Remove \/ ConfirmReplacement
    \/ ScanStart \/ ScanStep \/ ScanFail
    \/ WatchTake \/ WatchStep \/ WatchFail
    \/ \E act \in {"free-space", "recover"} : Admit(act)
    \/ Claim \/ LoseLease
    \/ FreeStart \/ RecoverEnter \/ WorkStep
    \/ SweepStep
    \/ Restart

\* Threads go on; the lock is taken by each of those that wait for it again
\* and again; scans are periodic, and so is the sweep.
Fairness ==
    /\ WF_vars(ScanStep) /\ WF_vars(WatchStep) /\ WF_vars(Claim \/ WorkStep)
    /\ WF_vars(SweepStep)
    /\ SF_vars(ScanStart) /\ SF_vars(WatchTake) /\ SF_vars(FreeStart \/ RecoverEnter)

Spec == Init /\ [][Next]_vars /\ Fairness

(***************************************************************************)
(* Properties.                                                             *)
(***************************************************************************)

\* What the Owner last wrote, and did not remove, is at the path, in a claim
\* beside it or in the verified Archive Version, whatever _process_free_space,
\* its repair, a crash and reconciliation do; the one exception is a file
\* created between the test and the replace of process_recover.
ContentKept ==
    owed = NoContent \/ owed = Old \/ clobber \/ owed = file.c
    \/ \E e \in claims : e.c = owed

\* What the row says of the disk.
Describes ==
    /\ (row.presence = "present") <=> (file # NoFile)
    /\ file # NoFile => row.digest \in {NoContent, file.c}


\* Content that appeared where only the cloud had a copy, and that is not this
\* copy, stays held back from upload until the Owner confirms it.
OnlyCopyHeld ==
    gone /\ row.presence = "present" /\ row.digest \notin {Old, NoContent} => row.hold

\* Once the Owner leaves the file alone, scans and events bring the row to
\* describe it for good, also after lost leases and the races of the sweep.
RowSettles == <>[](Describes \/ (sly /\ blind))

\* A Job of the file comes to an end.
JobEnds == job.st \in Active ~> job.st \notin Active
=============================================================================
