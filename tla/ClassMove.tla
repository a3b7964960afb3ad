------------------------------ MODULE ClassMove ------------------------------
(***************************************************************************)
(* Changing the storage class of an Archive Version: the Job of one file   *)
(* (storage.process_storage_class), and the Vault-wide move with its       *)
(* durable ledger (services/vault_moves.py), which also removes the old    *)
(* version.  Copies are made and verified by services/s3_copy.py.          *)
(*                                                                         *)
(* One file, one Job.  The versions of its key are a sequence, oldest      *)
(* first; only their provenance, class and integrity matter.  A worker     *)
(* whose lease is lost goes on until its next check.                       *)
(***************************************************************************)
EXTENDS Integers, Sequences, FiniteSets, SequencesExt

CONSTANTS
    Workers,
    NoWorker,
    MaxFaults,  \* bound: crashes, lost leases and answers, errors, late copies
    MaxForeign  \* bound: versions or delete markers put by others

VARIABLES
    kind,    \* "move" (ledger) or "plain" (no ledger, warms a cold source)
    key,     \* versions of the key: [v, by, good]; by "marker" is a delete marker
    ids,     \* versions stored so far
    restore, \* of a cold source: no, ongoing, ready; "warm" needs none
    rows,    \* archive_versions by version_number: [v, av, ver]
    job,     \* [st, tok, live]
    ledger,  \* vault_class_moves: [started, dst, arch, deleted]
    wk,      \* workers: step, their copy of the ledger, destination
    lock,    \* holder of the Vault row lock across provider calls
    late,    \* copy requests given up by the client but not yet executed
    copies,  \* history: copy requests sent
    foreign,
    faults

vars == <<kind, key, ids, restore, rows, job, ledger, wk, lock, late, copies,
          foreign, faults>>

Source == 1
NoMove == [started |-> FALSE, dst |-> 0, arch |-> FALSE, deleted |-> FALSE]
Idle == [pc |-> "idle", mv |-> NoMove, dst |-> 0, again |-> FALSE]
Terminal == {"completed", "failed", "cancelled"}

Stored(v) == \E i \in DOMAIN key : key[i].v = v
At(v) == key[CHOOSE i \in DOMAIN key : key[i].v = v]
Current == key[Len(key)]
RowOf(v) == CHOOSE i \in DOMAIN rows : rows[i].v = v
HasRow(v) == \E i \in DOMAIN rows : rows[i].v = v
Readable == Stored(Source) /\ restore \in {"ready", "warm"}

\* The Archive Version of a plain change: the one verified row.
Target == CHOOSE i \in DOMAIN rows : rows[i].ver

\* The newest row that is not purged.
Latest ==
    LET S == {i \in DOMAIN rows : rows[i].av # "purged"}
    IN  IF S = {} THEN 0 ELSE CHOOSE i \in S : \A j \in S : j <= i

Fault == faults < MaxFaults /\ faults' = faults + 1
NoFault == UNCHANGED faults

Owns(w) == job.st = "running" /\ job.tok = w /\ job.live

Become(st) == job' = [st |-> st, tok |-> NoWorker, live |-> FALSE]
Leave(w) == wk' = [wk EXCEPT ![w] = Idle]
Goto(w, pc) == wk' = [wk EXCEPT ![w].pc = pc]

\* OperationCancelled and JobLeaseLost end the worker; MoveBlocked and other
\* errors fail the Job if the claim is still held; a transient error of a
\* move is retried.
Quit(w) == Leave(w) /\ UNCHANGED <<job, key, ids, rows, ledger, lock, late, copies>>

\* Mutant: a blocked move is tried again.
BlockedRetries(w) ==
    /\ IF Owns(w) THEN Become("queued") ELSE UNCHANGED job
    /\ Leave(w) /\ UNCHANGED <<key, ids, rows, ledger, lock, late, copies>>
Blocked(w) ==
    /\ IF Owns(w) THEN Become("failed") ELSE UNCHANGED job
    /\ Leave(w) /\ UNCHANGED <<key, ids, rows, ledger, lock, late, copies>>
Retry(w) ==
    /\ IF Owns(w) THEN Become(IF kind = "move" THEN "queued" ELSE "failed") ELSE UNCHANGED job
    /\ Leave(w)

(***************************************************************************)
(* Claiming, losing and reconciling the Job.                               *)
(***************************************************************************)

\* eligibility: the newest unpurged version is verified and available, and
\* refresh_cold_sources saw that it can be read now.
Eligible == Latest # 0 /\ rows[Latest].ver /\ rows[Latest].av = "available" /\ Readable

\* schedule, or a storage-class Job of one file, for a file without work.
Schedule ==
    /\ job.st = "none" /\ (kind = "move" => Eligible)
    /\ Become("queued")
    /\ UNCHANGED <<kind, key, ids, restore, rows, ledger, wk, lock, late, copies, foreign, faults>>

Claim(w) ==
    /\ wk[w].pc = "idle" /\ job.st \in {"queued", "restoring"} /\ lock = NoWorker
    /\ job' = [st |-> "running", tok |-> w, live |-> TRUE]
    /\ wk' = [wk EXCEPT ![w] = [Idle EXCEPT !.pc = IF kind = "move" THEN "begin" ELSE "head",
                                            !.mv = ledger, !.again = job.st = "restoring"]]
    /\ UNCHANGED <<kind, key, ids, restore, rows, ledger, lock, late, copies, foreign, faults>>

Cancel ==
    /\ job.st \notin Terminal \cup {"none"} /\ lock = NoWorker
    /\ Become("cancelled")
    /\ UNCHANGED <<kind, key, ids, restore, rows, ledger, wk, lock, late, copies, foreign, faults>>

\* The process dies: an open transaction is rolled back.
Crash(w) ==
    /\ wk[w].pc # "idle" /\ Fault
    /\ Leave(w)
    /\ lock' = IF lock = w THEN NoWorker ELSE lock
    /\ UNCHANGED <<kind, key, ids, restore, rows, job, ledger, late, copies, foreign>>

Orphaned == job.live /\ wk[job.tok].pc = "idle"

Expire ==
    /\ job.live
    /\ IF Orphaned THEN NoFault ELSE Fault
    /\ job' = [job EXCEPT !.live = FALSE]
    /\ UNCHANGED <<kind, key, ids, restore, rows, ledger, wk, lock, late, copies, foreign>>

\* Mutant: an interrupted plain change is simply tried again.
ReconciledAgain == "queued"

\* _reconcile_storage_class_job: the ledger resumes; without one the change is
\* completed when the catalogued version is the new one, and never repeated.
Reconciled ==
    IF kind = "move" THEN "queued"
    ELSE IF rows[Target].v # Source /\ Stored(rows[Target].v) THEN "completed" ELSE "failed"

Reconcile ==
    /\ job.st = "running" /\ ~job.live /\ lock = NoWorker
    /\ Become(Reconciled)
    /\ UNCHANGED <<kind, key, ids, restore, rows, ledger, wk, lock, late, copies, foreign, faults>>

(***************************************************************************)
(* The bucket.                                                             *)
(***************************************************************************)

Put(by, good) ==
    /\ key' = Append(key, [v |-> ids + 1, by |-> by, good |-> good])
    /\ ids' = ids + 1

Foreign(by) ==
    /\ foreign < MaxForeign /\ foreign' = foreign + 1
    /\ Put(by, FALSE)
    /\ UNCHANGED <<kind, restore, rows, job, ledger, wk, lock, late, copies, faults>>

\* A copy the client gave up on is executed after all.
LateCopy ==
    /\ late > 0 /\ late' = late - 1
    /\ IF Stored(Source) THEN Put("copy", TRUE) ELSE UNCHANGED <<key, ids>>
    /\ UNCHANGED <<kind, restore, rows, job, ledger, wk, lock, copies, foreign, faults>>

\* scan_cloud: listed versions are recorded unverified, below a verified keeper
\* if there is one; a version that is gone is missing (the newest never is).
Scan ==
    LET known == [i \in DOMAIN rows |->
            IF rows[i].av # "available" \/ Stored(rows[i].v) THEN rows[i]
            ELSE [rows[i] EXCEPT !.av = "missing"]]
        found == [v |-> 0, av |-> "available", ver |-> FALSE]
        add(rs, x) ==
            IF \E r \in ToSet(rs) : r.ver /\ r.av = "available"
            THEN <<[found EXCEPT !.v = x.v]>> \o rs ELSE Append(rs, [found EXCEPT !.v = x.v])
        new == SelectSeq(key, LAMBDA x : x.by # "marker" /\ ~HasRow(x.v))
    IN  /\ rows' = FoldLeft(add, known, new)
        /\ UNCHANGED <<kind, key, ids, restore, job, ledger, wk, lock, late, copies, foreign, faults>>

RestoreDone ==
    /\ restore = "ongoing" /\ restore' = "ready"
    /\ UNCHANGED <<kind, key, ids, rows, job, ledger, wk, lock, late, copies, foreign, faults>>

\* A restored copy is temporary.
RestoreOver ==
    /\ restore = "ready" /\ Fault /\ restore' = "no"
    /\ UNCHANGED <<kind, key, ids, rows, job, ledger, wk, lock, late, copies, foreign>>

(***************************************************************************)
(* The move with a ledger (vault_moves.process).                           *)
(***************************************************************************)

\* fence: the claim is held and the captured source, or our own destination,
\* is still what the catalog calls current.
Captured(w) ==
    LET mv == wk[w].mv
        r == rows[Latest]
    IN  /\ Latest # 0
        /\ r.v = Source => r.ver /\ r.av = "available"
        /\ r.v # Source => mv.dst = r.v /\ (mv.arch => r.ver /\ r.av = "available")

\* Do A under the fence, unless the claim is lost or the fence refuses.
Fenced(w, A) ==
    /\ lock = NoWorker
    /\ \/ ~Owns(w) /\ Quit(w)
       \/ Owns(w) /\ ~Captured(w) /\ Blocked(w)
       \/ Owns(w) /\ Captured(w) /\ A

\* Versions of the key that carry the token of this move.
Tokened == {i \in DOMAIN key : key[i].by = "copy"}
Markers == {i \in DOMAIN key : key[i].by = "marker"}

\* discover_destination: several matches, or a marker, are held.
Single == Cardinality(Tokened) <= 1 /\ Markers = {}

\* Versions of another size block as well.  "rediscover" follows an answer
\* without a VersionId.
Discover(w) ==
    /\ wk[w].pc \in {"discover", "rediscover"}
    /\ \/ (~Single \/ \E i \in DOMAIN key : key[i].by = "other"
            \/ (Tokened = {} /\ wk[w].pc = "rediscover")) /\ Blocked(w)
       \/ /\ Single /\ (Tokened = {} => wk[w].pc = "discover")
          /\ LET d == IF Tokened = {} THEN 0 ELSE key[CHOOSE i \in Tokened : TRUE].v
             IN  wk' = [wk EXCEPT ![w].pc = IF @ = "discover" THEN "capture" ELSE "persist",
                                  ![w].dst = d, ![w].mv.dst = d]
          /\ UNCHANGED <<job, key, ids, rows, ledger, lock, late, copies>>
    /\ NoFault
    /\ UNCHANGED <<kind, restore, foreign>>

\* Mutant: a recorded destination is taken for a finished move.
BeginFinished(w) ==
    /\ wk[w].pc = "begin"
    /\ IF ~Owns(w) THEN Quit(w)
       ELSE /\ IF wk[w].mv.dst = 0 /\ wk[w].mv.started THEN Goto(w, "discover")
               ELSE Goto(w, IF wk[w].mv.dst = 0 THEN "capture" ELSE "complete")
            /\ UNCHANGED <<job, key, ids, rows, ledger, lock, late, copies>>
    /\ NoFault /\ UNCHANGED <<kind, restore, foreign>>

Begin(w) ==
    /\ wk[w].pc = "begin"
    /\ IF ~Owns(w) THEN Quit(w)
       ELSE /\ IF wk[w].mv.dst = 0 /\ wk[w].mv.started THEN Goto(w, "discover")
               ELSE wk' = [wk EXCEPT ![w].pc = "capture", ![w].dst = wk[w].mv.dst]
            /\ UNCHANGED <<job, key, ids, rows, ledger, lock, late, copies>>
    /\ NoFault /\ UNCHANGED <<kind, restore, foreign>>

Capture(w) ==
    /\ wk[w].pc = "capture"
    /\ Fenced(w, /\ Goto(w, IF wk[w].dst = 0 THEN "source" ELSE "verify")
                 /\ UNCHANGED <<job, key, ids, rows, ledger, lock, late, copies>>)
    /\ NoFault /\ UNCHANGED <<kind, restore, foreign>>

\* exact_head and require_current of the source, then copy_started.
SourceReady(w) ==
    /\ wk[w].pc = "source"
    /\ IF Readable /\ Current.v = Source
       THEN Fenced(w, /\ ledger' = [ledger EXCEPT !.started = TRUE]
                      /\ Goto(w, "copy")
                      /\ UNCHANGED <<job, key, ids, rows, lock, late, copies>>)
       ELSE Blocked(w)
    /\ NoFault /\ UNCHANGED <<kind, restore, foreign>>

\* CopyObject, or the parts and the completion of a multipart copy: the answer
\* may be lost, may lack the VersionId, or come after the client gave up, and a
\* stored copy may be damaged.
CopyOutcome(w) ==
    \/ /\ Put("copy", TRUE) /\ NoFault
       /\ wk' = [wk EXCEPT ![w].pc = "persist", ![w].dst = ids + 1, ![w].mv.dst = ids + 1]
       /\ UNCHANGED <<job, late>>
    \/ /\ Put("copy", FALSE) /\ Fault
       /\ wk' = [wk EXCEPT ![w].pc = "persist", ![w].dst = ids + 1, ![w].mv.dst = ids + 1]
       /\ UNCHANGED <<job, late>>
    \/ /\ Put("copy", TRUE) /\ Fault
       /\ Goto(w, IF kind = "move" THEN "rediscover" ELSE "persist")
       /\ UNCHANGED <<job, late>>
    \/ Put("copy", TRUE) /\ Fault /\ Retry(w) /\ UNCHANGED late
    \/ late' = late + 1 /\ Fault /\ Retry(w) /\ UNCHANGED <<key, ids>>

\* _copy_storage_class_version, after a last check of the claim.
Copy(w) ==
    /\ wk[w].pc = "copy"
    /\ \/ ~Owns(w) /\ Quit(w) /\ NoFault
       \/ Owns(w) /\ ~Readable /\ Blocked(w) /\ NoFault
       \/ /\ Owns(w) /\ Readable /\ copies' = copies + 1
          /\ CopyOutcome(w)
          /\ UNCHANGED <<rows, ledger, lock>>
    /\ UNCHANGED <<kind, restore, foreign>>

\* The destination is written down before anything else can happen.
Persist(w) ==
    /\ wk[w].pc = "persist"
    /\ IF kind = "plain" THEN IF Owns(w) THEN Goto(w, "verify") /\ UNCHANGED <<job, ledger>>
                                         ELSE Leave(w) /\ UNCHANGED <<job, ledger>>
       ELSE Fenced(w, /\ ledger' = [ledger EXCEPT !.dst = wk[w].dst]
                      /\ Goto(w, "verify") /\ UNCHANGED job)
    /\ UNCHANGED <<key, ids, rows, lock, late, copies>>
    /\ NoFault /\ UNCHANGED <<kind, restore, foreign>>

\* Without a VersionId in the answer a plain change looks at the current one.
Candidate(w) == IF wk[w].dst = 0 THEN Current.v ELSE wk[w].dst

\* Mutant: size and class are taken for the content.
ProvenBySize(v) == Stored(v) /\ At(v).by = "copy"

\* _sha256_s3_version: the bytes of one exact version.
Intact(v) == At(v).good

\* exact_head, the token, and _verify_storage_class_destination.
Proven(v) == Stored(v) /\ At(v).by = "copy" /\ Intact(v)


Verify(w) ==
    /\ wk[w].pc = "verify"
    /\ IF ~Owns(w) THEN Quit(w)
       ELSE IF Proven(Candidate(w)) /\ (kind = "move" => Current.v = wk[w].dst)
       THEN /\ wk' = [wk EXCEPT ![w].pc = "publish", ![w].dst = Candidate(w)]
            /\ UNCHANGED <<job, key, ids, rows, ledger, lock, late, copies>>
       ELSE Blocked(w)
    /\ NoFault /\ UNCHANGED <<kind, restore, foreign>>

\* Mutant: the row of a scan is not looked for.
PublishedTwice(v) == Append(rows, [v |-> v, av |-> "available", ver |-> TRUE])

\* record_archive_version and mark_version_verified of the destination.
Published(v) ==
    IF HasRow(v) THEN [rows EXCEPT ![RowOf(v)].av = "available", ![RowOf(v)].ver = TRUE]
    ELSE Append(rows, [v |-> v, av |-> "available", ver |-> TRUE])

Publish(w) ==
    /\ wk[w].pc = "publish" /\ kind = "move"
    /\ Fenced(w, /\ rows' = IF wk[w].mv.arch THEN rows ELSE Published(wk[w].dst)
                 /\ ledger' = [ledger EXCEPT !.arch = TRUE, !.dst = wk[w].dst]
                 /\ wk' = [wk EXCEPT ![w].pc = "check", ![w].mv.arch = TRUE]
                 /\ UNCHANGED <<job, key, ids, lock, late, copies>>)
    /\ NoFault /\ UNCHANGED <<kind, restore, foreign>>

\* The listing and the HEAD under the locks: keeper there and current, no
\* marker, and nothing but the source beside it.
OnlyOurs(w) ==
    /\ Stored(wk[w].dst) /\ Markers = {} /\ Current.v = wk[w].dst
    /\ \A i \in DOMAIN key : key[i].v \in {Source, wk[w].dst}

Check(w) ==
    /\ wk[w].pc = "check"
    /\ IF OnlyOurs(w)
       THEN Fenced(w, /\ Goto(w, "delete") /\ lock' = w
                      /\ UNCHANGED <<job, key, ids, rows, ledger, late, copies>>)
       ELSE lock = NoWorker /\ Blocked(w)
    /\ NoFault /\ UNCHANGED <<kind, restore, foreign>>


\* The single irreversible call, made while the locks are held.
Delete(w) ==
    /\ wk[w].pc = "delete"
    /\ key' = SelectSeq(key, LAMBDA x : x.v # Source)
    /\ Goto(w, "commit")
    /\ NoFault /\ UNCHANGED <<kind, ids, restore, rows, job, ledger, lock, late, copies, foreign>>

\* mark_versions_purged and source_deleted are committed,
Commit(w) ==
    /\ wk[w].pc = "commit"
    /\ rows' = [i \in DOMAIN rows |-> IF rows[i].v = Source THEN [rows[i] EXCEPT !.av = "purged"]
                                      ELSE rows[i]]
    /\ ledger' = [ledger EXCEPT !.deleted = TRUE]
    /\ lock' = NoWorker
    /\ Goto(w, "complete")
    /\ NoFault /\ UNCHANGED <<kind, key, ids, restore, job, late, copies, foreign>>

\* and the Job is completed in a transaction of its own.
Complete(w) ==
    /\ wk[w].pc = "complete"
    /\ IF Owns(w) THEN Become("completed") ELSE UNCHANGED job
    /\ Leave(w)
    /\ NoFault /\ UNCHANGED <<kind, key, ids, restore, rows, ledger, lock, late, copies, foreign>>

(***************************************************************************)
(* The change of one file without a ledger.                                *)
(***************************************************************************)

\* process_storage_class: a cold source is restored first.  A Job that already
\* waits for its restore does not ask again.
HeadSource(w) ==
    /\ wk[w].pc = "head"
    /\ \/ ~Owns(w) /\ Quit(w) /\ UNCHANGED restore
       \/ /\ Owns(w) /\ Readable
          /\ Goto(w, "copy")
          /\ UNCHANGED <<job, restore, key, ids, rows, ledger, lock, late, copies>>
       \/ /\ Owns(w) /\ ~Readable
          /\ restore' = IF restore = "no" /\ ~wk[w].again THEN "ongoing" ELSE restore
          /\ Become("restoring") /\ Leave(w)
          /\ UNCHANGED <<key, ids, rows, ledger, lock, late, copies>>
    /\ NoFault /\ UNCHANGED <<kind, foreign>>

\* publish_storage_class_copy: the row of the source now names the new version.
Placed(v) == [rows EXCEPT ![Target].v = v]

\* A row a scan recorded for that version first violates the unique index.
Place(w) ==
    /\ wk[w].pc = "publish" /\ kind = "plain"
    /\ IF ~Owns(w) THEN Quit(w)
       ELSE IF HasRow(wk[w].dst) THEN Blocked(w)
       ELSE /\ rows' = Placed(wk[w].dst)
            /\ Goto(w, "complete")
            /\ UNCHANGED <<job, key, ids, ledger, lock, late, copies>>
    /\ NoFault /\ UNCHANGED <<kind, restore, foreign>>

Init ==
    /\ kind \in {"move", "plain"}
    /\ key = <<[v |-> Source, by |-> "source", good |-> TRUE]>> /\ ids = 1
    /\ restore \in {"warm", "no", "ready"}
    /\ rows = <<[v |-> Source, av |-> "available", ver |-> TRUE]>>
    /\ job = [st |-> "none", tok |-> NoWorker, live |-> FALSE]
    /\ ledger = NoMove /\ wk = [w \in Workers |-> Idle] /\ lock = NoWorker
    /\ late = 0 /\ copies = 0 /\ foreign = 0 /\ faults = 0

Step(w) ==
    \/ Begin(w) \/ Discover(w) \/ Capture(w) \/ SourceReady(w) \/ Copy(w) \/ Persist(w)
    \/ Verify(w) \/ Publish(w) \/ Check(w) \/ Delete(w) \/ Commit(w) \/ Complete(w) \/ HeadSource(w) \/ Place(w)

Next ==
    \/ \E w \in Workers : Claim(w) \/ Step(w) \/ Crash(w)
    \/ Schedule \/ Cancel \/ Expire \/ Reconcile \/ LateCopy \/ Scan \/ RestoreDone \/ RestoreOver
    \/ \E by \in {"other", "marker"} : Foreign(by)

\* Workers poll and go on, leases of dead workers run out, the sweep is
\* periodic and S3 finishes restores.
Fairness ==
    /\ WF_vars(\E w \in Workers : Claim(w)) /\ \A w \in Workers : WF_vars(Step(w))
    /\ WF_vars(Expire /\ Orphaned) /\ WF_vars(Reconcile) /\ WF_vars(RestoreDone)

Spec == Init /\ [][Next]_vars /\ Fairness

(***************************************************************************)
(* Properties.                                                             *)
(***************************************************************************)

\* Types, and numbers that identify stored versions and rows.
TypeOK ==
    /\ kind \in {"move", "plain"} /\ restore \in {"no", "ongoing", "ready", "warm"}
    /\ \A i \in DOMAIN key : key[i].v \in 1..ids /\ key[i].by \in {"source", "copy", "other", "marker"}
    /\ \A i, j \in DOMAIN rows : i # j => rows[i].v # rows[j].v
    /\ job.st \in {"none", "queued", "running", "restoring"} \cup Terminal
    /\ ledger.dst \in 0..ids /\ lock \in Workers \cup {NoWorker}

\* What the catalog calls verified and available is stored intact, at every
\* moment of a copy, a deletion, a crash or a late answer, unless it is the
\* source between its deletion and the commit that follows.
TrustedIsStored ==
    \A r \in ToSet(rows) : r.ver /\ r.av = "available" =>
        \/ Stored(r.v) /\ At(r.v).good
        \/ r.v = Source /\ \E s \in ToSet(rows) :
             s.v # Source /\ s.ver /\ s.av = "available" /\ Stored(s.v) /\ At(s.v).good


\* A change without a ledger sends at most one copy, whatever is lost: the
\* outcome of an interrupted copy is left to the Owner.
PlainCopiesOnce == kind = "plain" => copies <= 1

\* A completed move has one copy left: the destination, verified and current,
\* and its source is gone.
MoveIsComplete ==
    kind = "move" /\ job.st = "completed" =>
        /\ ledger.deleted /\ ~Stored(Source)
        /\ Stored(ledger.dst) /\ At(ledger.dst).good /\ rows[RowOf(ledger.dst)].ver

\* Every Job comes to an end, with one exception: a restore that ran out before
\* the Job that waits for it looked again is not asked for a second time.
JobEnds == <>[](job.st \in Terminal \cup {"none"} \/ (kind = "plain" /\ restore = "no" /\ job.st \in {"running", "restoring"}))

\* The copies and the trust of the catalog, seen from above.
StoredCopies ==
    (IF Stored(Source) THEN {"old"} ELSE {}) \cup
    (IF \E i \in DOMAIN key : key[i].by = "copy" /\ key[i].good THEN {"new"} ELSE {})
TrustedCopies ==
    {IF r.v = Source THEN "old" ELSE "new" :
        r \in {s \in ToSet(rows) : s.ver /\ s.av = "available"}}

Abstract == INSTANCE DurableCopy WITH stored <- StoredCopies, trusted <- TrustedCopies

\* The Job implements the replacement of one durable copy by another.
ImplementsDurableCopy == Abstract!Spec
=============================================================================
