--------------------------- MODULE UploadProtocol ---------------------------
(***************************************************************************)
(* The upload of one Vault File: process_upload of app/storage.py with the *)
(* journal of sends (services/upload_provenance.py), the transfer          *)
(* (services/s3_upload.py) and the removal of superseded versions          *)
(* (services/snapshot_cleanup.py).                                         *)
(*                                                                         *)
(* A Job is claimed by a thread, may lose its claim at any time and is     *)
(* claimed again.  A thread that has lost its claim goes on until its next *)
(* fenced transaction.  A PUT may land although its answer is lost, also   *)
(* after its sender is gone; others may write to the same key.  Whatever   *)
(* raises UploadBlocked or another error in the code is a guard here, and  *)
(* leaves a thread to Fail.                                                *)
(***************************************************************************)
EXTENDS Integers, Sequences, FiniteSets

CONSTANTS
    Jobs,        \* upload Jobs of the file, and the intents they create
    Threads,     \* workers of all processes
    Contents,    \* what the file may contain
    Edits,       \* what the Owner may turn it into, or NoContent
    NoJob, NoThread, NoContent,
    MaxObjects,  \* bound: object versions ever stored under the key
    MaxForeign,  \* bound: those written by others
    MaxGen,      \* bound: tokens minted for one intent
    MaxLost,     \* bound: claims lost, and answers their sender did not await
    Large,       \* contents above MULTIPART_THRESHOLD
    Overlap,     \* TRUE: a request may outlive the claim it was sent under
    Checksums,   \* TRUE: S3 tells the checksum of what it stored
    Damage       \* TRUE: the provider may store other bytes than it was sent

ASSUME UploadAssumption ==
    /\ NoJob \notin Jobs /\ NoThread \notin Threads /\ NoContent \notin Contents
    /\ MaxObjects \in Nat /\ MaxForeign \in Nat /\ MaxGen \in Nat
    /\ MaxLost \in Nat /\ Large \subseteq Contents
    /\ Edits \subseteq Contents \cup {NoContent}
    /\ Overlap \in BOOLEAN /\ Checksums \in BOOLEAN /\ Damage \in BOOLEAN

VARIABLES
    objects,  \* object versions ever stored, in the order they were stored
    present,  \* the ones S3 still has
    flight,   \* PUT requests that S3 has not finished
    late,     \* versions whose deletion was requested by a thread now gone
    jobs,     \* the Jobs of the file
    intents,  \* upload_intents and their receipts, by original Job
    rows,     \* archive_versions, by provider version
    pinned,   \* snapshot_cleanup_inventories, by Job
    proofs,   \* snapshot_cleanup_proofs: the keeper a version duplicates
    run,      \* the threads
    local,    \* content of the local file
    lost      \* how many claims and answers have been lost

s3 == <<objects, present, flight, late>>
catalog == <<jobs, intents, rows, pinned, proofs>>
vars == <<s3, catalog, run, local, lost>>

Versions == 1..MaxObjects
NoVersion == 0

Object == [body: Contents \cup {NoContent}, intent: Jobs \cup {NoJob},
           gen: 0..MaxGen]

\* by: the thread that waits for the answer.
Request == [by: Threads \cup {NoThread}, intent: Jobs, gen: 0..MaxGen,
            body: Contents]

Job == [st: {"none", "queued", "running", "failed", "cancelled", "completed"},
        owner: Threads \cup {NoThread}, ro: BOOLEAN,
        snap: Contents \cup {NoContent}, intent: Jobs \cup {NoJob},
        link: 0..MaxObjects]

NewJob == [st |-> "none", owner |-> NoThread, ro |-> FALSE, snap |-> NoContent,
           intent |-> NoJob, link |-> NoVersion]

\* Its token is the pair of its original Job and gen.
Intent == [made: BOOLEAN, gen: 0..MaxGen, snap: Contents \cup {NoContent},
           before: SUBSET Versions, sent: BOOLEAN, settled: BOOLEAN,
           version: 0..MaxObjects, receipts: SUBSET Versions]

NewIntent == [made |-> FALSE, gen |-> 0, snap |-> NoContent, before |-> {},
              sent |-> FALSE, settled |-> FALSE, version |-> NoVersion,
              receipts |-> {}]

Row == [state: {"unknown", "unverified", "verified", "mismatch", "purged"},
        num: (-MaxObjects)..(2 * MaxObjects), snap: Contents \cup {NoContent}]

NewRow == [state |-> "unknown", num |-> 0, snap |-> NoContent]

Baseline == [set: BOOLEAN, versions: SUBSET Versions, keeper: 0..MaxObjects,
             done: BOOLEAN]

NewBaseline == [set |-> FALSE, versions |-> {}, keeper |-> NoVersion,
                done |-> FALSE]

Thread == [pc: {"idle", "load", "pinResume", "saveResume", "resume", "rearm",
                "linked", "pin", "save", "check", "choose", "link", "list",
                "prepare", "mark", "send", "sending", "refused", "acked",
                "publish", "verify", "persist", "bind", "inspect", "prove",
                "purge", "delete", "complete", "mismatch"},
           job: Jobs \cup {NoJob}, snap: Contents \cup {NoContent},
           gen: 0..MaxGen, seen: SUBSET Versions, ver: 0..MaxObjects,
           cand: 0..MaxObjects]

Idle == [pc |-> "idle", job |-> NoJob, snap |-> NoContent, gen |-> 0,
         seen |-> {}, ver |-> NoVersion, cand |-> NoVersion]

TypeOK ==
    /\ objects \in Seq(Object) /\ Len(objects) <= MaxObjects
    /\ present \subseteq 1..Len(objects)
    /\ flight \subseteq Request
    /\ late \subseteq Versions
    /\ jobs \in [Jobs -> Job]
    /\ intents \in [Jobs -> Intent]
    /\ rows \in [Versions -> Row]
    /\ pinned \in [Jobs -> Baseline]
    /\ proofs \in [Versions -> 0..MaxObjects]
    /\ run \in [Threads -> Thread]
    /\ local \in Contents \cup {NoContent}
    /\ lost \in 0..MaxLost

Init ==
    /\ objects = <<>> /\ present = {} /\ flight = {} /\ late = {}
    /\ jobs = [j \in Jobs |-> NewJob]
    /\ intents = [j \in Jobs |-> NewIntent]
    /\ rows = [v \in Versions |-> NewRow]
    /\ pinned = [j \in Jobs |-> NewBaseline]
    /\ proofs = [v \in Versions |-> NoVersion]
    /\ run = [t \in Threads |-> Idle]
    /\ local \in Contents
    /\ lost = 0

-----------------------------------------------------------------------------
(* What a transaction finds in the catalog.                                *)

Active(j) == jobs[j].st \in {"queued", "running"}

\* target and ensure_job_claim_owned_in_transaction: the Job is neither ended
\* nor taken over, and no other operation of the file is active.
Fenced(t) ==
    /\ jobs[run[t].job].st = "running"
    /\ jobs[run[t].job].owner = t
    /\ \A k \in Jobs \ {run[t].job} : ~Active(k)

\* Mutant: the send of a cancelled Job is overlooked.
OpenSendsNotCancelled ==
    {i \in Jobs : /\ intents[i].sent /\ ~intents[i].settled
                  /\ jobs[i].st # "cancelled"}

\* outstanding: sends whose outcome is not settled.
OpenSends == {i \in Jobs : intents[i].sent /\ ~intents[i].settled}

\* bind_for_resume: a cancellation is never undone by a later Job.
Bindable(i) ==
    /\ jobs[i].st # "cancelled"
    /\ \A k \in Jobs : jobs[k].intent = i => jobs[k].st # "cancelled"

Available(v) == rows[v].state \in {"unverified", "verified", "mismatch"}

NextNumber ==
    1 + CHOOSE n \in 0..(2 * MaxObjects) :
            /\ \A v \in Versions : rows[v].num <= n
            /\ n = 0 \/ \E v \in Versions : rows[v].num = n

\* What others wrote is never ordered before a verified version.
LowestNumber ==
    CHOOSE n \in (-MaxObjects)..0 :
        /\ \A v \in Versions : rows[v].num >= n
        /\ n = 0 \/ \E v \in Versions : rows[v].num = n

\* The newest verified version: what the catalog calls the Current Snapshot.
Current(v) ==
    /\ rows[v].state = "verified"
    /\ \A w \in Versions : rows[w].state = "verified" => rows[w].num <= rows[v].num

\* _has_lineage raises for a publication that its own receipts contradict.
Contradicted(v) ==
    \E i \in Jobs : /\ intents[i].version = v
                    /\ \/ rows[v].state = "mismatch"
                       \/ intents[i].receipts # {v}
                       \/ Checksums /\ objects[v].body # intents[i].snap

\* _has_lineage: an own write, published from an exact receipt, and verified
\* unless the receipt has the checksum expected.
Lineage(v) ==
    \E i \in Jobs : /\ intents[i].version = v
                    /\ intents[i].snap = rows[v].snap
                    /\ v \notin intents[i].before
                    /\ intents[i].receipts = {v}
                    /\ \/ rows[v].state = "verified"
                       \/ Checksums /\ objects[v].body = intents[i].snap

\* _keeper: what may stay as the only version.
KeeperOK(k) ==
    /\ Current(k)
    /\ \A j \in Jobs : jobs[j].link = k /\ jobs[j].snap # NoContent
                         => jobs[j].snap = rows[k].snap
    /\ \A w \in Versions : Available(w) /\ rows[w].num > rows[k].num
                             => ~Contradicted(w) /\ ~Lineage(w)

InventoryJob(j) == IF jobs[j].intent # NoJob THEN jobs[j].intent ELSE j

\* pin_inventory: the saved inventories that serve a Job, or its link k.
Pinned(j, k) ==
    IF pinned[InventoryJob(j)].set THEN {InventoryJob(j)}
    ELSE {b \in Jobs : /\ k # NoVersion
                       /\ pinned[b].set /\ ~pinned[b].done
                       /\ \/ pinned[b].keeper = k
                          \/ pinned[b].keeper = NoVersion /\ jobs[b].link = k}

Agree(B) == \A a, b \in B : pinned[a].versions = pinned[b].versions

-----------------------------------------------------------------------------
(* Jobs: how they are admitted, claimed, lost and ended.                   *)

\* An ordinary upload is queued; the index on active Jobs admits one.
Admit(j) ==
    /\ jobs[j].st = "none"
    /\ \A k \in Jobs : ~Active(k)
    /\ jobs' = [jobs EXCEPT ![j].st = "queued"]
    /\ UNCHANGED <<s3, intents, rows, pinned, proofs, run, local, lost>>

\* schedule_resume and admit of a remediation: a Job that may only reconcile
\* the open send, or finish the cleanup of the current version.
AdmitReconcile(j) ==
    /\ jobs[j].st = "none"
    /\ \A k \in Jobs : ~Active(k)
    /\ \/ \E i \in OpenSends :
            /\ OpenSends = {i} /\ Bindable(i)
            /\ jobs' = [jobs EXCEPT ![j] =
                 [NewJob EXCEPT !.st = "queued", !.ro = TRUE, !.intent = i,
                                !.snap = intents[i].snap,
                                !.link = intents[i].version]]
       \/ \E v \in Versions :
            /\ OpenSends = {} /\ Current(v)
            /\ jobs' = [jobs EXCEPT ![j] =
                 [NewJob EXCEPT !.st = "queued", !.ro = TRUE, !.link = v,
                                !.snap = rows[v].snap]]
    /\ UNCHANGED <<s3, intents, rows, pinned, proofs, run, local, lost>>

Claim(t, j) ==
    /\ run[t].pc = "idle" /\ jobs[j].st = "queued"
    /\ jobs' = [jobs EXCEPT ![j].st = "running", ![j].owner = t]
    /\ run' = [run EXCEPT ![t] = [Idle EXCEPT !.pc = "load", !.job = j]]
    /\ UNCHANGED <<s3, intents, rows, pinned, proofs, local, lost>>

\* The lease expires and the Job is queued again, whatever its thread does.
LoseClaim(j) ==
    /\ jobs[j].st = "running"
    /\ Overlap \/ run[jobs[j].owner].pc \notin {"send", "sending"}
    /\ lost < MaxLost
    /\ lost' = lost + 1
    /\ jobs' = [jobs EXCEPT ![j].st = "queued", ![j].owner = NoThread]
    /\ UNCHANGED <<s3, intents, rows, pinned, proofs, run, local>>

\* Mutant: the status is spelled in another way than everywhere else.
CancelMisspelt(j) ==
    /\ Active(j)
    /\ jobs' = [jobs EXCEPT ![j].st = "canceled", ![j].owner = NoThread]
    /\ UNCHANGED <<s3, intents, rows, pinned, proofs, run, local, lost>>

\* The Owner cancels the Job, in whatever state its thread is.
Cancel(j) ==
    /\ Active(j)
    /\ jobs' = [jobs EXCEPT ![j].st = "cancelled", ![j].owner = NoThread]
    /\ UNCHANGED <<s3, intents, rows, pinned, proofs, run, local, lost>>

Released(t) == {[r EXCEPT !.by = IF @ = t THEN NoThread ELSE @] : r \in flight}

\* A thread ends with an error, a crash included: its Job is queued again, or
\* failed, when the claim is still its own.
Fail(t) ==
    /\ run[t].pc # "idle"
    /\ IF \A r \in flight : r.by # t THEN UNCHANGED lost
       ELSE Overlap /\ lost < MaxLost /\ lost' = lost + 1
    /\ \E st \in {"queued", "failed"} :
         jobs' = IF jobs[run[t].job].owner = t
                 THEN [jobs EXCEPT ![run[t].job].st = st,
                                   ![run[t].job].owner = NoThread]
                 ELSE jobs
    /\ run' = [run EXCEPT ![t] = Idle]
    /\ flight' = Released(t)
    /\ UNCHANGED <<objects, present, late, intents, rows, pinned, proofs, local>>

-----------------------------------------------------------------------------
(* process_upload up to the send.                                          *)

Go(t, pc) == run' = [run EXCEPT ![t].pc = pc]

\* load_intent: the intent of the Job, or the one open send of the file.
LoadIntent(t) ==
    LET j == run[t].job
        bound == jobs[j].intent
    IN  /\ run[t].pc = "load"
        /\ Fenced(t)
        /\ \E i \in Jobs \cup {NoJob} :
             /\ \/ bound # NoJob /\ i = bound
                \/ bound = NoJob /\ OpenSends = {} /\ i = NoJob
                \/ bound = NoJob /\ OpenSends = {i} /\ Bindable(i)
             /\ jobs' = [jobs EXCEPT ![j].intent = i]
             /\ Go(t, IF i # NoJob /\ intents[i].sent THEN "pinResume"
                      ELSE "linked")
        /\ UNCHANGED <<s3, intents, rows, pinned, proofs, local, lost>>

\* pin_inventory: an earlier inventory is used, or two equal listings are
\* taken, to be saved by the next transaction.
PinInventory(t) ==
    LET j == run[t].job
        resume == run[t].pc = "pinResume"
        served == Pinned(j, jobs[j].link)
    IN  /\ run[t].pc \in {"pinResume", "pin"}
        /\ OpenSends \subseteq {jobs[j].intent}
        /\ IF served # {}
           THEN /\ Agree(served)
                /\ Go(t, IF resume THEN "resume"
                         ELSE IF jobs[j].link # NoVersion THEN "check"
                         ELSE "choose")
           ELSE run' = [run EXCEPT ![t].pc = IF resume THEN "saveResume"
                                             ELSE "save",
                                   ![t].seen = present]
        /\ UNCHANGED <<s3, catalog, local, lost>>

SaveInventory(t) ==
    LET j == run[t].job
        b == InventoryJob(j)
    IN  /\ run[t].pc \in {"saveResume", "save"}
        /\ Fenced(t)
        /\ pinned' = IF pinned[b].set THEN pinned
                     ELSE [pinned EXCEPT ![b] =
                             [NewBaseline EXCEPT !.set = TRUE,
                                                 !.versions = run[t].seen]]
        /\ run' = [run EXCEPT ![t].seen = {},
                     ![t].pc = IF @ = "saveResume" THEN "resume"
                               ELSE IF jobs[j].link # NoVersion THEN "check"
                               ELSE "choose"]
        /\ UNCHANGED <<s3, jobs, intents, rows, proofs, local, lost>>

\* The token of an intent, as S3 keeps it with an object.
Carries(v, i) == objects[v].intent = i /\ objects[v].gen = intents[i].gen

Matches(i) == {v \in present : Carries(v, i)}

\* Mutant: a send without a receipt counts as one that never landed.
AbsentWithoutReceipt(i) == intents[i].receipts = {}

\* _prove_absent: complete listings show neither the token, nor a change since
\* the send, nor a multipart upload that is still open.
ProvenAbsent(i) ==
    /\ Matches(i) = {} /\ intents[i].receipts = {}
    /\ present = intents[i].before
    /\ \A r \in flight : r.body \notin Large

\* _resume_materialized_upload with reconcile: equal listings are one read, and
\* a checksum must not show other content.
Resume(t) ==
    LET j == run[t].job
        i == jobs[j].intent
        it == intents[i]
    IN  /\ run[t].pc = "resume"
        /\ Fenced(t)
        /\ \A v \in Matches(i) \cup it.receipts :
             Checksums => objects[v].body = it.snap
        /\ \/ /\ it.version # NoVersion
              /\ it.receipts = {it.version}
              /\ jobs[j].link \in {NoVersion, it.version}
              /\ jobs' = [jobs EXCEPT ![j].link = it.version]
              /\ Go(t, "linked")
           \/ /\ it.version = NoVersion
              /\ ProvenAbsent(i)
              /\ Go(t, "rearm")
              /\ UNCHANGED jobs
           \/ /\ it.version = NoVersion
              /\ \E v \in Versions :
                   /\ Matches(i) = {v} /\ v \notin it.before
                   /\ present = it.before \cup {v}
                   /\ it.receipts \subseteq {v}
                   /\ run' = [run EXCEPT ![t].pc = "acked", ![t].ver = v]
              /\ UNCHANGED jobs
        /\ UNCHANGED <<s3, intents, rows, pinned, proofs, local, lost>>

\* record_no_write: no receipt may contradict it, not even a later one.
NoWrite(i) ==
    /\ intents[i].receipts = {}
    /\ intents[i].sent /\ ~intents[i].settled /\ intents[i].version = NoVersion
    /\ intents' = [intents EXCEPT ![i].sent = FALSE]

\* _rearm_after_proven_absence: the Job is an ordinary upload from here on.
Rearm(t) ==
    /\ run[t].pc = "rearm"
    /\ Fenced(t)
    /\ NoWrite(jobs[run[t].job].intent)
    /\ jobs' = [jobs EXCEPT ![run[t].job].ro = FALSE]
    /\ Go(t, "linked")
    /\ UNCHANGED <<s3, rows, pinned, proofs, local, lost>>

\* A linked version is only verified; otherwise the file is hashed, and must be
\* what an earlier attempt of the Job has hashed.
Linked(t) ==
    LET j == run[t].job
    IN  /\ run[t].pc = "linked"
        /\ Fenced(t)
        /\ \/ jobs[j].link # NoVersion /\ Go(t, "pin")
           \/ /\ jobs[j].link = NoVersion /\ ~jobs[j].ro
              /\ local # NoContent /\ jobs[j].snap \in {NoContent, local}
              /\ run' = [run EXCEPT ![t].pc = "pin", ![t].snap = local]
        /\ UNCHANGED <<s3, catalog, local, lost>>

\* find_reusable_upload_version.
ReusableVerified(c) ==
    {v \in Versions : Current(v) /\ rows[v].snap = c /\ Lineage(v) /\ ~Contradicted(v)}

ReusableUnverified(c) ==
    {v \in Versions :
        /\ rows[v].state = "unverified"
        /\ \E k \in Jobs : jobs[k].link = v /\ jobs[k].snap = c}

Newest(S) == {v \in S : \A w \in S : rows[w].num <= rows[v].num}

\* set_upload_snapshot and the choice between reuse and a new object.
Choose(t) ==
    LET j == run[t].job
        c == run[t].snap
        old == ReusableVerified(c)
        half == Newest(ReusableUnverified(c))
    IN  /\ run[t].pc = "choose"
        /\ Fenced(t)
        /\ jobs' = [jobs EXCEPT ![j].snap = c]
        /\ \/ \E v \in IF old # {} THEN old ELSE half :
                run' = [run EXCEPT ![t].pc = "link", ![t].ver = v]
           \/ old = {} /\ half = {} /\ Go(t, "list")
        /\ UNCHANGED <<s3, intents, rows, pinned, proofs, local, lost>>

\* link_job_version: from here on the Job only verifies.
LinkReusable(t) ==
    /\ run[t].pc = "link"
    /\ Fenced(t)
    /\ jobs' = [jobs EXCEPT ![run[t].job].link = run[t].ver]
    /\ Go(t, "check")
    /\ UNCHANGED <<s3, intents, rows, pinned, proofs, local, lost>>

ListBefore(t) ==
    /\ run[t].pc = "list"
    /\ run' = [run EXCEPT ![t].pc = "prepare", ![t].seen = present]
    /\ UNCHANGED <<s3, catalog, local, lost>>

\* _settle_unstarted: the others that never sent owe nothing to S3.
Settled(keep) ==
    [i \in Jobs |->
        IF /\ i # keep /\ intents[i].made
           /\ ~intents[i].settled /\ ~intents[i].sent
           /\ intents[i].version = NoVersion
        THEN [intents[i] EXCEPT !.settled = TRUE] ELSE intents[i]]

SettleOK(keep) ==
    \A i \in Jobs \ {keep} :
        ~intents[i].sent /\ ~intents[i].settled /\ intents[i].version = NoVersion
            => intents[i].receipts = {}

\* prepare: the Job's unsent intent is used as it is, or pinned anew with
\* another token; without one, no send of the file may be open.
Prepare(t) ==
    LET j == run[t].job
        i == jobs[j].intent
        it == intents[i]
        same == it.snap = run[t].snap /\ it.before = run[t].seen
    IN  /\ run[t].pc = "prepare"
        /\ Fenced(t)
        /\ \/ i # NoJob /\ same /\ UNCHANGED <<intents, jobs>>
           \/ /\ i # NoJob /\ ~same
              /\ ~it.sent /\ ~it.settled /\ it.version = NoVersion
              /\ it.receipts = {} /\ SettleOK(i)
              /\ it.gen < MaxGen
              /\ intents' = [Settled(i) EXCEPT
                               ![i] = [it EXCEPT !.gen = @ + 1,
                                                 !.snap = run[t].snap,
                                                 !.before = run[t].seen]]
              /\ UNCHANGED jobs
           \/ /\ i = NoJob
              /\ SettleOK(NoJob) /\ OpenSends = {}
              /\ intents' = [Settled(NoJob) EXCEPT
                               ![j] = [NewIntent EXCEPT
                                         !.made = TRUE, !.gen = 1,
                                         !.snap = run[t].snap,
                                         !.before = run[t].seen]]
              /\ jobs' = [jobs EXCEPT ![j].intent = j]
        /\ run' = [run EXCEPT ![t].pc = "mark", ![t].seen = {},
                              ![t].gen = intents'[jobs'[j].intent].gen]
        /\ UNCHANGED <<s3, rows, pinned, proofs, local, lost>>

\* mark_send_started commits before the request leaves.
MarkSendStarted(t) ==
    LET i == jobs[run[t].job].intent
    IN  /\ run[t].pc = "mark"
        /\ Fenced(t)
        /\ intents[i].receipts = {} /\ ~intents[i].sent
        /\ intents' = [intents EXCEPT ![i].sent = TRUE]
        /\ Go(t, "send")
        /\ UNCHANGED <<s3, jobs, rows, pinned, proofs, local, lost>>

-----------------------------------------------------------------------------
(* The transfer, and what S3 makes of it.                                  *)

\* upload_file sends what the snapshot describes or nothing.  It looks at the
\* claim from time to time, but the claim may be lost after that.
Send(t) ==
    LET i == jobs[run[t].job].intent
    IN  /\ run[t].pc = "send"
        /\ local = run[t].snap
        /\ flight' = flight \cup {[by |-> t, intent |-> i, gen |-> run[t].gen,
                                   body |-> run[t].snap]}
        /\ Go(t, "sending")
        /\ UNCHANGED <<objects, present, late, catalog, local, lost>>

\* The request takes effect; a sender that is still there gets the answer.
Land(r) ==
    LET v == Len(objects) + 1
    IN  /\ v \in Versions
        /\ \E body \in {r.body} \cup IF Damage THEN {NoContent} ELSE {} :
             objects' = Append(objects, [body |-> body, intent |-> r.intent,
                                         gen |-> r.gen])
        /\ present' = present \cup {v}
        /\ flight' = flight \ {r}
        /\ run' = IF r.by = NoThread THEN run
                  ELSE [run EXCEPT ![r.by].pc = "acked", ![r.by].ver = v]
        /\ UNCHANGED <<late, catalog, local, lost>>

\* It never takes effect, and nobody is told.
Drop(r) ==
    /\ flight' = flight \ {r}
    /\ UNCHANGED <<objects, present, late, catalog, run, local, lost>>

\* S3 refuses it for its credentials.
Refuse(r) ==
    /\ r.by # NoThread
    /\ flight' = flight \ {r}
    /\ Go(r.by, "refused")
    /\ UNCHANGED <<objects, present, late, catalog, local, lost>>

\* The refusal is journaled, and the Job waits for the gate to open.
RecordRefusal(t) ==
    /\ run[t].pc = "refused"
    /\ Fenced(t)
    /\ NoWrite(jobs[run[t].job].intent)
    /\ jobs' = [jobs EXCEPT ![run[t].job].st = "queued",
                            ![run[t].job].owner = NoThread]
    /\ run' = [run EXCEPT ![t] = Idle]
    /\ UNCHANGED <<s3, rows, pinned, proofs, local, lost>>

\* append_receipt is a fact of the provider: it asks for no claim.
AppendReceipt(t) ==
    /\ run[t].pc = "acked"
    /\ intents' = [intents EXCEPT ![jobs[run[t].job].intent].receipts =
                                      @ \cup {run[t].ver}]
    /\ Go(t, "publish")
    /\ UNCHANGED <<s3, jobs, rows, pinned, proofs, local, lost>>

\* Somebody else writes to the key, without a token.
ForeignPut(c) ==
    /\ Len(objects) < MaxObjects
    /\ Cardinality({v \in DOMAIN objects : objects[v].intent = NoJob}) < MaxForeign
    /\ objects' = Append(objects, [body |-> c, intent |-> NoJob, gen |-> 0])
    /\ present' = present \cup {Len(objects) + 1}
    /\ UNCHANGED <<flight, late, catalog, run, local, lost>>

\* The Owner edits or removes the file.
Edit(c) ==
    /\ local' = c
    /\ UNCHANGED <<s3, catalog, run, lost>>

\* A cloud scan records a version that the catalog does not know, behind all
\* others if one of them is verified.
Discover(v) ==
    /\ v \in present /\ rows[v].state = "unknown"
    /\ rows' = [rows EXCEPT ![v] =
                  [state |-> "unverified", snap |-> NoContent,
                   num |-> IF \E w \in Versions : rows[w].state = "verified"
                           THEN LowestNumber - 1 ELSE NextNumber]]
    /\ UNCHANGED <<s3, jobs, intents, pinned, proofs, run, local, lost>>

-----------------------------------------------------------------------------
(* Publication and verification.                                           *)

\* _publish_upload_receipt: a row for the version, in front of all others also
\* when a scan has discovered it before, and the links to it.
Publish(t) ==
    LET j == run[t].job
        i == jobs[j].intent
        v == run[t].ver
    IN  /\ run[t].pc = "publish"
        /\ Fenced(t)
        /\ v \notin intents[i].before
        /\ rows[v].snap \in {NoContent, intents[i].snap}
        /\ jobs[j].snap \in {NoContent, intents[i].snap}
        /\ rows' = [rows EXCEPT ![v] = [state |-> "unverified",
                                        num |-> NextNumber,
                                        snap |-> intents[i].snap]]
        /\ jobs' = [jobs EXCEPT ![j].snap = intents[i].snap, ![j].link = v]
        /\ intents' = [intents EXCEPT ![i].version = IF @ = NoVersion THEN v ELSE @]
        /\ Go(t, IF run[t].snap = NoContent THEN "linked" ELSE "verify")
        /\ UNCHANGED <<s3, pinned, proofs, local, lost>>

\* version_head: a token on the object must be that of its publication.
HeadOK(v) ==
    /\ v \in present
    /\ objects[v].intent # NoJob =>
         intents[objects[v].intent].version = v /\ Carries(v, objects[v].intent)

\* The retry of a linked version: never sent again.
Check(t) ==
    LET v == jobs[run[t].job].link
    IN  /\ run[t].pc = "check"
        /\ rows[v].state \in {"unverified", "verified"}
        /\ HeadOK(v)
        /\ run' = [run EXCEPT ![t].ver = v,
                     ![t].pc = IF rows[v].state = "verified" THEN "bind"
                               ELSE "verify"]
        /\ UNCHANGED <<s3, catalog, local, lost>>

\* Mutant: the answer is not compared with the snapshot.
VerifyTrusting(t) ==
    /\ run[t].pc = "verify"
    /\ Fenced(t)
    /\ HeadOK(run[t].ver)
    /\ Go(t, "persist")
    /\ UNCHANGED <<s3, catalog, local, lost>>

\* Checksum or read-back of the exact version.
Verify(t) ==
    LET v == run[t].ver
    IN  /\ run[t].pc = "verify"
        /\ Fenced(t)
        /\ HeadOK(v)
        /\ IF objects[v].body = rows[v].snap
           THEN Go(t, "persist") /\ UNCHANGED rows
           ELSE /\ rows' = [rows EXCEPT ![v].state = "mismatch"]
                /\ Go(t, "mismatch")
        /\ UNCHANGED <<s3, jobs, intents, pinned, proofs, local, lost>>

\* persist_verification of _complete_verified_upload.
PersistVerification(t) ==
    /\ run[t].pc = "persist"
    /\ Fenced(t)
    /\ rows' = [rows EXCEPT ![run[t].ver].state = "verified"]
    /\ Go(t, "bind")
    /\ UNCHANGED <<s3, jobs, intents, pinned, proofs, local, lost>>

-----------------------------------------------------------------------------
(* cleanup: nothing but the keeper remains.                                *)

\* bind_keeper: the inventory saved before the send belongs to this keeper.
BindKeeper(t) ==
    LET v == run[t].ver
    IN  /\ run[t].pc = "bind"
        /\ Fenced(t) /\ KeeperOK(v)
        /\ Agree(Pinned(run[t].job, v))
        /\ \E b \in Pinned(run[t].job, v) :
             /\ pinned[b].keeper \in {NoVersion, v}
             /\ pinned' = [pinned EXCEPT ![b].keeper = v]
        /\ Go(t, "inspect")
        /\ UNCHANGED <<s3, jobs, intents, rows, proofs, local, lost>>

\* Versions may have gone since the inventory only by an authorised deletion;
\* none may have come but the keeper.
Inspect(t) ==
    LET v == run[t].ver
    IN  /\ run[t].pc = "inspect"
        /\ v \in present
        /\ \E b \in Pinned(run[t].job, v) :
             /\ present \subseteq pinned[b].versions \cup {v}
             /\ \A c \in pinned[b].versions \ present : proofs[c] = v
        /\ run' = [run EXCEPT ![t].pc = "prove", ![t].seen = present]
        /\ UNCHANGED <<s3, catalog, local, lost>>

\* Mutant: the keeper is not exempt.
CandidatesAll(t) == run[t].seen

Candidates(t) == run[t].seen \ {run[t].ver}

\* Mutant: the bytes are not compared.
DuplicateByToken(c, k) == objects[c].intent = NoJob

\* exact_duplicate: the bytes of the keeper, and no token.
Duplicate(c, k) ==
    /\ objects[c].intent = NoJob
    /\ objects[c].body = rows[k].snap

\* persist_proof, one candidate at a time.
Prove(t) ==
    LET k == run[t].ver
        open == {c \in Candidates(t) : proofs[c] # k}
    IN  /\ run[t].pc = "prove"
        /\ \/ /\ open = {} /\ Go(t, "purge") /\ UNCHANGED proofs
           \/ \E c \in open :
                /\ Fenced(t) /\ KeeperOK(k)
                /\ ~Contradicted(c)
                /\ Lineage(c) \/ (c \in present /\ Duplicate(c, k))
                /\ proofs' = [proofs EXCEPT ![c] = k]
                /\ UNCHANGED run
        /\ UNCHANGED <<s3, jobs, intents, rows, pinned, local, lost>>

\* The inventory is looked at again before every deletion.
Observe(t) ==
    /\ run[t].pc = "purge"
    /\ present = run[t].seen
    /\ \E c \in Candidates(t) :
         run' = [run EXCEPT ![t].pc = "delete", ![t].cand = c]
    /\ UNCHANGED <<s3, catalog, local, lost>>

MayDelete(t) ==
    /\ run[t].pc = "delete"
    /\ Fenced(t) /\ KeeperOK(run[t].ver)
    /\ proofs[run[t].cand] = run[t].ver

\* The exact version is deleted while the transaction holds the claim.
Delete(t) ==
    /\ MayDelete(t)
    /\ present' = present \ {run[t].cand}
    /\ run' = [run EXCEPT ![t].pc = "purge", ![t].cand = NoVersion,
                          ![t].seen = @ \ {run[t].cand}]
    /\ UNCHANGED <<objects, flight, late, catalog, local, lost>>

\* The thread dies with the deletion on its way; the claim will be lost.
DieDeleting(t) ==
    /\ Overlap /\ lost < MaxLost
    /\ MayDelete(t)
    /\ lost' = lost + 1
    /\ late' = late \cup {run[t].cand}
    /\ run' = [run EXCEPT ![t] = Idle]
    /\ UNCHANGED <<objects, present, flight, catalog, local>>

\* It takes effect.
LateDelete(c) ==
    /\ c \in late
    /\ present' = present \ {c}
    /\ late' = late \ {c}
    /\ UNCHANGED <<objects, flight, catalog, run, local, lost>>

\* persist_purge: only the keeper is left, and the catalog learns of it.
PersistPurge(t) ==
    LET k == run[t].ver
        gone == {c \in Versions \ present : proofs[c] = k /\ Available(c)}
    IN  /\ run[t].pc = "purge"
        /\ Candidates(t) = {} /\ present = {k}
        /\ Fenced(t) /\ KeeperOK(k)
        /\ rows' = [v \in Versions |-> IF v \in gone
                                       THEN [rows[v] EXCEPT !.state = "purged"]
                                       ELSE rows[v]]
        /\ \E b \in Pinned(run[t].job, k) :
             pinned' = [pinned EXCEPT ![b].done = TRUE]
        /\ intents' = [i \in Jobs |-> IF intents[i].version = k
                                      THEN [intents[i] EXCEPT !.settled = TRUE]
                                      ELSE intents[i]]
        /\ Go(t, "complete")
        /\ UNCHANGED <<s3, jobs, proofs, local, lost>>

Complete(t) ==
    /\ run[t].pc = "complete"
    /\ Fenced(t)
    /\ jobs' = [jobs EXCEPT ![run[t].job].st = "completed",
                            ![run[t].job].owner = NoThread]
    /\ run' = [run EXCEPT ![t] = Idle]
    /\ UNCHANGED <<s3, intents, rows, pinned, proofs, local, lost>>

-----------------------------------------------------------------------------
Step(t) ==
    \/ LoadIntent(t) \/ PinInventory(t) \/ SaveInventory(t) \/ Resume(t)
    \/ Rearm(t) \/ Linked(t) \/ Choose(t) \/ LinkReusable(t)
    \/ ListBefore(t) \/ Prepare(t)
    \/ MarkSendStarted(t) \/ Send(t) \/ RecordRefusal(t) \/ AppendReceipt(t)
    \/ Publish(t) \/ Check(t) \/ Verify(t) \/ PersistVerification(t)
    \/ BindKeeper(t) \/ Inspect(t) \/ Prove(t) \/ Observe(t) \/ Delete(t)
    \/ DieDeleting(t) \/ PersistPurge(t) \/ Complete(t) \/ Fail(t)

Next ==
    \/ \E t \in Threads : Step(t) \/ \E j \in Jobs : Claim(t, j)
    \/ \E j \in Jobs : \/ Admit(j) \/ AdmitReconcile(j) \/ LoseClaim(j)
                       \/ Cancel(j)
    \/ \E r \in flight : Land(r) \/ Drop(r) \/ Refuse(r)
    \/ \E c \in Contents : ForeignPut(c)
    \/ \E c \in Edits : Edit(c)
    \/ \E v \in Versions : Discover(v) \/ LateDelete(v)

Spec == Init /\ [][Next]_vars

-----------------------------------------------------------------------------
(* Properties.                                                             *)

\* The Current Snapshot, the newest version the catalog calls verified, is on
\* S3 with the content that was verified: no cleanup of an earlier or a later
\* Job, no deletion that arrives late, and no repeated or late PUT takes away
\* the copy that Free Space and Recover rely on.
CurrentIsStored ==
    \A v \in Versions : Current(v) =>
        v \in present /\ objects[v].body = rows[v].snap

\* A version is deleted only while another one is current, and only if it has
\* the same bytes or is an older own write; a version that others wrote with
\* other content, or a newer own write, is never deleted.
DeletesAreSuperseded ==
    [][\A c \in present \ present' :
         \E k \in Versions \ {c} :
            /\ Current(k) /\ k \in present
            /\ \/ objects[c].body = objects[k].body
               \/ objects[c].intent # NoJob /\ rows[c].num < rows[k].num]_vars

\* The journal never has two sends of the file with unknown outcome, which no
\* later Job could tell apart (outstanding raises ambiguous_send).
OneOpenSend ==
    \A i, k \in Jobs :
        /\ intents[i].sent /\ ~intents[i].settled
        /\ intents[k].sent /\ ~intents[k].settled
        => i = k

\* If requests do not outlive their claim, one intent stores one object at
\* most, whatever answers are lost and however often it is taken up again: a
\* PUT is repeated only when the first one cannot have landed.
OneObjectPerIntent ==
    \A v, w \in DOMAIN objects :
        objects[v].intent = objects[w].intent /\ v # w
            => objects[v].intent = NoJob

\* If requests do not outlive their claim, no own object is forgotten: it is
\* published, or its send is still open in the journal with its token.
NoOrphan ==
    \A v \in present : objects[v].intent # NoJob =>
        \/ intents[objects[v].intent].version = v
        \/ objects[v].intent \in OpenSends /\ Carries(v, objects[v].intent)
=============================================================================
