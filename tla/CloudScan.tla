------------------------------ MODULE CloudScan ------------------------------
(***************************************************************************)
(* What the catalog believes about the versions in the bucket: the cloud   *)
(* scan (storage.scan_cloud), the weekly audit (services/catalog_audit.py) *)
(* and the incidents for lost versions (services/catalog_incidents.py),    *)
(* while an upload or an authorized deletion changes the same versions.    *)
(*                                                                         *)
(* One file whose versions are numbered in the order S3 stores them.  A    *)
(* listing is a snapshot of the bucket; it is merged in later, separate    *)
(* transactions.                                                           *)
(***************************************************************************)
EXTENDS Integers, FiniteSets

CONSTANTS
    VersionIds, \* 1..n: version 1 is stored, recorded and verified at first
    MaxLosses   \* bound: versions that vanish from the bucket

VARIABLES
    bucket,     \* versions in S3
    row,        \* archive_versions: availability, integrity, version_number
    incidents,  \* versions with an open archive_version_missing incident
    op,         \* the Job at work: an upload or a deletion, and its next step
    scan,       \* the full scan: step, listing, rows found since, versions to merge
    audit,      \* the audit: step, listing, rows found since, rows to judge
    lost,       \* history: versions that vanished
    erased      \* history: versions deleted by a Job

vars == <<bucket, row, incidents, op, scan, audit, lost, erased>>

NoRow == [av |-> "none", ver |-> FALSE, num |-> 0]
Quiet == [pc |-> "idle", listed |-> {}, fresh |-> {}, todo |-> {}, told |-> {}, stale |-> FALSE]
NoOp == [kind |-> "none", pc |-> "none", vs |-> {}]

Known == {v \in VersionIds : row[v].av # "none"}
Live == {v \in Known : row[v].av \notin {"missing", "purged"}}
Newest(S) == CHOOSE v \in S : \A u \in S : row[u].num <= row[v].num
Numbers == {row[v].num : v \in Known}

\* Statuses, version numbers and the steps of the three readers and writers
\* stay within what the catalog can hold.
TypeOK ==
    /\ bucket \subseteq VersionIds /\ incidents \subseteq VersionIds
    /\ row \in [VersionIds -> [av: {"none", "available", "missing", "purged"}, ver: BOOLEAN,
                             num: -Cardinality(VersionIds)..Cardinality(VersionIds)]]
    /\ op.kind \in {"none", "upload", "purge"} /\ op.vs \subseteq VersionIds
    /\ \A u, v \in Known : u # v => row[u].num # row[v].num
    /\ incidents \subseteq Known

(***************************************************************************)
(* Recording a version (catalog.record_archive_version).                   *)
(***************************************************************************)

\* Mutant: discovered versions get the first number.
NumberFirst(origin) ==
    IF origin = "discovered" THEN 1 ELSE 1 + (IF Known = {} THEN 0 ELSE row[Newest(Known)].num)

\* A discovered version is never numbered above a verified keeper.
Number(origin) ==
    IF origin = "discovered" /\ \E v \in Known : row[v].ver /\ row[v].av = "available"
    THEN LET low == CHOOSE n \in Numbers : \A m \in Numbers : n <= m
         IN  (IF low < 0 THEN low ELSE 0) - 1
    ELSE 1 + (IF Known = {} THEN 0 ELSE row[Newest(Known)].num)

\* record_archive_version: a row that exists becomes available again.
Recorded(v, origin) ==
    IF v \in Known THEN [row[v] EXCEPT !.av = "available"]
    ELSE [av |-> "available", ver |-> FALSE, num |-> Number(origin)]

\* discovered_at, compared with the time the reader p began.
Discovered(v, p) ==
    [p EXCEPT !.fresh = IF v \in Known \/ p.pc = "idle" THEN @ ELSE @ \cup {v}]

\* remember_missing_archives: one open incident for each missing version.
Opened(gone) == incidents \cup gone

\* resolve_archive_version_incidents, for versions that are available again.
Resolved(open, back) == open \ back

(***************************************************************************)
(* The Jobs and the world.                                                 *)
(***************************************************************************)

UploadAdmit(v) ==
    /\ op = NoOp /\ v \notin Known \cup bucket \cup lost
    /\ op' = [kind |-> "upload", pc |-> "put", vs |-> {v}]
    /\ UNCHANGED <<bucket, row, incidents, scan, audit, lost, erased>>

UploadPut ==
    /\ op.pc = "put"
    /\ bucket' = bucket \cup op.vs
    /\ op' = [op EXCEPT !.pc = "record"]
    /\ UNCHANGED <<row, incidents, scan, audit, lost, erased>>

UploadRecord ==
    /\ op.pc = "record"
    /\ \E v \in op.vs :
         /\ row' = [row EXCEPT ![v] = Recorded(v, "upload")]
         /\ incidents' = Resolved(incidents, {v})
         /\ scan' = Discovered(v, scan) /\ audit' = Discovered(v, audit)
    /\ op' = [op EXCEPT !.pc = "verify"]
    /\ UNCHANGED <<bucket, lost, erased>>

\* mark_version_verified; a version that cannot be read back fails the Job.
UploadVerify ==
    /\ op.pc = "verify"
    /\ row' = [v \in VersionIds |-> IF v \in op.vs \cap bucket THEN [row[v] EXCEPT !.ver = TRUE]
                                  ELSE row[v]]
    /\ op' = NoOp
    /\ UNCHANGED <<bucket, incidents, scan, audit, lost, erased>>

\* A confirmed deletion of every version of the file.
PurgeAdmit ==
    /\ op = NoOp /\ Live # {} /\ row[Newest(Live)].ver
    /\ op' = [kind |-> "purge", pc |-> "delete", vs |-> {v \in Known : row[v].av # "purged"}]
    /\ UNCHANGED <<bucket, row, incidents, scan, audit, lost, erased>>

PurgeDelete ==
    /\ op.pc = "delete"
    /\ bucket' = bucket \ op.vs /\ erased' = erased \cup op.vs
    /\ op' = [op EXCEPT !.pc = "mark"]
    /\ UNCHANGED <<row, incidents, scan, audit, lost>>

\* mark_versions_purged.
PurgeMark ==
    /\ op.pc = "mark"
    /\ row' = [v \in VersionIds |-> IF v \in op.vs THEN [row[v] EXCEPT !.av = "purged"] ELSE row[v]]
    /\ op' = NoOp
    /\ UNCHANGED <<bucket, incidents, scan, audit, lost, erased>>

Lose(v) ==
    /\ v \in bucket /\ Cardinality(lost) < MaxLosses
    /\ bucket' = bucket \ {v} /\ lost' = lost \cup {v}
    /\ UNCHANGED <<row, incidents, op, scan, audit, erased>>

ForeignPut(v) ==
    /\ v \notin bucket \cup Known \cup lost /\ v \notin op.vs
    /\ bucket' = bucket \cup {v}
    /\ UNCHANGED <<row, incidents, op, scan, audit, lost, erased>>

(***************************************************************************)
(* The scan.                                                               *)
(***************************************************************************)

\* scan_id, the time the full scan began; the local part comes first.
ScanBegin ==
    /\ scan.pc = "idle"
    /\ scan' = [Quiet EXCEPT !.pc = "list"]
    /\ UNCHANGED <<bucket, row, incidents, op, audit, lost, erased>>

\* The listing; a failed one raises and nothing is merged.
ScanList ==
    /\ scan.pc = "list"
    /\ \/ scan' = [scan EXCEPT !.pc = "keep", !.listed = bucket]
       \/ scan' = Quiet
    /\ UNCHANGED <<bucket, row, incidents, op, audit, lost, erased>>

\* The keeper of the catalog is not listed although other versions are.
StaleKeeper == scan.listed # {} /\ Live # {} /\ Newest(Live) \notin scan.listed

\* Keepers are judged before any version of the listing is merged.
ScanKeep ==
    /\ scan.pc = "keep"
    /\ scan' = [scan EXCEPT !.pc = "merge", !.todo = scan.listed, !.stale = StaleKeeper]
    /\ UNCHANGED <<bucket, row, incidents, op, audit, lost, erased>>


\* Mutant: an empty listing is no evidence.
UnseenIfListed(p) ==
    IF op.kind = "upload" \/ p.listed = {} THEN {} ELSE {v \in Known : v \notin p.listed \cup p.fresh}

\* Rows a reader may judge: not listed, not found since it began, and no
\* upload of the file at work.
Unseen(p) == IF op.kind = "upload" THEN {} ELSE {v \in Known : v \notin p.listed \cup p.fresh}

\* mark_unlisted_snapshot_versions_superseded.
Superseded(r) ==
    [v \in VersionIds |-> IF scan.stale /\ v \in Unseen(scan) /\ r[v].av = "available"
                        THEN [r[v] EXCEPT !.av = "purged"] ELSE r[v]]

\* One batch of the merge, oldest version first.
ScanMerge ==
    /\ scan.pc = "merge" /\ scan.todo # {}
    /\ LET v == CHOOSE u \in scan.todo : \A t \in scan.todo : u <= t
       IN  /\ row' = Superseded([row EXCEPT ![v] = Recorded(v, "discovered")])
           /\ incidents' = Resolved(incidents, {v})
           /\ scan' = [Discovered(v, scan) EXCEPT !.todo = @ \ {v}]
           /\ audit' = Discovered(v, audit)
    /\ UNCHANGED <<bucket, op, lost, erased>>

\* mark_unseen_archive_versions_missing and remember_missing_archives.
ScanMissing ==
    /\ scan.pc = "merge" /\ scan.todo = {}
    /\ LET gone == {v \in Unseen(scan) : row[v].av = "available"}
       IN  /\ row' = [v \in VersionIds |-> IF v \in gone THEN [row[v] EXCEPT !.av = "missing"]
                                         ELSE row[v]]
           /\ incidents' = Opened(gone)
    /\ scan' = Quiet
    /\ UNCHANGED <<bucket, op, audit, lost, erased>>

(***************************************************************************)
(* The audit: one transaction, its listing taken inside it.                *)
(***************************************************************************)

AuditList ==
    /\ audit.pc = "idle"
    /\ audit' = [Quiet EXCEPT !.pc = "read", !.listed = bucket]
    /\ UNCHANGED <<bucket, row, incidents, op, scan, lost, erased>>

\* The rows it will judge, and the uploads that exempt them.
AuditRead ==
    /\ audit.pc = "read"
    /\ audit' = [audit EXCEPT !.pc = "write",
                    !.told = {v \in Unseen(audit) : row[v].av # "purged"},
                    !.todo = {v \in Unseen(audit) : row[v].av = "available"} \cup
                             {v \in audit.listed : row[v].av = "missing"}]
    /\ UNCHANGED <<bucket, row, incidents, op, scan, lost, erased>>

\* audit_vault_catalog: the updates name rows by id, whatever they are now.
AuditWrite ==
    /\ audit.pc = "write"
    /\ row' = [v \in VersionIds |->
                  IF v \notin audit.todo THEN row[v]
                  ELSE [row[v] EXCEPT !.av = IF v \in audit.listed THEN "available" ELSE "missing"]]
    /\ incidents' = Resolved(Opened(audit.told), audit.todo \cap audit.listed)
    /\ audit' = Quiet
    /\ UNCHANGED <<bucket, op, scan, lost, erased>>

Init ==
    /\ bucket = {1} /\ incidents = {}
    /\ row = [v \in VersionIds |-> IF v = 1 THEN [av |-> "available", ver |-> TRUE, num |-> 1]
                                 ELSE NoRow]
    /\ op = NoOp /\ scan = Quiet /\ audit = Quiet /\ lost = {} /\ erased = {}

ScanStep == ScanBegin \/ ScanList \/ ScanKeep \/ ScanMerge \/ ScanMissing
OpStep == UploadPut \/ UploadRecord \/ UploadVerify \/ PurgeDelete \/ PurgeMark

Next ==
    \/ PurgeAdmit \/ OpStep
    \/ \E v \in VersionIds : UploadAdmit(v) \/ Lose(v) \/ ForeignPut(v)
    \/ ScanStep
    \/ AuditList \/ AuditRead \/ AuditWrite

\* Scans are periodic and their listings succeed again and again, Jobs go on,
\* and an audit that began ends.
Fairness ==
    /\ WF_vars(ScanStep) /\ SF_vars(ScanList /\ scan'.pc = "keep")
    /\ WF_vars(OpStep) /\ WF_vars(AuditRead \/ AuditWrite)

Spec == Init /\ [][Next]_vars /\ Fairness

(***************************************************************************)
(* Properties.                                                             *)
(***************************************************************************)


\* The catalog does not keep calling a version available that is gone, even
\* when a stale listing has revived it.
AvailabilityHeals ==
    \A v \in VersionIds :
        v \notin bucket /\ row[v].av = "available" ~> row[v].av # "available" \/ v \in bucket

\* "Authorized purge rows never reach this helper" (remember_missing_archives):
\* no loss is reported for a version a Job deleted.
PurgeIsNoLoss == incidents \cap erased = {}

\* "a newer S3 version of the same file is kept" when rows are marked purged
\* by a scan (mark_unlisted_snapshot_versions_superseded): a lost version is
\* written off without an incident only in favour of a newer one.
WrittenOffForNewer ==
    \A v \in lost \ erased : row[v].av = "purged" => \E u \in Known : u > v
=============================================================================
