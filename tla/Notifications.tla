--------------------------- MODULE Notifications ---------------------------
(***************************************************************************)
(* The owner's notifications and their email: services/notifications.py,   *)
(* protection_notifications.py, component_health.py and the delivery       *)
(* worker of storage.py.                                                   *)
(*                                                                         *)
(* Three subjects stand for the three ways a notification comes about.     *)
(* "source" is a problem with episodes (set_problem), reported by scans    *)
(* and by the monitor.  "job" is the terminal notification of a Job, with  *)
(* the outbox flag on its row.  "incident" is an incident of the catalog.  *)
(* The worker holds one transaction over all the mail it sends; the other  *)
(* transactions are short and are one step each.                           *)
(***************************************************************************)
EXTENDS Integers, Sequences, FiniteSets

CONSTANTS
    MaxFaults,   \* bound: lost mounts, failed scans, savepoints, sends and workers
    MaxAttempts  \* max_attempts of deliver_pending_notifications

Subjects == {"source", "job", "incident"}

VARIABLES
    mount,     \* the Source Volume may be used
    health,    \* last_error of the source component: "none", "ok" or "error"
    job,       \* "running", "recovered", "failed" or "remediated"; or there is none
    outbox,    \* terminal_notification_status is pending
    incident,  \* "none", "open" or "resolved"; or there will be none
    note,      \* notifications: st is problem_status, ep the episode
    mail,      \* notification_deliveries
    worker,    \* the delivery transaction
    faults,
    sent,      \* history: episodes of each subject that were attempted
    tries,     \* history: attempts of the current episode
    crashes,   \* history
    raced      \* history: a delivery was written over a new episode

vars == <<mount, health, job, outbox, incident, note, mail, worker, faults, sent, tries, crashes, raced>>
world == <<mount, health, job, incident>>
history == <<sent, tries, crashes, raced>>

NoNote == [st |-> "none", ep |-> 0]
NoMail == [st |-> "none", n |-> 0]
\* notes, mails: rows it wrote and holds.
NoWork == [pc |-> "idle", todo |-> <<>>, notes |-> <<>>, mails |-> <<>>]

Order == <<"source", "job", "incident">>
Fault == faults < MaxFaults /\ faults' = faults + 1

\* A row the worker wrote is locked until it commits.
NoteFree(s) == s \notin DOMAIN worker.notes
MailFree(s) == s \notin DOMAIN worker.mails

\* enqueue_notification and _ensure_delivery: at most one row per dedupe_key,
\* one delivery per row.
Enqueued(n, st) == IF n.st = "none" THEN [st |-> st, ep |-> 1] ELSE n
Ensured(m) == IF m.st = "none" THEN [st |-> "pending", n |-> 0] ELSE m

(***************************************************************************)
(* set_problem.                                                            *)
(***************************************************************************)

\* Mutant: a recurrence opens the row and leaves its delivery as it is.
RearmedNever(m, reopen) == Ensured(m)

\* A recurrence starts the delivery anew.
Rearmed(m, reopen) == IF reopen THEN [st |-> "pending", n |-> 0] ELSE Ensured(m)

SetProblem(s, active) ==
    LET reopen == note[s].st = "resolved"
    IN  IF active
        THEN /\ NoteFree(s) /\ (reopen \/ mail[s].st = "none" => MailFree(s))
             /\ note' = [note EXCEPT ![s] = IF @.st = "none" THEN Enqueued(@, "open")
                            ELSE [st |-> "open", ep |-> IF reopen THEN @.ep + 1 ELSE @.ep]]
             /\ mail' = [mail EXCEPT ![s] = Rearmed(@, reopen)]
             /\ tries' = [tries EXCEPT ![s] = IF reopen THEN 0 ELSE @]
        ELSE /\ note[s].st = "open" => NoteFree(s)
             /\ note' = [note EXCEPT ![s] = IF @.st = "open" THEN [@ EXCEPT !.st = "resolved"] ELSE @]
             /\ UNCHANGED <<mail, tries>>

\* record_component_health.
Recorded(ok) == health' = IF ok THEN "ok" ELSE "error"

\* _record_scan_component_health.  An incomplete walk records its error and reports no problem.
ScanEnds ==
    /\ \/ mount /\ Recorded(TRUE) /\ SetProblem("source", FALSE) /\ UNCHANGED faults
       \/ mount /\ Fault /\ Recorded(FALSE) /\ SetProblem("source", TRUE)
       \/ mount /\ Fault /\ Recorded(FALSE) /\ UNCHANGED <<note, mail, tries>>
       \/ ~mount /\ Recorded(FALSE) /\ SetProblem("source", TRUE) /\ UNCHANGED faults
    /\ UNCHANGED <<mount, job, incident, outbox, worker, sent, crashes, raced>>

\* Mutant: the mount alone decides.
MonitorSourceByMount == SetProblem("source", ~mount)

\* Mutant: the monitor stays away from a problem of the scans.
MonitorSourceYields ==
    IF health # "error" THEN SetProblem("source", ~mount) ELSE UNCHANGED <<note, mail, tries>>

\* monitor_vault shares the problem with the scans: it does not clear the failure
\* of a scan.
MonitorSource ==
    IF ~mount \/ health # "error" THEN SetProblem("source", ~mount) ELSE UNCHANGED <<note, mail, tries>>

Monitor ==
    /\ MonitorSource
    /\ UNCHANGED <<world, outbox, worker, faults, sent, crashes, raced>>

MountChanges ==
    /\ \/ mount /\ Fault
       \/ ~mount /\ UNCHANGED faults
    /\ mount' = ~mount
    /\ UNCHANGED <<health, job, incident, outbox, note, mail, worker, history>>

(***************************************************************************)
(* Jobs and incidents.                                                     *)
(***************************************************************************)

\* enqueue_job_terminal_notification.  Late delivery of the outbox writes
\* resolved history when the Job was remediated in the meantime.
Materialized(n, j) ==
    LET new == Enqueued(n, IF j = "recovered" THEN "plain" ELSE "open")
    IN  IF j = "remediated" THEN [new EXCEPT !.st = "resolved"] ELSE new

\* Mutant: the savepoint is rolled back and the outbox is done.
JobTerminatesForgets ==
    /\ job = "running" /\ job' \in {"recovered", "failed"}
    /\ \/ /\ note' = [note EXCEPT !["job"] = Materialized(@, job')]
          /\ mail' = [mail EXCEPT !["job"] = Ensured(@)]
          /\ UNCHANGED faults
       \/ Fault /\ UNCHANGED <<note, mail>>
    /\ UNCHANGED <<mount, health, incident, outbox, worker, history>>

\* The Job's terminal transition, with the best-effort notification in a
\* savepoint of the same transaction.
JobTerminates ==
    /\ job = "running" /\ job' \in {"recovered", "failed"}
    /\ \/ /\ note' = [note EXCEPT !["job"] = Materialized(@, job')]
          /\ mail' = [mail EXCEPT !["job"] = Ensured(@)]
          /\ outbox' = FALSE /\ UNCHANGED faults
       \/ Fault /\ outbox' = TRUE /\ UNCHANGED <<note, mail>>
    /\ UNCHANGED <<mount, health, incident, worker, history>>

Remediate ==
    /\ job = "failed" /\ job' = "remediated"
    /\ UNCHANGED <<mount, health, incident, outbox, note, mail, worker, faults, history>>

\* Mutant: an incident is shown and not mailed.
IncidentOpensSilent ==
    /\ incident = "none" /\ incident' = "open"
    /\ note' = [note EXCEPT !["incident"] = Enqueued(@, "open")]
    /\ UNCHANGED <<mount, health, job, outbox, mail, worker, faults, history>>

\* An incident opens with its notification (_enqueue_incident_notification).
IncidentOpens ==
    /\ incident = "none" /\ incident' = "open"
    /\ note' = [note EXCEPT !["incident"] = Enqueued(@, "open")]
    /\ mail' = [mail EXCEPT !["incident"] = Ensured(@)]
    /\ UNCHANGED <<mount, health, job, outbox, worker, faults, history>>

IncidentResolves ==
    /\ incident = "open" /\ incident' = "resolved"
    /\ UNCHANGED <<mount, health, job, outbox, note, mail, worker, faults, history>>

(***************************************************************************)
(* The inbox.                                                              *)
(***************************************************************************)

\* Mutant: only incidents are looked at.
OverIncident(n) == {s \in {"incident"} : n[s].st = "open" /\ incident = "resolved"}

\* The subjects reconcile_problem_states resolves.
Over(n) == {s \in {"job", "incident"} : /\ n[s].st = "open"
                                         /\ IF s = "job" THEN job = "remediated" ELSE incident = "resolved"}
Reconciled(n) == [s \in Subjects |-> IF s \in Over(n) THEN [n[s] EXCEPT !.st = "resolved"] ELSE n[s]]

\* Lists, counts and marks of the inbox reconcile first.  Whether a row was read
\* is left out: no transition looks at it.
Inbox ==
    /\ Over(note) # {} /\ \A s \in Over(note) : NoteFree(s)
    /\ note' = Reconciled(note)
    /\ UNCHANGED <<world, outbox, mail, worker, faults, history>>

(***************************************************************************)
(* _deliver_notifications_once: one transaction.                           *)
(***************************************************************************)

\* The deliveries deliver_pending_notifications selects.  That a retry waits for
\* its time is left out: a turn of the loop may come at any time.
Due(n, m) == SelectSeq(Order, LAMBDA s : m[s].st = "pending" /\ n[s].st \in {"open", "plain"})

\* reconcile_pending_terminal_notifications, reconcile_problem_states, and the
\* selection of what is due.
Begin ==
    /\ worker.pc = "idle"
    /\ \E made \in BOOLEAN :
         /\ made => outbox
         /\ IF outbox /\ ~made THEN Fault ELSE UNCHANGED faults
         /\ LET n1 == IF made THEN [note EXCEPT !["job"] = Materialized(@, job)] ELSE note
                m1 == IF made THEN [mail EXCEPT !["job"] = Ensured(@)] ELSE mail
                n2 == Reconciled(n1)
                due == Due(n2, m1)
            IN  worker' = [pc |-> "send",
                           todo |-> [i \in DOMAIN due |-> [s |-> due[i], n |-> m1[due[i]].n, ep |-> n2[due[i]].ep]],
                           notes |-> [s \in {t \in Subjects : n2[t] # note[t]} |-> n2[s]],
                           mails |-> [s \in {t \in Subjects : m1[t] # mail[t]} |-> m1[s]]]
    /\ UNCHANGED <<world, outbox, note, mail, history>>

\* Mutant: a requeued delivery forgets the attempt.
AttemptedForgets(n, ok) ==
    [n |-> n, st |-> IF ok THEN "delivered" ELSE IF n + 1 >= MaxAttempts THEN "failed" ELSE "pending"]

\* The delivery row after an attempt.
Attempted(n, ok) ==
    [n |-> n + 1, st |-> IF ok THEN "delivered" ELSE IF n + 1 >= MaxAttempts THEN "failed" ELSE "pending"]

\* One send and the update of its row by id.
Send ==
    /\ worker.pc = "send" /\ worker.todo # <<>>
    /\ LET d == Head(worker.todo)
       IN  \E ok \in BOOLEAN :
             /\ IF ok THEN UNCHANGED faults ELSE Fault
             /\ worker' = [worker EXCEPT !.todo = Tail(@),
                    !.mails = [s \in DOMAIN @ \cup {d.s} |-> IF s = d.s THEN Attempted(d.n, ok) ELSE @[s]]]
             /\ sent' = [sent EXCEPT ![d.s] = @ \cup {d.ep}]
             /\ tries' = [tries EXCEPT ![d.s] = IF note[d.s].ep \in {0, d.ep} THEN @ + 1 ELSE @]
             /\ raced' = (raced \/ note[d.s].ep \notin {0, d.ep})
    /\ UNCHANGED <<world, outbox, note, mail, crashes>>

Commit ==
    /\ worker.pc = "send" /\ worker.todo = <<>>
    /\ note' = [s \in Subjects |-> IF s \in DOMAIN worker.notes THEN worker.notes[s] ELSE note[s]]
    /\ mail' = [s \in Subjects |-> IF s \in DOMAIN worker.mails THEN worker.mails[s] ELSE mail[s]]
    /\ outbox' = IF "job" \in DOMAIN worker.notes THEN FALSE ELSE outbox
    /\ worker' = NoWork
    /\ UNCHANGED <<world, faults, history>>

\* The worker dies: what it sent was sent, what it wrote is gone.
Crash ==
    /\ worker.pc = "send" /\ Fault
    /\ worker' = NoWork /\ crashes' = crashes + 1
    /\ UNCHANGED <<world, outbox, note, mail, sent, tries, raced>>

Init ==
    /\ mount = TRUE /\ health = "none" /\ outbox = FALSE
    /\ \/ job = "running" /\ incident = "absent"
       \/ job = "absent" /\ incident = "none"
    /\ note = [s \in Subjects |-> NoNote] /\ mail = [s \in Subjects |-> NoMail]
    /\ worker = NoWork /\ faults = 0
    /\ sent = [s \in Subjects |-> {}] /\ tries = [s \in Subjects |-> 0] /\ crashes = 0 /\ raced = FALSE

Deliver == Begin \/ Send \/ Commit

Next ==
    \/ ScanEnds \/ Monitor \/ MountChanges
    \/ JobTerminates \/ Remediate \/ IncidentOpens \/ IncidentResolves
    \/ Inbox \/ Deliver \/ Crash

\* Both run in every turn of the background loop.
Fairness == WF_vars(Deliver) /\ SF_vars(Monitor)

Spec == Init /\ [][Next]_vars /\ Fairness

(***************************************************************************)
(* Properties.                                                             *)
(***************************************************************************)

TypeOK ==
    /\ \A s \in Subjects : /\ note[s].st \in {"none", "open", "resolved", "plain"}
                           /\ mail[s].st \in {"none", "pending", "delivered", "failed"}
                           /\ mail[s].n \in 0..MaxAttempts
    /\ (\A s \in Subjects : (note[s].st = "none") <=> (mail[s].st = "none"))

\* "notify once per open episode": a delivery that is done was attempted for
\* this episode (set_problem, deliver_pending_notifications).
EpisodeIsMailed ==
    \A s \in Subjects : mail[s].st \in {"delivered", "failed"} => note[s].ep \in sent[s]

\* The same, unless the worker wrote its result over the next episode.
EpisodeIsMailedUnlessRaced == raced \/ EpisodeIsMailed

\* "Delivery retries are bounded": an episode is mailed MaxAttempts times, and
\* once more for each time the worker died.
AttemptsBounded == \A s \in Subjects : tries[s] <= MaxAttempts + crashes

\* Only a source scan that succeeds, or its absence, clears the problem: the
\* monitor, which sees the mount come back, does not clear a failed scan.
ScanOwnsResolution ==
    [][note["source"].st = "open" /\ note'["source"].st = "resolved" => health' # "error"]_vars

\* A Job that was remediated and an incident that is over leave no open problem,
\* also when the notification is written later (reconcile_problem_states).
OverIsClosed ==
    /\ (job = "remediated") ~> (note["job"].st = "resolved")
    /\ (incident = "resolved") ~> (note["incident"].st = "resolved")

\* A terminal Job gets its notification, if not with its last transition then
\* from the outbox.
TerminalIsNotified == (job \notin {"running", "absent"}) ~> (note["job"].st # "none")

\* A Source Volume that stays away is reported, and the mail is attempted.
LossIsReported ==
    <>[](~mount) => <>(raced \/ (note["source"].st = "open" /\ mail["source"].st # "pending"))
=============================================================================
