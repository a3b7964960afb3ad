----------------------------- MODULE MCServices -----------------------------
(***************************************************************************)
(* Two services of the background loop for TLC.  Backups or Notifications  *)
(* is at work: `part` is chosen at the start, and the other stays in an    *)
(* initial state.                                                          *)
(***************************************************************************)
EXTENDS Backups

CONSTANT req

VARIABLES
    part,
    mount, health, job, outbox, incident, note, mail, worker, mailFaults, sent, tries, crashes, raced

noteVars == <<mount, health, job, outbox, incident, note, mail, worker, mailFaults, sent, tries, crashes, raced>>

N == INSTANCE Notifications WITH MaxFaults <- 2, MaxAttempts <- 2, faults <- mailFaults

ServicesInit ==
    /\ Init /\ N!Init
    /\ part \in {"backups", "notifications"}
    /\ part # "backups" => schema = "head" /\ config.off /\ config.key
    /\ part # "notifications" => job = "running"

ServicesNext ==
    /\ UNCHANGED part
    /\ \/ part = "backups" /\ Next /\ UNCHANGED noteVars
       \/ part = "notifications" /\ N!Next /\ UNCHANGED vars

\* Fairness of each, for the part at work.
ServicesFairness ==
    /\ \A p \in Procs : WF_vars(part = "backups" /\ Backup(p))
    /\ WF_vars(part = "backups" /\ BeginScheduled) /\ WF_vars(part = "backups" /\ BeginGate)
    /\ WF_vars(part = "backups" /\ Start) /\ WF_vars(part = "backups" /\ Tick)
    /\ WF_noteVars(part = "notifications" /\ N!Deliver) /\ SF_noteVars(part = "notifications" /\ N!Monitor)

ServicesSpec == ServicesInit /\ [][ServicesNext]_<<vars, noteVars, part>> /\ ServicesFairness

\* What the record of a run says is so: a successful one is stored
\* (SucceededIsStored) and a verified one was restored (VerifiedIsRestored)
\* (run_metadata_backup, _verify_latest_metadata_backup_once).
RunsAreTrue == [](TypeOK /\ SucceededIsStored) /\ VerifiedIsRestored

\* Of Notifications: an open problem has been mailed for this episode or still
\* will be, unless the delivery worker wrote its result over the next episode
\* (EpisodeIsMailedUnlessRaced); it is mailed so many times at most
\* (AttemptsBounded); and that of a source ends only with a scan that succeeds
\* or its absence (ScanOwnsResolution) (set_problem, deliver_pending_notifications).
EpisodesHold ==
    [](N!TypeOK /\ N!EpisodeIsMailedUnlessRaced /\ N!AttemptsBounded) /\ N!ScanOwnsResolution

\* What is due, and that it has happened, for the part at work.
Due(i) ==
    CASE part = "backups" /\ i = 1 -> config.key /\ schema = "old"
      [] part = "backups" /\ i = 2 -> BackupDue
      [] part = "notifications" /\ i = 1 -> job = "remediated"
      [] part = "notifications" /\ i = 2 -> incident = "resolved"
      [] part = "notifications" /\ i = 3 -> job \notin {"running", "absent"}
      [] OTHER -> FALSE
Happened(i) ==
    CASE part = "backups" /\ i = 1 -> schema = "head"
      [] part = "backups" /\ i = 2 -> BackupTaken
      [] part = "notifications" /\ i = 1 -> note["job"].st = "resolved"
      [] part = "notifications" /\ i = 2 -> note["incident"].st = "resolved"
      [] part = "notifications" /\ i = 3 -> note["job"].st # "none"
      [] OTHER -> TRUE

\* BackupsHappen: an older schema is upgraded and a scheduled backup taken, once
\* faults stop.  OverIsClosed and TerminalIsNotified: what is over is closed, and
\* a terminal Job gets its notification, if not with its last transition then
\* from the outbox.  LossIsReported: a Source Volume that stays away is reported
\* and the mail attempted.  (`part` does not change, so that one formula speaks
\* of both parts.)
ServicesAreDone == (\A i \in 1..3 : Due(i) ~> Happened(i)) /\ N!LossIsReported
=============================================================================
