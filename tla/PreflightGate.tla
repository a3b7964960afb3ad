--------------------------- MODULE PreflightGate ---------------------------
(***************************************************************************)
(* The installation-wide gate on S3 readiness                              *)
(* (services/cloud_preflight_gate.py).  Every process probes the bucket    *)
(* before it may rely on the row of the gate; a probe runs under an        *)
(* advisory lock, and publishes its outcome on a connection of its own.    *)
(* A provider call that is refused fences the gate (invalidate), behind    *)
(* the same lock.  Any thread may run check: the loop that probes again    *)
(* (reprobe_cloud_readiness_once), scans and the handlers of Jobs.         *)
(*                                                                         *)
(* Deadlines are abstracted to whether they have passed (probe_due); the   *)
(* remediation text and the failure count, which sets the delay of at      *)
(* most MAX_REPROBE_SECONDS, are left out.                                 *)
(***************************************************************************)
EXTENDS Naturals

CONSTANTS
    Processes,
    Threads,    \* those that run check or call the provider
    Home,       \* Home[t]: the process of thread t
    Loop,       \* the threads of cloud_preflight_loop
    Free,       \* the advisory lock is held by nobody
    MaxFlips,   \* bound: how often the credentials are broken or repaired
    MaxFaults   \* bound: crashes, lost connections and failed publications

VARIABLES
    works,   \* whether the provider accepts the credentials
    row,     \* cloud_preflight_state; clean: no refusal since its probe began
    ready,   \* ready[p]: _ready_pid is the process itself
    lock,    \* the thread that holds LOCK_ID
    th,      \* the threads
    lapsed,  \* whether a connection that held the lock was ever lost
    flips, faults

vars == <<works, row, ready, lock, th, lapsed, flips, faults>>

Idle == [pc |-> "idle", ok |-> FALSE, clean |-> TRUE, lost |-> FALSE]

TypeOK ==
    /\ works \in BOOLEAN /\ lapsed \in BOOLEAN
    /\ row \in [st : {"unknown", "ready", "blocked"}, due : BOOLEAN, clean : BOOLEAN]
    /\ ready \in [Processes -> BOOLEAN]
    /\ lock \in Threads \cup {Free}
    /\ th \in [Threads -> [pc : {"idle", "try", "probe", "publish", "release", "mark", "work", "fence"},
                           ok : BOOLEAN, clean : BOOLEAN, lost : BOOLEAN]]
    /\ flips \in 0..MaxFlips /\ faults \in 0..MaxFaults

Init ==
    /\ works \in BOOLEAN
    /\ row \in {[st |-> "unknown", due |-> TRUE, clean |-> TRUE], [st |-> "ready", due |-> FALSE, clean |-> TRUE]}
    /\ ready = [p \in Processes |-> FALSE]
    /\ lock = Free
    /\ th = [t \in Threads |-> Idle]
    /\ lapsed = FALSE
    /\ flips = 0 /\ faults = 0

\* A process that has not probed must, whatever the row says, unless the row
\* says when to probe again.
NeedsProbe(p) == (~ready[p] /\ row.st = "ready") \/ row.due

DispatchReady(p) == ready[p] /\ row.st = "ready" /\ ~row.due

At(t, pc) == th[t].pc = pc
Goto(t, pc) == th' = [th EXCEPT ![t].pc = pc]

\* What check returns: with a gate that is ready a handler goes on to the
\* provider, otherwise its work stays queued (validate_cloud_vault).
Return(t, st) ==
    th' = [th EXCEPT ![t] = [Idle EXCEPT !.pc = IF st = "ready" /\ t \notin Loop THEN "work" ELSE "idle"]]

\* The first snapshot.  The loop looks before it calls check.
BeginCheck(t) ==
    /\ At(t, "idle")
    /\ t \in Loop => ~DispatchReady(Home[t]) /\ (row.st = "blocked" => row.due)
    /\ IF NeedsProbe(Home[t]) THEN Goto(t, "try") ELSE Return(t, row.st)
    /\ UNCHANGED <<works, row, ready, lock, lapsed, flips, faults>>

\* pg_try_advisory_xact_lock and the second snapshot.
TryLock(t) ==
    /\ At(t, "try")
    /\ \/ lock # Free /\ Return(t, "blocked") /\ UNCHANGED lock
       \/ /\ lock = Free
          /\ IF NeedsProbe(Home[t])
             THEN lock' = t /\ th' = [th EXCEPT ![t] = [Idle EXCEPT !.pc = "probe"]]
             ELSE Return(t, row.st) /\ UNCHANGED lock
    /\ UNCHANGED <<works, row, ready, lapsed, flips, faults>>

Probe(t) ==
    /\ At(t, "probe")
    /\ th' = [th EXCEPT ![t].pc = "publish", ![t].ok = works]
    /\ UNCHANGED <<works, row, ready, lock, lapsed, flips, faults>>

Unlocked(t) == IF lock = t THEN Free ELSE lock

\* _publish commits on its own connection.
Publish(t) ==
    /\ At(t, "publish")
    /\ row' = [st |-> IF th[t].ok THEN "ready" ELSE "blocked", due |-> FALSE, clean |-> th[t].clean]
    /\ Goto(t, "release")
    /\ UNCHANGED <<works, ready, lock, lapsed, flips, faults>>

\* The transaction of the lock ends; if its connection was lost, with an error.
Release(t) ==
    /\ At(t, "release")
    /\ lock' = Unlocked(t)
    /\ IF th[t].lost THEN Return(t, "blocked") ELSE Goto(t, "mark")
    /\ UNCHANGED <<works, row, ready, lapsed, flips, faults>>

\* Only then the process is marked.
Mark(t) ==
    /\ At(t, "mark")
    /\ ready' = [ready EXCEPT ![Home[t]] = th[t].ok]
    /\ Return(t, IF th[t].ok THEN "ready" ELSE "blocked")
    /\ UNCHANGED <<works, row, lock, lapsed, flips, faults>>

\* The provider call of a handler: refused, it begins to invalidate the gate.
Work(t) ==
    /\ At(t, "work")
    /\ IF works
       THEN Goto(t, "idle") /\ UNCHANGED ready
       ELSE Goto(t, "fence") /\ ready' = [ready EXCEPT ![Home[t]] = FALSE]
    /\ UNCHANGED <<works, row, lock, lapsed, flips, faults>>

\* The rest of invalidate waits for the lock; a gate that is blocked keeps its
\* backoff.
Fence(t) ==
    /\ At(t, "fence") /\ lock = Free
    /\ row' = IF row.st # "blocked" THEN [st |-> "blocked", due |-> TRUE, clean |-> FALSE] ELSE row
    /\ th' = [u \in Threads |-> IF u = t THEN Idle ELSE [th[u] EXCEPT !.clean = @ /\ th[u].pc \notin {"probe", "publish"}]]
    /\ UNCHANGED <<works, ready, lock, lapsed, flips, faults>>

\* next_probe_at passes.
Tick ==
    /\ ~row.due
    /\ row' = [row EXCEPT !.due = TRUE]
    /\ UNCHANGED <<works, ready, lock, th, lapsed, flips, faults>>

Flip ==
    /\ flips < MaxFlips
    /\ works' = ~works /\ flips' = flips + 1
    /\ UNCHANGED <<row, ready, lock, th, lapsed, faults>>

\* A process dies; the database drops its locks.
Restart(p) ==
    /\ faults < MaxFaults /\ faults' = faults + 1
    /\ ready' = [ready EXCEPT ![p] = FALSE]
    /\ lock' = IF lock # Free /\ Home[lock] = p THEN Free ELSE lock
    /\ th' = [t \in Threads |-> IF Home[t] = p THEN Idle ELSE th[t]]
    /\ UNCHANGED <<works, row, lapsed, flips>>

\* The connection that holds the lock is lost while the probe is under way.
LoseConnection(t) ==
    /\ faults < MaxFaults /\ faults' = faults + 1
    /\ lock = t
    /\ lock' = Free /\ lapsed' = TRUE
    /\ th' = [th EXCEPT ![t].lost = TRUE]
    /\ UNCHANGED <<works, row, ready, flips>>

\* The publication, or the invalidation, fails for good.
FailWrite(t) ==
    /\ faults < MaxFaults /\ faults' = faults + 1
    /\ th[t].pc \in {"publish", "fence"}
    /\ lock' = Unlocked(t)
    /\ Return(t, "blocked")
    /\ UNCHANGED <<works, row, ready, lapsed, flips>>

Step(t) ==
    \/ TryLock(t) \/ Probe(t) \/ Publish(t) \/ Release(t) \/ Mark(t) \/ Work(t) \/ Fence(t)

Next ==
    \/ \E t \in Threads : BeginCheck(t) \/ Step(t) \/ LoseConnection(t) \/ FailWrite(t)
    \/ \E p \in Processes : Restart(p)
    \/ Tick \/ Flip

\* Threads go on, the loops come round and deadlines pass.  A loop that tries
\* the lock every second sooner or later finds it free.
Fairness ==
    /\ \A t \in Threads : WF_vars(Step(t)) /\ SF_vars(Fence(t))
    /\ \A t \in Loop : SF_vars(BeginCheck(t) /\ lock = Free) /\ SF_vars(TryLock(t) /\ lock = Free)
    /\ WF_vars(Tick)

Spec == Init /\ [][Next]_vars /\ Fairness

\* A gate that says ready owes it to a probe that began after the last refusal:
\* "an older in-flight probe cannot overwrite this refusal" (invalidate), unless
\* the connection that held the probe's lock was lost under it.
RefusalFences == lapsed \/ (row.st = "ready" => row.clean)

\* Once the credentials settle, dispatch is again and again what they allow:
\* with working ones every process gets to dispatch, whatever refusals, crashes
\* and lost connections came before, and with refused ones none is left that does
\* (reprobe_cloud_readiness_once).
GateFollows == \A p \in Processes : []<>(DispatchReady(p) <=> works)
=============================================================================
