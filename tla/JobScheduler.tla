---------------------------- MODULE JobScheduler ----------------------------
(***************************************************************************)
(* How the scheduler chooses Jobs (process_jobs_once and select_fair_jobs):*)
(* it lists the oldest claimable Jobs of all Vaults up to a batch, drops   *)
(* automatic uploads whose file is not ready, and serves the Vaults in     *)
(* turns up to the free slots of the operation pool.                       *)
(*                                                                         *)
(* Jobs are numbered in the order of requested_at and id.  What happens to *)
(* a Job after its claim, and the races of claims, are in JobLease; here a *)
(* Job runs and ends.  The other filters on a listed Job hold for all of   *)
(* them (the gate of PreflightGate), concern groups (CloudPurge) or are    *)
(* also conditions of the listing.                                         *)
(***************************************************************************)
EXTENDS Naturals, Sequences, SequencesExt, FiniteSets

CONSTANTS
    Vaults,
    MaxJobs,      \* bound: Jobs requested
    Concurrency,  \* operation_concurrency
    BatchSize,    \* candidates listed, ten times the concurrency and at least ten
    MaxAway       \* bound: how often a Source Volume goes away

VARIABLES
    jobs,  \* the Jobs requested so far, oldest first
    away,  \* Vaults whose Source Volume cannot be read
    gone   \* how often one went away

vars == <<jobs, away, gone>>

Ids == DOMAIN jobs

TypeOK ==
    /\ jobs \in Seq([vault : Vaults, auto : BOOLEAN, st : {"queued", "running", "ended"}]) /\ Len(jobs) <= MaxJobs
    /\ away \subseteq Vaults
    /\ gone \in 0..MaxAway

Init == jobs = <<>> /\ away = {} /\ gone = 0

Queued == {j \in Ids : jobs[j].st = "queued"}
Running == {j \in Ids : jobs[j].st = "running"}

\* list_claimable_jobs: ORDER BY requested_at, id LIMIT batch_size.
Listed == {j \in Queued : Cardinality({i \in Queued : i <= j}) <= BatchSize}

\* _automatic_upload_ready, and every other Job: whether it may start now.
Ready(j) == ~(jobs[j].auto /\ jobs[j].vault \in away)

Eligible == {j \in Listed : Ready(j)}

Slots == Concurrency - Cardinality(Running)

Oldest(S) == CHOOSE j \in S : \A i \in S : j <= i
Of(v, S) == {j \in S : jobs[j].vault = v}

\* The rounds of select_fair_jobs: each Vault of `order` is served once, until
\* the limit; those with Jobs left keep their order in the next round.
RECURSIVE Rounds(_, _, _)
Rounds(left, order, limit) ==
    LET served == SubSeq(order, 1, IF limit < Len(order) THEN limit ELSE Len(order))
        taken == [i \in DOMAIN served |-> Oldest(Of(served[i], left))]
        rest == left \ ToSet(taken)
    IN IF limit = 0 \/ order = <<>> THEN <<>>
       ELSE taken \o Rounds(rest, SelectSeq(served, LAMBDA v : Of(v, rest) # {}), limit - Len(served))

\* The Vault with the oldest Job comes first.
select_fair_jobs(S, limit) ==
    LET pending == {v \in Vaults : Of(v, S) # {}}
        order == SetToSortSeq(pending, LAMBDA u, v : Oldest(Of(u, S)) < Oldest(Of(v, S)))
    IN Rounds(S, order, limit)

Request(v, auto) ==
    /\ Len(jobs) < MaxJobs
    /\ jobs' = Append(jobs, [vault |-> v, auto |-> auto, st |-> "queued"])
    /\ UNCHANGED <<away, gone>>

\* process_jobs_once claims what it selected and hands it to the pool.
ProcessJobsOnce ==
    /\ Slots > 0 /\ Eligible # {}
    /\ LET selected == ToSet(select_fair_jobs(Eligible, Slots))
       IN jobs' = [j \in Ids |-> IF j \in selected THEN [jobs[j] EXCEPT !.st = "running"] ELSE jobs[j]]
    /\ UNCHANGED <<away, gone>>

End(j) ==
    /\ jobs[j].st = "running"
    /\ jobs' = [jobs EXCEPT ![j].st = "ended"]
    /\ UNCHANGED <<away, gone>>

LoseSource(v) ==
    /\ gone < MaxAway /\ v \notin away
    /\ away' = away \cup {v} /\ gone' = gone + 1
    /\ UNCHANGED jobs

FindSource(v) ==
    /\ v \in away /\ away' = away \ {v}
    /\ UNCHANGED <<jobs, gone>>

Next ==
    \/ \E v \in Vaults : (\E auto \in BOOLEAN : Request(v, auto)) \/ LoseSource(v) \/ FindSource(v)
    \/ ProcessJobsOnce
    \/ \E j \in Ids : End(j)

\* The worker polls, and handlers end.  A volume need not come back.
Fairness == WF_vars(ProcessJobsOnce) /\ \A j \in 1..MaxJobs : WF_vars(j \in Ids /\ End(j))

Spec == Init /\ [][Next]_vars /\ Fairness

\* "each Vault gets a turn before any Vault gets a second" (select_fair_jobs):
\* a Vault left behind by more than one turn has nothing left, the oldest Jobs
\* of a Vault and of all are served first, and no slot stays free.
SelectionIsFair ==
    LET selected == select_fair_jobs(Eligible, Slots)
        Turns(v) == Cardinality(Of(v, ToSet(selected)))
        left == Eligible \ ToSet(selected)
    IN /\ \A u, v \in Vaults : Turns(u) > Turns(v) + 1 => Of(v, left) = {}
       /\ \A j \in ToSet(selected), i \in left : jobs[i].vault = jobs[j].vault => j < i
       /\ selected # <<>> => selected[1] = Oldest(Eligible)
       /\ Len(selected) = IF Cardinality(Eligible) < Slots THEN Cardinality(Eligible) ELSE Slots

\* Every Job that may start does, however many Jobs of its own or of another
\* Vault are queued: "One Vault cannot starve others" (process_jobs_once).
NoJobStarves ==
    \A j \in 1..MaxJobs : []<>~(j \in Ids /\ jobs[j].st = "queued" /\ Ready(j))
=============================================================================
