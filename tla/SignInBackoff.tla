--------------------------- MODULE SignInBackoff ---------------------------
(***************************************************************************)
(* The counter of failed sign-ins of one scope and key (app/backoff.py).   *)
(* Requests look at the row before they check the password, and count      *)
(* their failure later: several may have passed the guard.  Times are      *)
(* seconds since the last failure was counted, and advance to those where  *)
(* something changes.                                                      *)
(***************************************************************************)
EXTENDS Integers

CONSTANTS
    THRESHOLD, BASE_SECONDS, CAP_SECONDS, DECAY_SECONDS,
    MaxChecking,  \* bound: requests between guard and result
    MaxFailures   \* bound: failures counted in a row

VARIABLES
    count,    \* failure_count, 0 without a row
    wait,     \* next_allowed_at - updated_at, 0 for NULL
    age,      \* seconds since updated_at
    checking  \* requests that passed the guard

vars == <<count, wait, age, checking>>

Smaller(a, b) == IF a < b THEN a ELSE b

\* _backoff_seconds.
BackoffSeconds(n) ==
    IF n < THRESHOLD THEN 0 ELSE Smaller(BASE_SECONDS * 2^(n - THRESHOLD), CAP_SECONDS)

Moments == {0, CAP_SECONDS, DECAY_SECONDS - 1, DECAY_SECONDS}
              \cup {BackoffSeconds(n) + d : n \in THRESHOLD..MaxFailures, d \in {-1, 0}}

TypeOK == count \in 0..MaxFailures /\ wait \in Nat /\ age \in Moments /\ checking \in 0..MaxChecking

Init == count = 0 /\ wait = 0 /\ age = 0 /\ checking = 0

\* _is_decayed, in guard and in the statement of record_failure alike.
Decayed == age >= DECAY_SECONDS

\* _next_allowed derives a deadline that was not stored.
NextAllowed == IF wait > 0 THEN wait ELSE BackoffSeconds(count)

Blocked == count > 0 /\ ~Decayed /\ age < NextAllowed

Guard ==
    /\ ~Blocked /\ checking < MaxChecking
    /\ checking' = checking + 1
    /\ UNCHANGED <<count, wait, age>>

\* deadline_values and the CASE over the count found: the last value is the
\* cap for every count beyond the table.
Deadline(found) ==
    BackoffSeconds(THRESHOLD + Smaller(found - (THRESHOLD - 1), 6))

RecordFailure ==
    /\ checking > 0 /\ checking' = checking - 1
    /\ count < MaxFailures \/ Decayed
    /\ count' = IF count = 0 \/ Decayed THEN 1 ELSE count + 1
    /\ wait' = IF count < THRESHOLD - 1 \/ Decayed THEN 0 ELSE Deadline(count)
    /\ age' = 0

RecordSuccess ==
    /\ checking > 0 /\ checking' = checking - 1
    /\ count' = 0 /\ wait' = 0 /\ age' = 0

Pass(t) ==
    /\ count > 0 /\ t > age
    /\ age' = t
    /\ UNCHANGED <<count, wait, checking>>

Next == Guard \/ RecordFailure \/ RecordSuccess \/ \E t \in Moments : Pass(t)

Spec == Init /\ [][Next]_vars

\* The stored deadline is the one the count stands for, however many requests
\* were past the guard together, and at the end of the table and after a quiet
\* hour: so that it matters not whether guard reads or derives it.
DeadlineIsDerived == wait = BackoffSeconds(count)

\* "there is no permanent lockout": the longest wait ends, before the row decays.
NoLockout == Blocked => age < CAP_SECONDS /\ CAP_SECONDS < DECAY_SECONDS
=============================================================================
