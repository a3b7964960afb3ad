------------------------------ MODULE Sessions ------------------------------
(***************************************************************************)
(* One Session of the Owner (app/sessions.py) and the requests that use it *)
(* (app/main.py): resolution of the cookie, which slides the idle deadline,*)
(* logout, the rotation of the token by an OIDC step-up, the choice of a   *)
(* Vault and a new password.  A request takes its clock before the         *)
(* statements that use it, and other requests run between two statements.  *)
(* An UPDATE is one step: it repeats its conditions on the row it finds.   *)
(* A logout and a step-up resolve and change the row in one transaction,   *)
(* whose first UPDATE locks it.                                            *)
(***************************************************************************)
EXTENDS Naturals

CONSTANTS
    Requests,
    Vaults,
    NoVault,
    IdleSpan, AbsoluteSpan,  \* session_idle_seconds, session_absolute_seconds
    MaxTime,                 \* bound: the clock
    MaxTokens                \* bound: tokens issued

VARIABLES
    now,
    row,      \* the row of `sessions`; its token is counted by rotations
    version,  \* users.session_version
    req       \* the requests

vars == <<now, row, version, req>>

Kinds == {"read", "logout", "step-up", "select"}
Fresh == [pc |-> "idle", kind |-> "read", token |-> 0, at |-> 0, tv |-> 0, vault |-> NoVault]

TypeOK ==
    /\ now \in 0..MaxTime
    /\ row \in [token : 1..MaxTokens, idle : 0..(MaxTime + IdleSpan), revoked : BOOLEAN,
                tv : Nat, vault : Vaults \cup {NoVault}, version : {0}]
    /\ version \in 0..1
    /\ req \in [Requests -> [pc : {"idle", "select", "expire", "user", "touch", "in", "refused", "done"},
                             kind : Kinds, token : 0..MaxTokens, at : 0..MaxTime,
                             tv : Nat, vault : Vaults \cup {NoVault}]]

\* create_session.
Init ==
    /\ now = 0
    /\ row = [token |-> 1, idle |-> IdleSpan, revoked |-> FALSE, tv |-> 0, vault |-> NoVault, version |-> 0]
    /\ version = 0
    /\ req = [r \in Requests |-> Fresh]

At(r, pc) == req[r].pc = pc
Goto(r, pc) == req' = [req EXCEPT ![r].pc = pc]

Expired(t) == AbsoluteSpan <= t \/ row.idle <= t

\* The conditions every UPDATE repeats.
Live(t) == ~row.revoked /\ ~Expired(t)

\* A request is sent with a cookie that was issued before.
Begin(r, kind, token) ==
    /\ At(r, "idle") /\ token <= row.token
    /\ req' = [req EXCEPT ![r].pc = "select", ![r].kind = kind, ![r].token = token]
    /\ UNCHANGED <<now, row, version>>

\* resolve_session: the SELECT by token, and the clock.
Select(r) ==
    /\ At(r, "select")
    /\ IF req[r].token # row.token \/ row.revoked THEN Goto(r, "refused")
       ELSE req' = [req EXCEPT ![r] = [@ EXCEPT !.pc = IF Expired(now) THEN "expire" ELSE "user",
                                                !.at = now, !.tv = row.tv, !.vault = row.vault]]
    /\ UNCHANGED <<now, row, version>>

\* _expire_session_if_needed.
Expire(r) ==
    /\ At(r, "expire")
    /\ row' = IF ~row.revoked /\ Expired(req[r].at) THEN [row EXCEPT !.revoked = TRUE, !.tv = @ + 1] ELSE row
    /\ Goto(r, "refused")
    /\ UNCHANGED <<now, version>>

\* The user and the version of their sessions.
User(r) ==
    /\ At(r, "user")
    /\ Goto(r, IF row.version = version THEN "touch" ELSE "refused")
    /\ UNCHANGED <<now, row, version>>

\* What the transaction does to the row that was found live: the deadline slides;
\* a logout revokes it, and a step-up gives it a new token.
Touched(r) ==
    LET slid == [row EXCEPT !.idle = req[r].at + IdleSpan]
    IN CASE req[r].kind = "logout" -> [slid EXCEPT !.revoked = TRUE, !.tv = @ + 1]
         [] req[r].kind = "step-up" -> [slid EXCEPT !.token = @ + 1, !.tv = @ + 1]
         [] OTHER -> slid

Touch(r) ==
    /\ At(r, "touch")
    /\ req[r].kind = "step-up" => row.token < MaxTokens
    /\ IF Live(req[r].at)
       THEN row' = Touched(r) /\ Goto(r, IF req[r].kind = "select" THEN "in" ELSE "done")
       ELSE UNCHANGED row /\ Goto(r, "refused")
    /\ UNCHANGED <<now, version>>

\* set_session_vault, for the row that current_user resolved.
SetSessionVault(r, v) ==
    /\ At(r, "in")
    /\ IF Live(now) /\ row.tv = req[r].tv
       THEN row' = [row EXCEPT !.vault = v, !.tv = @ + 1] /\ Goto(r, "done")
       ELSE UNCHANGED row /\ Goto(r, "refused")
    /\ UNCHANGED <<now, version>>

\* A new password in the configuration (bootstrap of the Owner).
NewPassword ==
    /\ version = 0 /\ version' = 1
    /\ UNCHANGED <<now, row, req>>

Tick ==
    /\ now < MaxTime /\ now' = now + 1
    /\ UNCHANGED <<row, version, req>>

Step(r) ==
    \/ \E kind \in Kinds, token \in 1..MaxTokens : Begin(r, kind, token)
    \/ Select(r) \/ Expire(r) \/ User(r) \/ Touch(r)
    \/ \E v \in Vaults : SetSessionVault(r, v)

Next == (\E r \in Requests : Step(r)) \/ NewPassword \/ Tick

Spec == Init /\ [][Next]_vars

\* A logout or an expiry that is committed wins: no request is let in by a row
\* that was revoked since it was read, no deadline slides, no token is issued
\* and no Vault is selected on it ("must win", resolve_session).
RevocationWins ==
    [][row.revoked => row' = row /\ \A r \in Requests : At(r, "touch") => req'[r].pc \in {"touch", "refused"}]_vars

\* A Vault is selected only over the selection the request has seen, and only
\* with the token it came with: "another process cannot be silently overwritten"
\* (select_vault).
SelectionIsSeen ==
    [][row'.vault # row.vault =>
         \E r \in Requests : At(r, "in") /\ ~At(r, "in")' /\ req[r].vault = row.vault /\ req[r].token = row.token]_vars
=============================================================================
