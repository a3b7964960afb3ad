--------------------------- MODULE CatalogEvents ---------------------------
(***************************************************************************)
(* How a browser learns that the catalog of its Vault has changed: the     *)
(* journal of app/services/catalog_events.py, the event stream and the     *)
(* one-shot catch-up of catalog_event_stream.py and the refresh of cached  *)
(* queries in frontend/src/api/useCatalogEvents.ts.                        *)
(*                                                                         *)
(* A writer commits its change and a journal row together, holding the     *)
(* Vault row, so revisions become visible in order.  A reader of the       *)
(* journal runs two READ COMMITTED statements, and between them others     *)
(* may append or prune.  The hub only wakes streams and holds no state     *)
(* that matters: a stream may look at the journal at any time.             *)
(***************************************************************************)
EXTENDS Integers, Sequences, FiniteSets

CONSTANTS
    Domains,      \* invalidation domains, each with an active query
    Changes,      \* the sets of domains that writers put into an event
    PageLimit,    \* MAX_CATCHUP_EVENTS
    Requests,     \* catch-up requests a browser may have in flight
    MaxRevision,  \* bound: events published
    MaxWire,      \* bound: frames on the way to the browser
    MaxFaults,    \* bound: broken connections, failed requests, reloads
    Prompt        \* TRUE: every fetch ends within CATALOG_REFRESH_MS

ASSUME EventsAssumption ==
    /\ Changes \subseteq SUBSET Domains
    /\ PageLimit \in Nat \ {0}
    /\ MaxRevision \in Nat /\ MaxWire \in Nat \ {0} /\ MaxFaults \in Nat
    /\ Prompt \in BOOLEAN

VARIABLES
    log,       \* log[n]: domains of the event with revision n, pruned or not
    retained,  \* retained_from_revision: older rows are deleted
    stream,    \* the server's side of the event stream
    wire,      \* frames sent and not yet received
    asked,     \* the catch-up requests
    last,      \* lastRevisionRef of the browser
    pending,   \* domains of pendingSignal, {} when there is none
    cooldown,  \* whether refreshTimer is armed
    query,     \* the cached query of each domain
    faults     \* how many of those faults have happened

vars == <<log, retained, stream, wire, asked, last, pending, cooldown, query,
          faults>>

Revisions == 0..MaxRevision

\* A signal answers a reader whose cursor was from.
Signal == [from: Revisions, rev: Revisions, dom: SUBSET Domains, gap: BOOLEAN]

Frame == [name: {"hello", "catalog"}, sig: Signal]

NoSignal == [from |-> 0, rev |-> 0, dom |-> {}, gap |-> FALSE]

\* A stream reads the journal (state, then page) from its cursor last_seen.
Stream == [pc: {"none", "idle", "read"}, greeted: BOOLEAN, after: Revisions,
           cur: Revisions, ret: 1..(MaxRevision + 1)]

NoStream == [pc |-> "none", greeted |-> FALSE, after |-> 0, cur |-> 0,
             ret |-> 1]

Request == [pc: {"none", "sent", "read", "answered"}, after: Revisions,
            cur: Revisions, ret: 1..(MaxRevision + 1), sig: Signal]

NoRequest == [pc |-> "none", after |-> 0, cur |-> 0, ret |-> 1,
              sig |-> NoSignal]

\* shown: the revision its data reflects; snap: the one its fetch has read.
Query == [shown: Revisions, fetch: {"idle", "sent", "read"}, snap: Revisions,
          failed: BOOLEAN]

\* A page that has just been loaded fetches everything.
Loading == [d \in Domains |-> [shown |-> 0, fetch |-> "sent", snap |-> 0,
                               failed |-> FALSE]]

TypeOK ==
    /\ log \in Seq(SUBSET Domains) /\ Len(log) <= MaxRevision
    /\ retained \in 1..(Len(log) + 1)
    /\ stream \in Stream
    /\ wire \in Seq(Frame) /\ Len(wire) <= MaxWire + 1
    /\ asked \in [Requests -> Request]
    /\ last \in 0..Len(log)
    /\ pending \in SUBSET Domains
    /\ cooldown \in BOOLEAN
    /\ query \in [Domains -> Query]
    /\ faults \in 0..MaxFaults

Init ==
    /\ log = <<>>
    /\ retained = 1
    /\ stream = NoStream
    /\ wire = <<>>
    /\ asked = [r \in Requests |-> NoRequest]
    /\ last = 0
    /\ pending = {}
    /\ cooldown = FALSE
    /\ query = Loading
    /\ faults = 0

Larger(m, n) == IF m >= n THEN m ELSE n

-----------------------------------------------------------------------------
(* The journal.                                                            *)

\* record_catalog_revision, committed with the change it describes.
Publish(dom) ==
    /\ Len(log) < MaxRevision
    /\ log' = Append(log, dom)
    /\ UNCHANGED <<retained, stream, wire, asked, last, pending, cooldown,
                   query, faults>>

\* Mutant: the bound on retain_from_revision is forgotten.
PruneFuture(n) ==
    /\ retained' = Larger(retained, n)
    /\ UNCHANGED <<log, stream, wire, asked, last, pending, cooldown, query,
                   faults>>

\* prune_events with retain_from_revision = n.
Prune(n) ==
    /\ n <= Len(log) + 1
    /\ retained' = Larger(retained, n)
    /\ UNCHANGED <<log, stream, wire, asked, last, pending, cooldown, query,
                   faults>>

\* The rows of the journal that follow a revision.
Rows(after) == {n \in (after + 1)..Len(log) : n >= retained}

InvalidateAll(after, cur) ==
    [from |-> after, rev |-> cur, dom |-> Domains, gap |-> TRUE]

Quiet(after, cur) == [from |-> after, rev |-> cur, dom |-> {}, gap |-> FALSE]

\* Mutant: the deleted part of a page is not noticed.
CatchUpSkipping(after, cur, ret) ==
    CASE after >= cur /\ after >= ret - 1 -> Quiet(after, cur)
      [] after < ret - 1 -> InvalidateAll(after, cur)
      [] OTHER ->
           IF Rows(after) = {} \/ Cardinality(Rows(after)) > PageLimit
           THEN InvalidateAll(after, cur)
           ELSE [from |-> after, rev |-> Len(log), gap |-> FALSE,
                 dom |-> UNION {log[n] : n \in Rows(after)}]


\* coalesced_catchup_from_connection, with revision cur and retention ret from
\* its first statement and the page of its second one.
CatchUp(after, cur, ret) ==
    LET rows == Rows(after)
        expected == Larger(after + 1, ret)
        complete == expected \in rows /\ Cardinality(rows) <= PageLimit
    IN  CASE after >= cur /\ after >= ret - 1 -> Quiet(after, cur)
          [] after < ret - 1                  -> InvalidateAll(after, cur)
          [] OTHER -> IF complete
                      THEN [from |-> after, rev |-> Len(log), gap |-> FALSE,
                            dom |-> UNION {log[n] : n \in rows}]
                      ELSE InvalidateAll(after, cur)

-----------------------------------------------------------------------------
(* The event stream: stream_tick_snapshot and iter_catalog_event_sse.      *)

StreamReadState ==
    /\ stream.pc = "idle"
    /\ Len(wire) < MaxWire
    /\ stream' = [stream EXCEPT !.pc = "read", !.cur = Len(log),
                                !.ret = retained]
    /\ UNCHANGED <<log, retained, wire, asked, last, pending, cooldown, query,
                   faults>>

\* The page, then the frames: hello on the first tick, a catalog frame when
\* there is something new.
StreamReadPage ==
    LET sig == CatchUp(stream.after, stream.cur, stream.ret)
        news == sig.rev > stream.after \/ sig.gap
        hello == IF stream.greeted THEN <<>>
                 ELSE <<[name |-> "hello", sig |-> Quiet(stream.after, sig.rev)]>>
        catalog == IF news THEN <<[name |-> "catalog", sig |-> sig]>> ELSE <<>>
    IN  /\ stream.pc = "read"
        /\ wire' = wire \o hello \o catalog
        /\ stream' = [NoStream EXCEPT
                        !.pc = "idle", !.greeted = TRUE,
                        !.after = Larger(stream.after, sig.rev)]
        /\ UNCHANGED <<log, retained, asked, last, pending, cooldown, query,
                       faults>>

\* connect: a new stream resumes from the revision of the browser.
Connect ==
    /\ stream.pc = "none"
    /\ stream' = [NoStream EXCEPT !.pc = "idle", !.after = last]
    /\ UNCHANGED <<log, retained, wire, asked, last, pending, cooldown, query,
                   faults>>

\* The connection breaks or the server stops; frames on the way are lost.
Break ==
    /\ stream.pc # "none"
    /\ faults < MaxFaults
    /\ faults' = faults + 1
    /\ stream' = NoStream
    /\ wire' = <<>>
    /\ UNCHANGED <<log, retained, asked, last, pending, cooldown, query>>

-----------------------------------------------------------------------------
(* The browser.                                                            *)

\* invalidateForSignal: a query that is being fetched is left alone.
Invalidated(dom) ==
    [d \in Domains |-> IF d \in dom /\ query[d].fetch = "idle"
                       THEN [query[d] EXCEPT !.fetch = "sent"]
                       ELSE query[d]]

\* flush of a batch: it is kept when one of its queries was busy, because that
\* answer may be older than the event.
Flush(dom) ==
    /\ query' = Invalidated(dom)
    /\ pending' = IF \E d \in dom : query[d].fetch # "idle" THEN dom ELSE {}
    /\ cooldown' = TRUE

\* applySignal: repeated revisions are dropped unless they report a gap.
ApplySignal(sig) ==
    IF ~sig.gap /\ sig.rev <= last
    THEN UNCHANGED <<last, pending, cooldown, query>>
    ELSE /\ last' = Larger(last, sig.rev)
         /\ IF cooldown
            THEN /\ pending' = pending \cup sig.dom
                 /\ UNCHANGED <<cooldown, query>>
            ELSE Flush(pending \cup sig.dom)

\* onHello and onCatalog.
Deliver ==
    /\ wire # <<>>
    /\ wire' = Tail(wire)
    /\ IF Head(wire).name = "hello"
       THEN UNCHANGED <<last, pending, cooldown, query>>
       ELSE ApplySignal(Head(wire).sig)
    /\ UNCHANGED <<log, retained, stream, asked, faults>>

\* Mutant: the cooldown ends without a look at the batch that has gathered.
TimerFiresOnce ==
    /\ cooldown
    /\ cooldown' = FALSE
    /\ UNCHANGED <<log, retained, stream, wire, asked, last, pending, query,
                   faults>>

\* refreshTimer runs flush: the end of the cooldown, or the next batch.
TimerFires ==
    /\ cooldown
    /\ Prompt => \A d \in Domains : query[d].fetch = "idle"
    /\ IF pending = {} THEN cooldown' = FALSE /\ UNCHANGED <<pending, query>>
       ELSE Flush(pending)
    /\ UNCHANGED <<log, retained, stream, wire, asked, last, faults>>

\* catchUp on focus, visibility or return of the network.
Ask(r) ==
    /\ asked[r].pc = "none"
    /\ asked' = [asked EXCEPT ![r] = [NoRequest EXCEPT !.pc = "sent",
                                                       !.after = last]]
    /\ UNCHANGED <<log, retained, stream, wire, last, pending, cooldown, query,
                   faults>>

AskReadState(r) ==
    /\ asked[r].pc = "sent"
    /\ asked' = [asked EXCEPT ![r].pc = "read", ![r].cur = Len(log),
                              ![r].ret = retained]
    /\ UNCHANGED <<log, retained, stream, wire, last, pending, cooldown, query,
                   faults>>

\* catalog_revision_snapshot answers.
AskReadPage(r) ==
    LET a == asked[r]
    IN  /\ a.pc = "read"
        /\ asked' = [asked EXCEPT ![r] =
                       [NoRequest EXCEPT !.pc = "answered", !.after = a.after,
                                         !.sig = CatchUp(a.after, a.cur, a.ret)]]
        /\ UNCHANGED <<log, retained, stream, wire, last, pending, cooldown,
                       query, faults>>

\* Answers arrive in any order, between any two frames of the stream.
Answered(r) ==
    LET sig == asked[r].sig
        changed == sig.gap \/ sig.rev > asked[r].after
    IN  /\ asked[r].pc = "answered"
        /\ asked' = [asked EXCEPT ![r] = NoRequest]
        /\ IF changed THEN ApplySignal(sig)
           ELSE /\ last' = Larger(last, sig.rev)
                /\ UNCHANGED <<pending, cooldown, query>>
        /\ UNCHANGED <<log, retained, stream, wire, faults>>

\* The request fails: nothing is done until the next focus.
AskFails(r) ==
    /\ asked[r].pc # "none"
    /\ faults < MaxFaults
    /\ faults' = faults + 1
    /\ asked' = [asked EXCEPT ![r] = NoRequest]
    /\ UNCHANGED <<log, retained, stream, wire, last, pending, cooldown, query>>

\* The server answers the fetch of a query from the catalog as it is now.
QueryRead(d) ==
    /\ query[d].fetch = "sent"
    /\ query' = [query EXCEPT ![d].fetch = "read", ![d].snap = Len(log)]
    /\ UNCHANGED <<log, retained, stream, wire, asked, last, pending, cooldown,
                   faults>>

QueryDone(d) ==
    /\ query[d].fetch = "read"
    /\ query' = [query EXCEPT ![d] = [shown |-> query[d].snap, fetch |-> "idle",
                                      snap |-> 0, failed |-> FALSE]]
    /\ UNCHANGED <<log, retained, stream, wire, asked, last, pending, cooldown,
                   faults>>

\* Queries are not retried: the page shows the failure until the next signal.
QueryFails(d) ==
    /\ query[d].fetch # "idle"
    /\ faults < MaxFaults
    /\ faults' = faults + 1
    /\ query' = [query EXCEPT ![d].fetch = "idle", ![d].snap = 0,
                              ![d].failed = TRUE]
    /\ UNCHANGED <<log, retained, stream, wire, asked, last, pending, cooldown>>

\* The session or its Vault has changed: the document is loaded again.
SessionChanged ==
    /\ faults < MaxFaults
    /\ faults' = faults + 1
    /\ stream' = NoStream
    /\ wire' = <<>>
    /\ asked' = [r \in Requests |-> NoRequest]
    /\ last' = 0
    /\ pending' = {}
    /\ cooldown' = FALSE
    /\ query' = Loading
    /\ UNCHANGED <<log, retained>>

-----------------------------------------------------------------------------
Next ==
    \/ \E dom \in Changes : Publish(dom)
    \/ \E n \in 1..(MaxRevision + 1) : Prune(n)
    \/ StreamReadState \/ StreamReadPage
    \/ Connect \/ Break \/ Deliver \/ TimerFires \/ SessionChanged
    \/ \E r \in Requests : \/ Ask(r) \/ AskReadState(r) \/ AskReadPage(r)
                           \/ Answered(r) \/ AskFails(r)
    \/ \E d \in Domains : QueryRead(d) \/ QueryDone(d) \/ QueryFails(d)

Spec == Init /\ [][Next]_vars

\* A stream keeps polling the journal and a browser keeps reconnecting, its
\* timer fires and its fetches are answered.  Nobody has to focus the page.
Fairness ==
    /\ WF_vars(StreamReadState) /\ WF_vars(StreamReadPage)
    /\ WF_vars(Connect) /\ WF_vars(Deliver) /\ WF_vars(TimerFires)
    /\ \A d \in Domains : WF_vars(QueryRead(d)) /\ WF_vars(QueryDone(d))

FairSpec == Spec /\ Fairness

-----------------------------------------------------------------------------
(* Properties.                                                             *)

\* Whether the query of d shows event n, or is bound to: a fetch that has not
\* been answered or was answered after the event, a batch that is waiting, or
\* a failure the page shows.
Accounted(d, n) ==
    \/ query[d].shown >= n
    \/ query[d].fetch = "sent"
    \/ query[d].fetch = "read" /\ query[d].snap >= n
    \/ query[d].failed
    \/ d \in pending

\* Every event up to the browser's cursor reaches the query it concerns, in
\* spite of coalescing, bounded pages, rows pruned between two statements,
\* lost frames, late answers and the cooldown.  applySignal drops what is not
\* above the cursor, so an event missed below it would never be shown.
NothingMissed ==
    \A n \in 1..last : \A d \in log[n] : Accounted(d, n)

\* A change of a domain is finally shown by a page that stays open, or the page
\* shows that its request failed.
ChangesAreShown ==
    \A d \in Domains, n \in 1..MaxRevision :
        (n <= Len(log) /\ d \in log[n])
            ~> (query[d].shown >= n \/ query[d].failed)

\* When the catalog stops changing, the page stops fetching ("No idle polling:
\* the stream (plus focus/online catch-up) drives refreshes"): no signal is
\* repeated for ever, also when the journal has been pruned to nothing.
RefreshEnds ==
    <>[](pending = {} /\ \A d \in Domains : query[d].fetch = "idle")
=============================================================================
