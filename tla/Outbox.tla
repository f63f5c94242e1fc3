------------------------------- MODULE Outbox -------------------------------
(***************************************************************************)
(* One row of the GitHub outbox and the publishers that deliver it.        *)
(*                                                                         *)
(* publish_coordination_outbox.py is a one-shot process: it reads the row  *)
(* once, keeps that (soon stale) copy, and then alternates SQLite          *)
(* transactions of coordination_store.py with `gh` calls.  Every           *)
(* transaction and every `gh` call is one action here; any number of       *)
(* processes may run at once and each may die between two actions.  An     *)
(* ordinary row may be written at most once; a TERMINAL row (the one that  *)
(* releases an item's capacity) carries a recovery record and may be       *)
(* re-armed after a bounded proof that the marker is absent.               *)
(*                                                                         *)
(* GitHub is external: the comments, the lag of its read model, the        *)
(* credential `gh` uses, and the issue's revision.                         *)
(***************************************************************************)
EXTENDS Integers, FiniteSets, Sequences

CONSTANTS
    Publishers,         \* concurrent runs of publish_coordination_outbox.py
    Logins,             \* GitHub accounts the `gh` credential may belong to
    NoLogin,            \* "no publisher bound"
    Terminal,           \* TRUE: the row belongs to a terminal closeout packet
    ReadbackAttempts,   \* TERMINAL_OUTBOX_READBACK_ATTEMPTS_PER_RETRY
    MaxRetryRounds,     \* TERMINAL_OUTBOX_MAX_RETRY_ROUNDS
    MaxEdits,           \* bound: material edits of the issue
    MaxAlters,          \* bound: comments edited or removed by a person
    MaxAborts           \* bound: publisher runs that die or time out

ASSUME PublishersFinite == IsFiniteSet(Publishers)   \* processes of one host
ASSUME TerminalAssumption == Terminal \in BOOLEAN
ASSUME RetryAssumption == ReadbackAttempts \in Nat \ {0} /\ MaxRetryRounds \in Nat
ASSUME BoundAssumption == MaxEdits \in Nat /\ MaxAlters \in Nat /\ MaxAborts \in Nat
ASSUME LoginAssumption == NoLogin \notin Logins

VARIABLES
    row,        \* github_outbox: [state, receipt]; receipt 0 is NULL
    rec,        \* coordination_terminal_outbox_recovery: [state, attempts, rounds, due]
    bound,      \* coordination_terminal_outbox_publishers.publisher_login
    db,         \* github_current of the issue: revision last ingested
    graphOk,    \* the packet's graph binding is the current one
    posted,     \* GitHub: the comments that carry the marker, in creation order
    edits,      \* GitHub: material edits of the issue
    login,      \* GitHub: the account of the current credential
    pc, loc,    \* per publisher: next step, local variables
    aborts      \* publisher runs lost so far

store == <<row, rec, bound, db, graphOk>>
github == <<posted, edits, login>>
vars == <<store, github, pc, loc, aborts>>

RowStates == {"PREPARED", "INFLIGHT", "HOLD", "COMPLETE"}
Open == {"PREPARED", "INFLIGHT", "HOLD"}
RecoveryStates == {"PENDING", "RETRY_WAIT", "RETRY_READY", "HOLD", "COMPLETE"}
Steps == {"idle", "login", "context", "bind", "holdUnbound", "holdIdentity",
          "scan", "fetch", "ingest", "holdDrift", "reserve", "post",
          "readback", "reconcile", "hold", "miss", "complete", "refuse"}

\* A revision of the issue: what its normalised payload distinguishes.  A new
\* comment changes only `updated_at`; a material edit changes the projection.
Revision == [edits : Nat, comments : Nat]
Admitted == [edits |-> 0, comments |-> 0]
Stamp(r) == r.edits + r.comments            \* source_updated_at

Listed == {i \in DOMAIN posted : posted[i].view # "pending"}
Current == [edits |-> edits, comments |-> Cardinality(Listed)]

\* Mutant: the scan matches the body and forgets the author.
MarkersOfAnyone(author) == {i \in DOMAIN posted : posted[i].view = "listed"}

\* The comments a scan returns: exact body, exact author.
Markers(author) ==
    {i \in DOMAIN posted : posted[i].view = "listed" /\ posted[i].author = author}

\* outbox_source_is_current: the revision the row was enqueued against.  (Its other
\* branch wants an equivalence receipt, and a lineage with a closeout packet has
\* none: Lineage!PacketOnAdmittedSource.)
SourceCurrent(r) == r = Admitted

Locals == [row : RowStates, rec : RecoveryStates, who : Logins \cup {NoLogin},
           orig : Logins \cup {NoLogin}, seen : Revision, hits : SUBSET Nat]

\* The locals of a process that has not started, or has ended.
Blank == [row |-> "PREPARED", rec |-> "PENDING", who |-> NoLogin, orig |-> NoLogin,
          seen |-> Admitted, hits |-> {}]

-----------------------------------------------------------------------------
\* enqueue_comment leaves the row PREPARED.  A terminal row of a database that
\* predates publisher bindings may also be found INFLIGHT and unbound.
Init ==
    /\ \E s \in (IF Terminal THEN {"PREPARED", "INFLIGHT"} ELSE {"PREPARED"}) :
          row = [state |-> s, receipt |-> 0]
    /\ rec = [state |-> "PENDING", attempts |-> 0, rounds |-> 0, due |-> TRUE]
    /\ bound = NoLogin
    /\ db = Admitted
    /\ graphOk = TRUE
    /\ posted = << >>
    /\ edits = 0
    /\ login \in Logins
    /\ pc = [p \in Publishers |-> "idle"]
    /\ loc = [p \in Publishers |-> Blank]
    /\ aborts = 0

Goto(p, step) == pc' = [pc EXCEPT ![p] = step]
Keep == UNCHANGED loc
Exit(p) == Goto(p, "idle") /\ loc' = [loc EXCEPT ![p] = Blank]

\* Mutant: a terminal row on HOLD is refused like an ordinary one.
RouteRefusesHold(v) ==
    CASE v.orig # v.who -> "reconcile"
      [] v.orig = v.who /\ v.row = "PREPARED" -> "fetch"
      [] v.orig = v.who /\ v.row = "INFLIGHT" -> "reconcile"
      [] OTHER -> "refuse"

\* Where publish() goes once the original publisher is known.
Route(v) ==
    CASE v.orig # v.who -> "reconcile"
      [] v.orig = v.who /\ v.row = "PREPARED" ->
            IF Terminal /\ v.rec = "RETRY_READY" THEN "scan" ELSE "fetch"
      [] v.orig = v.who /\ v.row = "INFLIGHT" -> "reconcile"
      [] OTHER -> IF Terminal THEN "reconcile" ELSE "refuse"

-----------------------------------------------------------------------------
(* publish(): reading the row, the credential and the terminal context.    *)

ReadRow(p) ==
    /\ pc[p] = "idle"
    /\ row.state # "COMPLETE"
    /\ loc' = [loc EXCEPT ![p].row = row.state]
    /\ Goto(p, "login")
    /\ UNCHANGED <<store, github, aborts>>

ReadLogin(p) ==
    /\ pc[p] = "login"
    /\ loc' = [loc EXCEPT ![p].who = login]
    /\ Goto(p, "context")
    /\ UNCHANGED <<store, github, aborts>>

ReadContext(p) ==
    /\ pc[p] = "context"
    /\ LET v == [loc[p] EXCEPT !.rec = rec.state,
                               !.orig = IF Terminal THEN bound ELSE loc[p].who]
       IN  /\ loc' = [loc EXCEPT ![p] = v]
           /\ Goto(p, IF Terminal /\ bound = NoLogin
                      THEN IF v.row # "PREPARED" THEN "holdUnbound" ELSE "bind"
                      ELSE Route(v))
    /\ UNCHANGED <<store, github, aborts>>

\* An ordinary row on HOLD is never touched again: OUTBOX_STATE_CONFLICT.
Refuse(p) ==
    /\ pc[p] = "refuse"
    /\ Exit(p)
    /\ UNCHANGED <<store, github, aborts>>

\* bind_terminal_outbox_publisher: the first binding wins and never changes; a
\* loser re-reads it.  The recovery state consulted by Route stays the old one.
Bind(p) ==
    /\ pc[p] = "bind"
    /\ LET v == [loc[p] EXCEPT !.orig = IF bound = NoLogin THEN loc[p].who ELSE bound]
       IN  IF bound = NoLogin
              /\ ~(row.state = "PREPARED" /\ rec.state \in {"PENDING", "RETRY_READY"})
           THEN Exit(p) /\ UNCHANGED bound
           ELSE /\ bound' = v.orig
                /\ loc' = [loc EXCEPT ![p] = v]
                /\ Goto(p, Route(v))
    /\ UNCHANGED <<row, rec, db, graphOk, github, aborts>>

\* hold_terminal_outbox_publisher_identity.  Its precondition on the binding
\* fails the call when another publisher got there first.
HoldIdentity(p) ==
    /\ pc[p] \in {"holdUnbound", "holdIdentity"}
    /\ IF /\ row.state \in Open
          /\ IF pc[p] = "holdUnbound" THEN bound = NoLogin
             ELSE bound # NoLogin /\ bound # loc[p].who
       THEN /\ row' = [row EXCEPT !.state = "HOLD"]
            /\ rec' = [rec EXCEPT !.state = "HOLD"]
       ELSE UNCHANGED <<row, rec>>
    /\ Exit(p)
    /\ UNCHANGED <<bound, db, graphOk, github, aborts>>

-----------------------------------------------------------------------------
(* The write: source check, reservation, POST, direct readback.            *)

\* The last marker scan of a re-armed row.
Scan(p) ==
    /\ pc[p] = "scan"
    /\ LET hits == Markers(loc[p].orig)
       IN  /\ loc' = [loc EXCEPT ![p].hits = hits]
           /\ Goto(p, CASE Cardinality(hits) = 0 -> "fetch"
                        [] Cardinality(hits) = 1 -> "complete"
                        [] OTHER -> "miss")
    /\ UNCHANGED <<store, github, aborts>>

Fetch(p) ==
    /\ pc[p] = "fetch"
    /\ loc' = [loc EXCEPT ![p].seen = Current]
    /\ Goto(p, "ingest")
    /\ UNCHANGED <<store, github, aborts>>

\* ingest_snapshot refuses a revision older than the stored one; then
\* outbox_source_is_current decides on the revision just fetched.
Ingest(p) ==
    /\ pc[p] = "ingest"
    /\ IF Stamp(loc[p].seen) < Stamp(db)
       THEN Exit(p) /\ UNCHANGED db
       ELSE /\ db' = loc[p].seen
            /\ Goto(p, IF SourceCurrent(loc[p].seen) THEN "reserve" ELSE "holdDrift")
            /\ Keep
    /\ UNCHANGED <<row, rec, bound, graphOk, github, aborts>>

\* Mutant: the state guard of hold_outbox's UPDATE is lost.
MayHoldAny == row.state # "HOLD"

MayHold == row.state \in {"PREPARED", "INFLIGHT"}

\* hold_outbox, on source drift or on a failed readback of an ordinary row.
Hold(p) ==
    /\ pc[p] \in {"holdDrift", "hold"}
    /\ IF MayHold
       THEN /\ row' = [row EXCEPT !.state = "HOLD"]
            /\ rec' = IF Terminal THEN [rec EXCEPT !.state = "HOLD"] ELSE rec
       ELSE UNCHANGED <<row, rec>>
    /\ Exit(p)
    /\ UNCHANGED <<bound, db, graphOk, github, aborts>>

\* Mutant: the compare-and-swap on PREPARED is lost.
MayReserveNoCAS == row.state \in Open /\ SourceCurrent(db)

MayReserve ==
    /\ row.state = "PREPARED"
    /\ SourceCurrent(db)
    /\ Terminal => bound # NoLogin /\ graphOk

\* reserve_outbox: PREPARED -> INFLIGHT, source and graph re-checked.
Reserve(p) ==
    /\ pc[p] = "reserve"
    /\ IF MayReserve
       THEN /\ row' = [row EXCEPT !.state = "INFLIGHT"]
            /\ rec' = [rec EXCEPT !.state = IF @ = "RETRY_READY" THEN "PENDING" ELSE @]
            /\ Goto(p, "post") /\ Keep
       ELSE Exit(p) /\ UNCHANGED <<row, rec>>
    /\ UNCHANGED <<bound, db, graphOk, github, aborts>>

\* The POST lands or not; its answer is exact, or is an error or names another
\* author (CoordinationError), which sends the publisher to readback.
Post(p) ==
    /\ pc[p] = "post"
    /\ \/ /\ posted' = Append(posted, [author |-> login, view |-> "pending"])
          /\ loc' = [loc EXCEPT ![p].hits = {Len(posted) + 1}]
          /\ \/ login = loc[p].orig /\ Goto(p, "readback")
             \/ Goto(p, "reconcile")
       \/ Goto(p, "reconcile") /\ UNCHANGED <<posted, loc>>
    /\ UNCHANGED <<store, edits, login, aborts>>

\* GET of the comment just created; a changed body sends it to readback.
ReadBack(p) ==
    /\ pc[p] = "readback"
    /\ Goto(p, IF \E i \in loc[p].hits : posted[i].view = "altered"
               THEN "reconcile" ELSE "complete")
    /\ UNCHANGED <<store, github, loc, aborts>>

-----------------------------------------------------------------------------
(* _complete_from_readback: list the comments, then one transaction.       *)

\* Mutant: the observed credential is not compared with the original.
NeverRotated(v) == FALSE

\* The credential observed at the start is not the bound publisher's.
RotatedCredential(v) == v.who # v.orig

Reconcile(p) ==
    /\ pc[p] = "reconcile"
    /\ LET hits == Markers(loc[p].orig)
       IN  /\ loc' = [loc EXCEPT ![p].hits = hits]
           /\ Goto(p, CASE Cardinality(hits) = 1 -> "complete"
                        [] Cardinality(hits) # 1 /\ ~Terminal -> "hold"
                        [] hits = {} /\ Terminal /\ RotatedCredential(loc[p]) -> "holdIdentity"
                        [] OTHER -> "miss")
    /\ UNCHANGED <<store, github, aborts>>

\* Mutant: a completed row may be completed again.
MayCompleteAgain(v) == IF Terminal THEN bound = v.orig ELSE row.state = "INFLIGHT"

\* complete_outbox needs INFLIGHT; complete_terminal_outbox_from_readback any
\* open row and the bound publisher.
MayComplete(v) ==
    IF Terminal THEN row.state \in Open /\ bound = v.orig ELSE row.state = "INFLIGHT"

Complete(p) ==
    /\ pc[p] = "complete"
    /\ IF MayComplete(loc[p])
       THEN /\ row' = [state |-> "COMPLETE", receipt |-> CHOOSE i \in loc[p].hits : TRUE]
            /\ rec' = IF Terminal THEN [rec EXCEPT !.state = "COMPLETE"] ELSE rec
       ELSE UNCHANGED <<row, rec>>
    /\ Exit(p)
    /\ UNCHANGED <<bound, db, graphOk, github, aborts>>

\* Mutant: the retry rounds are not counted against their ceiling.
RearmsForever(attempts, hits) ==
    hits = {} /\ attempts >= ReadbackAttempts /\ db = Admitted /\ graphOk

\* The bounded absence proof is complete and nothing it rests on has moved.
Rearms(attempts, hits) ==
    /\ hits = {}
    /\ attempts >= ReadbackAttempts
    /\ rec.rounds < MaxRetryRounds
    /\ db = Admitted
    /\ graphOk

\* record_terminal_outbox_readback_miss: counts one absence, and re-arms the
\* row after ReadbackAttempts of them while rounds remain and neither the
\* source nor the graph binding moved.  Only `>= ReadbackAttempts` is ever
\* asked of the counter, so it saturates there; a duplicate also ends the count.
Miss(p) ==
    /\ pc[p] = "miss"
    /\ IF row.state \in Open /\ bound = loc[p].orig /\ rec.state # "COMPLETE" /\ rec.due
       THEN LET attempts == rec.attempts + 1
                rearm == Rearms(attempts, loc[p].hits)
                wait == loc[p].hits = {} /\ attempts < ReadbackAttempts
            IN  /\ row' = [row EXCEPT !.state = IF rearm THEN "PREPARED" ELSE "HOLD"]
                /\ rec' = [state |-> IF rearm THEN "RETRY_READY"
                                     ELSE IF wait THEN "RETRY_WAIT" ELSE "HOLD",
                           attempts |-> IF rearm THEN 0
                                        ELSE IF wait THEN attempts ELSE ReadbackAttempts,
                           rounds |-> rec.rounds + (IF rearm THEN 1 ELSE 0),
                           due |-> rearm]
       ELSE UNCHANGED <<row, rec>>
    /\ Exit(p)
    /\ UNCHANGED <<bound, db, graphOk, github, aborts>>

-----------------------------------------------------------------------------
(* The environment.                                                        *)

\* A run dies, times out, or a `gh` call fails: nothing is rolled back.
Abort(p) ==
    /\ pc[p] # "idle"
    /\ aborts < MaxAborts
    /\ aborts' = aborts + 1
    /\ Exit(p)
    /\ UNCHANGED <<store, github>>

\* GitHub's read model catches up with one comment.
List(i) ==
    /\ posted[i].view = "pending"
    /\ posted' = [posted EXCEPT ![i].view = "listed"]
    /\ UNCHANGED <<store, edits, login, pc, loc, aborts>>

Altered == {i \in DOMAIN posted : posted[i].view = "altered"}

Alter(i) ==
    /\ posted[i].view # "altered"
    /\ Cardinality(Altered) < MaxAlters
    /\ posted' = [posted EXCEPT ![i].view = "altered"]
    /\ UNCHANGED <<store, edits, login, pc, loc, aborts>>

Edit ==
    /\ edits < MaxEdits
    /\ edits' = edits + 1
    /\ UNCHANGED <<store, posted, login, pc, loc, aborts>>

Rotate(l) ==
    /\ l # login
    /\ login' = l
    /\ UNCHANGED <<store, posted, edits, pc, loc, aborts>>

\* next_retry_at passes.
Tick ==
    /\ ~rec.due
    /\ rec' = [rec EXCEPT !.due = TRUE]
    /\ UNCHANGED <<row, bound, db, graphOk, github, pc, loc, aborts>>

GraphChange ==
    /\ Terminal
    /\ graphOk' = ~graphOk
    /\ UNCHANGED <<row, rec, bound, db, github, pc, loc, aborts>>

Step(p) ==
    \/ ReadRow(p) \/ ReadLogin(p) \/ ReadContext(p) \/ Bind(p) \/ HoldIdentity(p)
    \/ Scan(p) \/ Fetch(p) \/ Ingest(p) \/ Hold(p) \/ Reserve(p) \/ Post(p)
    \/ ReadBack(p) \/ Refuse(p) \/ Reconcile(p) \/ Complete(p) \/ Miss(p)

Next ==
    \/ \E p \in Publishers : Step(p) \/ Abort(p)
    \/ \E i \in DOMAIN posted : List(i) \/ Alter(i)
    \/ Edit
    \/ \E l \in Logins : Rotate(l)
    \/ Tick
    \/ GraphChange

Spec == Init /\ [][Next]_vars

-----------------------------------------------------------------------------
Rows == [state : RowStates, receipt : Nat]
Comments == [author : Logins, view : {"pending", "listed", "altered"}]
Recoveries == [state : RecoveryStates, attempts : Nat, rounds : 0..MaxRetryRounds,
               due : BOOLEAN]

TypeOK ==
    /\ row \in Rows
    /\ rec \in Recoveries
    /\ bound \in Logins \cup {NoLogin}
    /\ db \in Revision
    /\ graphOk \in BOOLEAN
    /\ posted \in Seq(Comments)
    /\ edits \in Nat
    /\ login \in Logins
    /\ pc \in [Publishers -> Steps]
    /\ loc \in [Publishers -> Locals]
    /\ aborts \in Nat

\* The row is written at most once per round: one POST, plus one for every
\* re-arm that a bounded absence proof granted (control-plane.md, "write at most
\* once per round"), whatever processes race, die or hold stale copies of the row.
PostsWithinRounds == Len(posted) <= 1 + rec.rounds

\* A COMPLETE row names a comment that exists, and for a terminal row
\* (whose recovery record ends with it) one written by the publisher bound before
\* the first POST, however credentials rotated.
ReceiptIsMarker ==
    row.state = "COMPLETE" =>
        /\ row.receipt \in DOMAIN posted
        /\ rec.state = "COMPLETE" => posted[row.receipt].author = bound

\* Nothing takes a published row back: its receipt is final, and so is a binding.
PublicationFinal ==
    [][/\ row.state = "COMPLETE" => row' = row
       /\ bound # NoLogin => bound' = bound]_vars

\* "Only the original publisher may advance bounded absence attempts": a process
\* that observed another credential never counts an absence nor re-arms the row.
OnlyOriginalRearms ==
    [][\A p \in DOMAIN pc :
         pc[p] = "miss" /\ pc'[p] = "idle" /\ rec' # rec /\ loc[p].hits = {}
            => loc[p].who = bound]_vars

\* Publishers are invoked again while the row is open, a run in progress goes on,
\* and the clock passes next_retry_at.
FairSpec ==
    /\ Spec
    /\ \A p \in Publishers : WF_vars(Step(p))
    /\ WF_vars(Tick)

\* Once the read model shows exactly one marker of the bound publisher, the
\* terminal row is eventually recorded as published: no HOLD, drift, rotated
\* credential or lost run strands it.
MarkerIsRecorded ==
    [](Cardinality(Markers(bound)) = 1 =>
         <>(row.state = "COMPLETE" \/ Cardinality(Markers(bound)) # 1))
=============================================================================
