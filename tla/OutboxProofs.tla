---------------------------- MODULE OutboxProofs ----------------------------
(***************************************************************************)
(* Proofs about Outbox for every number of publishers, accounts, readback  *)
(* attempts and retry rounds.                                              *)
(***************************************************************************)
EXTENDS Outbox, FiniteSetTheorems, SequenceTheorems, TLAPS

\* The processes that hold a reservation and have not yet sent their POST.
Posters == {p \in Publishers : pc[p] = "post"}

\* Inductive form of PostsWithinRounds: every reservation still to be used is
\* already paid for, and a PREPARED row has no credit left but its rounds.
PostBudget ==
    Len(posted) + Cardinality(Posters)
        <= rec.rounds + (IF row.state = "PREPARED" THEN 0 ELSE 1)

\* What a process about to complete the row holds: comments that exist, written
\* by the publisher it acts for.
HitsAreMarkers ==
    \A p \in Publishers : pc[p] \in {"readback", "complete"} =>
        /\ loc[p].hits # {}
        /\ \A i \in loc[p].hits : i \in DOMAIN posted /\ posted[i].author = loc[p].orig

\* A publisher comes to count an absence only with the credential it acts for.
AbsencesAreOwn ==
    \A p \in Publishers : pc[p] = "miss" /\ loc[p].hits = {} => loc[p].who = loc[p].orig

BudgetInv == TypeOK /\ PostBudget

\* ReceiptIsMarker with the kind of the row in place of its recovery record.
ReceiptOfKind ==
    row.state = "COMPLETE" =>
        /\ row.receipt \in DOMAIN posted
        /\ Terminal => posted[row.receipt].author = bound

\* Only a terminal row has a recovery record that can end.
RecoveryOfTerminal == rec.state = "COMPLETE" => Terminal

ReceiptInv == TypeOK /\ HitsAreMarkers /\ ReceiptOfKind /\ RecoveryOfTerminal

-----------------------------------------------------------------------------
LEMMA RouteType ==
    ASSUME NEW v
    PROVE  Route(v) \in {"reconcile", "scan", "fetch", "refuse"}
BY DEF Route

LEMMA CurrentType == TypeOK => Current \in Revision
<1>. SUFFICES ASSUME TypeOK PROVE Current \in Revision
  OBVIOUS
<1>1. IsFiniteSet(Listed)
  <2>1. DOMAIN posted = 1..Len(posted) /\ Len(posted) \in Nat
    BY DEF TypeOK
  <2>2. IsFiniteSet(1..Len(posted))
    BY <2>1, FS_Interval
  <2>. QED BY <2>1, <2>2, FS_Subset DEF Listed
<1>2. Cardinality(Listed) \in Nat
  BY <1>1, FS_CardinalityType
<1>. QED BY <1>2 DEF TypeOK, Current, Revision

LEMMA PostedElement ==
    ASSUME TypeOK, NEW i \in DOMAIN posted
    PROVE  posted[i] \in Comments
<1>1. posted \in Seq(Comments)
  BY DEF TypeOK
<1>2. i \in 1..Len(posted)
  BY <1>1
<1>. QED BY <1>1, <1>2, ElementOfSeq

LEMMA MarkersType ==
    ASSUME TypeOK, NEW a
    PROVE  /\ Markers(a) \subseteq DOMAIN posted
           /\ Markers(a) \subseteq Nat
           /\ \A i \in Markers(a) : posted[i].author = a
BY DEF Markers, TypeOK

LEMMA SingletonNonempty ==
    ASSUME NEW S, Cardinality(S) = 1
    PROVE  S # {}
BY FS_EmptySet

LEMMA InitType == Init => TypeOK
BY TerminalAssumption, RetryAssumption, LoginAssumption
   DEF Init, TypeOK, Rows, Recoveries, Locals, Blank, Admitted, Revision, RowStates,
       RecoveryStates, Steps

LEMMA BlankType == Blank \in Locals
BY DEF Blank, Locals, RowStates, RecoveryStates, Revision, Admitted

\* A step of one publisher: its new locals, its next step, and the row and
\* recovery records it leaves are all that its type-correctness depends on.
LEMMA TypeFrame ==
    ASSUME TypeOK, NEW p \in Publishers, NEW v \in Locals, NEW s \in Steps,
           loc' = [loc EXCEPT ![p] = v], pc' = [pc EXCEPT ![p] = s],
           row' \in Rows, rec' \in Recoveries, bound' \in Logins \cup {NoLogin},
           db' \in Revision, UNCHANGED <<graphOk, edits, login, aborts>>,
           posted' \in Seq(Comments)
    PROVE  TypeOK'
BY DEF TypeOK

LEMMA StepType ==
    ASSUME TypeOK, HitsAreMarkers, NEW p \in Publishers, Step(p)
    PROVE  TypeOK'
<1>. USE DEF Goto, Keep, Exit, store, github
<1>0. loc[p] \in Locals /\ row \in Rows /\ rec \in Recoveries /\ login \in Logins
      /\ bound \in Logins \cup {NoLogin} /\ db \in Revision
      /\ posted \in Seq(Comments)
  BY DEF TypeOK
<1>1. CASE ReadRow(p)
  <2>1. [loc[p] EXCEPT !.row = row.state] \in Locals
    BY <1>0 DEF Locals, Rows
  <2>2. "login" \in Steps
    BY DEF Steps
  <2>. QED BY <1>0, <1>1, <2>1, <2>2, TypeFrame DEF ReadRow
<1>2. CASE ReadLogin(p)
  <2>1. [loc[p] EXCEPT !.who = login] \in Locals
    BY <1>0 DEF Locals
  <2>2. "context" \in Steps
    BY DEF Steps
  <2>. QED BY <1>0, <1>2, <2>1, <2>2, TypeFrame DEF ReadLogin
<1>3. CASE ReadContext(p)
  <2>. DEFINE v == [loc[p] EXCEPT !.rec = rec.state,
                                  !.orig = IF Terminal THEN bound ELSE loc[p].who]
              s == IF Terminal /\ bound = NoLogin
                   THEN IF v.row # "PREPARED" THEN "holdUnbound" ELSE "bind"
                   ELSE Route(v)
  <2>1. s \in Steps
    BY RouteType DEF Steps
  <2>2. loc' = [loc EXCEPT ![p] = v] /\ pc' = [pc EXCEPT ![p] = s]
        /\ UNCHANGED <<row, rec, bound, db, graphOk, posted, edits, login, aborts>>
    BY <1>3 DEF ReadContext
  <2>3. v \in Locals
    BY <1>0 DEF Locals, Recoveries
  <2>. HIDE DEF v, s
  <2>. QED BY <1>0, <2>1, <2>2, <2>3, TypeFrame
<1>4. CASE Bind(p)
  <2>. DEFINE v == [loc[p] EXCEPT !.orig = IF bound = NoLogin THEN loc[p].who ELSE bound]
  <2>1. CASE Exit(p) /\ UNCHANGED bound
    <3>1. "idle" \in Steps
      BY DEF Steps
    <3>. QED BY <1>0, <1>4, <2>1, <3>1, BlankType, TypeFrame DEF Bind
  <2>2. CASE bound' = v.orig /\ loc' = [loc EXCEPT ![p] = v] /\ Goto(p, Route(v))
    <3>1. Route(v) \in Steps
      BY RouteType DEF Steps
    <3>2. v \in Locals /\ v.orig \in Logins \cup {NoLogin}
      BY <1>0 DEF Locals
    <3>3. UNCHANGED <<row, rec, db, graphOk, posted, edits, login, aborts>>
      BY <1>4 DEF Bind
    <3>4. pc' = [pc EXCEPT ![p] = Route(v)] /\ bound' = v.orig /\ loc' = [loc EXCEPT ![p] = v]
      BY <2>2
    <3>. HIDE DEF v
    <3>. QED BY <1>0, <3>1, <3>2, <3>3, <3>4, TypeFrame
  <2>. QED BY <1>4, <2>1, <2>2 DEF Bind
<1>5. CASE HoldIdentity(p)
  <2>1. row' \in Rows /\ rec' \in Recoveries
    BY <1>0, <1>5 DEF HoldIdentity, Rows, Recoveries, RowStates, RecoveryStates
  <2>2. "idle" \in Steps
    BY DEF Steps
  <2>. QED BY <1>0, <1>5, <2>1, <2>2, BlankType, TypeFrame DEF HoldIdentity
<1>6. CASE Scan(p)
  <2>1. [loc[p] EXCEPT !.hits = Markers(loc[p].orig)] \in Locals
    BY <1>0, MarkersType DEF Locals
  <2>2. {"fetch", "complete", "miss"} \subseteq Steps
    BY DEF Steps
  <2>3. \E s \in Steps : pc' = [pc EXCEPT ![p] = s]
    BY <1>6, <2>2 DEF Scan
  <2>. QED BY <1>0, <1>6, <2>1, <2>3, TypeFrame DEF Scan
<1>7. CASE Fetch(p)
  <2>1. [loc[p] EXCEPT !.seen = Current] \in Locals
    BY <1>0, CurrentType DEF Locals
  <2>2. "ingest" \in Steps
    BY DEF Steps
  <2>. QED BY <1>0, <1>7, <2>1, <2>2, TypeFrame DEF Fetch
<1>8. CASE Ingest(p)
  <2>1. {"idle", "reserve", "holdDrift"} \subseteq Steps
    BY DEF Steps
  <2>2. db' \in Revision
    BY <1>0, <1>8 DEF Ingest, Locals
  <2>3. \E v \in Locals, s \in Steps : loc' = [loc EXCEPT ![p] = v] /\ pc' = [pc EXCEPT ![p] = s]
    <3>1. loc = [loc EXCEPT ![p] = loc[p]]
      BY DEF TypeOK
    <3>2. CASE Exit(p)
      BY <3>2, <2>1, BlankType
    <3>3. CASE Keep /\ pc' = [pc EXCEPT ![p] = IF SourceCurrent(loc[p].seen)
                                              THEN "reserve" ELSE "holdDrift"]
      BY <3>1, <3>3, <2>1, <1>0
    <3>. QED BY <1>8, <3>2, <3>3 DEF Ingest
  <2>. QED BY <1>0, <1>8, <2>2, <2>3, TypeFrame DEF Ingest
<1>9. CASE Hold(p)
  <2>1. row' \in Rows /\ rec' \in Recoveries
    BY <1>0, <1>9 DEF Hold, Rows, Recoveries, RowStates, RecoveryStates
  <2>2. "idle" \in Steps
    BY DEF Steps
  <2>. QED BY <1>0, <1>9, <2>1, <2>2, BlankType, TypeFrame DEF Hold
<1>10. CASE Reserve(p)
  <2>1. row' \in Rows /\ rec' \in Recoveries
    BY <1>0, <1>10 DEF Reserve, Rows, Recoveries, RowStates, RecoveryStates
  <2>2. {"idle", "post"} \subseteq Steps
    BY DEF Steps
  <2>3. loc = [loc EXCEPT ![p] = loc[p]]
    BY DEF TypeOK
  <2>4. \E v \in Locals, s \in Steps : loc' = [loc EXCEPT ![p] = v] /\ pc' = [pc EXCEPT ![p] = s]
    BY <1>0, <1>10, <2>2, <2>3, BlankType DEF Reserve
  <2>. QED BY <1>0, <1>10, <2>1, <2>4, TypeFrame DEF Reserve
<1>11. CASE Post(p)
  <2>1. {"readback", "reconcile"} \subseteq Steps
    BY DEF Steps
  <2>2. posted' \in Seq(Comments)
    <3>1. [author |-> login, view |-> "pending"] \in Comments
      BY <1>0 DEF Comments
    <3>2. Append(posted, [author |-> login, view |-> "pending"])
             \in Seq(Comments)
      BY <1>0, <3>1
    <3>. QED BY <1>0, <1>11, <3>2 DEF Post
  <2>3. loc = [loc EXCEPT ![p] = loc[p]]
    BY DEF TypeOK
  <2>4. [loc[p] EXCEPT !.hits = {Len(posted) + 1}] \in Locals
    BY <1>0 DEF Locals
  <2>5. \E v \in Locals, s \in Steps : loc' = [loc EXCEPT ![p] = v] /\ pc' = [pc EXCEPT ![p] = s]
    BY <1>0, <1>11, <2>1, <2>3, <2>4 DEF Post
  <2>. QED BY <1>0, <1>11, <2>2, <2>5, TypeFrame DEF Post
<1>12. CASE ReadBack(p)
  <2>1. {"complete", "reconcile"} \subseteq Steps
    BY DEF Steps
  <2>. QED BY <1>0, <1>12, <2>1 DEF ReadBack, TypeOK
<1>13. CASE Refuse(p)
  <2>1. "idle" \in Steps
    BY DEF Steps
  <2>. QED BY <1>0, <1>13, <2>1, BlankType, TypeFrame DEF Refuse
<1>14. CASE Reconcile(p)
  <2>1. [loc[p] EXCEPT !.hits = Markers(loc[p].orig)] \in Locals
    BY <1>0, MarkersType DEF Locals
  <2>2. {"complete", "hold", "holdIdentity", "miss"} \subseteq Steps
    BY DEF Steps
  <2>3. \E s \in Steps : pc' = [pc EXCEPT ![p] = s]
    BY <1>14, <2>2 DEF Reconcile
  <2>. QED BY <1>0, <1>14, <2>1, <2>3, TypeFrame DEF Reconcile
<1>15. CASE Complete(p)
  <2>1. row' \in Rows /\ rec' \in Recoveries
    <3>1. CASE MayComplete(loc[p])
      <4>1. (CHOOSE i \in loc[p].hits : TRUE) \in Nat
        BY <1>0, <1>15 DEF Complete, HitsAreMarkers, Locals
      <4>2. PICK n \in Nat : row' = [state |-> "COMPLETE", receipt |-> n]
        BY <1>15, <3>1, <4>1, Zenon DEF Complete
      <4>3. rec' \in Recoveries
        BY <1>0, <1>15, <3>1 DEF Complete, Recoveries, RecoveryStates
      <4>. QED BY <4>2, <4>3 DEF Rows, RowStates
    <3>. QED BY <1>0, <1>15, <3>1 DEF Complete
  <2>2. "idle" \in Steps
    BY DEF Steps
  <2>. QED BY <1>0, <1>15, <2>1, <2>2, BlankType, TypeFrame DEF Complete
<1>16. CASE Miss(p)
  <2>1. row' \in Rows
    BY <1>0, <1>16 DEF Miss, Rows, RowStates
  <2>2. rec' \in Recoveries
    <3>1. CASE UNCHANGED rec
      BY <1>0, <3>1
    <3>2. CASE rec' # rec
      <4>1. rec'.attempts \in Nat /\ rec'.state \in RecoveryStates
        BY <1>0, <1>16, <3>2, RetryAssumption DEF Miss, Recoveries, RecoveryStates
      <4>2. rec'.rounds \in 0..MaxRetryRounds
        BY <1>0, <1>16, <3>2, RetryAssumption DEF Miss, Rearms, Recoveries
      <4>3. rec'.due \in BOOLEAN
        <5>1. PICK b \in BOOLEAN : b = Rearms(rec.attempts + 1, loc[p].hits)
          BY Zenon DEF Rearms
        <5>2. rec'.due = b
          BY <1>16, <3>2, <5>1 DEF Miss
        <5>. QED BY <5>2
      <4>4. rec' = [state |-> rec'.state, attempts |-> rec'.attempts,
                    rounds |-> rec'.rounds, due |-> rec'.due]
        BY <1>16, <3>2 DEF Miss
      <4>. QED BY <4>1, <4>2, <4>3, <4>4 DEF Recoveries
    <3>. QED BY <3>1, <3>2
  <2>3. "idle" \in Steps
    BY DEF Steps
  <2>. QED BY <1>0, <1>16, <2>1, <2>2, <2>3, BlankType, TypeFrame DEF Miss
<1>. QED BY <1>1, <1>2, <1>3, <1>4, <1>5, <1>6, <1>7, <1>8, <1>9, <1>10, <1>11,
            <1>12, <1>13, <1>14, <1>15, <1>16 DEF Step

\* The environment keeps the types: GitHub, the clock, and lost runs.
LEMMA EnvironmentType ==
    ASSUME TypeOK,
           \/ \E p \in Publishers : Abort(p)
           \/ \E i \in DOMAIN posted : List(i) \/ Alter(i)
           \/ Edit
           \/ \E l \in Logins : Rotate(l)
           \/ Tick \/ GraphChange
    PROVE  TypeOK'
<1>. USE DEF store, github
<1>1. ASSUME NEW p \in Publishers, Abort(p) PROVE TypeOK'
  BY <1>1, BlankType DEF Abort, Exit, Goto, TypeOK, Steps
<1>2. ASSUME NEW i \in DOMAIN posted, List(i) \/ Alter(i) PROVE TypeOK'
  <2>1. posted' \in Seq(Comments)
    <3>1. posted \in Seq(Comments)
      BY DEF TypeOK
    <3>2. \A x \in {"listed", "altered"} : [posted[i] EXCEPT !.view = x] \in Comments
      BY PostedElement DEF Comments
    <3>3. PICK x \in {"listed", "altered"} :
             posted' = [posted EXCEPT ![i] = [posted[i] EXCEPT !.view = x]]
      BY <1>2 DEF List, Alter
    <3>4. PICK c \in Comments : posted' = [posted EXCEPT ![i] = c]
      BY <3>2, <3>3
    <3>0. i \in 1..Len(posted)
      BY <3>1
    <3>. QED BY <3>0, <3>1, <3>4, ExceptSeq
  <2>. QED BY <1>2, <2>1 DEF List, Alter, TypeOK
<1>3. CASE Edit
  BY <1>3 DEF Edit, TypeOK
<1>4. ASSUME NEW l \in Logins, Rotate(l) PROVE TypeOK'
  BY <1>4 DEF Rotate, TypeOK
<1>5. CASE Tick
  BY <1>5 DEF Tick, TypeOK, Recoveries
<1>6. CASE GraphChange
  BY <1>6 DEF GraphChange, TypeOK
<1>. QED BY <1>1, <1>2, <1>3, <1>4, <1>5, <1>6

-----------------------------------------------------------------------------
(* The receipt of a completed row.                                          *)

\* The comments only grow, and nobody changes who wrote one.
LEMMA PostedGrows ==
    ASSUME TypeOK, Next
    PROVE  \A i \in DOMAIN posted : i \in DOMAIN posted' /\ posted'[i].author = posted[i].author
<1>1. ASSUME NEW p \in Publishers, Post(p)
      PROVE \A i \in DOMAIN posted : i \in DOMAIN posted' /\ posted'[i].author = posted[i].author
  <2>1. posted \in Seq(Comments)
    BY DEF TypeOK
  <2>2. posted' = posted \/ posted' = Append(posted, [author |-> login, view |-> "pending"])
    BY <1>1 DEF Post
  <2>. QED BY <2>1, <2>2
<1>2. ASSUME NEW j \in DOMAIN posted, List(j) \/ Alter(j)
      PROVE \A i \in DOMAIN posted : i \in DOMAIN posted' /\ posted'[i].author = posted[i].author
  <2>2. posted[j] \in Comments
    BY PostedElement
  <2>3. PICK x : posted' = [posted EXCEPT ![j] = [posted[j] EXCEPT !.view = x]]
    BY <1>2 DEF List, Alter
  <2>4. [posted[j] EXCEPT !.view = x].author = posted[j].author
    BY <2>2 DEF Comments
  <2>5. DOMAIN posted' = DOMAIN posted
    BY <2>3
  <2>. QED BY <2>3, <2>4, <2>5
<1>3. ASSUME UNCHANGED posted
      PROVE \A i \in DOMAIN posted : i \in DOMAIN posted' /\ posted'[i].author = posted[i].author
  BY <1>3
<1>4. ASSUME NEW p \in Publishers, Step(p) \/ Abort(p), ~Post(p)
      PROVE UNCHANGED posted
  BY <1>4 DEF Step, Abort, ReadRow, ReadLogin, ReadContext, Refuse, Bind, HoldIdentity, Scan,
              Fetch, Ingest, Hold, Reserve, ReadBack, Reconcile, Complete, Miss, github
<1>. QED BY <1>1, <1>2, <1>3, <1>4
         DEF Next, Edit, Rotate, Tick, GraphChange, github

\* The binding of a row is written once.
LEMMA BoundOnce ==
    ASSUME TypeOK, Next, bound # NoLogin
    PROVE  bound' = bound
<1>1. ASSUME NEW p \in Publishers, Bind(p) PROVE bound' = bound
  BY <1>1 DEF Bind, Exit
<1>2. ASSUME NEW p \in Publishers, Step(p) \/ Abort(p), ~Bind(p) PROVE bound' = bound
  BY <1>2 DEF Step, Abort, ReadRow, ReadLogin, ReadContext, Refuse, Post, HoldIdentity, Scan,
              Fetch, Ingest, Hold, Reserve, ReadBack, Reconcile, Complete, Miss, store
<1>. QED BY <1>1, <1>2
         DEF Next, List, Alter, Edit, Rotate, Tick, GraphChange, store

\* A step either leaves a process's claim on its comments alone or re-derives it.
LEMMA HitsStep ==
    ASSUME TypeOK, HitsAreMarkers, Next
    PROVE  HitsAreMarkers'
<1>. SUFFICES ASSUME NEW q \in Publishers, pc'[q] \in {"readback", "complete"}
              PROVE  /\ loc'[q].hits # {}
                     /\ \A i \in loc'[q].hits :
                          i \in DOMAIN posted' /\ posted'[i].author = loc'[q].orig
  BY DEF HitsAreMarkers
<1>0. /\ \A i \in DOMAIN posted : i \in DOMAIN posted' /\ posted'[i].author = posted[i].author
      /\ pc \in [Publishers -> Steps] /\ loc \in [Publishers -> Locals]
  BY PostedGrows DEF TypeOK
<1>1. CASE pc'[q] = pc[q] /\ loc'[q] = loc[q]
  BY <1>0, <1>1 DEF HitsAreMarkers
<1>2. ASSUME NEW p \in Publishers, Step(p) \/ Abort(p), p # q
      PROVE  pc'[q] = pc[q] /\ loc'[q] = loc[q]
  BY <1>0, <1>2 DEF Step, Abort, ReadRow, ReadLogin, ReadContext, Refuse, Bind, Post,
        HoldIdentity, Scan, Fetch, Ingest, Hold, Reserve, ReadBack, Reconcile, Complete,
        Miss, Goto, Keep, Exit
<1>3. ASSUME Step(q) \/ Abort(q), ~Scan(q), ~Reconcile(q), ~Post(q), ~ReadBack(q)
      PROVE  FALSE
  <2>1. ASSUME NEW s, pc' = [pc EXCEPT ![q] = s], s \notin {"readback", "complete"}
        PROVE FALSE
    BY <1>0, <2>1
  <2>2. CASE ReadContext(q) \/ Bind(q)
    BY <2>1, <2>2, RouteType DEF ReadContext, Bind, Goto, Exit
  <2>. QED BY <1>3, <2>1, <2>2 DEF Step, Abort, ReadRow, ReadLogin, Refuse,
        HoldIdentity, Fetch, Ingest, Hold, Reserve, Complete, Miss, Goto, Keep, Exit
<1>4. CASE Scan(q) \/ Reconcile(q)
  <2>. DEFINE hits == Markers(loc[q].orig)
  <2>1. loc' = [loc EXCEPT ![q].hits = hits] /\ posted' = posted
    BY <1>4 DEF Scan, Reconcile, github
  <2>2. Cardinality(hits) = 1
    BY <1>0, <1>4 DEF Scan, Reconcile, Goto
  <2>3. hits # {}
    BY <2>2, SingletonNonempty
  <2>4. loc'[q].hits = hits /\ loc'[q].orig = loc[q].orig
    BY <1>0, <2>1 DEF Locals
  <2>. QED BY <2>1, <2>3, <2>4, MarkersType
<1>5. CASE Post(q)
  <2>1. /\ login = loc[q].orig
        /\ posted' = Append(posted, [author |-> login, view |-> "pending"])
        /\ loc' = [loc EXCEPT ![q].hits = {Len(posted) + 1}]
    BY <1>0, <1>5 DEF Post, Goto
  <2>2. loc'[q].hits = {Len(posted) + 1} /\ loc'[q].orig = loc[q].orig
    BY <1>0, <2>1 DEF Locals
  <2>3. Len(posted) + 1 \in DOMAIN posted' /\ posted'[Len(posted) + 1].author = login
    BY <2>1 DEF TypeOK
  <2>. QED BY <2>1, <2>2, <2>3
<1>6. CASE ReadBack(q)
  BY <1>0, <1>6 DEF ReadBack, HitsAreMarkers, github
<1>7. CASE ~\E p \in Publishers : Step(p) \/ Abort(p)
  BY <1>1, <1>7 DEF Next, List, Alter, Edit, Rotate, Tick, GraphChange
<1>. QED BY <1>1, <1>2, <1>3, <1>4, <1>5, <1>6, <1>7

\* A row is completed only with one of the comments the completing process holds.
LEMMA CompleteStep ==
    ASSUME TypeOK, HitsAreMarkers, Next, row'.state = "COMPLETE", row.state # "COMPLETE"
    PROVE  /\ row'.receipt \in DOMAIN posted
           /\ Terminal => posted[row'.receipt].author = bound /\ bound # NoLogin
<1>1. ASSUME NEW p \in Publishers, Complete(p)
      PROVE  /\ row'.receipt \in DOMAIN posted
             /\ Terminal => posted[row'.receipt].author = bound /\ bound # NoLogin
  <2>1. MayComplete(loc[p])
    BY <1>1 DEF Complete
  <2>2. loc[p].hits # {} /\ \A i \in loc[p].hits :
            i \in DOMAIN posted /\ posted[i].author = loc[p].orig
    BY <1>1 DEF Complete, HitsAreMarkers
  <2>3. PICK n \in loc[p].hits : row' = [state |-> "COMPLETE", receipt |-> n]
    BY <1>1, <2>1, <2>2, Zenon DEF Complete
  <2>4. n \in DOMAIN posted /\ posted[n].author \in Logins
    BY <2>2, PostedElement DEF Comments
  <2>. QED BY <2>1, <2>2, <2>3, <2>4, LoginAssumption DEF MayComplete
<1>2. ASSUME NEW p \in Publishers, Step(p) \/ Abort(p), ~Complete(p)
      PROVE  row'.state # "COMPLETE"
  BY <1>2 DEF Step, Abort, ReadRow, ReadLogin, ReadContext, Refuse, Bind, Post, HoldIdentity,
              Scan, Fetch, Ingest, Hold, Reserve, ReadBack, Reconcile, Miss, store, TypeOK, Rows
<1>. QED BY <1>1, <1>2
         DEF Next, List, Alter, Edit, Rotate, Tick, GraphChange, store

\* The recovery record of an ordinary row is never completed.
LEMMA RecoveryStep ==
    ASSUME TypeOK, RecoveryOfTerminal, Next
    PROVE  RecoveryOfTerminal'
<1>1. ASSUME NEW p \in Publishers, Step(p) \/ Abort(p)
      PROVE  RecoveryOfTerminal'
  BY <1>1 DEF Step, Abort, ReadRow, ReadLogin, ReadContext, Refuse, Bind, Post, HoldIdentity,
              Scan, Fetch, Ingest, Hold, Reserve, ReadBack, Reconcile, Complete, Miss, store,
              TypeOK, Recoveries, RecoveryOfTerminal
<1>. QED BY <1>1
         DEF Next, List, Alter, Edit, Rotate, Tick, GraphChange, store, TypeOK, Recoveries,
             RecoveryOfTerminal

\* A completed row is never written again.
LEMMA CompleteStable ==
    ASSUME TypeOK, Next, row.state = "COMPLETE"
    PROVE  row' = row
<1>1. ASSUME NEW p \in Publishers, Step(p) \/ Abort(p)
      PROVE  row' = row
  BY <1>1 DEF Step, Abort, ReadRow, ReadLogin, ReadContext, Refuse, Bind, Post, HoldIdentity,
              Scan, Fetch, Ingest, Hold, Reserve, ReadBack, Reconcile, Complete, Miss, store,
              MayHold, MayReserve, MayComplete, Open
<1>. QED BY <1>1
         DEF Next, List, Alter, Edit, Rotate, Tick, GraphChange, store

-----------------------------------------------------------------------------
(* How many times the comment is written.                                   *)

\* Posters as a set that one step changes by at most one process.
LEMMA PostersStep ==
    ASSUME TypeOK, NEW p \in Publishers, NEW s, pc' = [pc EXCEPT ![p] = s]
    PROVE  /\ IsFiniteSet(Posters) /\ Cardinality(Posters) \in Nat
           /\ pc[p] # "post" /\ s # "post" => Cardinality(Posters') = Cardinality(Posters)
           /\ pc[p] # "post" /\ s = "post" => Cardinality(Posters') = Cardinality(Posters) + 1
           /\ pc[p] = "post" /\ s # "post" => Cardinality(Posters') = Cardinality(Posters) - 1
<1>1. IsFiniteSet(Posters) /\ Cardinality(Posters) \in Nat
  BY PublishersFinite, FS_Subset, FS_CardinalityType DEF Posters
<1>2. ASSUME pc[p] # "post", s # "post" PROVE Posters' = Posters
  BY <1>2 DEF Posters, TypeOK
<1>3. ASSUME pc[p] # "post", s = "post" PROVE Posters' = Posters \cup {p} /\ p \notin Posters
  BY <1>3 DEF Posters, TypeOK
<1>4. ASSUME pc[p] = "post", s # "post" PROVE Posters' = Posters \ {p} /\ p \in Posters
  BY <1>4 DEF Posters, TypeOK
<1>5. ASSUME pc[p] # "post", s = "post" PROVE Cardinality(Posters') = Cardinality(Posters) + 1
  BY <1>1, <1>3, <1>5, FS_AddElement
<1>6. ASSUME pc[p] = "post", s # "post" PROVE Cardinality(Posters') = Cardinality(Posters) - 1
  BY <1>1, <1>4, <1>6, FS_RemoveElement
<1>. QED BY <1>1, <1>2, <1>5, <1>6

\* A step that neither writes the row nor the comments nor creates a poster.
LEMMA BudgetFrame ==
    ASSUME TypeOK, PostBudget, NEW p \in Publishers, NEW s, pc' = [pc EXCEPT ![p] = s],
           s # "post", posted' = posted,
           rec'.rounds = rec.rounds,
           row'.state # "PREPARED" \/ row'.state = row.state
    PROVE  PostBudget'
<1>1. Len(posted) \in Nat /\ rec.rounds \in Nat
  BY DEF TypeOK, Recoveries
<1>2. Cardinality(Posters) \in Nat /\ Cardinality(Posters') \in Nat
      /\ Cardinality(Posters') <= Cardinality(Posters)
  <2>1. Posters' \subseteq Posters /\ IsFiniteSet(Posters)
    BY PublishersFinite, FS_Subset DEF Posters, TypeOK
  <2>. QED BY <2>1, FS_Subset, FS_CardinalityType
<1>. QED BY <1>1, <1>2 DEF PostBudget

LEMMA BudgetStep ==
    ASSUME TypeOK, PostBudget, NEW p \in Publishers, Step(p) \/ Abort(p)
    PROVE  PostBudget'
<1>. USE DEF Goto, Keep, Exit, store, github
<1>0. /\ Len(posted) \in Nat /\ rec.rounds \in Nat /\ row \in Rows /\ rec \in Recoveries
      /\ Cardinality(Posters) \in Nat
  BY PublishersFinite, FS_Subset, FS_CardinalityType DEF TypeOK, Recoveries, Posters
<1>1. CASE Reserve(p) /\ MayReserve
  <2>1. Cardinality(Posters') = Cardinality(Posters) + 1
    BY <1>1, PostersStep DEF Reserve
  <2>2. rec'.rounds = rec.rounds /\ row.state = "PREPARED" /\ row'.state = "INFLIGHT"
        /\ posted' = posted
    BY <1>0, <1>1 DEF Reserve, MayReserve, Rows, Recoveries
  <2>. QED BY <1>0, <2>1, <2>2 DEF PostBudget
<1>2. CASE Post(p)
  <2>1. Cardinality(Posters') = Cardinality(Posters) - 1
    BY <1>2, PostersStep DEF Post
  <2>2. Len(posted') \in Nat /\ Len(posted') <= Len(posted) + 1 /\ rec' = rec /\ row' = row
    <3>1. posted \in Seq(Comments)
      BY DEF TypeOK
    <3>2. posted' = posted \/ posted' = Append(posted, [author |-> login, view |-> "pending"])
      BY <1>2 DEF Post
    <3>3. rec' = rec /\ row' = row
      BY <1>2 DEF Post
    <3>. QED BY <1>0, <3>1, <3>2, <3>3
  <2>. QED BY <1>0, <2>1, <2>2 DEF PostBudget
<1>3. CASE Miss(p)
  <2>1. Cardinality(Posters') = Cardinality(Posters)
    <3>1. pc[p] = "miss" /\ pc' = [pc EXCEPT ![p] = "idle"]
      BY <1>3 DEF Miss
    <3>2. "miss" # "post" /\ "idle" # "post"
      OBVIOUS
    <3>. QED BY <3>1, <3>2, PostersStep, Zenon
  <2>2. posted' = posted
    BY <1>3 DEF Miss
  <2>3. CASE UNCHANGED <<row, rec>>
    BY <2>1, <2>2, <2>3 DEF PostBudget
  <2>4. CASE rec'.rounds = rec.rounds + 1
    BY <1>0, <2>1, <2>2, <2>4 DEF PostBudget
  <2>5. CASE rec'.rounds = rec.rounds /\ row'.state = "HOLD"
    BY <1>0, <2>1, <2>2, <2>5 DEF PostBudget
  <2>. QED BY <1>0, <1>3, <2>3, <2>4, <2>5 DEF Miss, Rows, Recoveries
<1>4. CASE ReadContext(p) \/ Bind(p)
  <2>1. posted' = posted /\ rec' = rec /\ row' = row
    BY <1>4 DEF ReadContext, Bind
  <2>2. PICK s : s # "post" /\ pc' = [pc EXCEPT ![p] = s]
    BY <1>4, RouteType DEF ReadContext, Bind
  <2>. QED BY <2>1, <2>2, BudgetFrame
<1>5. CASE Complete(p)
  <2>1. posted' = posted /\ rec'.rounds = rec.rounds
    BY <1>0, <1>5 DEF Complete, Recoveries
  <2>2. row'.state # "PREPARED" \/ row' = row
    BY <1>5 DEF Complete
  <2>. QED BY <1>5, <2>1, <2>2, BudgetFrame DEF Complete
<1>6. CASE HoldIdentity(p) \/ Hold(p)
  <2>1. posted' = posted /\ rec'.rounds = rec.rounds
    BY <1>0, <1>6 DEF HoldIdentity, Hold, Recoveries
  <2>2. row'.state # "PREPARED" \/ row' = row
    BY <1>0, <1>6 DEF HoldIdentity, Hold, Rows
  <2>. QED BY <1>6, <2>1, <2>2, BudgetFrame DEF HoldIdentity, Hold
<1>7. CASE Reserve(p) /\ ~MayReserve
  BY <1>7, BudgetFrame DEF Reserve
<1>8. CASE Scan(p) \/ Reconcile(p) \/ ReadBack(p) \/ Ingest(p)
  <2>1. posted' = posted /\ rec' = rec /\ row' = row
    BY <1>8 DEF Scan, Reconcile, ReadBack, Ingest
  <2>2. PICK s : s # "post" /\ pc' = [pc EXCEPT ![p] = s]
    BY <1>8 DEF Scan, Reconcile, ReadBack, Ingest
  <2>. QED BY <2>1, <2>2, BudgetFrame
<1>9. CASE ReadRow(p) \/ ReadLogin(p) \/ Refuse(p) \/ Fetch(p) \/ Abort(p)
  BY <1>9, BudgetFrame DEF ReadRow, ReadLogin, Refuse, Fetch, Abort
<1>. QED BY <1>1, <1>2, <1>3, <1>4, <1>5, <1>6, <1>7, <1>8, <1>9 DEF Step

-----------------------------------------------------------------------------
(* The theorems.                                                            *)

LEMMA NextType ==
    ASSUME TypeOK, HitsAreMarkers, [Next]_vars
    PROVE  TypeOK'
<1>1. CASE UNCHANGED vars
  BY <1>1 DEF vars, store, github, TypeOK
<1>2. CASE Next
  BY <1>2, StepType, EnvironmentType DEF Next
<1>. QED BY <1>1, <1>2

\* Every reachable state is well typed, and a completed row's receipt is a
\* comment that exists, for a terminal row one written by the bound publisher.
THEOREM ReceiptCorrect == Spec => [](TypeOK /\ ReceiptIsMarker)
<1>1. Init => ReceiptInv
  BY InitType DEF Init, ReceiptInv, HitsAreMarkers, ReceiptOfKind, RecoveryOfTerminal
<1>2. ReceiptInv /\ [Next]_vars => ReceiptInv'
  <2>. SUFFICES ASSUME ReceiptInv, [Next]_vars PROVE ReceiptInv'
    OBVIOUS
  <2>1. TypeOK'
    BY NextType DEF ReceiptInv
  <2>2. CASE UNCHANGED vars
    BY <2>1, <2>2 DEF ReceiptInv, vars, store, github, HitsAreMarkers, ReceiptOfKind,
                     RecoveryOfTerminal
  <2>3. CASE Next
    <3>1. HitsAreMarkers'
      BY <2>3, HitsStep DEF ReceiptInv
    <3>r. RecoveryOfTerminal'
      BY <2>3, RecoveryStep DEF ReceiptInv
    <3>2. /\ \A i \in DOMAIN posted : i \in DOMAIN posted' /\ posted'[i].author = posted[i].author
      BY <2>3, PostedGrows DEF ReceiptInv
    <3>3. CASE row.state = "COMPLETE"
      <4>1. row' = row
        BY <2>3, <3>3, CompleteStable DEF ReceiptInv
      <4>2. row.receipt \in DOMAIN posted /\ (Terminal => posted[row.receipt].author = bound)
        BY <3>3 DEF ReceiptInv, ReceiptOfKind
      <4>3. Terminal => bound # NoLogin
        BY <4>2, PostedElement, LoginAssumption DEF ReceiptInv, Comments
      <4>4. Terminal => bound' = bound
        BY <2>3, <4>3, BoundOnce DEF ReceiptInv
      <4>. QED BY <2>1, <3>1, <3>r, <3>2, <4>1, <4>2, <4>4 DEF ReceiptInv, ReceiptOfKind
    <3>4. CASE row.state # "COMPLETE" /\ row'.state = "COMPLETE"
      <4>1. /\ row'.receipt \in DOMAIN posted
            /\ Terminal => posted[row'.receipt].author = bound /\ bound # NoLogin
        BY <2>3, <3>4, CompleteStep DEF ReceiptInv
      <4>2. Terminal => bound' = bound
        BY <2>3, <4>1, BoundOnce DEF ReceiptInv
      <4>. QED BY <2>1, <3>1, <3>r, <3>2, <4>1, <4>2 DEF ReceiptInv, ReceiptOfKind
    <3>5. CASE row'.state # "COMPLETE"
      BY <2>1, <3>1, <3>r, <3>5 DEF ReceiptInv, ReceiptOfKind
    <3>. QED BY <3>3, <3>4, <3>5
  <2>. QED BY <2>2, <2>3
<1>3. ReceiptInv => TypeOK /\ ReceiptIsMarker
  BY DEF ReceiptInv, ReceiptOfKind, RecoveryOfTerminal, ReceiptIsMarker
<1>. QED BY <1>1, <1>2, <1>3, PTL DEF Spec

LEMMA HitsInvariant == Spec => [](TypeOK /\ HitsAreMarkers)
<1>1. Init => TypeOK /\ HitsAreMarkers
  BY InitType DEF Init, HitsAreMarkers
<1>2. TypeOK /\ HitsAreMarkers /\ [Next]_vars => (TypeOK /\ HitsAreMarkers)'
  <2>1. ASSUME TypeOK, HitsAreMarkers, UNCHANGED vars PROVE HitsAreMarkers'
    BY <2>1 DEF vars, github, HitsAreMarkers
  <2>. QED BY <2>1, NextType, HitsStep
<1>. QED BY <1>1, <1>2, PTL DEF Spec

\* The comment is written at most once, plus once per granted retry round, for
\* every number of publishers, whatever they raced, lost or remembered.
THEOREM PostsBounded == Spec => []PostsWithinRounds
<1>1. Init => BudgetInv
  <2>1. ASSUME Init PROVE Posters = {}
    BY <2>1 DEF Init, Posters
  <2>2. ASSUME Init PROVE Cardinality(Posters) = 0
    BY <2>1, <2>2, FS_EmptySet
  <2>3. ASSUME Init PROVE Len(posted) = 0 /\ rec.rounds = 0
    BY <2>3 DEF Init
  <2>. QED BY <2>2, <2>3, InitType DEF BudgetInv, PostBudget
<1>2. BudgetInv /\ TypeOK' /\ [Next]_vars => BudgetInv'
  <2>. SUFFICES ASSUME BudgetInv, TypeOK', [Next]_vars PROVE PostBudget'
    BY DEF BudgetInv
  <2>1. ASSUME NEW p \in Publishers, Step(p) \/ Abort(p) PROVE PostBudget'
    BY <2>1, BudgetStep DEF BudgetInv
  <2>2. ASSUME pc' = pc, Len(posted') = Len(posted), rec'.rounds = rec.rounds, row' = row
        PROVE  PostBudget'
    BY <2>2 DEF BudgetInv, PostBudget, Posters
  <2>3. ASSUME NEW i \in DOMAIN posted, List(i) \/ Alter(i) PROVE PostBudget'
    <3>1. Len(posted') = Len(posted)
      BY <2>3 DEF List, Alter, BudgetInv, TypeOK
    <3>. QED BY <2>2, <2>3, <3>1 DEF List, Alter, store
  <2>4. CASE Tick
    BY <2>2, <2>4 DEF Tick, github, BudgetInv, TypeOK, Recoveries
  <2>. QED BY <2>1, <2>2, <2>3, <2>4
           DEF Next, Edit, Rotate, GraphChange, vars, store, github
<1>3. BudgetInv => PostsWithinRounds
  <2>1. ASSUME TypeOK PROVE Cardinality(Posters) \in Nat /\ Len(posted) \in Nat /\ rec.rounds \in Nat
    BY <2>1, PublishersFinite, FS_Subset, FS_CardinalityType DEF Posters, TypeOK, Recoveries
  <2>. QED BY <2>1 DEF BudgetInv, PostBudget, PostsWithinRounds
<1>. QED BY <1>1, <1>2, <1>3, HitsInvariant, PTL DEF Spec

\* A COMPLETE row and a publisher binding are final.
THEOREM PublicationIsFinal == Spec => PublicationFinal
<1>1. ASSUME TypeOK, [Next]_vars
      PROVE  [/\ row.state = "COMPLETE" => row' = row
              /\ bound # NoLogin => bound' = bound]_vars
  BY <1>1, CompleteStable, BoundOnce
<1>. QED BY <1>1, HitsInvariant, PTL DEF Spec, PublicationFinal

\* Wherever the absence of a comment is counted, and a row re-armed by the count, it is by
\* a run that observed the bound publisher's credential.
THEOREM OriginalCounts == Spec => OnlyOriginalRearms
<1>1. Init => AbsencesAreOwn
  BY DEF Init, AbsencesAreOwn
<1>2. TypeOK /\ AbsencesAreOwn /\ [Next]_vars => AbsencesAreOwn'
  <2>. SUFFICES ASSUME TypeOK, AbsencesAreOwn, [Next]_vars PROVE AbsencesAreOwn'
    OBVIOUS
  <2>1. ASSUME UNCHANGED <<pc, loc>> PROVE AbsencesAreOwn'
    BY <2>1 DEF AbsencesAreOwn
  <2>2. ASSUME NEW p \in Publishers, NEW v, NEW s, pc' = [pc EXCEPT ![p] = s], loc' = [loc EXCEPT ![p] = v],
               s = "miss" /\ v.hits = {} => v.who = v.orig
        PROVE  AbsencesAreOwn'
    BY <2>2 DEF AbsencesAreOwn, TypeOK
  <2>3. ASSUME NEW p \in Publishers, NEW s, pc' = [pc EXCEPT ![p] = s], s # "miss",
               \A q \in Publishers \ {p} : loc'[q] = loc[q]
        PROVE  AbsencesAreOwn'
    BY <2>3 DEF AbsencesAreOwn, TypeOK
  <2>4. ASSUME NEW p \in Publishers, Scan(p) \/ Reconcile(p) PROVE AbsencesAreOwn'
    <3>. DEFINE hits == Markers(loc[p].orig)
                v == [loc[p] EXCEPT !.hits = hits]
    <3>1. /\ loc' = [loc EXCEPT ![p] = v]
          /\ v.hits = hits /\ v.who = loc[p].who /\ v.orig = loc[p].orig
      BY <2>4 DEF Scan, Reconcile, TypeOK, Locals
    <3>2. hits = {} => Cardinality(hits) = 0
      BY FS_EmptySet
    <3>3. PICK s : pc' = [pc EXCEPT ![p] = s] /\ (s = "miss" /\ hits = {} => ~RotatedCredential(loc[p]))
      BY <2>4, <3>2 DEF Scan, Reconcile, Goto
    <3>. HIDE DEF v, hits
    <3>. QED BY <2>2, <3>1, <3>3 DEF RotatedCredential
  <2>5. ASSUME NEW p \in Publishers, Step(p) \/ Abort(p), ~(Scan(p) \/ Reconcile(p)) PROVE AbsencesAreOwn'
    <3>1. \E s : pc' = [pc EXCEPT ![p] = s] /\ s # "miss"
      <4>1. \A w : Route(w) # "miss"
        BY RouteType
      <4>2. CASE ReadContext(p) \/ Bind(p)
        <5>1. \E s, w : pc' = [pc EXCEPT ![p] = s] /\ s \in {"idle", "holdUnbound", "bind", Route(w)}
          BY <4>2 DEF ReadContext, Bind, Goto, Exit
        <5>. QED BY <4>1, <5>1
      <4>3. CASE ReadRow(p) \/ ReadLogin(p) \/ HoldIdentity(p) \/ Fetch(p) \/ Hold(p) \/ Refuse(p) \/ Complete(p)
                 \/ Miss(p) \/ Abort(p)
        BY <4>3 DEF ReadRow, ReadLogin, HoldIdentity, Fetch, Hold, Refuse, Complete, Miss, Abort, Goto, Exit
      <4>4. CASE Ingest(p)
        BY <4>4 DEF Ingest, Goto, Exit
      <4>5. CASE Reserve(p) \/ Post(p)
        BY <4>5 DEF Reserve, Post, Goto, Exit
      <4>6. CASE ReadBack(p)
        <5>. DEFINE s == IF \E i \in loc[p].hits : posted[i].view = "altered" THEN "reconcile" ELSE "complete"
        <5>1. pc' = [pc EXCEPT ![p] = s] /\ s # "miss"
          BY <4>6 DEF ReadBack, Goto
        <5>. QED BY <5>1
      <4>. QED BY <2>5, <4>2, <4>3, <4>4, <4>5, <4>6 DEF Step
    <3>2. \A q \in Publishers \ {p} : loc'[q] = loc[q]
      BY <2>5 DEF Step, Abort, ReadRow, ReadLogin, ReadContext, Bind, HoldIdentity, Fetch, Ingest, Hold,
         Reserve, Post, ReadBack, Refuse, Complete, Miss, Exit, Keep, TypeOK
    <3>. QED BY <2>3, <3>1, <3>2
  <2>. QED BY <2>1, <2>4, <2>5 DEF Next, List, Alter, Edit, Rotate, Tick, GraphChange, vars
<1>3. ASSUME TypeOK, AbsencesAreOwn, [Next]_vars
      PROVE  [\A p \in DOMAIN pc :
                pc[p] = "miss" /\ pc'[p] = "idle" /\ rec' # rec /\ loc[p].hits = {} => loc[p].who = bound]_vars
  <2>. SUFFICES ASSUME NEW p \in Publishers, Next, pc[p] = "miss", pc'[p] = "idle", rec' # rec, loc[p].hits = {}
                PROVE  loc[p].who = bound
    BY <1>3 DEF TypeOK
  <2>1. Miss(p) => bound = loc[p].orig
    BY DEF Miss
  <2>2. ASSUME NEW q \in Publishers, Step(q) \/ Abort(q), q # p PROVE pc'[p] = pc[p]
    BY <1>3, <2>2 DEF Step, Abort, ReadRow, ReadLogin, ReadContext, Bind, HoldIdentity, Scan, Fetch, Ingest, Hold,
       Reserve, Post, ReadBack, Refuse, Reconcile, Complete, Miss, Goto, Exit, TypeOK
  <2>3. ~Abort(p)
    BY DEF Abort, store
  <2>4. ~\E q \in Publishers \ {p} : Step(q) \/ Abort(q)
    BY <2>2
  <2>5. Step(p) => Miss(p)
    BY DEF Step, ReadRow, ReadLogin, ReadContext, Bind, HoldIdentity, Scan, Fetch, Ingest, Hold,
       Reserve, Post, ReadBack, Refuse, Reconcile, Complete
  <2>6. pc' # pc
    BY <1>3 DEF TypeOK
  <2>. QED BY <1>3, <2>1, <2>3, <2>4, <2>5, <2>6 DEF Next, List, Alter, Edit, Rotate, Tick, GraphChange, AbsencesAreOwn
<1>. QED BY <1>1, <1>2, <1>3, HitsInvariant, PTL DEF Spec, OnlyOriginalRearms
=============================================================================
