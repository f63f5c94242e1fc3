-------------------------- MODULE SubmissionProofs --------------------------
(***************************************************************************)
(* Proofs about Submission for every set of notices and lineages, every    *)
(* number of permitted attempts, intents and heartbeats, and every number  *)
(* of passes that die.                                                     *)
(***************************************************************************)
EXTENDS Submission, TLAPS, FiniteSetTheorems, SequenceTheorems

Messages == {"ABSENT", "PREPARED", "CLAIMED", "COMPLETE", "HOLD"}
Digests == (Messages \cup {None})
           \X {None, "ABSENT", "INFLIGHT", "PENDING_CLAIM", "ACTIVE", "HOLD", "COMPLETE"}
           \X (0..MaxBeats)
Intents == [e : Entities, res : RowType, pre : SUBSET Ids,
            disp : {None, "submitted", "ambiguous", "abandoned"},
            final : {None, "accepted", "rejected", "expired", "recovered", "terminal"},
            child : 0..MaxIntents]
Units == [st : {None, "started", "gone"} \cup Active \cup Ended, dead : BOOLEAN,
          prog : Digests, tprog : Digests, after : Int]

\* A launch before its call.
Chosen == [e : Entities, row : RowType, out : {None}]

\* The steps of a pass from its first transaction on a launch to the last.
Launching == {"precall", "call", "bind", "await", "finalize", "reject"}
Scanning == {"select", "reserve", "record"} \cup Launching

Types ==
    /\ msg \in [Keys -> Messages] /\ row \in [Entities -> RowType]
    /\ beats \in [Lineages -> 0..MaxBeats]
    /\ ledger \in Seq(Intents) /\ Len(ledger) <= MaxIntents
    /\ unit \in [Ids -> Units] /\ \A i \in Ids \ DOMAIN ledger : unit[i] = NoUnit
    /\ \A i \in Ids : unit[i].st \in {None, "started", "gone"} => ~unit[i].dead
    /\ recent \subseteq Ids /\ late \in 0..Len(ledger)
    /\ fenced \subseteq Keys /\ crashes \in 0..MaxCrashes
    /\ pc \in {"idle", "unbound", "ambiguous", "pending"} \cup Scanning

\* What message, wakes and watch of a key say of each other.
RowsAgree ==
    /\ \A e \in Entities :
          row[e].state \in IF e.kind = "watch" THEN {"PENDING_CLAIM", "ACTIVE", "HOLD", "COMPLETE"}
                           ELSE {"ABSENT", "INFLIGHT", "HOLD", "COMPLETE"}
    /\ \A l \in Lineages :
          /\ msg[l] # "ABSENT"
          /\ msg[l] = "PREPARED" => WatchState(l) \in {"PENDING_CLAIM", "COMPLETE"} /\ beats[l] = 0
          /\ msg[l] = "CLAIMED" => WatchState(l) # "PENDING_CLAIM"
          /\ msg[l] = "COMPLETE" => WatchState(l) = "COMPLETE"

\* The only progress an entity is ever launched with, while it is what it is now.
Progress(e) ==
    CASE e.kind = "prepared" -> <<"PREPARED", IF e.key \in Lineages THEN "PENDING_CLAIM" ELSE None, 0>>
      [] e.kind = "claimed" -> <<"CLAIMED", "HOLD", beats[e.key]>>
      [] OTHER -> <<None, "ACTIVE", beats[e.key]>>

\* A claimed admission is launched when its watch was held for good.
Settled(l) ==
    /\ msg[l] # "PREPARED" /\ WatchState(l) = "HOLD"
    /\ \A i \in DOMAIN ledger : Entity(i) = Watch(l) => ~Unresolved(i)

Reserved(e, r) ==
    /\ r \in RowType /\ r.err = None /\ r.state = IF e.kind = "watch" THEN "ACTIVE" ELSE "INFLIGHT"
    /\ msg[e.key] # "ABSENT"
    /\ IF e.kind = "watch" THEN \E b \in 0..beats[e.key] : r.prog = <<None, "ACTIVE", b>>
       ELSE r.prog = Progress(e)
    /\ e.kind = "claimed" => Settled(e.key)

\* What every submission reserved.
Reservations == \A i \in DOMAIN ledger : Reserved(Entity(i), ledger[i].res)

\* A key is submitted again only when its earlier submissions are resolved.
KeyOrder ==
    \A i, j \in DOMAIN ledger : i < j /\ Entity(i).key = Entity(j).key => ~Unresolved(i)

\* What a resolved submission leaves behind: no process at all, a row that is held for
\* good, or a message that ended.
Outcomes ==
    \A i \in DOMAIN ledger :
        /\ ledger[i].disp = "abandoned" => unit[i].st = None
        /\ ledger[i].final \in {"rejected", "expired"} => row[Entity(i)].state = "HOLD"
        /\ ledger[i].final = "terminal" =>
              msg[Entity(i).key] \in IF Entity(i).kind = "watch" THEN {"COMPLETE"} ELSE {"COMPLETE", "HOLD"}

\* The fence of a submission lists every attempt of the earlier ones.
FenceLists ==
    \A i, j \in DOMAIN ledger :
        i < j /\ Target(Entity(i)) = Target(Entity(j)) /\ HasAttempt(i) => i \in ledger[j].pre

\* While a child may still come up for a prepared message, nobody has claimed it.
Unclaimed ==
    \A i \in DOMAIN ledger :
        Entity(i).kind = "prepared" /\ unit[i].st = "started" => msg[Entity(i).key] # "CLAIMED"

\* How often an entity was launched with a progress.
Tally(e, d) == Cardinality({j \in DOMAIN ledger : Entity(j) = e /\ ledger[j].res.prog = d})

\* The entity may be launched again with the progress it was launched with.
Repeatable(e) ==
    /\ e.kind = "prepared" =>
          msg[e.key] \in {"ABSENT", "PREPARED"} /\ (e.key \in Lineages => WatchState(e.key) = "PENDING_CLAIM")
    /\ e.kind = "claimed" => msg[e.key] \in {"PREPARED", "CLAIMED"}

\* Every launch is counted on its row before it is in the ledger.
Counted1(e) == Tally(e, Progress(e)) <= IF row[e].prog = Progress(e) THEN row[e].attempts ELSE 0
Counting == \A e \in Entities : Repeatable(e) => Counted1(e)
Budgeted == \A e \in Entities, d \in Digests : Tally(e, d) <= MaxAttempts

StoreInv ==
    /\ RowsAgree /\ Reservations /\ KeyOrder /\ Outcomes /\ FenceLists /\ Unclaimed
    /\ Counting /\ Budgeted
    /\ NeverTwice /\ AttachedIsOwn /\ HeldIsFinal

\* What a loop still has to look at is as the loop found it.
LoopInv ==
    /\ pc = "unbound" => todo \subseteq With(None)
    /\ pc = "ambiguous" => todo \subseteq With("ambiguous")
    /\ pc = "pending" => todo \subseteq With("submitted")

\* The pass knows every key that is under way but the one it launches itself, whose
\* launch it counted.
FenceInv ==
    /\ pc \in Scanning => Fenced \subseteq fenced
    /\ pc = "reserve" => cur.e \in Targets /\ cur.e.key \notin fenced /\ Len(ledger) < MaxIntents
    /\ pc = "record" =>
          /\ cur \in Chosen /\ cur.e.key \in fenced \ Fenced /\ Len(ledger) < MaxIntents
          /\ Reserved(cur.e, cur.row) /\ Tally(cur.e, cur.row.prog) < cur.row.attempts

\* From its intent to its outcome the launch is the last one, unresolved, and without a
\* process until the call.
LaunchInv ==
    pc \in Launching =>
        /\ Last \in DOMAIN ledger /\ cur.e = Entity(Last) /\ ledger[Last].final = None
        /\ ledger[Last].disp = IF pc \in {"precall", "call", "bind"} THEN None ELSE "submitted"
        /\ pc \in {"precall", "call"} =>
              /\ cur \in Chosen /\ unit[Last].st = None
              /\ Entity(Last).kind = "prepared" => msg[Entity(Last).key] # "CLAIMED"
        /\ pc = "bind" /\ cur.out = "notSubmitted" => unit[Last].st = None

SubmissionInv == Types /\ StoreInv /\ LoopInv /\ FenceInv /\ LaunchInv

-----------------------------------------------------------------------------
(* Entities, targets and the ledger.                                        *)

LEMMA EntityFacts ==
    /\ \A e \in Entities : /\ e.key \in Keys /\ e.kind \in {"prepared", "claimed", "watch"}
                           /\ e.kind # "prepared" => e.key \in Lineages
                           /\ e.kind = "watch" => e = Watch(e.key)
    /\ \A e, f \in Entities : e.key = f.key /\ e.kind = f.kind => e = f
    /\ \A l \in Lineages : Watch(l) \in Entities /\ Watch(l).key = l /\ Watch(l).kind = "watch"
    /\ \A t \in Targets : /\ t.key \in Keys /\ t.kind \in {"message", "watch"}
                          /\ t.kind = "watch" => t.key \in Lineages /\ t \in Entities /\ t = Watch(t.key)
BY DEF Entities, Keys, Watch, Targets

LEMMA TargetFacts ==
    /\ \A e \in Entities : /\ Target(e) \in Targets /\ Target(e).key = e.key
                           /\ Target(e).kind = "watch" <=> e.kind = "watch"
    /\ \A e, f \in Entities :
          Target(e) = Target(f) <=> e.key = f.key /\ (e.kind = "watch" <=> f.kind = "watch")
<1>1. \A e \in Entities : /\ Target(e).key = e.key
                          /\ Target(e).kind = IF e.kind = "watch" THEN "watch" ELSE "message"
  BY DEF Target
<1>2. \A e, f \in Entities : e.key = f.key /\ (e.kind = "watch" <=> f.kind = "watch") => Target(e) = Target(f)
  BY DEF Target
<1>3. \A e \in Entities : Target(e) \in Targets
  BY EntityFacts DEF Target, Targets
<1>. QED BY <1>1, <1>2, <1>3

\* The ledger is a finite sequence of intents.
LEMMA LedgerFacts ==
    ASSUME Types
    PROVE  /\ Len(ledger) \in Nat /\ DOMAIN ledger = 1..Len(ledger) /\ DOMAIN ledger \subseteq Ids
           /\ \A i \in DOMAIN ledger : /\ ledger[i] \in Intents /\ Entity(i) \in Entities
                                       /\ Entity(i) = ledger[i].e /\ ledger[i].res \in RowType
           /\ DOMAIN unit = Ids /\ \A i \in Ids : unit[i] \in Units
<1>1. ledger \in Seq(Intents) /\ Len(ledger) <= MaxIntents /\ MaxIntents \in Nat
  BY SubmissionBounds DEF Types
<1>2. Len(ledger) \in Nat /\ DOMAIN ledger = 1..Len(ledger)
  BY <1>1
<1>3. DOMAIN ledger \subseteq Ids
  BY <1>1, <1>2 DEF Ids
<1>4. \A i \in DOMAIN ledger : ledger[i] \in Intents
  BY <1>1, <1>2
<1>5. \A i \in DOMAIN ledger : /\ Entity(i) \in Entities /\ Entity(i) = ledger[i].e
                               /\ ledger[i].res \in RowType
  BY <1>4 DEF Intents, Entity
<1>. QED BY <1>2, <1>3, <1>4, <1>5 DEF Types

LEMMA DigestTyped ==
    ASSUME Types, NEW t \in Targets
    PROVE  /\ Digest(t) \in Digests
           /\ t.kind = "watch" => Digest(t) = <<None, WatchState(t.key), beats[t.key]>>
           /\ t.kind # "watch" => Digest(t) = <<msg[t.key], WatchState(t.key),
                                               IF t.key \in Lineages THEN beats[t.key] ELSE 0>>
<1>1. \A k \in Keys : /\ msg[k] \in Messages
                      /\ k \in Lineages => beats[k] \in 0..MaxBeats
                      /\ WatchState(k) \in {None, "ABSENT", "INFLIGHT", "PENDING_CLAIM", "ACTIVE", "HOLD", "COMPLETE"}
  BY EntityFacts DEF Types, WatchState, RowType
<1>2. 0 \in 0..MaxBeats
  BY SubmissionBounds
<1>. QED BY <1>1, <1>2, EntityFacts DEF Digest, Digests

\* A disposition changes one row, and of its intent only the outcome.
LEMMA Disposed ==
    ASSUME Types, NEW i \in DOMAIN ledger, NEW r \in RowType,
           NEW d \in {None, "submitted", "ambiguous", "abandoned"},
           NEW f \in {None, "accepted", "rejected", "expired", "recovered", "terminal"},
           Dispose(i, r, d, f)
    PROVE  /\ ledger' \in Seq(Intents) /\ Len(ledger') = Len(ledger) /\ DOMAIN ledger' = DOMAIN ledger
           /\ \A j \in DOMAIN ledger : /\ Entity(j)' = Entity(j) /\ ledger'[j].res = ledger[j].res
                                       /\ ledger'[j].pre = ledger[j].pre
                                       /\ j # i => ledger'[j] = ledger[j]
           /\ ledger'[i].disp = d /\ ledger'[i].final = f /\ ledger'[i].child = r.proc
           /\ row' \in [Entities -> RowType]
           /\ \A e \in Entities : row'[e] = IF e = Entity(i) THEN r ELSE row[e]
<1>. DEFINE x == [ledger[i] EXCEPT !.disp = d, !.final = f, !.child = r.proc]
<1>0. /\ i \in 1..Len(ledger) /\ ledger[i] \in Intents /\ Entity(i) \in Entities
      /\ r.proc \in 0..MaxIntents
  BY LedgerFacts DEF RowType
<1>1. /\ x \in Intents /\ x.e = ledger[i].e /\ x.res = ledger[i].res /\ x.pre = ledger[i].pre
      /\ x.disp = d /\ x.final = f /\ x.child = r.proc
  BY <1>0 DEF Intents
<1>2. ledger' = [ledger EXCEPT ![i] = x]
  BY LedgerFacts DEF Dispose
<1>. HIDE DEF x
<1>3. /\ ledger' \in Seq(Intents) /\ Len(ledger') = Len(ledger)
      /\ \A j \in 1..Len(ledger) : ledger'[j] = IF j = i THEN x ELSE ledger[j]
  BY <1>0, <1>1, <1>2, ExceptSeq DEF Types
<1>4. DOMAIN ledger' = DOMAIN ledger
  BY <1>3, LedgerFacts
<1>5. row' = [row EXCEPT ![Entity(i)] = r]
  BY DEF Dispose
<1>6. /\ row' \in [Entities -> RowType]
      /\ \A e \in Entities : row'[e] = IF e = Entity(i) THEN r ELSE row[e]
  BY <1>0, <1>5 DEF Types
<1>. QED BY <1>1, <1>3, <1>4, <1>6, LedgerFacts DEF Entity

\* What the fields of a row stand for.
LEMMA RowFacts ==
    ASSUME NEW r \in RowType, NEW s \in {"ABSENT", "INFLIGHT", "PENDING_CLAIM", "ACTIVE", "HOLD", "COMPLETE"},
           NEW x \in Errors, NEW p \in 0..MaxIntents
    PROVE  /\ [r EXCEPT !.err = x] \in RowType /\ [r EXCEPT !.proc = p] \in RowType
           /\ [r EXCEPT !.state = s] \in RowType /\ [r EXCEPT !.err = x, !.state = s] \in RowType
           /\ [r EXCEPT !.state = s, !.err = x] \in RowType
           /\ [r EXCEPT !.state = s, !.proc = p, !.err = x] \in RowType
           /\ [r EXCEPT !.state = s, !.err = x, !.proc = p] \in RowType
BY DEF RowType

\* The rows that transactions write.
LEMMA RowWrites ==
    ASSUME NEW r \in RowType
    PROVE  /\ [r EXCEPT !.state = "COMPLETE", !.proc = 0, !.err = None] \in RowType
           /\ HeartbeatRow(r) \in RowType
           /\ [r EXCEPT !.state = "HOLD", !.err = "EXHAUSTED", !.proc = 0] \in RowType
           /\ [r EXCEPT !.state = "COMPLETE", !.err = None] \in RowType
<1>1. 0 \in 0..MaxIntents /\ 0 \in 0..MaxAttempts
  BY SubmissionBounds, AttemptsAssumption
<1>2. None \in Errors /\ "EXHAUSTED" \in Errors
  BY DEF Errors
<1>3. /\ [r EXCEPT !.state = "COMPLETE", !.proc = 0, !.err = None] \in RowType
      /\ [r EXCEPT !.state = "HOLD", !.err = "EXHAUSTED", !.proc = 0] \in RowType
      /\ [r EXCEPT !.state = "COMPLETE", !.err = None] \in RowType
  BY <1>1, <1>2, RowFacts
<1>4. HeartbeatRow(r) = [r EXCEPT !.attempts = 0, !.proc = 0, !.err = None]
  BY DEF HeartbeatRow
<1>5. HeartbeatRow(r) \in RowType
  BY <1>1, <1>2, <1>4 DEF RowType
<1>. QED BY <1>3, <1>5

LEMMA TallyFacts ==
    ASSUME Types, NEW e, NEW d
    PROVE  /\ Tally(e, d) \in Nat
           /\ (\A j \in DOMAIN ledger : Entity(j) = e => ledger[j].res.prog # d) => Tally(e, d) = 0
<1>. DEFINE S == {j \in DOMAIN ledger : Entity(j) = e /\ ledger[j].res.prog = d}
<1>1. IsFiniteSet(DOMAIN ledger)
  BY LedgerFacts, FS_Interval
<1>2. Cardinality(S) \in Nat
  BY <1>1, FS_Subset, FS_CardinalityType
<1>3. S = {} => Cardinality(S) = 0
  BY FS_EmptySet
<1>. QED BY <1>2, <1>3 DEF Tally

\* Dispositions count no launch.
LEMMA TallyKept ==
    ASSUME Types, NEW e, NEW d, DOMAIN ledger' = DOMAIN ledger,
           \A j \in DOMAIN ledger : Entity(j)' = Entity(j) /\ ledger'[j].res = ledger[j].res
    PROVE  Tally(e, d)' = Tally(e, d)
<1>1. {j \in DOMAIN ledger : Entity(j) = e /\ ledger[j].res.prog = d}'
        = {j \in DOMAIN ledger : Entity(j) = e /\ ledger[j].res.prog = d}
  OBVIOUS
<1>. QED BY <1>1 DEF Tally

-----------------------------------------------------------------------------

LEMMA InitSubmission == Init => SubmissionInv
<1>. SUFFICES ASSUME Init PROVE SubmissionInv
  OBVIOUS
<1>. USE KeysAssumption, AttemptsAssumption, SubmissionBounds DEF Init
<1>1. NoDigest \in Digests /\ 0 \in 0..MaxBeats
  BY DEF NoDigest, Digests
<1>2. \A s \in {"ABSENT", "PENDING_CLAIM", "ACTIVE"} : Row(s) \in RowType /\ Row(s).state = s /\ Row(s).attempts = 0
  BY DEF Row, RowType, NoDigest, Errors
<1>3. NoUnit \in Units /\ ~NoUnit.dead
  BY <1>1 DEF NoUnit, Units
<1>4. ledger = << >> /\ Len(ledger) = 0 /\ DOMAIN ledger = {} /\ ledger \in Seq(Intents)
  OBVIOUS
<1>5. row \in [Entities -> RowType] /\ msg \in [Keys -> Messages] /\ beats \in [Lineages -> 0..MaxBeats]
  BY <1>1, <1>2 DEF Messages
<1>6. unit \in [Ids -> Units] /\ \A i \in Ids : unit[i] = NoUnit
  BY <1>3
<1>7. Types
  BY <1>3, <1>4, <1>5, <1>6 DEF Types, Scanning
<1>8. RowsAgree
  BY <1>2, EntityFacts DEF RowsAgree, Keys, WatchState
<1>9. Counting /\ Budgeted
  <2>1. \A e \in Entities : \A d : Tally(e, d) = 0
    BY <1>4, <1>7, TallyFacts
  <2>2. \A e \in Entities : row[e].attempts >= 0
    BY <1>2
  <2>. QED BY <2>1, <2>2 DEF Counting, Counted1, Budgeted
<1>10. StoreInv
  BY <1>4, <1>8, <1>9 DEF StoreInv, Reservations, KeyOrder, Outcomes, FenceLists, Unclaimed,
     NeverTwice, AttachedIsOwn, HeldIsFinal
<1>11. LoopInv /\ FenceInv /\ LaunchInv
  BY DEF LoopInv, FenceInv, LaunchInv, Scanning, Launching
<1>. QED BY <1>7, <1>10, <1>11 DEF SubmissionInv

-----------------------------------------------------------------------------
(* Steps of children that only concern their attempts.                      *)

\* What an attempt never does: a process comes up only at its call, an attempt is never
\* forgotten, and a process that died or never was has none.
UnitMoves ==
    \A i \in Ids : /\ Live(i)' => Live(i)
                   /\ unit'[i].st = None <=> unit[i].st = None
                   /\ unit'[i].st = "started" => unit[i].st = "started"
                   /\ HasAttempt(i) => HasAttempt(i)'
                   /\ HasAttempt(i)' => HasAttempt(i) \/ Live(i)

LEMMA UnitStep ==
    ASSUME SubmissionInv, UnitMoves, UNCHANGED store
    PROVE  StoreInv'
<1>. USE DEF SubmissionInv, StoreInv, store
<1>1. RowsAgree' /\ Reservations' /\ KeyOrder' /\ Counting' /\ Budgeted' /\ HeldIsFinal'
  <2>1. UNCHANGED <<msg, row, beats, ledger>>
    OBVIOUS
  <2>. QED BY <2>1 DEF RowsAgree, WatchState, Reservations, Reserved, Settled, Progress, Entity,
        Unresolved, KeyOrder, Counting, Counted1, Repeatable, Tally, Budgeted, HeldIsFinal
<1>2. Outcomes' /\ Unclaimed'
  BY LedgerFacts DEF UnitMoves, Outcomes, Unclaimed, Entity
<1>3. NeverTwice' /\ FenceLists'
  <2>1. \A i \in DOMAIN ledger : Entity(i)' = Entity(i) /\ i \in Ids
    BY LedgerFacts DEF Entity
  <2>2. NeverTwice'
    BY <2>1 DEF UnitMoves, NeverTwice
  <2>3. FenceLists'
    BY <2>1 DEF UnitMoves, FenceLists, NeverTwice
  <2>. QED BY <2>2, <2>3
<1>4. AttachedIsOwn'
  BY LedgerFacts DEF UnitMoves, AttachedIsOwn
<1>. QED BY <1>1, <1>2, <1>3, <1>4

\* The pass relies on nothing a child does to its attempt but that none comes up.
LEMMA UnitPass ==
    ASSUME SubmissionInv, UnitMoves, UNCHANGED <<store, pass>>
    PROVE  LoopInv' /\ FenceInv' /\ LaunchInv'
<1>. USE DEF SubmissionInv, store, pass
<1>1. UNCHANGED <<msg, row, beats, ledger, pc, todo, cur, fenced>>
  OBVIOUS
<1>2. LoopInv'
  BY <1>1 DEF LoopInv, With, Unresolved
<1>3. FenceInv'
  BY <1>1 DEF FenceInv, Fenced, Entity, Unresolved, Reserved, Settled, Progress, WatchState, Tally
<1>4. LaunchInv'
  BY <1>1, LedgerFacts DEF LaunchInv, UnitMoves, Entity, Last
<1>. QED BY <1>2, <1>3, <1>4

\* One attempt that moves from a state to a later one.
LEMMA AttemptMoves ==
    ASSUME SubmissionInv, NEW i \in DOMAIN ledger, NEW u \in Units, unit' = [unit EXCEPT ![i] = u],
           ~unit[i].dead, unit[i].st \in {"started"} \cup Active, u.st # None, u.st # "started",
           unit[i].st \in Active => u.st \in Active \cup Ended,
           u.st \notin Active => ~u.dead,
           recent' \subseteq Ids, UNCHANGED <<store, late, pass, crashes>>
    PROVE  SubmissionInv'
<1>. USE DEF SubmissionInv
<1>1. i \in Ids /\ DOMAIN unit = Ids /\ unit \in [Ids -> Units]
  BY LedgerFacts DEF Types
<1>2. \A j \in Ids : unit'[j] = IF j = i THEN u ELSE unit[j]
  BY <1>1
<1>3. unit' \in [Ids -> Units]
  BY <1>1
<1>4. Types'
  BY <1>1, <1>2, <1>3 DEF Types, store, pass, Active
<1>5. UnitMoves
  BY <1>1, <1>2 DEF UnitMoves, Live, HasAttempt, Active, Ended, None
<1>. QED BY <1>4, <1>5, UnitStep, UnitPass

LEMMA AttemptSteps ==
    ASSUME SubmissionInv, NEW i \in Ids, ReserveAttempt(i) \/ Advance(i) \/ Exit(i) \/ Die(i)
    PROVE  SubmissionInv'
<1>. USE DEF SubmissionInv
<1>0. /\ late \in Int /\ UNCHANGED <<store, late, pass, crashes>> /\ i \in DOMAIN ledger
      /\ unit[i] \in Units /\ unit[i].st \in {"started"} \cup Active /\ ~unit[i].dead
      /\ Digest(Target(Entity(i))) \in Digests
  <2>1. i \in DOMAIN ledger
    BY DEF ReserveAttempt, Advance, Exit, Die, Alive
  <2>2. Digest(Target(Entity(i))) \in Digests
    BY <2>1, LedgerFacts, TargetFacts, DigestTyped
  <2>. QED BY <2>1, <2>2, LedgerFacts DEF ReserveAttempt, Advance, Exit, Die, Alive, Types, Active
<1>1. ASSUME NEW u \in Units, Event(i, u), u.st \in Active \cup Ended, u.dead = unit[i].dead
      PROVE  SubmissionInv'
  <2>. DEFINE v == [u EXCEPT !.after = late]
  <2>1. unit' = [unit EXCEPT ![i] = v] /\ recent' \subseteq Ids
    BY <1>1 DEF Event, Types
  <2>2. v \in Units /\ v.st = u.st /\ v.dead = unit[i].dead
    BY <1>0, <1>1 DEF Units
  <2>. QED BY <1>0, <1>1, <2>1, <2>2, AttemptMoves DEF Active, Ended, None
<1>2. ASSUME NEW u \in Units, unit' = [unit EXCEPT ![i] = u], UNCHANGED recent,
             \/ u.st = "gone" /\ u.dead = unit[i].dead /\ unit[i].st = "started"
             \/ u.st = unit[i].st /\ unit[i].st # "started"
      PROVE  SubmissionInv'
  BY <1>0, <1>2, AttemptMoves DEF Active, Ended, None, Types
<1>3. CASE ReserveAttempt(i)
  <2>. DEFINE u == [unit[i] EXCEPT !.st = "RESERVED", !.prog = Digest(Target(Entity(i)))]
              v == [unit[i] EXCEPT !.st = "gone"]
  <2>1. u \in Units /\ u.st = "RESERVED" /\ u.dead = unit[i].dead /\ v \in Units /\ v.st = "gone" /\ v.dead = unit[i].dead
    BY <1>0 DEF Units, Active
  <2>2. unit[i].st = "started" /\ \/ Event(i, u)
                                  \/ unit' = [unit EXCEPT ![i] = v] /\ UNCHANGED recent
    BY <1>3 DEF ReserveAttempt, Alive
  <2>. QED BY <1>1, <1>2, <2>1, <2>2 DEF Active
<1>4. CASE Advance(i)
  <2>1. PICK s \in Active \cup Ended : Event(i, [unit[i] EXCEPT !.st = s])
    BY <1>4 DEF Advance, Active, Ended
  <2>2. [unit[i] EXCEPT !.st = s] \in Units /\ [unit[i] EXCEPT !.st = s].st = s
        /\ [unit[i] EXCEPT !.st = s].dead = unit[i].dead
    BY <1>0 DEF Units
  <2>. QED BY <1>1, <2>1, <2>2
<1>5. CASE Exit(i)
  <2>1. PICK s \in {"HOLD", "COMPLETE"} :
            Event(i, [unit[i] EXCEPT !.st = s, !.tprog = Digest(Target(Entity(i)))])
    BY <1>5 DEF Exit
  <2>. DEFINE u == [unit[i] EXCEPT !.st = s, !.tprog = Digest(Target(Entity(i)))]
  <2>2. u \in Units /\ u.st = s /\ u.dead = unit[i].dead
    BY <1>0 DEF Units, Ended
  <2>. QED BY <1>1, <2>1, <2>2 DEF Ended
<1>6. CASE Die(i)
  <2>1. CASE unit[i].st = "started"
    <3>1. [unit[i] EXCEPT !.st = "gone"] \in Units /\ [unit[i] EXCEPT !.st = "gone"].st = "gone"
          /\ [unit[i] EXCEPT !.st = "gone"].dead = unit[i].dead
      BY <1>0 DEF Units
    <3>2. unit' = [unit EXCEPT ![i] = [unit[i] EXCEPT !.st = "gone"]] /\ UNCHANGED recent
      BY <1>6, <2>1 DEF Die
    <3>. QED BY <1>2, <2>1, <3>1, <3>2
  <2>2. CASE unit[i].st # "started"
    <3>1. [unit[i] EXCEPT !.dead = TRUE] \in Units /\ [unit[i] EXCEPT !.dead = TRUE].st = unit[i].st
      BY <1>0 DEF Units
    <3>2. unit' = [unit EXCEPT ![i] = [unit[i] EXCEPT !.dead = TRUE]] /\ UNCHANGED recent
      BY <1>6, <2>2 DEF Die
    <3>. QED BY <1>2, <2>2, <3>1, <3>2
  <2>. QED BY <2>1, <2>2
<1>. QED BY <1>3, <1>4, <1>5, <1>6

-----------------------------------------------------------------------------
(* Steps that move messages, watches and rows, and leave the ledger alone.  *)

\* Messages, held rows and watches only go forward, and a watch beats while it is
\* ACTIVE.
Progressing ==
    /\ \A k \in Keys : /\ msg[k] # "ABSENT" => msg'[k] # "ABSENT"
                       /\ msg[k] \notin {"ABSENT", "PREPARED"} => msg'[k] \notin {"ABSENT", "PREPARED"}
                       /\ msg[k] \in {"COMPLETE", "HOLD"} => msg'[k] = msg[k]
    /\ \A e \in Entities : row[e].state = "HOLD" => row'[e].state = "HOLD"
    /\ \A l \in Lineages : /\ WatchState(l) # "PENDING_CLAIM" => row'[Watch(l)].state # "PENDING_CLAIM"
                           /\ beats'[l] # beats[l] => WatchState(l) = "ACTIVE" /\ beats'[l] > beats[l]

\* The rows still say how often they were launched, but where the watch beats.
CountsKept ==
    \A e \in Entities :
        /\ row'[e].prog = row[e].prog
        /\ row'[e].attempts = row[e].attempts \/ (e.kind = "watch" /\ beats'[e.key] # beats[e.key])

LEMMA ReservedKept ==
    ASSUME SubmissionInv, Types', Progressing, UNCHANGED ledger, NEW e \in Entities, NEW r, Reserved(e, r)
    PROVE  Reserved(e, r)'
<1>. USE DEF SubmissionInv
<1>1. e.key \in Keys /\ msg'[e.key] # "ABSENT"
  BY EntityFacts DEF Reserved, Progressing
<1>2. CASE e.kind = "watch"
  <2>1. e.key \in Lineages
    BY <1>2, EntityFacts
  <2>2. beats[e.key] \in Nat /\ beats'[e.key] \in Nat /\ beats'[e.key] >= beats[e.key]
    <3>1. beats[e.key] \in 0..MaxBeats /\ beats'[e.key] \in 0..MaxBeats
      BY <2>1 DEF Types
    <3>2. beats'[e.key] = beats[e.key] \/ beats'[e.key] > beats[e.key]
      BY <2>1 DEF Progressing
    <3>. QED BY <3>1, <3>2, SubmissionBounds
  <2>3. PICK b \in 0..beats[e.key] : r.prog = <<None, "ACTIVE", b>>
    BY <1>2 DEF Reserved
  <2>4. b \in 0..beats'[e.key]
    BY <2>2
  <2>. QED BY <1>1, <1>2, <2>3, <2>4 DEF Reserved
<1>3. CASE e.kind = "claimed"
  <2>1. e.key \in Lineages /\ Settled(e.key)
    BY <1>3, EntityFacts DEF Reserved
  <2>2. beats'[e.key] = beats[e.key]
    BY <2>1 DEF Settled, Progressing
  <2>3. Settled(e.key)'
    <3>1. msg'[e.key] # "PREPARED" /\ Watch(e.key) \in Entities
      BY <1>1, <2>1, EntityFacts DEF Settled, Progressing, StoreInv, RowsAgree
    <3>2. WatchState(e.key)' = "HOLD"
      BY <2>1, <3>1 DEF Settled, Progressing, WatchState
    <3>. QED BY <2>1, <3>1, <3>2 DEF Settled, Entity, Unresolved, Watch
  <2>. QED BY <1>1, <1>3, <2>2, <2>3 DEF Reserved, Progress
<1>4. CASE e.kind = "prepared"
  BY <1>1, <1>4 DEF Reserved, Progress
<1>. QED BY <1>2, <1>3, <1>4, EntityFacts

LEMMA CountingKept ==
    ASSUME SubmissionInv, row' \in [Entities -> RowType], beats' \in [Lineages -> 0..MaxBeats],
           Progressing, CountsKept, \A e, d : Tally(e, d)' = Tally(e, d)
    PROVE  Counting'
<1>. USE DEF SubmissionInv, StoreInv
<1>0. \A e, d : Tally(e, d)' = Tally(e, d)
  OBVIOUS
<1>. SUFFICES ASSUME NEW e \in Entities, Repeatable(e)' PROVE Counted1(e)'
  BY DEF Counting
<1>1. e.key \in Keys /\ row'[e].attempts \in Nat /\ row[e].attempts \in Nat
  BY EntityFacts, AttemptsAssumption DEF Types, RowType
<1>2. CASE e.kind # "prepared" /\ beats'[e.key] # beats[e.key]
  <2>1. e.key \in Lineages /\ WatchState(e.key) = "ACTIVE" /\ beats'[e.key] > beats[e.key]
        /\ beats[e.key] \in Nat /\ beats'[e.key] \in Nat
    BY <1>2, EntityFacts, SubmissionBounds DEF Progressing, Types
  <2>2. ASSUME NEW i \in DOMAIN ledger, Entity(i) = e, ledger[i].res.prog = Progress(e)'
        PROVE  FALSE
    <3>1. Reserved(e, ledger[i].res)
      BY <2>2 DEF Reservations
    <3>2. e.kind = "watch"
      BY <1>2, <2>1, <3>1, EntityFacts DEF Reserved, Settled
    <3>3. PICK b \in 0..beats[e.key] : ledger[i].res.prog = <<None, "ACTIVE", b>>
      BY <3>1, <3>2 DEF Reserved
    <3>4. Progress(e)' = <<None, "ACTIVE", beats'[e.key]>>
      BY <3>2 DEF Progress
    <3>5. <<None, "ACTIVE", b>> = <<None, "ACTIVE", beats'[e.key]>>
      BY <2>2, <3>3, <3>4, Zenon
    <3>6. b = beats'[e.key]
      BY <3>5
    <3>. QED BY <2>1, <3>6
  <2>3. PICK d : d = Progress(e)'
    OBVIOUS
  <2>4. Tally(e, d) = 0 /\ Tally(e, d)' = 0
    BY <1>0, <2>2, <2>3, TallyFacts
  <2>5. Tally(e, Progress(e))' = Tally(e, d)'
    BY <2>3 DEF Tally
  <2>. QED BY <1>1, <2>4, <2>5 DEF Counted1
<1>3. CASE e.kind = "prepared" \/ beats'[e.key] = beats[e.key]
  <2>1. Progress(e)' = Progress(e)
    BY <1>3 DEF Progress
  <2>2. Repeatable(e)
    <3>1. e.kind = "prepared" => msg[e.key] \in {"ABSENT", "PREPARED"}
                                 /\ (e.key \in Lineages => WatchState(e.key) = "PENDING_CLAIM")
      BY <1>1, EntityFacts DEF Repeatable, Progressing, WatchState, Types, Messages
    <3>2. e.kind = "claimed" => msg[e.key] \in {"PREPARED", "CLAIMED"}
      BY <1>1, EntityFacts DEF Repeatable, Progressing, Types, Messages, RowsAgree
    <3>. QED BY <3>1, <3>2 DEF Repeatable
  <2>3. Counted1(e) /\ row'[e].prog = row[e].prog /\ row'[e].attempts = row[e].attempts
    BY <1>3, <2>2 DEF Counting, CountsKept
  <2>4. Tally(e, Progress(e))' = Tally(e, Progress(e))
    <3>1. PICK d : d = Progress(e)
      OBVIOUS
    <3>2. Tally(e, Progress(e))' = Tally(e, d)'
      BY <2>1, <3>1 DEF Tally
    <3>. QED BY <1>0, <3>1, <3>2
  <2>. QED BY <2>1, <2>3, <2>4 DEF Counted1
<1>. QED BY <1>2, <1>3

LEMMA StoreStep ==
    ASSUME SubmissionInv, Types', RowsAgree', Unclaimed', Counting', Progressing,
           UNCHANGED <<ledger, unit>>
    PROVE  StoreInv'
<1>. USE DEF SubmissionInv, StoreInv
<1>0. \A i \in DOMAIN ledger : Entity(i)' = Entity(i) /\ Entity(i) \in Entities /\ Entity(i).key \in Keys
  BY LedgerFacts, EntityFacts DEF Entity
<1>1. Reservations'
  <2>1. DOMAIN ledger' = DOMAIN ledger /\ \A i \in DOMAIN ledger : ledger'[i].res = ledger[i].res
    OBVIOUS
  <2>. QED BY <1>0, <2>1, ReservedKept DEF Reservations
<1>2. KeyOrder' /\ HeldIsFinal' /\ AttachedIsOwn' /\ FenceLists' /\ NeverTwice'
  BY DEF KeyOrder, Entity, Unresolved, HeldIsFinal, AttachedIsOwn, HasAttempt, FenceLists, NeverTwice, Live
<1>3. Outcomes'
  BY <1>0 DEF Outcomes, Progressing
<1>4. \A e, d : Tally(e, d)' = Tally(e, d)
  BY DEF Tally, Entity
<1>5. Budgeted'
  BY <1>4 DEF Budgeted
<1>. QED BY <1>1, <1>2, <1>3, <1>5

\* The pass that stays where it is does not mind.
LEMMA StorePass ==
    ASSUME SubmissionInv, Types', Progressing, UNCHANGED <<ledger, unit, pass>>,
           pc \in {"precall", "call"} /\ Entity(Last).kind = "prepared" => msg'[Entity(Last).key] # "CLAIMED"
    PROVE  LoopInv' /\ FenceInv' /\ LaunchInv'
<1>. USE DEF SubmissionInv, pass
<1>1. LoopInv'
  BY DEF LoopInv, With, Unresolved
<1>2. FenceInv'
  <2>1. Fenced' = Fenced /\ Len(ledger') = Len(ledger)
    BY DEF Fenced, Entity, Unresolved
  <2>2. ASSUME pc = "record"
        PROVE  Reserved(cur.e, cur.row)' /\ (Tally(cur.e, cur.row.prog) < cur.row.attempts)'
    <3>1. PICK e, r : e = cur.e /\ r = cur.row
      OBVIOUS
    <3>2. e \in Entities /\ Reserved(e, r)
      BY <2>2, <3>1 DEF FenceInv, Chosen
    <3>3. Reserved(e, r)'
      BY <3>2, ReservedKept
    <3>4. cur'.e = e /\ cur'.row = r
      BY <3>1
    <3>5. Reserved(cur.e, cur.row)'
      BY <3>3, <3>4 DEF Reserved, Settled, WatchState, Entity, Unresolved, Progress
    <3>6. (Tally(cur.e, cur.row.prog) < cur.row.attempts)'
      BY <2>2 DEF FenceInv, Tally, Entity
    <3>. QED BY <3>5, <3>6
  <2>. QED BY <2>1, <2>2 DEF FenceInv
<1>3. LaunchInv'
  BY LedgerFacts DEF LaunchInv, Entity, Last
<1>. QED BY <1>1, <1>2, <1>3

\* A step that claims nothing.
LEMMA QuietStore ==
    ASSUME SubmissionInv, Types', RowsAgree', Progressing, CountsKept, UNCHANGED <<ledger, unit>>,
           \A k \in Keys : msg'[k] = "CLAIMED" => msg[k] = "CLAIMED"
    PROVE  StoreInv' /\ (UNCHANGED pass => SubmissionInv')
<1>. USE DEF SubmissionInv
<1>1. Unclaimed'
  <2>1. \A i \in DOMAIN ledger : Entity(i)' = Entity(i) /\ Entity(i).key \in Keys
    BY LedgerFacts, EntityFacts DEF Entity
  <2>. QED BY <2>1 DEF StoreInv, Unclaimed
<1>2. pc \in {"precall", "call"} /\ Entity(Last).kind = "prepared" => msg'[Entity(Last).key] # "CLAIMED"
  <2>1. pc \in {"precall", "call"} => Entity(Last).key \in Keys
    BY LedgerFacts, EntityFacts DEF LaunchInv, Launching
  <2>. QED BY <2>1 DEF LaunchInv, Launching
<1>3. \A e, d : Tally(e, d)' = Tally(e, d)
  BY DEF Tally, Entity
<1>4. Counting'
  BY <1>3, CountingKept DEF Types
<1>. QED BY <1>1, <1>2, <1>4, StoreStep, StorePass

\* One row that keeps its counts.
LEMMA OneRow ==
    ASSUME Types, NEW e \in Entities, NEW r \in RowType, row' = [row EXCEPT ![e] = r]
    PROVE  /\ row' \in [Entities -> RowType]
           /\ \A f \in Entities : row'[f] = IF f = e THEN r ELSE row[f]
BY DEF Types

LEMMA ChildMessages ==
    ASSUME SubmissionInv, NEW i \in Ids, Answer(i) \/ Closeout(i) \/ Heartbeat(i)
    PROVE  SubmissionInv'
<1>. USE KeysAssumption, SubmissionBounds DEF SubmissionInv
<1>. DEFINE k == Key(i)
<1>0. i \in DOMAIN ledger /\ k \in Keys
  BY LedgerFacts, EntityFacts DEF Answer, Closeout, Heartbeat, Alive, Key
<1>1. CASE Answer(i)
  <2>1. PICK s \in {"COMPLETE", "HOLD"} : msg' = [msg EXCEPT ![k] = s]
    BY <1>1 DEF Answer
  <2>2. /\ k \in Notices /\ k \notin Lineages /\ msg[k] = "CLAIMED"
        /\ UNCHANGED <<row, beats, ledger, children, late, pass, crashes>>
    BY <1>1 DEF Answer
  <2>3. msg' \in [Keys -> Messages] /\ \A j \in Keys : msg'[j] = IF j = k THEN s ELSE msg[j]
    BY <1>0, <2>1 DEF Types, Messages
  <2>. HIDE DEF k
  <2>4. Types'
    BY <2>2, <2>3 DEF Types, children, pass
  <2>5. RowsAgree' /\ Progressing /\ CountsKept
    BY <2>2, <2>3 DEF StoreInv, RowsAgree, Keys, Progressing, CountsKept, WatchState
  <2>6. UNCHANGED <<ledger, unit>> /\ UNCHANGED pass
    BY <2>2 DEF children
  <2>. QED BY <2>1, <2>3, <2>4, <2>5, <2>6, QuietStore
<1>2. CASE Closeout(i)
  <2>. DEFINE w == Watch(k)
              r == [row[w] EXCEPT !.state = "COMPLETE", !.proc = 0, !.err = None]
  <2>1. /\ WatchState(k) = "ACTIVE" /\ msg[k] = "CLAIMED" /\ msg' = [msg EXCEPT ![k] = "COMPLETE"]
        /\ row' = [row EXCEPT ![w] = r] /\ UNCHANGED <<beats, ledger, children, late, pass, crashes>>
    BY <1>2 DEF Closeout
  <2>2. k \in Lineages /\ w \in Entities /\ w.kind = "watch" /\ w.key = k /\ row[w] \in RowType
    BY <2>1, EntityFacts DEF WatchState, None, Types
  <2>3. r \in RowType /\ r.state = "COMPLETE" /\ r.prog = row[w].prog /\ r.attempts = row[w].attempts
    BY <2>2, RowWrites DEF RowType
  <2>. HIDE DEF r
  <2>4. /\ row' \in [Entities -> RowType] /\ \A f \in Entities : row'[f] = IF f = w THEN r ELSE row[f]
        /\ msg' \in [Keys -> Messages] /\ \A j \in Keys : msg'[j] = IF j = k THEN "COMPLETE" ELSE msg[j]
    BY <1>0, <2>1, <2>2, <2>3, OneRow DEF Types, Messages
  <2>. HIDE DEF k
  <2>5. Types'
    BY <2>1, <2>4 DEF Types, children, pass
  <2>6. RowsAgree'
    BY <2>1, <2>2, <2>3, <2>4, EntityFacts DEF StoreInv, RowsAgree, Keys, WatchState
  <2>7. Progressing /\ CountsKept
    BY <2>1, <2>2, <2>3, <2>4, EntityFacts DEF Progressing, CountsKept, WatchState
  <2>8. UNCHANGED <<ledger, unit>> /\ UNCHANGED pass
    BY <2>1 DEF children
  <2>. QED BY <2>4, <2>5, <2>6, <2>7, <2>8, QuietStore
<1>3. CASE Heartbeat(i)
  <2>. DEFINE w == Watch(k)
              r == HeartbeatRow(row[w])
  <2>1. /\ WatchState(k) = "ACTIVE" /\ beats[k] < MaxBeats /\ beats' = [beats EXCEPT ![k] = @ + 1]
        /\ row' = [row EXCEPT ![w] = r] /\ UNCHANGED <<msg, ledger, children, late, pass, crashes>>
    BY <1>3 DEF Heartbeat
  <2>2. k \in Lineages /\ w \in Entities /\ w.kind = "watch" /\ w.key = k /\ row[w] \in RowType
        /\ row[w].state = "ACTIVE" /\ beats[k] \in 0..MaxBeats
    BY <2>1, EntityFacts DEF WatchState, None, Types
  <2>3. r \in RowType /\ r.state = "ACTIVE" /\ r.prog = row[w].prog
    <3>1. r \in RowType
      BY <2>2, RowWrites
    <3>. QED BY <2>2, <3>1 DEF RowType, HeartbeatRow
  <2>. HIDE DEF r
  <2>4. /\ row' \in [Entities -> RowType] /\ \A f \in Entities : row'[f] = IF f = w THEN r ELSE row[f]
        /\ beats' \in [Lineages -> 0..MaxBeats]
        /\ \A l \in Lineages : beats'[l] = IF l = k THEN beats[k] + 1 ELSE beats[l]
    BY <2>1, <2>2, <2>3, OneRow DEF Types
  <2>. HIDE DEF k
  <2>5. Types'
    BY <2>1, <2>4 DEF Types, children, pass
  <2>6. RowsAgree'
    BY <2>1, <2>2, <2>3, <2>4, EntityFacts DEF StoreInv, RowsAgree, WatchState
  <2>7. Progressing /\ CountsKept
    BY <2>1, <2>2, <2>3, <2>4, EntityFacts DEF Progressing, CountsKept, WatchState
  <2>8. UNCHANGED <<ledger, unit>> /\ UNCHANGED pass
    BY <2>1 DEF children
  <2>. QED BY <2>1, <2>5, <2>6, <2>7, <2>8, QuietStore
<1>. QED BY <1>1, <1>2, <1>3

\* A prepared message is claimed by its own child: a child of the message that is not
\* yet running would be the second one of the message.
LEMMA ClaimStep ==
    ASSUME SubmissionInv, NEW i \in Ids, Claim(i)
    PROVE  SubmissionInv'
<1>. USE DEF SubmissionInv
<1>. DEFINE k == Key(i)
            w == Watch(k)
            r == [row[w] EXCEPT !.state = "ACTIVE"]
<1>0. /\ i \in DOMAIN ledger /\ k \in Keys /\ k = Entity(i).key /\ Entity(i) \in Entities
      /\ Entity(i).kind # "watch" /\ Live(i) /\ unit[i].st = "RUNNING"
  BY LedgerFacts, EntityFacts DEF Claim, Alive, Key, Live, Active
<1>1. /\ msg[k] = "PREPARED" /\ ~ContractError(k) /\ msg' = [msg EXCEPT ![k] = "CLAIMED"]
      /\ row' = IF k \in Lineages THEN [row EXCEPT ![w] = r] ELSE row
      /\ UNCHANGED <<beats, ledger, children, late, pass, crashes>>
  BY DEF Claim
<1>2. msg' \in [Keys -> Messages] /\ \A j \in Keys : msg'[j] = IF j = k THEN "CLAIMED" ELSE msg[j]
  BY <1>0, <1>1 DEF Types, Messages
<1>3. k \in Lineages => /\ w \in Entities /\ w.kind = "watch" /\ w.key = k
                        /\ r \in RowType /\ r.state = "ACTIVE" /\ r.prog = row[w].prog
                        /\ r.attempts = row[w].attempts
                        /\ row[w].state = "PENDING_CLAIM"
  <2>1. k \in Lineages => w \in Entities /\ w.kind = "watch" /\ w.key = k /\ row[w] \in RowType
    BY EntityFacts DEF Types
  <2>2. k \in Lineages => row[w].state = "PENDING_CLAIM"
    BY <1>1 DEF StoreInv, RowsAgree, ContractError, Open, WatchState
  <2>. QED BY <2>1, <2>2 DEF RowType
<1>. HIDE DEF r
<1>4. /\ row' \in [Entities -> RowType]
      /\ \A f \in Entities : row'[f] = IF k \in Lineages /\ f = w THEN r ELSE row[f]
  BY <1>1, <1>3, OneRow DEF Types
<1>5. Types'
  BY <1>1, <1>2, <1>4 DEF Types, children, pass
<1>. HIDE DEF k, w
<1>6. RowsAgree'
  BY <1>1, <1>2, <1>3, <1>4, EntityFacts DEF StoreInv, RowsAgree, WatchState, Keys, w
<1>7. Progressing /\ CountsKept
  BY <1>1, <1>2, <1>3, <1>4, EntityFacts DEF Progressing, CountsKept, WatchState, Keys, w
<1>8. ASSUME NEW j \in DOMAIN ledger, Entity(j).kind = "prepared", Entity(j).key = k,
             unit[j].st = "started" \/ (j = Last /\ pc \in {"precall", "call"})
      PROVE  FALSE
  <2>1. Target(Entity(j)) = Target(Entity(i)) /\ i # j
    <3>1. Entity(j) \in Entities
      BY LedgerFacts
    <3>2. i # j
      BY <1>0, <1>8 DEF LaunchInv, Launching, None
    <3>. QED BY <1>0, <1>8, <3>1, <3>2, TargetFacts
  <2>2. CASE i < j
    BY <1>0, <2>1, <2>2 DEF StoreInv, NeverTwice
  <2>3. CASE j < i
    <3>1. j # Last
      BY <1>0, <2>3, LedgerFacts DEF Last
    <3>2. ~unit[j].dead /\ unit[j].st = "started"
      BY <1>8, <3>1, LedgerFacts DEF Types
    <3>. QED BY <1>0, <2>1, <2>3, <3>2 DEF StoreInv, NeverTwice, Live
  <2>. QED BY <1>0, <2>1, <2>2, <2>3, LedgerFacts
<1>9. Unclaimed' /\ (pc \in {"precall", "call"} /\ Entity(Last).kind = "prepared"
                       => msg'[Entity(Last).key] # "CLAIMED")
  <2>1. \A j \in DOMAIN ledger : Entity(j)' = Entity(j) /\ Entity(j).key \in Keys
    BY <1>1, LedgerFacts, EntityFacts DEF Entity
  <2>2. pc \in {"precall", "call"} => /\ Last \in DOMAIN ledger
                                      /\ Entity(Last).kind = "prepared" => msg[Entity(Last).key] # "CLAIMED"
    BY DEF LaunchInv, Launching
  <2>3. Unclaimed'
    BY <1>1, <1>2, <1>8, <2>1 DEF StoreInv, Unclaimed, children
  <2>. QED BY <1>2, <1>8, <2>1, <2>2, <2>3
<1>10. UNCHANGED <<ledger, unit>> /\ UNCHANGED pass
  BY <1>1 DEF children
<1>11. \A f, d : Tally(f, d)' = Tally(f, d)
  BY <1>1 DEF Tally, Entity
<1>12. Counting'
  BY <1>5, <1>7, <1>11, CountingKept DEF Types
<1>. QED BY <1>5, <1>6, <1>7, <1>9, <1>10, <1>12, StoreStep, StorePass

LEMMA EnvironmentSteps ==
    ASSUME SubmissionInv, \/ \E n \in Notices : Enqueue(n)
                          \/ \E l \in Lineages : Replan(l)
    PROVE  SubmissionInv'
<1>. USE KeysAssumption DEF SubmissionInv
<1>1. ASSUME NEW n \in Notices, Enqueue(n) PROVE SubmissionInv'
  <2>1. msg[n] = "ABSENT" /\ UNCHANGED <<row, beats, ledger, children, late, pass, crashes>>
    BY <1>1 DEF Enqueue
  <2>2. msg' \in [Keys -> Messages] /\ \A j \in Keys : msg'[j] = IF j = n THEN "PREPARED" ELSE msg[j]
    BY <1>1 DEF Enqueue, Types, Messages, Keys
  <2>3. Types'
    BY <2>1, <2>2 DEF Types, children, pass
  <2>4. RowsAgree' /\ Progressing /\ CountsKept
    BY <2>1, <2>2 DEF StoreInv, RowsAgree, Keys, Progressing, CountsKept, WatchState
  <2>5. UNCHANGED <<ledger, unit>> /\ UNCHANGED pass
    BY <2>1 DEF children
  <2>. QED BY <2>2, <2>3, <2>4, <2>5, QuietStore
<1>2. ASSUME NEW l \in Lineages, Replan(l) PROVE SubmissionInv'
  <2>. DEFINE w == Watch(l)
              r == [row[w] EXCEPT !.state = "COMPLETE", !.proc = 0, !.err = None]
  <2>1. /\ row[w].state \in {"PENDING_CLAIM", "ACTIVE"} /\ row' = [row EXCEPT ![w] = r]
        /\ UNCHANGED <<msg, beats, ledger, children, late, pass, crashes>>
    BY <1>2 DEF Replan, WatchState
  <2>2. w \in Entities /\ w.kind = "watch" /\ w.key = l /\ row[w] \in RowType
    BY EntityFacts DEF Types
  <2>3. r \in RowType /\ r.state = "COMPLETE" /\ r.prog = row[w].prog /\ r.attempts = row[w].attempts
    BY <2>2, RowWrites DEF RowType
  <2>. HIDE DEF r
  <2>4. row' \in [Entities -> RowType] /\ \A f \in Entities : row'[f] = IF f = w THEN r ELSE row[f]
    BY <2>1, <2>2, <2>3, OneRow
  <2>5. Types'
    BY <2>1, <2>4 DEF Types, children, pass
  <2>6. RowsAgree'
    BY <2>1, <2>2, <2>3, <2>4, EntityFacts DEF StoreInv, RowsAgree, WatchState
  <2>7. Progressing /\ CountsKept
    BY <2>1, <2>2, <2>3, <2>4, EntityFacts DEF Progressing, CountsKept, WatchState
  <2>8. UNCHANGED <<ledger, unit>> /\ UNCHANGED pass
    BY <2>1 DEF children
  <2>. QED BY <2>1, <2>5, <2>6, <2>7, <2>8, QuietStore
<1>. QED BY <1>1, <1>2

-----------------------------------------------------------------------------
(* Steps of the pass that leave the ledger alone.                           *)

LEMMA AtRest == pc' = "idle" => LoopInv' /\ FenceInv' /\ LaunchInv'
BY DEF LoopInv, FenceInv, LaunchInv, Scanning, Launching

\* Back in the scan only the fence matters.
LEMMA InScan == pc' = "select" /\ Fenced' \subseteq fenced' => LoopInv' /\ FenceInv' /\ LaunchInv'
BY DEF LoopInv, FenceInv, LaunchInv, Scanning, Launching

LEMMA SameStore == SubmissionInv /\ UNCHANGED <<store, unit>> => StoreInv'
<1>. SUFFICES ASSUME SubmissionInv, UNCHANGED <<store, unit>> PROVE StoreInv'
  OBVIOUS
<1>1. UnitMoves
  <2>1. UNCHANGED unit
    OBVIOUS
  <2>. QED BY <2>1 DEF UnitMoves, Live, HasAttempt
<1>. QED BY <1>1, UnitStep

LEMMA SameFence == UNCHANGED ledger => Fenced' = Fenced /\ \A d : With(d)' = With(d)
BY DEF Fenced, With, Entity, Unresolved

\* The steps between two transactions.
LEMMA QuietPass ==
    ASSUME SubmissionInv, NextLoop \/ EndScan \/ NotDue \/ Poll \/ TimeOut \/ Crash \/ Tick
                          \/ \E t \in Targets : Select(t)
    PROVE  SubmissionInv'
<1>. USE DEF SubmissionInv
<1>1. UNCHANGED <<store, unit>>
  BY DEF NextLoop, EndScan, NotDue, Poll, TimeOut, Crash, Tick, Select, children
<1>2. StoreInv'
  BY <1>1, SameStore
<1>3. UNCHANGED <<msg, row, beats, ledger, unit>>
  BY <1>1 DEF store
<1>4. Types'
  <2>1. recent' \in {recent, {}} /\ fenced' \in {fenced, {}}
    BY DEF NextLoop, EndScan, NotDue, Poll, TimeOut, Crash, Tick, Select, children, pass, EndPass, Back
  <2>2. late' \in 0..Len(ledger)
    BY <1>3, LedgerFacts DEF NextLoop, EndScan, NotDue, Poll, TimeOut, Crash, Tick, Select, Types
  <2>3. crashes' \in 0..MaxCrashes
    BY SubmissionBounds DEF NextLoop, EndScan, NotDue, Poll, TimeOut, Crash, Tick, Select, Types
  <2>4. pc' \in {"idle", "unbound", "ambiguous", "pending"} \cup Scanning
    BY DEF NextLoop, EndScan, NotDue, Poll, TimeOut, Crash, Tick, Select, Types, pass, EndPass, Back,
           Scanning, Launching
  <2>. QED BY <1>3, <2>1, <2>2, <2>3, <2>4 DEF Types
<1>5. CASE EndScan \/ Crash
  BY <1>2, <1>4, <1>5, AtRest DEF EndScan, Crash, EndPass
<1>6. CASE NotDue \/ TimeOut
  <2>1. pc' = "select" /\ fenced' = fenced /\ pc \in Scanning
    BY <1>6 DEF NotDue, TimeOut, Back, Scanning, Launching
  <2>. QED BY <1>2, <1>3, <1>4, <2>1, SameFence, InScan DEF FenceInv
<1>7. CASE NextLoop
  <2>1. pc' \in {"ambiguous", "pending"} /\ todo' = With(IF pc' = "ambiguous" THEN "ambiguous" ELSE "submitted")
    BY <1>7 DEF NextLoop
  <2>2. LoopInv'
    BY <1>3, <2>1, SameFence DEF LoopInv
  <2>3. FenceInv' /\ LaunchInv'
    BY <2>1 DEF FenceInv, LaunchInv, Scanning, Launching
  <2>. QED BY <1>2, <1>4, <2>2, <2>3
<1>8. CASE Tick
  <2>1. pc' = "idle"
    BY <1>8 DEF Tick, pass
  <2>. QED BY <1>2, <1>4, <2>1, AtRest
<1>9. CASE Poll
  <2>1. /\ pc = "await" /\ pc' \in {"await", "finalize", "reject"} /\ UNCHANGED <<todo, cur, fenced>>
    BY <1>9 DEF Poll
  <2>2. LoopInv' /\ FenceInv'
    BY <1>3, <2>1, SameFence DEF LoopInv, FenceInv, Scanning, Launching
  <2>3. LaunchInv'
    BY <1>3, <2>1 DEF LaunchInv, Launching, Last, Entity
  <2>. QED BY <1>2, <1>4, <2>2, <2>3
<1>10. ASSUME NEW t \in Targets, Select(t) PROVE SubmissionInv'
  <2>1. /\ pc = "select" /\ pc' = "reserve" /\ cur'.e = t /\ t.key \notin fenced
        /\ Len(ledger) < MaxIntents /\ fenced' = fenced
    BY <1>10 DEF Select, InTurn, Wanted, NoLaunch
  <2>2. LoopInv' /\ LaunchInv'
    BY <2>1 DEF LoopInv, LaunchInv, Launching
  <2>3. FenceInv'
    BY <1>3, <2>1, SameFence DEF FenceInv, Scanning
  <2>. QED BY <1>2, <1>4, <2>2, <2>3
<1>. QED BY <1>5, <1>6, <1>7, <1>8, <1>9, <1>10

LEMMA BeginStep == ASSUME SubmissionInv, Begin PROVE SubmissionInv'
<1>. USE DEF SubmissionInv
<1>1. PICK stale \in SUBSET Recoverable :
          unit' = [i \in Ids |-> IF i \in stale THEN RecoverAttempt(i) ELSE unit[i]]
  BY DEF Begin
<1>2. UNCHANGED <<store, late, cur, fenced, crashes>> /\ recent' = {} /\ pc' = "unbound" /\ todo' = With(None)
  BY DEF Begin
<1>3. \A i \in stale : /\ i \in Ids /\ i \in DOMAIN ledger /\ unit[i] \in Units
                       /\ unit[i].st \in Active
                       /\ RecoverAttempt(i) \in Units /\ RecoverAttempt(i).st \in {"HOLD", "LAUNCH_FAILED"}
  <2>. SUFFICES ASSUME NEW i \in stale
                PROVE  /\ i \in Ids /\ i \in DOMAIN ledger /\ unit[i] \in Units
                       /\ unit[i].st \in Active
                       /\ RecoverAttempt(i) \in Units /\ RecoverAttempt(i).st \in {"HOLD", "LAUNCH_FAILED"}
    OBVIOUS
  <2>1. i \in 1..late /\ unit[i].st \in Active /\ late \in 0..Len(ledger)
    BY DEF Recoverable, Active, Types
  <2>2. i \in DOMAIN ledger /\ i \in Ids /\ unit[i] \in Units
    BY <2>1, LedgerFacts
  <2>3. PICK s \in {"HOLD", "LAUNCH_FAILED"} : RecoverAttempt(i) = [unit[i] EXCEPT !.st = s, !.after = late]
    BY DEF RecoverAttempt
  <2>4. late \in Int
    BY <2>1
  <2>5. RecoverAttempt(i) \in Units /\ RecoverAttempt(i).st = s
    BY <2>2, <2>3, <2>4 DEF Units, Ended
  <2>. QED BY <2>1, <2>2, <2>5
<1>4. unit' \in [Ids -> Units] /\ \A i \in Ids : unit'[i] = IF i \in stale THEN RecoverAttempt(i) ELSE unit[i]
  BY <1>1, <1>3 DEF Types
<1>5. Types'
  BY <1>2, <1>3, <1>4 DEF Types, store, None
<1>6. UnitMoves
  BY <1>3, <1>4 DEF UnitMoves, Live, HasAttempt, Active, Ended, None
<1>7. StoreInv'
  BY <1>2, <1>6, UnitStep
<1>8. LoopInv' /\ FenceInv' /\ LaunchInv'
  <2>1. With(None)' = With(None)
    BY <1>2, SameFence DEF store
  <2>. QED BY <1>2, <2>1 DEF LoopInv, FenceInv, LaunchInv, Scanning, Launching
<1>. QED BY <1>5, <1>7, <1>8

LEMMA PassOverStep == ASSUME SubmissionInv, NEW t \in Targets, PassOver(t) PROVE SubmissionInv'
<1>. USE DEF SubmissionInv
<1>1. /\ pc = "select" /\ UNCHANGED <<row, beats, ledger, children, late, pc, cur, fenced, crashes>>
      /\ \/ msg' = msg
         \/ ContractError(t.key) /\ msg' = [msg EXCEPT ![t.key] = "HOLD"]
  BY DEF PassOver, InTurn
<1>2. msg' \in [Keys -> Messages] /\ \A k \in Keys : \/ msg'[k] = msg[k]
                                                     \/ msg'[k] = "HOLD" /\ msg[k] \in {"PREPARED", "CLAIMED"}
  BY <1>1 DEF ContractError, Open, Types, Messages
<1>3. Types'
  BY <1>1, <1>2 DEF Types, children
<1>4. RowsAgree' /\ Progressing /\ CountsKept
  BY <1>1, <1>2 DEF StoreInv, RowsAgree, Keys, Progressing, CountsKept, WatchState
<1>5. StoreInv'
  BY <1>1, <1>2, <1>3, <1>4, QuietStore DEF children
<1>6. pc' = "select" /\ Fenced' \subseteq fenced'
  BY <1>1, SameFence DEF FenceInv, Scanning
<1>. QED BY <1>3, <1>5, <1>6, InScan

LEMMA BeginScanStep == ASSUME SubmissionInv, BeginScan PROVE SubmissionInv'
<1>. USE DEF SubmissionInv
<1>1. /\ row' = [e \in Entities |-> IF StaleWake(e) THEN [row[e] EXCEPT !.state = "COMPLETE", !.err = None]
                                    ELSE row[e]]
      /\ fenced' = Fenced /\ pc' = "select" /\ recent' = {}
      /\ UNCHANGED <<msg, beats, ledger, unit, late, cur, crashes>>
  BY DEF BeginScan
<1>2. \A e \in Entities : /\ row[e] \in RowType
                          /\ [row[e] EXCEPT !.state = "COMPLETE", !.err = None] \in RowType
                          /\ StaleWake(e) => e.kind # "watch" /\ row[e].state = "INFLIGHT"
  BY RowWrites DEF Types, StaleWake
<1>3. row' \in [Entities -> RowType]
  BY <1>1, <1>2
<1>4. \A e \in Entities : /\ row'[e].prog = row[e].prog /\ row'[e].attempts = row[e].attempts
                          /\ \/ row'[e].state = row[e].state
                             \/ e.kind # "watch" /\ row[e].state = "INFLIGHT" /\ row'[e].state = "COMPLETE"
  BY <1>1, <1>2 DEF RowType
<1>5. Fenced \subseteq Keys
  BY LedgerFacts, EntityFacts DEF Fenced
<1>6. Types'
  BY <1>1, <1>3, <1>5 DEF Types, Scanning
<1>7. RowsAgree' /\ Progressing /\ CountsKept
  <2>1. \A l \in Lineages : WatchState(l)' = WatchState(l) /\ row'[Watch(l)].state = row[Watch(l)].state
    BY <1>4, EntityFacts DEF WatchState
  <2>2. RowsAgree'
    <3>1. \A e \in Entities :
             row'[e].state \in IF e.kind = "watch" THEN {"PENDING_CLAIM", "ACTIVE", "HOLD", "COMPLETE"}
                               ELSE {"ABSENT", "INFLIGHT", "HOLD", "COMPLETE"}
      BY <1>4 DEF StoreInv, RowsAgree
    <3>. QED BY <1>1, <2>1, <3>1 DEF StoreInv, RowsAgree
  <2>3. Progressing
    BY <1>1, <1>4, <2>1 DEF Progressing, WatchState
  <2>. QED BY <1>4, <2>2, <2>3 DEF CountsKept
<1>8. StoreInv'
  BY <1>1, <1>6, <1>7, QuietStore
<1>9. Fenced' \subseteq fenced'
  BY <1>1, SameFence
<1>. QED BY <1>1, <1>6, <1>8, <1>9, InScan

-----------------------------------------------------------------------------
(* Reservations.                                                            *)

\* _hold_retry_exhausted_locked, for a launch whose message is still open.
LEMMA ExhaustedStep ==
    ASSUME SubmissionInv, NEW e \in Entities, HoldExhausted(e), UNCHANGED beats,
           e.kind # "watch" => msg[e.key] \in {"PREPARED", "CLAIMED"},
           e.kind = "watch" => row[e].state = "ACTIVE"
    PROVE  /\ msg' \in [Keys -> Messages] /\ row' \in [Entities -> RowType]
           /\ RowsAgree' /\ Progressing /\ CountsKept
           /\ \A k \in Keys : msg'[k] = "CLAIMED" => msg[k] = "CLAIMED"
<1>. USE DEF SubmissionInv
<1>. DEFINE held(f) == f = e \/ (e.kind = "prepared" /\ e.key \in Lineages /\ f = Watch(e.key))
<1>1. e.key \in Keys /\ (e.kind = "watch" => e = Watch(e.key) /\ e.key \in Lineages)
  BY EntityFacts
<1>2. msg' \in [Keys -> Messages]
      /\ \A k \in Keys : msg'[k] = IF e.kind # "watch" /\ k = e.key THEN "HOLD" ELSE msg[k]
  BY <1>1 DEF HoldExhausted, Types, Messages
<1>3. \A f \in Entities : /\ row[f] \in RowType
                          /\ [row[f] EXCEPT !.state = "HOLD", !.err = "EXHAUSTED", !.proc = 0] \in RowType
  BY RowWrites DEF Types
<1>4. row' = [f \in Entities |-> IF held(f) THEN [row[f] EXCEPT !.state = "HOLD", !.err = "EXHAUSTED", !.proc = 0]
                                 ELSE row[f]]
  BY DEF HoldExhausted
<1>5. row' \in [Entities -> RowType]
  BY <1>3, <1>4
<1>6. \A f \in Entities : /\ row'[f].prog = row[f].prog /\ row'[f].attempts = row[f].attempts
                          /\ row'[f].state = IF held(f) THEN "HOLD" ELSE row[f].state
  BY <1>3, <1>4 DEF RowType
<1>7. \A f \in Entities :
         row'[f].state \in IF f.kind = "watch" THEN {"PENDING_CLAIM", "ACTIVE", "HOLD", "COMPLETE"}
                           ELSE {"ABSENT", "INFLIGHT", "HOLD", "COMPLETE"}
  BY <1>6 DEF StoreInv, RowsAgree
<1>8. \A l \in Lineages : /\ WatchState(l)' = row'[Watch(l)].state /\ WatchState(l) = row[Watch(l)].state
                          /\ row'[Watch(l)].state = IF held(Watch(l)) THEN "HOLD" ELSE WatchState(l)
                          /\ held(Watch(l)) => l = e.key /\ e.kind # "claimed"
                          /\ held(Watch(l)) /\ e.kind = "watch" => WatchState(l) = "ACTIVE"
                          /\ held(Watch(l)) /\ e.kind = "prepared" => msg'[l] = "HOLD"
  <2>. SUFFICES ASSUME NEW l \in Lineages
                PROVE  /\ WatchState(l)' = row'[Watch(l)].state /\ WatchState(l) = row[Watch(l)].state
                       /\ row'[Watch(l)].state = IF held(Watch(l)) THEN "HOLD" ELSE WatchState(l)
                       /\ held(Watch(l)) => l = e.key /\ e.kind # "claimed"
                       /\ held(Watch(l)) /\ e.kind = "watch" => WatchState(l) = "ACTIVE"
                       /\ held(Watch(l)) /\ e.kind = "prepared" => msg'[l] = "HOLD"
    OBVIOUS
  <2>1. Watch(l) \in Entities /\ Watch(l).key = l /\ Watch(l).kind = "watch" /\ l \in Keys
    BY EntityFacts DEF Keys
  <2>2. WatchState(l)' = row'[Watch(l)].state /\ WatchState(l) = row[Watch(l)].state
    BY DEF WatchState
  <2>3. held(Watch(l)) => l = e.key /\ e.kind # "claimed"
    BY <2>1, EntityFacts
  <2>4. held(Watch(l)) /\ e.kind = "watch" => WatchState(l) = "ACTIVE"
    BY <2>1, <2>2
  <2>5. held(Watch(l)) /\ e.kind = "prepared" => msg'[l] = "HOLD"
    BY <1>2, <2>1, <2>3
  <2>. QED BY <1>6, <2>1, <2>2, <2>3, <2>4, <2>5
<1>. HIDE DEF held
<1>9. RowsAgree'
  BY <1>2, <1>7, <1>8, EntityFacts DEF StoreInv, RowsAgree, Keys
<1>10. Progressing
  BY <1>1, <1>2, <1>6, <1>8 DEF Progressing
<1>. QED BY <1>2, <1>5, <1>6, <1>9, <1>10 DEF CountsKept

\* What the reserving transaction knows when its target is due.
LEMMA ReserveFacts ==
    ASSUME SubmissionInv, pc = "reserve", Reserving.ok
    PROVE  LET e == Reserving.e
           IN  /\ e \in Entities /\ e.key = cur.e.key /\ e.key \notin Fenced
               /\ Reserving.digest = Progress(e) /\ Progress(e) \in Digests
               /\ Repeatable(e) /\ msg[e.key] # "ABSENT"
               /\ e.kind = "claimed" => Settled(e.key)
               /\ e.kind # "watch" => msg[e.key] \in {"PREPARED", "CLAIMED"} /\ row[e].state \in {"ABSENT", "INFLIGHT"}
               /\ e.kind = "watch" => row[e].state = "ACTIVE"
<1>. USE KeysAssumption DEF SubmissionInv
<1>. DEFINE t == cur.e
            e == Reserving.e
            k == cur.e.key
<1>1. /\ t \in Targets /\ k \in Keys /\ k \notin fenced /\ Fenced \subseteq fenced
      /\ Reserving.digest = Digest(t) /\ row[e].state \in {"ABSENT", "INFLIGHT", "ACTIVE"}
  BY EntityFacts DEF FenceInv, Scanning, Reserving
<1>2. CASE t.kind = "watch"
  <2>1. e = t /\ WatchState(k) = "ACTIVE" /\ k \in Lineages /\ e \in Entities /\ e.kind = "watch" /\ e = Watch(k)
    BY <1>1, <1>2, EntityFacts DEF Reserving
  <2>2. Digest(t) = Progress(e) /\ Digest(t) \in Digests
    BY <1>1, <1>2, <2>1, DigestTyped DEF Progress
  <2>3. msg[k] # "ABSENT" /\ row[e].state = "ACTIVE"
    BY <2>1 DEF StoreInv, RowsAgree, WatchState
  <2>. QED BY <1>1, <2>1, <2>2, <2>3 DEF Repeatable
<1>3. CASE t.kind # "watch"
  <2>1. e = Wake(k) /\ NeedsWorker(k)
    BY <1>3 DEF Reserving
  <2>2. e.key = k /\ e.kind = IF msg[k] = "PREPARED" THEN "prepared" ELSE "claimed"
    BY <2>1 DEF Wake
  <2>3. Digest(t) = <<msg[k], WatchState(k), IF k \in Lineages THEN beats[k] ELSE 0>> /\ Digest(t) \in Digests
    BY <1>1, <1>3, DigestTyped
  <2>4. CASE msg[k] = "PREPARED"
    <3>1. e \in Entities /\ e.kind = "prepared"
      BY <1>1, <2>1, <2>4 DEF Wake, Entities, Keys
    <3>2. k \in Lineages => WatchState(k) = "PENDING_CLAIM" /\ beats[k] = 0
      BY <2>1, <2>4 DEF StoreInv, RowsAgree, NeedsWorker, ContractError, Open
    <3>3. k \notin Lineages => WatchState(k) = None
      BY DEF WatchState
    <3>4. Digest(t) = Progress(e)
      BY <2>2, <2>3, <2>4, <3>1, <3>2, <3>3 DEF Progress
    <3>. QED BY <1>1, <2>2, <2>3, <2>4, <3>1, <3>2, <3>4 DEF Repeatable, StoreInv, RowsAgree
  <2>5. CASE msg[k] # "PREPARED"
    <3>1. k \in Lineages /\ msg[k] = "CLAIMED" /\ WatchState(k) # "ACTIVE" /\ WatchState(k) # "COMPLETE"
      BY <2>1, <2>5 DEF NeedsWorker, ContractError, Open
    <3>2. e \in Entities /\ e.kind = "claimed"
      BY <2>1, <2>5, <3>1 DEF Wake, Entities
    <3>3. WatchState(k) = "HOLD"
      BY <3>1, EntityFacts DEF StoreInv, RowsAgree, WatchState
    <3>4. Digest(t) = Progress(e)
      BY <2>2, <2>3, <3>1, <3>2, <3>3 DEF Progress
    <3>5. Settled(k)
      <4>1. ASSUME NEW i \in DOMAIN ledger, Entity(i) = Watch(k), Unresolved(i) PROVE FALSE
        BY <1>1, <3>1, <4>1, EntityFacts DEF Fenced
      <4>. QED BY <2>5, <3>3, <4>1 DEF Settled
    <3>. QED BY <1>1, <2>2, <2>3, <3>1, <3>2, <3>4, <3>5 DEF Repeatable, StoreInv, RowsAgree
  <2>. QED BY <2>4, <2>5
<1>. QED BY <1>2, <1>3

\* The reserving transaction counts the launch it permits.
LEMMA LaunchStep ==
    ASSUME SubmissionInv, pc = "reserve", Reserving.ok,
           row[Reserving.e].prog # Reserving.digest \/ row[Reserving.e].attempts < MaxAttempts,
           Launch(Reserving.e, Counted(row[Reserving.e], Reserving.digest)),
           UNCHANGED <<beats, ledger, children, late, crashes>>
    PROVE  SubmissionInv'
<1>. USE DEF SubmissionInv
<1>. DEFINE e == Reserving.e
            d == Reserving.digest
            r == Counted(row[e], d)
<1>1. /\ e \in Entities /\ e.key = cur.e.key /\ e.key \notin Fenced /\ d = Progress(e) /\ d \in Digests
      /\ Repeatable(e) /\ msg[e.key] # "ABSENT" /\ (e.kind = "claimed" => Settled(e.key))
      /\ (e.kind # "watch" => msg[e.key] \in {"PREPARED", "CLAIMED"} /\ row[e].state \in {"ABSENT", "INFLIGHT"})
      /\ (e.kind = "watch" => row[e].state = "ACTIVE")
      /\ Len(ledger) < MaxIntents /\ Fenced \subseteq fenced
  BY ReserveFacts DEF FenceInv, Scanning
<1>2. /\ row' = [row EXCEPT ![e] = r] /\ cur' = [e |-> e, row |-> r, out |-> None]
      /\ fenced' = fenced \cup {e.key} /\ pc' = "record"
      /\ UNCHANGED <<msg, beats, ledger, unit, recent, late, crashes>>
  BY DEF Launch, children
<1>3. row[e] \in RowType /\ row[e].attempts \in 0..MaxAttempts /\ e.key \in Keys
  BY <1>1, EntityFacts DEF Types, RowType
<1>4. d \in {None, "PREPARED", "CLAIMED", "COMPLETE", "HOLD"}
            \X {None, "PENDING_CLAIM", "ACTIVE", "HOLD", "COMPLETE"} \X (0..MaxBeats)
  <2>1. CASE e.kind = "prepared"
    BY <1>1, <2>1, SubmissionBounds DEF Progress
  <2>2. CASE e.kind # "prepared"
    <3>1. e.key \in Lineages /\ beats[e.key] \in 0..MaxBeats
      BY <1>1, <2>2, EntityFacts DEF Types
    <3>. QED BY <1>1, <2>2, <3>1 DEF Progress
  <2>. QED BY <2>1, <2>2
<1>5. Tally(e, d) \in Nat /\ Tally(e, d) <= IF row[e].prog = d THEN row[e].attempts ELSE 0
  <2>1. Counted1(e)
    BY <1>1 DEF StoreInv, Counting
  <2>2. Tally(e, Progress(e)) \in Nat
    BY TallyFacts
  <2>3. Tally(e, d) = Tally(e, Progress(e))
    BY <1>1 DEF Tally
  <2>. QED BY <1>1, <2>1, <2>2, <2>3 DEF Counted1
<1>6. /\ r.attempts \in 0..MaxAttempts /\ Tally(e, d) < r.attempts
      /\ r.prog = d /\ r.err = None /\ r.proc = 0
      /\ r.state = IF e.kind = "watch" THEN "ACTIVE" ELSE "INFLIGHT"
  <2>1. r.attempts = IF row[e].prog = d THEN row[e].attempts + 1 ELSE 1
    BY DEF Counted
  <2>2. r.prog = d /\ r.err = None /\ r.proc = 0 /\ r.state = IF row[e].state = "ACTIVE" THEN "ACTIVE" ELSE "INFLIGHT"
    BY DEF Counted
  <2>. QED BY <1>1, <1>3, <1>5, <2>1, <2>2, AttemptsAssumption
<1>7. r \in RowType
  <2>1. r = [state |-> r.state, attempts |-> r.attempts, err |-> r.err, proc |-> r.proc, prog |-> r.prog]
    BY DEF Counted
  <2>2. r.err \in Errors /\ r.proc \in 0..MaxIntents
    BY <1>6, SubmissionBounds DEF Errors
  <2>. HIDE DEF r
  <2>. QED BY <1>4, <1>6, <2>1, <2>2 DEF RowType
<1>. HIDE DEF r, d, e
<1>8. row' \in [Entities -> RowType] /\ \A f \in Entities : row'[f] = IF f = e THEN r ELSE row[f]
  BY <1>1, <1>2, <1>7, OneRow
<1>9. Types'
  BY <1>2, <1>3, <1>8 DEF Types, Scanning
<1>10. \A l \in Lineages : WatchState(l)' = WatchState(l) /\ row'[Watch(l)].state = row[Watch(l)].state
                           /\ row[Watch(l)].state = WatchState(l)
  BY <1>1, <1>6, <1>8, EntityFacts DEF WatchState
<1>11. RowsAgree'
  <2>1. \A f \in Entities : row'[f].state \in IF f.kind = "watch" THEN {"PENDING_CLAIM", "ACTIVE", "HOLD", "COMPLETE"}
                                              ELSE {"ABSENT", "INFLIGHT", "HOLD", "COMPLETE"}
    BY <1>6, <1>8 DEF StoreInv, RowsAgree
  <2>. QED BY <1>2, <1>10, <2>1 DEF StoreInv, RowsAgree
<1>12. Progressing
  <2>1. \A f \in Entities : row[f].state = "HOLD" => row'[f].state = "HOLD"
    BY <1>1, <1>8
  <2>. QED BY <1>2, <1>10, <2>1 DEF Progressing
<1>13. Unclaimed' /\ Fenced' = Fenced /\ \A f, x : Tally(f, x)' = Tally(f, x)
  BY <1>2 DEF StoreInv, Unclaimed, Entity, Fenced, Unresolved, Tally
<1>14. \A f \in Entities : Progress(f)' = Progress(f)
  BY <1>1, <1>2 DEF Progress
<1>15. Counting'
  <2>. SUFFICES ASSUME NEW f \in Entities, Repeatable(f)' PROVE Counted1(f)'
    BY DEF Counting
  <2>0. Tally(f, Progress(f))' = Tally(f, Progress(f))
    BY <1>2, <1>14 DEF Tally, Entity
  <2>1. CASE f = e
    <3>1. Tally(f, Progress(f)) = Tally(e, d)
      BY <1>1, <2>1 DEF Tally
    <3>2. r.attempts \in Int
      BY <1>6
    <3>3. Progress(f) = d /\ row'[f] = r
      BY <1>1, <1>8, <2>1
    <3>4. Progress(f)' = d /\ row'[f].prog = d /\ row'[f].attempts = r.attempts
      BY <1>6, <1>14, <3>3
    <3>. QED BY <1>5, <1>6, <2>0, <3>1, <3>2, <3>4 DEF Counted1
  <2>2. CASE f # e
    <3>1. Repeatable(f)
      BY <1>2, <1>10, EntityFacts DEF Repeatable
    <3>2. Counted1(f) /\ row'[f] = row[f]
      BY <1>8, <2>2, <3>1 DEF StoreInv, Counting
    <3>. QED BY <1>14, <2>0, <3>2 DEF Counted1
  <2>. QED BY <2>1, <2>2
<1>16. StoreInv'
  BY <1>2, <1>9, <1>11, <1>12, <1>13, <1>15, StoreStep
<1>17. Reserved(e, r)
  <2>1. CASE e.kind = "watch"
    <3>1. e.key \in Lineages /\ beats[e.key] \in 0..MaxBeats
      BY <1>1, <2>1, EntityFacts DEF Types
    <3>2. beats[e.key] \in 0..beats[e.key] /\ r.prog = <<None, "ACTIVE", beats[e.key]>>
      BY <1>1, <1>6, <2>1, <3>1 DEF Progress
    <3>. QED BY <1>1, <1>6, <1>7, <2>1, <3>2 DEF Reserved
  <2>2. CASE e.kind # "watch"
    BY <1>1, <1>6, <1>7, <2>2 DEF Reserved
  <2>. QED BY <2>1, <2>2
<1>18. LoopInv' /\ LaunchInv'
  BY <1>2 DEF LoopInv, LaunchInv, Launching
<1>19. FenceInv'
  <2>1. PICK f, x : f = e /\ x = r
    OBVIOUS
  <2>2. Reserved(f, x)'
    BY <1>1, <1>2, <1>9, <1>12, <1>17, <2>1, ReservedKept
  <2>3. cur'.e = f /\ cur'.row = x
    BY <1>2, <2>1
  <2>4. Reserved(cur.e, cur.row)'
    BY <2>2, <2>3 DEF Reserved, Settled, WatchState, Entity, Unresolved, Progress
  <2>5. Tally(cur.e, cur.row.prog)' = Tally(e, d)
    BY <1>2, <1>6, <2>1, <2>3 DEF Tally, Entity
  <2>6. cur' \in Chosen
    BY <1>1, <1>2, <1>7 DEF Chosen
  <2>. QED BY <1>1, <1>2, <1>6, <1>13, <2>1, <2>3, <2>4, <2>5, <2>6 DEF FenceInv, Scanning
<1>. QED BY <1>9, <1>16, <1>18, <1>19

LEMMA ReserveStep == ASSUME SubmissionInv, Reserve PROVE SubmissionInv'
<1>. USE DEF SubmissionInv
<1>. DEFINE e == Reserving.e
<1>0. pc = "reserve" /\ Reserving.ok /\ UNCHANGED <<beats, ledger, children, late, crashes>>
  BY DEF Reserve
<1>1. CASE HoldExhausted(e) /\ Back /\ UNCHANGED fenced
  <2>1. /\ e \in Entities
        /\ (e.kind # "watch" => msg[e.key] \in {"PREPARED", "CLAIMED"})
        /\ (e.kind = "watch" => row[e].state = "ACTIVE")
    BY <1>0, ReserveFacts
  <2>2. UNCHANGED <<beats, ledger, unit>>
    BY <1>0 DEF children
  <2>. HIDE DEF e
  <2>3. /\ msg' \in [Keys -> Messages] /\ row' \in [Entities -> RowType]
        /\ RowsAgree' /\ Progressing /\ CountsKept
        /\ \A k \in Keys : msg'[k] = "CLAIMED" => msg[k] = "CLAIMED"
    BY <1>1, <2>1, <2>2, ExhaustedStep
  <2>4. Types'
    BY <1>0, <1>1, <2>3 DEF Types, children, Back, Scanning
  <2>5. StoreInv'
    BY <2>2, <2>3, <2>4, QuietStore
  <2>6. pc' = "select" /\ Fenced' \subseteq fenced'
    BY <1>0, <1>1, SameFence DEF Back, FenceInv, Scanning
  <2>. QED BY <2>4, <2>5, <2>6, InScan
<1>2. CASE /\ row[e].prog # Reserving.digest \/ row[e].attempts < MaxAttempts
           /\ Launch(e, Counted(row[e], Reserving.digest))
  BY <1>0, <1>2, LaunchStep
<1>. QED BY <1>1, <1>2 DEF Reserve

-----------------------------------------------------------------------------
(* The intent and the call.                                                 *)

\* The intent is committed only for a target no earlier submission can still bring up
\* an executor for.
LEMMA NobodyComes ==
    ASSUME SubmissionInv, NEW e \in Entities, NEW r, Reserved(e, r), e.key \notin Fenced, row[e] = r,
           Digest(Target(e)) = r.prog, ~Busy(Target(e)),
           NEW i \in DOMAIN ledger, Target(Entity(i)) = Target(e)
    PROVE  ~Live(i)
<1>. USE DEF SubmissionInv, StoreInv
<1>. DEFINE f == Entity(i)
<1>0. /\ f \in Entities /\ f.key = e.key /\ (f.kind = "watch" <=> e.kind = "watch") /\ ~Unresolved(i)
      /\ i \in Ids /\ ledger[i] \in Intents
  BY LedgerFacts, TargetFacts DEF Fenced
<1>1. unit[i].st \notin Active
  BY DEF Busy, Attempts, HasAttempt
<1>2. SUFFICES ASSUME unit[i].st = "started" PROVE FALSE
  BY <1>1 DEF Live
<1>3. ~HasAttempt(i) /\ ledger[i].disp # "abandoned"
  BY <1>2 DEF HasAttempt, Active, Ended, Outcomes, None
<1>4. ledger[i].final \in {"rejected", "expired", "terminal"}
  BY <1>0, <1>3 DEF Unresolved, AttachedIsOwn, Intents
<1>5. CASE e.kind = "watch"
  <2>1. f = e /\ e.key \in Lineages /\ e = Watch(e.key)
    BY <1>0, <1>5, EntityFacts
  <2>2. row[e].state = "ACTIVE" /\ WatchState(e.key) = "ACTIVE"
    BY <1>5, <2>1 DEF Reserved, WatchState
  <2>. QED BY <1>4, <1>5, <2>1, <2>2 DEF Outcomes, RowsAgree
<1>6. CASE e.kind # "watch"
  <2>1. Digest(Target(e)) = <<msg[e.key], WatchState(e.key), IF e.key \in Lineages THEN beats[e.key] ELSE 0>>
    BY <1>6, TargetFacts, DigestTyped
  <2>2. r.prog = Progress(e)
    BY <1>6 DEF Reserved
  <2>3. msg[e.key] = IF e.kind = "prepared" THEN "PREPARED" ELSE "CLAIMED"
    <3>1. PICK a, b : Progress(e) = <<IF e.kind = "prepared" THEN "PREPARED" ELSE "CLAIMED", a, b>>
      BY <1>6, EntityFacts DEF Progress
    <3>2. PICK c, d : Digest(Target(e)) = <<msg[e.key], c, d>>
      BY <2>1
    <3>3. <<msg[e.key], c, d>> = <<IF e.kind = "prepared" THEN "PREPARED" ELSE "CLAIMED", a, b>>
      BY <2>2, <3>1, <3>2, Zenon
    <3>. QED BY <3>3
  <2>4. ledger[i].final \in {"rejected", "expired"} /\ row[f].state = "HOLD"
    BY <1>0, <1>4, <1>6, <2>3 DEF Outcomes
  <2>5. f # e
    BY <1>6, <2>4 DEF Reserved
  <2>6. CASE f.kind = "prepared"
    BY <1>0, <1>2, <1>6, <2>3, <2>5, <2>6, EntityFacts DEF Unclaimed
  <2>7. CASE f.kind = "claimed"
    <3>1. msg[f.key] # "PREPARED"
      BY <2>7 DEF Reservations, Reserved, Settled
    <3>. QED BY <1>0, <1>6, <2>3, <2>5, <2>7, <3>1, EntityFacts
  <2>. QED BY <1>0, <1>6, <2>6, <2>7, EntityFacts
<1>. QED BY <1>5, <1>6

LEMMA RecordStep == ASSUME SubmissionInv, RecordIntent PROVE SubmissionInv'
<1>. USE DEF SubmissionInv
<1>0. pc = "record" /\ UNCHANGED <<msg, beats, unit, recent, late, fenced, crashes>>
  BY DEF RecordIntent, children
<1>1. CASE Back /\ UNCHANGED <<row, ledger>>
  <2>1. UNCHANGED <<store, unit>> /\ pc' = "select" /\ Fenced' \subseteq fenced'
    BY <1>0, <1>1, SameFence DEF store, Back, FenceInv, Scanning
  <2>2. Types'
    BY <1>0, <1>1 DEF Types, Back, Scanning
  <2>. QED BY <2>1, <2>2, SameStore, InScan
<1>2. ASSUME ~(Back /\ UNCHANGED <<row, ledger>>) PROVE SubmissionInv'
  <2>1. PICK e, r, n : e = cur.e /\ r = cur.row /\ n = Len(ledger) + 1
    OBVIOUS
  <2>. DEFINE t == Target(e)
              x == [e |-> e, res |-> r, pre |-> Attempts(t), disp |-> None, final |-> None, child |-> 0]
              s == [r EXCEPT !.err = "SUBMITTING"]
  <2>2. /\ row[e] = r /\ Digest(t) = r.prog /\ ~Busy(t)
        /\ row' = [row EXCEPT ![e].err = "SUBMITTING"] /\ ledger' = Append(ledger, x)
        /\ pc' = "precall" /\ UNCHANGED <<cur, todo>>
    BY <1>2, <2>1 DEF RecordIntent
  <2>3. /\ e \in Entities /\ e.key \in fenced /\ e.key \notin Fenced /\ Len(ledger) < MaxIntents
        /\ Reserved(e, r) /\ Tally(e, r.prog) < r.attempts /\ Fenced \subseteq fenced
    <3>1. /\ e \in Entities /\ e.key \in fenced /\ e.key \notin Fenced /\ Len(ledger) < MaxIntents
          /\ Fenced \subseteq fenced
      BY <1>0, <2>1 DEF FenceInv, Scanning, Chosen
    <3>2. Reserved(cur.e, cur.row) /\ Tally(cur.e, cur.row.prog) < cur.row.attempts
      BY <1>0 DEF FenceInv
    <3>3. Reserved(e, r)
      BY <2>1, <3>2 DEF Reserved, Progress
    <3>4. Tally(e, r.prog) < r.attempts
      BY <2>1, <3>2 DEF Tally
    <3>. QED BY <3>1, <3>3, <3>4
  <2>4. r \in RowType /\ s \in RowType /\ s.prog = r.prog /\ s.attempts = r.attempts /\ s.state = r.state
    BY <2>3 DEF Reserved, RowType, Errors
  <2>5. Attempts(t) \subseteq Ids /\ Attempts(t) \subseteq DOMAIN ledger
    BY LedgerFacts DEF Attempts
  <2>6. x \in Intents /\ x.e = e /\ x.res = r /\ x.pre = Attempts(t) /\ x.disp = None /\ x.final = None
    BY <2>3, <2>4, <2>5, SubmissionBounds DEF Intents
  <2>7. /\ row' \in [Entities -> RowType] /\ \A f \in Entities : row'[f] = IF f = e THEN s ELSE row[f]
    <3>1. row' = [row EXCEPT ![e] = s]
      BY <2>2
    <3>. QED BY <2>3, <2>4, <3>1, OneRow
  <2>. HIDE DEF x, s, t
  <2>8. /\ ledger' \in Seq(Intents) /\ Len(ledger') = n /\ n \in Ids /\ n \notin DOMAIN ledger
        /\ DOMAIN ledger' = DOMAIN ledger \cup {n} /\ ledger'[n] = x
        /\ \A i \in DOMAIN ledger : ledger'[i] = ledger[i] /\ i < n /\ i \in Int
        /\ n \in Int
    <3>1. /\ ledger' \in Seq(Intents) /\ Len(ledger') = Len(ledger) + 1
          /\ \A i \in 1..Len(ledger) : ledger'[i] = ledger[i]
          /\ ledger'[Len(ledger) + 1] = x
      BY <2>2, <2>6, AppendProperties DEF Types
    <3>2. DOMAIN ledger' = 1..(Len(ledger) + 1)
      BY <3>1
    <3>. QED BY <2>1, <2>3, <3>1, <3>2, LedgerFacts, SubmissionBounds DEF Ids
  <2>9. /\ Entity(n)' = e /\ Unresolved(n)'
        /\ \A i \in DOMAIN ledger : Entity(i)' = Entity(i) /\ Unresolved(i)' = Unresolved(i)
    BY <2>6, <2>8 DEF Entity, Unresolved, None
  <2>10. Types'
    <3>1. late' \in 0..Len(ledger')
      BY <1>0, <2>1, <2>8, LedgerFacts DEF Types
    <3>2. Len(ledger') <= MaxIntents
      BY <2>1, <2>3, <2>8, LedgerFacts, SubmissionBounds
    <3>. QED BY <1>0, <2>2, <2>7, <2>8, <3>1, <3>2 DEF Types, Scanning, Launching
  <2>11. unit[n] = NoUnit /\ unit[n].st = None
    BY <2>8 DEF Types, NoUnit
  <2>12. \A l \in Lineages : WatchState(l)' = WatchState(l)
    BY <2>3, <2>4, <2>7, <2>2, EntityFacts DEF WatchState
  <2>13. RowsAgree'
    <3>1. \A f \in Entities : row'[f].state = row[f].state
      BY <2>2, <2>4, <2>7
    <3>. QED BY <1>0, <2>12, <3>1 DEF StoreInv, RowsAgree
  <2>14. r.prog = Progress(e) /\ (e.kind = "watch" => e.key \in Lineages /\ WatchState(e.key) = "ACTIVE")
         /\ (e.kind = "prepared" => msg[e.key] = "PREPARED")
    <3>1. CASE e.kind = "watch"
      <4>1. Digest(t) = <<None, WatchState(e.key), beats[e.key]>>
        BY <2>3, <3>1, TargetFacts, DigestTyped DEF t
      <4>2. PICK b \in 0..beats[e.key] : r.prog = <<None, "ACTIVE", b>>
        BY <2>3, <3>1 DEF Reserved
      <4>3. <<None, WatchState(e.key), beats[e.key]>> = <<None, "ACTIVE", b>>
        BY <2>2, <4>1, <4>2, Zenon
      <4>4. WatchState(e.key) = "ACTIVE" /\ beats[e.key] = b
        BY <4>3
      <4>. QED BY <2>3, <3>1, <4>2, <4>4, EntityFacts DEF Progress
    <3>2. CASE e.kind # "watch"
      <4>1. Digest(t) = <<msg[e.key], WatchState(e.key), IF e.key \in Lineages THEN beats[e.key] ELSE 0>>
        BY <2>3, <3>2, TargetFacts, DigestTyped DEF t
      <4>2. r.prog = Progress(e)
        BY <2>3, <3>2 DEF Reserved
      <4>. HIDE DEF t
      <4>3. PICK c, d : Digest(t) = <<msg[e.key], c, d>>
        BY <4>1
      <4>4. ASSUME e.kind = "prepared" PROVE msg[e.key] = "PREPARED"
        <5>1. PICK a, b : Progress(e) = <<"PREPARED", a, b>>
          BY <4>4 DEF Progress
        <5>2. <<msg[e.key], c, d>> = <<"PREPARED", a, b>>
          BY <2>2, <4>2, <4>3, <5>1, Zenon
        <5>. QED BY <5>2
      <4>. QED BY <3>2, <4>2, <4>4
    <3>. QED BY <3>1, <3>2
  <2>15. \A l \in Lineages : Settled(l) => Settled(l)'
    <3>. SUFFICES ASSUME NEW l \in Lineages, Settled(l) PROVE Settled(l)'
      OBVIOUS
    <3>1. e # Watch(l)
      BY <2>14, EntityFacts DEF Settled
    <3>. QED BY <1>0, <2>8, <2>9, <2>12, <3>1 DEF Settled, Watch
  <2>16. \A f \in Entities : \A y : Reserved(f, y) => Reserved(f, y)'
    BY <1>0, <2>15, EntityFacts DEF Reserved, Progress
  <2>17. Reservations'
    BY <2>3, <2>6, <2>8, <2>9, <2>16, LedgerFacts DEF StoreInv, Reservations
  <2>18. KeyOrder'
    <3>1. \A i \in DOMAIN ledger : Entity(i).key = e.key => ~Unresolved(i)
      BY <2>3 DEF Fenced
    <3>. QED BY <2>8, <2>9, <3>1 DEF StoreInv, KeyOrder
  <2>19. Outcomes' /\ AttachedIsOwn' /\ HeldIsFinal'
    <3>1. \A f \in Entities : row'[f].state = row[f].state
      BY <2>2, <2>4, <2>7
    <3>2. Outcomes'
      BY <1>0, <2>6, <2>8, <2>9, <3>1, LedgerFacts DEF StoreInv, Outcomes, None
    <3>3. AttachedIsOwn'
      BY <1>0, <2>6, <2>8 DEF StoreInv, AttachedIsOwn, HasAttempt, None
    <3>4. \A i \in DOMAIN ledger : Entity(i) = e => ledger[i].final \notin {"rejected", "expired"}
      BY <2>2, <2>3 DEF StoreInv, Outcomes, Reserved
    <3>5. HeldIsFinal'
      BY <2>8, <2>9, <3>4 DEF StoreInv, HeldIsFinal
    <3>. QED BY <3>2, <3>3, <3>5
  <2>20. Unclaimed' /\ NeverTwice'
    <3>1. \A i \in DOMAIN ledger : Target(Entity(i)) = Target(e) => ~Live(i)
      BY <2>2, <2>3, NobodyComes DEF t
    <3>2. \A i : Live(i)' = Live(i)
      BY <1>0 DEF Live
    <3>. QED BY <1>0, <2>8, <2>9, <2>11, <3>1, <3>2 DEF StoreInv, Unclaimed, NeverTwice, None
  <2>21. FenceLists'
    <3>1. \A i \in DOMAIN ledger : Target(Entity(i)) = t /\ HasAttempt(i) => i \in Attempts(t)
      BY DEF Attempts
    <3>2. \A i : HasAttempt(i)' = HasAttempt(i)
      BY <1>0 DEF HasAttempt
    <3>. QED BY <2>6, <2>8, <2>9, <3>1, <3>2 DEF StoreInv, FenceLists, t
  <2>22. \A f \in Entities : \A d : Tally(f, d)' = IF f = e /\ d = r.prog THEN Tally(f, d) + 1 ELSE Tally(f, d)
    <3>. SUFFICES ASSUME NEW f \in Entities, NEW d
                  PROVE  Tally(f, d)' = IF f = e /\ d = r.prog THEN Tally(f, d) + 1 ELSE Tally(f, d)
      OBVIOUS
    <3>. DEFINE S == {j \in DOMAIN ledger : Entity(j) = f /\ ledger[j].res.prog = d}
    <3>1. S' = IF f = e /\ d = r.prog THEN S \cup {n} ELSE S
      BY <2>6, <2>8, <2>9
    <3>2. IsFiniteSet(S) /\ n \notin S
      <4>1. S \subseteq DOMAIN ledger
        OBVIOUS
      <4>2. IsFiniteSet(DOMAIN ledger)
        BY LedgerFacts, FS_Interval
      <4>. HIDE DEF S
      <4>. QED BY <2>8, <4>1, <4>2, FS_Subset
    <3>. HIDE DEF S
    <3>3. Cardinality(S \cup {n}) = Cardinality(S) + 1
      BY <3>2, FS_AddElement
    <3>4. Tally(f, d) = Cardinality(S) /\ Tally(f, d)' = Cardinality(S')
      BY DEF Tally, S
    <3>. QED BY <3>1, <3>3, <3>4
  <2>23. r.attempts \in Nat /\ r.attempts <= MaxAttempts /\ \A f \in Entities : \A d : Tally(f, d) \in Nat
    BY <2>4, TallyFacts, AttemptsAssumption DEF RowType
  <2>24. Budgeted'
    BY <2>3, <2>22, <2>23, AttemptsAssumption DEF StoreInv, Budgeted
  <2>25. Counting'
    <3>. SUFFICES ASSUME NEW f \in Entities, Repeatable(f)' PROVE Counted1(f)'
      BY DEF Counting
    <3>1. Progress(f)' = Progress(f)
      BY <1>0 DEF Progress
    <3>2. PICK d : d = Progress(f)
      OBVIOUS
    <3>3. Tally(f, Progress(f))' = Tally(f, d)' /\ Tally(f, Progress(f)) = Tally(f, d)
      BY <3>1, <3>2 DEF Tally
    <3>4. CASE f = e
      <4>1. Tally(f, d)' = Tally(e, r.prog) + 1 /\ d = r.prog
        BY <2>14, <2>22, <3>2, <3>4
      <4>2. row'[f].prog = d /\ row'[f].attempts = r.attempts
        BY <2>4, <2>7, <3>4, <4>1
      <4>. QED BY <2>3, <2>23, <3>1, <3>2, <3>3, <4>1, <4>2 DEF Counted1
    <3>5. CASE f # e
      <4>1. Repeatable(f)
        BY <1>0, <2>12, EntityFacts DEF Repeatable
      <4>2. Counted1(f) /\ row'[f] = row[f]
        BY <2>7, <3>5, <4>1 DEF StoreInv, Counting
      <4>. QED BY <2>22, <3>1, <3>2, <3>3, <3>5, <4>2 DEF Counted1
    <3>. QED BY <3>4, <3>5
  <2>26. LoopInv' /\ FenceInv'
    <3>1. \A k \in Fenced' : k \in Fenced \/ k = e.key
      BY <2>8, <2>9 DEF Fenced
    <3>. QED BY <1>0, <2>2, <2>3, <3>1 DEF LoopInv, FenceInv
  <2>27. LaunchInv'
    <3>1. Last' = n /\ Last' \in DOMAIN ledger' /\ Entity(Last)' = e
      BY <2>8, <2>9 DEF Last, Entity
    <3>2. ledger'[Last'].final = None /\ ledger'[Last'].disp = None /\ unit'[Last'].st = None
      BY <1>0, <2>6, <2>8, <2>11, <3>1
    <3>3. cur'.e = e /\ (e.kind = "prepared" => msg'[e.key] # "CLAIMED")
      BY <1>0, <2>1, <2>2, <2>14
    <3>4. cur' \in Chosen
      BY <1>0, <2>2 DEF FenceInv
    <3>. QED BY <2>2, <3>1, <3>2, <3>3, <3>4 DEF LaunchInv
  <2>. QED BY <2>10, <2>13, <2>17, <2>18, <2>19, <2>20, <2>21, <2>24, <2>25, <2>26, <2>27 DEF StoreInv
<1>. QED BY <1>1, <1>2


\* The call starts a process for the last intent only, and only when no process of the
\* target is left.
LEMMA CallStep == ASSUME SubmissionInv, Call PROVE SubmissionInv'
<1>. USE DEF SubmissionInv
<1>1. PICK n : n = Last
  OBVIOUS
<1>2. /\ pc = "call" /\ pc' = "bind" /\ UNCHANGED <<msg, row, beats, ledger, recent, late, todo, fenced, crashes>>
      /\ n \in DOMAIN ledger /\ cur.e = Entity(n) /\ ledger[n].final = None /\ ledger[n].disp = None
      /\ unit[n].st = None /\ cur \in Chosen
      /\ Entity(n).kind = "prepared" => msg[Entity(n).key] # "CLAIMED"
  BY <1>1 DEF Call, LaunchInv, Launching, store
<1>3. n \in Ids /\ DOMAIN unit = Ids /\ unit \in [Ids -> Units] /\ Entity(n) \in Entities
      /\ \A i \in DOMAIN ledger : i \in Ids /\ i \in Int /\ i <= n /\ Entity(i) \in Entities /\ Entity(i)' = Entity(i)
  BY <1>1, <1>2, LedgerFacts DEF Types, Last, Entity
<1>4. PICK out \in {"receipt", "lost", "notSubmitted"}, starts \in BOOLEAN :
          /\ out = "notSubmitted" => ~starts
          /\ starts => ~\E i \in DOMAIN ledger : Live(i) /\ Target(Entity(i)) = Target(cur.e)
          /\ cur' = [cur EXCEPT !.out = out]
          /\ unit' = IF starts THEN [unit EXCEPT ![Last].st = "started"] ELSE unit
  BY DEF Call
<1>5. cur'.e = cur.e /\ cur'.out = out
  BY <1>2, <1>4 DEF Chosen
<1>6. /\ unit' \in [Ids -> Units]
      /\ \A i \in Ids : i # n \/ ~starts => unit'[i] = unit[i]
      /\ starts => unit'[n].st = "started" /\ ~unit'[n].dead
  <2>1. [unit[n] EXCEPT !.st = "started"] \in Units /\ ~unit[n].dead
    BY <1>2, <1>3 DEF Units, Types
  <2>. QED BY <1>1, <1>3, <1>4, <2>1 DEF Units
<1>7. Types'
  <2>1. \A i \in Ids \ DOMAIN ledger : unit'[i] = NoUnit
    BY <1>2, <1>6 DEF Types
  <2>2. \A i \in Ids : unit'[i].st \in {None, "started", "gone"} => ~unit'[i].dead
    BY <1>3, <1>6 DEF Types
  <2>. QED BY <1>2, <1>6, <2>1, <2>2 DEF Types, Scanning, Launching
<1>8. /\ \A i \in Ids : HasAttempt(i)' = HasAttempt(i)
      /\ \A i \in Ids : i # n => Live(i)' = Live(i)
      /\ ~starts => \A i \in Ids : Live(i)' = Live(i)
  BY <1>2, <1>3, <1>6 DEF HasAttempt, Live, Active, Ended, None
<1>9. RowsAgree' /\ Reservations' /\ KeyOrder' /\ Counting' /\ Budgeted' /\ HeldIsFinal'
  BY <1>2 DEF StoreInv, RowsAgree, WatchState, Reservations, Reserved, Settled, Progress, Entity,
        Unresolved, KeyOrder, Counting, Counted1, Repeatable, Tally, Budgeted, HeldIsFinal
<1>10. Outcomes' /\ Unclaimed'
  <2>1. Outcomes'
    BY <1>2, <1>3, <1>6 DEF StoreInv, Outcomes, None
  <2>2. Unclaimed'
    BY <1>2, <1>3, <1>6 DEF StoreInv, Unclaimed
  <2>. QED BY <2>1, <2>2
<1>11. FenceLists' /\ AttachedIsOwn'
  BY <1>2, <1>3, <1>8 DEF StoreInv, FenceLists, AttachedIsOwn
<1>12. NeverTwice'
  <2>. SUFFICES ASSUME NEW i \in DOMAIN ledger, NEW j \in DOMAIN ledger, i < j,
                       Target(Entity(i)) = Target(Entity(j)), Live(i)'
                PROVE  FALSE
    BY <1>2, <1>3 DEF NeverTwice
  <2>1. i # n
    BY <1>3
  <2>. QED BY <1>3, <1>8, <2>1 DEF StoreInv, NeverTwice
<1>13. StoreInv'
  BY <1>9, <1>10, <1>11, <1>12 DEF StoreInv
<1>14. LoopInv' /\ FenceInv'
  BY <1>2, SameFence DEF LoopInv, FenceInv, Scanning, Launching
<1>15. LaunchInv'
  <2>1. Last' = n
    BY <1>1, <1>2 DEF Last
  <2>2. cur'.out = "notSubmitted" => unit'[n].st = None
    BY <1>2, <1>3, <1>4, <1>5, <1>6
  <2>. QED BY <1>2, <1>3, <1>5, <2>1, <2>2 DEF LaunchInv
<1>. QED BY <1>7, <1>13, <1>14, <1>15
-----------------------------------------------------------------------------
(* Dispositions.                                                            *)

\* Messages only go forward, and nobody claims one.
MessagesMove ==
    \A k \in Keys : /\ msg[k] # "ABSENT" => msg'[k] # "ABSENT"
                    /\ msg[k] \notin {"ABSENT", "PREPARED"} => msg'[k] \notin {"ABSENT", "PREPARED"}
                    /\ msg[k] \in {"COMPLETE", "HOLD"} => msg'[k] = msg[k]
                    /\ msg'[k] = "CLAIMED" => msg[k] = "CLAIMED"

\* Of an unresolved intent the outcome may change, and the row it is about.
LEMMA ResolveStore ==
    ASSUME SubmissionInv, NEW i \in DOMAIN ledger, Unresolved(i), DOMAIN ledger' = DOMAIN ledger,
           \A j \in DOMAIN ledger : /\ Entity(j)' = Entity(j) /\ ledger'[j].res = ledger[j].res
                                    /\ ledger'[j].pre = ledger[j].pre
                                    /\ j # i => ledger'[j] = ledger[j],
           UNCHANGED <<beats, unit>>, MessagesMove, RowsAgree', Counting',
           \A e \in Entities : e # Entity(i) /\ row[e].state = "HOLD" => row'[e].state = "HOLD",
           ledger'[i].disp = "abandoned" => unit[i].st = None,
           ledger'[i].final \in {"rejected", "expired"} => row'[Entity(i)].state = "HOLD",
           ledger'[i].final = "terminal" =>
               msg'[Entity(i).key] \in IF Entity(i).kind = "watch" THEN {"COMPLETE"} ELSE {"COMPLETE", "HOLD"},
           ledger'[i].final \in {"accepted", "recovered"} => ledger'[i].child = i /\ HasAttempt(i)
    PROVE  StoreInv' /\ Fenced' \subseteq Fenced /\ \A x : With(x) \ {i} \subseteq With(x)'
<1>. USE DEF SubmissionInv, StoreInv
<1>0. \A j \in DOMAIN ledger : /\ Entity(j) \in Entities /\ Entity(j).key \in Keys /\ j \in Int /\ j \in Ids
                               /\ ledger[j].res \in RowType
                               /\ Unresolved(j)' => Unresolved(j)
                               /\ j # i => (Unresolved(j)' <=> Unresolved(j))
  BY LedgerFacts, EntityFacts DEF Unresolved
<1>1. \A j \in DOMAIN ledger : Entity(j) = Entity(i) => j <= i
  BY <1>0 DEF KeyOrder
<1>2. Reservations'
  <2>1. \A l \in Lineages : Settled(l) => Settled(l)'
    <3>. SUFFICES ASSUME NEW l \in Lineages, Settled(l) PROVE Settled(l)'
      OBVIOUS
    <3>1. Entity(i) # Watch(l) /\ Watch(l) \in Entities /\ l \in Keys
      BY EntityFacts DEF Settled, Keys
    <3>2. msg'[l] # "PREPARED"
      BY <3>1 DEF Settled, MessagesMove, RowsAgree
    <3>3. WatchState(l)' = "HOLD"
      BY <3>1 DEF Settled, WatchState
    <3>. QED BY <1>0, <3>2, <3>3 DEF Settled, Watch
  <2>2. \A e \in Entities : \A y : Reserved(e, y) => Reserved(e, y)'
    BY <2>1, EntityFacts DEF Reserved, Progress, MessagesMove
  <2>3. \A j \in DOMAIN ledger : Reserved(Entity(j), ledger[j].res)'
    <3>. SUFFICES ASSUME NEW j \in DOMAIN ledger PROVE Reserved(Entity(j), ledger[j].res)'
      OBVIOUS
    <3>1. PICK e, y : e = Entity(j) /\ y = ledger[j].res
      OBVIOUS
    <3>2. Reserved(e, y)'
      BY <1>0, <2>2, <3>1 DEF Reservations
    <3>3. Entity(j)' = e /\ ledger'[j].res = y
      BY <3>1
    <3>. QED BY <3>2, <3>3 DEF Reserved, Settled, WatchState, Entity, Unresolved, Progress
  <2>. QED BY <2>3 DEF Reservations
<1>3. KeyOrder' /\ HeldIsFinal'
  <2>1. KeyOrder'
    BY <1>0 DEF KeyOrder
  <2>2. HeldIsFinal'
    BY <1>0, <1>1 DEF HeldIsFinal
  <2>. QED BY <2>1, <2>2
<1>4. Outcomes'
  <2>. SUFFICES ASSUME NEW j \in DOMAIN ledger
                PROVE  /\ ledger'[j].disp = "abandoned" => unit'[j].st = None
                       /\ ledger'[j].final \in {"rejected", "expired"} => row'[Entity(j)].state = "HOLD"
                       /\ ledger'[j].final = "terminal" =>
                             msg'[Entity(j).key] \in IF Entity(j).kind = "watch" THEN {"COMPLETE"}
                                                     ELSE {"COMPLETE", "HOLD"}
    BY DEF Outcomes
  <2>1. CASE j = i
    BY <2>1
  <2>2. CASE j # i
    <3>1. ledger'[j] = ledger[j]
      BY <2>2
    <3>2. ledger[j].final \in {"rejected", "expired"} => Entity(j) # Entity(i)
      BY <1>0, <1>1, <2>2 DEF HeldIsFinal
    <3>. QED BY <1>0, <3>1, <3>2 DEF Outcomes, MessagesMove
  <2>. QED BY <2>1, <2>2
<1>5. FenceLists' /\ NeverTwice' /\ AttachedIsOwn'
  <2>1. \A j : HasAttempt(j)' = HasAttempt(j) /\ Live(j)' = Live(j)
    BY DEF HasAttempt, Live
  <2>2. FenceLists'
    BY <2>1 DEF FenceLists
  <2>3. NeverTwice'
    BY <2>1 DEF NeverTwice
  <2>4. AttachedIsOwn'
    BY <2>1 DEF AttachedIsOwn
  <2>. QED BY <2>2, <2>3, <2>4
<1>6. Unclaimed'
  BY <1>0 DEF Unclaimed, MessagesMove
<1>7. Budgeted'
  <2>1. \A e, d : Tally(e, d)' = Tally(e, d)
    BY TallyKept
  <2>. QED BY <2>1 DEF Budgeted
<1>8. Fenced' \subseteq Fenced
  BY <1>0 DEF Fenced
<1>9. \A x : With(x) \ {i} \subseteq With(x)'
  BY <1>0 DEF With
<1>. QED BY <1>2, <1>3, <1>4, <1>5, <1>6, <1>7, <1>8, <1>9

\* A marked row is the reservation but for the marker.
LEMMA MarkedFacts ==
    ASSUME SubmissionInv, NEW i \in DOMAIN ledger
    PROVE  /\ ledger[i].res.state = IF Entity(i).kind = "watch" THEN "ACTIVE" ELSE "INFLIGHT"
           /\ row[Entity(i)] \in RowType /\ ledger[i].res \in RowType
           /\ \A m : Marked(i, m) => /\ row[Entity(i)].state = ledger[i].res.state
                                     /\ row[Entity(i)].prog = ledger[i].res.prog
                                     /\ row[Entity(i)].attempts = ledger[i].res.attempts
<1>1. row[Entity(i)] \in RowType /\ ledger[i].res \in RowType
  BY LedgerFacts DEF SubmissionInv, Types
<1>2. ledger[i].res.state = IF Entity(i).kind = "watch" THEN "ACTIVE" ELSE "INFLIGHT"
  BY DEF SubmissionInv, StoreInv, Reservations, Reserved
<1>. QED BY <1>1, <1>2 DEF Marked, RowType

\* What a disposition leaves of the invariant.
Settles(i) ==
    /\ StoreInv' /\ row' \in [Entities -> RowType]
    /\ ledger' \in Seq(Intents) /\ Len(ledger') = Len(ledger) /\ DOMAIN ledger' = DOMAIN ledger
    /\ Entity(i)' = Entity(i)
    /\ Fenced' \subseteq Fenced /\ \A x : With(x) \ {i} \subseteq With(x)'

LEMMA DisposeStep ==
    ASSUME SubmissionInv, NEW i \in DOMAIN ledger, Unresolved(i), NEW r \in RowType,
           NEW d \in {None, "submitted", "ambiguous", "abandoned"},
           NEW f \in {None, "accepted", "rejected", "expired", "recovered", "terminal"},
           Dispose(i, r, d, f), UNCHANGED <<msg, beats, unit>>,
           \/ r.state = row[Entity(i)].state
           \/ {row[Entity(i)].state, r.state} \subseteq {ledger[i].res.state, "HOLD"},
           Repeatable(Entity(i)) => /\ r.prog = row[Entity(i)].prog
                                    /\ r.attempts = row[Entity(i)].attempts,
           d = "abandoned" => unit[i].st = None,
           f \in {"rejected", "expired"} => r.state = "HOLD",
           f = "terminal" => Terminal(i),
           f \in {"accepted", "recovered"} => r.proc = i /\ HasAttempt(i)
    PROVE  Settles(i)
<1>. USE DEF SubmissionInv
<1>1. PICK e : e = Entity(i)
  OBVIOUS
<1>2. /\ ledger' \in Seq(Intents) /\ Len(ledger') = Len(ledger) /\ DOMAIN ledger' = DOMAIN ledger
      /\ \A j \in DOMAIN ledger : /\ Entity(j)' = Entity(j) /\ ledger'[j].res = ledger[j].res
                                  /\ ledger'[j].pre = ledger[j].pre
                                  /\ j # i => ledger'[j] = ledger[j]
      /\ ledger'[i].disp = d /\ ledger'[i].final = f /\ ledger'[i].child = r.proc
      /\ row' \in [Entities -> RowType]
      /\ \A g \in Entities : row'[g] = IF g = e THEN r ELSE row[g]
  BY <1>1, Disposed
<1>3. /\ e \in Entities /\ ledger[i].res.state = IF e.kind = "watch" THEN "ACTIVE" ELSE "INFLIGHT"
      /\ \/ r.state = row[e].state
         \/ {row[e].state, r.state} \subseteq {IF e.kind = "watch" THEN "ACTIVE" ELSE "INFLIGHT", "HOLD"}
  BY <1>1, MarkedFacts, LedgerFacts
<1>4. RowsAgree'
  <2>1. \A g \in Entities : row'[g].state \in IF g.kind = "watch" THEN {"PENDING_CLAIM", "ACTIVE", "HOLD", "COMPLETE"}
                                              ELSE {"ABSENT", "INFLIGHT", "HOLD", "COMPLETE"}
    BY <1>2, <1>3 DEF StoreInv, RowsAgree
  <2>2. \A l \in Lineages : \/ WatchState(l)' = WatchState(l)
                            \/ WatchState(l) \in {"ACTIVE", "HOLD"} /\ WatchState(l)' \in {"ACTIVE", "HOLD"}
    BY <1>2, <1>3, EntityFacts DEF WatchState
  <2>. QED BY <2>1, <2>2 DEF StoreInv, RowsAgree
<1>5. Counting'
  <2>. SUFFICES ASSUME NEW g \in Entities, Repeatable(g)' PROVE Counted1(g)'
    BY DEF Counting
  <2>1. Repeatable(g)
    <3>1. \A l \in Lineages : WatchState(l)' = "PENDING_CLAIM" => WatchState(l) = "PENDING_CLAIM"
      BY <1>2, <1>3, EntityFacts DEF WatchState
    <3>. QED BY <3>1 DEF Repeatable
  <2>2. Counted1(g) /\ Progress(g)' = Progress(g)
    BY <2>1 DEF StoreInv, Counting, Progress
  <2>3. row'[g].prog = row[g].prog /\ row'[g].attempts = row[g].attempts
    BY <1>1, <1>2, <2>1
  <2>4. Tally(g, Progress(g))' = Tally(g, Progress(g))
    <3>1. PICK x : x = Progress(g)
      OBVIOUS
    <3>2. Tally(g, Progress(g))' = Tally(g, x)'
      BY <2>2, <3>1 DEF Tally
    <3>3. Tally(g, x)' = Tally(g, x)
      BY <1>2, TallyKept
    <3>. QED BY <3>1, <3>2, <3>3
  <2>. QED BY <2>2, <2>3, <2>4 DEF Counted1
<1>6. MessagesMove
  BY DEF MessagesMove
<1>7. f = "terminal" => msg'[e.key] \in IF e.kind = "watch" THEN {"COMPLETE"} ELSE {"COMPLETE", "HOLD"}
  BY <1>1 DEF Terminal
<1>8. StoreInv' /\ Fenced' \subseteq Fenced /\ \A x : With(x) \ {i} \subseteq With(x)'
  BY <1>1, <1>2, <1>3, <1>4, <1>5, <1>6, <1>7, ResolveStore
<1>. QED BY <1>2, <1>8 DEF Settles

\* A fresh attempt of an unresolved intent is the intent's own.
LEMMA OwnAttempt ==
    ASSUME SubmissionInv, NEW i \in DOMAIN ledger, Unresolved(i)
    PROVE  /\ \A j \in Fresh(i) : j = i /\ HasAttempt(i)
           /\ Fresh(i) # {} => (CHOOSE j \in Fresh(i) : TRUE) = i /\ HasAttempt(i)
           /\ RecoveredChild(i) # 0 => RecoveredChild(i) = i /\ HasAttempt(i)
           /\ Observe(i) \in {None, "ack", "rejected", "expired"}
           /\ Observe(i) = "ack" => Fresh(i) # {}
<1>. USE DEF SubmissionInv, StoreInv
<1>1. ASSUME NEW j \in Fresh(i) PROVE j = i /\ HasAttempt(i)
  <2>1. j \in DOMAIN ledger /\ Target(Entity(j)) = Target(Entity(i)) /\ HasAttempt(j) /\ j \notin ledger[i].pre
    BY DEF Fresh, Attempts
  <2>2. i \in Int /\ j \in Int
    BY <2>1, LedgerFacts
  <2>3. ~(j < i)
    BY <2>1 DEF FenceLists
  <2>4. ~(i < j)
    BY <2>1, TargetFacts, LedgerFacts DEF KeyOrder
  <2>. QED BY <2>1, <2>2, <2>3, <2>4
<1>2. Fresh(i) # {} => (CHOOSE j \in Fresh(i) : TRUE) \in Fresh(i)
  OBVIOUS
<1>3. RecoveredChild(i) # 0 => Cardinality(Fresh(i)) = 1 /\ RecoveredChild(i) = CHOOSE j \in Fresh(i) : TRUE
  BY DEF RecoveredChild
<1>4. Cardinality(Fresh(i)) = 1 => Fresh(i) # {}
  BY FS_EmptySet
<1>5. \A j : Observed(i, j) \in {None, "ack", "rejected", "expired"}
  BY DEF Observed
<1>6. Observe(i) \in {None, "ack", "rejected", "expired"}
  BY <1>5 DEF Observe
<1>7. Observe(i) = "ack" => Fresh(i) # {}
  BY DEF Observe, None
<1>. QED BY <1>1, <1>2, <1>3, <1>4, <1>6, <1>7

\* _finalize_manager_submission settles the intent it is about, if its row is marked.
LEMMA FinalizeStep ==
    ASSUME SubmissionInv, NEW i \in DOMAIN ledger, Unresolved(i),
           NEW v \in {None, "ack", "rejected", "expired"}, v = "ack" => Fresh(i) # {},
           Finalize(i, v), UNCHANGED <<msg, beats, unit>>
    PROVE  Settles(i) \/ UNCHANGED <<row, ledger>>
<1>. DEFINE res == ledger[i].res
<1>1. CASE ~(v # None /\ Marked(i, "PENDING"))
  BY <1>1 DEF Finalize
<1>2. CASE v # None /\ Marked(i, "PENDING")
  <2>1. /\ row[Entity(i)].state = res.state /\ row[Entity(i)].prog = res.prog
        /\ row[Entity(i)].attempts = res.attempts /\ res \in RowType /\ Verdict(i, v)
    BY <1>2, MarkedFacts DEF Finalize
  <2>2. CASE v = "ack"
    <3>1. HasAttempt(i) /\ Dispose(i, [res EXCEPT !.proc = i], "submitted", "accepted")
      <4>1. (CHOOSE j \in Fresh(i) : TRUE) = i /\ HasAttempt(i)
        BY <2>2, OwnAttempt
      <4>2. Dispose(i, [res EXCEPT !.proc = CHOOSE j \in Fresh(i) : TRUE], "submitted", "accepted")
        BY <2>1, <2>2 DEF Verdict
      <4>. QED BY <4>1, <4>2
    <3>2. i \in 0..MaxIntents
      BY LedgerFacts, SubmissionBounds DEF SubmissionInv, Ids
    <3>3. /\ [res EXCEPT !.proc = i] \in RowType
          /\ [res EXCEPT !.proc = i].state = res.state /\ [res EXCEPT !.proc = i].proc = i
          /\ [res EXCEPT !.proc = i].prog = res.prog /\ [res EXCEPT !.proc = i].attempts = res.attempts
      BY <2>1, <3>2 DEF RowType
    <3>. HIDE DEF res
    <3>. QED BY <2>1, <3>1, <3>3, DisposeStep
  <2>3. CASE v \in {"rejected", "expired"}
    <3>. DEFINE r == [res EXCEPT !.state = "HOLD", !.err = IF v = "rejected" THEN "REJECTED" ELSE "EXPIRED"]
    <3>1. Dispose(i, r, "submitted", v)
      BY <2>1, <2>3 DEF Verdict
    <3>2. r \in RowType /\ r.state = "HOLD" /\ r.prog = res.prog /\ r.attempts = res.attempts
      BY <2>1 DEF RowType, Errors
    <3>3. {row[Entity(i)].state, r.state} \subseteq {ledger[i].res.state, "HOLD"}
      BY <2>1, <3>2
    <3>. HIDE DEF res, r
    <3>. QED BY <2>1, <2>3, <3>1, <3>2, <3>3, DisposeStep
  <2>. QED BY <1>2, <2>2, <2>3
<1>. QED BY <1>1, <1>2

\* A disposition in one of the loops at the beginning of a pass.
LEMMA LoopStep ==
    ASSUME SubmissionInv, NEW i \in DOMAIN ledger, Settles(i) \/ UNCHANGED <<row, ledger>>,
           pc \in {"unbound", "ambiguous", "pending"}, todo' = todo \ {i},
           UNCHANGED <<msg, beats, children, late, pc, cur, fenced, crashes>>
    PROVE  SubmissionInv'
<1>. USE DEF SubmissionInv
<1>1. UNCHANGED <<msg, beats, unit, recent, late, pc, cur, fenced, crashes>>
  BY DEF children
<1>2. Types' /\ StoreInv' /\ \A x : With(x) \ {i} \subseteq With(x)'
  <2>1. CASE Settles(i)
    BY <1>1, <2>1 DEF Settles, Types
  <2>2. CASE UNCHANGED <<row, ledger>>
    BY <1>1, <2>2, SameStore, SameFence DEF store, Types
  <2>. QED BY <2>1, <2>2
<1>3. LoopInv'
  BY <1>1, <1>2 DEF LoopInv
<1>4. FenceInv' /\ LaunchInv'
  BY <1>1 DEF FenceInv, LaunchInv, Scanning, Launching
<1>. QED BY <1>2, <1>3, <1>4

\* A disposition that returns to the scan.
LEMMA BackStep ==
    ASSUME SubmissionInv, NEW i \in DOMAIN ledger, Settles(i) \/ UNCHANGED <<msg, row, ledger>>,
           pc \in Scanning, Back, msg' \in [Keys -> Messages], recent' \subseteq Ids,
           UNCHANGED <<beats, unit, late, fenced, crashes>>
    PROVE  SubmissionInv'
<1>. USE DEF SubmissionInv
<1>1. Types' /\ StoreInv' /\ Fenced' \subseteq Fenced
  <2>1. CASE Settles(i)
    BY <2>1 DEF Settles, Types, Back, Scanning
  <2>2. CASE UNCHANGED <<msg, row, ledger>>
    BY <2>2, SameStore, SameFence DEF store, Types, Back, Scanning
  <2>. QED BY <2>1, <2>2
<1>2. pc' = "select" /\ Fenced' \subseteq fenced'
  BY <1>1 DEF Back, FenceInv
<1>. QED BY <1>1, <1>2, InScan

\* _reconcile_unbound_submission_intents and _reconcile_pending_manager_submissions.
LEMMA ReconcileSteps == ASSUME SubmissionInv, NEW i \in Ids, Unbound(i) \/ Pending(i) PROVE SubmissionInv'
<1>. USE DEF SubmissionInv
<1>0. /\ i \in DOMAIN ledger /\ Unresolved(i) /\ i \in todo /\ todo' = todo \ {i}
      /\ pc \in {"unbound", "ambiguous", "pending"}
      /\ UNCHANGED <<msg, beats, children, late, pc, cur, fenced, crashes>>
  BY DEF Unbound, Pending, LoopInv, With
<1>1. CASE Unbound(i) /\ Marked(i, "SUBMITTING")
  <2>. DEFINE r == [row[Entity(i)] EXCEPT !.err = "AMBIGUOUS"]
  <2>1. Dispose(i, r, "ambiguous", None)
    BY <1>1 DEF Unbound
  <2>2. row[Entity(i)] \in RowType
    BY <1>0, LedgerFacts DEF Types
  <2>3. r \in RowType /\ r.state = row[Entity(i)].state /\ r.prog = row[Entity(i)].prog
        /\ r.attempts = row[Entity(i)].attempts
    BY <2>2 DEF RowType, Errors
  <2>. HIDE DEF r
  <2>4. Settles(i)
    BY <1>0, <2>1, <2>3, DisposeStep DEF children, None
  <2>. QED BY <1>0, <2>4, LoopStep
<1>2. CASE Unbound(i) /\ ~Marked(i, "SUBMITTING")
  BY <1>0, <1>2, LoopStep DEF Unbound
<1>3. CASE Pending(i)
  <2>1. PICK v : v = Judged(i)
    OBVIOUS
  <2>2. v \in {None, "ack", "rejected", "expired"} /\ (v = "ack" => Fresh(i) # {}) /\ Finalize(i, v)
    BY <1>0, <1>3, <2>1, OwnAttempt DEF Judged, Pending
  <2>3. Settles(i) \/ UNCHANGED <<row, ledger>>
    BY <1>0, <2>2, FinalizeStep DEF children
  <2>. QED BY <1>0, <2>3, LoopStep
<1>. QED BY <1>1, <1>2, <1>3

\* _resolve_ambiguous_submission.
LEMMA AmbiguousStep == ASSUME SubmissionInv, NEW i \in Ids, Ambiguous(i) PROVE SubmissionInv'
<1>. USE DEF SubmissionInv
<1>. DEFINE res == ledger[i].res
            held == [ledger[i].res EXCEPT !.err = "AMBIGUOUS", !.state = "HOLD"]
            rec == [ledger[i].res EXCEPT !.proc = i]
            drift == ~Marked(i, "AMBIGUOUS") /\ row[Entity(i)] # held
<1>0. /\ i \in DOMAIN ledger /\ Unresolved(i) /\ pc = "ambiguous" /\ i \in todo
      /\ UNCHANGED <<msg, beats, unit, late, crashes>>
  BY DEF Ambiguous, LoopInv, With
<1>1. CASE ~Terminal(i) /\ drift
  <2>1. EndPass /\ recent' = {} /\ UNCHANGED <<row, ledger>>
    BY <1>1 DEF Ambiguous
  <2>2. StoreInv'
    BY <1>0, <2>1, SameStore DEF store
  <2>3. Types'
    BY <1>0, <2>1 DEF Types, EndPass
  <2>. QED BY <2>1, <2>2, <2>3, AtRest DEF EndPass
<1>2. CASE Terminal(i) \/ ~drift
  <2>1. /\ todo' = todo \ {i} /\ UNCHANGED <<pc, cur, fenced, recent>>
        /\ \/ Terminal(i) /\ Dispose(i, row[Entity(i)], "ambiguous", "terminal")
           \/ /\ ~Terminal(i) /\ RecoveredChild(i) # 0
              /\ Dispose(i, [res EXCEPT !.proc = RecoveredChild(i)], "ambiguous", "recovered")
           \/ ~Terminal(i) /\ Dispose(i, held, "ambiguous", None)
    BY <1>2 DEF Ambiguous
  <2>2. /\ row[Entity(i)] \in RowType /\ res \in RowType
        /\ \A m : Marked(i, m) => /\ row[Entity(i)].state = res.state /\ row[Entity(i)].prog = res.prog
                                  /\ row[Entity(i)].attempts = res.attempts
    BY <1>0, MarkedFacts
  <2>3. i \in 0..MaxIntents
    BY SubmissionBounds DEF Ids
  <2>4. /\ held \in RowType /\ held.state = "HOLD" /\ held.prog = res.prog /\ held.attempts = res.attempts
        /\ rec \in RowType /\ rec.state = res.state /\ rec.prog = res.prog /\ rec.attempts = res.attempts
        /\ rec.proc = i
    BY <2>2, <2>3 DEF RowType, Errors
  <2>5. ~drift => /\ row[Entity(i)].prog = res.prog /\ row[Entity(i)].attempts = res.attempts
                  /\ row[Entity(i)].state \in {res.state, "HOLD"}
    BY <2>2, <2>4
  <2>6. CASE Terminal(i) /\ Dispose(i, row[Entity(i)], "ambiguous", "terminal")
    <3>1. PICK r : r = row[Entity(i)]
      OBVIOUS
    <3>2. Settles(i)
      BY <1>0, <2>2, <2>6, <3>1, DisposeStep DEF None
    <3>. QED BY <1>0, <2>1, <3>2, LoopStep DEF children
  <2>7. CASE /\ ~Terminal(i) /\ RecoveredChild(i) # 0
             /\ Dispose(i, [res EXCEPT !.proc = RecoveredChild(i)], "ambiguous", "recovered")
    <3>1. Dispose(i, rec, "ambiguous", "recovered") /\ HasAttempt(i)
      BY <1>0, <2>7, OwnAttempt
    <3>2. {row[Entity(i)].state, rec.state} \subseteq {ledger[i].res.state, "HOLD"}
      BY <1>2, <2>4, <2>5, <2>7
    <3>3. rec.prog = row[Entity(i)].prog /\ rec.attempts = row[Entity(i)].attempts
      BY <1>2, <2>4, <2>5, <2>7
    <3>. HIDE DEF rec, held, drift, res
    <3>4. Settles(i)
      BY <1>0, <2>4, <3>1, <3>2, <3>3, DisposeStep
    <3>. QED BY <1>0, <2>1, <3>4, LoopStep DEF children
  <2>8. CASE ~Terminal(i) /\ Dispose(i, held, "ambiguous", None)
    <3>1. {row[Entity(i)].state, held.state} \subseteq {ledger[i].res.state, "HOLD"}
      BY <1>2, <2>4, <2>5, <2>8
    <3>2. held.prog = row[Entity(i)].prog /\ held.attempts = row[Entity(i)].attempts
      BY <1>2, <2>4, <2>5, <2>8
    <3>. HIDE DEF rec, held, drift, res
    <3>3. Settles(i)
      BY <1>0, <2>4, <2>8, <3>1, <3>2, DisposeStep DEF None
    <3>. QED BY <1>0, <2>1, <3>3, LoopStep DEF children
  <2>. QED BY <2>1, <2>6, <2>7, <2>8
<1>. QED BY <1>1, <1>2
-----------------------------------------------------------------------------
(* The outcome of a launch.                                                 *)

\* Where a launch stands until its outcome is known.
LEMMA LaunchFacts ==
    ASSUME SubmissionInv, pc \in Launching
    PROVE  /\ Last \in DOMAIN ledger /\ Last \in Ids /\ Unresolved(Last) /\ cur.e = Entity(Last)
           /\ Entity(Last) \in Entities /\ Entity(Last).key \in Keys /\ pc \in Scanning
           /\ ledger[Last].res \in RowType /\ row[Entity(Last)] \in RowType
           /\ \A m : Marked(Last, m) => /\ row[Entity(Last)].state = ledger[Last].res.state
                                        /\ row[Entity(Last)].prog = ledger[Last].res.prog
                                        /\ row[Entity(Last)].attempts = ledger[Last].res.attempts
           /\ Reserved(Entity(Last), ledger[Last].res) /\ msg \in [Keys -> Messages]
<1>1. /\ Last \in DOMAIN ledger /\ cur.e = Entity(Last) /\ Unresolved(Last)
  BY DEF SubmissionInv, LaunchInv, Unresolved, None
<1>2. \A m : Marked(Last, m) => /\ row[Entity(Last)].state = ledger[Last].res.state
                                /\ row[Entity(Last)].prog = ledger[Last].res.prog
                                /\ row[Entity(Last)].attempts = ledger[Last].res.attempts
  BY <1>1, MarkedFacts
<1>3. Reserved(Entity(Last), ledger[Last].res)
  BY <1>1 DEF SubmissionInv, StoreInv, Reservations
<1>. QED BY <1>1, <1>2, <1>3, LedgerFacts, EntityFacts DEF SubmissionInv, Types, Scanning

\* The reservation with a marker.
LEMMA MarkLast ==
    ASSUME SubmissionInv, pc \in Launching, NEW m \in Errors, NEW d \in {"submitted", "ambiguous", "abandoned"},
           Dispose(Last, [ledger[Last].res EXCEPT !.err = m], d, None), UNCHANGED <<msg, beats, unit>>,
           Marked(Last, "SUBMITTING"), d = "abandoned" => unit[Last].st = None
    PROVE  Settles(Last)
<1>1. PICK i, r : i = Last /\ r = [ledger[i].res EXCEPT !.err = m]
  OBVIOUS
<1>2. /\ i \in DOMAIN ledger /\ Unresolved(i) /\ ledger[i].res \in RowType
      /\ row[Entity(i)].state = ledger[i].res.state /\ row[Entity(i)].prog = ledger[i].res.prog
      /\ row[Entity(i)].attempts = ledger[i].res.attempts
  BY <1>1, LaunchFacts
<1>3. r \in RowType /\ r.state = ledger[i].res.state /\ r.prog = ledger[i].res.prog
      /\ r.attempts = ledger[i].res.attempts
  BY <1>1, <1>2 DEF RowType
<1>4. Dispose(i, r, d, None)
  BY <1>1
<1>5. Settles(i)
  BY <1>1, <1>2, <1>3, <1>4, DisposeStep DEF None
<1>. QED BY <1>1, <1>5

LEMMA PrecallStep == ASSUME SubmissionInv, Precall PROVE SubmissionInv'
<1>. USE DEF SubmissionInv
<1>0. pc = "precall" /\ pc \in Launching /\ UNCHANGED <<msg, beats, unit, recent, late, fenced, crashes>>
  BY DEF Precall, children, Launching
<1>1. PICK i : i = Last
  OBVIOUS
<1>2. /\ i \in DOMAIN ledger /\ Unresolved(i) /\ cur.e = Entity(i) /\ pc \in Scanning
      /\ row[Entity(i)] \in RowType /\ ledger[i].res \in RowType /\ msg' \in [Keys -> Messages] /\ recent' \subseteq Ids
      /\ unit[i].st = None
  BY <1>0, <1>1, LaunchFacts DEF LaunchInv, Types
<1>3. CASE Back /\ UNCHANGED <<row, ledger>>
  BY <1>0, <1>2, <1>3, BackStep
<1>4. CASE Back /\ Dispose(i, [row[Entity(i)] EXCEPT !.err = "AMBIGUOUS"], "ambiguous", None)
  <2>1. PICK r : r = [row[Entity(i)] EXCEPT !.err = "AMBIGUOUS"]
    OBVIOUS
  <2>2. r \in RowType /\ r.state = row[Entity(i)].state /\ r.prog = row[Entity(i)].prog
        /\ r.attempts = row[Entity(i)].attempts
    BY <1>2, <2>1 DEF RowType, Errors
  <2>3. Settles(i)
    BY <1>0, <1>2, <1>4, <2>1, <2>2, DisposeStep DEF None
  <2>. QED BY <1>0, <1>2, <1>4, <2>3, BackStep
<1>5. CASE Back /\ Dispose(i, ledger[i].res, "abandoned", None) /\ Marked(i, "SUBMITTING")
  <2>1. PICK r : r = ledger[i].res
    OBVIOUS
  <2>2. /\ r \in RowType /\ r.state = row[Entity(i)].state /\ r.prog = row[Entity(i)].prog
        /\ r.attempts = row[Entity(i)].attempts
    BY <1>2, <1>5, <2>1, MarkedFacts
  <2>3. Settles(i)
    BY <1>0, <1>2, <1>5, <2>1, <2>2, DisposeStep DEF None
  <2>. QED BY <1>0, <1>2, <1>5, <2>3, BackStep
<1>6. CASE pc' = "call" /\ UNCHANGED <<cur, todo, row, ledger>>
  <2>1. StoreInv' /\ Types'
    BY <1>0, <1>6, SameStore DEF store, Types, Scanning, Launching
  <2>2. LoopInv' /\ FenceInv'
    BY <1>0, <1>6, SameFence DEF LoopInv, FenceInv, Scanning, Launching
  <2>3. LaunchInv'
    BY <1>0, <1>6 DEF LaunchInv, Last, Entity
  <2>. QED BY <2>1, <2>2, <2>3
<1>. QED BY <1>1, <1>2, <1>3, <1>4, <1>5, <1>6 DEF Precall

LEMMA BindSteps == ASSUME SubmissionInv, Lost \/ BindReceipt PROVE SubmissionInv'
<1>. USE DEF SubmissionInv
<1>0. /\ pc = "bind" /\ pc \in Launching /\ UNCHANGED <<msg, beats, unit, late, fenced, crashes>>
      /\ recent' \in {recent, {}}
  BY DEF Lost, BindReceipt, children, Launching
<1>1. /\ Last \in DOMAIN ledger /\ Unresolved(Last) /\ cur.e = Entity(Last) /\ pc \in Scanning
      /\ msg' \in [Keys -> Messages] /\ recent' \subseteq Ids
  BY <1>0, LaunchFacts DEF Types
<1>2. CASE Back /\ UNCHANGED <<row, ledger>>
  BY <1>0, <1>1, <1>2, BackStep
<1>3. CASE Lost /\ Marked(Last, "SUBMITTING")
  <2>1. Back /\ Dispose(Last, [ledger[Last].res EXCEPT !.err = "AMBIGUOUS"], "ambiguous", None)
    BY <1>3 DEF Lost, LostReply
  <2>2. Settles(Last)
    BY <1>0, <1>3, <2>1, MarkLast DEF Errors
  <2>. QED BY <1>0, <1>1, <2>1, <2>2, BackStep
<1>4. CASE BindReceipt /\ Marked(Last, "SUBMITTING")
  <2>1. /\ Dispose(Last, [ledger[Last].res EXCEPT !.err = "PENDING"], "submitted", None)
        /\ pc' = "await" /\ UNCHANGED <<cur, todo>>
    BY <1>4 DEF BindReceipt
  <2>2. Settles(Last)
    BY <1>0, <1>4, <2>1, MarkLast DEF Errors
  <2>3. Types' /\ StoreInv'
    BY <1>0, <1>1, <2>1, <2>2 DEF Types, Settles, Scanning, Launching
  <2>4. LoopInv' /\ FenceInv'
    BY <1>0, <2>1, <2>2 DEF LoopInv, FenceInv, Scanning, Launching, Settles
  <2>5. LaunchInv'
    <3>1. PICK i : i = Last
      OBVIOUS
    <3>2. Last' = i /\ i \in DOMAIN ledger' /\ Entity(i)' = Entity(i) /\ cur'.e = Entity(i)
      BY <1>1, <2>1, <2>2, <3>1 DEF Settles, Last
    <3>3. ledger' = [ledger EXCEPT ![i].disp = "submitted", ![i].final = None,
                                   ![i].child = [ledger[i].res EXCEPT !.err = "PENDING"].proc]
      BY <2>1, <3>1 DEF Dispose
    <3>4. ledger[i] \in Intents
      BY <1>1, <3>1, LedgerFacts
    <3>5. ledger'[i].disp = "submitted" /\ ledger'[i].final = None
      BY <1>1, <3>1, <3>3, <3>4 DEF Intents
    <3>6. Entity(Last)' = Entity(i) /\ ledger'[Last'] = ledger'[i]
      BY <3>2 DEF Entity
    <3>. QED BY <2>1, <3>2, <3>5, <3>6 DEF LaunchInv
  <2>. QED BY <2>3, <2>4, <2>5
<1>. QED BY <1>2, <1>3, <1>4 DEF Lost, BindReceipt

LEMMA FinalizeLastStep == ASSUME SubmissionInv, FinalizeLast PROVE SubmissionInv'
<1>. USE DEF SubmissionInv
<1>0. /\ pc \in Launching /\ UNCHANGED <<msg, beats, unit, late, fenced, crashes>> /\ recent' = {} /\ Back
  BY DEF FinalizeLast, Launching
<1>1. /\ Last \in DOMAIN ledger /\ Unresolved(Last) /\ pc \in Scanning
      /\ msg' \in [Keys -> Messages] /\ recent' \subseteq Ids
  BY <1>0, LaunchFacts DEF Types
<1>2. PICK v : v = IF pc = "reject" THEN "rejected" ELSE Observe(Last)
  OBVIOUS
<1>3. v \in {None, "ack", "rejected", "expired"} /\ (v = "ack" => Fresh(Last) # {}) /\ Finalize(Last, v)
  BY <1>1, <1>2, OwnAttempt DEF FinalizeLast
<1>4. Settles(Last) \/ UNCHANGED <<row, ledger>>
  BY <1>0, <1>1, <1>3, FinalizeStep
<1>. QED BY <1>0, <1>1, <1>4, BackStep

\* A reservation of a message that moved may not be repeated as it was.
LEMMA MovedMessage ==
    ASSUME SubmissionInv, NEW e \in Entities, NEW r, Reserved(e, r), e.kind # "watch",
           Digest(Target(e)) # r.prog
    PROVE  ~Repeatable(e)
<1>. SUFFICES ASSUME Repeatable(e) PROVE FALSE
  OBVIOUS
<1>1. /\ e.key \in Keys /\ msg[e.key] # "ABSENT" /\ r.prog = Progress(e)
      /\ e.kind \in {"prepared", "claimed"} /\ (e.kind = "claimed" => e.key \in Lineages /\ Settled(e.key))
  BY EntityFacts DEF Reserved
<1>2. Digest(Target(e)) = <<msg[e.key], WatchState(e.key), IF e.key \in Lineages THEN beats[e.key] ELSE 0>>
  BY TargetFacts, DigestTyped DEF SubmissionInv
<1>3. CASE e.kind = "prepared"
  <2>1. msg[e.key] = "PREPARED" /\ (e.key \in Lineages => WatchState(e.key) = "PENDING_CLAIM" /\ beats[e.key] = 0)
    BY <1>1, <1>3 DEF Repeatable, SubmissionInv, StoreInv, RowsAgree
  <2>2. e.key \notin Lineages => WatchState(e.key) = None
    BY DEF WatchState
  <2>. QED BY <1>1, <1>2, <1>3, <2>1, <2>2 DEF Progress
<1>4. CASE e.kind = "claimed"
  <2>1. msg[e.key] = "CLAIMED" /\ WatchState(e.key) = "HOLD"
    BY <1>1, <1>4 DEF Repeatable, Settled
  <2>. QED BY <1>1, <1>2, <1>4, <2>1 DEF Progress
<1>. QED BY <1>1, <1>3, <1>4

\* What a launch was reserved for is still there when the progress of its target is.
LEMMA SameProgress ==
    ASSUME SubmissionInv, NEW e \in Entities, NEW r, Reserved(e, r), e.kind # "watch",
           Digest(Target(e)) = r.prog
    PROVE  msg[e.key] = IF e.kind = "prepared" THEN "PREPARED" ELSE "CLAIMED"
<1>1. PICK c, d : Digest(Target(e)) = <<msg[e.key], c, d>>
  BY TargetFacts, DigestTyped DEF SubmissionInv
<1>2. PICK a, b : Progress(e) = <<IF e.kind = "prepared" THEN "PREPARED" ELSE "CLAIMED", a, b>>
  BY EntityFacts DEF Progress
<1>3. r.prog = Progress(e)
  BY DEF Reserved
<1>4. <<msg[e.key], c, d>> = <<IF e.kind = "prepared" THEN "PREPARED" ELSE "CLAIMED", a, b>>
  BY <1>1, <1>2, <1>3, Zenon
<1>. QED BY <1>4

\* The last attempt is used up: the row and its message are held, the intent abandoned.
LEMMA UsedUpStep ==
    ASSUME SubmissionInv, NEW i \in DOMAIN ledger, Unresolved(i), HoldExhausted(Entity(i)),
           Marked(i, "SUBMITTING"), Digest(Target(Entity(i))) = ledger[i].res.prog, unit[i].st = None,
           ledger' = [ledger EXCEPT ![i].disp = "abandoned"], UNCHANGED <<beats, unit>>
    PROVE  Settles(i) /\ msg' \in [Keys -> Messages]
<1>. USE DEF SubmissionInv
<1>1. PICK e : e = Entity(i)
  OBVIOUS
<1>. DEFINE x == [ledger[i] EXCEPT !.disp = "abandoned"]
<1>2. /\ e \in Entities /\ ledger[i] \in Intents /\ i \in 1..Len(ledger) /\ ledger[i].final = None
      /\ Reserved(e, ledger[i].res) /\ row[e].state = ledger[i].res.state
  BY <1>1, LedgerFacts, MarkedFacts DEF StoreInv, Reservations, Unresolved
<1>3. (e.kind # "watch" => msg[e.key] \in {"PREPARED", "CLAIMED"}) /\ (e.kind = "watch" => row[e].state = "ACTIVE")
  BY <1>1, <1>2, SameProgress DEF Reserved
<1>4. /\ msg' \in [Keys -> Messages] /\ row' \in [Entities -> RowType]
      /\ RowsAgree' /\ Progressing /\ CountsKept
      /\ \A k \in Keys : msg'[k] = "CLAIMED" => msg[k] = "CLAIMED"
  BY <1>1, <1>2, <1>3, ExhaustedStep
<1>5. /\ x \in Intents /\ x.e = ledger[i].e /\ x.res = ledger[i].res /\ x.pre = ledger[i].pre
      /\ x.disp = "abandoned" /\ x.final = None /\ ledger' = [ledger EXCEPT ![i] = x]
  BY <1>2 DEF Intents
<1>. HIDE DEF x
<1>6. /\ ledger' \in Seq(Intents) /\ Len(ledger') = Len(ledger)
      /\ \A j \in 1..Len(ledger) : ledger'[j] = IF j = i THEN x ELSE ledger[j]
  <2>1. ledger \in Seq(Intents) /\ i \in 1..Len(ledger) /\ x \in Intents /\ ledger' = [ledger EXCEPT ![i] = x]
    BY <1>2, <1>5 DEF Types
  <2>. HIDE DEF SubmissionInv
  <2>. QED BY ONLY <2>1, ExceptSeq
<1>7. DOMAIN ledger' = DOMAIN ledger
  BY <1>6, LedgerFacts
<1>8. /\ \A j \in DOMAIN ledger : /\ Entity(j)' = Entity(j) /\ ledger'[j].res = ledger[j].res
                                  /\ ledger'[j].pre = ledger[j].pre
                                  /\ j # i => ledger'[j] = ledger[j]
      /\ ledger'[i].disp = "abandoned" /\ ledger'[i].final = None
  BY <1>5, <1>6, <1>7, LedgerFacts DEF Entity
<1>9. \A f, d : Tally(f, d)' = Tally(f, d)
  BY <1>7, <1>8, TallyKept
<1>10. Counting'
  BY <1>4, <1>9, CountingKept DEF Types
<1>11. MessagesMove
  BY <1>4 DEF MessagesMove, Progressing
<1>12. \A f \in Entities : row[f].state = "HOLD" => row'[f].state = "HOLD"
  BY <1>4 DEF Progressing
<1>13. StoreInv' /\ Fenced' \subseteq Fenced /\ \A y : With(y) \ {i} \subseteq With(y)'
  BY <1>4, <1>7, <1>8, <1>10, <1>11, <1>12, ResolveStore DEF None
<1>. QED BY <1>4, <1>6, <1>7, <1>8, <1>13 DEF Settles

LEMMA NotSubmittedStep == ASSUME SubmissionInv, NotSubmitted PROVE SubmissionInv'
<1>. USE DEF SubmissionInv
<1>0. /\ pc = "bind" /\ pc \in Launching /\ cur.out = "notSubmitted" /\ Back
      /\ UNCHANGED <<beats, unit, recent, late, fenced, crashes>>
  BY DEF NotSubmitted, children, Launching
<1>1. PICK i, d : i = Last /\ d = Digest(Target(cur.e))
  OBVIOUS
<1>2. /\ i \in DOMAIN ledger /\ Unresolved(i) /\ cur.e = Entity(i) /\ pc \in Scanning
      /\ recent' \subseteq Ids /\ msg \in [Keys -> Messages] /\ unit[i].st = None
      /\ ledger[i].res \in RowType /\ row[Entity(i)] \in RowType
      /\ Reserved(Entity(i), ledger[i].res) /\ Entity(i) \in Entities /\ Entity(i).key \in Keys
      /\ (Marked(i, "SUBMITTING") => row[Entity(i)].state = ledger[i].res.state)
  BY <1>0, <1>1, LaunchFacts DEF LaunchInv, Types
<1>3. CASE UNCHANGED <<msg, row, ledger>>
  BY <1>0, <1>2, <1>3, BackStep
<1>4. CASE /\ d # ledger[i].res.prog /\ cur.e.kind # "watch" /\ Marked(i, "SUBMITTING") /\ UNCHANGED msg
           /\ Dispose(i, [ledger[i].res EXCEPT !.attempts = 1, !.prog = d, !.err = "FAILED"], "abandoned", None)
  <2>1. ~Repeatable(Entity(i))
    BY <1>1, <1>2, <1>4, MovedMessage
  <2>2. d \in {None, "PREPARED", "CLAIMED", "COMPLETE", "HOLD"}
            \X {None, "PENDING_CLAIM", "ACTIVE", "HOLD", "COMPLETE"} \X (0..MaxBeats)
    <3>1. PICK k : k = Entity(i).key
      OBVIOUS
    <3>2. d = <<msg[k], WatchState(k), IF k \in Lineages THEN beats[k] ELSE 0>>
      BY <1>1, <1>2, <1>4, <3>1, TargetFacts, DigestTyped
    <3>3. msg[k] \in {"PREPARED", "CLAIMED", "COMPLETE", "HOLD"}
      BY <1>2, <3>1 DEF Reserved, Messages
    <3>4. WatchState(k) \in {None, "PENDING_CLAIM", "ACTIVE", "HOLD", "COMPLETE"}
      BY EntityFacts DEF WatchState, StoreInv, RowsAgree
    <3>5. (IF k \in Lineages THEN beats[k] ELSE 0) \in 0..MaxBeats
      BY SubmissionBounds DEF Types
    <3>. QED BY <3>2, <3>3, <3>4, <3>5
  <2>3. PICK r : r = [ledger[i].res EXCEPT !.attempts = 1, !.prog = d, !.err = "FAILED"]
    OBVIOUS
  <2>4. r \in RowType /\ r.state = row[Entity(i)].state
    <3>1. 1 \in 0..MaxAttempts /\ "FAILED" \in Errors
      BY AttemptsAssumption DEF Errors
    <3>. QED BY <1>2, <1>4, <2>2, <2>3, <3>1 DEF RowType
  <2>5. Settles(i)
    BY <1>0, <1>2, <1>4, <2>1, <2>3, <2>4, DisposeStep DEF None
  <2>. QED BY <1>0, <1>2, <1>4, <2>5, BackStep
<1>5. CASE /\ d = ledger[i].res.prog /\ Marked(i, "SUBMITTING")
           /\ HoldExhausted(cur.e) /\ ledger' = [ledger EXCEPT ![i].disp = "abandoned"]
  <2>1. Settles(i) /\ msg' \in [Keys -> Messages]
    BY <1>0, <1>1, <1>2, <1>5, UsedUpStep
  <2>. QED BY <1>0, <1>2, <2>1, BackStep
<1>6. CASE /\ Marked(i, "SUBMITTING") /\ UNCHANGED msg
           /\ Dispose(i, [ledger[i].res EXCEPT !.err = "FAILED"], "abandoned", None)
  <2>1. Settles(i)
    BY <1>0, <1>1, <1>2, <1>6, MarkLast DEF Errors
  <2>. QED BY <1>0, <1>2, <1>6, <2>1, BackStep
<1>7. \/ UNCHANGED <<msg, row, ledger>>
      \/ /\ d # ledger[i].res.prog /\ cur.e.kind # "watch" /\ Marked(i, "SUBMITTING") /\ UNCHANGED msg
         /\ Dispose(i, [ledger[i].res EXCEPT !.attempts = 1, !.prog = d, !.err = "FAILED"], "abandoned", None)
      \/ /\ d = ledger[i].res.prog /\ Marked(i, "SUBMITTING")
         /\ HoldExhausted(cur.e) /\ ledger' = [ledger EXCEPT ![i].disp = "abandoned"]
      \/ /\ Marked(i, "SUBMITTING") /\ UNCHANGED msg
         /\ Dispose(i, [ledger[i].res EXCEPT !.err = "FAILED"], "abandoned", None)
  BY <1>1 DEF NotSubmitted
<1>. QED BY <1>3, <1>4, <1>5, <1>6, <1>7
-----------------------------------------------------------------------------

LEMMA SubmissionStep == ASSUME SubmissionInv, [Next]_vars PROVE SubmissionInv'
<1>1. CASE UNCHANGED vars
  <2>1. UNCHANGED <<msg, row, beats, ledger, unit, recent, late, pc, todo, cur, fenced, crashes>>
    BY <1>1 DEF vars, store, children, pass
  <2>2. StoreInv'
    BY <2>1, SameStore DEF store
  <2>3. Types'
    BY <2>1 DEF SubmissionInv, Types
  <2>4. UnitMoves
    BY <2>1 DEF UnitMoves, Live, HasAttempt
  <2>5. LoopInv' /\ FenceInv' /\ LaunchInv'
    BY <2>1, <2>4, UnitPass DEF store, pass
  <2>. QED BY <2>2, <2>3, <2>5 DEF SubmissionInv
<1>2. CASE Supervisor
  <2>1. CASE Begin \/ BeginScan \/ Reserve \/ RecordIntent \/ Precall \/ Call
    BY <2>1, BeginStep, BeginScanStep, ReserveStep, RecordStep, PrecallStep, CallStep
  <2>2. CASE NextLoop \/ EndScan \/ NotDue \/ Poll \/ TimeOut
    BY <2>2, QuietPass
  <2>3. CASE Reconcile
    BY <2>3, ReconcileSteps, AmbiguousStep DEF Reconcile
  <2>4. CASE Scan
    BY <2>4, QuietPass, PassOverStep DEF Scan
  <2>5. CASE NotSubmitted \/ Lost \/ BindReceipt \/ FinalizeLast
    BY <2>5, NotSubmittedStep, BindSteps, FinalizeLastStep
  <2>. QED BY <1>2, <2>1, <2>2, <2>3, <2>4, <2>5 DEF Supervisor
<1>3. CASE Crash \/ Tick
  BY <1>3, QuietPass
<1>4. ASSUME NEW i \in Ids, Child(i) PROVE SubmissionInv'
  BY <1>4, AttemptSteps, ChildMessages, ClaimStep DEF Child
<1>5. CASE \/ \E n \in Notices : Enqueue(n)
           \/ \E l \in Lineages : Replan(l)
  BY <1>5, EnvironmentSteps
<1>. QED BY <1>1, <1>2, <1>3, <1>4, <1>5 DEF Next

LEMMA SubmissionInvariant == Spec => []SubmissionInv
BY InitSubmission, SubmissionStep, PTL DEF Spec

\* Every variable has its shape; the retry counters of a row stay within the budget.
THEOREM SubmissionTypeOK == Spec => []TypeOK
<1>1. SubmissionInv => TypeOK
  <2>. SUFFICES ASSUME SubmissionInv PROVE TypeOK
    OBVIOUS
  <2>1. Types
    BY DEF SubmissionInv
  <2>2. \A i \in DOMAIN ledger : ledger[i] \in Intents
    BY <2>1, LedgerFacts
  <2>3. \A i \in Ids : unit[i].st \in {None, "started", "gone"} \cup Active \cup Ended
    BY <2>1, LedgerFacts DEF Units
  <2>. QED BY <2>1, <2>2, <2>3 DEF Types, TypeOK, Messages, Intents
<1>. QED BY <1>1, SubmissionInvariant, PTL

\* A notice or a lineage has one executor under way at most: no two submissions of it
\* are unresolved (_pending_manager_submissions, _lineage_active), and none is made
\* while a process of an earlier one lives or may still come up, whatever crashes,
\* lost replies and late children come between.
THEOREM SubmissionOneExecutor == Spec => []OneExecutor
<1>1. SubmissionInv => OneExecutor
  <2>. SUFFICES ASSUME SubmissionInv PROVE SingleFlight
    BY DEF OneExecutor, SubmissionInv, StoreInv
  <2>. SUFFICES ASSUME NEW i \in DOMAIN ledger, NEW j \in DOMAIN ledger, i # j,
                       Unresolved(i), Unresolved(j), Entity(i).key = Entity(j).key
                PROVE  FALSE
    BY DEF SingleFlight
  <2>1. i \in Int /\ j \in Int
    BY LedgerFacts DEF SubmissionInv
  <2>2. i < j \/ j < i
    BY <2>1
  <2>. QED BY <2>2 DEF SubmissionInv, StoreInv, KeyOrder
<1>. QED BY <1>1, SubmissionInvariant, PTL

\* The process the supervisor attaches to a submission is the one its own call started,
\* also when recover_role_executor_child_ack_expectation has to find it from the
\* attempts alone.
THEOREM SubmissionAttachedIsOwn == Spec => []AttachedIsOwn
<1>1. SubmissionInv => AttachedIsOwn
  BY DEF SubmissionInv, StoreInv
<1>. QED BY <1>1, SubmissionInvariant, PTL

\* Identical progress of a row is launched at most MaxAttempts times, over all passes
\* and crashes, and a row that a submission put on HOLD never again.
THEOREM SubmissionRetriesEnd == Spec => []RetriesEnd
<1>1. SubmissionInv => RetriesEnd
  <2>. SUFFICES ASSUME SubmissionInv PROVE RetriesEnd
    OBVIOUS
  <2>1. ASSUME NEW e \in Entities, NEW i \in DOMAIN ledger
        PROVE  Tally(e, ledger[i].res.prog) <= MaxAttempts
    <3>1. PICK d : d = ledger[i].res.prog
      OBVIOUS
    <3>2. d \in Digests
      <4>1. ledger[i].res \in RowType
        BY LedgerFacts DEF SubmissionInv
      <4>. QED BY <3>1, <4>1 DEF RowType, Digests, Messages
    <3>. QED BY <3>1, <3>2 DEF SubmissionInv, StoreInv, Budgeted
  <2>2. RetryBudget
    BY <2>1 DEF RetryBudget, Tally
  <2>3. HeldIsFinal
    BY DEF SubmissionInv, StoreInv
  <2>. QED BY <2>2, <2>3 DEF RetriesEnd
<1>. QED BY <1>1, SubmissionInvariant, PTL
=============================================================================
