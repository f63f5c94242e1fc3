-------------------------- MODULE ControlsProofs --------------------------
(***************************************************************************)
(* Proofs about the controls: what stands in front of a push (invariant    *)
(* PushInv), what installs reviewed sources (invariant InstallInv) and     *)
(* what the owner decides (invariant ApprovalInv).  They share no state.   *)
(***************************************************************************)
EXTENDS MCControls, Approval, Sequences, TLAPS, FiniteSetTheorems

(* Pushes, for every set of sessions, heads and leased heads and every      *)
(* number of generations, versions and disturbances.                        *)

Pcs == {"idle", "gate", "assert", "reserve", "push", "wait", "readback", "finish"}
HandType ==
    [pc : Pcs, lin : Lineages \cup {NoLineage}, head : Heads \cup {0}, env : BOOLEAN,
     end : {"none", "COMPLETE", "HOLD"}]
PubType ==
    [state : {"NONE", "RESERVED", "COMPLETE", "HOLD"}, lin : Lineages \cup {NoLineage}]

Types ==
    /\ lin \in Lineages
    /\ tree \in [head : Heads, clean : BOOLEAN, env : BOOLEAN]
    /\ gates \in [Keys -> [lin : Lineages \cup {NoLineage}, pass : BOOLEAN]]
    /\ pubs \in [Keys -> PubType]
    /\ kids \subseteq [key : Keys, st : {"hook", "send"}]
    /\ remote \in Heads \cup {0}
    /\ hands \in [Sessions -> HandType]
    /\ starts \in [Keys -> Nat]
    /\ landed \subseteq Heads
    /\ \A k \in Keys : pubs[k].state = "NONE" <=> pubs[k].lin = NoLineage

\* Lineages come one after the other and never come back.
Before(a, b) == a.gen < b.gen \/ (a.gen = b.gen /\ a.ver <= b.ver)

\* A session at work holds a lineage that was in force and a head of the branch.
HandInv ==
    \A s \in Sessions : hands[s].pc # "idle" =>
        /\ hands[s].lin \in Lineages /\ hands[s].head \in Heads
        /\ Before(hands[s].lin, lin)

\* Only leased heads are gated, and a receipt says PASS only of a gate that passed.
GateInv ==
    /\ \A p \in passed : p[2] \in Leased
    /\ \A s \in Sessions : hands[s].pc = "gate" => hands[s].head \in Leased
    /\ \A k \in Keys : gates[k].pass => <<gates[k].lin, k[2]>> \in passed

GatedHeads == {p[2] : p \in passed}

\* A reservation is taken by a session whose lineage is still in force only for a head
\* that passed under it; an open one stops the lineage from moving.
ReserveInv ==
    /\ \A s \in Sessions : (hands[s].pc = "reserve" /\ hands[s].lin = lin) =>
            <<lin, hands[s].head>> \in passed
    /\ ReservedIsCurrent
    /\ \A k \in Keys : pubs[k].state # "NONE" => k[2] \in GatedHeads

\* A git push belongs to a publication, and so to a gated head.
KidInv ==
    /\ \A kid \in kids : pubs[kid.key].state # "NONE"
    /\ LandedIsGated

\* One session turns a reservation into a git push: nobody else is at its push, and
\* none was started before.
OnceInv ==
    /\ PushedOnce
    /\ \A k \in Keys : pubs[k].state = "NONE" => starts[k] = 0
    /\ \A s \in Sessions : hands[s].pc = "push" => starts[Key(s)] = 0 /\ pubs[Key(s)].state # "NONE"
    /\ \A s, t \in Sessions :
            hands[s].pc = "push" /\ hands[t].pc = "push" /\ Key(s) = Key(t) => s = t

\* COMPLETE is only concluded from a head that landed.
SeenInv ==
    /\ remote = 0 \/ remote \in landed
    /\ \A s \in Sessions : hands[s].pc = "finish" =>
            hands[s].end \in {"COMPLETE", "HOLD"}
            /\ (hands[s].end = "COMPLETE" => hands[s].head \in landed)
    /\ CompleteLanded

PushInv == Types /\ HandInv /\ GateInv /\ ReserveInv /\ KidInv /\ OnceInv /\ SeenInv

LEMMA KeyTyped ==
    ASSUME PushInv, NEW s \in Sessions, hands[s].pc # "idle"
    PROVE  /\ Key(s) \in Keys /\ Key(s)[1] = hands[s].lin.gen /\ Key(s)[2] = hands[s].head
           /\ hands[s] \in HandType
BY DEF PushInv, Types, HandInv, Key, Keys, Lineages

LEMMA InitPush == PrepushInit => PushInv
<1>. SUFFICES ASSUME PrepushInit PROVE PushInv
  OBVIOUS
<1>. USE HeadsAssumption, LineagesAssumption DEF PrepushInit
<1>1. Types
  BY DEF Types, Lineages, NoGate, NoPublication, PubType, HandType, AtRest, Pcs
<1>2. HandInv /\ GateInv
  BY DEF HandInv, GateInv, AtRest, NoGate
<1>3. ReserveInv /\ KidInv
  BY DEF ReserveInv, KidInv, AtRest, NoPublication, ReservedIsCurrent, LandedIsGated
<1>4. OnceInv /\ SeenInv
  BY DEF OnceInv, SeenInv, AtRest, NoPublication, PushedOnce, CompleteLanded
<1>. QED BY <1>1, <1>2, <1>3, <1>4 DEF PushInv

-----------------------------------------------------------------------------
(* What others do.                                                          *)

LEMMA BeforeTransitive ==
    ASSUME NEW a \in Lineages, NEW b \in Lineages, NEW c \in Lineages, Before(a, b), Before(b, c)
    PROVE  Before(a, c)
<1>1. \A d \in Lineages : d.gen \in Nat /\ d.ver \in Nat
  BY LineagesAssumption DEF Lineages
<1>. QED BY <1>1 DEF Before

\* The lineage moves only where no publication is reserved, and only forward.
LEMMA LineageMoves ==
    ASSUME PushInv, NewVersion \/ NewGeneration
    PROVE  PushInv'
<1>. USE HeadsAssumption, LineagesAssumption DEF PushInv
<1>1. /\ lin' \in Lineages /\ Before(lin, lin') /\ ~Before(lin', lin)
      /\ \A k \in Keys : pubs[k].state # "RESERVED"
      /\ UNCHANGED <<tree, gates, pubs, kids, remote, hands, starts, passed, landed>>
  <2>0. lin.gen \in 1..MaxGeneration /\ lin.ver \in 1..MaxVersion
    BY DEF Types, Lineages
  <2>1. \A k \in Keys : pubs[k].state # "RESERVED"
    BY DEF NewVersion, NewGeneration, Unfenced, Reserved
  <2>2. CASE NewVersion
    <3>1. lin' = [gen |-> lin.gen, ver |-> lin.ver + 1]
      BY <2>2 DEF NewVersion, Types, Lineages
    <3>2. lin.ver + 1 \in 1..MaxVersion
      BY <2>0, <2>2 DEF NewVersion
    <3>3. lin' \in Lineages
      BY <2>0, <3>1, <3>2 DEF Lineages
    <3>4. Before(lin, lin') /\ ~Before(lin', lin)
      BY <2>0, <3>1 DEF Before
    <3>. QED BY <2>1, <2>2, <3>3, <3>4 DEF NewVersion
  <2>3. CASE NewGeneration
    BY <2>0, <2>1, <2>3 DEF NewGeneration, Lineages, Before
  <2>. QED BY <2>2, <2>3
<1>2. Types'
  BY <1>1 DEF Types
<1>3. HandInv' /\ \A s \in Sessions : hands[s].pc # "idle" => hands[s].lin # lin'
  BY <1>1, BeforeTransitive DEF HandInv, Types
<1>4. GateInv' /\ ReserveInv'
  BY <1>1, <1>3 DEF GateInv, ReserveInv, ReservedIsCurrent, GatedHeads
<1>5. KidInv' /\ OnceInv' /\ SeenInv'
  BY <1>1 DEF KidInv, LandedIsGated, OnceInv, PushedOnce, Key, SeenInv, CompleteLanded
<1>. QED BY <1>2, <1>3, <1>4, <1>5

\* What happens to the worktree concerns no row.
LEMMA TreeMoves ==
    ASSUME PushInv, Touch \/ EnvironmentDrifts \/ \E h \in Heads : Checkout(h)
    PROVE  PushInv'
<1>. USE DEF PushInv
<1>1. /\ tree' \in [head : Heads, clean : BOOLEAN, env : BOOLEAN]
      /\ UNCHANGED <<lin, gates, pubs, kids, remote, hands, starts, passed, landed>>
  BY DEF Touch, EnvironmentDrifts, Checkout, Types
<1>2. Types' /\ HandInv'
  BY <1>1 DEF Types, HandInv
<1>3. GateInv' /\ ReserveInv' /\ KidInv'
  BY <1>1 DEF GateInv, ReserveInv, ReservedIsCurrent, GatedHeads, KidInv, LandedIsGated
<1>4. OnceInv' /\ SeenInv'
  BY <1>1 DEF OnceInv, PushedOnce, Key, SeenInv, CompleteLanded
<1>. QED BY <1>2, <1>3, <1>4

\* A git push that goes on or ends without its session.
LEMMA KidMoves == ASSUME PushInv, KidStep PROVE PushInv'
<1>. USE DEF PushInv
<1>0. PICK kid \in kids : Hook(kid) \/ Land(kid) \/ Bounce(kid)
  BY DEF KidStep
<1>1. /\ \A d \in kids' : d \in [key : Keys, st : {"hook", "send"}] /\ \E e \in kids : d.key = e.key
      /\ UNCHANGED <<lin, tree, gates, pubs, hands, starts, passed>>
  BY <1>0 DEF Hook, Land, Bounce, Types
<1>2. /\ remote' = remote \/ (remote' = kid.key[2] /\ landed' = landed \cup {kid.key[2]})
      /\ landed' = landed \/ landed' = landed \cup {kid.key[2]}
      /\ kid.key \in Keys /\ kid.key[2] \in Heads /\ pubs[kid.key].state # "NONE"
  BY <1>0 DEF Hook, Land, Bounce, Types, KidInv, Keys
<1>3. Types' /\ HandInv'
  BY <1>1, <1>2 DEF Types, HandInv
<1>4. GateInv' /\ ReserveInv' /\ OnceInv'
  BY <1>1 DEF GateInv, ReserveInv, ReservedIsCurrent, GatedHeads, OnceInv, PushedOnce, Key
<1>5. KidInv'
  <2>1. kid.key[2] \in Leased \cap GatedHeads
    BY <1>2 DEF ReserveInv, GateInv, GatedHeads
  <2>. QED BY <1>1, <1>2, <2>1 DEF KidInv, LandedIsGated, GatedHeads
<1>6. SeenInv'
  BY <1>1, <1>2 DEF SeenInv, CompleteLanded
<1>. QED BY <1>3, <1>4, <1>5, <1>6

-----------------------------------------------------------------------------
(* What sessions do.                                                        *)

\* What the invariant asks of a hand that is not about to push.
Sound(h) ==
    /\ h \in HandType /\ h.pc # "push"
    /\ h.pc # "idle" => h.lin \in Lineages /\ h.head \in Heads /\ Before(h.lin, lin)
    /\ h.pc = "gate" => h.head \in Leased
    /\ h.pc = "reserve" /\ h.lin = lin => <<lin, h.head>> \in passed
    /\ h.pc = "finish" => /\ h.end \in {"COMPLETE", "HOLD"}
                          /\ h.end = "COMPLETE" => h.head \in landed

\* A session that only moves its own hand, and not to its push.
LEMMA QuietMove ==
    ASSUME PushInv, NEW s \in Sessions, NEW h, Sound(h), hands' = [hands EXCEPT ![s] = h],
           UNCHANGED <<lin, tree, gates, pubs, kids, remote, starts, passed, landed>>
    PROVE  PushInv'
<1>. USE DEF PushInv
<1>1. hands' \in [Sessions -> HandType] /\ \A t \in Sessions : hands'[t] = IF t = s THEN h ELSE hands[t]
  BY DEF Types, Sound
<1>2. Types' /\ HandInv'
  BY <1>1 DEF Types, HandInv, Sound
<1>3. GateInv' /\ ReserveInv' /\ KidInv'
  BY <1>1 DEF GateInv, ReserveInv, ReservedIsCurrent, GatedHeads, KidInv, LandedIsGated, Sound
<1>4. OnceInv'
  BY <1>1 DEF OnceInv, PushedOnce, Key, Sound
<1>5. SeenInv'
  BY <1>1 DEF SeenInv, CompleteLanded, Sound
<1>. QED BY <1>2, <1>3, <1>4, <1>5

LEMMA RestIsSound == Sound(AtRest)
BY DEF Sound, AtRest, HandType, Pcs

LEMMA BeforeItself == Types => Before(lin, lin)
<1>1. Types => lin.gen \in Nat /\ lin.ver \in Nat
  BY LineagesAssumption DEF Types, Lineages
<1>. QED BY <1>1 DEF Before

LEMMA QuietSteps ==
    ASSUME PushInv, NEW s \in Sessions,
           StartGate(s) \/ StartPush(s) \/ Dies(s) \/ Assert(s) \/ PushNotStarted(s) \/ Wait(s)
               \/ \E read \in BOOLEAN : ReadBack(s, read)
    PROVE  PushInv'
<1>. USE DEF PushInv
<1>0. hands[s] \in HandType /\ tree.head \in Heads /\ tree.clean \in BOOLEAN
      /\ EnvironmentReady \in BOOLEAN /\ lin \in Lineages /\ Before(lin, lin)
  BY BeforeItself DEF Types, EnvironmentReady
<1>1. CASE StartGate(s)
  <2>. DEFINE h == [AtRest EXCEPT !.pc = "gate", !.lin = lin, !.head = tree.head,
                                  !.env = EnvironmentReady]
  <2>1. Sound(h)
    BY <1>0, <1>1 DEF StartGate, LeaseMatches, Sound, AtRest, HandType, Pcs
  <2>. QED BY <1>1, <2>1, QuietMove DEF StartGate
<1>2. CASE StartPush(s)
  <2>. DEFINE h == [AtRest EXCEPT !.pc = "assert", !.lin = lin, !.head = tree.head]
  <2>1. Sound(h)
    BY <1>0 DEF Sound, AtRest, HandType, Pcs
  <2>. QED BY <1>2, <2>1, QuietMove DEF StartPush
<1>3. CASE Dies(s)
  BY <1>3, RestIsSound, QuietMove DEF Dies, Return
<1>4. CASE Assert(s)
  <2>. DEFINE h == [hands[s] EXCEPT !.pc = "reserve"]
  <2>1. CASE tree.head = hands[s].head /\ Eligible(tree.head) /\ Goto(s, "reserve")
    <3>1. <<lin.gen, tree.head>> \in Keys
      BY <1>0 DEF Keys, Lineages
    <3>2. <<lin, hands[s].head>> \in passed
      BY <2>1, <3>1 DEF Eligible, GateInv
    <3>3. Sound(h)
      BY <1>0, <1>4, <3>2 DEF Assert, At, Sound, HandType, Pcs, HandInv
    <3>4. hands' = [hands EXCEPT ![s] = h]
      BY <2>1 DEF Goto
    <3>. QED BY <1>4, <3>3, <3>4, QuietMove DEF Assert
  <2>2. CASE Return(s)
    BY <1>4, <2>2, RestIsSound, QuietMove DEF Assert, Return
  <2>. QED BY <1>4, <2>1, <2>2 DEF Assert
<1>5. CASE PushNotStarted(s) \/ Wait(s)
  <2>. DEFINE h == [hands[s] EXCEPT !.pc = "readback"]
  <2>1. Sound(h) /\ hands' = [hands EXCEPT ![s] = h]
    BY <1>0, <1>5 DEF PushNotStarted, Wait, Goto, At, Sound, HandType, Pcs, HandInv
  <2>. QED BY <1>5, <2>1, QuietMove DEF PushNotStarted, Wait
<1>6. ASSUME NEW read \in BOOLEAN, ReadBack(s, read) PROVE PushInv'
  <2>. DEFINE h == [hands[s] EXCEPT !.pc = "finish", !.end = Verdict(s, read)]
  <2>1. hands[s].pc = "readback" /\ hands[s].head \in Heads
    BY <1>6 DEF ReadBack, At, HandInv
  <2>2. Verdict(s, read) \in {"COMPLETE", "HOLD"}
        /\ (Verdict(s, read) = "COMPLETE" => hands[s].head \in landed)
    BY <2>1, HeadsAssumption DEF Verdict, SeenInv
  <2>3. Sound(h)
    BY <1>0, <2>1, <2>2 DEF Sound, HandType, Pcs, HandInv
  <2>4. hands' = [hands EXCEPT ![s] = h]
    BY <1>6 DEF ReadBack
  <2>. QED BY <1>6, <2>3, <2>4, QuietMove DEF ReadBack
<1>. QED BY <1>1, <1>2, <1>3, <1>4, <1>5, <1>6

\* _record: the receipt says PASS only when head and worktree held still.
LEMMA GateEnds ==
    ASSUME PushInv, NEW s \in Sessions, NEW outcome \in Outcomes, EndGate(s, outcome)
    PROVE  PushInv'
<1>. USE DEF PushInv
<1>0. /\ hands[s].pc = "gate" /\ hands' = [hands EXCEPT ![s] = AtRest]
      /\ UNCHANGED <<lin, tree, pubs, kids, remote, starts, landed>>
  BY DEF EndGate, At, Return
<1>1. Key(s) \in Keys /\ Key(s)[2] = hands[s].head /\ hands[s].head \in Leased
  BY <1>0, KeyTyped DEF GateInv
<1>2. CASE UNCHANGED <<gates, passed>>
  BY <1>0, <1>2, RestIsSound, QuietMove
<1>3. ASSUME NEW pass \in BOOLEAN, pass => HeldStill(s), lin = hands[s].lin,
             gates' = [gates EXCEPT ![Key(s)] = [lin |-> lin, pass |-> pass]],
             passed' = IF pass THEN passed \cup {<<lin, tree.head>>} ELSE passed
      PROVE  PushInv'
  <2>1. hands' \in [Sessions -> HandType]
        /\ \A t \in Sessions : hands'[t] = IF t = s THEN AtRest ELSE hands[t]
    BY <1>0, RestIsSound DEF Types, Sound
  <2>2. AtRest.pc = "idle"
    BY DEF AtRest
  <2>3. passed \subseteq passed' /\ \A p \in passed' \ passed : pass /\ p = <<lin, hands[s].head>>
    BY <1>3 DEF HeldStill
  <2>4. Types'
    BY <1>0, <1>1, <1>3, <2>1 DEF Types
  <2>5. HandInv'
    BY <1>0, <2>1, <2>2 DEF HandInv
  <2>6. GateInv'
    <3>1. \A k \in Keys : gates'[k] = IF k = Key(s) THEN [lin |-> lin, pass |-> pass] ELSE gates[k]
      BY <1>3 DEF Types
    <3>2. pass => <<lin, Key(s)[2]>> \in passed'
      BY <1>1, <1>3 DEF HeldStill
    <3>3. \A k \in Keys : gates'[k].pass => <<gates'[k].lin, k[2]>> \in passed'
      BY <2>3, <3>1, <3>2 DEF GateInv
    <3>4. \A p \in passed' : p[2] \in Leased
      BY <1>1, <2>3 DEF GateInv
    <3>. QED BY <2>1, <2>2, <3>3, <3>4 DEF GateInv
  <2>7. ReserveInv' /\ KidInv'
    BY <1>0, <2>1, <2>2, <2>3 DEF ReserveInv, ReservedIsCurrent, GatedHeads, KidInv, LandedIsGated
  <2>8. OnceInv' /\ SeenInv'
    BY <1>0, <2>1, <2>2 DEF OnceInv, PushedOnce, Key, SeenInv, CompleteLanded
  <2>. QED BY <2>4, <2>5, <2>6, <2>7, <2>8
<1>4. (outcome = "passed" /\ HeldStill(s) /\ EnvironmentHolds(s)) \in BOOLEAN
  OBVIOUS
<1>. QED BY <1>2, <1>3, <1>4 DEF EndGate, Record, Unmoved

\* _reserve_publication: the first session takes the row, and with it the right to push.
LEMMA Reserves == ASSUME PushInv, NEW s \in Sessions, Reserve(s) PROVE PushInv'
<1>. USE DEF PushInv
<1>0. /\ hands[s].pc = "reserve"
      /\ UNCHANGED <<lin, tree, gates, kids, remote, starts, passed, landed>>
  BY DEF Reserve, At
<1>1. Key(s) \in Keys /\ Key(s)[2] = hands[s].head /\ hands[s] \in HandType
      /\ hands[s].lin \in Lineages /\ hands[s].head \in Heads /\ Before(hands[s].lin, lin)
  BY <1>0, KeyTyped DEF HandInv
<1>2. CASE Return(s) /\ UNCHANGED pubs
  BY <1>0, <1>2, RestIsSound, QuietMove DEF Return
<1>3. CASE Goto(s, "readback") /\ UNCHANGED pubs
  <2>. DEFINE h == [hands[s] EXCEPT !.pc = "readback"]
  <2>1. Sound(h) /\ hands' = [hands EXCEPT ![s] = h]
    BY <1>1, <1>3 DEF Goto, Sound, HandType, Pcs
  <2>. QED BY <1>0, <1>3, <2>1, QuietMove
<1>4. CASE /\ Unmoved(s) /\ pubs[Key(s)].state = "NONE" /\ Goto(s, "push")
           /\ pubs' = [pubs EXCEPT ![Key(s)] = RowOf(s)]
  <2>. DEFINE h == [hands[s] EXCEPT !.pc = "push"]
  <2>1. h \in HandType /\ h.pc = "push" /\ h.lin = hands[s].lin /\ h.head = hands[s].head
    BY <1>1 DEF HandType, Pcs
  <2>. HIDE DEF h
  <2>2. hands' \in [Sessions -> HandType]
        /\ \A t \in Sessions : hands'[t] = IF t = s THEN h ELSE hands[t]
    BY <1>4, <2>1 DEF Types, Goto, h
  <2>3. /\ pubs' \in [Keys -> PubType]
        /\ \A k \in Keys : pubs'[k] = IF k = Key(s) THEN RowOf(s) ELSE pubs[k]
        /\ RowOf(s).state = "RESERVED" /\ RowOf(s).lin = lin
    BY <1>1, <1>4 DEF Types, PubType, RowOf, Unmoved
  <2>4. <<lin, hands[s].head>> \in passed
    BY <1>0, <1>4 DEF ReserveInv, Unmoved
  <2>5. Types' /\ HandInv'
    <3>1. RowOf(s).lin # NoLineage
      BY <1>1 DEF RowOf, Lineages, NoLineage
    <3>2. \A k \in Keys : pubs'[k].state = "NONE" <=> pubs'[k].lin = NoLineage
      BY <2>3, <3>1 DEF Types
    <3>3. Types'
      BY <1>0, <2>2, <2>3, <3>2 DEF Types
    <3>. QED BY <1>0, <1>1, <2>1, <2>2, <3>3 DEF HandInv
  <2>6. GateInv'
    BY <1>0, <2>1, <2>2 DEF GateInv
  <2>7. ReserveInv' /\ KidInv'
    <3>1. Key(s)[2] \in GatedHeads
      BY <1>1, <2>4 DEF GatedHeads
    <3>2. ReservedIsCurrent'
      BY <1>0, <1>1, <2>3, <2>4 DEF ReservedIsCurrent, ReserveInv
    <3>3. \A k \in Keys : pubs'[k].state # "NONE" => k[2] \in GatedHeads'
      BY <1>0, <2>3, <3>1 DEF ReserveInv, GatedHeads
    <3>4. ReserveInv'
      BY <1>0, <2>1, <2>2, <3>2, <3>3 DEF ReserveInv
    <3>5. KidInv'
      BY <1>0, <2>3 DEF KidInv, LandedIsGated, Types
    <3>. QED BY <3>4, <3>5
  <2>8. OnceInv'
    <3>1. \A t \in Sessions : Key(t)' = Key(t)
      BY <2>1, <2>2 DEF Key
    <3>2. \A t \in Sessions : hands[t].pc = "push" => Key(t) # Key(s)
      BY <1>4 DEF OnceInv
    <3>3. starts[Key(s)] = 0
      BY <1>1, <1>4 DEF OnceInv
    <3>4. \A t \in Sessions : hands[t].pc = "push" => Key(t) \in Keys
      BY KeyTyped
    <3>. QED BY <1>0, <1>1, <2>1, <2>2, <2>3, <3>1, <3>2, <3>3, <3>4 DEF OnceInv, PushedOnce
  <2>9. SeenInv'
    BY <1>0, <2>1, <2>2, <2>3 DEF SeenInv, CompleteLanded
  <2>. QED BY <2>5, <2>6, <2>7, <2>8, <2>9
<1>. QED BY <1>0, <1>2, <1>3, <1>4 DEF Reserve, NextOf

\* The git push of the session that took the row.
LEMMA Pushes == ASSUME PushInv, NEW s \in Sessions, GitPush(s) PROVE PushInv'
<1>. USE DEF PushInv
<1>. DEFINE h == [hands[s] EXCEPT !.pc = "wait"]
            k0 == Key(s)
<1>0. /\ hands[s].pc = "push" /\ hands' = [hands EXCEPT ![s] = h]
      /\ kids' = kids \cup {[key |-> k0, st |-> "hook"]} /\ starts' = [starts EXCEPT ![k0] = @ + 1]
      /\ UNCHANGED <<lin, tree, gates, pubs, remote, passed, landed>>
  BY DEF GitPush, At, Goto
<1>1. k0 \in Keys /\ hands[s] \in HandType /\ starts[k0] = 0 /\ pubs[k0].state # "NONE"
  BY <1>0, KeyTyped DEF OnceInv
<1>2. h \in HandType /\ h.pc = "wait" /\ h.lin = hands[s].lin /\ h.head = hands[s].head
  BY <1>1 DEF HandType, Pcs
<1>. HIDE DEF h, k0
<1>3. hands' \in [Sessions -> HandType]
      /\ \A t \in Sessions : hands'[t] = IF t = s THEN h ELSE hands[t]
  BY <1>0, <1>2 DEF Types
<1>4. starts' \in [Keys -> Nat] /\ \A k \in Keys : starts'[k] = IF k = k0 THEN 1 ELSE starts[k]
  BY <1>0, <1>1 DEF Types
<1>5. Types' /\ HandInv'
  BY <1>0, <1>1, <1>2, <1>3, <1>4 DEF Types, HandInv
<1>6. GateInv' /\ ReserveInv'
  BY <1>0, <1>2, <1>3 DEF GateInv, ReserveInv, ReservedIsCurrent, GatedHeads
<1>7. KidInv'
  BY <1>0, <1>1 DEF KidInv, LandedIsGated
<1>8. OnceInv'
  <2>1. \A t \in Sessions : Key(t)' = Key(t)
    BY <1>2, <1>3 DEF Key
  <2>2. \A t \in Sessions \ {s} : hands[t].pc = "push" => Key(t) # k0 /\ Key(t) \in Keys
    BY <1>0, KeyTyped DEF OnceInv, k0
  <2>. QED BY <1>0, <1>1, <1>2, <1>3, <1>4, <2>1, <2>2 DEF OnceInv, PushedOnce
<1>9. SeenInv'
  BY <1>0, <1>2, <1>3 DEF SeenInv, CompleteLanded
<1>. QED BY <1>5, <1>6, <1>7, <1>8, <1>9

\* _finish_publication.
LEMMA Finishes == ASSUME PushInv, NEW s \in Sessions, Finish(s) PROVE PushInv'
<1>. USE DEF PushInv
<1>0. /\ hands[s].pc = "finish" /\ hands' = [hands EXCEPT ![s] = AtRest]
      /\ UNCHANGED <<lin, tree, gates, kids, remote, starts, passed, landed>>
  BY DEF Finish, At, Return
<1>1. Key(s) \in Keys /\ Key(s)[2] = hands[s].head
  BY <1>0, KeyTyped
<1>2. CASE UNCHANGED pubs
  BY <1>0, <1>2, RestIsSound, QuietMove
<1>3. CASE pubs[Key(s)].state = "RESERVED" /\ pubs' = [pubs EXCEPT ![Key(s)].state = hands[s].end]
  <2>1. hands' \in [Sessions -> HandType]
        /\ \A t \in Sessions : hands'[t] = IF t = s THEN AtRest ELSE hands[t]
    BY <1>0, RestIsSound DEF Types, Sound
  <2>2. AtRest.pc = "idle"
    BY DEF AtRest
  <2>3. hands[s].end \in {"COMPLETE", "HOLD"}
        /\ (hands[s].end = "COMPLETE" => Key(s)[2] \in landed)
    BY <1>0, <1>1 DEF SeenInv
  <2>4. /\ pubs' \in [Keys -> PubType]
        /\ \A k \in Keys : k # Key(s) => pubs'[k] = pubs[k]
        /\ pubs'[Key(s)].state = hands[s].end /\ pubs'[Key(s)].lin = pubs[Key(s)].lin
    BY <1>1, <1>3, <2>3 DEF Types, PubType
  <2>5. Types' /\ HandInv'
    <3>1. \A k \in Keys : pubs'[k].state = "NONE" <=> pubs'[k].lin = NoLineage
      BY <1>1, <1>3, <2>3, <2>4 DEF Types
    <3>2. Types'
      BY <1>0, <2>1, <2>4, <3>1 DEF Types
    <3>. QED BY <1>0, <2>1, <2>2, <3>2 DEF HandInv
  <2>6. GateInv'
    BY <1>0, <2>1, <2>2 DEF GateInv
  <2>7. ReserveInv'
    BY <1>0, <1>1, <1>3, <2>1, <2>2, <2>3, <2>4 DEF ReserveInv, ReservedIsCurrent, GatedHeads
  <2>8. KidInv'
    BY <1>0, <1>1, <2>3, <2>4 DEF KidInv, LandedIsGated, Types
  <2>9. OnceInv'
    BY <1>0, <1>1, <1>3, <2>1, <2>2, <2>3, <2>4, KeyTyped DEF OnceInv, PushedOnce, Key
  <2>10. SeenInv'
    BY <1>0, <1>1, <2>1, <2>2, <2>3, <2>4 DEF SeenInv, CompleteLanded
  <2>. QED BY <2>5, <2>6, <2>7, <2>8, <2>9, <2>10
<1>. QED BY <1>2, <1>3 DEF Finish, Settles

LEMMA NextPush == PushInv /\ [PrepushNext]_prepushVars => PushInv'
<1>. SUFFICES ASSUME PushInv, [PrepushNext]_prepushVars PROVE PushInv'
  OBVIOUS
<1>1. CASE UNCHANGED prepushVars
  BY <1>1 DEF prepushVars, PushInv, Types, HandInv, GateInv, ReserveInv, ReservedIsCurrent,
        GatedHeads, KidInv, LandedIsGated, OnceInv, PushedOnce, Key, SeenInv, CompleteLanded
<1>2. ASSUME NEW s \in Sessions, StartGate(s) \/ StartPush(s) \/ SessionStep(s) \/ Dies(s)
      PROVE  PushInv'
  BY <1>2, QuietSteps, Reserves, Pushes, Finishes, GateEnds DEF SessionStep
<1>. QED BY <1>1, <1>2, LineageMoves, TreeMoves, KidMoves DEF PrepushNext

LEMMA PushInvIsGated == PushInv => PushIsGated
BY DEF PushInv, KidInv, ReserveInv, OnceInv, SeenInv, PushIsGated

\* Whatever reaches the remote is a leased head that passed its gate; an open
\* reservation is one of the lineage in force; each generation and head is pushed at
\* most once; and COMPLETE is only said of a head that landed.
THEOREM PushesAreGated == PrepushSpec => []PushIsGated
BY PushInvIsGated, InitPush, NextPush, PTL DEF PrepushSpec

-----------------------------------------------------------------------------
(* Installations, for every manifest, every set of rollback directories and *)
(* installers, every depth of receipts and number of mishaps.               *)

\* An entry counts as installed by where its bytes came from, spoilt since or not.
Installed(e) == files[e] \in {"source", "spoilt source"}
Same(e) == Kind[e] = "equal"
AllInstalled == \A e \in Entries : Installed(e)
NoneInstalled == \A e \in Entries : Installed(e) <=> Same(e)
ReplacedBefore(k) == {e \in Entries : e < k /\ ~Same(e)}
Copied(r, k) == \A e \in Entries : e < k /\ Kind[e] = "changed" => backups[r][e] = "prior"

Receipts == [st : {"NONE", "TORN", "PREPARED", "INSTALLED", "ROLLED_BACK"}, depth : Nat]
Hands == [pc : Steps, op : {"none", "apply", "rollback"}, root : Roots \cup {0},
          k : 0..Len(Kind) + 1, did : SUBSET Entries]

\* Whoever is or was at work: the prior bytes of what is installed are kept, and a set
\* that is neither all prior nor all installed has a receipt that says PREPARED.
FileInv ==
    /\ files \in [Entries -> {"prior", "source", "spoilt prior", "spoilt source"}]
    /\ stage \in {"none", "partial", "staged"} /\ dirs \subseteq Roots
    /\ receipts \in [Roots -> Receipts]
    /\ backups \in [Roots -> [Entries -> {"none", "prior", "torn"}]]
    /\ \A r \in Roots \ dirs : receipts[r] = NoReceipt /\ backups[r] = [e \in Entries |-> "none"]
    /\ \A e \in Entries : Kind[e] = "changed" /\ Installed(e) => \E r \in Roots : backups[r][e] = "prior"
    /\ \A e \in Entries : Same(e) => Installed(e)
    /\ AllInstalled \/ NoneInstalled \/ \E r \in Roots : receipts[r].st = "PREPARED"

\* What a process rests on at each of its steps.
AtHand(h) ==
    /\ h.pc # "idle" => h.root \in dirs
    /\ h.pc = "prepare" => h.k = 1
    /\ h.pc \in {"backup", "check", "replace", "seal", "undo", "restore", "finish"}
          => receipts[h.root].st = "PREPARED"
    /\ h.pc \in {"prepare", "backup"} =>
          /\ NoneInstalled /\ h.did = {} /\ h.k >= 1
          /\ \A e \in Entries : e >= h.k => backups[h.root][e] = "none"
    /\ h.pc = "backup" => Copied(h.root, h.k)
    /\ h.pc \in {"check", "replace", "seal", "verify"} =>
          /\ \A e \in Entries : Installed(e) <=> e \in h.did \/ Same(e)
          /\ h.did = ReplacedBefore(h.k) /\ h.k >= 1
          /\ Copied(h.root, Len(Kind) + 1)
    /\ h.pc \in {"replace", "restore"} => h.k \in Entries /\ ~Same(h.k)
    /\ h.pc \in {"seal", "verify"} => h.k = Len(Kind) + 1
    /\ h.pc = "undo" => h.k <= Len(Kind)
    /\ h.pc = "confirm" => NoneInstalled

InstallInv ==
    /\ FileInv /\ holder \in Installers \cup {0} /\ hand \in [Installers -> Hands]
    /\ \A p \in Installers : (hand[p].pc # "idle" => holder = p) /\ AtHand(hand[p])

\* One process is at work at a time.
LEMMA Alone ==
    ASSUME InstallInv, NEW p \in Installers, hand[p].pc # "idle" \/ holder = 0
    PROVE  \A q \in Installers : q # p => hand[q].pc = "idle"
BY InstallersAssumption DEF InstallInv

LEMMA EntriesAre ==
    /\ Entries = 1..Len(Kind) /\ Len(Kind) \in Nat
    /\ \A e \in Entries : Kind[e] \in {"changed", "new", "equal"}
BY KindAssumption DEF Entries

\* A step of one process, once it is shown for the rows and for the process itself.
LEMMA Moves ==
    ASSUME InstallInv, NEW p \in Installers, NEW h \in Hands,
           hand[p].pc # "idle" \/ holder = 0,
           hand' = [hand EXCEPT ![p] = h], holder' = p \/ (holder' = 0 /\ h.pc = "idle"),
           FileInv', AtHand(h)'
    PROVE  InstallInv'
<1>1. hand \in [Installers -> Hands] /\ \A q \in Installers \ {p} : hand[q].pc = "idle"
  BY Alone DEF InstallInv
<1>2. hand' \in [Installers -> Hands] /\ hand'[p] = h /\ \A q \in Installers \ {p} : hand'[q].pc = "idle"
  BY <1>1
<1>3. ASSUME NEW q \in Installers \ {p} PROVE AtHand(hand[q])'
  BY <1>2, <1>3 DEF AtHand
<1>4. AtHand(hand[p])'
  BY <1>2 DEF AtHand
<1>. QED BY <1>2, <1>3, <1>4 DEF InstallInv

LEMMA Ends ==
    ASSUME InstallInv, NEW p \in Installers, hand[p].pc # "idle", FileInv', NEW res, End(p, res)
    PROVE  InstallInv'
<1>1. Rest \in Hands /\ Rest.pc = "idle"
  BY DEF Rest, Hands, Steps
<1>2. AtHand(Rest)'
  BY <1>1 DEF AtHand
<1>. HIDE DEF Rest
<1>. QED BY Moves, <1>1, <1>2 DEF End

LEMMA Fails ==
    ASSUME InstallInv, NEW p \in Installers, hand[p].pc # "idle", FileInv', dirs' = dirs, Fail(p)
    PROVE  InstallInv'
<1>1. PICK h : h = [hand[p] EXCEPT !.pc = "recover"]
  OBVIOUS
<1>2. hand[p] \in Hands /\ hand[p].root \in dirs /\ holder = p
  BY DEF InstallInv, AtHand
<1>3. h \in Hands /\ h.pc = "recover" /\ h.root = hand[p].root
  BY <1>1, <1>2 DEF Hands, Steps, Recovering
<1>4. hand' = [hand EXCEPT ![p] = h] /\ holder' = p
  BY <1>1, <1>2 DEF Fail, Turn
<1>5. AtHand(h)'
  BY <1>2, <1>3 DEF AtHand
<1>. QED BY Moves, <1>3, <1>4, <1>5

\* A step that writes no row keeps what holds of the rows, and a receipt may be written
\* over when it says PREPARED or the set is whole.
LEMMA NothingWritten ==
    ASSUME FileInv, UNCHANGED <<files, stage, dirs, receipts, backups>>
    PROVE  FileInv'
BY DEF FileInv, AllInstalled, NoneInstalled, Installed, Same

LEMMA ReceiptWritten ==
    ASSUME FileInv, NEW r \in dirs, NEW c \in Receipts, receipts' = [receipts EXCEPT ![r] = c],
           c.st = "PREPARED" \/ AllInstalled \/ NoneInstalled,
           UNCHANGED <<files, stage, dirs, backups>>
    PROVE  FileInv' /\ receipts'[r] = c
<1>1. r \in Roots /\ receipts' \in [Roots -> Receipts] /\ receipts'[r] = c
      /\ \A s \in Roots \ {r} : receipts'[s] = receipts[s]
  BY DEF FileInv
<1>2. AllInstalled' = AllInstalled /\ NoneInstalled' = NoneInstalled
  BY DEF AllInstalled, NoneInstalled, Installed, Same
<1>3. AllInstalled' \/ NoneInstalled' \/ \E s \in Roots : receipts'[s].st = "PREPARED"
  BY <1>1, <1>2
<1>4. \A s \in Roots \ dirs : receipts'[s] = NoReceipt /\ backups'[s] = [e \in Entries |-> "none"]
  BY <1>1 DEF FileInv
<1>5. \A e \in Entries : Kind[e] = "changed" /\ Installed(e)' => \E s \in Roots : backups'[s][e] = "prior"
  BY DEF FileInv, Installed
<1>6. \A e \in Entries : Same(e)' => Installed(e)'
  BY DEF FileInv, Installed, Same
<1>7. /\ files' \in [Entries -> {"prior", "source", "spoilt prior", "spoilt source"}]
      /\ stage' \in {"none", "partial", "staged"} /\ dirs' \subseteq Roots
      /\ backups' \in [Roots -> [Entries -> {"none", "prior", "torn"}]]
      /\ dirs' = dirs
  BY DEF FileInv
<1>. QED BY <1>1, <1>3, <1>4, <1>5, <1>6, <1>7 DEF FileInv

\* The process only goes on to another step.
LEMMA Turns ==
    ASSUME InstallInv, NEW p \in Installers, hand[p].pc # "idle", NEW h \in Hands,
           hand' = [hand EXCEPT ![p] = h], holder' = holder, AtHand(h),
           UNCHANGED <<files, stage, dirs, receipts, backups>>
    PROVE  InstallInv'
<1>1. AtHand(h)'
  BY DEF AtHand, NoneInstalled, Installed, Same, Copied
<1>2. FileInv' /\ holder' = p
  BY NothingWritten DEF InstallInv
<1>. QED BY Moves, <1>1, <1>2

LEMMA InitInstall == InstallInit => InstallInv
<1>. SUFFICES ASSUME InstallInit PROVE InstallInv
  OBVIOUS
<1>1. \A e \in Entries : files[e] \in {"prior", "source"} /\ (files[e] = "source" <=> Same(e))
  BY DEF InstallInit, PriorOf, Same
<1>2. NoneInstalled /\ \A e \in Entries : Kind[e] = "changed" => ~Installed(e)
  BY <1>1 DEF NoneInstalled, Installed, Same
<1>3. FileInv
  BY <1>1, <1>2 DEF InstallInit, FileInv, Installed, Same, NoReceipt, Receipts, PriorOf
<1>4. Rest \in Hands /\ AtHand(Rest)
  BY EntriesAre DEF Rest, Hands, Steps, AtHand
<1>5. hand \in [Installers -> Hands] /\ \A p \in Installers : hand[p] = Rest
  BY <1>4 DEF InstallInit
<1>6. \A p \in Installers : hand[p].pc = "idle"
  BY <1>5 DEF Rest
<1>. QED BY <1>3, <1>4, <1>5, <1>6 DEF InstallInit, InstallInv

\* The stage directory and the hands of others are not looked at.
LEMMA OutsideStep ==
    ASSUME InstallInv, UNCHANGED <<dirs, receipts, backups, hand, holder>>,
           stage' \in {"none", "partial", "staged"},
           files' \in [Entries -> {"prior", "source", "spoilt prior", "spoilt source"}],
           \A e \in Entries : Installed(e)' <=> Installed(e)
    PROVE  InstallInv'
<1>1. AllInstalled' = AllInstalled /\ NoneInstalled' = NoneInstalled
  BY DEF AllInstalled, NoneInstalled, Same
<1>2. FileInv'
  BY <1>1 DEF InstallInv, FileInv, Same
<1>3. ASSUME NEW p \in Installers PROVE AtHand(hand[p])'
  <2>1. AtHand(hand[p])
    BY DEF InstallInv
  <2>. QED BY <1>1, <2>1 DEF AtHand, Same, Copied
<1>. QED BY <1>2, <1>3 DEF InstallInv

LEMMA BeginsApply ==
    ASSUME InstallInv, NEW p \in Installers, NEW r \in Roots, BeginApply(p, r)
    PROVE  InstallInv'
<1>1. PICK h : h = [pc |-> "prepare", op |-> "apply", root |-> r, k |-> 1, did |-> {}]
  OBVIOUS
<1>2. h \in Hands /\ h.pc = "prepare" /\ h.root = r /\ h.k = 1 /\ h.did = {}
  BY <1>1, EntriesAre DEF Hands, Steps, Applying
<1>3. hand' = [hand EXCEPT ![p] = h] /\ holder = 0 /\ holder' = p /\ r \notin dirs /\ dirs' = dirs \cup {r}
      /\ UNCHANGED <<files, stage, receipts, backups>>
  BY <1>1 DEF BeginApply
<1>4. FileInv'
  BY <1>3 DEF InstallInv, FileInv, AllInstalled, NoneInstalled, Installed, Same
<1>5. NoneInstalled'
  <2>1. \A e \in Entries : files[e] = PriorOf(e)
    BY DEF BeginApply, StageValid, AllPrior, IsPrior
  <2>. QED BY <1>3, <2>1 DEF NoneInstalled, Installed, Same, PriorOf
<1>6. \A e \in Entries : backups[r][e] = "none"
  <2>1. r \in Roots \ dirs
    BY <1>3
  <2>2. backups[r] = [e \in Entries |-> "none"]
    BY <2>1 DEF InstallInv, FileInv
  <2>. QED BY <2>2
<1>7. \A e \in Entries : (backups[r][e] = "none")'
  BY <1>3, <1>6
<1>8. AtHand(h)'
  BY <1>2, <1>3, <1>5, <1>7 DEF AtHand
<1>. QED BY Moves, <1>2, <1>3, <1>4, <1>8

LEMMA BeginsRollback ==
    ASSUME InstallInv, NEW p \in Installers, NEW r \in Roots, BeginRollback(p, r)
    PROVE  InstallInv'
<1>1. PICK h : h = [Rest EXCEPT !.pc = "recover", !.op = "rollback", !.root = r]
  OBVIOUS
<1>2. h \in Hands /\ h.pc = "recover" /\ h.root = r
  <2>1. h = [pc |-> "recover", op |-> "rollback", root |-> r, k |-> 0, did |-> {}]
    BY <1>1 DEF Rest
  <2>. QED BY <2>1, EntriesAre DEF Hands, Steps, Recovering
<1>3. hand' = [hand EXCEPT ![p] = h] /\ holder = 0 /\ holder' = p /\ r \in dirs
      /\ UNCHANGED <<files, stage, dirs, receipts, backups>>
  BY <1>1 DEF BeginRollback
<1>4. AtHand(h)'
  BY <1>2, <1>3 DEF AtHand
<1>. QED BY Moves, NothingWritten, <1>2, <1>3, <1>4 DEF InstallInv

\* The facts about the process at work.
LEMMA AtWork ==
    ASSUME InstallInv, NEW p \in Installers, hand[p].pc # "idle"
    PROVE  /\ hand[p] \in Hands /\ AtHand(hand[p]) /\ holder = p /\ hand[p].root \in dirs
           /\ hand[p].k \in Nat /\ FileInv /\ hand[p].root \in Roots
<1>1. hand[p] \in Hands /\ AtHand(hand[p]) /\ holder = p /\ FileInv
  BY DEF InstallInv
<1>2. hand[p].root \in dirs /\ dirs \subseteq Roots
  BY <1>1 DEF AtHand, FileInv
<1>. QED BY <1>1, <1>2, EntriesAre DEF Hands

LEMMA WritesPrepared ==
    ASSUME InstallInv, NEW p \in Installers, WritePrepared(p)
    PROVE  InstallInv'
<1>. PICK g : g = hand[p]
  OBVIOUS
<1>1. g \in Hands /\ AtHand(g) /\ holder = p /\ g.root \in dirs /\ g.pc = "prepare" /\ FileInv
  BY AtWork DEF WritePrepared
<1>2. CASE Progress({})
  <2>1. PICK h : h = [g EXCEPT !.pc = "backup"]
    OBVIOUS
  <2>2. h \in Hands /\ h.pc = "backup" /\ h.root = g.root /\ h.k = g.k /\ h.did = g.did
    BY <1>1, <2>1 DEF Hands, Steps, Applying
  <2>3. PICK c : c = [st |-> "PREPARED", depth |-> 0]
    OBVIOUS
  <2>4. c \in Receipts /\ c.st = "PREPARED"
    BY <2>3 DEF Receipts
  <2>5. receipts' = [receipts EXCEPT ![g.root] = c] /\ hand' = [hand EXCEPT ![p] = h] /\ holder' = p
        /\ UNCHANGED <<files, stage, dirs, backups>>
    BY <1>1, <1>2, <2>1, <2>3 DEF WritePrepared, Turn, Root
  <2>6. FileInv' /\ receipts'[g.root] = c
    BY ReceiptWritten, <1>1, <2>4, <2>5
  <2>7. AtHand(h)'
    <3>1. NoneInstalled' = NoneInstalled
      BY <2>5 DEF NoneInstalled, Installed, Same
    <3>2. ~\E e \in Entries : e < 1
      BY EntriesAre
    <3>. QED BY <1>1, <2>2, <2>4, <2>5, <2>6, <3>1, <3>2 DEF AtHand, Copied
  <2>. QED BY Moves, <1>1, <2>2, <2>5, <2>6, <2>7
<1>3. CASE ~Progress({})
  <2>1. Fail(p) /\ UNCHANGED <<files, stage, dirs, receipts, backups>>
    BY <1>3 DEF WritePrepared
  <2>. QED BY Fails, NothingWritten, <1>1, <2>1
<1>. QED BY <1>2, <1>3

\* The copy of entry k is written in a directory that had none.
LEMMA CopyWritten ==
    ASSUME FileInv, NEW r \in dirs, NEW k \in Entries, NEW c \in {"prior", "torn"},
           backups[r][k] = "none", backups' = [backups EXCEPT ![r][k] = c],
           UNCHANGED <<files, stage, dirs, receipts>>
    PROVE  /\ FileInv' /\ backups'[r][k] = c
           /\ \A e \in Entries \ {k} : backups'[r][e] = backups[r][e]
<1>1. r \in Roots /\ backups \in [Roots -> [Entries -> {"none", "prior", "torn"}]]
  BY DEF FileInv
<1>2. /\ backups' \in [Roots -> [Entries -> {"none", "prior", "torn"}]]
      /\ \A s \in Roots \ {r} : backups'[s] = backups[s]
      /\ backups'[r] = [backups[r] EXCEPT ![k] = c]
  BY <1>1
<1>3. backups'[r][k] = c /\ \A e \in Entries \ {k} : backups'[r][e] = backups[r][e]
  BY <1>1, <1>2
<1>4. ASSUME NEW s \in Roots, NEW e \in Entries, backups[s][e] = "prior" PROVE backups'[s][e] = "prior"
  BY <1>1, <1>2, <1>3, <1>4
<1>5. \A e \in Entries : Kind[e] = "changed" /\ Installed(e)' => \E s \in Roots : backups'[s][e] = "prior"
  BY <1>4 DEF FileInv, Installed
<1>6. AllInstalled' = AllInstalled /\ NoneInstalled' = NoneInstalled
  BY DEF AllInstalled, NoneInstalled, Installed, Same
<1>7. \A s \in Roots \ dirs : receipts[s] = NoReceipt /\ backups'[s] = [e \in Entries |-> "none"]
  BY <1>2 DEF FileInv
<1>. QED BY <1>2, <1>3, <1>5, <1>6, <1>7 DEF FileInv, Installed, Same

LEMMA BacksUp ==
    ASSUME InstallInv, NEW p \in Installers, Backup(p)
    PROVE  InstallInv'
<1>. PICK g : g = hand[p]
  OBVIOUS
<1>1. g \in Hands /\ AtHand(g) /\ holder = p /\ g.root \in dirs /\ g.pc = "backup" /\ FileInv /\ g.k \in Nat
      /\ hand[p].pc # "idle"
  BY AtWork DEF Backup
<1>2. /\ receipts[g.root].st = "PREPARED" /\ NoneInstalled /\ g.did = {} /\ g.k >= 1
      /\ \A e \in Entries : e >= g.k => backups[g.root][e] = "none"
      /\ Copied(g.root, g.k)
  BY <1>1 DEF AtHand
<1>3. CASE g.k \notin Entries
  <2>1. PICK h : h = [g EXCEPT !.pc = "check", !.k = 1]
    OBVIOUS
  <2>2. h \in Hands /\ h.pc = "check" /\ h.root = g.root /\ h.k = 1 /\ h.did = {}
    <3>1. PICK i : i = [g EXCEPT !.pc = "check"]
      OBVIOUS
    <3>2. i \in Hands /\ i.pc = "check" /\ i.root = g.root /\ i.did = g.did
      BY <1>1, <3>1 DEF Hands, Steps, Applying
    <3>3. h = [i EXCEPT !.k = 1] /\ 1 \in 0..Len(Kind) + 1
      BY <1>1, <2>1, <3>1, EntriesAre
    <3>. QED BY <1>2, <3>2, <3>3 DEF Hands
  <2>3. hand' = [hand EXCEPT ![p] = h] /\ holder' = holder /\ UNCHANGED <<files, stage, dirs, receipts, backups>>
    BY <1>1, <1>3, <2>1 DEF Backup, Step
  <2>4. ReplacedBefore(1) = {} /\ \A e \in Entries : e < g.k
    BY <1>1, <1>2, <1>3, EntriesAre DEF ReplacedBefore, Hands
  <2>5. Copied(g.root, Len(Kind) + 1)
    BY <1>2, <2>4 DEF Copied
  <2>6. AtHand(h)
    BY <1>1, <1>2, <2>2, <2>4, <2>5 DEF AtHand, NoneInstalled
  <2>. QED BY Turns, <1>1, <2>2, <2>3, <2>6
<1>4. CASE g.k \in Entries
  <2>1. PICK h : h = [g EXCEPT !.pc = "backup", !.k = g.k + 1]
    OBVIOUS
  <2>2. h \in Hands /\ h.pc = "backup" /\ h.root = g.root /\ h.k = g.k + 1 /\ h.did = {}
    <3>1. PICK i : i = [g EXCEPT !.pc = "backup"]
      OBVIOUS
    <3>2. i \in Hands /\ i.pc = "backup" /\ i.root = g.root /\ i.did = g.did
      BY <1>1, <3>1 DEF Hands, Steps, Applying
    <3>3. h = [i EXCEPT !.k = g.k + 1] /\ g.k + 1 \in 0..Len(Kind) + 1
      BY <1>1, <1>4, <2>1, <3>1, EntriesAre
    <3>. QED BY <1>2, <3>2, <3>3 DEF Hands
  <2>3. \A e \in Entries : (e < g.k + 1 <=> e < g.k \/ e = g.k) /\ (e >= g.k + 1 => e >= g.k /\ e # g.k)
    BY <1>1, EntriesAre
  <2>4. CASE ~NeedsBackup(g.k)
    <3>1. hand' = [hand EXCEPT ![p] = h] /\ holder' = holder /\ UNCHANGED <<files, stage, dirs, receipts, backups>>
      BY <1>1, <1>4, <2>1, <2>4 DEF Backup, Step
    <3>2. Copied(g.root, g.k + 1)
      BY <1>2, <2>3, <2>4 DEF Copied, NeedsBackup
    <3>3. AtHand(h)
      BY <1>1, <1>2, <2>2, <2>3, <3>2 DEF AtHand
    <3>. QED BY Turns, <1>1, <2>2, <3>1, <3>3
  <2>5. CASE NeedsBackup(g.k) /\ ~Progress({})
    <3>1. Fail(p) /\ UNCHANGED <<files, stage, dirs, receipts, backups>>
      BY <1>1, <1>4, <2>5 DEF Backup
    <3>. QED BY Fails, NothingWritten, <1>1, <3>1
  <2>6. CASE NeedsBackup(g.k) /\ Progress({})
    <3>1. hand' = [hand EXCEPT ![p] = h] /\ holder' = p /\ UNCHANGED <<files, stage, dirs, receipts>>
          /\ backups' = [backups EXCEPT ![g.root][g.k] = "prior"]
      BY <1>1, <1>4, <2>1, <2>6 DEF Backup, Step, Root
    <3>2. backups[g.root][g.k] = "none"
      BY <1>1, <1>2, <1>4
    <3>3. /\ FileInv' /\ backups'[g.root][g.k] = "prior"
          /\ \A e \in Entries \ {g.k} : backups'[g.root][e] = backups[g.root][e]
      BY CopyWritten, <1>1, <1>4, <3>1, <3>2
    <3>4. Copied(g.root, g.k + 1)'
      BY <1>2, <2>3, <3>3 DEF Copied
    <3>5. \A e \in Entries : e >= g.k + 1 => (backups'[g.root][e] = "none")
      BY <1>2, <2>3, <3>3
    <3>6. NoneInstalled'
      BY <1>2, <3>1 DEF NoneInstalled, Installed, Same
    <3>7. AtHand(h)'
      BY <1>1, <1>2, <2>2, <3>1, <3>4, <3>5, <3>6 DEF AtHand
    <3>. QED BY Moves, <1>1, <2>2, <3>1, <3>3, <3>7
  <2>. QED BY <2>4, <2>5, <2>6
<1>. QED BY <1>3, <1>4

\* What a process in the second half of an installation has replaced.
LEMMA Replacing ==
    ASSUME NEW h, AtHand(h), h.pc \in {"check", "replace", "seal", "verify"}
    PROVE  /\ \A e \in Entries : Installed(e) <=> e \in h.did \/ Same(e)
           /\ h.did = ReplacedBefore(h.k) /\ h.k >= 1 /\ h.root \in dirs
           /\ Copied(h.root, Len(Kind) + 1)
           /\ h.pc # "verify" => receipts[h.root].st = "PREPARED"
BY DEF AtHand

LEMMA Checks ==
    ASSUME InstallInv, NEW p \in Installers, Check(p)
    PROVE  InstallInv'
<1>. PICK g : g = hand[p]
  OBVIOUS
<1>1. g \in Hands /\ AtHand(g) /\ holder = p /\ g.root \in dirs /\ g.pc = "check" /\ FileInv /\ g.k \in Nat
      /\ hand[p].pc # "idle"
  BY AtWork DEF Check
<1>2. /\ \A e \in Entries : Installed(e) <=> e \in g.did \/ Same(e)
      /\ g.did = ReplacedBefore(g.k) /\ g.k >= 1
      /\ Copied(g.root, Len(Kind) + 1) /\ receipts[g.root].st = "PREPARED"
  BY <1>1, Replacing
<1>3. UNCHANGED <<files, stage, dirs, receipts, backups>>
  BY DEF Check
<1>4. CASE Fail(p)
  BY Fails, NothingWritten, <1>1, <1>3, <1>4
<1>5. ASSUME g.k \notin Entries, Turn(p, "seal"), holder' = holder PROVE InstallInv'
  <2>1. PICK h : h = [g EXCEPT !.pc = "seal"]
    OBVIOUS
  <2>2. h \in Hands /\ h.pc = "seal" /\ h.root = g.root /\ h.k = g.k /\ h.did = g.did
    BY <1>1, <2>1 DEF Hands, Steps, Applying
  <2>3. h.k = Len(Kind) + 1
    BY <1>1, <1>2, <1>5, <2>2, EntriesAre DEF Hands
  <2>4. AtHand(h)
    BY <1>1, <1>2, <2>2, <2>3 DEF AtHand
  <2>. QED BY Turns, <1>1, <1>3, <1>5, <2>1, <2>2, <2>4 DEF Turn
<1>6. ASSUME g.k \in Entries, Kind[g.k] = "equal", Step(p, "check", g.k + 1), holder' = holder PROVE InstallInv'
  <2>1. PICK h : h = [g EXCEPT !.pc = "check", !.k = g.k + 1]
    OBVIOUS
  <2>2. h \in Hands /\ h.pc = "check" /\ h.root = g.root /\ h.k = g.k + 1 /\ h.did = g.did
    <3>1. PICK i : i = [g EXCEPT !.pc = "check"]
      OBVIOUS
    <3>2. i \in Hands /\ i.pc = "check" /\ i.root = g.root /\ i.did = g.did
      BY <1>1, <3>1 DEF Hands, Steps, Applying
    <3>3. h = [i EXCEPT !.k = g.k + 1] /\ g.k + 1 \in 0..Len(Kind) + 1
      BY <1>1, <1>6, <2>1, <3>1, EntriesAre
    <3>. QED BY <3>2, <3>3 DEF Hands
  <2>3. ReplacedBefore(g.k + 1) = ReplacedBefore(g.k)
    BY <1>1, <1>6, EntriesAre DEF ReplacedBefore, Same
  <2>4. AtHand(h)
    BY <1>1, <1>2, <2>2, <2>3 DEF AtHand
  <2>. QED BY Turns, <1>1, <1>3, <1>6, <2>1, <2>2, <2>4 DEF Step
<1>7. ASSUME g.k \in Entries, Kind[g.k] # "equal", Turn(p, "replace"), holder' = holder PROVE InstallInv'
  <2>1. PICK h : h = [g EXCEPT !.pc = "replace"]
    OBVIOUS
  <2>2. h \in Hands /\ h.pc = "replace" /\ h.root = g.root /\ h.k = g.k /\ h.did = g.did
    BY <1>1, <2>1 DEF Hands, Steps, Applying
  <2>3. AtHand(h)
    BY <1>1, <1>2, <1>7, <2>2 DEF AtHand, Same
  <2>. QED BY Turns, <1>1, <1>3, <1>7, <2>1, <2>2, <2>3 DEF Turn
<1>. QED BY <1>4, <1>5, <1>6, <1>7 DEF Check

LEMMA Replaces ==
    ASSUME InstallInv, NEW p \in Installers, Replace(p)
    PROVE  InstallInv'
<1>. PICK g : g = hand[p]
  OBVIOUS
<1>1. g \in Hands /\ AtHand(g) /\ holder = p /\ g.root \in dirs /\ g.root \in Roots /\ g.pc = "replace" /\ FileInv
      /\ g.k \in Nat /\ hand[p].pc # "idle"
  BY AtWork DEF Replace
<1>2. /\ \A e \in Entries : Installed(e) <=> e \in g.did \/ Same(e)
      /\ g.did = ReplacedBefore(g.k) /\ g.k >= 1
      /\ Copied(g.root, Len(Kind) + 1) /\ receipts[g.root].st = "PREPARED"
  BY <1>1, Replacing
<1>3. g.k \in Entries /\ ~Same(g.k)
  BY <1>1 DEF AtHand
<1>4. PICK h : h = [g EXCEPT !.pc = "check", !.k = g.k + 1, !.did = g.did \cup {g.k}]
  OBVIOUS
<1>5. h \in Hands /\ h.pc = "check" /\ h.root = g.root /\ h.k = g.k + 1 /\ h.did = g.did \cup {g.k}
  <2>1. PICK i : i = [g EXCEPT !.pc = "check"]
    OBVIOUS
  <2>2. i \in Hands /\ i.pc = "check" /\ i.root = g.root /\ i.did = g.did
    BY <1>1, <2>1 DEF Hands, Steps, Applying
  <2>3. PICK j : j = [i EXCEPT !.k = g.k + 1]
    OBVIOUS
  <2>4. j \in Hands /\ j.pc = "check" /\ j.root = g.root /\ j.did = g.did /\ j.k = g.k + 1
    BY <1>1, <1>3, <2>2, <2>3, EntriesAre DEF Hands
  <2>5. h = [j EXCEPT !.did = g.did \cup {g.k}] /\ g.did \cup {g.k} \subseteq Entries
    BY <1>1, <1>3, <1>4, <2>1, <2>3 DEF Hands
  <2>. QED BY <2>4, <2>5 DEF Hands
<1>6. /\ hand' = [hand EXCEPT ![p] = h] /\ holder' = p /\ UNCHANGED <<stage, dirs, receipts, backups>>
      /\ files' = [files EXCEPT ![g.k] = "source"]
  BY <1>1, <1>4 DEF Replace
<1>7. /\ files' \in [Entries -> {"prior", "source", "spoilt prior", "spoilt source"}] /\ files'[g.k] = "source"
      /\ \A e \in Entries \ {g.k} : files'[e] = files[e]
  BY <1>1, <1>3, <1>6 DEF FileInv
<1>8. \A e \in Entries : Installed(e)' <=> Installed(e) \/ e = g.k
  BY <1>3, <1>7 DEF Installed
<1>9. FileInv'
  <2>1. Kind[g.k] = "changed" => backups[g.root][g.k] = "prior"
    BY <1>2, <1>3, EntriesAre DEF Copied
  <2>2. ASSUME NEW e \in Entries, Kind[e] = "changed", Installed(e)' PROVE \E r \in Roots : backups'[r][e] = "prior"
    <3>1. CASE e = g.k
      BY <1>1, <1>6, <2>1, <2>2, <3>1
    <3>2. CASE e # g.k
      <4>1. Installed(e)
        BY <1>8, <2>2, <3>2
      <4>. QED BY <1>1, <1>6, <2>2, <4>1 DEF FileInv
    <3>. QED BY <3>1, <3>2
  <2>3. \E r \in Roots : receipts'[r].st = "PREPARED"
    BY <1>1, <1>2, <1>6
  <2>4. \A e \in Entries : Same(e) => Installed(e)'
    BY <1>1, <1>8 DEF FileInv
  <2>. QED BY <1>1, <1>6, <1>7, <2>2, <2>3, <2>4 DEF FileInv, Same
<1>10. ReplacedBefore(g.k + 1) = ReplacedBefore(g.k) \cup {g.k}
  BY <1>1, <1>3, EntriesAre DEF ReplacedBefore
<1>11. \A e \in Entries : Installed(e)' <=> e \in h.did \/ Same(e)
  BY <1>2, <1>5, <1>8
<1>12. AtHand(h)'
  BY <1>1, <1>2, <1>5, <1>6, <1>10, <1>11 DEF AtHand, ReplacedBefore, Same, Copied
<1>. QED BY Moves, <1>1, <1>5, <1>6, <1>9, <1>12

\* After the last entry everything is installed.
LEMMA Replaced ==
    ASSUME NEW h, AtHand(h), h.pc \in {"seal", "verify"}
    PROVE  AllInstalled /\ h.did = ReplacedBefore(Len(Kind) + 1)
<1>1. h.k = Len(Kind) + 1
  BY DEF AtHand
<1>. QED BY <1>1, Replacing, EntriesAre DEF AllInstalled, ReplacedBefore

LEMMA Seals ==
    ASSUME InstallInv, NEW p \in Installers, Seal(p)
    PROVE  InstallInv'
<1>. PICK g : g = hand[p]
  OBVIOUS
<1>1. g \in Hands /\ AtHand(g) /\ holder = p /\ g.root \in dirs /\ g.pc = "seal" /\ FileInv /\ hand[p].pc # "idle"
  BY AtWork DEF Seal
<1>2. PICK h : h = [g EXCEPT !.pc = "verify"]
  OBVIOUS
<1>3. h \in Hands /\ h.pc = "verify" /\ h.root = g.root /\ h.k = g.k /\ h.did = g.did
  BY <1>1, <1>2 DEF Hands, Steps, Applying
<1>4. PICK c : c = [st |-> "INSTALLED", depth |-> 1]
  OBVIOUS
<1>5. c \in Receipts
  BY <1>4 DEF Receipts
<1>6. receipts' = [receipts EXCEPT ![g.root] = c] /\ hand' = [hand EXCEPT ![p] = h] /\ holder' = p
      /\ UNCHANGED <<files, stage, dirs, backups>>
  BY <1>1, <1>2, <1>4 DEF Seal, Turn, Root
<1>7. FileInv'
  BY ReceiptWritten, Replaced, <1>1, <1>5, <1>6
<1>8. /\ \A e \in Entries : Installed(e) <=> e \in g.did \/ Same(e)
      /\ g.did = ReplacedBefore(g.k) /\ g.k >= 1 /\ Copied(g.root, Len(Kind) + 1)
      /\ g.k = Len(Kind) + 1
  BY <1>1 DEF AtHand
<1>9. AtHand(h)'
  BY <1>1, <1>3, <1>6, <1>8 DEF AtHand, ReplacedBefore, Installed, Same, Copied
<1>. QED BY Moves, <1>1, <1>3, <1>6, <1>7, <1>9

LEMMA Verifies ==
    ASSUME InstallInv, NEW p \in Installers, Verify(p)
    PROVE  InstallInv'
<1>1. hand[p].pc # "idle" /\ FileInv /\ UNCHANGED <<files, stage, dirs, receipts, backups>>
  BY DEF Verify, InstallInv
<1>. QED BY <1>1, Ends, Fails, NothingWritten DEF Verify

\* What a recovery ends with, and what it writes over.
LEMMA GivesUp ==
    ASSUME InstallInv, NEW p \in Installers, hand[p].pc # "idle", Unrecovered(p) \/ RecoveredCall(p), FileInv'
    PROVE  InstallInv'
BY Ends DEF Unrecovered, RecoveredCall

LEMMA Invalidates ==
    ASSUME InstallInv, NEW p \in Installers, hand[p].pc # "idle", Invalidate(p),
           UNCHANGED <<files, stage, dirs, backups>>
    PROVE  FileInv'
<1>1. PICK c : c = Invalidated(receipts[hand[p].root])
  OBVIOUS
<1>2. receipts \in [Roots -> Receipts] /\ hand[p].root \in dirs /\ hand[p].root \in Roots /\ FileInv
  BY AtWork DEF FileInv
<1>3. c \in Receipts /\ c.st = "PREPARED"
  BY <1>1, <1>2 DEF Invalidated, Receipts
<1>4. receipts' = [receipts EXCEPT ![hand[p].root] = c]
  BY <1>1, <1>2 DEF Invalidate, Root
<1>. QED BY <1>2, <1>3, <1>4, ReceiptWritten

LEMMA Withdraws ==
    ASSUME InstallInv, NEW p \in Installers, Withdraw(p)
    PROVE  InstallInv'
<1>. PICK g : g = hand[p]
  OBVIOUS
<1>1. g \in Hands /\ AtHand(g) /\ holder = p /\ g.root \in dirs /\ g.pc = "recover" /\ hand[p].pc # "idle"
  BY AtWork DEF Withdraw
<1>2. FileInv' /\ dirs' = dirs
  BY <1>1, Invalidates DEF Withdraw
<1>3. CASE UNCHANGED <<hand, holder>>
  <2>1. AtHand(g)'
    BY <1>1, <1>2 DEF AtHand
  <2>2. hand' = [hand EXCEPT ![p] = g]
    BY <1>3 DEF InstallInv
  <2>. QED BY Moves, <1>1, <1>2, <1>3, <2>1, <2>2
<1>4. CASE Unrecovered(p)
  BY GivesUp, <1>1, <1>2, <1>4
<1>. QED BY <1>3, <1>4 DEF Withdraw

LEMMA Reconfirms ==
    ASSUME InstallInv, NEW p \in Installers, Reconfirm(p)
    PROVE  InstallInv'
<1>1. hand[p].pc # "idle" /\ FileInv /\ UNCHANGED <<files, stage, dirs, backups>>
  BY DEF Reconfirm, InstallInv
<1>2. (UNCHANGED receipts \/ Invalidate(p)) /\ (Unrecovered(p) \/ RecoveredCall(p))
  BY DEF Reconfirm
<1>3. FileInv'
  BY <1>1, <1>2, NothingWritten, Invalidates
<1>. QED BY GivesUp, <1>1, <1>2, <1>3

LEMMA BeginsUndo ==
    ASSUME InstallInv, NEW p \in Installers, BeginUndo(p)
    PROVE  InstallInv'
<1>. PICK g : g = hand[p]
  OBVIOUS
<1>1. g \in Hands /\ AtHand(g) /\ holder = p /\ g.root \in dirs /\ g.pc = "recover" /\ hand[p].pc # "idle" /\ FileInv
      /\ receipts[g.root].st = "PREPARED" /\ UNCHANGED <<files, stage, dirs, receipts, backups>>
  BY AtWork DEF BeginUndo, Root
<1>2. CASE Unrecovered(p)
  BY GivesUp, NothingWritten, <1>1, <1>2
<1>3. CASE Step(p, "undo", Len(Kind)) /\ UNCHANGED holder
  <2>1. PICK h : h = [g EXCEPT !.pc = "undo", !.k = Len(Kind)]
    OBVIOUS
  <2>2. h \in Hands /\ h.pc = "undo" /\ h.root = g.root /\ h.k = Len(Kind)
    <3>1. PICK i : i = [g EXCEPT !.pc = "undo"]
      OBVIOUS
    <3>2. i \in Hands /\ i.pc = "undo" /\ i.root = g.root
      BY <1>1, <3>1 DEF Hands, Steps, Recovering
    <3>3. h = [i EXCEPT !.k = Len(Kind)] /\ Len(Kind) \in 0..Len(Kind) + 1
      BY <2>1, <3>1, EntriesAre
    <3>. QED BY <3>2, <3>3 DEF Hands
  <2>3. AtHand(h)
    BY <1>1, <2>2, EntriesAre DEF AtHand
  <2>4. hand' = [hand EXCEPT ![p] = h]
    BY <1>3, <2>1 DEF Step
  <2>. QED BY Turns, <1>1, <1>3, <2>2, <2>3, <2>4
<1>. QED BY <1>2, <1>3 DEF BeginUndo

LEMMA Undoes ==
    ASSUME InstallInv, NEW p \in Installers, Undo(p)
    PROVE  InstallInv'
<1>. PICK g : g = hand[p]
  OBVIOUS
<1>1. g \in Hands /\ AtHand(g) /\ holder = p /\ g.root \in dirs /\ g.pc = "undo" /\ hand[p].pc # "idle" /\ FileInv
      /\ g.k \in Nat /\ UNCHANGED <<files, stage, dirs, receipts, backups>>
  BY AtWork DEF Undo
<1>2. g.k <= Len(Kind) /\ receipts[g.root].st = "PREPARED"
  BY <1>1 DEF AtHand
<1>3. CASE Unrecovered(p)
  BY GivesUp, NothingWritten, <1>1, <1>3
<1>4. ASSUME g.k = 0, Turn(p, "finish"), holder' = holder PROVE InstallInv'
  <2>1. PICK h : h = [g EXCEPT !.pc = "finish"]
    OBVIOUS
  <2>2. h \in Hands /\ h.pc = "finish" /\ h.root = g.root
    BY <1>1, <2>1 DEF Hands, Steps, Recovering
  <2>3. AtHand(h)
    BY <1>1, <1>2, <2>2 DEF AtHand
  <2>. QED BY Turns, <1>1, <1>4, <2>1, <2>2, <2>3 DEF Turn
<1>5. ASSUME g.k # 0, Step(p, "undo", g.k - 1), holder' = holder PROVE InstallInv'
  <2>1. PICK h : h = [g EXCEPT !.pc = "undo", !.k = g.k - 1]
    OBVIOUS
  <2>2. h \in Hands /\ h.pc = "undo" /\ h.root = g.root /\ h.k = g.k - 1
    <3>1. PICK i : i = [g EXCEPT !.pc = "undo"]
      OBVIOUS
    <3>2. i \in Hands /\ i.pc = "undo" /\ i.root = g.root
      BY <1>1, <3>1 DEF Hands, Steps, Recovering
    <3>3. h = [i EXCEPT !.k = g.k - 1] /\ g.k - 1 \in 0..Len(Kind) + 1
      BY <1>1, <1>2, <1>5, <2>1, <3>1, EntriesAre
    <3>. QED BY <3>2, <3>3 DEF Hands
  <2>3. AtHand(h)
    BY <1>1, <1>2, <2>2, EntriesAre DEF AtHand
  <2>4. hand' = [hand EXCEPT ![p] = h]
    BY <1>5, <2>1 DEF Step
  <2>. QED BY Turns, <1>1, <1>5, <2>2, <2>3, <2>4
<1>6. ASSUME g.k # 0, Legible, ~IsPrior(g.k), Turn(p, "restore"), holder' = holder PROVE InstallInv'
  <2>1. PICK h : h = [g EXCEPT !.pc = "restore"]
    OBVIOUS
  <2>2. h \in Hands /\ h.pc = "restore" /\ h.root = g.root /\ h.k = g.k
    BY <1>1, <2>1 DEF Hands, Steps, Recovering
  <2>3. g.k \in Entries
    BY <1>1, <1>2, <1>6, EntriesAre
  <2>4. ~Same(g.k)
    BY <1>1, <1>6, <2>3 DEF IsPrior, PriorOf, Legible, FileInv, Installed, Same
  <2>5. AtHand(h)
    BY <1>1, <1>2, <2>2, <2>3, <2>4 DEF AtHand
  <2>. QED BY Turns, <1>1, <1>6, <2>1, <2>2, <2>5 DEF Turn
<1>. QED BY <1>3, <1>4, <1>5, <1>6 DEF Undo

LEMMA Restores ==
    ASSUME InstallInv, NEW p \in Installers, Restore(p)
    PROVE  InstallInv'
<1>. PICK g : g = hand[p]
  OBVIOUS
<1>1. g \in Hands /\ AtHand(g) /\ holder = p /\ g.root \in dirs /\ g.root \in Roots /\ g.pc = "restore"
      /\ hand[p].pc # "idle" /\ FileInv /\ g.k \in Nat
  BY AtWork DEF Restore
<1>2. g.k \in Entries /\ ~Same(g.k) /\ receipts[g.root].st = "PREPARED"
  BY <1>1 DEF AtHand
<1>3. PICK h : h = [g EXCEPT !.pc = "undo", !.k = g.k - 1]
  OBVIOUS
<1>4. h \in Hands /\ h.pc = "undo" /\ h.root = g.root /\ h.k = g.k - 1
  <2>1. PICK i : i = [g EXCEPT !.pc = "undo"]
    OBVIOUS
  <2>2. i \in Hands /\ i.pc = "undo" /\ i.root = g.root
    BY <1>1, <2>1 DEF Hands, Steps, Recovering
  <2>3. h = [i EXCEPT !.k = g.k - 1] /\ g.k - 1 \in 0..Len(Kind) + 1
    BY <1>1, <1>2, <1>3, <2>1, EntriesAre
  <2>. QED BY <2>2, <2>3 DEF Hands
<1>5. /\ hand' = [hand EXCEPT ![p] = h] /\ holder' = p /\ UNCHANGED <<stage, dirs, receipts, backups>>
      /\ files' = [files EXCEPT ![g.k] = "prior"]
  BY <1>1, <1>3 DEF Restore, Step
<1>6. /\ files' \in [Entries -> {"prior", "source", "spoilt prior", "spoilt source"}] /\ files'[g.k] = "prior"
      /\ \A e \in Entries \ {g.k} : files'[e] = files[e]
  BY <1>1, <1>2, <1>5 DEF FileInv
<1>7. \A e \in Entries : Installed(e)' <=> Installed(e) /\ e # g.k
  BY <1>6 DEF Installed
<1>8. FileInv'
  <2>1. \A e \in Entries : Kind[e] = "changed" /\ Installed(e)' => \E r \in Roots : backups'[r][e] = "prior"
    BY <1>1, <1>5, <1>7 DEF FileInv
  <2>2. \E r \in Roots : receipts'[r].st = "PREPARED"
    BY <1>1, <1>2, <1>5
  <2>3. \A e \in Entries : Same(e) => Installed(e)'
    BY <1>1, <1>2, <1>7 DEF FileInv
  <2>. QED BY <1>1, <1>5, <1>6, <2>1, <2>2, <2>3 DEF FileInv, Same
<1>9. AtHand(h)'
  BY <1>1, <1>2, <1>4, <1>5, EntriesAre DEF AtHand
<1>. QED BY Moves, <1>1, <1>4, <1>5, <1>8, <1>9

\* The set is whole when the receipt says that it was rolled back.
LEMMA AllPriorIsNone == ASSUME FileInv, AllPrior PROVE NoneInstalled
BY DEF AllPrior, IsPrior, PriorOf, NoneInstalled, Installed, Same

LEMMA FinishesRollback ==
    ASSUME InstallInv, NEW p \in Installers, FinishRollback(p)
    PROVE  InstallInv'
<1>. PICK g : g = hand[p]
  OBVIOUS
<1>1. g \in Hands /\ holder = p /\ g.root \in dirs /\ g.root \in Roots /\ g.pc = "finish" /\ hand[p].pc # "idle"
      /\ FileInv /\ UNCHANGED <<files, stage, dirs, backups>>
  BY AtWork DEF FinishRollback
<1>2. CASE AllPrior
  <2>1. PICK h : h = [g EXCEPT !.pc = "confirm"]
    OBVIOUS
  <2>2. h \in Hands /\ h.pc = "confirm" /\ h.root = g.root
    BY <1>1, <2>1 DEF Hands, Steps, Recovering
  <2>3. PICK c : c = [st |-> "ROLLED_BACK", depth |-> receipts[g.root].depth + 1]
    OBVIOUS
  <2>4. c \in Receipts
    <3>1. receipts[g.root] \in Receipts
      BY <1>1 DEF FileInv
    <3>2. receipts[g.root].depth + 1 \in Nat
      BY <3>1 DEF Receipts
    <3>. QED BY <2>3, <3>2 DEF Receipts
  <2>5. hand' = [hand EXCEPT ![p] = h] /\ holder' = p /\ receipts' = [receipts EXCEPT ![g.root] = c]
    BY <1>1, <1>2, <2>1, <2>3 DEF FinishRollback, Turn, Root
  <2>6. NoneInstalled
    BY <1>1, <1>2, AllPriorIsNone
  <2>7. FileInv'
    BY ReceiptWritten, <1>1, <2>4, <2>5, <2>6
  <2>8. NoneInstalled'
    BY <1>1, <2>6 DEF NoneInstalled, Installed, Same
  <2>9. AtHand(h)'
    BY <1>1, <2>2, <2>8 DEF AtHand
  <2>. QED BY Moves, <1>1, <2>2, <2>5, <2>7, <2>9
<1>3. CASE Unrecovered(p) /\ UNCHANGED receipts
  BY GivesUp, NothingWritten, <1>1, <1>3
<1>. QED BY <1>2, <1>3 DEF FinishRollback

LEMMA Confirms ==
    ASSUME InstallInv, NEW p \in Installers, Confirm(p)
    PROVE  InstallInv'
<1>1. hand[p].pc # "idle" /\ FileInv /\ UNCHANGED <<files, stage, dirs, backups>>
  BY DEF Confirm, InstallInv
<1>2. (UNCHANGED receipts \/ Invalidate(p)) /\ (Unrecovered(p) \/ RecoveredCall(p))
  BY DEF Confirm
<1>3. FileInv'
  BY <1>1, <1>2, NothingWritten, Invalidates
<1>. QED BY GivesUp, <1>1, <1>2, <1>3

\* A process that ends leaves at most a torn receipt of a set untouched, or a torn copy
\* where there was none.
LEMMA InstallerEnds ==
    ASSUME InstallInv, NEW p \in Installers, NEW torn \in BOOLEAN, InstallerDies(p, torn)
    PROVE  InstallInv'
<1>. PICK g : g = hand[p]
  OBVIOUS
<1>1. g \in Hands /\ AtHand(g) /\ g.root \in dirs /\ hand[p].pc # "idle" /\ FileInv
      /\ UNCHANGED <<files, stage, dirs>> /\ End(p, "none")
  BY AtWork DEF InstallerDies
<1>2. CASE UNCHANGED <<receipts, backups>>
  BY Ends, NothingWritten, <1>1, <1>2
<1>3. CASE g.pc = "prepare" /\ torn
  <2>1. PICK c : c = [st |-> "TORN", depth |-> 0]
    OBVIOUS
  <2>2. c \in Receipts
    BY <2>1 DEF Receipts
  <2>3. NoneInstalled
    BY <1>1, <1>3 DEF AtHand
  <2>4. receipts' = [receipts EXCEPT ![g.root] = c] /\ UNCHANGED backups
    BY <1>3, <2>1 DEF InstallerDies, Root
  <2>. QED BY Ends, ReceiptWritten, <1>1, <2>2, <2>3, <2>4
<1>4. CASE g.pc = "backup" /\ torn /\ g.k \in Entries
  <2>1. backups[g.root][g.k] = "none"
    BY <1>1, <1>4, EntriesAre DEF AtHand
  <2>2. backups' = [backups EXCEPT ![g.root][g.k] = "torn"] /\ UNCHANGED receipts
    BY <1>4 DEF InstallerDies, Root
  <2>. QED BY Ends, CopyWritten, <1>1, <1>4, <2>1, <2>2
<1>. QED BY <1>2, <1>3, <1>4 DEF InstallerDies

LEMMA Spoiled ==
    ASSUME InstallInv, NEW e \in Entries, Spoil(e) \/ PutBack(e)
    PROVE  InstallInv'
<1>1. files \in [Entries -> {"prior", "source", "spoilt prior", "spoilt source"}]
      /\ stage \in {"none", "partial", "staged"}
  BY DEF InstallInv, FileInv
<1>2. files' \in [Entries -> {"prior", "source", "spoilt prior", "spoilt source"}]
      /\ \A f \in Entries : Installed(f)' <=> Installed(f)
  <2>1. ASSUME NEW b \in {"prior", "source", "spoilt prior", "spoilt source"}, files' = [files EXCEPT ![e] = b],
               b \in {"source", "spoilt source"} <=> Installed(e)
        PROVE  /\ files' \in [Entries -> {"prior", "source", "spoilt prior", "spoilt source"}]
               /\ \A f \in Entries : Installed(f)' <=> Installed(f)
    <3>1. files'[e] = b /\ \A f \in Entries \ {e} : files'[f] = files[f]
      BY <1>1, <2>1
    <3>2. ASSUME NEW f \in Entries PROVE Installed(f)' <=> Installed(f)
      <4>1. CASE f = e
        BY <2>1, <3>1, <4>1 DEF Installed
      <4>2. CASE f # e
        BY <3>1, <4>2 DEF Installed
      <4>. QED BY <4>1, <4>2
    <3>. QED BY <1>1, <2>1, <3>2
  <2>2. CASE Spoil(e)
    <3>1. PICK b : b = IF files[e] = "prior" THEN "spoilt prior" ELSE "spoilt source"
      OBVIOUS
    <3>. QED BY <1>1, <2>1, <2>2, <3>1 DEF Spoil, Installed
  <2>3. CASE PutBack(e)
    <3>1. PICK b : b = IF files[e] = "spoilt prior" THEN "prior" ELSE "source"
      OBVIOUS
    <3>. QED BY <1>1, <2>1, <2>3, <3>1 DEF PutBack, Installed
  <2>. QED BY <2>2, <2>3
<1>. QED BY OutsideStep, <1>1, <1>2 DEF Spoil, PutBack

LEMMA NextInstall == InstallInv /\ [InstallNext]_installVars => InstallInv'
<1>. SUFFICES ASSUME InstallInv, [InstallNext]_installVars PROVE InstallInv'
  OBVIOUS
<1>1. CASE StageAtom \/ StageDies \/ RemoveStage \/ UNCHANGED installVars
  <2>1. UNCHANGED <<files, dirs, receipts, backups, hand, holder>> /\ stage' \in {"none", "partial", "staged"}
    BY <1>1 DEF StageAtom, StageDies, RemoveStage, installVars, InstallInv, FileInv
  <2>2. files' \in [Entries -> {"prior", "source", "spoilt prior", "spoilt source"}]
        /\ \A e \in Entries : Installed(e)' <=> Installed(e)
    BY <2>1 DEF InstallInv, FileInv, Installed
  <2>. QED BY OutsideStep, <2>1, <2>2
<1>2. ASSUME NEW p \in Installers, Works(p) PROVE InstallInv'
  <2>1. CASE NoReceiptThere(p)
    BY GivesUp, NothingWritten, <2>1 DEF NoReceiptThere, InstallInv
  <2>. QED BY <1>2, <2>1, WritesPrepared, BacksUp, Checks, Replaces, Seals, Verifies, Withdraws, Reconfirms, BeginsUndo,
       Undoes, Restores, FinishesRollback, Confirms DEF Works
<1>3. ASSUME NEW p \in Installers, CallFails(p) PROVE InstallInv'
  <2>1. hand[p].pc # "idle" /\ FileInv /\ UNCHANGED <<files, stage, dirs, receipts, backups>>
    BY <1>3 DEF CallFails, InstallInv
  <2>. QED BY GivesUp, Fails, NothingWritten, <1>3, <2>1 DEF CallFails
<1>. QED BY <1>1, <1>2, <1>3, InstallerEnds, BeginsApply, BeginsRollback, Spoiled DEF InstallNext

LEMMA InstallInvariant == InstallSpec => []InstallInv
BY InitInstall, NextInstall, PTL DEF InstallSpec

LEMMA InstallIsRecoverable == InstallInv => InstallRecoverable
<1>1. ASSUME InstallInv PROVE PriorIsKept
  BY <1>1 DEF InstallInv, FileInv, PriorIsKept, Installed
<1>2. ASSUME InstallInv PROVE WholeWhenSettled
  <2>. SUFFICES ASSUME Legible, \A r \in Roots : receipts[r].st # "PREPARED"
                PROVE  AllSource \/ files = [e \in Entries |-> PriorOf(e)]
    BY DEF WholeWhenSettled
  <2>1. \A e \in Entries : Installed(e) <=> files[e] = "source"
    BY DEF Legible, Installed
  <2>2. CASE AllInstalled
    BY <2>1, <2>2 DEF AllInstalled, AllSource
  <2>3. CASE NoneInstalled
    <3>1. \A e \in Entries : files[e] = PriorOf(e)
      BY <2>1, <2>3 DEF NoneInstalled, Legible, PriorOf, Same
    <3>. QED BY <1>2, <3>1 DEF InstallInv, FileInv
  <2>. QED BY <1>2, <2>2, <2>3 DEF InstallInv, FileInv
<1>. QED BY <1>1, <1>2 DEF InstallRecoverable

\* For every manifest, every set of rollback directories and installers: wherever calls
\* fail and processes die, the prior bytes of every installed file are kept, and with no
\* receipt PREPARED the set of files is all prior or all reviewed.
THEOREM InstallsCanBeUndone == InstallSpec => []InstallRecoverable
BY InstallIsRecoverable, InstallInvariant, PTL

\* An installation that reports its original failure has put every file back.
THEOREM FailuresRestore == InstallSpec => FailureRestores
<1>1. ASSUME InstallInv, [InstallNext]_installVars
      PROVE  [result' = "failed" /\ result # "failed" => AllPrior']_installVars
  <2>1. ASSUME NEW p \in Installers, Works(p), result' = "failed", result # "failed" PROVE AllPrior'
    <3>1. AllPrior /\ UNCHANGED files
      BY <2>1 DEF Works, WritePrepared, Backup, Check, Replace, Seal, Verify, Withdraw, Reconfirm, BeginUndo,
         NoReceiptThere, Undo, Restore, FinishRollback, Confirm, End, Fail, Unrecovered, RecoveredCall
    <3>. QED BY <3>1 DEF AllPrior, IsPrior, PriorOf
  <2>2. CASE \E p \in Installers : Works(p)
    BY <2>1, <2>2
  <2>3. CASE ~\E p \in Installers : Works(p)
    BY <1>1, <2>3 DEF InstallNext, StageAtom, StageDies, RemoveStage, CallFails, InstallerDies, BeginApply, BeginRollback,
       Spoil, PutBack, End, Fail, Unrecovered, installVars
  <2>. QED BY <2>2, <2>3
<1>. QED BY <1>1, InstallInvariant, PTL DEF InstallSpec, FailureRestores

-----------------------------------------------------------------------------
(* The two side by side: a step of one leaves the state of the other.       *)

LEMMA ControlsKept == ControlsSpec => [](PushInv /\ InstallInv)
<1>1. ControlsInit => PushInv /\ InstallInv
  BY InitPush, InitInstall DEF ControlsInit
<1>2. PushInv /\ InstallInv /\ [ControlsNext]_allVars => PushInv' /\ InstallInv'
  <2>1. [ControlsNext]_allVars => [PrepushNext]_prepushVars /\ [InstallNext]_installVars
    BY DEF ControlsNext, InPrepush, InInstall, allVars
  <2>. QED BY <2>1, NextPush, NextInstall
<1>. QED BY <1>1, <1>2, PTL DEF ControlsSpec

\* Pushes and installations in any order: publications, gates, files and receipts keep
\* their types, pushes stay gated, and installations can be undone.
THEOREM ControlsAreSound == ControlsSpec => [](AllTypesOK /\ PushIsGated /\ InstallRecoverable)
<1>1. PushInv => PrepushTypeOK
  <2>1. ASSUME PushInv, NEW k \in Keys
        PROVE  pubs[k].state \in {"NONE", "RESERVED", "COMPLETE", "HOLD"}
    BY <2>1 DEF PushInv, Types, PubType
  <2>2. ASSUME PushInv, NEW s \in Sessions PROVE hands[s].pc \in Pcs
    BY <2>2 DEF PushInv, Types, HandType
  <2>. QED BY <2>1, <2>2 DEF PushInv, Types, PrepushTypeOK, Pcs
<1>2. InstallInv => InstallTypeOK
  BY DEF InstallInv, FileInv, InstallTypeOK, Receipts, Hands
<1>3. PushInv /\ InstallInv => AllTypesOK
  BY <1>1, <1>2 DEF AllTypesOK
<1>. QED BY <1>3, PushInvIsGated, InstallIsRecoverable, ControlsKept, PTL

-----------------------------------------------------------------------------
(* The approval ledger, for every set of proposals, recipients and user     *)
(* events and every number of edits.                                        *)

Contents == [c : Int, m : Int]
Bindings == [known : BOOLEAN, base : Contents, interest : SUBSET Recipients,
             notice : {Nobody, "PREPARED", "HOLD"}]
Decisions == [made : Decided \cup {Nobody}, to : SUBSET Recipients,
              outbox : {Nobody, "PREPARED", "COMPLETE", "HOLD"}, eff : SUBSET Int,
              revoked : BOOLEAN]
Claims == [on : BOOLEAN, p : Proposals \cup {NoProposal}, r : Recipients \cup {Nobody}, seen : Int]

LedgerTypes ==
    /\ gh \in Contents /\ src \in Contents /\ edits \in 0..MaxEdits /\ contract \in {1, 2}
    /\ current \in Proposals \cup {NoProposal} /\ parked \in Proposals \cup {NoProposal}
    /\ prop \in [Proposals -> Bindings] /\ dec \in [Proposals -> Decisions]
    /\ deliv \in [Proposals -> [Recipients -> DeliveryStates]]
    /\ batches \subseteq [p : Proposals, to : SUBSET Recipients]
    /\ DOMAIN events = UserEvents
    /\ claim \in Claims /\ (claim.on => claim.p \in Proposals /\ claim.r \in Recipients)

\* Until its decision a proposal has delivered nothing, and only a proposal that was
\* submitted becomes current or is decided.
DecidedFirst ==
    /\ current # NoProposal => prop[current].known
    /\ \A p \in Proposals :
          /\ dec[p].made = Nobody =>
                /\ \A r \in Recipients : deliv[p][r] = Nobody
                /\ dec[p].eff = {} /\ dec[p].outbox = Nobody /\ ~dec[p].revoked
          /\ dec[p].made # Nobody => prop[p].known

ApprovalInv ==
    /\ LedgerTypes /\ DecidedFirst
    /\ RecipientsFrozen /\ ClosedIsClosed /\ EventDecidesOnce /\ EffectiveAsDecided

LEMMA Constants ==
    /\ NoProposal \notin Proposals /\ Nobody \notin Decided
    /\ Planner \in Recipients /\ Clearer \in Recipients
    /\ Open \subseteq DeliveryStates /\ Nobody \notin Open
BY ApprovalAssumption DEF NoProposal, Nobody, Open, DeliveryStates

LEMMA InitApproval == ApprovalInit => ApprovalInv
<1>. SUFFICES ASSUME ApprovalInit PROVE ApprovalInv
  OBVIOUS
<1>. USE ApprovalAssumption DEF ApprovalInit
<1>1. gh \in Contents /\ src \in Contents
  BY DEF Contents
<1>2. prop \in [Proposals -> Bindings]
  BY <1>1 DEF Bindings
<1>3. dec \in [Proposals -> Decisions]
  BY DEF Decisions, NoDecision
<1>4. claim \in Claims /\ ~claim.on
  BY DEF Claims, NoClaim
<1>5. LedgerTypes
  <2>1. deliv \in [Proposals -> [Recipients -> DeliveryStates]]
    BY DEF DeliveryStates
  <2>2. edits \in 0..MaxEdits /\ batches \subseteq [p : Proposals, to : SUBSET Recipients]
    OBVIOUS
  <2>. QED BY <1>1, <1>2, <1>3, <1>4, <2>1, <2>2 DEF LedgerTypes
<1>6. DecidedFirst
  BY Constants DEF DecidedFirst, NoDecision
<1>7. ClosedIsClosed /\ RecipientsFrozen /\ EventDecidesOnce /\ EffectiveAsDecided
  BY DEF ClosedIsClosed, RecipientsFrozen, EventDecidesOnce, EffectiveAsDecided, NoDecision
<1>. QED BY <1>5, <1>6, <1>7 DEF ApprovalInv

-----------------------------------------------------------------------------
(* Steps that leave the decisions alone.                                    *)

\* A step that touches no proposal, decision, event or delivery.
LEMMA LedgerUntouched ==
    ASSUME ApprovalInv, LedgerTypes', batches \subseteq batches',
           UNCHANGED <<current, prop, events, dec, deliv>>
    PROVE  ApprovalInv'
BY DEF ApprovalInv, DecidedFirst, RecipientsFrozen, ClosedIsClosed, OpenDeliveries,
       EventDecidesOnce, FrozenDecision, EffectiveAsDecided, Published

\* Fetching, editing and syncing the issue, reviewing and waking the planner.
LEMMA Surroundings ==
    ASSUME ApprovalInv,
           \/ EditIssue \/ Comment \/ Sync \/ ClaimerDies
           \/ \E p \in Proposals : CreateReviewBatch(p) \/ EnqueueNotice(p)
           \/ \E p \in Proposals, r \in Recipients : StartClaim(p, r)
           \/ ActivateContract
    PROVE  ApprovalInv'
<1>. SUFFICES LedgerTypes' /\ batches \subseteq batches' /\ UNCHANGED <<current, prop, events, dec, deliv>>
  BY LedgerUntouched
<1>. USE DEF ApprovalInv
<1>1. CASE EditIssue \/ Comment
  <2>1. gh' \in Contents
    BY <1>1 DEF EditIssue, Comment, Edit, LedgerTypes, Contents
  <2>2. edits' \in 0..MaxEdits
    BY <1>1, ApprovalAssumption DEF EditIssue, Comment, Edit, LedgerTypes
  <2>. QED BY <1>1, <2>1, <2>2 DEF EditIssue, Comment, Edit, LedgerTypes
<1>2. CASE Sync
  BY <1>2 DEF Sync, LedgerTypes
<1>3. CASE ClaimerDies
  BY <1>3 DEF ClaimerDies, NoClaim, Claims, LedgerTypes
<1>4. ASSUME NEW p \in Proposals, CreateReviewBatch(p)
      PROVE  LedgerTypes' /\ batches \subseteq batches' /\ UNCHANGED <<current, prop, events, dec, deliv>>
  <2>1. BatchOf(p) \in [p : Proposals, to : SUBSET Recipients]
    BY DEF BatchOf, LedgerTypes, Bindings
  <2>. QED BY <1>4, <2>1 DEF CreateReviewBatch, LedgerTypes
<1>5. ASSUME NEW p \in Proposals, EnqueueNotice(p)
      PROVE  LedgerTypes' /\ batches \subseteq batches' /\ UNCHANGED <<current, prop, events, dec, deliv>>
  BY <1>5 DEF EnqueueNotice, LedgerTypes
<1>6. ASSUME NEW p \in Proposals, NEW r \in Recipients, StartClaim(p, r)
      PROVE  LedgerTypes' /\ batches \subseteq batches' /\ UNCHANGED <<current, prop, events, dec, deliv>>
  <2>1. claim' \in Claims /\ claim'.p \in Proposals /\ claim'.r \in Recipients
    BY <1>6 DEF StartClaim, Claims, LedgerTypes, Contents
  <2>. QED BY <1>6, <2>1 DEF StartClaim, LedgerTypes
<1>7. CASE ActivateContract
  BY <1>7 DEF ActivateContract, LedgerTypes
<1>. QED BY <1>1, <1>2, <1>3, <1>4, <1>5, <1>6, <1>7

-----------------------------------------------------------------------------
(* Steps that only move deliveries and the effective source.                *)

\* A step that delivers, acknowledges or holds: it opens nothing that was closed, and
\* an effective source it fixes is the one decided on, of a published decision.
LEMMA DeliveriesMove ==
    ASSUME ApprovalInv, LedgerTypes', UNCHANGED <<current, prop, events, batches>>,
           \A q \in Proposals : /\ dec'[q].made = dec[q].made /\ dec'[q].to = dec[q].to
                                /\ dec'[q].outbox = dec[q].outbox
                                /\ dec'[q].revoked = dec[q].revoked
                                /\ \/ dec'[q].eff = dec[q].eff
                                   \/ dec'[q].eff = {prop[q].base.c} /\ Published(q),
           \A q \in Proposals, r \in Recipients :
                /\ deliv'[q][r] = Nobody <=> deliv[q][r] = Nobody
                /\ deliv'[q][r] \in Open => deliv[q][r] \in Open
    PROVE  ApprovalInv'
<1>. USE DEF ApprovalInv
<1>1. DecidedFirst'
  BY DEF DecidedFirst, Published, Nobody
<1>2. RecipientsFrozen'
  BY DEF RecipientsFrozen
<1>3. ClosedIsClosed'
  BY DEF ClosedIsClosed, OpenDeliveries
<1>4. EventDecidesOnce'
  BY DEF EventDecidesOnce, FrozenDecision
<1>5. EffectiveAsDecided'
  BY DEF EffectiveAsDecided, Published
<1>. QED BY <1>1, <1>2, <1>3, <1>4, <1>5

\* Holding the deliveries of a proposal, and moving one delivery, as functions.
LEMMA HoldMoves ==
    ASSUME LedgerTypes, NEW p \in Proposals, deliv' = HeldDeliveries(p)
    PROVE  /\ deliv' \in [Proposals -> [Recipients -> DeliveryStates]]
           /\ \A q \in Proposals, r \in Recipients :
                deliv'[q][r] = IF q = p /\ deliv[q][r] \in Open THEN "HOLD" ELSE deliv[q][r]
<1>1. [r \in Recipients |-> IF deliv[p][r] \in Open THEN "HOLD" ELSE deliv[p][r]]
        \in [Recipients -> DeliveryStates]
  BY DEF LedgerTypes, DeliveryStates
<1>. QED BY <1>1 DEF HeldDeliveries, LedgerTypes

LEMMA OneMoves ==
    ASSUME LedgerTypes, NEW p \in Proposals, NEW r \in Recipients, NEW s \in DeliveryStates,
           deliv' = [deliv EXCEPT ![p][r] = s]
    PROVE  /\ deliv' \in [Proposals -> [Recipients -> DeliveryStates]]
           /\ \A q \in Proposals, t \in Recipients :
                deliv'[q][t] = IF q = p /\ t = r THEN s ELSE deliv[q][t]
BY DEF LedgerTypes

\* The first claim that fixes an effective source.
LEMMA EffectFixed ==
    ASSUME LedgerTypes, NEW p \in Proposals, NEW x \in Int, dec' = [dec EXCEPT ![p].eff = {x}]
    PROVE  /\ dec' \in [Proposals -> Decisions]
           /\ \A q \in Proposals : /\ dec'[q].made = dec[q].made /\ dec'[q].to = dec[q].to
                                   /\ dec'[q].outbox = dec[q].outbox
                                   /\ dec'[q].revoked = dec[q].revoked
                                   /\ dec'[q].eff = IF q = p THEN {x} ELSE dec[q].eff
<1>1. dec[p] \in Decisions
  BY DEF LedgerTypes
<1>2. [dec[p] EXCEPT !.eff = {x}] \in Decisions
  BY <1>1 DEF Decisions
<1>. QED BY <1>1, <1>2 DEF LedgerTypes, Decisions

LEMMA AcknowledgeSound ==
    ASSUME ApprovalInv, NEW p \in Proposals, NEW r \in Recipients, AcknowledgeDecision(p, r)
    PROVE  ApprovalInv'
<1>. USE DEF ApprovalInv
<1>1. deliv' = [deliv EXCEPT ![p][r] = "ACKNOWLEDGED"] /\ "ACKNOWLEDGED" \in DeliveryStates
  BY DEF AcknowledgeDecision, DeliveryStates
<1>2. LedgerTypes'
  BY <1>1, OneMoves DEF AcknowledgeDecision, LedgerTypes
<1>. QED
  <2>1. \A q \in Proposals, t \in Recipients :
                /\ deliv'[q][t] = Nobody <=> deliv[q][t] = Nobody
                /\ deliv'[q][t] \in Open => deliv[q][t] \in Open
    BY <1>1, OneMoves DEF AcknowledgeDecision, Open, Nobody
  <2>. QED BY <1>2, <2>1, DeliveriesMove DEF AcknowledgeDecision

\* Both claims that are acknowledged at once, in their transaction.
LEMMA ClaimSound ==
    ASSUME ApprovalInv, NEW p \in Proposals, ClearHosted(p) \/ Dispose(p)
    PROVE  ApprovalInv'
<1>. USE DEF ApprovalInv
<1>. DEFINE r == IF ClearHosted(p) THEN Clearer ELSE Planner
<1>1. /\ ClaimableInTransaction(p, r) /\ Claimed(p, r, "ACKNOWLEDGED") /\ r \in Recipients
      /\ UNCHANGED <<gh, edits, contract, current, prop, batches, events, claim>>
      /\ parked' \in Proposals \cup {NoProposal} /\ src' \in {gh, src}
  BY Constants DEF ClearHosted, Dispose, Consume, LedgerTypes
<1>. HIDE DEF r
<1>2. /\ src'.c = gh.c /\ gh.c = prop[p].base.c /\ Published(p) /\ deliv[p][r] \in Open
      /\ src'.c \in Int /\ src' \in Contents
  BY <1>1 DEF ClaimableInTransaction, Claimable, LedgerTypes, Contents
<1>3. deliv' = [deliv EXCEPT ![p][r] = "ACKNOWLEDGED"] /\ dec' = [dec EXCEPT ![p].eff = {src'.c}]
  BY <1>1 DEF Claimed
<1>4. "ACKNOWLEDGED" \in DeliveryStates
  BY DEF DeliveryStates
<1>5. LedgerTypes'
  BY <1>1, <1>2, <1>3, <1>4, OneMoves, EffectFixed DEF LedgerTypes
<1>6. \A q \in Proposals, t \in Recipients :
                /\ deliv'[q][t] = Nobody <=> deliv[q][t] = Nobody
                /\ deliv'[q][t] \in Open => deliv[q][t] \in Open
  BY <1>1, <1>2, <1>3, <1>4, OneMoves DEF Open, Nobody
<1>7. \A q \in Proposals : /\ dec'[q].made = dec[q].made /\ dec'[q].to = dec[q].to
                           /\ dec'[q].outbox = dec[q].outbox
                           /\ dec'[q].revoked = dec[q].revoked
                           /\ \/ dec'[q].eff = dec[q].eff
                              \/ dec'[q].eff = {prop[q].base.c} /\ Published(q)
  BY <1>2, <1>3, EffectFixed
<1>. QED BY <1>1, <1>5, <1>6, <1>7, DeliveriesMove

LEMMA DisposeLostSound ==
    ASSUME ApprovalInv, NEW p \in Proposals, DisposeLost(p)
    PROVE  ApprovalInv'
<1>. USE DEF ApprovalInv
<1>. DEFINE s == IF deliv[p][Planner] \in Open THEN "HOLD" ELSE deliv[p][Planner]
<1>1. deliv' = [deliv EXCEPT ![p][Planner] = s] /\ s \in DeliveryStates /\ Planner \in Recipients
  BY Constants DEF DisposeLost, LedgerTypes, DeliveryStates
<1>2. LedgerTypes'
  BY <1>1, OneMoves DEF DisposeLost, Consume, LedgerTypes
<1>3. \A q \in Proposals, t \in Recipients :
                /\ deliv'[q][t] = Nobody <=> deliv[q][t] = Nobody
                /\ deliv'[q][t] \in Open => deliv[q][t] \in Open
  BY <1>1, OneMoves DEF Open, Nobody
<1>. QED BY <1>2, <1>3, DeliveriesMove DEF DisposeLost

LEMMA FinishClaimSound == ASSUME ApprovalInv, FinishClaim PROVE ApprovalInv'
<1>. USE DEF ApprovalInv
<1>. DEFINE p == claim.p
            r == claim.r
<1>0. p \in Proposals /\ r \in Recipients /\ claim.seen \in Int
  BY DEF FinishClaim, LedgerTypes, Claims
<1>1. claim' \in Claims /\ ~claim'.on
  BY DEF FinishClaim, NoClaim, Claims
<1>2. CASE deliv' = deliv /\ dec' = dec
  <2>1. LedgerTypes'
    BY <1>1, <1>2 DEF FinishClaim, LedgerTypes
  <2>. QED BY <2>1, <1>2, LedgerUntouched DEF FinishClaim
<1>3. CASE deliv' = HeldDeliveries(p) /\ dec' = dec
  <2>1. LedgerTypes'
    BY <1>0, <1>1, <1>3, HoldMoves DEF FinishClaim, LedgerTypes
  <2>2. \A q \in Proposals, t \in Recipients :
                /\ deliv'[q][t] = Nobody <=> deliv[q][t] = Nobody
                /\ deliv'[q][t] \in Open => deliv[q][t] \in Open
    BY <1>0, <1>3, HoldMoves DEF Open, Nobody
  <2>. QED BY <2>1, <2>2, <1>3, DeliveriesMove DEF FinishClaim
<1>4. CASE /\ Claimable(p, r) /\ claim.seen = prop[p].base.c
           /\ deliv[p][r] = "WAITING_PUBLICATION"
           /\ deliv' = [deliv EXCEPT ![p][r] = "CLAIMED"]
           /\ dec' = [dec EXCEPT ![p].eff = {claim.seen}]
  <2>0. "CLAIMED" \in DeliveryStates
    BY DEF DeliveryStates
  <2>1. LedgerTypes'
    BY <1>0, <1>1, <1>4, <2>0, OneMoves, EffectFixed DEF FinishClaim, LedgerTypes
  <2>2. \A q \in Proposals, t \in Recipients :
                /\ deliv'[q][t] = Nobody <=> deliv[q][t] = Nobody
                /\ deliv'[q][t] \in Open => deliv[q][t] \in Open
    BY <1>0, <1>4, <2>0, OneMoves DEF Open, Nobody
  <2>3. \A q \in Proposals : /\ dec'[q].made = dec[q].made /\ dec'[q].to = dec[q].to
                             /\ dec'[q].outbox = dec[q].outbox
                             /\ dec'[q].revoked = dec[q].revoked
                             /\ \/ dec'[q].eff = dec[q].eff
                                \/ dec'[q].eff = {prop[q].base.c} /\ Published(q)
    BY <1>0, <1>4, EffectFixed DEF Claimable
  <2>. QED BY <2>1, <2>2, <2>3, DeliveriesMove DEF FinishClaim
<1>. QED BY <1>2, <1>3, <1>4 DEF FinishClaim

-----------------------------------------------------------------------------
(* Submissions.                                                             *)

\* A step that binds proposals anew: what is decided keeps its interest and base, what
\* is superseded has no open delivery.
LEMMA BindingsMove ==
    ASSUME ApprovalInv, LedgerTypes', UNCHANGED <<batches, events, dec, deliv>>,
           current' # NoProposal => prop'[current'].known,
           \A q \in Proposals : /\ prop[q].known => prop'[q].known
                                /\ dec[q].made # Nobody =>
                                      prop'[q].interest = prop[q].interest
                                      /\ prop'[q].base = prop[q].base
                                /\ prop'[q].known /\ ~prop[q].known => current' = q,
           current' # current /\ current # NoProposal => OpenDeliveries(current) = {}
    PROVE  ApprovalInv'
<1>. USE DEF ApprovalInv
<1>1. DecidedFirst'
  BY DEF DecidedFirst
<1>2. RecipientsFrozen'
  BY DEF RecipientsFrozen
<1>3. ClosedIsClosed'
  <2>. SUFFICES ASSUME NEW q \in Proposals, prop'[q].known, current' # q \/ dec[q].revoked
                PROVE  OpenDeliveries(q) = {}
    BY DEF ClosedIsClosed, OpenDeliveries
  <2>1. prop[q].known
    BY DEF DecidedFirst, ClosedIsClosed
  <2>2. current # q \/ dec[q].revoked \/ (current' # current /\ current = q)
    OBVIOUS
  <2>. QED BY <2>1, <2>2, Constants DEF ClosedIsClosed
<1>4. EventDecidesOnce'
  BY DEF EventDecidesOnce, FrozenDecision
<1>5. EffectiveAsDecided'
  BY DEF EffectiveAsDecided, DecidedFirst, Published
<1>. QED BY <1>1, <1>2, <1>3, <1>4, <1>5

LEMMA JoinSound ==
    ASSUME ApprovalInv, NEW p \in Proposals, NEW r \in Recipients, JoinProposal(p, r)
    PROVE  ApprovalInv'
<1>. USE DEF ApprovalInv
<1>1. prop[p] \in Bindings /\ prop' = [prop EXCEPT ![p].interest = @ \cup {r}] /\ current = p
  BY DEF JoinProposal, LedgerTypes
<1>2. [prop[p] EXCEPT !.interest = @ \cup {r}] \in Bindings
  BY <1>1 DEF Bindings
<1>3. /\ prop' \in [Proposals -> Bindings]
      /\ \A q \in Proposals : /\ prop'[q].known = prop[q].known /\ prop'[q].base = prop[q].base
                              /\ q # p => prop'[q].interest = prop[q].interest
  BY <1>1, <1>2 DEF LedgerTypes, Bindings
<1>4. LedgerTypes' /\ UNCHANGED <<current, batches, events, dec, deliv>> /\ dec[p].made = Nobody
  BY <1>3 DEF JoinProposal, LedgerTypes
<1>5. current' # NoProposal => prop'[current'].known
  BY <1>1, <1>3, <1>4 DEF DecidedFirst
<1>. QED BY <1>1, <1>3, <1>4, <1>5, BindingsMove

LEMMA SubmitSound ==
    ASSUME ApprovalInv, NEW p \in Proposals, NEW r \in Recipients, SubmitProposal(p, r)
    PROVE  ApprovalInv'
<1>. USE DEF ApprovalInv
<1>. DEFINE fresh == [known |-> TRUE, base |-> src, interest |-> {r}, notice |-> "PREPARED"]
<1>1. /\ prop' = [q \in Proposals |->
                   IF q = p THEN fresh
                   ELSE IF q = current THEN [prop[q] EXCEPT !.notice = Retired(@)] ELSE prop[q]]
      /\ current' = p /\ parked' \in {p, parked} /\ ~prop[p].known
      /\ current # NoProposal => OpenDeliveries(current) = {}
      /\ UNCHANGED <<gh, src, edits, contract, batches, events, dec, deliv, wakes, claim>>
  BY DEF SubmitProposal, MakeCurrent
<1>2. fresh \in Bindings /\ fresh.known
  BY DEF LedgerTypes, Bindings
<1>3. \A q \in Proposals : /\ prop[q] \in Bindings
                           /\ [prop[q] EXCEPT !.notice = Retired(@)] \in Bindings
  BY DEF LedgerTypes, Bindings, Retired
<1>. HIDE DEF fresh
<1>4. prop' \in [Proposals -> Bindings]
  BY <1>1, <1>2, <1>3
<1>5. \A q \in Proposals : q # p => /\ prop'[q].known = prop[q].known
                                    /\ prop'[q].base = prop[q].base
                                    /\ prop'[q].interest = prop[q].interest
  BY <1>1, <1>3 DEF Bindings
<1>6. prop'[p].known /\ dec[p].made = Nobody
  BY <1>1, <1>2 DEF DecidedFirst
<1>7. LedgerTypes'
  BY <1>1, <1>4 DEF LedgerTypes
<1>. QED BY <1>1, <1>5, <1>6, <1>7, BindingsMove

-----------------------------------------------------------------------------
(* Decisions.                                                               *)

\* What is recorded under an event is never what another batch, another answer or a
\* revocation is recorded as.
LEMMA EventsDiffer ==
    ASSUME NEW b, NEW d
    PROVE  <<b, d>> # << >> /\ <<b, d>> # <<"revocation">>
<1>1. Len(<<b, d>>) = 2 /\ Len(<<"revocation">>) = 1
  OBVIOUS
<1>. QED BY <1>1

LEMMA PublishSound ==
    ASSUME ApprovalInv, NEW p \in Proposals, PublishDecision(p)
    PROVE  ApprovalInv'
<1>. USE DEF ApprovalInv
<1>1. PICK o \in {"COMPLETE", "HOLD"} : dec' = [dec EXCEPT ![p].outbox = o]
  BY DEF PublishDecision
<1>2. dec[p].outbox = "PREPARED" /\ gh' \in Contents
      /\ UNCHANGED <<src, edits, contract, current, prop, batches, events, deliv, parked, wakes, claim>>
  BY DEF PublishDecision, LedgerTypes, Contents
<1>3. dec[p] \in Decisions /\ [dec[p] EXCEPT !.outbox = o] \in Decisions
  <2>1. dec[p] \in Decisions
    BY DEF LedgerTypes
  <2>. QED BY <2>1 DEF Decisions
<1>4. /\ dec' \in [Proposals -> Decisions]
      /\ \A q \in Proposals : /\ dec'[q].made = dec[q].made /\ dec'[q].to = dec[q].to
                              /\ dec'[q].revoked = dec[q].revoked /\ dec'[q].eff = dec[q].eff
                              /\ dec'[q].outbox = IF q = p THEN o ELSE dec[q].outbox
  BY <1>1, <1>3 DEF LedgerTypes, Decisions
<1>5. dec[p].eff = {} /\ dec[p].made # Nobody
  BY <1>2 DEF EffectiveAsDecided, Published, DecidedFirst, Nobody
<1>6. LedgerTypes'
  BY <1>2, <1>4 DEF LedgerTypes
<1>7. DecidedFirst' /\ RecipientsFrozen' /\ ClosedIsClosed'
  BY <1>2, <1>4, <1>5 DEF DecidedFirst, RecipientsFrozen, ClosedIsClosed, OpenDeliveries
<1>8. EventDecidesOnce'
  BY <1>2, <1>4 DEF EventDecidesOnce, FrozenDecision
<1>9. EffectiveAsDecided'
  BY <1>2, <1>4, <1>5 DEF EffectiveAsDecided, Published
<1>. QED BY <1>6, <1>7, <1>8, <1>9

LEMMA RevokeSound ==
    ASSUME ApprovalInv, NEW p \in Proposals, NEW e \in UserEvents, RevokeDecision(p, e)
    PROVE  ApprovalInv'
<1>. USE DEF ApprovalInv
<1>1. /\ current = p /\ dec[p].made # Nobody /\ events[e] \in {<< >>, <<"revocation">>}
      /\ events' = [events EXCEPT ![e] = <<"revocation">>]
      /\ dec' = [dec EXCEPT ![p].revoked = TRUE] /\ deliv' = HeldDeliveries(p)
      /\ UNCHANGED <<gh, src, edits, contract, current, prop, batches, parked, wakes, claim>>
  BY DEF RevokeDecision
<1>2. dec[p] \in Decisions /\ [dec[p] EXCEPT !.revoked = TRUE] \in Decisions
  BY DEF LedgerTypes, Decisions
<1>3. /\ dec' \in [Proposals -> Decisions]
      /\ \A q \in Proposals : /\ dec'[q].made = dec[q].made /\ dec'[q].to = dec[q].to
                              /\ dec'[q].outbox = dec[q].outbox /\ dec'[q].eff = dec[q].eff
                              /\ q # p => dec'[q].revoked = dec[q].revoked
  BY <1>1, <1>2 DEF LedgerTypes, Decisions
<1>4. LedgerTypes'
  BY <1>1, <1>3, HoldMoves DEF LedgerTypes
<1>5. \A q \in Proposals, t \in Recipients :
                /\ deliv'[q][t] = Nobody <=> deliv[q][t] = Nobody
                /\ deliv'[q][t] \in Open => deliv[q][t] \in Open /\ q # p
  BY <1>1, HoldMoves DEF Open, Nobody
<1>6. DecidedFirst' /\ RecipientsFrozen'
  BY <1>1, <1>3, <1>5 DEF DecidedFirst, RecipientsFrozen
<1>7. ClosedIsClosed'
  BY <1>1, <1>3, <1>5 DEF ClosedIsClosed, OpenDeliveries
<1>8. EventDecidesOnce'
  <2>1. \A f \in UserEvents : f # e => events'[f] = events[f]
    BY <1>1 DEF LedgerTypes
  <2>2. \A f \in UserEvents : \A c, d : events[f] = <<c, d>> => f # e
    BY <1>1, EventsDiffer
  <2>3. ASSUME NEW q \in Proposals, dec[q].made # Nobody PROVE FrozenDecision(q)'
    <3>1. PICK f \in UserEvents : events[f] = <<[p |-> q, to |-> dec[q].to], dec[q].made>>
      BY <2>3 DEF EventDecidesOnce, FrozenDecision
    <3>2. events'[f] = events[f]
      BY <2>1, <2>2, <3>1
    <3>3. dec'[q].made = dec[q].made /\ dec'[q].to = dec[q].to
      BY <1>3
    <3>4. [p |-> q, to |-> dec[q].to] \in batches
      BY <2>3 DEF EventDecidesOnce, FrozenDecision
    <3>. QED BY <1>1, <3>1, <3>2, <3>3, <3>4 DEF FrozenDecision
  <2>. QED BY <1>3, <2>3 DEF EventDecidesOnce
<1>9. EffectiveAsDecided'
  BY <1>1, <1>3 DEF EffectiveAsDecided, Published
<1>. QED BY <1>4, <1>6, <1>7, <1>8, <1>9

LEMMA RecordSound ==
    ASSUME ApprovalInv, NEW b \in batches, NEW e \in UserEvents, NEW d \in Decided,
           RecordDecision(b, e, d)
    PROVE  ApprovalInv'
<1>. USE DEF ApprovalInv
<1>. DEFINE p == b.p
            record == [NoDecision EXCEPT !.made = d, !.to = b.to, !.outbox = "PREPARED"]
            first == [r \in Recipients |-> IF r \in b.to THEN FirstDelivery(r, d) ELSE Nobody]
<1>1. /\ current = p /\ dec[p].made = Nobody /\ BatchIsCurrent(b) /\ EventFits(e, b, d)
      /\ events' = [events EXCEPT ![e] = <<b, d>>] /\ dec' = [dec EXCEPT ![p] = record]
      /\ deliv' = [deliv EXCEPT ![p] = first]
      /\ prop' = [prop EXCEPT ![p].notice = Retired(@)]
      /\ UNCHANGED <<gh, src, edits, contract, current, batches, parked, wakes, claim>>
  BY DEF RecordDecision
<1>2. p \in Proposals /\ b.to \in SUBSET Recipients /\ b = BatchOf(p) /\ b.to = prop[p].interest
      /\ b = [p |-> p, to |-> b.to]
  BY <1>1 DEF BatchIsCurrent, BatchOf, LedgerTypes
<1>3. /\ record \in Decisions /\ record.made = d /\ record.to = b.to /\ record.eff = {}
      /\ record.outbox = "PREPARED" /\ ~record.revoked /\ d # Nobody
  BY <1>2, Constants DEF NoDecision, Decisions
<1>4. first \in [Recipients -> DeliveryStates]
      /\ \A r \in Recipients : first[r] # Nobody <=> r \in b.to
  BY DEF FirstDelivery, DeliveryStates, Nobody
<1>5. prop[p] \in Bindings /\ [prop[p] EXCEPT !.notice = Retired(@)] \in Bindings
  BY <1>2 DEF LedgerTypes, Bindings, Retired
<1>. HIDE DEF record, first, p
<1>6. /\ prop' \in [Proposals -> Bindings]
      /\ \A q \in Proposals : /\ prop'[q].known = prop[q].known /\ prop'[q].base = prop[q].base
                              /\ prop'[q].interest = prop[q].interest
  BY <1>1, <1>2, <1>5 DEF LedgerTypes, Bindings
<1>7. /\ dec' \in [Proposals -> Decisions]
      /\ \A q \in Proposals : dec'[q] = IF q = p THEN record ELSE dec[q]
  BY <1>1, <1>2, <1>3 DEF LedgerTypes
<1>8. /\ deliv' \in [Proposals -> [Recipients -> DeliveryStates]]
      /\ \A q \in Proposals : deliv'[q] = IF q = p THEN first ELSE deliv[q]
  BY <1>1, <1>2, <1>4 DEF LedgerTypes
<1>9. LedgerTypes'
  BY <1>1, <1>6, <1>7, <1>8 DEF LedgerTypes
<1>10. DecidedFirst'
  BY <1>1, <1>2, <1>3, <1>6, <1>7, <1>8, Constants DEF DecidedFirst
<1>11. RecipientsFrozen'
  BY <1>2, <1>3, <1>4, <1>6, <1>7, <1>8 DEF RecipientsFrozen
<1>12. ClosedIsClosed'
  BY <1>1, <1>2, <1>3, <1>6, <1>7, <1>8 DEF ClosedIsClosed, OpenDeliveries
<1>13. EventDecidesOnce'
  <2>1. /\ e \in DOMAIN events /\ events'[e] = <<b, d>>
        /\ \A f \in UserEvents : f # e => events'[f] = events[f]
    BY <1>1 DEF LedgerTypes
  <2>2. ASSUME NEW q \in Proposals, q # p, dec[q].made # Nobody
        PROVE  FrozenDecision(q)'
    <3>1. PICK f \in UserEvents : events[f] = <<[p |-> q, to |-> dec[q].to], dec[q].made>>
      BY <2>2 DEF EventDecidesOnce, FrozenDecision
    <3>2. events[e] = << >> \/ events[e] = <<b, d>>
      BY <1>1 DEF EventFits
    <3>3. f # e
      <4>. SUFFICES ASSUME f = e PROVE FALSE
        OBVIOUS
      <4>1. <<[p |-> q, to |-> dec[q].to], dec[q].made>> = <<b, d>>
        BY <3>1, <3>2, EventsDiffer
      <4>2. [p |-> q, to |-> dec[q].to] = b
        BY <4>1
      <4>. QED BY <2>2, <4>2 DEF p
    <3>. QED BY <1>1, <1>7, <2>1, <2>2, <3>1, <3>3 DEF EventDecidesOnce, FrozenDecision
  <2>3. FrozenDecision(p)'
    BY <1>1, <1>2, <1>3, <1>7, <2>1 DEF FrozenDecision
  <2>. QED BY <1>2, <1>7, <2>2, <2>3 DEF EventDecidesOnce
<1>14. EffectiveAsDecided'
  BY <1>3, <1>6, <1>7 DEF EffectiveAsDecided, Published
<1>. QED BY <1>9, <1>10, <1>11, <1>12, <1>13, <1>14

-----------------------------------------------------------------------------

LEMMA ApprovalStep == ApprovalInv /\ [ApprovalNext]_approvalVars => ApprovalInv'
<1>. SUFFICES ASSUME ApprovalInv, [ApprovalNext]_approvalVars PROVE ApprovalInv'
  OBVIOUS
<1>1. CASE LedgerNext
  <2>1. ASSUME NEW p \in Proposals, NEW r \in Recipients, SubmitProposal(p, r) \/ JoinProposal(p, r)
        PROVE  ApprovalInv'
    BY <2>1, SubmitSound, JoinSound
  <2>2. ASSUME NEW p \in Proposals, CreateReviewBatch(p) \/ PublishDecision(p)
        PROVE  ApprovalInv'
    BY <2>2, Surroundings, PublishSound
  <2>3. ASSUME NEW b \in batches, NEW e \in UserEvents, NEW d \in Decided, RecordDecision(b, e, d)
        PROVE  ApprovalInv'
    BY <2>3, RecordSound
  <2>4. ASSUME NEW p \in Proposals, NEW e \in UserEvents, RevokeDecision(p, e)
        PROVE  ApprovalInv'
    BY <2>4, RevokeSound
  <2>5. CASE ActivateContract
    BY <2>5, Surroundings
  <2>. QED BY <1>1, <2>1, <2>2, <2>3, <2>4, <2>5 DEF LedgerNext, Submittable, Offered
<1>2. CASE DeliveryNext
  <2>1. ASSUME NEW p \in Proposals,
               EnqueueNotice(p) \/ DisposeLost(p) \/ Dispose(p) \/ ClearHosted(p)
        PROVE  ApprovalInv'
    BY <2>1, Surroundings, DisposeLostSound, ClaimSound
  <2>2. ASSUME NEW p \in Proposals, NEW r \in Recipients,
               StartClaim(p, r) \/ AcknowledgeDecision(p, r)
        PROVE  ApprovalInv'
    BY <2>2, Surroundings, AcknowledgeSound
  <2>3. CASE FinishClaim \/ ClaimerDies
    BY <2>3, FinishClaimSound, Surroundings
  <2>. QED BY <1>2, <2>1, <2>2, <2>3 DEF DeliveryNext
<1>3. CASE EditIssue \/ Comment \/ Sync
  BY <1>3, Surroundings
<1>4. CASE UNCHANGED approvalVars
  <2>1. LedgerTypes'
    BY <1>4 DEF approvalVars, ApprovalInv, LedgerTypes
  <2>. QED BY <1>4, <2>1, LedgerUntouched DEF approvalVars
<1>. QED BY <1>1, <1>2, <1>3, <1>4 DEF ApprovalNext

LEMMA ApprovalInvStands == ApprovalSpec => []ApprovalInv
BY InitApproval, ApprovalStep, PTL DEF ApprovalSpec

\* What the guard lets pass follows from what the ledger records of the decision.
LEMMA InvDecides == ApprovalInv => DecisionsStand
<1>. SUFFICES ASSUME ApprovalInv PROVE DecisionsStand
  OBVIOUS
<1>. USE DEF ApprovalInv
<1>1. \A p \in Proposals : Cardinality(dec[p].eff) <= 1
  <2>. TAKE p \in Proposals
  <2>1. dec[p].eff = {} \/ dec[p].eff = {prop[p].base.c}
    BY DEF EffectiveAsDecided
  <2>2. CASE dec[p].eff = {}
    BY <2>2, FS_EmptySet
  <2>3. CASE dec[p].eff = {prop[p].base.c}
    <3>1. Cardinality({prop[p].base.c}) = 1
      BY FS_Singleton, Zenon
    <3>. QED BY <2>3, <3>1
  <2>. QED BY <2>1, <2>2, <2>3
<1>2. ApprovalTypeOK
  <2>1. \A p \in Proposals : prop[p] \in Bindings /\ dec[p] \in Decisions
    BY DEF LedgerTypes
  <2>. QED BY <1>1, <2>1 DEF ApprovalTypeOK, LedgerTypes, Bindings, Decisions
<1>3. GuardedIsApproved
  <2>. SUFFICES ASSUME NEW p \in Proposals, NEW r \in Recipients, RequireEffectiveApproval(p, r)
                PROVE  /\ r \in dec[p].to /\ ~dec[p].revoked /\ src.c = prop[p].base.c
                       /\ contract = 2 => p \notin Legacy
    BY DEF GuardedIsApproved
  <2>1. dec[p].made # Nobody
    BY DEF RequireEffectiveApproval, Nobody
  <2>2. dec[p].eff = {src.c} /\ dec[p].eff = {prop[p].base.c}
    BY DEF RequireEffectiveApproval, EffectiveAsDecided
  <2>. QED BY <2>1, <2>2 DEF RequireEffectiveApproval, Quarantined, RecipientsFrozen
<1>. QED BY <1>2, <1>3 DEF DecisionsStand

\* The ledger records what the owner decided, for every set of proposals, recipients,
\* options and user events and however many edits: record_decision delivers to the
\* recipients of the batch shown, one event answers one batch, a claim fixes only the
\* source decided on, submit_proposal and revoke_decision leave nothing open behind,
\* and require_effective_approval lets pass only what follows from them.
THEOREM ApprovalDecisionsStand == ApprovalSpec => []DecisionsStand
BY ApprovalInvStands, InvDecides, PTL

\* Claim, acknowledgement, hold, drift and revocation only move a delivery on: none
\* that ended opens again and none that was claimed waits again.
THEOREM ApprovalDeliveryMonotonic == ApprovalSpec => DeliveryIsMonotonic
<1>. DEFINE Onward ==
       \A p \in Proposals, r \in Recipients :
        /\ deliv[p][r] \in {"ACKNOWLEDGED", "HOLD"} => deliv'[p][r] = deliv[p][r]
        /\ deliv[p][r] = "CLAIMED" => deliv'[p][r] # "WAITING_PUBLICATION"
<1>1. ApprovalInv /\ [ApprovalNext]_approvalVars => [Onward]_approvalVars
  <2>. SUFFICES ASSUME ApprovalInv, ApprovalNext PROVE Onward
    OBVIOUS
  <2>. USE DEF ApprovalInv
  <2>1. CASE deliv' = deliv
    BY <2>1
  <2>2. ASSUME NEW q \in Proposals, NEW t \in Recipients, NEW s \in DeliveryStates,
               deliv' = [deliv EXCEPT ![q][t] = s],
               deliv[q][t] \in {"ACKNOWLEDGED", "HOLD"} => s = deliv[q][t],
               deliv[q][t] = "CLAIMED" => s # "WAITING_PUBLICATION"
        PROVE  Onward
    BY <2>2, OneMoves
  <2>3. ASSUME NEW q \in Proposals, deliv' = HeldDeliveries(q) PROVE Onward
    BY <2>3, HoldMoves DEF Open
  <2>4. ASSUME NEW b \in batches, NEW e \in UserEvents, NEW d \in Decided, RecordDecision(b, e, d)
        PROVE  Onward
    <3>1. b.p \in Proposals /\ \A r \in Recipients : deliv[b.p][r] = Nobody
      BY <2>4 DEF RecordDecision, DecidedFirst, LedgerTypes
    <3>2. \A q \in Proposals : q # b.p => deliv'[q] = deliv[q]
      BY <2>4 DEF RecordDecision, LedgerTypes
    <3>. QED BY <3>1, <3>2 DEF Nobody
  <2>5. ASSUME NEW p \in Proposals, NEW r \in Recipients,
               ClaimableInTransaction(p, r), Claimed(p, r, "ACKNOWLEDGED")
        PROVE  Onward
    <3>1. deliv' = [deliv EXCEPT ![p][r] = "ACKNOWLEDGED"] /\ deliv[p][r] \in Open
      BY <2>5 DEF ClaimableInTransaction, Claimable, Claimed
    <3>. QED BY <2>2, <3>1 DEF Open, DeliveryStates
  <2>6. ASSUME NEW p \in Proposals, DisposeLost(p) PROVE Onward
    <3>. DEFINE s == IF deliv[p][Planner] \in Open THEN "HOLD" ELSE deliv[p][Planner]
    <3>1. deliv' = [deliv EXCEPT ![p][Planner] = s] /\ s \in DeliveryStates /\ Planner \in Recipients
      BY <2>6, Constants DEF DisposeLost, LedgerTypes, DeliveryStates
    <3>. QED BY <2>2, <3>1 DEF Open
  <2>7. CASE FinishClaim
    <3>1. claim.p \in Proposals /\ claim.r \in Recipients
      BY <2>7 DEF FinishClaim, LedgerTypes
    <3>2. \/ deliv' = deliv \/ deliv' = HeldDeliveries(claim.p)
          \/ /\ deliv[claim.p][claim.r] = "WAITING_PUBLICATION"
             /\ deliv' = [deliv EXCEPT ![claim.p][claim.r] = "CLAIMED"]
      BY <2>7 DEF FinishClaim
    <3>. QED BY <2>1, <2>2, <2>3, <3>1, <3>2 DEF DeliveryStates
  <2>8. ASSUME NEW p \in Proposals, NEW r \in Recipients, AcknowledgeDecision(p, r) PROVE Onward
    BY <2>2, <2>8 DEF AcknowledgeDecision, DeliveryStates
  <2>. HIDE DEF Onward
  <2>9. CASE LedgerNext
    BY <2>1, <2>3, <2>4, <2>9
    DEF LedgerNext, SubmitProposal, MakeCurrent, JoinProposal, CreateReviewBatch,
        PublishDecision, RevokeDecision, ActivateContract, Submittable, Offered
  <2>10. CASE DeliveryNext
    BY <2>1, <2>5, <2>6, <2>7, <2>8, <2>10, Constants
    DEF DeliveryNext, EnqueueNotice, Dispose, ClearHosted, StartClaim, ClaimerDies
  <2>. QED BY <2>1, <2>9, <2>10 DEF ApprovalNext, EditIssue, Comment, Edit, Sync
<1>. QED BY <1>1, ApprovalInvStands, PTL DEF ApprovalSpec, DeliveryIsMonotonic
=============================================================================
