-------------------------- MODULE PortfolioProofs --------------------------
(***************************************************************************)
(* Proofs about Portfolio for every set of issues, consumers, packets,     *)
(* relations and scenarios, every capacity and every value of the bounds.  *)
(***************************************************************************)
EXTENDS Portfolio, TLAPS, FiniteSetTheorems, SequenceTheorems, WellFoundedInduction

(***************************************************************************)
(* Induction over the naturals, as a fact about a set of them, and the two *)
(* recursive functions of the model.                                       *)
(***************************************************************************)
LEMMA Least ==
    ASSUME NEW T \in SUBSET Nat, T # {}
    PROVE  \E n \in T : \A m \in T : ~(m < n)
<1>. DEFINE R == {ss \in Nat \X Nat : ss[1] < ss[2]}
<1>1. IsWellFoundedOn(R, Nat)
  BY NatLessThanWellFounded DEF OpToRel
<1>2. \E n \in T : \A m \in T : <<m, n>> \notin R
  <2>. HIDE DEF R
  <2>. QED BY <1>1, WFMin
<1>. QED BY <1>2

LEMMA Induct ==
    ASSUME NEW T \in SUBSET Nat, 0 \in T, \A n \in T : n + 1 \in T
    PROVE  T = Nat
<1>. SUFFICES ASSUME Nat \ T # {} PROVE FALSE
  OBVIOUS
<1>1. PICK n \in Nat \ T : \A m \in Nat \ T : ~(m < n)
  BY Least, Zenon
<1>2. n # 0 /\ n - 1 \in Nat /\ n - 1 < n
  BY <1>1
<1>3. n - 1 \in T
  BY <1>1, <1>2
<1>. QED BY <1>1, <1>2, <1>3

LEMMA MinIsLeast ==
    ASSUME NEW S \in SUBSET Nat, S # {}
    PROVE  Min(S) \in S
<1>1. PICK n \in S : \A m \in S : ~(m < n)
  BY Least
<1>2. \A m \in S : n <= m
  BY <1>1
<1>. QED BY <1>2 DEF Min

LEMMA MaxIsGreatest ==
    ASSUME NEW S \in SUBSET Nat, S # {}, IsFiniteSet(S)
    PROVE  Max(S) \in S /\ \A m \in S : m <= Max(S)
<1>. DEFINE T == {n \in Nat : \A X \in SUBSET S : X # {} /\ Cardinality(X) = n =>
                                 \E x \in X : \A y \in X : x >= y}
<1>1. 0 \in T
  BY FS_EmptySet, FS_Subset
<1>2. ASSUME NEW n \in T PROVE n + 1 \in T
  <2>. SUFFICES ASSUME NEW X \in SUBSET S, X # {}, Cardinality(X) = n + 1
                PROVE  \E x \in X : \A y \in X : x >= y
    OBVIOUS
  <2>1. PICK a \in X : TRUE
    OBVIOUS
  <2>2. IsFiniteSet(X) /\ Cardinality(X \ {a}) = n
    <3>1. IsFiniteSet(X) /\ n \in Nat
      BY FS_Subset
    <3>2. Cardinality(X \ {a}) = Cardinality(X) - 1
      BY <3>1, <2>1, FS_RemoveElement, Zenon
    <3>. QED BY <3>1, <3>2
  <2>3. CASE X \ {a} = {}
    BY <2>1, <2>3
  <2>4. CASE X \ {a} # {}
    <3>1. X \ {a} \in SUBSET S
      OBVIOUS
    <3>2. PICK x \in X \ {a} : \A y \in X \ {a} : x >= y
      BY <2>2, <2>4, <3>1
    <3>. QED BY <3>2, <2>1
  <2>. QED BY <2>3, <2>4
<1>3. T = Nat
  <2>. HIDE DEF T
  <2>1. T \in SUBSET Nat
    BY DEF T
  <2>. QED BY <1>1, <1>2, <2>1, Induct
<1>4. \E x \in S : \A y \in S : x >= y
  BY <1>3, FS_CardinalityType
<1>. QED BY <1>4 DEF Max

-----------------------------------------------------------------------------
\* The recursion of Acyclic has a solution for every relation.
LEMMA RestEquation ==
    ASSUME NEW b
    PROVE  LET Rest[k \in 0..Cardinality(Issues)] ==
                   IF k = 0 THEN Issues
                   ELSE {i \in Rest[k - 1] : \E j \in Rest[k - 1] : <<j, i>> \in b}
           IN  \A k \in 0..Cardinality(Issues) :
                  Rest[k] = IF k = 0 THEN Issues
                            ELSE {i \in Rest[k - 1] : \E j \in Rest[k - 1] : <<j, i>> \in b}
<1>. DEFINE Step(S) == {i \in S : \E j \in S : <<j, i>> \in b}
            Solves(f, n) == f = [k \in 0..n |-> IF k = 0 THEN Issues ELSE Step(f[k - 1])]
            T == {n \in Nat : \E f : Solves(f, n)}
<1>1. 0 \in T
  <2>. DEFINE f == [k \in 0..0 |-> Issues]
  <2>1. Solves(f, 0)
    OBVIOUS
  <2>. QED BY <2>1
<1>2. ASSUME NEW n \in T PROVE n + 1 \in T
  <2>1. PICK f : Solves(f, n)
    OBVIOUS
  <2>. DEFINE g == [k \in 0..n + 1 |-> IF k = n + 1 THEN Step(f[n]) ELSE f[k]]
  <2>. HIDE DEF Step
  <2>2. \A k \in 0..n : f[k] = IF k = 0 THEN Issues ELSE Step(f[k - 1])
    BY <2>1
  <2>3. \A k \in 0..n + 1 : g[k] = IF k = 0 THEN Issues ELSE Step(g[k - 1])
    BY <2>2
  <2>4. g = [k \in 0..n + 1 |-> IF k = 0 THEN Issues ELSE Step(g[k - 1])]
    BY <2>3
  <2>5. \E h : Solves(h, n + 1)
    <3>. HIDE DEF g
    <3>. QED BY <2>4
  <2>. QED BY <2>5
<1>3. Cardinality(Issues) \in T
  <2>. HIDE DEF T
  <2>1. T \in SUBSET Nat
    BY DEF T
  <2>. QED BY <1>1, <1>2, <2>1, Induct, FS_CardinalityType, PortfolioAssumption
<1>4. PICK f : Solves(f, Cardinality(Issues))
  BY <1>3
<1>. QED BY <1>4

\* What Acyclic decides: no set of issues is blocked from within itself.
THEOREM AcyclicIsWellFounded ==
    ASSUME NEW b, Acyclic(b), NEW U \in SUBSET Issues, U # {}
    PROVE  \E i \in U : \A j \in U : <<j, i>> \notin b
<1>. SUFFICES ASSUME \A i \in U : \E j \in U : <<j, i>> \in b PROVE FALSE
  OBVIOUS
<1>. DEFINE N == Cardinality(Issues)
            Step(S) == {i \in S : \E j \in S : <<j, i>> \in b}
            Rest[k \in 0..N] == IF k = 0 THEN Issues ELSE Step(Rest[k - 1])
            T == {n \in Nat : n <= N => U \subseteq Rest[n]}
<1>1. \A k \in 0..N : Rest[k] = IF k = 0 THEN Issues ELSE Step(Rest[k - 1])
  BY RestEquation
<1>2. N \in Nat
  BY PortfolioAssumption, FS_CardinalityType
<1>3. Rest[N] = {}
  BY DEF Acyclic
<1>. HIDE DEF Rest, N, Step
<1>4. 0 \in T
  BY <1>1, <1>2
<1>5. ASSUME NEW n \in T PROVE n + 1 \in T
  <2>. SUFFICES ASSUME n + 1 <= N PROVE U \subseteq Rest[n + 1]
    OBVIOUS
  <2>1. U \subseteq Rest[n] /\ Rest[n + 1] = Step(Rest[n])
    BY <1>1, <1>2
  <2>. QED BY <2>1 DEF Step
<1>6. N \in T
  <2>1. T \in SUBSET Nat
    OBVIOUS
  <2>. HIDE DEF T
  <2>. QED BY <1>2, <1>4, <1>5, <2>1, Induct
<1>. QED BY <1>3, <1>6, <1>2

\* Without the schedule's recursion: what each step of it adds.
Admissible(k, E, S) == k \in E /\ ~Collision(k, S) /\ Cardinality(S) < Free

LEMMA SelectedEquation ==
    ASSUME NEW E, Max(Issues) \in Nat
    PROVE  \E S : /\ Selected(E) = S[Max(Issues)]
                  /\ S[0] = {}
                  /\ \A k \in 1..Max(Issues) :
                        S[k] = IF Admissible(k, E, S[k - 1]) THEN S[k - 1] \cup {k} ELSE S[k - 1]
<1>. DEFINE N == Max(Issues)
            Step(k, X) == IF k \in E /\ ~Collision(k, X) /\ Cardinality(X) < Free
                          THEN X \cup {k} ELSE X
            Solves(f, n) == f = [k \in 0..n |-> IF k = 0 THEN {} ELSE Step(k, f[k - 1])]
            T == {n \in Nat : \E f : Solves(f, n)}
<1>1. 0 \in T
  <2>. DEFINE f == [k \in 0..0 |-> {}]
  <2>1. Solves(f, 0)
    OBVIOUS
  <2>. QED BY <2>1
<1>2. ASSUME NEW n \in T PROVE n + 1 \in T
  <2>1. PICK f : Solves(f, n)
    OBVIOUS
  <2>. DEFINE g == [k \in 0..n + 1 |-> IF k = n + 1 THEN Step(n + 1, f[n]) ELSE f[k]]
  <2>. HIDE DEF Step
  <2>2. \A k \in 0..n : f[k] = IF k = 0 THEN {} ELSE Step(k, f[k - 1])
    BY <2>1
  <2>20. n \in Nat /\ \A k \in 0..n : g[k] = f[k]
    OBVIOUS
  <2>21. g[n + 1] = Step(n + 1, g[n])
    BY <2>20
  <2>22. \A k \in 0..n : g[k] = IF k = 0 THEN {} ELSE Step(k, g[k - 1])
    BY <2>2, <2>20
  <2>3. \A k \in 0..n + 1 : g[k] = IF k = 0 THEN {} ELSE Step(k, g[k - 1])
    <3>. HIDE DEF g
    <3>. QED BY <2>20, <2>21, <2>22
  <2>4. g = [k \in 0..n + 1 |-> IF k = 0 THEN {} ELSE Step(k, g[k - 1])]
    BY <2>3
  <2>5. \E h : Solves(h, n + 1)
    <3>. HIDE DEF g
    <3>. QED BY <2>4
  <2>. QED BY <2>5
<1>3. N \in T
  <2>. HIDE DEF T
  <2>1. T \in SUBSET Nat
    BY DEF T
  <2>. QED BY <1>1, <1>2, <2>1, Induct
<1>. DEFINE S[k \in 0..N] == IF k = 0 THEN {} ELSE Step(k, S[k - 1])
<1>4. S = [k \in 0..N |-> IF k = 0 THEN {} ELSE Step(k, S[k - 1])]
  BY <1>3
<1>5. Selected(E) = S[N]
  BY DEF Selected
<1>50. \A k \in 0..N : S[k] = IF k = 0 THEN {} ELSE Step(k, S[k - 1])
  <2>. HIDE DEF S, Step
  <2>. QED BY <1>4
<1>. HIDE DEF S, Step
<1>6. S[0] = {} /\ \A k \in 1..N : S[k] = Step(k, S[k - 1])
  BY <1>50
<1>. QED BY <1>5, <1>6 DEF Admissible, Step

\* The schedule, without its recursion: an issue is selected exactly when it is offered,
\* collides neither with work nor with an earlier selected issue, and the earlier ones
\* leave a unit.
THEOREM SelectedByPriority ==
    ASSUME NEW E \in SUBSET Issues, Issues # {}
    PROVE  /\ Selected(E) \subseteq E
           /\ \A i \in Issues :
                 i \in Selected(E) <=> Admissible(i, E, {j \in Selected(E) : j < i})
<1>. DEFINE N == Max(Issues)
<1>1. N \in Nat /\ \A i \in Issues : i \in 1..N
  <2>1. Issues \in SUBSET Nat /\ IsFiniteSet(Issues) /\ \A i \in Issues : i \in Nat \ {0}
    BY PortfolioAssumption
  <2>2. N \in Issues /\ \A m \in Issues : m <= N
    BY <2>1, MaxIsGreatest
  <2>. HIDE DEF N
  <2>. QED BY <2>1, <2>2
<1>2. PICK S : /\ Selected(E) = S[N]
               /\ S[0] = {}
               /\ \A k \in 1..N :
                     S[k] = IF Admissible(k, E, S[k - 1]) THEN S[k - 1] \cup {k} ELSE S[k - 1]
  BY <1>1, SelectedEquation
<1>. HIDE DEF N
<1>. DEFINE Prefix(n) == /\ S[n] \subseteq E /\ S[n] \subseteq 1..n
                         /\ \A k \in 1..n : k \in S[n] <=> Admissible(k, E, S[k - 1])
                         /\ \A k \in 1..n : S[k - 1] = {j \in S[n] : j < k}
            T == {n \in Nat : n <= N => Prefix(n)}
<1>3. 0 \in T
  BY <1>2
<1>4. ASSUME NEW n \in T PROVE n + 1 \in T
  <2>. SUFFICES ASSUME n + 1 <= N PROVE Prefix(n + 1)
    OBVIOUS
  <2>1. n \in Nat /\ n + 1 \in 1..N /\ Prefix(n)
    BY <1>1
  <2>2. S[n + 1] = IF Admissible(n + 1, E, S[n]) THEN S[n] \cup {n + 1} ELSE S[n]
    BY <1>2, <2>1
  <2>30. S[n + 1] \subseteq E
    BY <2>1, <2>2 DEF Admissible
  <2>3. S[n + 1] \subseteq 1..n + 1 /\ \A k \in 1..n : k \in S[n + 1] <=> k \in S[n]
    BY <2>1, <2>2
  <2>4. n + 1 \in S[n + 1] <=> Admissible(n + 1, E, S[n])
    BY <2>1, <2>2
  <2>5. S[n] = {j \in S[n + 1] : j < n + 1}
    BY <2>1, <2>2
  <2>6. \A k \in 1..n : S[k - 1] = {j \in S[n + 1] : j < k}
    <3>. SUFFICES ASSUME NEW k \in 1..n PROVE S[k - 1] = {j \in S[n + 1] : j < k}
      OBVIOUS
    <3>1. S[k - 1] = {j \in S[n] : j < k}
      BY <2>1
    <3>2. \A j : j \in S[n] <=> j \in S[n + 1] /\ j < n + 1
      BY <2>5
    <3>3. \A j \in S[n + 1] : j < k => j < n + 1
      BY <2>1, <2>3
    <3>. QED BY <3>1, <3>2, <3>3
  <2>7. \A k \in 1..n + 1 : k \in 1..n \/ k = n + 1
    BY <2>1
  <2>8. (n + 1) - 1 = n
    BY <2>1
  <2>9. \A k \in 1..n + 1 : k \in S[n + 1] <=> Admissible(k, E, S[k - 1])
    BY <2>1, <2>3, <2>4, <2>7, <2>8
  <2>10. \A k \in 1..n + 1 : S[k - 1] = {j \in S[n + 1] : j < k}
    BY <2>5, <2>6, <2>7, <2>8
  <2>. QED BY <2>3, <2>30, <2>9, <2>10
<1>5. N \in T
  <2>1. T \in SUBSET Nat
    OBVIOUS
  <2>. HIDE DEF T
  <2>. QED BY <1>1, <1>3, <1>4, <2>1, Induct
<1>6. \A i \in Issues : /\ i \in S[N] <=> Admissible(i, E, S[i - 1])
                        /\ S[i - 1] = {j \in S[N] : j < i}
  BY <1>1, <1>5
<1>7. S[N] \subseteq E
  BY <1>1, <1>5
<1>8. Selected(E) = S[N]
  BY <1>2
<1>9. \A i \in Issues : i \in S[N] <=> Admissible(i, E, {j \in S[N] : j < i})
  BY <1>6
<1>. QED BY <1>7, <1>8, <1>9, Zenon

\* What the scheduler selects fits next to the work there is: neither collides with
\* anything, and together they stay within the policy.
THEOREM ScheduleFits ==
    ASSUME NEW E \in SUBSET Issues, Issues # {}, Free \in Int
    PROVE  /\ Selected(E) \subseteq E
           /\ Selected(E) = {} \/ Cardinality(Selected(E)) <= Free
           /\ \A i \in Selected(E) : \A j \in Working \cup Selected(E) : j # i => {i, j} \notin Collides
<1>. DEFINE Sel == Selected(E)
            Before(i) == {j \in Sel : j < i}
<1>1. Sel \subseteq E /\ \A i \in Issues : i \in Sel <=> Admissible(i, E, Before(i))
  BY SelectedByPriority
<1>. HIDE DEF Sel
<1>2. IsFiniteSet(Sel) /\ Sel \in SUBSET Nat
  BY <1>1, FS_Subset, PortfolioAssumption
<1>3. Sel = {} \/ Cardinality(Sel) <= Free
  <2>. SUFFICES ASSUME Sel # {} PROVE Cardinality(Sel) <= Free
    OBVIOUS
  <2>1. PICK i \in Sel : \A j \in Sel : j <= i
    BY <1>2, MaxIsGreatest
  <2>2. Before(i) = Sel \ {i}
    <3>1. i \in Nat /\ \A j \in Sel : j \in Nat
      BY <1>2
    <3>2. \A j \in Sel : j < i <=> j # i
      BY <2>1, <3>1
    <3>. QED BY <3>2
  <2>20. Admissible(i, E, Before(i))
    BY <1>1
  <2>3. Cardinality(Sel \ {i}) < Free
    <3>. HIDE DEF Before
    <3>. QED BY <2>2, <2>20 DEF Admissible
  <2>4. Cardinality(Sel) \in Nat /\ Cardinality(Sel \ {i}) = Cardinality(Sel) - 1
    BY <1>2, FS_RemoveElement, FS_CardinalityType, Zenon
  <2>. QED BY <2>3, <2>4
<1>4. ASSUME NEW i \in Sel, NEW j \in Working \cup Sel, j # i PROVE {i, j} \notin Collides
  <2>1. CASE j \in Working \/ j < i
    BY <1>1, <1>4, <2>1 DEF Admissible, Collision
  <2>2. CASE j \in Sel /\ i < j
    <3>1. {j, i} \notin Collides
      BY <1>1, <2>2 DEF Admissible, Collision
    <3>2. {j, i} = {i, j}
      OBVIOUS
    <3>. QED BY <3>1, <3>2
  <2>3. j \in Sel => i \in Nat /\ j \in Nat
    BY <1>2
  <2>4. j \in Sel => j < i \/ i < j
    BY <2>3, <1>4
  <2>. QED BY <2>1, <2>2, <2>4
<1>. QED BY <1>1, <1>3, <1>4 DEF Sel

-----------------------------------------------------------------------------
Statuses == {"PREPARED", "READY", "ACTIVE", "DONE", "HOLD"}
Items == [st : Statuses, gen : Nat, ver : Nat, src : Nat]
Cands == [gen : Nat, ver : Nat, src : Nat, main : Int, gv : Nat, ready : BOOLEAN,
          p : Packets \cup {0}]
Camps == [st : {"NONE", "ELIGIBLE", "FINALIZED", "STALE", "HOLD"}, cand : Cands]
Events == [kind : {"MAIN", "PROMOTED", "RELEASE", "REFILL"}, of : Int, gen : Int, prev : Int,
           st : {"PENDING", "RETRY", "HOLD", "COMPLETE"}, att : Nat, adm : Nat \X Nat]
Graphs == [v : Nat, acc : Int, obs : Int, err : {"none", "MAIN", "SOURCE"},
           blocks : BlockSets, nsrc : [Issues -> Nat]]
Readers == [pc : {"idle", "loaded", "failed"}, ev : Nat, att : Nat, main : Int,
            seen : SUBSET (Issues \X Cands), term : BOOLEAN]

Types ==
    /\ main \in Int /\ src \in [Issues -> Nat] /\ graph \in Graphs
    /\ item \in [Issues -> Items] /\ ptr \in [Issues -> Cands]
    /\ retired \subseteq Issues \X Cands /\ camp \in [Issues -> Camps]
    /\ events \in Seq(Events) /\ con \in [Consumers -> Readers]
    /\ hosted \in 0..1 /\ changes \in 0..MaxChanges

\* A consumer that holds an event holds one that exists.
ReaderInv ==
    \A c \in Consumers : /\ con[c].ev \in DOMAIN events \cup {0}
                         /\ con[c].pc = "failed" => con[c].ev # 0

\* An error of main alone leaves the sources in step.
GraphInv ==
    /\ GraphHonest /\ (graph.err = "MAIN" => graph.nsrc = src)
    /\ \E b \in BlockSets : graph.blocks = b /\ ValidPlan(b)

\* A candidate names a graph there was, and a READY one of the generation at hand is
\* the work of a finalization that took place.
CandOld(i, c) ==
    /\ c.gv <= graph.v
    /\ c.ready => c.gen <= item[i].gen /\ (item[i].st = "PREPARED" => c.gen < item[i].gen)

CandInv ==
    /\ \A i \in Issues : CandOld(i, ptr[i])
    /\ \A r \in retired : CandOld(r[1], r[2])

\* A READY candidate was promoted at its generation, and a READY item has a campaign.
Promotes(e, i, g) == e.kind = "PROMOTED" /\ e.of = i /\ e.gen = g
PromotionInv ==
    \A i \in Issues :
        /\ ptr[i].ready => \E k \in DOMAIN events : Promotes(events[k], i, ptr[i].gen)
        /\ item[i].st = "READY" => camp[i].st # "NONE"

\* Running work has left the buffer, so that no campaign takes the place of its own.
WorkInv == \A i \in Issues : item[i].st = "ACTIVE" => ptr[i] = NoCand

\* Only a promotion that was returned to discovery takes a generation past MaxGen.
Returned(i) ==
    {k \in DOMAIN events : events[k].kind = "PROMOTED" /\ events[k].of = i
                           /\ events[k].gen < item[i].gen}
GenInv ==
    \A i \in Issues : item[i].gen >= 1 /\ item[i].gen <= MaxGen + Cardinality(Returned(i))

\* What an event admitted is not before its admission again.
AdmitsAt(k, i, g) == events[k].st = "COMPLETE" /\ events[k].adm = <<i, g>>
AdmissionInv ==
    \A k \in DOMAIN events : \A i \in Issues : \A g \in Nat : AdmitsAt(k, i, g) =>
        /\ g <= item[i].gen
        /\ g = item[i].gen => item[i].st \notin {"PREPARED", "READY"}

\* An attempt is still to be counted for every failed consumer; only an event that is
\* closed may run past MaxAttempts by them.
FailedOn(k) == {c \in Consumers : con[c].pc = "failed" /\ con[c].ev = k}
AttemptAt(k) ==
    IF events[k].st \in {"PENDING", "RETRY"} THEN events[k].att < MaxAttempts
    ELSE events[k].att + Cardinality(FailedOn(k)) <= MaxAttempts + Cardinality(Consumers) - 1
AttemptInv == \A k \in DOMAIN events : AttemptAt(k)

PortfolioInv ==
    /\ Types /\ Len(events) <= MaxEvents /\ ReaderInv /\ GraphInv
    /\ CandInv /\ RetiredIsGone /\ PromotionInv /\ GenInv
    /\ WorkFits /\ WorkInv /\ AdmissionInv /\ AdmittedOnce /\ AttemptInv

LEMMA ConstantFacts ==
    /\ Issues \in SUBSET Nat /\ IsFiniteSet(Issues) /\ 0 \notin Issues
    /\ IsFiniteSet(Consumers) /\ Cardinality(Consumers) \in Nat
    /\ Capacity \in Nat /\ MaxAttempts \in Nat /\ MaxAttempts >= 1
    /\ MaxChanges \in Nat /\ MaxGen \in Nat /\ MaxGen >= 1 /\ MaxEvents \in Nat
BY PortfolioAssumption, FS_CardinalityType

LEMMA NoCandIsCand == NoCand \in Cands
BY DEF NoCand, Cands

LEMMA InitInv == Init => PortfolioInv
<1>. SUFFICES ASSUME Init PROVE PortfolioInv
  OBVIOUS
<1>. USE ConstantFacts
<1>1. PICK x \in Scenarios :
        /\ graph = [v |-> 1, acc |-> 0, obs |-> 0, err |-> "none", blocks |-> x.blocks,
                    nsrc |-> [i \in Issues |-> 0]]
        /\ item = [i \in Issues |->
                      [st |-> IF i \in x.done THEN "DONE" ELSE IF i \in x.held THEN "HOLD" ELSE "PREPARED",
                       gen |-> IF i \in x.last THEN MaxGen ELSE 1, ver |-> 0, src |-> 0]]
        /\ changes = x.changes
  BY DEF Init
<1>2. x.blocks \in BlockSets /\ x.changes \in 0..MaxChanges /\ ValidPlan(x.blocks)
  BY PortfolioAssumption, ScenarioAssumption
<1>3. /\ main = 0 /\ src = [i \in Issues |-> 0] /\ ptr = [i \in Issues |-> NoCand] /\ retired = {}
      /\ camp = [i \in Issues |-> [st |-> "NONE", cand |-> NoCand]]
      /\ events = << >> /\ con = [c \in Consumers |-> Idle] /\ hosted = 0
  BY DEF Init
<1>4. Types
  <2>1. graph \in Graphs
    BY <1>1, <1>2 DEF Graphs
  <2>2. item \in [Issues -> Items]
    BY <1>1 DEF Items, Statuses
  <2>3. ptr \in [Issues -> Cands] /\ camp \in [Issues -> Camps]
    BY <1>3, NoCandIsCand DEF Camps
  <2>4. con \in [Consumers -> Readers]
    BY <1>3 DEF Idle, Readers
  <2>. QED BY <1>1, <1>2, <1>3, <2>1, <2>2, <2>3, <2>4 DEF Types
<1>5. events = << >> /\ Len(events) = 0 /\ DOMAIN events = {}
  BY <1>3
<1>6. ReaderInv /\ CandInv /\ RetiredIsGone /\ AdmissionInv /\ AttemptInv
  BY <1>1, <1>3, <1>5 DEF ReaderInv, Idle, CandInv, CandOld, NoCand, RetiredIsGone, AdmissionInv, AttemptInv
<1>7. GraphInv
  BY <1>1, <1>2, <1>3 DEF GraphInv, GraphHonest, GraphCurrent
<1>8. \A i \in Issues : item[i].st \notin {"READY", "ACTIVE"} /\ item[i].gen \in 1..MaxGen
  BY <1>1
<1>9. PromotionInv /\ WorkInv /\ AdmittedOnce
  BY <1>3, <1>8 DEF PromotionInv, WorkInv, AdmittedOnce, NoCand
<1>10. GenInv
  <2>1. \A i \in Issues : Returned(i) = {}
    BY <1>5 DEF Returned
  <2>2. \A i \in Issues : Cardinality(Returned(i)) = 0
    BY <2>1, FS_EmptySet
  <2>. SUFFICES ASSUME NEW i \in Issues
                PROVE  item[i].gen >= 1 /\ item[i].gen <= MaxGen + Cardinality(Returned(i))
    BY DEF GenInv
  <2>3. Cardinality(Returned(i)) = 0 /\ item[i].gen \in 1..MaxGen
    BY <1>8, <2>2
  <2>. QED BY <2>3
<1>11. WorkFits
  <2>1. Working = {}
    BY <1>8 DEF Working
  <2>. QED BY <1>3, <2>1, FS_EmptySet DEF WorkFits
<1>. QED BY <1>4, <1>5, <1>6, <1>7, <1>9, <1>10, <1>11 DEF PortfolioInv

-----------------------------------------------------------------------------
(* The graph.                                                               *)

LEMMA NewGraphIsValid ==
    ASSUME Types, NEW b \in BlockSets, ValidPlan(b), graph' = NewGraph(main, b), src' = src
    PROVE  graph' \in Graphs /\ graph.v <= graph'.v /\ GraphInv'
<1>1. graph' = [v |-> graph.v + 1, acc |-> main, obs |-> main, err |-> "none", blocks |-> b, nsrc |-> src]
  BY DEF NewGraph
<1>2. graph' \in Graphs /\ graph.v <= graph'.v
  BY <1>1 DEF Types, Graphs
<1>3. GraphInv'
  BY <1>1 DEF GraphInv, GraphHonest, GraphCurrent
<1>. QED BY <1>2, <1>3

\* An ordinary call on an issue, whatever it asks for.
Replans(i) == \E s \in DOMAIN Rank : \E g \in item[i].gen..MaxGen : Replan(i, s, g)

\* Who moves the graph or a source.
LEMMA GraphMovers ==
    ASSUME PortfolioNext
    PROVE  \/ SyncHead \/ \E b \in BlockSets : ReplaceGraph(b)
           \/ \E i \in Issues : EditIssue(i)
           \/ \E i \in Issues, b \in BlockSets, p \in Packets : PrepareZeroWip(i, b, p)
           \/ UNCHANGED <<graph, src>>
<1>1. ASSUME NEW c \in Consumers, ConsumerNext(c) PROVE UNCHANGED <<graph, src>>
  BY <1>1, Zenon DEF ConsumerNext, BeginEvent, BeginAudit, ReadFails, Die, CommitAudit, Fenced,
     ReleaseOver, ReleaseWaits, CursorDrifted, NothingChosen, Admit, AdmissionUndone, RecordRetry
<1>2. ASSUME NEW i \in Issues,
             \/ Replans(i) \/ Examine(i) \/ ExaminationStale(i) \/ StopRevoked(i)
             \/ Deliver(i) \/ RecoverUnclaimed(i)
      PROVE  UNCHANGED <<graph, src>>
  BY <1>2 DEF Replans, Replan, Examine, ExaminationStale, StopRevoked, Deliver, RecoverUnclaimed
<1>3. ASSUME NEW i \in Issues, NEW p \in Packets, RegisterCandidate(i, p) \/ FinalizeReady(i, p)
      PROVE  UNCHANGED <<graph, src>>
  BY <1>3, Zenon DEF RegisterCandidate, FinalizeReady
<1>4. ASSUME \/ AskQuarantine \/ Quarantine \/ ReserveHosted \/ ReleaseHosted
             \/ \E m \in 0..1 : MoveMain(m)
      PROVE  UNCHANGED <<graph, src>>
  BY <1>4 DEF AskQuarantine, Quarantine, ReserveHosted, ReleaseHosted, MoveMain
<1>. QED BY <1>1, <1>2, <1>3, <1>4 DEF PortfolioNext, PlannerNext, WorldNext, Replans

LEMMA GraphMoves ==
    ASSUME Types, GraphInv, PortfolioNext
    PROVE  graph' \in Graphs /\ src' \in [Issues -> Nat] /\ graph.v <= graph'.v /\ GraphInv'
<1>0. graph \in Graphs /\ graph.v \in Nat /\ src \in [Issues -> Nat] /\ changes \in Nat
  BY ConstantFacts DEF Types, Graphs
<1>1. CASE SyncHead
  <2>1. graph' = [graph EXCEPT !.obs = main, !.err = HeadError(main)] /\ src' = src
    BY <1>1 DEF SyncHead
  <2>2. HeadError(main) \in {"none", "MAIN", "SOURCE"}
    BY <1>0 DEF HeadError, Graphs
  <2>3. graph' \in Graphs /\ graph'.v = graph.v /\ graph'.blocks = graph.blocks
        /\ graph'.nsrc = graph.nsrc /\ graph'.acc = graph.acc
        /\ graph'.obs = main /\ graph'.err = HeadError(main)
    BY <1>0, <2>1, <2>2 DEF Types, Graphs
  <2>4. HeadError(main) \in {"none", "MAIN"} => graph.err \in {"none", "MAIN"}
    BY DEF HeadError
  <2>5. HeadError(main) = "none" => main = graph.acc
    BY DEF HeadError
  <2>6. graph.err \in {"none", "MAIN"} => graph.nsrc = src
    BY DEF GraphInv, GraphHonest, GraphCurrent
  <2>7. GraphInv'
    BY <2>1, <2>3, <2>4, <2>5, <2>6 DEF GraphInv, GraphHonest, GraphCurrent
  <2>. QED BY <1>0, <2>1, <2>3, <2>7
<1>2. ASSUME NEW b \in BlockSets, ReplaceGraph(b) PROVE
        graph' \in Graphs /\ src' \in [Issues -> Nat] /\ graph.v <= graph'.v /\ GraphInv'
  BY <1>0, <1>2, NewGraphIsValid DEF ReplaceGraph
<1>3. ASSUME NEW i \in Issues, EditIssue(i) PROVE
        graph' \in Graphs /\ src' \in [Issues -> Nat] /\ graph.v <= graph'.v /\ GraphInv'
  <2>1. graph' = [graph EXCEPT !.err = "SOURCE"] /\ src' = [src EXCEPT ![i] = changes + 1]
    BY <1>3 DEF EditIssue
  <2>2. graph' \in Graphs /\ graph'.v = graph.v /\ graph'.blocks = graph.blocks /\ graph'.err = "SOURCE"
    BY <1>0, <2>1 DEF Graphs
  <2>3. src' \in [Issues -> Nat]
    BY <1>0, <2>1
  <2>. QED BY <1>0, <2>2, <2>3 DEF GraphInv, GraphHonest, GraphCurrent
<1>4. ASSUME NEW i \in Issues, NEW b \in BlockSets, NEW p \in Packets, PrepareZeroWip(i, b, p) PROVE
        graph' \in Graphs /\ src' \in [Issues -> Nat] /\ graph.v <= graph'.v /\ GraphInv'
  BY <1>0, <1>4, NewGraphIsValid DEF PrepareZeroWip, ZeroWipPlan
<1>5. CASE UNCHANGED <<graph, src>>
  BY <1>0, <1>5 DEF GraphInv, GraphHonest, GraphCurrent
<1>. QED BY <1>1, <1>2, <1>3, <1>4, <1>5, GraphMovers

-----------------------------------------------------------------------------
(* The items.                                                               *)

\* How one issue's item may move.
Reopens(i) ==
    /\ item'[i].st = "PREPARED" /\ item'[i].gen = item[i].gen + 1
    /\ \/ item[i].gen < MaxGen
       \/ item[i].st = "READY" /\ ptr[i].ready /\ ptr[i].gen = item[i].gen
StepsOn(i, s, t) == item[i].st = s /\ item'[i] = [item[i] EXCEPT !.st = t]
Rewrites(i) ==
    /\ item'[i].gen = item[i].gen \/ (item[i].gen < item'[i].gen /\ item'[i].gen <= MaxGen)
    /\ item'[i].gen = item[i].gen /\ item'[i].st = "PREPARED" => item[i].st = "PREPARED"
    /\ item'[i].st = "READY" => item[i].st = "READY"
    /\ item'[i].st = "ACTIVE" <=> item[i].st = "ACTIVE"
ItemMove(i) ==
    \/ item'[i] = item[i] \/ Reopens(i) \/ Rewrites(i)
    \/ StepsOn(i, "PREPARED", "READY") \/ StepsOn(i, "READY", "ACTIVE")
    \/ StepsOn(i, "ACTIVE", "DONE") \/ StepsOn(i, "READY", "HOLD")

\* Only a finalization makes an issue READY, and only an admission makes it ACTIVE.
Admitted(i) == \E c \in Consumers : Admit(c) /\ i = Min(Chosen(con[c].seen))
ItemRises(i) ==
    /\ item'[i].st = "READY" /\ item[i].st # "READY" => \E p \in Packets : FinalizeReady(i, p)
    /\ item'[i].st = "ACTIVE" /\ item[i].st # "ACTIVE" => Admitted(i)

LEMMA ItemFields ==
    ASSUME Types, NEW i \in Issues
    PROVE  /\ item[i] \in Items /\ item[i].st \in Statuses /\ item[i].gen \in Nat
           /\ item[i].ver \in Nat /\ item[i].src \in Nat /\ src[i] \in Nat
BY DEF Types, Items

LEMMA OneItem ==
    ASSUME Types, NEW i \in Issues, NEW x \in Items, item' = [item EXCEPT ![i] = x]
    PROVE  /\ item' \in [Issues -> Items] /\ item'[i] = x
           /\ \A j \in Issues : j # i => item'[j] = item[j]
BY DEF Types

LEMMA Replanned ==
    ASSUME Types, NEW i \in Issues, item[i].gen < MaxGen,
           item' = [item EXCEPT ![i] = [st |-> "PREPARED", gen |-> @.gen + 1, ver |-> 0, src |-> src[i]]]
    PROVE  /\ item' \in [Issues -> Items]
           /\ \A j \in Issues : ItemMove(j) /\ ItemRises(j)
<1>. DEFINE x == [st |-> "PREPARED", gen |-> item[i].gen + 1, ver |-> 0, src |-> src[i]]
<1>1. x \in Items
  BY ItemFields DEF Items, Statuses
<1>2. item' = [item EXCEPT ![i] = x]
  BY DEF Types
<1>3. item' \in [Issues -> Items] /\ item'[i] = x /\ \A j \in Issues : j # i => item'[j] = item[j]
  <2>. HIDE DEF x
  <2>. QED BY <1>1, <1>2, OneItem
<1>4. ItemMove(i) /\ ItemRises(i)
  BY <1>3 DEF ItemMove, Reopens, ItemRises
<1>. QED BY <1>3, <1>4 DEF ItemMove, ItemRises

\* An ordinary call keeps READY and running work or takes neither up.
LEMMA Rewritten ==
    ASSUME Types, NEW i \in Issues, NEW s \in DOMAIN Rank, NEW g \in item[i].gen..MaxGen, Replan(i, s, g)
    PROVE  /\ item' \in [Issues -> Items]
           /\ \A j \in Issues : ItemMove(j) /\ ItemRises(j)
           /\ \A j \in Issues : j # i => item'[j] = item[j]
           /\ item'[i].st = s /\ item'[i].gen = g /\ item'[i].src = src[i]
<1>. DEFINE x == [st |-> s, gen |-> g, ver |-> IF g > item[i].gen THEN 0 ELSE item[i].ver + 1,
                  src |-> src[i]]
<1>1. s \in Statuses /\ g \in Nat /\ item[i].gen \in Nat /\ g >= item[i].gen /\ g <= MaxGen
  BY ItemFields, ConstantFacts DEF Rank, Statuses
<1>2. x \in Items
  BY <1>1, ItemFields DEF Items
<1>3. item' = [item EXCEPT ![i] = x]
  BY DEF Replan, Types
<1>4. x.st = s /\ x.gen = g /\ x.src = src[i]
  OBVIOUS
<1>. HIDE DEF x
<1>5. item' \in [Issues -> Items] /\ item'[i] = x /\ \A j \in Issues : j # i => item'[j] = item[j]
  BY <1>2, <1>3, OneItem
<1>6. /\ s = "ACTIVE" <=> item[i].st = "ACTIVE"
      /\ s = "READY" => item[i].st = "READY"
  BY DEF Replan, GatewayOk
<1>7. g = item[i].gen /\ s = "PREPARED" => item[i].st = "PREPARED"
  <2>. SUFFICES ASSUME g = item[i].gen, s = "PREPARED" PROVE item[i].st = "PREPARED"
    OBVIOUS
  <2>1. Rank[s] >= Rank[item[i].st] /\ item[i].st \in Statuses
    BY <1>1, ItemFields DEF Replan, OrderOk
  <2>. QED BY <2>1 DEF Rank, Statuses
<1>8. Rewrites(i)
  BY <1>1, <1>4, <1>5, <1>6, <1>7 DEF Rewrites
<1>9. ItemRises(i)
  BY <1>4, <1>5, <1>6 DEF ItemRises
<1>. QED BY <1>4, <1>5, <1>8, <1>9 DEF ItemMove, ItemRises

LEMMA SteppedOn ==
    ASSUME Types, NEW i \in Issues, NEW t \in Statuses, item' = [item EXCEPT ![i].st = t],
           \/ item[i].st = "PREPARED" /\ t = "READY" /\ \E p \in Packets : FinalizeReady(i, p)
           \/ item[i].st = "ACTIVE" /\ t = "DONE"
    PROVE  /\ item' \in [Issues -> Items]
           /\ \A j \in Issues : ItemMove(j) /\ ItemRises(j)
<1>. DEFINE x == [item[i] EXCEPT !.st = t]
<1>1. x \in Items /\ x.st = t
  BY ItemFields DEF Items
<1>2. item' = [item EXCEPT ![i] = x]
  BY DEF Types
<1>3. item' \in [Issues -> Items] /\ item'[i] = x /\ \A j \in Issues : j # i => item'[j] = item[j]
  <2>. HIDE DEF x
  <2>. QED BY <1>1, <1>2, OneItem
<1>4. ItemMove(i)
  BY <1>3 DEF ItemMove, StepsOn
<1>5. item'[i].st = t
  BY <1>1, <1>3
<1>6. ItemRises(i)
  BY <1>5 DEF ItemRises
<1>. QED BY <1>3, <1>4, <1>6 DEF ItemMove, ItemRises

\* The audit returns to discovery what is READY, and touches no other item.
LEMMA RecoveredIsReady ==
    ASSUME NEW seen, NEW i \in Recovered(seen)
    PROVE  /\ i \in Issues /\ item[i].st = "READY" /\ ptr[i] # NoCand /\ ptr[i].ready
           /\ Attested(i) /\ ItemMatches(i) /\ ptr[i].gen = item[i].gen
BY DEF Recovered, AuditInvalid, ItemMatches

LEMMA AuditedItems ==
    ASSUME Types, NEW seen
    PROVE  /\ AuditedItem(seen) \in [Issues -> Items]
           /\ \A i \in Issues : AuditedItem(seen)[i] =
                 IF i \in Recovered(seen)
                 THEN [st |-> "PREPARED", gen |-> item[i].gen + 1, ver |-> 0, src |-> src[i]] ELSE item[i]
<1>1. \A i \in Issues : AuditedItem(seen)[i] =
        IF i \in Recovered(seen)
        THEN [st |-> "PREPARED", gen |-> item[i].gen + 1, ver |-> 0, src |-> src[i]] ELSE item[i]
  BY DEF AuditedItem
<1>2. ASSUME NEW i \in Issues
      PROVE  item[i] \in Items /\ [st |-> "PREPARED", gen |-> item[i].gen + 1, ver |-> 0, src |-> src[i]] \in Items
  BY ItemFields DEF Items, Statuses
<1>. QED BY <1>1, <1>2 DEF AuditedItem

LEMMA AuditMovesItems ==
    ASSUME Types, NEW seen, item' = AuditedItem(seen)
    PROVE  /\ item' \in [Issues -> Items]
           /\ \A j \in Issues : ItemMove(j) /\ ItemRises(j)
<1>1. ASSUME NEW j \in Issues PROVE ItemMove(j) /\ ItemRises(j)
  <2>1. CASE j \in Recovered(seen)
    <3>1. /\ item[j].st = "READY" /\ ptr[j].ready /\ ptr[j].gen = item[j].gen
          /\ item'[j] = [st |-> "PREPARED", gen |-> item[j].gen + 1, ver |-> 0, src |-> src[j]]
      BY <2>1, RecoveredIsReady, AuditedItems
    <3>. QED BY <3>1 DEF ItemMove, Reopens, ItemRises
  <2>2. CASE j \notin Recovered(seen)
    <3>1. item'[j] = item[j]
      BY <2>2, AuditedItems
    <3>. QED BY <3>1 DEF ItemMove, ItemRises
  <2>. QED BY <2>1, <2>2
<1>. QED BY <1>1, AuditedItems

\* What the consumer chooses is READY, valid and selected, so that a unit is free.
LEMMA ChosenIsValid ==
    ASSUME Types, NEW seen, NEW i \in Chosen(seen)
    PROVE  /\ i \in Issues /\ item[i].st = "READY" /\ item[i].src = src[i]
           /\ ptr[i] # NoCand /\ ptr[i].ready /\ Attested(i) /\ GraphCurrent
           /\ ptr[i].gv = graph.v /\ item[i].gen = ptr[i].gen /\ i \notin AuditInvalid(seen)
           /\ Free \in Int => Free > 0
<1>1. /\ i \in Issues /\ ptr[i] # NoCand /\ ptr[i].ready /\ i \notin AuditInvalid(seen)
      /\ GraphCurrent /\ i \in Selected(Executable \ Recovered(seen))
  BY DEF Chosen
<1>2. ~Invalid(i, seen)
  BY <1>1 DEF AuditInvalid
<1>3. ASSUME Free \in Int PROVE Free > 0
  <2>. DEFINE E == Executable \ Recovered(seen)
              B == {j \in Selected(E) : j < i}
  <2>1. E \in SUBSET Issues /\ Issues # {}
    BY <1>1 DEF Executable
  <2>2. Selected(E) \subseteq E /\ Admissible(i, E, B)
    <3>. HIDE DEF E
    <3>. QED BY <1>1, <2>1, SelectedByPriority DEF E
  <2>3. IsFiniteSet(B)
    <3>1. B \in SUBSET Issues
      BY <2>1, <2>2
    <3>. QED BY <3>1, FS_Subset, ConstantFacts
  <2>4. Cardinality(B) \in Nat /\ Cardinality(B) < Free
    BY <2>2, <2>3, FS_CardinalityType DEF Admissible
  <2>. HIDE DEF B
  <2>. QED BY <2>4, <1>3
<1>. QED BY <1>1, <1>2, <1>3 DEF Invalid, ItemMatches

LEMMA MinChosen ==
    ASSUME Types, NEW seen, Chosen(seen) # {}
    PROVE  Min(Chosen(seen)) \in Chosen(seen)
<1>1. Chosen(seen) \in SUBSET Nat
  BY ConstantFacts DEF Chosen
<1>. QED BY <1>1, MinIsLeast

LEMMA AdmitMovesItems ==
    ASSUME Types, NEW c \in Consumers, Admit(c)
    PROVE  /\ item' \in [Issues -> Items]
           /\ \A j \in Issues : ItemMove(j) /\ ItemRises(j)
           /\ StepsOn(Min(Chosen(con[c].seen)), "READY", "ACTIVE")
           /\ \A j \in Issues : j # Min(Chosen(con[c].seen)) => item'[j] = AuditedItem(con[c].seen)[j]
<1>. DEFINE seen == con[c].seen
            i == Min(Chosen(seen))
            A == AuditedItem(seen)
            x == [A[i] EXCEPT !.st = "ACTIVE"]
<1>1. i \in Chosen(seen) /\ i \in Issues /\ item[i].st = "READY" /\ i \notin AuditInvalid(seen)
  BY MinChosen, ChosenIsValid DEF Admit
<1>2. i \notin Recovered(seen)
  BY <1>1 DEF Recovered
<1>3. A \in [Issues -> Items] /\ A[i] = item[i]
  BY <1>1, <1>2, AuditedItems
<1>4. item' = [A EXCEPT ![i].st = "ACTIVE"]
  BY DEF Admit
<1>. HIDE DEF A, i
<1>5. /\ item' \in [Issues -> Items] /\ item'[i] = x
      /\ \A j \in Issues : j # i => item'[j] = A[j]
  <2>1. x \in Items
    BY <1>1, <1>3 DEF Items, Statuses
  <2>2. item' = [A EXCEPT ![i] = x]
    BY <1>3, <1>4
  <2>. HIDE DEF x
  <2>. QED BY <1>1, <1>3, <2>1, <2>2
<1>6. StepsOn(i, "READY", "ACTIVE")
  BY <1>1, <1>3, <1>5 DEF StepsOn
<1>7. ItemMove(i) /\ ItemRises(i)
  <2>1. Admitted(i)
    BY DEF Admitted, i
  <2>2. item'[i].st = "ACTIVE"
    BY <1>3, <1>5, <1>1 DEF Items
  <2>. QED BY <1>6, <2>1, <2>2 DEF ItemMove, ItemRises
<1>8. ASSUME NEW j \in Issues, j # i PROVE ItemMove(j) /\ ItemRises(j)
  <2>0. item'[j] = A[j]
    BY <1>5, <1>8
  <2>1. CASE j \in Recovered(seen)
    <3>1. /\ item[j].st = "READY" /\ ptr[j].ready /\ ptr[j].gen = item[j].gen
          /\ item'[j] = [st |-> "PREPARED", gen |-> item[j].gen + 1, ver |-> 0, src |-> src[j]]
      BY <2>0, <2>1, RecoveredIsReady, AuditedItems DEF A
    <3>. QED BY <3>1 DEF ItemMove, Reopens, ItemRises
  <2>2. CASE j \notin Recovered(seen)
    <3>1. item'[j] = item[j]
      BY <2>0, <2>2, AuditedItems DEF A
    <3>. QED BY <3>1 DEF ItemMove, ItemRises
  <2>. QED BY <2>1, <2>2
<1>. QED BY <1>5, <1>6, <1>7, <1>8 DEF i, A

\* Who moves an item.
LEMMA ItemMovers ==
    ASSUME PortfolioNext
    PROVE  \/ \E i \in Issues : \/ Replans(i) \/ Deliver(i) \/ RecoverUnclaimed(i)
                                 \/ \E p \in Packets : \/ FinalizeReady(i, p)
                                                        \/ \E b \in BlockSets : PrepareZeroWip(i, b, p)
           \/ Quarantine
           \/ \E c \in Consumers : CommitAudit(c) \/ NothingChosen(c) \/ Admit(c)
           \/ UNCHANGED item
<1>1. ASSUME NEW c \in Consumers, ConsumerNext(c)
      PROVE  CommitAudit(c) \/ NothingChosen(c) \/ Admit(c) \/ UNCHANGED item
  BY <1>1, Zenon DEF ConsumerNext, BeginEvent, BeginAudit, ReadFails, Die, Fenced,
     ReleaseOver, ReleaseWaits, CursorDrifted, AdmissionUndone, RecordRetry
<1>2. ASSUME NEW i \in Issues, Examine(i) \/ ExaminationStale(i) \/ StopRevoked(i) \/ EditIssue(i)
      PROVE  UNCHANGED item
  BY <1>2 DEF Examine, ExaminationStale, StopRevoked, EditIssue
<1>3. ASSUME NEW i \in Issues, NEW p \in Packets, RegisterCandidate(i, p) PROVE UNCHANGED item
  BY <1>3, Zenon DEF RegisterCandidate
<1>4. ASSUME NEW b \in BlockSets, ReplaceGraph(b) PROVE UNCHANGED item
  BY <1>4 DEF ReplaceGraph
<1>5. ASSUME AskQuarantine \/ SyncHead \/ ReserveHosted \/ ReleaseHosted \/ \E m \in 0..1 : MoveMain(m)
      PROVE  UNCHANGED item
  BY <1>5 DEF AskQuarantine, SyncHead, ReserveHosted, ReleaseHosted, MoveMain
<1>. QED BY <1>1, <1>2, <1>3, <1>4, <1>5, Zenon DEF PortfolioNext, PlannerNext, WorldNext, Replans

LEMMA ItemMoves ==
    ASSUME Types, PortfolioNext
    PROVE  /\ item' \in [Issues -> Items]
           /\ \A j \in Issues : ItemMove(j) /\ ItemRises(j)
<1>. DEFINE Goal == item' \in [Issues -> Items] /\ \A j \in Issues : ItemMove(j) /\ ItemRises(j)
<1>1. ASSUME NEW i \in Issues, Replans(i) PROVE Goal
  BY <1>1, Rewritten DEF Replans
<1>2. ASSUME NEW i \in Issues, RecoverUnclaimed(i) PROVE Goal
  BY <1>2, Replanned DEF RecoverUnclaimed, Unclaimed
<1>3. ASSUME NEW i \in Issues, NEW p \in Packets, NEW b \in BlockSets, PrepareZeroWip(i, b, p) PROVE Goal
  BY <1>3, Replanned DEF PrepareZeroWip
<1>4. ASSUME NEW i \in Issues, Deliver(i) PROVE Goal
  BY <1>4, SteppedOn DEF Deliver, Statuses
<1>5. ASSUME NEW i \in Issues, NEW p \in Packets, FinalizeReady(i, p) PROVE Goal
  <2>1. item[i].st = "PREPARED" /\ item' = [item EXCEPT ![i].st = "READY"]
    BY <1>5 DEF FinalizeReady, FinalBound
  <2>. QED BY <1>5, <2>1, SteppedOn DEF Statuses
<1>6. ASSUME Quarantine PROVE Goal
  <2>1. item' = item \/ item' = QuarantinedItem
    BY <1>6 DEF Quarantine
  <2>2. CASE item' = QuarantinedItem
    <3>1. ASSUME NEW j \in Issues PROVE item'[j] \in Items /\ ItemMove(j) /\ ItemRises(j)
      <4>1. item'[j] = IF j \in Unattested THEN [item[j] EXCEPT !.st = "HOLD"] ELSE item[j]
        BY <2>2 DEF QuarantinedItem
      <4>2. j \in Unattested => item[j].st = "READY"
        BY DEF Unattested, ReadyItems
      <4>. QED BY <4>1, <4>2, ItemFields DEF Items, Statuses, ItemMove, StepsOn, ItemRises
    <3>2. item' = [i \in Issues |-> item'[i]]
      BY <2>2 DEF QuarantinedItem
    <3>. QED BY <3>1, <3>2
  <2>. QED BY <2>1, <2>2 DEF Types, ItemMove, ItemRises
<1>7. ASSUME NEW c \in Consumers, CommitAudit(c) \/ NothingChosen(c) PROVE Goal
  BY <1>7, AuditMovesItems DEF CommitAudit, NothingChosen, Audit
<1>8. ASSUME NEW c \in Consumers, Admit(c) PROVE Goal
  BY <1>8, AdmitMovesItems
<1>9. ASSUME UNCHANGED item PROVE Goal
  BY <1>9 DEF Types, ItemMove, ItemRises
<1>. HIDE DEF Goal
<1>10. Goal
  BY <1>1, <1>2, <1>3, <1>4, <1>5, <1>6, <1>7, <1>8, <1>9, ItemMovers, Zenon
<1>. QED BY <1>10 DEF Goal

-----------------------------------------------------------------------------
(* The candidates and their retirement.                                     *)

\* A candidate that was old stays old, whatever moves.
LEMMA StaysOld ==
    ASSUME Types, Types', NEW i \in Issues, ItemMove(i), graph.v <= graph'.v, NEW x \in Cands, CandOld(i, x)
    PROVE  CandOld(i, x)'
<1>1. /\ x.gv \in Nat /\ x.gen \in Nat /\ graph.v \in Nat /\ graph'.v \in Nat
      /\ item[i].gen \in Nat /\ item'[i].gen \in Nat /\ item[i] \in Items
  BY DEF Types, Cands, Graphs, Items
<1>2. \/ item'[i].gen = item[i].gen /\ (item'[i].st = "PREPARED" => item[i].st = "PREPARED")
      \/ item[i].gen < item'[i].gen
  BY <1>1 DEF ItemMove, Reopens, Rewrites, StepsOn, Items
<1>. QED BY <1>1, <1>2 DEF CandOld

\* The pointers of a set of issues are retired and taken away or replaced, by
\* candidates that were neither pointed to nor retired.
LEMMA PointersShift ==
    ASSUME Types, Types', CandInv, RetiredIsGone, graph.v <= graph'.v, \A i \in Issues : ItemMove(i),
           NEW S \in SUBSET Issues, retired' = Retire(S),
           \A i \in Issues \ S : ptr'[i] = ptr[i],
           \A i \in S : ptr'[i] = NoCand \/ /\ ptr'[i] # ptr[i] /\ <<i, ptr'[i]>> \notin retired
                                             /\ CandOld(i, ptr[i])'
    PROVE  CandInv' /\ RetiredIsGone'
<1>1. \A r : r \in retired' <=> r \in retired \/ \E i \in S : r = <<i, ptr[i]>> /\ ptr[i] # NoCand
  BY DEF Retire
<1>2. ptr \in [Issues -> Cands] /\ ptr' \in [Issues -> Cands] /\ retired \subseteq Issues \X Cands
      /\ graph'.v \in Nat
  BY DEF Types, Graphs
<1>3. ASSUME NEW i \in Issues PROVE CandOld(i, ptr[i])'
  <2>1. CASE ptr'[i] = ptr[i]
    <3>1. PICK x \in Cands : x = ptr[i]
      BY <1>2
    <3>2. CandOld(i, x)
      BY <3>1 DEF CandInv
    <3>3. CandOld(i, x)'
      BY <3>2, StaysOld
    <3>. QED BY <2>1, <3>1, <3>3 DEF CandOld
  <2>2. CASE ptr'[i] = NoCand
    BY <1>2, <2>2 DEF CandOld, NoCand
  <2>. QED BY <2>1, <2>2
<1>4. ASSUME NEW r \in retired' PROVE CandOld(r[1], r[2])'
  <2>1. PICK i \in Issues, x \in Cands : r = <<i, x>>
    BY <1>1, <1>2
  <2>2. CandOld(i, x)
    <3>1. CASE r \in retired
      BY <2>1, <3>1 DEF CandInv
    <3>2. CASE r \notin retired
      <4>1. x = ptr[i]
        BY <1>1, <2>1, <3>2
      <4>. QED BY <4>1 DEF CandInv
    <3>. QED BY <3>1, <3>2
  <2>3. CandOld(i, x)'
    BY <2>2, StaysOld
  <2>. QED BY <2>1, <2>3 DEF CandOld
<1>5. ASSUME NEW i \in Issues, ptr'[i] # NoCand PROVE <<i, ptr'[i]>> \notin retired'
  <2>1. \A j \in S : <<i, ptr'[i]>> = <<j, ptr[j]>> => j = i /\ ptr'[i] = ptr[i]
    OBVIOUS
  <2>2. CASE i \in S
    BY <1>1, <1>5, <2>1, <2>2
  <2>3. CASE i \notin S
    <3>1. ptr'[i] = ptr[i] /\ <<i, ptr[i]>> \notin retired
      BY <1>5, <2>3 DEF RetiredIsGone
    <3>. QED BY <1>1, <2>1, <2>3, <3>1
  <2>. QED BY <2>2, <2>3
<1>. QED BY <1>3, <1>4, <1>5 DEF CandInv, RetiredIsGone

\* One issue's pointer is replaced by a new candidate.
LEMMA PointerReplaced ==
    ASSUME Types, Types', CandInv, RetiredIsGone, graph.v <= graph'.v, \A i \in Issues : ItemMove(i),
           NEW i \in Issues, NEW x \in Cands, ptr' = [ptr EXCEPT ![i] = x], retired' = Retire({i}),
           x # ptr[i], <<i, x>> \notin retired, CandOld(i, x)'
    PROVE  CandInv' /\ RetiredIsGone'
<1>1. ptr'[i] = x /\ \A j \in Issues \ {i} : ptr'[j] = ptr[j]
  BY DEF Types
<1>2. CandOld(i, ptr[i])'
  BY <1>1 DEF CandOld
<1>3. \A j \in {i} : ptr'[j] = NoCand \/ /\ ptr'[j] # ptr[j] /\ <<j, ptr'[j]>> \notin retired
                                         /\ CandOld(j, ptr[j])'
  BY <1>1, <1>2
<1>4. {i} \in SUBSET Issues
  OBVIOUS
<1>. QED BY <1>1, <1>3, <1>4, PointersShift

\* The pointers of a set of issues are retired and gone.
LEMMA PointersGone ==
    ASSUME Types, Types', CandInv, RetiredIsGone, graph.v <= graph'.v, \A i \in Issues : ItemMove(i),
           NEW S \in SUBSET Issues, retired' = Retire(S),
           \A i \in Issues : ptr'[i] = IF i \in S THEN NoCand ELSE ptr[i]
    PROVE  CandInv' /\ RetiredIsGone'
<1>1. (\A i \in Issues \ S : ptr'[i] = ptr[i]) /\ (\A i \in S : ptr'[i] = NoCand)
  OBVIOUS
<1>. QED BY <1>1, PointersShift

LEMMA PointersKept ==
    ASSUME Types, Types', CandInv, RetiredIsGone, graph.v <= graph'.v, \A i \in Issues : ItemMove(i),
           UNCHANGED <<ptr, retired>>
    PROVE  CandInv' /\ RetiredIsGone'
<1>1. retired' = Retire({})
  BY DEF Retire
<1>. QED BY <1>1, PointersGone

\* Who moves a pointer.
LEMMA PointerMovers ==
    ASSUME PortfolioNext
    PROVE  \/ \E i \in Issues, p \in Packets : \/ RegisterCandidate(i, p) \/ FinalizeReady(i, p)
                                                \/ \E b \in BlockSets : PrepareZeroWip(i, b, p)
           \/ Quarantine
           \/ \E c \in Consumers : CommitAudit(c) \/ NothingChosen(c) \/ Admit(c)
           \/ UNCHANGED <<ptr, retired>>
<1>1. ASSUME NEW c \in Consumers, ConsumerNext(c)
      PROVE  CommitAudit(c) \/ NothingChosen(c) \/ Admit(c) \/ UNCHANGED <<ptr, retired>>
  BY <1>1, Zenon DEF ConsumerNext, BeginEvent, BeginAudit, ReadFails, Die, Fenced,
     ReleaseOver, ReleaseWaits, CursorDrifted, AdmissionUndone, RecordRetry, buffer
<1>2. ASSUME NEW i \in Issues,
             \/ Examine(i) \/ ExaminationStale(i) \/ StopRevoked(i) \/ EditIssue(i)
             \/ Replans(i) \/ Deliver(i) \/ RecoverUnclaimed(i)
      PROVE  UNCHANGED <<ptr, retired>>
  BY <1>2 DEF Examine, ExaminationStale, StopRevoked, EditIssue, Replans, Replan, Deliver, RecoverUnclaimed, buffer
<1>4. ASSUME NEW b \in BlockSets, ReplaceGraph(b) PROVE UNCHANGED <<ptr, retired>>
  BY <1>4 DEF ReplaceGraph, buffer
<1>5. ASSUME AskQuarantine \/ SyncHead \/ ReserveHosted \/ ReleaseHosted \/ \E m \in 0..1 : MoveMain(m)
      PROVE  UNCHANGED <<ptr, retired>>
  BY <1>5 DEF AskQuarantine, SyncHead, ReserveHosted, ReleaseHosted, MoveMain, buffer
<1>. QED BY <1>1, <1>2, <1>4, <1>5, Zenon DEF PortfolioNext, PlannerNext, WorldNext, Replans

LEMMA CandidateIsCand ==
    ASSUME Types, NEW i \in Issues, NEW r \in BOOLEAN, NEW p \in Packets
    PROVE  Candidate(i, r, p) \in Cands
BY DEF Candidate, Cands, Types, Items, Graphs

LEMMA ZeroWipIsCand ==
    ASSUME Types, NEW i \in Issues, NEW p \in Packets
    PROVE  ZeroWipCandidate(i, p) \in Cands
BY DEF ZeroWipCandidate, Cands, Types, Items, Graphs

\* The types of the pointers and of their retirements.
LEMMA PointerTypes ==
    ASSUME Types, PortfolioNext
    PROVE  ptr' \in [Issues -> Cands] /\ retired' \subseteq Issues \X Cands
<1>0. ptr \in [Issues -> Cands] /\ retired \subseteq Issues \X Cands
  BY DEF Types
<1>1. ASSUME NEW S \in SUBSET Issues PROVE Retire(S) \subseteq Issues \X Cands
  BY <1>0 DEF Retire
<1>2. ASSUME NEW i \in Issues, NEW p \in Packets, RegisterCandidate(i, p) \/ FinalizeReady(i, p)
      PROVE  ptr' \in [Issues -> Cands] /\ retired' \subseteq Issues \X Cands
  <2>1. PICK x \in Cands : ptr' = [ptr EXCEPT ![i] = x] /\ retired' = Retire({i})
    BY <1>2, CandidateIsCand DEF RegisterCandidate, FinalizeReady
  <2>. QED BY <1>0, <1>1, <2>1
<1>3. ASSUME NEW i \in Issues, NEW p \in Packets, NEW b \in BlockSets, PrepareZeroWip(i, b, p)
      PROVE  ptr' \in [Issues -> Cands] /\ retired' \subseteq Issues \X Cands
  <2>1. PICK x \in Cands : ptr' = [ptr EXCEPT ![i] = x] /\ retired' = Retire({i})
    BY <1>3, ZeroWipIsCand DEF PrepareZeroWip
  <2>. QED BY <1>0, <1>1, <2>1
<1>4. CASE Quarantine
  <2>1. Unattested \in SUBSET Issues
    BY DEF Unattested, ReadyItems
  <2>2. CASE InventoryHeld
    BY <1>0, <1>1, <1>4, <2>1, <2>2, NoCandIsCand DEF Quarantine
  <2>3. CASE ~InventoryHeld
    BY <1>0, <1>4, <2>3 DEF Quarantine, buffer
  <2>. QED BY <2>2, <2>3
<1>5. ASSUME NEW seen
      PROVE  AuditedPtr(seen) \in [Issues -> Cands] /\ AuditInvalid(seen) \in SUBSET Issues
  BY <1>0, NoCandIsCand DEF AuditedPtr, AuditInvalid
<1>6. ASSUME NEW c \in Consumers, CommitAudit(c) \/ NothingChosen(c)
      PROVE  ptr' \in [Issues -> Cands] /\ retired' \subseteq Issues \X Cands
  BY <1>1, <1>5, <1>6 DEF CommitAudit, NothingChosen, Audit
<1>7. ASSUME NEW c \in Consumers, Admit(c)
      PROVE  ptr' \in [Issues -> Cands] /\ retired' \subseteq Issues \X Cands
  <2>1. PICK i \in Issues : /\ ptr' = [AuditedPtr(con[c].seen) EXCEPT ![i] = NoCand]
                            /\ retired' = Retire(AuditInvalid(con[c].seen) \cup {i})
    BY <1>7, MinChosen, ChosenIsValid DEF Admit
  <2>. QED BY <1>1, <1>5, <2>1, NoCandIsCand
<1>8. CASE UNCHANGED <<ptr, retired>>
  BY <1>0, <1>8
<1>. QED BY <1>2, <1>3, <1>4, <1>6, <1>7, <1>8, PointerMovers, Zenon

LEMMA PointerMoves ==
    ASSUME Types, Types', CandInv, RetiredIsGone, graph.v <= graph'.v, PortfolioNext
    PROVE  CandInv' /\ RetiredIsGone'
<1>0. \A i \in Issues : ItemMove(i)
  BY ItemMoves
<1>00. /\ graph.v \in Nat /\ graph'.v \in Nat
       /\ \A i \in Issues : /\ item[i].gen \in Nat /\ CandOld(i, ptr[i])
                            /\ \A x \in Cands : <<i, x>> \in retired => CandOld(i, x)
  BY DEF Types, Graphs, Items, CandInv
<1>1. ASSUME NEW i \in Issues, NEW p \in Packets, RegisterCandidate(i, p)
      PROVE  CandInv' /\ RetiredIsGone'
  <2>. DEFINE x == Candidate(i, FALSE, p)
  <2>1. /\ x \in Cands /\ ptr' = [ptr EXCEPT ![i] = x] /\ retired' = Retire({i})
        /\ x # ptr[i] /\ <<i, x>> \notin retired
    BY <1>1, CandidateIsCand DEF RegisterCandidate
  <2>2. x.gv = graph.v /\ ~x.ready
    BY DEF Candidate
  <2>3. PICK y \in Cands : y = x
    BY <2>1
  <2>4. CandOld(i, y)'
    BY <2>2, <2>3 DEF CandOld
  <2>. HIDE DEF x
  <2>. QED BY <1>0, <2>1, <2>3, <2>4, PointerReplaced
<1>2. ASSUME NEW i \in Issues, NEW p \in Packets, FinalizeReady(i, p)
      PROVE  CandInv' /\ RetiredIsGone'
  <2>. DEFINE x == Candidate(i, TRUE, p)
  <2>1. x \in Cands /\ ptr' = [ptr EXCEPT ![i] = x] /\ retired' = Retire({i})
    BY <1>2, CandidateIsCand DEF FinalizeReady
  <2>2. x.gv = graph.v /\ x.ready = TRUE /\ x.gen = item[i].gen
    BY DEF Candidate
  <2>20. item[i].st = "PREPARED" /\ item' = [item EXCEPT ![i].st = "READY"]
    BY <1>2 DEF FinalizeReady, FinalBound
  <2>21. item'[i].st = "READY" /\ item'[i].gen = item[i].gen
    BY <2>20 DEF Types, Items
  <2>3. PICK y \in Cands : y = x
    BY <2>1
  <2>30. y.gv = graph.v /\ y.ready = TRUE /\ y.gen = item[i].gen
    BY <2>2, <2>3
  <2>4. CandOld(i, y)'
    BY <1>00, <2>21, <2>30 DEF CandOld
  <2>5. ~CandOld(i, y)
    BY <1>00, <2>20, <2>30 DEF CandOld
  <2>6. y # ptr[i] /\ <<i, y>> \notin retired
    BY <1>00, <2>5
  <2>. HIDE DEF x
  <2>. QED BY <1>0, <2>1, <2>3, <2>4, <2>6, PointerReplaced
<1>3. ASSUME NEW i \in Issues, NEW p \in Packets, NEW b \in BlockSets, PrepareZeroWip(i, b, p)
      PROVE  CandInv' /\ RetiredIsGone'
  <2>. DEFINE x == ZeroWipCandidate(i, p)
  <2>1. x \in Cands /\ ptr' = [ptr EXCEPT ![i] = x] /\ retired' = Retire({i})
    BY <1>3, ZeroWipIsCand DEF PrepareZeroWip
  <2>2. x.gv = graph.v + 1 /\ ~x.ready
    BY DEF ZeroWipCandidate
  <2>20. graph'.v = graph.v + 1
    BY <1>3 DEF PrepareZeroWip, NewGraph
  <2>3. PICK y \in Cands : y = x
    BY <2>1
  <2>4. CandOld(i, y)'
    BY <1>00, <2>2, <2>3, <2>20 DEF CandOld
  <2>5. ~CandOld(i, y)
    BY <1>00, <2>2, <2>3 DEF CandOld
  <2>6. y # ptr[i] /\ <<i, y>> \notin retired
    BY <1>00, <2>5
  <2>. HIDE DEF x
  <2>. QED BY <1>0, <2>1, <2>3, <2>4, <2>6, PointerReplaced
<1>4. CASE Quarantine
  <2>1. Unattested \in SUBSET Issues
    BY DEF Unattested, ReadyItems
  <2>2. CASE InventoryHeld
    <3>1. /\ \A i \in Issues : ptr'[i] = IF i \in Unattested THEN NoCand ELSE ptr[i]
          /\ retired' = Retire(Unattested)
      BY <1>4, <2>2 DEF Quarantine
    <3>. QED BY <1>0, <2>1, <3>1, PointersGone
  <2>3. CASE ~InventoryHeld
    <3>1. UNCHANGED <<ptr, retired>>
      BY <1>4, <2>3 DEF Quarantine, buffer
    <3>. QED BY <1>0, <3>1, PointersKept
  <2>. QED BY <2>2, <2>3
<1>5. ASSUME NEW c \in Consumers, CommitAudit(c) \/ NothingChosen(c)
      PROVE  CandInv' /\ RetiredIsGone'
  <2>. DEFINE S == AuditInvalid(con[c].seen)
  <2>1. S \in SUBSET Issues /\ retired' = Retire(S)
    BY <1>5 DEF CommitAudit, NothingChosen, Audit, AuditInvalid
  <2>2. \A i \in Issues : ptr'[i] = IF i \in S THEN NoCand ELSE ptr[i]
    BY <1>5 DEF CommitAudit, NothingChosen, Audit, AuditedPtr
  <2>. HIDE DEF S
  <2>. QED BY <1>0, <2>1, <2>2, PointersGone
<1>6. ASSUME NEW c \in Consumers, Admit(c)
      PROVE  CandInv' /\ RetiredIsGone'
  <2>. DEFINE A == AuditInvalid(con[c].seen)
  <2>1. PICK i \in Issues : /\ ptr' = [AuditedPtr(con[c].seen) EXCEPT ![i] = NoCand]
                            /\ retired' = Retire(A \cup {i})
    BY <1>6, MinChosen, ChosenIsValid DEF Admit
  <2>2. A \cup {i} \in SUBSET Issues
    BY DEF AuditInvalid
  <2>3. \A j \in Issues : ptr'[j] = IF j \in A \cup {i} THEN NoCand ELSE ptr[j]
    BY <2>1 DEF AuditedPtr
  <2>. HIDE DEF A
  <2>. QED BY <1>0, <2>1, <2>2, <2>3, PointersGone
<1>7. CASE UNCHANGED <<ptr, retired>>
  BY <1>0, <1>7, PointersKept
<1>. QED BY <1>1, <1>2, <1>3, <1>4, <1>5, <1>6, <1>7, PointerMovers, Zenon

\* An issue's pointer is kept, taken away, or set to what was prepared or finalized.
PointerKind(i) ==
    \/ ptr'[i] = ptr[i] \/ ptr'[i] = NoCand
    \/ ~ptr'[i].ready /\ item'[i].st = "PREPARED"
    \/ \E p \in Packets : FinalizeReady(i, p)

LEMMA PointerKinds ==
    ASSUME Types, PortfolioNext
    PROVE  \A i \in Issues : PointerKind(i)
<1>. DEFINE Goal == \A i \in Issues : PointerKind(i)
<1>0. ptr \in [Issues -> Cands] /\ item \in [Issues -> Items]
  BY DEF Types
<1>1. ASSUME NEW i \in Issues, NEW p \in Packets, RegisterCandidate(i, p) PROVE Goal
  <2>1. /\ ptr' = [ptr EXCEPT ![i] = Candidate(i, FALSE, p)]
        /\ item'[i].st = "PREPARED"
    BY <1>1 DEF RegisterCandidate
  <2>2. Candidate(i, FALSE, p).ready = FALSE
    BY DEF Candidate
  <2>3. ptr'[i] = Candidate(i, FALSE, p) /\ \A j \in Issues \ {i} : ptr'[j] = ptr[j]
    BY <1>0, <2>1
  <2>. QED BY <2>1, <2>2, <2>3, Zenon DEF PointerKind
<1>2. ASSUME NEW i \in Issues, NEW p \in Packets, FinalizeReady(i, p) PROVE Goal
  <2>1. \A j \in Issues \ {i} : ptr'[j] = ptr[j]
    BY <1>0, <1>2 DEF FinalizeReady
  <2>. QED BY <1>2, <2>1, Zenon DEF PointerKind
<1>3. ASSUME NEW i \in Issues, NEW p \in Packets, NEW b \in BlockSets, PrepareZeroWip(i, b, p) PROVE Goal
  <2>1. /\ ptr' = [ptr EXCEPT ![i] = ZeroWipCandidate(i, p)]
        /\ item'[i].st = "PREPARED"
    BY <1>0, <1>3 DEF PrepareZeroWip
  <2>2. ZeroWipCandidate(i, p).ready = FALSE
    BY DEF ZeroWipCandidate
  <2>3. ptr'[i] = ZeroWipCandidate(i, p) /\ \A j \in Issues \ {i} : ptr'[j] = ptr[j]
    BY <1>0, <2>1
  <2>. QED BY <2>1, <2>2, <2>3, Zenon DEF PointerKind
<1>4. ASSUME Quarantine PROVE Goal
  <2>1. ptr' = ptr \/ ptr' = [i \in Issues |-> IF i \in Unattested THEN NoCand ELSE ptr[i]]
    BY <1>4 DEF Quarantine, buffer
  <2>. QED BY <2>1 DEF PointerKind
<1>5. ASSUME NEW c \in Consumers, CommitAudit(c) \/ NothingChosen(c) PROVE Goal
  <2>1. ptr' = AuditedPtr(con[c].seen)
    BY <1>5 DEF CommitAudit, NothingChosen, Audit
  <2>. QED BY <2>1 DEF AuditedPtr, PointerKind
<1>6. ASSUME NEW c \in Consumers, Admit(c) PROVE Goal
  <2>1. PICK i \in Issues : ptr' = [AuditedPtr(con[c].seen) EXCEPT ![i] = NoCand]
    BY <1>6, MinChosen, ChosenIsValid DEF Admit
  <2>. QED BY <2>1 DEF AuditedPtr, PointerKind
<1>7. ASSUME UNCHANGED <<ptr, retired>> PROVE Goal
  BY <1>7 DEF PointerKind
<1>. HIDE DEF Goal
<1>8. Goal
  BY <1>1, <1>2, <1>3, <1>4, <1>5, <1>6, <1>7, PointerMovers, Zenon
<1>. QED BY <1>8 DEF Goal

-----------------------------------------------------------------------------
(* The dirty events and those who read them.                                *)

\* Events are never taken back or given another meaning, and new ones are PENDING.
EventsMove ==
    /\ events' \in Seq(Events) /\ Len(events') <= MaxEvents
    /\ DOMAIN events \subseteq DOMAIN events'
    /\ \A k \in DOMAIN events : SameEvent(events'[k], events[k])
    /\ \A k \in DOMAIN events' \ DOMAIN events : events'[k].st = "PENDING" /\ events'[k].att = 0

LEMMA EventFields ==
    ASSUME Types, NEW k \in DOMAIN events
    PROVE  /\ events[k] \in Events /\ events[k].att \in Nat /\ k \in Nat /\ k # 0
           /\ events[k].st \in {"PENDING", "RETRY", "HOLD", "COMPLETE"}
<1>1. events \in Seq(Events)
  BY DEF Types
<1>2. k \in 1..Len(events) /\ Len(events) \in Nat /\ events[k] \in Events
  BY <1>1, ElementOfSeq, LenProperties
<1>. QED BY <1>2 DEF Events

LEMMA EventsStay ==
    ASSUME Types, Len(events) <= MaxEvents, UNCHANGED events
    PROVE  EventsMove
BY DEF EventsMove, Types, SameEvent

LEMMA EventEnqueued ==
    ASSUME Types, Len(events) <= MaxEvents, NEW e \in Events, e.st = "PENDING", e.att = 0, Enqueue(e)
    PROVE  /\ EventsMove
           /\ \A k \in DOMAIN events : events'[k] = events[k]
           /\ \E k \in DOMAIN events' : SameEvent(events'[k], e)
<1>0. events \in Seq(Events) /\ Len(events) \in Nat /\ DOMAIN events = 1..Len(events)
  BY DEF Types
<1>1. CASE Enqueued(e)
  BY <1>0, <1>1 DEF Enqueue, Enqueued, EventsMove, SameEvent
<1>2. CASE ~Enqueued(e)
  <2>1. Len(events) < MaxEvents /\ events' = Append(events, e)
    BY <1>2 DEF Enqueue
  <2>2. /\ events' \in Seq(Events) /\ Len(events') = Len(events) + 1
        /\ \A k \in DOMAIN events : events'[k] = events[k]
        /\ events'[Len(events) + 1] = e
    BY <1>0, <2>1, AppendProperties
  <2>3. DOMAIN events' = 1..Len(events) + 1
    BY <2>2
  <2>4. Len(events') <= MaxEvents
    BY <1>0, <2>1, <2>2, ConstantFacts
  <2>5. \A k \in DOMAIN events' \ DOMAIN events : k = Len(events) + 1
    BY <1>0, <2>3
  <2>6. DOMAIN events \subseteq DOMAIN events' /\ Len(events) + 1 \in DOMAIN events'
    BY <1>0, <2>3
  <2>. QED BY <2>2, <2>4, <2>5, <2>6 DEF EventsMove, SameEvent
<1>. QED BY <1>1, <1>2

LEMMA EventUpdated ==
    ASSUME Types, Len(events) <= MaxEvents, NEW k \in DOMAIN events, NEW e \in Events,
           SameEvent(e, events[k]), events' = [events EXCEPT ![k] = e]
    PROVE  /\ EventsMove /\ DOMAIN events' = DOMAIN events /\ events'[k] = e
           /\ \A j \in DOMAIN events : j # k => events'[j] = events[j]
<1>0. events \in Seq(Events) /\ Len(events) \in Nat /\ DOMAIN events = 1..Len(events)
  BY DEF Types
<1>1. events' \in Seq(Events) /\ Len(events') = Len(events) /\ DOMAIN events' = DOMAIN events
  BY <1>0, ExceptSeq
<1>2. events'[k] = e /\ \A j \in DOMAIN events : j # k => events'[j] = events[j]
  BY <1>0
<1>. QED BY <1>1, <1>2 DEF EventsMove, SameEvent

LEMMA NewEvent ==
    ASSUME NEW kind \in {"MAIN", "PROMOTED", "RELEASE", "REFILL"}, NEW of \in Int, NEW gen \in Int,
           NEW prev \in Int
    PROVE  /\ Event(kind, of, gen, prev) \in Events
           /\ Event(kind, of, gen, prev).st = "PENDING" /\ Event(kind, of, gen, prev).att = 0
           /\ Event(kind, of, gen, prev).kind = kind /\ Event(kind, of, gen, prev).of = of
           /\ Event(kind, of, gen, prev).gen = gen
BY DEF Event, Events

\* Who enqueues, and who settles.
Enqueues ==
    \/ SyncHead \/ \E i \in Issues : \/ Deliver(i) \/ RecoverUnclaimed(i)
                                      \/ \E p \in Packets : FinalizeReady(i, p)
Settles(c) == ReleaseOver(c) \/ ReleaseWaits(c) \/ NothingChosen(c) \/ Admit(c)

LEMMA EventMovers ==
    ASSUME PortfolioNext
    PROVE  \/ UNCHANGED con /\ (Enqueues \/ UNCHANGED events)
           \/ \E c \in Consumers : ConsumerNext(c) /\ (Settles(c) \/ RecordRetry(c) \/ UNCHANGED events)
<1>1. ASSUME NEW c \in Consumers, ConsumerNext(c)
      PROVE  Settles(c) \/ RecordRetry(c) \/ UNCHANGED events
  BY <1>1, Zenon DEF ConsumerNext, BeginEvent, BeginAudit, ReadFails, Die, CommitAudit, Fenced,
     CursorDrifted, AdmissionUndone, Settles
<1>2. ASSUME NEW i \in Issues,
             Examine(i) \/ ExaminationStale(i) \/ StopRevoked(i) \/ EditIssue(i) \/ Replans(i)
      PROVE  UNCHANGED con /\ UNCHANGED events
  BY <1>2 DEF Examine, ExaminationStale, StopRevoked, EditIssue, Replans, Replan
<1>3. ASSUME NEW i \in Issues, NEW p \in Packets,
             RegisterCandidate(i, p) \/ \E b \in BlockSets : PrepareZeroWip(i, b, p)
      PROVE  UNCHANGED con /\ UNCHANGED events
  BY <1>3, Zenon DEF RegisterCandidate, PrepareZeroWip
<1>4. ASSUME NEW b \in BlockSets, ReplaceGraph(b) PROVE UNCHANGED con /\ UNCHANGED events
  BY <1>4 DEF ReplaceGraph
<1>5. ASSUME AskQuarantine \/ Quarantine \/ ReserveHosted \/ ReleaseHosted \/ \E m \in 0..1 : MoveMain(m)
      PROVE  UNCHANGED con /\ UNCHANGED events
  BY <1>5 DEF AskQuarantine, Quarantine, ReserveHosted, ReleaseHosted, MoveMain
<1>6. ASSUME NEW i \in Issues, NEW p \in Packets, FinalizeReady(i, p) PROVE UNCHANGED con /\ Enqueues
  BY <1>6, Zenon DEF FinalizeReady, Enqueues
<1>7. ASSUME NEW i \in Issues, Deliver(i) \/ RecoverUnclaimed(i) PROVE UNCHANGED con /\ Enqueues
  BY <1>7 DEF Deliver, RecoverUnclaimed, Enqueues
<1>8. ASSUME SyncHead PROVE UNCHANGED con /\ Enqueues
  BY <1>8 DEF SyncHead, Enqueues
<1>. QED BY <1>1, <1>2, <1>3, <1>4, <1>5, <1>6, <1>7, <1>8, Zenon DEF PortfolioNext, PlannerNext, WorldNext, Replans

\* What is enqueued is new and PENDING, or was there; nothing else changes.
LEMMA EnqueueMoves ==
    ASSUME Types, Len(events) <= MaxEvents, Enqueues
    PROVE  EventsMove /\ \A k \in DOMAIN events : events'[k] = events[k]
<1>1. \E e \in Events : e.st = "PENDING" /\ e.att = 0 /\ Enqueue(e)
  <2>1. CASE SyncHead
    <3>1. main \in Int /\ graph.v \in Int /\ graph.obs \in Int
      BY DEF Types, Graphs
    <3>. QED BY <2>1, <3>1, NewEvent DEF SyncHead
  <2>2. ASSUME NEW i \in Issues, Deliver(i)
        PROVE \E e \in Events : e.st = "PENDING" /\ e.att = 0 /\ Enqueue(e)
    <3>1. i \in Int /\ item[i].gen \in Int
      BY ItemFields, ConstantFacts
    <3>. QED BY <2>2, <3>1, NewEvent DEF Deliver
  <2>3. ASSUME NEW i \in Issues, RecoverUnclaimed(i)
        PROVE  \E e \in Events : e.st = "PENDING" /\ e.att = 0 /\ Enqueue(e)
    <3>1. i \in Int /\ item[i].gen + 1 \in Int
      BY ItemFields, ConstantFacts
    <3>. QED BY <2>3, <3>1, NewEvent DEF RecoverUnclaimed, EnqueueFresh
  <2>4. ASSUME NEW i \in Issues, NEW p \in Packets, FinalizeReady(i, p)
        PROVE  \E e \in Events : e.st = "PENDING" /\ e.att = 0 /\ Enqueue(e)
    <3>1. i \in Int /\ item[i].gen \in Int
      BY ItemFields, ConstantFacts
    <3>. QED BY <2>4, <3>1, NewEvent DEF FinalizeReady, EnqueueFresh
  <2>. QED BY <2>1, <2>2, <2>3, <2>4, Zenon DEF Enqueues
<1>. QED BY <1>1, EventEnqueued

LEMMA ReaderFields ==
    ASSUME Types, NEW c \in Consumers
    PROVE  /\ con[c] \in Readers /\ con[c].ev \in Nat /\ con[c].att \in Nat /\ con[c].main \in Int
           /\ con[c].term \in BOOLEAN
BY DEF Types, Readers

\* What a consumer's step leaves in its hands, and what it may have failed on.
ReaderMove(c) ==
    \E r \in Readers :
        /\ con' = [con EXCEPT ![c] = r] /\ r.ev \in DOMAIN events \cup {0}
        /\ r.pc = "failed" => r.ev # 0 /\ events[r.ev].st \in {"PENDING", "RETRY"} /\ UNCHANGED events

LEMMA IdleIsReader == Idle \in Readers /\ Idle.pc = "idle" /\ Idle.ev = 0
BY DEF Idle, Readers

LEMMA FinishMoves ==
    ASSUME NEW c \in Consumers, Finish(c)
    PROVE  ReaderMove(c) /\ con' = [con EXCEPT ![c] = Idle]
<1>1. con' = [con EXCEPT ![c] = Idle]
  BY DEF Finish
<1>. QED BY <1>1, IdleIsReader DEF ReaderMove

LEMMA FailMoves ==
    ASSUME Types, ReaderInv, NEW c \in Consumers, Fail(c), Applies(c), UNCHANGED events
    PROVE  ReaderMove(c)
<1>. DEFINE r == [Idle EXCEPT !.pc = "failed", !.ev = con[c].ev]
<1>1. r \in Readers /\ r.ev = con[c].ev /\ r.pc = "failed"
  BY IdleIsReader, ReaderFields DEF Readers
<1>2. con' = [con EXCEPT ![c] = r]
  BY DEF Fail
<1>3. con[c].ev \in DOMAIN events /\ con[c].ev # 0 /\ events[con[c].ev].st \in {"PENDING", "RETRY"}
  BY DEF Applies, FenceHeld, ReaderInv
<1>. HIDE DEF r
<1>. QED BY <1>1, <1>2, <1>3 DEF ReaderMove

LEMMA PointedIsSeen ==
    ASSUME Types PROVE Pointed \in SUBSET (Issues \X Cands)
BY DEF Pointed, Types

LEMMA ReaderMoves ==
    ASSUME Types, ReaderInv, NEW c \in Consumers, ConsumerNext(c)
    PROVE  ReaderMove(c)
<1>1. ASSUME NEW k \in 1..MaxEvents, BeginEvent(c, k) PROVE ReaderMove(c)
  <2>. DEFINE r == [Idle EXCEPT !.pc = "loaded", !.ev = k, !.att = events[k].att,
                         !.main = main, !.seen = Pointed]
  <2>1. k \in DOMAIN events /\ con' = [con EXCEPT ![c] = r]
    BY <1>1 DEF BeginEvent
  <2>2. r \in Readers /\ r.pc = "loaded" /\ r.ev = k
    BY <2>1, EventFields, PointedIsSeen DEF Idle, Readers, Types
  <2>. HIDE DEF r
  <2>. QED BY <2>1, <2>2 DEF ReaderMove
<1>2. CASE BeginAudit(c)
  <2>. DEFINE r == [Idle EXCEPT !.pc = "loaded", !.seen = Pointed]
  <2>1. con' = [con EXCEPT ![c] = r]
    BY <1>2 DEF BeginAudit
  <2>2. r \in Readers /\ r.pc = "loaded" /\ r.ev = 0
    BY IdleIsReader, PointedIsSeen DEF Readers
  <2>. HIDE DEF r
  <2>. QED BY <2>1, <2>2 DEF ReaderMove
<1>3. ASSUME NEW k \in 1..MaxEvents, NEW t \in BOOLEAN, ReadFails(c, k, t) PROVE ReaderMove(c)
  <2>. DEFINE r == [Idle EXCEPT !.pc = "failed", !.ev = k, !.term = t]
  <2>1. k \in DOMAIN events /\ events[k].st \in {"PENDING", "RETRY"} /\ UNCHANGED events
        /\ con' = [con EXCEPT ![c] = r]
    BY <1>3 DEF ReadFails, Due
  <2>3. k \in Nat /\ k # 0
    OBVIOUS
  <2>4. r.ev = k
    BY IdleIsReader DEF Readers
  <2>5. r \in Readers
    BY <2>3, IdleIsReader, Zenon DEF Readers
  <2>2. r \in Readers /\ r.ev = k /\ k # 0
    BY <2>3, <2>4, <2>5
  <2>. HIDE DEF r
  <2>. QED BY <2>1, <2>2 DEF ReaderMove
<1>4. CASE CursorDrifted(c) \/ AdmissionUndone(c)
  BY <1>4, FailMoves DEF CursorDrifted, AdmissionUndone, Proceeds
<1>5. CASE Die(c) \/ CommitAudit(c) \/ Fenced(c) \/ Settles(c) \/ RecordRetry(c)
  BY <1>5, FinishMoves, Zenon
  DEF Die, CommitAudit, Fenced, Settles, RecordRetry, ReleaseOver, ReleaseWaits, NothingChosen, Admit
<1>. QED BY <1>1, <1>2, <1>3, <1>4, <1>5, Zenon DEF ConsumerNext, Settles

LEMMA ReadersStay ==
    ASSUME Types, ReaderInv, PortfolioNext, EventsMove
    PROVE  con' \in [Consumers -> Readers] /\ ReaderInv'
<1>0. DOMAIN events \subseteq DOMAIN events' /\ con \in [Consumers -> Readers]
  BY DEF EventsMove, Types
<1>1. CASE UNCHANGED con
  BY <1>0, <1>1 DEF ReaderInv
<1>2. ASSUME NEW c \in Consumers, ReaderMove(c)
      PROVE  con' \in [Consumers -> Readers] /\ ReaderInv'
  <2>1. PICK r \in Readers : /\ con' = [con EXCEPT ![c] = r] /\ r.ev \in DOMAIN events \cup {0}
                             /\ r.pc = "failed" => r.ev # 0
    BY <1>2 DEF ReaderMove
  <2>2. con' \in [Consumers -> Readers] /\ con'[c] = r /\ \A d \in Consumers \ {c} : con'[d] = con[d]
    BY <1>0, <2>1
  <2>. QED BY <1>0, <2>1, <2>2 DEF ReaderInv
<1>. QED BY <1>1, <1>2, EventMovers, ReaderMoves

\* A settling consumer counts one attempt of an open event; it holds the event at
\* MAX_ATTEMPTS, and only an admission puts an issue on it.
Counted(k, e) ==
    /\ SameEvent(e, events[k]) /\ events[k].st \in {"PENDING", "RETRY"}
    /\ e.att = events[k].att + 1 /\ e.st \in {"RETRY", "HOLD", "COMPLETE"}
    /\ e.st = "RETRY" => e.att < MaxAttempts

LEMMA CompleteFields ==
    ASSUME NEW e \in Events, NEW a \in Nat \X Nat
    PROVE  /\ Complete(e, a) \in Events /\ SameEvent(Complete(e, a), e)
           /\ Complete(e, a).att = e.att + 1 /\ Complete(e, a).st = "COMPLETE" /\ Complete(e, a).adm = a
<1>1. Complete(e, a) = [e EXCEPT !.st = "COMPLETE", !.att = e.att + 1, !.adm = a] /\ e.att + 1 \in Nat
  BY DEF Complete, Events
<1>2. Complete(e, a) \in Events
  BY <1>1, Zenon DEF Events
<1>3. SameEvent(Complete(e, a), e)
  BY <1>1 DEF Events, SameEvent
<1>4. Complete(e, a).att = e.att + 1 /\ Complete(e, a).st = "COMPLETE" /\ Complete(e, a).adm = a
  BY <1>1 DEF Events
<1>. QED BY <1>2, <1>3, <1>4

\* Both ways of postponing an event: it is held at MAX_ATTEMPTS, or for another reason.
LEMMA PostponedFields ==
    ASSUME NEW e \in Events, NEW d,
           d = Defer(e) \/ \E t \in BOOLEAN : d = Retried(e, t)
    PROVE  /\ d \in Events /\ SameEvent(d, e) /\ d.att = e.att + 1 /\ d.st \in {"RETRY", "HOLD"}
           /\ d.st = "RETRY" => d.att < MaxAttempts
<1>0. e.att \in Nat /\ e.att + 1 \in Nat
  BY DEF Events
<1>1. PICK s \in {"RETRY", "HOLD"} : /\ d = [e EXCEPT !.st = s, !.att = e.att + 1]
                                     /\ s = "RETRY" => ~(e.att + 1 >= MaxAttempts)
  BY DEF Defer, Retried
<1>2. d \in Events
  BY <1>0, <1>1 DEF Events
<1>3. SameEvent(d, e)
  BY <1>1 DEF Events, SameEvent
<1>4. d.att = e.att + 1 /\ d.st = s
  BY <1>1 DEF Events
<1>. QED BY <1>0, <1>1, <1>2, <1>3, <1>4, ConstantFacts

LEMMA SettledEvent ==
    ASSUME Types, ReaderInv, NEW c \in Consumers, Settles(c)
    PROVE  /\ con[c].ev \in DOMAIN events
           /\ \E e \in Events :
                /\ events' = [events EXCEPT ![con[c].ev] = e] /\ Counted(con[c].ev, e)
                /\ e.st = "COMPLETE" =>
                      \/ e.adm = <<0, 0>>
                      \/ Admit(c) /\ e.adm = <<Min(Chosen(con[c].seen)), item[Min(Chosen(con[c].seen))].gen>>
                /\ Admit(c) => e.st = "COMPLETE"
                               /\ e.adm = <<Min(Chosen(con[c].seen)), item[Min(Chosen(con[c].seen))].gen>>
<1>. DEFINE k == con[c].ev
            i == Min(Chosen(con[c].seen))
<1>1. Applies(c)
  BY DEF Settles, ReleaseOver, ReleaseWaits, NothingChosen, Admit, Proceeds
<1>2. k \in DOMAIN events /\ events[k].st \in {"PENDING", "RETRY"}
  BY <1>1 DEF Applies, FenceHeld, ReaderInv
<1>3. events[k] \in Events /\ events[k].att \in Nat
  BY <1>2, EventFields
<1>4. ASSUME NEW a \in Nat \X Nat
      PROVE  /\ Complete(events[k], a) \in Events /\ Counted(k, Complete(events[k], a))
             /\ Complete(events[k], a).st = "COMPLETE" /\ Complete(events[k], a).adm = a
  BY <1>2, <1>3, CompleteFields DEF Counted
<1>5. /\ Defer(events[k]) \in Events /\ Counted(k, Defer(events[k]))
      /\ Defer(events[k]).st # "COMPLETE"
  BY <1>2, <1>3, PostponedFields DEF Counted
<1>6. CASE Admit(c)
  <2>1. i \in Issues
    BY <1>6, MinChosen, ChosenIsValid DEF Admit
  <2>2. <<i, item[i].gen>> \in Nat \X Nat
    BY <2>1, ItemFields, ConstantFacts
  <2>3. events' = [events EXCEPT ![k] = Complete(events[k], <<i, item[i].gen>>)]
    BY <1>2, <1>6 DEF Admit, Types
  <2>. HIDE DEF i, k
  <2>. QED BY <1>2, <1>4, <1>6, <2>2, <2>3 DEF i, k
<1>7. CASE ReleaseOver(c) /\ ~Admit(c)
  <2>1. events' = [events EXCEPT ![k] = Complete(events[k], <<0, 0>>)]
    BY <1>2, <1>7 DEF ReleaseOver, Types
  <2>2. <<0, 0>> \in Nat \X Nat
    OBVIOUS
  <2>. HIDE DEF i, k
  <2>. QED BY <1>2, <1>4, <1>7, <2>1, <2>2 DEF i, k
<1>8. CASE (ReleaseWaits(c) \/ NothingChosen(c)) /\ ~Admit(c)
  <2>1. events' = [events EXCEPT ![k] = Defer(events[k])]
    BY <1>2, <1>8 DEF ReleaseWaits, NothingChosen, Types
  <2>. HIDE DEF i, k
  <2>. QED BY <1>2, <1>5, <1>8, <2>1 DEF i, k
<1>. QED BY <1>6, <1>7, <1>8 DEF Settles

LEMMA RetriedEvent ==
    ASSUME Types, ReaderInv, NEW c \in Consumers, RecordRetry(c), ~UNCHANGED events
    PROVE  /\ con[c].ev \in DOMAIN events /\ con[c].pc = "failed" /\ events[con[c].ev].st # "COMPLETE"
           /\ \E e \in Events :
                /\ events' = [events EXCEPT ![con[c].ev] = e] /\ SameEvent(e, events[con[c].ev])
                /\ e.att = events[con[c].ev].att + 1 /\ e.st \in {"RETRY", "HOLD"}
                /\ e.st = "RETRY" => e.att < MaxAttempts
<1>. DEFINE k == con[c].ev
            e == Retried(events[k], con[c].term)
<1>1. /\ con[c].pc = "failed" /\ k \in DOMAIN events /\ events[k].st # "COMPLETE"
      /\ events' = [events EXCEPT ![k] = Retried(@, con[c].term)]
  BY DEF RecordRetry, ReaderInv, Ev
<1>2. events[k] \in Events /\ events[k].att \in Nat
  BY <1>1, EventFields
<1>3. /\ e \in Events /\ SameEvent(e, events[k]) /\ e.att = events[k].att + 1 /\ e.st \in {"RETRY", "HOLD"}
      /\ e.st = "RETRY" => e.att < MaxAttempts
  BY <1>2, PostponedFields, ReaderFields
<1>5. events' = [events EXCEPT ![k] = e]
  BY <1>1 DEF Types
<1>. HIDE DEF e, k
<1>. QED BY <1>1, <1>3, <1>5 DEF k

LEMMA EventMoves ==
    ASSUME Types, Len(events) <= MaxEvents, ReaderInv, PortfolioNext
    PROVE  EventsMove
<1>1. ASSUME NEW c \in Consumers, Settles(c) PROVE EventsMove
  BY <1>1, SettledEvent, EventUpdated DEF Counted
<1>2. ASSUME NEW c \in Consumers, RecordRetry(c) PROVE EventsMove
  BY <1>2, RetriedEvent, EventUpdated, EventsStay
<1>. QED BY <1>1, <1>2, EventMovers, EnqueueMoves, EventsStay

-----------------------------------------------------------------------------
(* Attempts.                                                                *)

\* The consumers that failed on an event, when only one consumer moves.
LEMMA FailedAfter ==
    ASSUME Types, NEW c \in Consumers, NEW r \in Readers, con' = [con EXCEPT ![c] = r],
           NEW k, ~(r.pc = "failed" /\ r.ev = k)
    PROVE  /\ Cardinality(FailedOn(k)') \in Nat /\ Cardinality(FailedOn(k)) \in Nat
           /\ Cardinality(FailedOn(k)') <= Cardinality(FailedOn(k))
           /\ Cardinality(FailedOn(k)') <= Cardinality(Consumers) - 1
           /\ con[c].pc = "failed" /\ con[c].ev = k =>
                 Cardinality(FailedOn(k)') = Cardinality(FailedOn(k)) - 1
<1>1. con'[c] = r /\ \A d \in Consumers \ {c} : con'[d] = con[d]
  BY DEF Types
<1>2. FailedOn(k)' = FailedOn(k) \ {c}
  BY <1>1 DEF FailedOn
<1>3. PICK F : F = FailedOn(k)
  OBVIOUS
<1>4. F \subseteq Consumers /\ IsFiniteSet(F) /\ IsFiniteSet(F \ {c}) /\ IsFiniteSet(Consumers)
  BY <1>3, FS_Subset, ConstantFacts DEF FailedOn
<1>5. Cardinality(F) \in Nat /\ Cardinality(F \ {c}) \in Nat /\ Cardinality(F \ {c}) <= Cardinality(F)
  BY <1>4, FS_CardinalityType, FS_Subset
<1>6. Cardinality(Consumers \ {c}) = Cardinality(Consumers) - 1
  BY <1>4, FS_RemoveElement, Zenon
<1>7. Cardinality(F \ {c}) <= Cardinality(Consumers) - 1
  <2>1. IsFiniteSet(Consumers \ {c}) /\ F \ {c} \subseteq Consumers \ {c}
    BY <1>4, FS_Subset
  <2>2. Cardinality(F \ {c}) <= Cardinality(Consumers \ {c})
    BY <2>1, FS_Subset
  <2>. QED BY <1>6, <2>2
<1>8. c \in F => Cardinality(F \ {c}) = Cardinality(F) - 1
  BY <1>4, FS_RemoveElement, Zenon
<1>9. con[c].pc = "failed" /\ con[c].ev = k => c \in F
  BY <1>3 DEF FailedOn
<1>. QED BY <1>2, <1>3, <1>5, <1>7, <1>8, <1>9

\* An event that no one counts on keeps its bound, whoever fails on it while it is open.
LEMMA AttemptKept ==
    ASSUME Types, AttemptInv, NEW c \in Consumers, NEW r \in Readers, con' = [con EXCEPT ![c] = r],
           NEW k \in DOMAIN events, events'[k] = events[k],
           r.pc = "failed" /\ r.ev = k => events[k].st \in {"PENDING", "RETRY"}
    PROVE  AttemptAt(k)'
<1>1. CASE events[k].st \in {"PENDING", "RETRY"}
  BY <1>1 DEF AttemptInv, AttemptAt
<1>2. CASE events[k].st \notin {"PENDING", "RETRY"}
  <2>1. ~(r.pc = "failed" /\ r.ev = k)
    BY <1>2
  <2>2. Cardinality(FailedOn(k)') <= Cardinality(FailedOn(k))
        /\ Cardinality(FailedOn(k)') \in Nat /\ Cardinality(FailedOn(k)) \in Nat
    BY <2>1, FailedAfter
  <2>3. events[k].att + Cardinality(FailedOn(k)) <= MaxAttempts + Cardinality(Consumers) - 1
    BY <1>2 DEF AttemptInv, AttemptAt
  <2>4. events[k].att \in Nat
    BY EventFields
  <2>5. events'[k].att + Cardinality(FailedOn(k)') <= MaxAttempts + Cardinality(Consumers) - 1
    BY <2>2, <2>3, <2>4, ConstantFacts
  <2>. QED BY <1>2, <2>5 DEF AttemptAt
<1>. QED BY <1>1, <1>2

LEMMA NewEventAttempts ==
    ASSUME EventsMove, NEW k \in DOMAIN events', k \notin DOMAIN events
    PROVE  AttemptAt(k)'
<1>1. events'[k].st = "PENDING" /\ events'[k].att = 0
  BY DEF EventsMove
<1>. QED BY <1>1, ConstantFacts DEF AttemptAt

LEMMA AttemptMoves ==
    ASSUME Types, Len(events) <= MaxEvents, ReaderInv, AttemptInv, EventsMove, PortfolioNext
    PROVE  AttemptInv'
<1>. SUFFICES ASSUME NEW k \in DOMAIN events' PROVE AttemptAt(k)'
  BY DEF AttemptInv
<1>1. CASE k \notin DOMAIN events
  BY <1>1, NewEventAttempts
<1>2. CASE k \in DOMAIN events /\ UNCHANGED con /\ (Enqueues \/ UNCHANGED events)
  <2>1. events'[k] = events[k]
    BY <1>2, EnqueueMoves
  <2>. QED BY <1>2, <2>1 DEF AttemptInv, AttemptAt, FailedOn
<1>3. ASSUME k \in DOMAIN events, NEW c \in Consumers, ConsumerNext(c), UNCHANGED events
      PROVE  AttemptAt(k)'
  <2>1. PICK r \in Readers :
          /\ con' = [con EXCEPT ![c] = r]
          /\ r.pc = "failed" => r.ev # 0 /\ events[r.ev].st \in {"PENDING", "RETRY"}
    BY <1>3, ReaderMoves DEF ReaderMove
  <2>. QED BY <1>3, <2>1, AttemptKept
<1>4. ASSUME k \in DOMAIN events, NEW c \in Consumers, Settles(c) PROVE AttemptAt(k)'
  <2>1. PICK e \in Events : /\ events' = [events EXCEPT ![con[c].ev] = e] /\ Counted(con[c].ev, e)
    BY <1>4, SettledEvent
  <2>2. con' = [con EXCEPT ![c] = Idle]
    BY <1>4 DEF Settles, ReleaseOver, ReleaseWaits, NothingChosen, Admit, Finish
  <2>3. events'[k] = IF k = con[c].ev THEN e ELSE events[k]
    BY <1>4, <2>1 DEF Types
  <2>4. CASE k = con[c].ev
    <3>1. /\ events[k].st \in {"PENDING", "RETRY"} /\ events'[k].att = events[k].att + 1
          /\ events'[k].st \in {"RETRY", "HOLD", "COMPLETE"}
          /\ events'[k].st = "RETRY" => events'[k].att < MaxAttempts
      BY <2>1, <2>3, <2>4 DEF Counted
    <3>2. events[k].att < MaxAttempts /\ events[k].att \in Nat
      BY <1>4, <3>1, EventFields DEF AttemptInv, AttemptAt
    <3>3. Cardinality(FailedOn(k)') \in Nat /\ Cardinality(FailedOn(k)') <= Cardinality(Consumers) - 1
      BY <2>2, IdleIsReader, FailedAfter
    <3>4. events'[k].att + Cardinality(FailedOn(k)') <= MaxAttempts + Cardinality(Consumers) - 1
      BY <3>1, <3>2, <3>3, ConstantFacts
    <3>. QED BY <3>1, <3>4 DEF AttemptAt
  <2>5. CASE k # con[c].ev
    BY <1>4, <2>2, <2>3, <2>5, IdleIsReader, AttemptKept
  <2>. QED BY <2>4, <2>5
<1>5. ASSUME k \in DOMAIN events, NEW c \in Consumers, RecordRetry(c), ~UNCHANGED events PROVE AttemptAt(k)'
  <2>1. /\ con[c].ev \in DOMAIN events /\ con[c].pc = "failed" /\ events[con[c].ev].st # "COMPLETE"
        /\ \E e \in Events :
             /\ events' = [events EXCEPT ![con[c].ev] = e]
             /\ e.att = events[con[c].ev].att + 1 /\ e.st \in {"RETRY", "HOLD"}
             /\ e.st = "RETRY" => e.att < MaxAttempts
    BY <1>5, RetriedEvent
  <2>2. con' = [con EXCEPT ![c] = Idle]
    BY <1>5 DEF RecordRetry, Finish
  <2>3. CASE k = con[c].ev
    <3>1. /\ events'[k].att = events[k].att + 1 /\ events'[k].st \in {"RETRY", "HOLD"}
          /\ events'[k].st = "RETRY" => events'[k].att < MaxAttempts
      BY <2>1, <2>3 DEF Types
    <3>2. /\ Cardinality(FailedOn(k)') \in Nat /\ Cardinality(FailedOn(k)) \in Nat
          /\ Cardinality(FailedOn(k)') <= Cardinality(Consumers) - 1
          /\ Cardinality(FailedOn(k)') = Cardinality(FailedOn(k)) - 1
      BY <2>1, <2>2, <2>3, IdleIsReader, FailedAfter
    <3>3. events[k].att \in Nat
      BY <1>5, EventFields
    <3>4. \/ events[k].att < MaxAttempts
          \/ events[k].att + Cardinality(FailedOn(k)) <= MaxAttempts + Cardinality(Consumers) - 1
      BY <1>5 DEF AttemptInv, AttemptAt
    <3>5. events'[k].att + Cardinality(FailedOn(k)') <= MaxAttempts + Cardinality(Consumers) - 1
      BY <3>1, <3>2, <3>3, <3>4, ConstantFacts
    <3>. QED BY <3>1, <3>5 DEF AttemptAt
  <2>4. CASE k # con[c].ev
    <3>1. events'[k] = events[k]
      BY <1>5, <2>1, <2>4 DEF Types
    <3>. QED BY <1>5, <2>2, <3>1, IdleIsReader, AttemptKept
  <2>. QED BY <2>3, <2>4
<1>6. \A c \in Consumers : Settles(c) \/ RecordRetry(c) => ConsumerNext(c)
  BY DEF Settles, ConsumerNext
<1>. QED BY <1>1, <1>2, <1>3, <1>4, <1>5, EventMovers

-----------------------------------------------------------------------------
(* Campaigns.                                                               *)

\* A campaign's record never disappears, only a finalization finalizes it, and only an
\* examination of what is in the buffer gives it another candidate.
CampMove(i) ==
    \/ camp'[i] = camp[i]
    \/ camp'[i].st \notin {"NONE", "FINALIZED"} /\ (ptr[i] = NoCand => camp'[i].cand = camp[i].cand)

LEMMA CampMovers ==
    ASSUME PortfolioNext
    PROVE  \/ \E i \in Issues : \/ Examine(i) \/ ExaminationStale(i) \/ StopRevoked(i) \/ RecoverUnclaimed(i)
                                 \/ \E p \in Packets : FinalizeReady(i, p)
           \/ Quarantine
           \/ \E c \in Consumers : CommitAudit(c) \/ NothingChosen(c) \/ Admit(c)
           \/ UNCHANGED camp
<1>1. ASSUME NEW c \in Consumers, ConsumerNext(c)
      PROVE  CommitAudit(c) \/ NothingChosen(c) \/ Admit(c) \/ UNCHANGED camp
  BY <1>1, Zenon DEF ConsumerNext, BeginEvent, BeginAudit, ReadFails, Die, Fenced,
     ReleaseOver, ReleaseWaits, CursorDrifted, AdmissionUndone, RecordRetry, buffer
<1>2. ASSUME NEW i \in Issues, EditIssue(i) \/ Replans(i) \/ Deliver(i)
      PROVE  UNCHANGED camp
  BY <1>2 DEF EditIssue, Replans, Replan, Deliver, buffer
<1>3. ASSUME NEW i \in Issues, NEW p \in Packets,
             RegisterCandidate(i, p) \/ \E b \in BlockSets : PrepareZeroWip(i, b, p)
      PROVE  UNCHANGED camp
  BY <1>3, Zenon DEF RegisterCandidate, PrepareZeroWip
<1>4. ASSUME NEW b \in BlockSets, ReplaceGraph(b) PROVE UNCHANGED camp
  BY <1>4 DEF ReplaceGraph, buffer
<1>5. ASSUME AskQuarantine \/ SyncHead \/ ReserveHosted \/ ReleaseHosted \/ \E m \in 0..1 : MoveMain(m)
      PROVE  UNCHANGED camp
  BY <1>5 DEF AskQuarantine, SyncHead, ReserveHosted, ReleaseHosted, MoveMain, buffer
<1>. QED BY <1>1, <1>2, <1>3, <1>4, <1>5, Zenon DEF PortfolioNext, PlannerNext, WorldNext, Replans

LEMMA OneCamp ==
    ASSUME Types, NEW i \in Issues, NEW x \in Camps, camp' = [camp EXCEPT ![i] = x]
    PROVE  /\ camp' \in [Issues -> Camps] /\ camp'[i] = x
           /\ \A j \in Issues : j # i => camp'[j] = camp[j]
BY DEF Types

LEMMA CampRestated ==
    ASSUME Types, NEW i \in Issues, NEW s \in {"ELIGIBLE", "STALE", "HOLD"}, camp' = [camp EXCEPT ![i].st = s]
    PROVE  camp' \in [Issues -> Camps] /\ \A j \in Issues : CampMove(j)
<1>. DEFINE x == [camp[i] EXCEPT !.st = s]
<1>1. x \in Camps /\ x.st = s /\ x.cand = camp[i].cand
  BY DEF Types, Camps
<1>2. camp' = [camp EXCEPT ![i] = x]
  BY DEF Types
<1>. HIDE DEF x
<1>. QED BY <1>1, <1>2, OneCamp DEF CampMove

LEMMA AuditMovesCamps ==
    ASSUME Types, NEW seen, camp' = AuditedCamp(seen)
    PROVE  camp' \in [Issues -> Camps] /\ \A j \in Issues : CampMove(j)
<1>1. \A j \in Issues : camp'[j] = IF j \in Recovered(seen) THEN [camp[j] EXCEPT !.st = "STALE"] ELSE camp[j]
  BY DEF AuditedCamp
<1>2. \A j \in Issues : camp[j] \in Camps /\ [camp[j] EXCEPT !.st = "STALE"] \in Camps
                        /\ [camp[j] EXCEPT !.st = "STALE"].st = "STALE"
                        /\ [camp[j] EXCEPT !.st = "STALE"].cand = camp[j].cand
  BY DEF Types, Camps
<1>3. camp' = [j \in Issues |-> camp'[j]]
  BY DEF AuditedCamp
<1>. QED BY <1>1, <1>2, <1>3 DEF CampMove

LEMMA CampMoves ==
    ASSUME Types, PortfolioNext
    PROVE  /\ camp' \in [Issues -> Camps]
           /\ \A j \in Issues : CampMove(j) \/ \E p \in Packets : FinalizeReady(j, p)
<1>. DEFINE Goal == /\ camp' \in [Issues -> Camps]
                    /\ \A j \in Issues : CampMove(j) \/ \E p \in Packets : FinalizeReady(j, p)
<1>0. ptr \in [Issues -> Cands] /\ camp \in [Issues -> Camps]
  BY DEF Types
<1>1. ASSUME NEW i \in Issues, Examine(i) PROVE Goal
  <2>. DEFINE x == [st |-> "ELIGIBLE", cand |-> ptr[i]]
  <2>1. x \in Camps /\ x.st = "ELIGIBLE" /\ camp' = [camp EXCEPT ![i] = x] /\ ptr[i] # NoCand
    BY <1>0, <1>1 DEF Examine, Camps
  <2>. HIDE DEF x
  <2>. QED BY <2>1, OneCamp DEF CampMove
<1>2. ASSUME NEW i \in Issues, ExaminationStale(i) \/ StopRevoked(i) \/ RecoverUnclaimed(i) PROVE Goal
  BY <1>2, CampRestated DEF ExaminationStale, StopRevoked, RecoverUnclaimed
<1>3. ASSUME NEW i \in Issues, NEW p \in Packets, FinalizeReady(i, p) PROVE Goal
  <2>. DEFINE x == [st |-> "FINALIZED", cand |-> Candidate(i, TRUE, p)]
  <2>1. x \in Camps /\ camp' = [camp EXCEPT ![i] = x]
    BY <1>3, CandidateIsCand DEF FinalizeReady, Camps
  <2>. HIDE DEF x
  <2>. QED BY <1>3, <2>1, OneCamp DEF CampMove
<1>4. ASSUME Quarantine PROVE Goal
  <2>1. camp' = camp \/ camp' = QuarantinedCamp
    BY <1>4 DEF Quarantine, buffer
  <2>2. CASE camp' = QuarantinedCamp
    <3>1. \A j \in Issues : camp'[j] = IF j \in Unattested /\ camp[j].st # "NONE"
                                       THEN [camp[j] EXCEPT !.st = "HOLD"] ELSE camp[j]
      BY <2>2 DEF QuarantinedCamp
    <3>2. \A j \in Issues : camp[j] \in Camps /\ [camp[j] EXCEPT !.st = "HOLD"] \in Camps
                            /\ [camp[j] EXCEPT !.st = "HOLD"].st = "HOLD"
                            /\ [camp[j] EXCEPT !.st = "HOLD"].cand = camp[j].cand
      BY DEF Types, Camps
    <3>3. camp' = [j \in Issues |-> camp'[j]]
      BY <2>2 DEF QuarantinedCamp
    <3>. QED BY <3>1, <3>2, <3>3 DEF CampMove
  <2>. QED BY <1>0, <2>1, <2>2 DEF CampMove
<1>5. ASSUME NEW c \in Consumers, CommitAudit(c) \/ NothingChosen(c) \/ Admit(c) PROVE Goal
  BY <1>5, AuditMovesCamps DEF CommitAudit, NothingChosen, Audit, Admit
<1>6. ASSUME UNCHANGED camp PROVE Goal
  BY <1>0, <1>6 DEF CampMove
<1>. HIDE DEF Goal
<1>7. Goal
  BY <1>1, <1>2, <1>3, <1>4, <1>5, <1>6, CampMovers, Zenon
<1>. QED BY <1>7 DEF Goal

-----------------------------------------------------------------------------
(* Admissions.                                                              *)

\* Which event admitted which generation of an issue is settled once.
SameAdmissions(i) ==
    \A k, g : (k \in DOMAIN events' /\ AdmitsAt(k, i, g)') <=> (k \in DOMAIN events /\ AdmitsAt(k, i, g))

LEMMA UpdateAdmits ==
    ASSUME Types, NEW k \in DOMAIN events, NEW e, events' = [events EXCEPT ![k] = e],
           events[k].st # "COMPLETE", NEW i \in Issues, e.st = "COMPLETE" => e.adm[1] # i
    PROVE  SameAdmissions(i)
<1>1. DOMAIN events' = DOMAIN events /\ events'[k] = e
      /\ \A j \in DOMAIN events \ {k} : events'[j] = events[j]
  BY DEF Types
<1>2. \A g : ~AdmitsAt(k, i, g) /\ ~(e.st = "COMPLETE" /\ e.adm = <<i, g>>)
  BY DEF AdmitsAt
<1>. QED BY <1>1, <1>2 DEF SameAdmissions, AdmitsAt

LEMMA AdmissionsStay ==
    ASSUME Types, Len(events) <= MaxEvents, ReaderInv, PortfolioNext, NEW i \in Issues, ~Admitted(i)
    PROVE  SameAdmissions(i)
<1>1. CASE UNCHANGED events
  BY <1>1 DEF SameAdmissions, AdmitsAt
<1>2. CASE Enqueues
  BY <1>2, EnqueueMoves DEF EventsMove, SameAdmissions, AdmitsAt
<1>3. ASSUME NEW c \in Consumers, Settles(c) PROVE SameAdmissions(i)
  <2>1. con[c].ev \in DOMAIN events
    BY <1>3, SettledEvent
  <2>2. PICK e \in Events :
          /\ events' = [events EXCEPT ![con[c].ev] = e] /\ Counted(con[c].ev, e)
          /\ e.st = "COMPLETE" =>
                \/ e.adm = <<0, 0>>
                \/ Admit(c) /\ e.adm = <<Min(Chosen(con[c].seen)), item[Min(Chosen(con[c].seen))].gen>>
    BY <1>3, SettledEvent
  <2>3. e.st = "COMPLETE" => e.adm[1] # i
    <3>1. i # 0
      BY ConstantFacts
    <3>2. Admit(c) => i # Min(Chosen(con[c].seen))
      BY DEF Admitted
    <3>. QED BY <2>2, <3>1, <3>2
  <2>. QED BY <2>1, <2>2, <2>3, UpdateAdmits DEF Counted
<1>4. ASSUME NEW c \in Consumers, RecordRetry(c) PROVE SameAdmissions(i)
  <2>1. CASE ~UNCHANGED events
    BY <1>4, <2>1, RetriedEvent, UpdateAdmits
  <2>. QED BY <1>1, <2>1
<1>. QED BY <1>1, <1>2, <1>3, <1>4, EventMovers

\* The admission itself: its event had admitted nothing, its issue was READY.
LEMMA AdmissionAdds ==
    ASSUME Types, ReaderInv, NEW c \in Consumers, Admit(c), NEW i \in Issues, i = Min(Chosen(con[c].seen))
    PROVE  /\ item[i].st = "READY" /\ item'[i].st = "ACTIVE" /\ item'[i].gen = item[i].gen
           /\ con[c].ev \in DOMAIN events
           /\ \A k, g : (k \in DOMAIN events' /\ AdmitsAt(k, i, g)') <=>
                 \/ k = con[c].ev /\ g = item[i].gen
                 \/ k # con[c].ev /\ k \in DOMAIN events /\ AdmitsAt(k, i, g)
<1>1. item[i].st = "READY" /\ item'[i].st = "ACTIVE" /\ item'[i].gen = item[i].gen
  BY AdmitMovesItems, ItemFields DEF StepsOn, Items
<1>2. Settles(c)
  BY DEF Settles
<1>3. con[c].ev \in DOMAIN events
  BY <1>2, SettledEvent
<1>4. PICK e \in Events : /\ events' = [events EXCEPT ![con[c].ev] = e] /\ Counted(con[c].ev, e)
                          /\ e.st = "COMPLETE" /\ e.adm = <<i, item[i].gen>>
  BY <1>2, SettledEvent
<1>5. DOMAIN events' = DOMAIN events /\ events'[con[c].ev] = e
      /\ \A j \in DOMAIN events \ {con[c].ev} : events'[j] = events[j]
  BY <1>3, <1>4 DEF Types
<1>. QED BY <1>1, <1>3, <1>4, <1>5 DEF AdmitsAt

LEMMA AdmissionMoves ==
    ASSUME Types, Types', Len(events) <= MaxEvents, ReaderInv, WorkInv, AdmissionInv, AdmittedOnce,
           PortfolioNext
    PROVE  AdmissionInv' /\ AdmittedOnce'
<1>1. ASSUME NEW i \in Issues, NEW c \in Consumers, Admit(c), i = Min(Chosen(con[c].seen))
      PROVE  /\ \A k \in DOMAIN events', g \in Nat : AdmitsAt(k, i, g)' =>
                   g <= item'[i].gen /\ (g = item'[i].gen => item'[i].st \notin {"PREPARED", "READY"})
             /\ {k \in DOMAIN events' : AdmitsAt(k, i, item[i].gen)'} = {con[c].ev}
             /\ item'[i].gen = item[i].gen
  <2>0. item[i].gen \in Nat
    BY ItemFields
  <2>1. /\ item[i].st = "READY" /\ item'[i].st = "ACTIVE" /\ item'[i].gen = item[i].gen
        /\ con[c].ev \in DOMAIN events
        /\ \A k, g : (k \in DOMAIN events' /\ AdmitsAt(k, i, g)') <=>
                 \/ k = con[c].ev /\ g = item[i].gen
                 \/ k # con[c].ev /\ k \in DOMAIN events /\ AdmitsAt(k, i, g)
    BY <1>1, AdmissionAdds
  <2>2. \A k \in DOMAIN events : ~AdmitsAt(k, i, item[i].gen)
    BY <2>0, <2>1 DEF AdmissionInv
  <2>3. \A k \in DOMAIN events, g \in Nat : AdmitsAt(k, i, g) => g <= item[i].gen
    BY DEF AdmissionInv
  <2>. QED BY <2>0, <2>1, <2>2, <2>3
<1>2. ASSUME NEW i \in Issues, ~Admitted(i)
      PROVE  \A k \in DOMAIN events', g \in Nat : AdmitsAt(k, i, g)' =>
                   g <= item'[i].gen /\ (g = item'[i].gen => item'[i].st \notin {"PREPARED", "READY"})
  <2>1. SUFFICES ASSUME NEW k \in DOMAIN events', NEW g \in Nat, AdmitsAt(k, i, g)'
                 PROVE  g <= item'[i].gen /\ (g = item'[i].gen => item'[i].st \notin {"PREPARED", "READY"})
    OBVIOUS
  <2>2. k \in DOMAIN events /\ AdmitsAt(k, i, g)
    BY <1>2, <2>1, AdmissionsStay DEF SameAdmissions
  <2>3. g <= item[i].gen /\ (g = item[i].gen => item[i].st \notin {"PREPARED", "READY"})
    BY <2>2 DEF AdmissionInv
  <2>4. item[i] \in Items /\ item'[i] \in Items
    BY DEF Types
  <2>5. \/ item'[i].gen = item[i].gen
           /\ (item[i].st \notin {"PREPARED", "READY"} => item'[i].st \notin {"PREPARED", "READY"})
        \/ item[i].gen < item'[i].gen
    <3>1. ItemMove(i)
      BY ItemMoves
    <3>. QED BY <2>4, <3>1 DEF ItemMove, Reopens, Rewrites, StepsOn, Items
  <2>. QED BY <2>3, <2>4, <2>5 DEF Items
<1>3. AdmissionInv'
  BY <1>1, <1>2 DEF AdmissionInv, Admitted
<1>4. AdmittedOnce'
  <2>1. SUFFICES ASSUME NEW i \in Issues, item'[i].st = "ACTIVE"
                 PROVE  Cardinality({k \in DOMAIN events' : events'[k].st = "COMPLETE"
                                          /\ events'[k].adm = <<i, camp'[i].cand.gen>>}) = 1
    BY DEF AdmittedOnce
  <2>2. CASE Admitted(i)
    <3>1. PICK c \in Consumers : Admit(c) /\ i = Min(Chosen(con[c].seen))
      BY <2>2 DEF Admitted
    <3>2. camp'[i] = camp[i] /\ camp[i].cand.gen = item[i].gen
      <4>1. i \in Chosen(con[c].seen) /\ camp' = AuditedCamp(con[c].seen)
        BY <3>1, MinChosen DEF Admit
      <4>2. Attested(i) /\ item[i].gen = ptr[i].gen /\ i \notin AuditInvalid(con[c].seen)
        BY <4>1, ChosenIsValid
      <4>3. i \notin Recovered(con[c].seen)
        BY <4>2 DEF Recovered
      <4>. QED BY <4>1, <4>2, <4>3 DEF AuditedCamp, Attested
    <3>3. {k \in DOMAIN events' : events'[k].st = "COMPLETE" /\ events'[k].adm = <<i, camp'[i].cand.gen>>}
           = {con[c].ev}
      BY <1>1, <3>1, <3>2 DEF AdmitsAt
    <3>. QED BY <3>3, FS_Singleton
  <2>3. CASE ~Admitted(i)
    <3>1. item[i].st = "ACTIVE"
      BY <2>1, <2>3, ItemMoves DEF ItemRises
    <3>2. camp'[i].cand = camp[i].cand
      <4>1. ptr[i] = NoCand /\ ~\E p \in Packets : FinalizeReady(i, p)
        BY <3>1 DEF WorkInv, FinalizeReady, FinalBound
      <4>. QED BY <4>1, CampMoves DEF CampMove
    <3>3. {k \in DOMAIN events' : events'[k].st = "COMPLETE" /\ events'[k].adm = <<i, camp'[i].cand.gen>>}
            = {k \in DOMAIN events : events[k].st = "COMPLETE" /\ events[k].adm = <<i, camp[i].cand.gen>>}
      BY <2>3, <3>2, AdmissionsStay DEF SameAdmissions, AdmitsAt
    <3>4. Cardinality({k \in DOMAIN events : events[k].st = "COMPLETE"
                                                  /\ events[k].adm = <<i, camp[i].cand.gen>>}) = 1
      BY <3>1 DEF AdmittedOnce
    <3>. QED BY <3>3, <3>4
  <2>. QED BY <2>2, <2>3
<1>. QED BY <1>3, <1>4

-----------------------------------------------------------------------------
(* Promotions and generations.                                              *)

\* What a finalization leaves behind.
LEMMA FinalizeLeaves ==
    ASSUME Types, Len(events) <= MaxEvents, NEW i \in Issues, NEW p \in Packets, FinalizeReady(i, p)
    PROVE  /\ item[i].st = "PREPARED" /\ item'[i] = [item[i] EXCEPT !.st = "READY"]
           /\ camp'[i] = [st |-> "FINALIZED", cand |-> Candidate(i, TRUE, p)]
           /\ ptr'[i] = Candidate(i, TRUE, p)
           /\ \E k \in DOMAIN events' : Promotes(events'[k], i, item[i].gen)
<1>1. item[i].st = "PREPARED" /\ item'[i] = [item[i] EXCEPT !.st = "READY"]
  BY DEF FinalizeReady, FinalBound, Types
<1>2. /\ camp'[i] = [st |-> "FINALIZED", cand |-> Candidate(i, TRUE, p)]
      /\ ptr'[i] = Candidate(i, TRUE, p)
  BY DEF FinalizeReady, Types
<1>3. PICK g \in Int : g = item[i].gen
  BY ItemFields
<1>. DEFINE e == Event("PROMOTED", i, g, 0)
<1>4. e \in Events /\ e.st = "PENDING" /\ e.att = 0 /\ e.kind = "PROMOTED" /\ e.of = i /\ e.gen = g
  <2>1. i \in Int
    BY ConstantFacts
  <2>2. e \in Events
    BY <2>1 DEF Event, Events
  <2>. QED BY <2>2 DEF Event
<1>6. Enqueue(e)
  BY <1>3 DEF FinalizeReady, EnqueueFresh
<1>. HIDE DEF e
<1>5. \E k \in DOMAIN events' : SameEvent(events'[k], e)
  BY <1>4, <1>6, EventEnqueued
<1>. QED BY <1>1, <1>2, <1>3, <1>4, <1>5 DEF SameEvent, Promotes

LEMMA PromotionMoves ==
    ASSUME Types, Types', Len(events) <= MaxEvents, ReaderInv, PromotionInv, PortfolioNext
    PROVE  PromotionInv'
<1>. SUFFICES ASSUME NEW i \in Issues
              PROVE  /\ ptr'[i].ready => \E k \in DOMAIN events' : Promotes(events'[k], i, ptr'[i].gen)
                     /\ item'[i].st = "READY" => camp'[i].st # "NONE"
  BY DEF PromotionInv, Promotes
<1>0. ItemRises(i) /\ EventsMove /\ PointerKind(i)
  BY ItemMoves, EventMoves, PointerKinds
<1>1. ASSUME NEW p \in Packets, FinalizeReady(i, p)
      PROVE  /\ \E k \in DOMAIN events' : Promotes(events'[k], i, ptr'[i].gen)
             /\ camp'[i].st # "NONE"
  <2>1. PICK x : x = Candidate(i, TRUE, p)
    OBVIOUS
  <2>2. /\ camp'[i] = [st |-> "FINALIZED", cand |-> x] /\ ptr'[i] = x
        /\ \E k \in DOMAIN events' : Promotes(events'[k], i, item[i].gen)
    BY <1>1, <2>1, FinalizeLeaves
  <2>3. x.gen = item[i].gen
    BY <2>1 DEF Candidate
  <2>4. camp'[i].st = "FINALIZED"
    BY <2>2
  <2>. QED BY <2>2, <2>3, <2>4
<1>2. ASSUME ~\E p \in Packets : FinalizeReady(i, p), ptr'[i].ready
      PROVE  \E k \in DOMAIN events' : Promotes(events'[k], i, ptr'[i].gen)
  <2>1. ptr'[i] = ptr[i]
    BY <1>0, <1>2 DEF PointerKind, NoCand
  <2>2. PICK k \in DOMAIN events : Promotes(events[k], i, ptr[i].gen)
    BY <1>2, <2>1 DEF PromotionInv
  <2>3. k \in DOMAIN events' /\ Promotes(events'[k], i, ptr[i].gen)
    BY <1>0, <2>2 DEF EventsMove, SameEvent, Promotes
  <2>. QED BY <2>1, <2>3
<1>3. ASSUME ~\E p \in Packets : FinalizeReady(i, p), item'[i].st = "READY"
      PROVE  camp'[i].st # "NONE"
  <2>1. item[i].st = "READY"
    BY <1>0, <1>3 DEF ItemRises
  <2>2. camp[i].st # "NONE" /\ CampMove(i)
    BY <1>3, <2>1, CampMoves DEF PromotionInv
  <2>. QED BY <2>2 DEF CampMove
<1>. QED BY <1>1, <1>2, <1>3

\* Work enters without a pointer, and what is running is not prepared.
LEMMA WorkKept ==
    ASSUME Types, WorkInv, PortfolioNext
    PROVE  WorkInv'
<1>. SUFFICES ASSUME NEW i \in Issues, item'[i].st = "ACTIVE" PROVE ptr'[i] = NoCand
  BY DEF WorkInv
<1>1. CASE Admitted(i)
  <2>1. PICK c \in Consumers : Admit(c) /\ i = Min(Chosen(con[c].seen))
    BY <1>1 DEF Admitted
  <2>. QED BY <2>1 DEF Admit, AuditedPtr
<1>2. CASE ~Admitted(i)
  <2>1. item[i].st = "ACTIVE"
    BY <1>2, ItemMoves DEF ItemRises
  <2>2. ~\E p \in Packets : FinalizeReady(i, p)
    BY <2>1 DEF FinalizeReady, FinalBound
  <2>. QED BY <2>1, <2>2, PointerKinds DEF PointerKind, WorkInv
<1>. QED BY <1>1, <1>2

LEMMA ReturnedFinite ==
    ASSUME events \in Seq(Events), NEW i
    PROVE  /\ IsFiniteSet(Returned(i)) /\ Cardinality(Returned(i)) \in Nat
           /\ Cardinality(Returned(i)) <= Len(events)
<1>1. DOMAIN events = 1..Len(events) /\ Len(events) \in Nat
  OBVIOUS
<1>2. IsFiniteSet(1..Len(events)) /\ Cardinality(1..Len(events)) = Len(events)
  BY <1>1, FS_Interval
<1>3. Returned(i) \subseteq 1..Len(events)
  BY <1>1 DEF Returned
<1>. QED BY <1>2, <1>3, FS_Subset, FS_CardinalityType

LEMMA GenMoves ==
    ASSUME Types, Types', Len(events) <= MaxEvents, ReaderInv, PromotionInv, GenInv, PortfolioNext
    PROVE  GenInv'
<1>. SUFFICES ASSUME NEW i \in Issues
              PROVE  item'[i].gen >= 1 /\ item'[i].gen <= MaxGen + Cardinality(Returned(i)')
  BY DEF GenInv
<1>0. item[i] \in Items /\ item'[i] \in Items /\ ItemMove(i) /\ EventsMove
      /\ item[i].gen \in Nat /\ item'[i].gen \in Nat
  BY ItemMoves, EventMoves DEF Types, Items
<1>1. PICK R : R = Returned(i)
  OBVIOUS
<1>2. PICK Q : Q = Returned(i)'
  OBVIOUS
<1>3. IsFiniteSet(R) /\ Cardinality(R) \in Nat
  BY <1>1, ReturnedFinite DEF Types
<1>4. IsFiniteSet(Q) /\ Cardinality(Q) \in Nat
  <2>1. events' \in Seq(Events)
    BY DEF Types
  <2>2. DOMAIN events' = 1..Len(events') /\ Len(events') \in Nat
    BY <2>1
  <2>3. Q \subseteq 1..Len(events')
    BY <1>2, <2>2 DEF Returned
  <2>4. IsFiniteSet(1..Len(events'))
    BY <2>2, FS_Interval
  <2>. QED BY <2>3, <2>4, FS_Subset, FS_CardinalityType
<1>5. item[i].gen >= 1 /\ item[i].gen <= MaxGen + Cardinality(R)
  BY <1>1 DEF GenInv
<1>6. \/ item'[i].gen = item[i].gen \/ Reopens(i)
      \/ item[i].gen < item'[i].gen /\ item'[i].gen <= MaxGen
  BY <1>0 DEF ItemMove, Rewrites, StepsOn, Items
<1>7. item[i].gen <= item'[i].gen
  BY <1>0, <1>6 DEF Reopens
<1>8. \A k \in DOMAIN events : events[k].gen \in Int /\ k \in DOMAIN events'
    /\ SameEvent(events'[k], events[k])
  BY <1>0, EventFields DEF EventsMove, Events
<1>9. R \subseteq Q
  BY <1>0, <1>1, <1>2, <1>7, <1>8 DEF Returned, SameEvent
<1>10. Cardinality(R) <= Cardinality(Q)
  BY <1>4, <1>9, FS_Subset
<1>11. CASE item'[i].gen = item[i].gen
  BY <1>0, <1>2, <1>3, <1>4, <1>5, <1>10, <1>11, ConstantFacts
<1>12. CASE item'[i].gen = item[i].gen + 1 /\ item[i].gen < MaxGen
  BY <1>0, <1>2, <1>4, <1>5, <1>12, ConstantFacts
<1>13. CASE item'[i].gen = item[i].gen + 1 /\ ptr[i].ready /\ ptr[i].gen = item[i].gen
  <2>1. PICK k \in DOMAIN events : Promotes(events[k], i, item[i].gen)
    BY <1>13 DEF PromotionInv
  <2>2. k \notin R /\ k \in Q
    BY <1>0, <1>1, <1>2, <1>8, <1>13, <2>1 DEF Returned, Promotes, SameEvent
  <2>3. Cardinality(R \cup {k}) = Cardinality(R) + 1
    BY <1>3, <2>2, FS_AddElement
  <2>4. R \cup {k} \subseteq Q
    BY <1>9, <2>2
  <2>5. Cardinality(R) + 1 <= Cardinality(Q)
    BY <1>4, <2>3, <2>4, FS_Subset
  <2>. QED BY <1>0, <1>2, <1>3, <1>4, <1>5, <1>13, <2>5, ConstantFacts
<1>14. CASE item'[i].gen <= MaxGen
  BY <1>0, <1>2, <1>4, <1>5, <1>7, <1>14, ConstantFacts
<1>. QED BY <1>6, <1>11, <1>12, <1>13, <1>14 DEF Reopens

-----------------------------------------------------------------------------
(* Running work, hosted operations and the rest.                            *)

LEMMA PlainMoves ==
    ASSUME PortfolioNext
    PROVE  /\ ReserveHosted \/ ReleaseHosted \/ UNCHANGED hosted
           /\ Change \/ UNCHANGED changes
           /\ UNCHANGED main \/ \E m \in 0..1 : MoveMain(m)
<1>. DEFINE Quiet == UNCHANGED hosted /\ (Change \/ UNCHANGED changes) /\ UNCHANGED main
<1>1. ASSUME NEW c \in Consumers, ConsumerNext(c) PROVE Quiet
  BY <1>1, Zenon DEF ConsumerNext, BeginEvent, BeginAudit, ReadFails, Die, CommitAudit, Fenced,
     ReleaseOver, ReleaseWaits, CursorDrifted, NothingChosen, Admit, AdmissionUndone, RecordRetry
<1>2. ASSUME NEW i \in Issues,
             \/ Examine(i) \/ ExaminationStale(i) \/ StopRevoked(i) \/ EditIssue(i)
             \/ Replans(i) \/ Deliver(i) \/ RecoverUnclaimed(i)
      PROVE  Quiet
  BY <1>2 DEF Examine, ExaminationStale, StopRevoked, EditIssue, Replans, Replan, Deliver, RecoverUnclaimed
<1>3. ASSUME NEW i \in Issues, NEW p \in Packets,
             RegisterCandidate(i, p) \/ FinalizeReady(i, p) \/ \E b \in BlockSets : PrepareZeroWip(i, b, p)
      PROVE  Quiet
  BY <1>3, Zenon DEF RegisterCandidate, FinalizeReady, PrepareZeroWip
<1>4. ASSUME NEW b \in BlockSets, ReplaceGraph(b) PROVE Quiet
  BY <1>4 DEF ReplaceGraph
<1>5. ASSUME AskQuarantine \/ Quarantine \/ SyncHead PROVE Quiet
  BY <1>5 DEF AskQuarantine, Quarantine, SyncHead
<1>6. ASSUME ReserveHosted PROVE Change /\ UNCHANGED main
  BY <1>6 DEF ReserveHosted
<1>7. ASSUME ReleaseHosted PROVE UNCHANGED changes /\ UNCHANGED main
  BY <1>7 DEF ReleaseHosted
<1>8. ASSUME \E m \in 0..1 : MoveMain(m) PROVE Change /\ UNCHANGED hosted
  BY <1>8 DEF MoveMain
<1>. QED BY <1>1, <1>2, <1>3, <1>4, <1>5, <1>6, <1>7, <1>8, Zenon DEF PortfolioNext, PlannerNext, WorldNext, Replans

LEMMA PlainTypes ==
    ASSUME Types, PortfolioNext
    PROVE  main' \in Int /\ hosted' \in 0..1 /\ changes' \in 0..MaxChanges
<1>1. main' \in Int
  BY PlainMoves DEF Types, MoveMain
<1>2. hosted' \in 0..1
  BY PlainMoves DEF Types, ReserveHosted, ReleaseHosted
<1>3. changes' \in 0..MaxChanges
  BY PlainMoves, ConstantFacts DEF Types, Change
<1>. QED BY <1>1, <1>2, <1>3

LEMMA WorkingFinite ==
    ASSUME Types
    PROVE  IsFiniteSet(Working) /\ Cardinality(Working) \in Nat /\ Free \in Int
<1>1. IsFiniteSet(Working)
  BY ConstantFacts, FS_Subset DEF Working
<1>2. Cardinality(Working) \in Nat
  BY <1>1, FS_CardinalityType
<1>. QED BY <1>1, <1>2, ConstantFacts DEF Free, Types

LEMMA WorkMoves ==
    ASSUME Types, Types', WorkFits, PortfolioNext
    PROVE  WorkFits'
<1>0. hosted \in 0..1 /\ hosted' \in 0..1
  BY DEF Types
<1>1. PICK W, V : W = Working /\ V = Working'
  OBVIOUS
<1>2. /\ IsFiniteSet(W) /\ Cardinality(W) \in Nat /\ Free = Capacity - Cardinality(W) - hosted
      /\ Cardinality(W) + hosted <= Capacity /\ \A i, j \in W : {i, j} \notin Collides \/ i = j
  BY <1>1, WorkingFinite DEF WorkFits, Free
<1>3. SUFFICES Cardinality(V) + hosted' <= Capacity /\ \A i, j \in V : {i, j} \notin Collides \/ i = j
  BY <1>1 DEF WorkFits
<1>4. ASSUME NEW c \in Consumers, Admit(c)
      PROVE  Cardinality(V) + hosted' <= Capacity /\ \A i, j \in V : {i, j} \notin Collides \/ i = j
  <2>1. PICK i : i = Min(Chosen(con[c].seen))
    OBVIOUS
  <2>2. i \in Issues /\ item[i].st = "READY" /\ Free > 0
    BY <1>4, <2>1, MinChosen, ChosenIsValid, WorkingFinite DEF Admit
  <2>3. \A j \in W : {i, j} \notin Collides
    BY <1>1, <1>4, <2>1 DEF Admit, TransitionAllowed, Collision
  <2>4. item'[i].st = "ACTIVE"
    BY <1>4, <2>1, <2>2, AdmitMovesItems, ItemFields DEF StepsOn, Items
  <2>5. \A j \in Issues : j # i => (item'[j].st = "ACTIVE" <=> item[j].st = "ACTIVE")
    <3>. SUFFICES ASSUME NEW j \in Issues, j # i PROVE item'[j].st = "ACTIVE" <=> item[j].st = "ACTIVE"
      OBVIOUS
    <3>1. item'[j] = AuditedItem(con[c].seen)[j]
      BY <1>4, <2>1, AdmitMovesItems
    <3>2. CASE j \in Recovered(con[c].seen)
      <4>1. item[j].st = "READY"
        BY <3>2, RecoveredIsReady
      <4>2. item'[j] = [st |-> "PREPARED", gen |-> item[j].gen + 1, ver |-> 0, src |-> src[j]]
        BY <3>1, <3>2, AuditedItems
      <4>. QED BY <4>1, <4>2
    <3>3. CASE j \notin Recovered(con[c].seen)
      BY <3>1, <3>3, AuditedItems
    <3>. QED BY <3>2, <3>3
  <2>6. V = W \cup {i} /\ i \notin W
    BY <1>1, <2>2, <2>4, <2>5 DEF Working
  <2>7. Cardinality(V) = Cardinality(W) + 1
    BY <1>2, <2>6, FS_AddElement
  <2>8. hosted' = hosted
    BY <1>4 DEF Admit
  <2>9. Cardinality(V) + hosted' <= Capacity
    BY <1>0, <1>2, <2>2, <2>7, <2>8, ConstantFacts
  <2>10. \A j : {j, i} = {i, j}
    OBVIOUS
  <2>11. \A j \in V : j \in W \/ j = i
    BY <2>6
  <2>. QED BY <1>2, <2>3, <2>9, <2>10, <2>11
<1>5. ASSUME \A c \in Consumers : ~Admit(c) PROVE V \subseteq W
  BY <1>1, <1>5, ItemMoves DEF Working, ItemRises, Admitted
<1>6. ASSUME V \subseteq W PROVE Cardinality(V) <= Cardinality(W) /\ Cardinality(V) \in Nat
  BY <1>2, <1>6, FS_Subset, FS_CardinalityType
<1>7. CASE (\A c \in Consumers : ~Admit(c)) /\ ~ReserveHosted
  <2>1. hosted' <= hosted
    BY <1>0, <1>7, PlainMoves DEF ReleaseHosted
  <2>2. V \subseteq W /\ Cardinality(V) <= Cardinality(W) /\ Cardinality(V) \in Nat
    BY <1>5, <1>6, <1>7
  <2>. QED BY <1>0, <1>2, <2>1, <2>2, ConstantFacts
<1>8. CASE (\A c \in Consumers : ~Admit(c)) /\ ReserveHosted
  <2>1. hosted' = hosted + 1 /\ Free > 0
    BY <1>8 DEF ReserveHosted
  <2>2. V \subseteq W /\ Cardinality(V) <= Cardinality(W) /\ Cardinality(V) \in Nat
    BY <1>5, <1>6, <1>8
  <2>. QED BY <1>0, <1>2, <2>1, <2>2, ConstantFacts
<1>. QED BY <1>4, <1>7, <1>8

-----------------------------------------------------------------------------
(* The whole invariant.                                                     *)

LEMMA NextTypes ==
    ASSUME PortfolioInv, PortfolioNext
    PROVE  Types' /\ Len(events') <= MaxEvents /\ ReaderInv' /\ EventsMove
<1>1. EventsMove
  BY EventMoves DEF PortfolioInv
<1>2. con' \in [Consumers -> Readers] /\ ReaderInv'
  BY <1>1, ReadersStay DEF PortfolioInv
<1>3. graph' \in Graphs /\ src' \in [Issues -> Nat]
  BY GraphMoves DEF PortfolioInv
<1>4. item' \in [Issues -> Items] /\ camp' \in [Issues -> Camps]
  BY ItemMoves, CampMoves DEF PortfolioInv
<1>5. ptr' \in [Issues -> Cands] /\ retired' \subseteq Issues \X Cands
  BY PointerTypes DEF PortfolioInv
<1>6. main' \in Int /\ hosted' \in 0..1 /\ changes' \in 0..MaxChanges
  BY PlainTypes DEF PortfolioInv
<1>7. events' \in Seq(Events) /\ Len(events') <= MaxEvents
  BY <1>1 DEF EventsMove
<1>. QED BY <1>1, <1>2, <1>3, <1>4, <1>5, <1>6, <1>7 DEF Types

LEMMA StepInv ==
    ASSUME PortfolioInv, PortfolioNext
    PROVE  PortfolioInv'
<1>1. Types' /\ Len(events') <= MaxEvents /\ ReaderInv' /\ EventsMove
  BY NextTypes
<1>2. GraphInv' /\ graph.v <= graph'.v
  BY GraphMoves DEF PortfolioInv
<1>3. CandInv' /\ RetiredIsGone'
  BY <1>1, <1>2, PointerMoves DEF PortfolioInv
<1>4. PromotionInv' /\ GenInv' /\ WorkInv'
  BY <1>1, PromotionMoves, GenMoves, WorkKept DEF PortfolioInv
<1>5. WorkFits'
  BY <1>1, WorkMoves DEF PortfolioInv
<1>6. AdmissionInv' /\ AdmittedOnce'
  BY <1>1, AdmissionMoves DEF PortfolioInv
<1>7. AttemptInv'
  BY <1>1, AttemptMoves DEF PortfolioInv
<1>. QED BY <1>1, <1>2, <1>3, <1>4, <1>5, <1>6, <1>7 DEF PortfolioInv

LEMMA StutterInv ==
    ASSUME PortfolioInv, UNCHANGED vars
    PROVE  PortfolioInv'
<1>1. UNCHANGED <<main, src, graph, item, ptr, retired, camp, events, con, hosted, changes>>
  BY DEF vars, buffer
<1>2. Types' /\ ReaderInv' /\ Len(events') <= MaxEvents
  BY <1>1 DEF PortfolioInv, Types, ReaderInv
<1>3. GraphInv' /\ CandInv' /\ RetiredIsGone'
  BY <1>1 DEF PortfolioInv, GraphInv, GraphHonest, GraphCurrent, CandInv, CandOld, RetiredIsGone
<1>4. PromotionInv' /\ GenInv' /\ WorkInv'
  BY <1>1 DEF PortfolioInv, PromotionInv, Promotes, GenInv, Returned, WorkInv
<1>5. WorkFits'
  BY <1>1 DEF PortfolioInv, WorkFits, Working
<1>6. AdmissionInv' /\ AdmittedOnce'
  BY <1>1 DEF PortfolioInv, AdmissionInv, AdmitsAt, AdmittedOnce
<1>7. AttemptInv'
  BY <1>1 DEF PortfolioInv, AttemptInv, AttemptAt, FailedOn
<1>. QED BY <1>2, <1>3, <1>4, <1>5, <1>6, <1>7 DEF PortfolioInv

LEMMA PortfolioInvHolds == Spec => []PortfolioInv
<1>1. PortfolioInv /\ [PortfolioNext]_vars => PortfolioInv'
  BY StepInv, StutterInv
<1>. QED BY <1>1, InitInv, PTL DEF Spec

\* Some undelivered issue is blocked by no undelivered one: the blocks have no cycle.
LEMMA InvSomethingIsReady == PortfolioInv => SomethingIsReady
<1>. SUFFICES ASSUME PortfolioInv, \E i \in Issues : ~Terminal(i)
              PROVE  \E i \in Issues : StructurallyReady(i)
  BY DEF SomethingIsReady
<1>1. PICK b \in BlockSets : graph.blocks = b /\ ValidPlan(b)
  BY DEF PortfolioInv, GraphInv
<1>2. PICK U \in SUBSET Issues : U = {i \in Issues : ~Terminal(i)}
  OBVIOUS
<1>3. U # {} /\ Acyclic(b)
  BY <1>1, <1>2 DEF ValidPlan
<1>4. PICK i \in U : \A j \in U : <<j, i>> \notin b
  BY <1>3, AcyclicIsWellFounded
<1>. QED BY <1>1, <1>2, <1>4 DEF StructurallyReady, Blockers

LEMMA InvTypeOK == PortfolioInv => TypeOK
<1>. SUFFICES ASSUME PortfolioInv PROVE TypeOK
  OBVIOUS
<1>1. Types /\ GenInv /\ Len(events) <= MaxEvents
  BY DEF PortfolioInv
<1>2. ASSUME NEW i \in Issues
      PROVE  /\ item[i].st \in {"PREPARED", "READY", "ACTIVE", "DONE", "HOLD"}
             /\ item[i].gen \in 1..MaxGen + MaxEvents
             /\ camp[i].st \in {"NONE", "ELIGIBLE", "FINALIZED", "STALE", "HOLD"}
  <2>1. PICK n : n = Cardinality(Returned(i))
    OBVIOUS
  <2>2. n \in Nat /\ n <= Len(events) /\ Len(events) \in Nat
    BY <1>1, <2>1, ReturnedFinite DEF Types
  <2>3. item[i].gen >= 1 /\ item[i].gen <= MaxGen + n /\ item[i].gen \in Nat
    BY <1>1, <2>1, ItemFields DEF GenInv
  <2>4. item[i].gen \in 1..MaxGen + MaxEvents
    BY <1>1, <2>2, <2>3, ConstantFacts
  <2>. QED BY <1>1, <2>4 DEF Types, Items, Statuses, Camps
<1>3. \A k \in DOMAIN events : events[k].st \in {"PENDING", "RETRY", "HOLD", "COMPLETE"}
    /\ events[k].att \in Nat
  BY <1>1, EventFields
<1>4. /\ graph.err \in {"none", "MAIN", "SOURCE"} /\ hosted \in 0..1 /\ changes \in 0..MaxChanges
      /\ \A c \in Consumers : con[c].pc \in {"idle", "loaded", "failed"}
  BY <1>1 DEF Types, Graphs, Readers
<1>. QED BY <1>2, <1>3, <1>4 DEF TypeOK

LEMMA InvAttemptsBounded == PortfolioInv => AttemptsBounded
<1>. SUFFICES ASSUME PortfolioInv, NEW k \in DOMAIN events
              PROVE  events[k].att <= MaxAttempts + Cardinality(Consumers) - 1
  BY DEF AttemptsBounded
<1>1. events[k].att \in Nat /\ AttemptAt(k)
  BY EventFields DEF PortfolioInv, AttemptInv
<1>2. PICK n : n = Cardinality(FailedOn(k))
  OBVIOUS
<1>3. n \in Nat
  <2>1. FailedOn(k) \subseteq Consumers
    BY DEF FailedOn
  <2>. QED BY <1>2, <2>1, FS_Subset, FS_CardinalityType, ConstantFacts
<1>. QED BY <1>1, <1>2, <1>3, ConstantFacts DEF AttemptAt

\* All of PortfolioIsSound: the graph is honest and never locks, retired packets stay
\* retired, work fits, and each event is spent once within its attempts.
THEOREM PortfolioSound == Spec => []PortfolioIsSound
<1>1. PortfolioInv => PortfolioIsSound
  BY InvSomethingIsReady, InvTypeOK, InvAttemptsBounded DEF PortfolioIsSound, PortfolioInv, GraphInv
<1>. QED BY <1>1, PortfolioInvHolds, PTL

-----------------------------------------------------------------------------
(* What a move may do.                                                      *)

\* What a consumer admits is current when it commits.
LEMMA AdmitIsCurrent ==
    ASSUME PortfolioInv, NEW i \in Issues, Admitted(i)
    PROVE  /\ main = graph.obs /\ main = graph.acc /\ GraphCurrent
           /\ item[i].st = "READY" /\ item[i].src = src[i] /\ src[i] = graph.nsrc[i]
           /\ Blockers(i) = {} /\ Attested(i)
<1>. USE DEF PortfolioInv
<1>1. PICK c \in Consumers : Admit(c) /\ i = Min(Chosen(con[c].seen))
  BY DEF Admitted
<1>2. i \in Chosen(con[c].seen)
  BY <1>1, MinChosen DEF Admit
<1>3. GraphCurrent /\ item[i].st = "READY" /\ item[i].src = src[i] /\ Attested(i)
  BY <1>2, ChosenIsValid
<1>4. main = graph.obs
  BY <1>1 DEF Admit, MainHeld, CursorMatches
<1>5. TransitionAllowed(i, TRUE)
  BY <1>1 DEF Admit
<1>6. graph.obs = graph.acc
  BY <1>3 DEF GraphInv, GraphHonest
<1>. QED BY <1>3, <1>4, <1>5, <1>6 DEF TransitionAllowed, SourceNamed

\* How an issue may leave READY.
LeavesReady(i) ==
    \/ item'[i].st = "ACTIVE" /\ camp'[i].st = "FINALIZED" /\ ptr'[i] = NoCand
    \/ /\ item'[i].st = "PREPARED" /\ item'[i].gen = item[i].gen + 1
       /\ camp'[i].st = "STALE" /\ ptr'[i] = NoCand
    \/ item'[i].st = "HOLD" /\ camp'[i].st = "HOLD" /\ ptr'[i] = NoCand
    \/ /\ UNCHANGED <<buffer, events, graph>> /\ GraphCurrent
       /\ item'[i].st \in {"PREPARED", "HOLD", "DONE"} /\ item'[i].src = src[i]
       /\ item'[i].st = "PREPARED" => item'[i].gen > item[i].gen

\* An ordinary call takes the item alone, and not back within its generation.
LEMMA ReplanLeaves ==
    ASSUME Types, NEW j \in Issues, Replans(j), NEW i \in Issues, item[i].st = "READY", item'[i].st # "READY"
    PROVE  LeavesReady(i)
<1>1. PICK s \in DOMAIN Rank, g \in item[j].gen..MaxGen : Replan(j, s, g)
  BY DEF Replans
<1>2. /\ \A l \in Issues : l # j => item'[l] = item[l]
      /\ item'[j].st = s /\ item'[j].gen = g /\ item'[j].src = src[j]
      /\ ItemMove(j) /\ item' \in [Issues -> Items]
  BY <1>1, Rewritten
<1>3. i = j
  BY <1>2
<1>4. item'[i].st \in {"PREPARED", "HOLD", "DONE"}
  BY <1>1, <1>2, <1>3 DEF Replan, GatewayOk, Rank
<1>5. item'[i].st = "PREPARED" => item'[i].gen > item[i].gen
  BY <1>1, <1>2, <1>3 DEF Replan, OrderOk, Rank
<1>6. UNCHANGED <<buffer, events, graph>> /\ GraphCurrent
  BY <1>1 DEF Replan, SourceNamed
<1>. QED BY <1>2, <1>3, <1>4, <1>5, <1>6 DEF LeavesReady

\* Whoever takes an issue out of READY.
LEMMA ReadyLeavers ==
    ASSUME Types, PortfolioNext, NEW i \in Issues, item[i].st = "READY", item'[i].st # "READY"
    PROVE  \/ \E j \in Issues : Replans(j)
           \/ Quarantine \/ \E c \in Consumers : CommitAudit(c) \/ NothingChosen(c) \/ Admit(c)
<1>1. ASSUME NEW j \in Issues, Deliver(j) \/ RecoverUnclaimed(j) PROVE FALSE
  <2>1. item[j].st # "READY" /\ \A l \in Issues \ {j} : item'[l] = item[l]
    BY <1>1 DEF Deliver, RecoverUnclaimed, Unclaimed, Types
  <2>. QED BY <2>1
<1>2. ASSUME NEW j \in Issues, NEW p \in Packets, FinalizeReady(j, p) PROVE FALSE
  <2>1. item[j].st # "READY" /\ \A l \in Issues \ {j} : item'[l] = item[l]
    BY <1>2 DEF FinalizeReady, FinalBound, Types
  <2>. QED BY <2>1
<1>3. ASSUME NEW j \in Issues, NEW p \in Packets, NEW b \in BlockSets, PrepareZeroWip(j, b, p) PROVE FALSE
  <2>1. item[j].st # "READY" /\ \A l \in Issues \ {j} : item'[l] = item[l]
    BY <1>3 DEF PrepareZeroWip, Types
  <2>. QED BY <2>1
<1>. QED BY <1>1, <1>2, <1>3, ItemMovers

LEMMA LeavesWhole ==
    ASSUME PortfolioInv, PortfolioNext, NEW i \in Issues, item[i].st = "READY", item'[i].st # "READY"
    PROVE  LeavesReady(i)
<1>. USE DEF PortfolioInv
<1>0. item[i] \in Items /\ item[i].gen \in Nat /\ camp[i] \in Camps
  BY ItemFields DEF Types
<1>1. CASE Quarantine
  <2>1. item' = QuarantinedItem /\ camp' = QuarantinedCamp
    BY <1>1 DEF Quarantine
  <2>2. i \in Unattested /\ item'[i] = [item[i] EXCEPT !.st = "HOLD"]
    BY <2>1 DEF QuarantinedItem
  <2>3. camp[i].st # "NONE"
    BY DEF PromotionInv
  <2>4. camp'[i] = [camp[i] EXCEPT !.st = "HOLD"]
    BY <2>1, <2>2, <2>3 DEF QuarantinedCamp
  <2>5. ptr'[i] = NoCand
    BY <1>1, <2>2 DEF Quarantine
  <2>. QED BY <1>0, <2>2, <2>4, <2>5 DEF Items, Camps, LeavesReady
<1>2. ASSUME NEW seen, i \in Recovered(seen), item'[i] = AuditedItem(seen)[i], camp' = AuditedCamp(seen),
             ptr'[i] = NoCand
      PROVE  LeavesReady(i)
  <2>1. item'[i] = [st |-> "PREPARED", gen |-> item[i].gen + 1, ver |-> 0, src |-> src[i]]
    BY <1>2, AuditedItems
  <2>2. camp'[i] = [camp[i] EXCEPT !.st = "STALE"]
    BY <1>2 DEF AuditedCamp
  <2>. QED BY <1>0, <1>2, <2>1, <2>2 DEF Camps, LeavesReady
<1>3. ASSUME NEW c \in Consumers, CommitAudit(c) \/ NothingChosen(c)
      PROVE  LeavesReady(i)
  <2>1. item' = AuditedItem(con[c].seen) /\ camp' = AuditedCamp(con[c].seen)
    BY <1>3 DEF CommitAudit, NothingChosen, Audit
  <2>2. i \in Recovered(con[c].seen)
    BY <2>1, AuditedItems
  <2>3. ptr'[i] = NoCand
    BY <1>3, <2>2 DEF CommitAudit, NothingChosen, Audit, AuditedPtr, Recovered
  <2>. QED BY <1>2, <2>1, <2>2, <2>3
<1>4. ASSUME NEW c \in Consumers, Admit(c)
      PROVE  LeavesReady(i)
  <2>1. camp' = AuditedCamp(con[c].seen)
    BY <1>4 DEF Admit
  <2>2. CASE i = Min(Chosen(con[c].seen))
    <3>1. item'[i].st = "ACTIVE"
      BY <1>0, <1>4, <2>2, AdmitMovesItems DEF StepsOn, Items
    <3>2. i \in Chosen(con[c].seen)
      BY <1>4, <2>2, MinChosen DEF Admit
    <3>3. Attested(i) /\ i \notin AuditInvalid(con[c].seen)
      BY <3>2, ChosenIsValid
    <3>4. i \notin Recovered(con[c].seen)
      BY <3>3 DEF Recovered
    <3>5. camp'[i] = camp[i]
      BY <2>1, <3>4 DEF AuditedCamp
    <3>6. ptr'[i] = NoCand
      BY <1>4, <2>2 DEF Admit, AuditedPtr
    <3>. QED BY <3>1, <3>3, <3>5, <3>6 DEF Attested, LeavesReady
  <2>3. CASE i # Min(Chosen(con[c].seen))
    <3>1. item'[i] = AuditedItem(con[c].seen)[i]
      BY <1>4, <2>3, AdmitMovesItems
    <3>2. i \in Recovered(con[c].seen)
      BY <3>1, AuditedItems
    <3>3. ptr'[i] = NoCand
      BY <1>4, <3>2 DEF Admit, AuditedPtr, Recovered
    <3>. QED BY <1>2, <2>1, <3>1, <3>2, <3>3
  <2>. QED BY <2>2, <2>3
<1>. QED BY <1>1, <1>3, <1>4, ReadyLeavers, ReplanLeaves

\* Who answers the operator's request.
LEMMA InventoryMovers ==
    ASSUME PortfolioNext
    PROVE  Quarantine \/ AskQuarantine \/ UNCHANGED inv
<1>1. ASSUME NEW c \in Consumers, ConsumerNext(c) PROVE UNCHANGED inv
  BY <1>1, Zenon DEF ConsumerNext, BeginEvent, BeginAudit, ReadFails, Die, CommitAudit, Fenced,
     ReleaseOver, ReleaseWaits, CursorDrifted, NothingChosen, Admit, AdmissionUndone, RecordRetry
<1>2. ASSUME NEW i \in Issues,
             \/ Examine(i) \/ ExaminationStale(i) \/ StopRevoked(i) \/ EditIssue(i)
             \/ Replans(i) \/ Deliver(i) \/ RecoverUnclaimed(i)
      PROVE  UNCHANGED inv
  BY <1>2 DEF Examine, ExaminationStale, StopRevoked, EditIssue, Replans, Replan, Deliver, RecoverUnclaimed
<1>3. ASSUME NEW i \in Issues, NEW p \in Packets,
             RegisterCandidate(i, p) \/ FinalizeReady(i, p) \/ \E b \in BlockSets : PrepareZeroWip(i, b, p)
      PROVE  UNCHANGED inv
  BY <1>3, Zenon DEF RegisterCandidate, FinalizeReady, PrepareZeroWip
<1>4. ASSUME NEW b \in BlockSets, ReplaceGraph(b) PROVE UNCHANGED inv
  BY <1>4 DEF ReplaceGraph
<1>5. ASSUME SyncHead \/ ReserveHosted \/ ReleaseHosted \/ \E m \in 0..1 : MoveMain(m) PROVE UNCHANGED inv
  BY <1>5 DEF SyncHead, ReserveHosted, ReleaseHosted, MoveMain
<1>. QED BY <1>1, <1>2, <1>3, <1>4, <1>5, Zenon DEF PortfolioNext, PlannerNext, WorldNext, Replans

LEMMA QuarantineSees ==
    ASSUME PortfolioInv, PortfolioNext, inv.st = "asked", inv'.st = "done", NEW i \in Issues
    PROVE  IF i \in DOMAIN inv.of
           THEN IF ExactRow(inv.of[i])
                THEN item'[i] = inv.of[i].item /\ ptr'[i] = inv.of[i].ptr
                ELSE item'[i].st = "HOLD" /\ ptr'[i] = NoCand
           ELSE item'[i] = item[i]
<1>1. Quarantine
  BY InventoryMovers DEF AskQuarantine
<1>2. inv.of = Inventory
  BY <1>1 DEF Quarantine, NoRequest, InventoryHeld
<1>3. /\ item' = QuarantinedItem
      /\ ptr' = [j \in Issues |-> IF j \in Unattested THEN NoCand ELSE ptr[j]]
  BY <1>1, <1>2 DEF Quarantine, InventoryHeld
<1>4. /\ item'[i] = IF i \in Unattested THEN [item[i] EXCEPT !.st = "HOLD"] ELSE item[i]
      /\ ptr'[i] = IF i \in Unattested THEN NoCand ELSE ptr[i]
  BY <1>3 DEF QuarantinedItem
<1>5. DOMAIN inv.of = ReadyItems
  BY <1>2 DEF Inventory
<1>6. CASE i \in ReadyItems
  <2>1. inv.of[i].item = item[i] /\ inv.of[i].ptr = ptr[i] /\ inv.of[i].camp = camp[i]
    BY <1>2, <1>6 DEF Inventory
  <2>2. ExactRow(inv.of[i]) <=> i \notin Unattested
    BY <1>6, <2>1 DEF ExactRow, Unattested, Exact, Attested, ItemMatches, ReadyItems
  <2>3. i \in Unattested => item'[i].st = "HOLD"
    <3>1. item[i] \in Items
      BY ItemFields DEF PortfolioInv
    <3>. QED BY <1>4, <3>1 DEF Items
  <2>. QED BY <1>4, <1>5, <1>6, <2>1, <2>2, <2>3, Zenon
<1>7. CASE i \notin ReadyItems
  <2>1. i \notin Unattested
    BY <1>7 DEF Unattested
  <2>. QED BY <1>4, <1>5, <1>7, <2>1
<1>. QED BY <1>6, <1>7

\* All of MovesAreCurrent: what is admitted is current at the commit, READY is left with
\* its campaign or by an ordinary call alone, and the quarantine holds exactly what the operator was shown.
THEOREM PortfolioMovesAreCurrent == Spec => MovesAreCurrent
<1>. DEFINE A1 == \A i \in Issues : (item[i].st # "ACTIVE" /\ item'[i].st = "ACTIVE") =>
                    /\ main = graph.obs /\ main = graph.acc /\ GraphCurrent
                    /\ item[i].st = "READY" /\ item[i].src = src[i] /\ src[i] = graph.nsrc[i]
                    /\ Blockers(i) = {} /\ Attested(i)
            A2 == \A i \in Issues : (item[i].st = "READY" /\ item'[i].st # "READY") => LeavesReady(i)
            A3 == (inv.st = "asked" /\ inv'.st = "done") =>
                    \A i \in Issues :
                        IF i \in DOMAIN inv.of
                        THEN IF ExactRow(inv.of[i])
                             THEN item'[i] = inv.of[i].item /\ ptr'[i] = inv.of[i].ptr
                             ELSE item'[i].st = "HOLD" /\ ptr'[i] = NoCand
                        ELSE item'[i] = item[i]
<1>1. PortfolioInv /\ PortfolioNext => A1
  BY AdmitIsCurrent, ItemMoves DEF ItemRises, PortfolioInv
<1>2. PortfolioInv /\ PortfolioNext => A2
  BY LeavesWhole
<1>3. PortfolioInv /\ PortfolioNext => A3
  BY QuarantineSees
<1>. HIDE DEF A1, A2, A3
<1>4. PortfolioInv /\ [PortfolioNext]_vars => [A1]_vars /\ [A2]_vars /\ [A3]_vars
  BY <1>1, <1>2, <1>3
<1>5. Spec => [][A1]_vars /\ [][A2]_vars /\ [][A3]_vars
  BY <1>4, PortfolioInvHolds, PTL DEF Spec
<1>. QED BY <1>5 DEF MovesAreCurrent, AdmittedCurrent, ReadyLeavesWhole, QuarantineAsSeen, LeavesReady, A1, A2, A3
=============================================================================
