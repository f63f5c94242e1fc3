-------------------------- MODULE ReadinessProofs --------------------------
(***************************************************************************)
(* Proofs about Readiness for every number of cycles, pickup attempts,     *)
(* campaigns, attempts and changes of the world, and every set of action   *)
(* lists.                                                                  *)
(***************************************************************************)
EXTENDS Readiness, TLAPS, FiniteSetTheorems, SequenceTheorems

\* The rows.
Bindings == [gen : Nat, item : Sources, source : Sources, graph : Int, candidate : Int]
Requests == [open : BOOLEAN, dec : Decisions \cup {None}, consumed : {None, "STALE", "HOLD", "RESUMED"},
             notice : {None, "PREPARED", "COMPLETE"}, revisit : BOOLEAN]
Campaigns ==
    [kind : {"INITIAL", "REFRESH", "RESOLUTION", "APPROVAL_RESUME"}, bind : Bindings,
     ord : 0..MaxCycles, appr : Nat, msg : {None, "PREPARED", "CLAIMED", "COMPLETE", "HOLD"},
     atts : Seq({"RUNNING", "COMPLETE", "HOLD"}), pick : {None, "PENDING", "STAGED", "RECORDED", "HOLD"},
     tries : 0..MaxTries, art : Verdicts \cup {None}, acts : Seq({"source", "graph", "candidate"}),
     req : Requests]
Currents == [state : States, att : 0..MaxAttempts, ep : Nat, receipt : Verdicts \cup {None}]
Worlds == [gen : Nat, src : Sources, item : Sources, graph : Int, gsrc : Sources, cand : Int,
           cep : Nat, ep : Nat, status : {"PREPARED", "READY", "ACTIVE"}]
Notices == [state : {None, "PREPARED", "CLAIMED", "COMPLETE"}, started : SUBSET Nat, done : SUBSET Nat]
Acts == [k : Nat, i : Nat, step : {"idle", "effect", "rebind", "commit"}]

\* The rows beside the campaigns, and the action in flight: it is of a campaign that exists.
RowInv ==
    /\ world \in Worlds /\ drift \in 0..MaxDrift /\ cur \in Currents /\ notice \in Notices /\ act \in Acts
    /\ act.step # "idle" => act.k \in 1..n
    /\ revoked \subseteq 1..MaxCampaigns

\* What a successor takes over: generations only grow, the ordinal counts the resolutions
\* of the generation, and a resumed campaign follows the one it resumes.
Resolutions(g) == {j \in 1..n : camps[j].kind = "RESOLUTION" /\ camps[j].bind.gen = g}
ChainInv ==
    /\ camps \in Seq(Campaigns) /\ n <= MaxCampaigns
    /\ SuccessorIsResolved
    /\ \A j \in 1..n : camps[j].bind.gen <= Camp.bind.gen
    /\ \A g \in Nat : n > 0 /\ Camp.bind.gen = g => Cardinality(Resolutions(g)) = Camp.ord
    /\ \A g \in Nat : Cardinality(Resolutions(g)) <= MaxCycles
    /\ \A k \in 1..n : camps[k].kind = "APPROVAL_RESUME" => camps[k].appr = k - 1

\* A pickup is given up with its last attempt, a staged receipt says something, and a
\* request goes from the decision to its notice to its consumption.
CampOK(c) ==
    /\ c.tries >= MaxTries => c.pick = "HOLD"
    /\ c.pick = "STAGED" => c.art # None
    /\ c.req.dec = None <=> c.req.notice = None
    /\ c.req.dec # None => c.req.open
    /\ (c.req.notice = "COMPLETE") <=> (c.req.consumed # None)
RequestInv ==
    /\ \A k \in 1..n : CampOK(camps[k])
    /\ \A k \in 1..n : (k < n /\ camps[k + 1].kind = "APPROVAL_RESUME") <=> camps[k].req.consumed = "RESUMED"

\* A verdict on record came from the attempt that is attached; it stays as it was.
PhaseOK(c, s) ==
    /\ s.state = "PENDING" => c.pick = None
    /\ s.att # 0 => s.att \in DOMAIN c.atts
    /\ s.receipt # None => /\ s.state \notin {"ABSENT", "PENDING", "RUNNING"}
                           /\ s.att # 0 /\ c.atts[s.att] = "COMPLETE"
                           /\ c.pick = "RECORDED" /\ c.art = s.receipt /\ c.msg = "COMPLETE"
PhaseInv ==
    /\ n = 0 => cur.state = "ABSENT" /\ cur.receipt = None
    /\ n > 0 => PhaseOK(Camp, cur)

CampaignInv == RowInv /\ ChainInv /\ RequestInv /\ PhaseInv

-----------------------------------------------------------------------------
(* Changes of the chain.                                                    *)

LEMMA ChainFacts ==
    ASSUME ChainInv
    PROVE  /\ n \in Nat /\ DOMAIN camps = 1..n /\ \A k \in 1..n : camps[k] \in Campaigns
           /\ n > 0 => Camp \in Campaigns
BY DEF ChainInv, n, Camp

LEMMA ResolutionsFinite ==
    ASSUME n \in Nat, NEW g PROVE IsFiniteSet(Resolutions(g))
<1>1. IsFiniteSet(1..n)
  BY FS_Interval
<1>2. Resolutions(g) \subseteq 1..n
  BY DEF Resolutions
<1>. QED BY <1>1, <1>2, FS_Subset

LEMMA ChainKept ==
    ASSUME CampaignInv, UNCHANGED camps
    PROVE  ChainInv' /\ RequestInv' /\ n' = n
BY DEF CampaignInv, ChainInv, RequestInv, n, Camp, Resolutions, SuccessorIsResolved, Wants, DesiredSource, Desired, CampOK

\* One campaign is written over; what it was registered with stays.
LEMMA Rewritten ==
    ASSUME CampaignInv, NEW k \in 1..n, NEW c \in Campaigns, camps' = [camps EXCEPT ![k] = c],
           c.kind = camps[k].kind, c.bind = camps[k].bind, c.ord = camps[k].ord, c.appr = camps[k].appr,
           k = n \/ c.acts = camps[k].acts,
           CampOK(c), c.req.consumed = "RESUMED" <=> camps[k].req.consumed = "RESUMED"
    PROVE  /\ ChainInv' /\ RequestInv' /\ n' = n
           /\ k = n => Camp' = c
           /\ k # n => Camp' = Camp
<1>1. n \in Nat /\ DOMAIN camps = 1..n /\ camps \in Seq(Campaigns)
  BY ChainFacts DEF CampaignInv, ChainInv
<1>2. camps' \in Seq(Campaigns) /\ n' = n /\ DOMAIN camps' = 1..n
  <2>1. k \in 1..Len(camps)
    BY DEF n
  <2>2. /\ [camps EXCEPT ![k] = c] \in Seq(Campaigns) /\ Len([camps EXCEPT ![k] = c]) = Len(camps)
    BY <1>1, <2>1, ExceptSeq
  <2>3. Len(camps') = Len(camps) /\ camps' \in Seq(Campaigns)
    BY <2>2
  <2>. QED BY <1>1, <2>3 DEF n
<1>3. camps'[k] = c /\ \A j \in 1..n : j # k => camps'[j] = camps[j]
  BY <1>1
<1>4. \A j \in 1..n : /\ camps'[j].kind = camps[j].kind /\ camps'[j].bind = camps[j].bind
                      /\ camps'[j].ord = camps[j].ord /\ camps'[j].appr = camps[j].appr
                      /\ j < n => camps'[j].acts = camps[j].acts
  BY <1>1, <1>3
<1>5. n > 0 => Camp'.bind = Camp.bind /\ Camp'.ord = Camp.ord
  BY <1>1, <1>2, <1>4 DEF Camp
<1>6. \A g : Resolutions(g)' = Resolutions(g)
  BY <1>2, <1>4 DEF Resolutions
<1>7. SuccessorIsResolved'
  <2>. SUFFICES ASSUME NEW j \in 2..n, camps'[j].kind = "RESOLUTION"
                PROVE  /\ Wants(j - 1, "source")' => /\ camps'[j].bind.source = DesiredSource(j - 1)'
                                                     /\ camps'[j].bind.item = DesiredSource(j - 1)'
                       /\ Wants(j - 1, "graph")' => camps'[j].bind.graph = Desired(j - 1)
                       /\ Wants(j - 1, "candidate")' => camps'[j].bind.candidate = Desired(j - 1)
    BY <1>2 DEF SuccessorIsResolved, Desired
  <2>1. j \in 1..n /\ j - 1 \in 1..n /\ j - 1 < n
    BY <1>1
  <2>2. \A f : Wants(j - 1, f)' = Wants(j - 1, f)
    BY <1>4, <2>1 DEF Wants
  <2>3. DesiredSource(j - 1)' = DesiredSource(j - 1)
    BY <1>4, <2>1, <2>2 DEF DesiredSource, Desired
  <2>. QED BY <1>4, <2>1, <2>2, <2>3 DEF CampaignInv, ChainInv, SuccessorIsResolved
<1>8. ChainInv'
  <2>1. \A j \in 1..n : camps'[j].bind.gen <= Camp'.bind.gen
    BY <1>1, <1>4, <1>5 DEF CampaignInv, ChainInv
  <2>2. \A g \in Nat : n > 0 /\ Camp'.bind.gen = g => Cardinality(Resolutions(g)') = Camp'.ord
    BY <1>5, <1>6 DEF CampaignInv, ChainInv
  <2>3. \A g \in Nat : Cardinality(Resolutions(g)') <= MaxCycles
    BY <1>6 DEF CampaignInv, ChainInv
  <2>. QED BY <1>2, <1>4, <1>7, <2>1, <2>2, <2>3 DEF CampaignInv, ChainInv
<1>9. RequestInv'
  <2>1. \A j \in 1..n : CampOK(camps'[j])
    BY <1>3 DEF CampaignInv, RequestInv
  <2>2. \A j \in 1..n : camps'[j].req.consumed = "RESUMED" <=> camps[j].req.consumed = "RESUMED"
    BY <1>3
  <2>3. \A j \in 1..n : j < n => camps'[j + 1].kind = camps[j + 1].kind
    BY <1>1, <1>4
  <2>. QED BY <1>2, <2>1, <2>2, <2>3 DEF CampaignInv, RequestInv, CampOK
<1>. QED BY <1>1, <1>2, <1>3, <1>8, <1>9 DEF Camp

\* A campaign is appended; the requests may be written over, nothing else of the others.
LEMMA Grown ==
    ASSUME CampaignInv, NEW c \in Campaigns, n < MaxCampaigns,
           camps' \in Seq(Campaigns), Len(camps') = n + 1, camps'[n + 1] = c,
           \A j \in 1..n : /\ camps'[j].kind = camps[j].kind /\ camps'[j].bind = camps[j].bind
                           /\ camps'[j].ord = camps[j].ord /\ camps'[j].appr = camps[j].appr
                           /\ camps'[j].acts = camps[j].acts,
           n > 0 => c.bind.gen >= Camp.bind.gen,
           n > 0 /\ c.bind.gen = Camp.bind.gen
              => c.ord = Camp.ord + (IF c.kind = "RESOLUTION" THEN 1 ELSE 0),
           n = 0 \/ c.bind.gen # Camp.bind.gen => c.ord = 0 /\ c.kind # "RESOLUTION",
           c.kind = "APPROVAL_RESUME" => c.appr = n,
           c.kind = "RESOLUTION" =>
              /\ Wants(n, "source") => /\ c.bind.source = DesiredSource(n) /\ c.bind.item = DesiredSource(n)
              /\ Wants(n, "graph") => c.bind.graph = Desired(n)
              /\ Wants(n, "candidate") => c.bind.candidate = Desired(n)
    PROVE  ChainInv' /\ n' = n + 1 /\ Camp' = c
<1>1. /\ n \in Nat /\ DOMAIN camps = 1..n
      /\ \A k \in 1..n : camps[k] \in Campaigns /\ camps[k].bind.gen \in Nat
      /\ n > 0 => Camp \in Campaigns /\ Camp.bind.gen \in Nat /\ Camp.ord \in Nat
  <2>1. n \in Nat /\ DOMAIN camps = 1..n /\ (\A k \in 1..n : camps[k] \in Campaigns) /\ (n > 0 => Camp \in Campaigns)
    BY ChainFacts DEF CampaignInv
  <2>2. \A d \in Campaigns : d.bind.gen \in Nat /\ d.ord \in Nat
    BY ReadinessAssumption DEF Campaigns, Bindings
  <2>. QED BY <2>1, <2>2
<1>2. n' = n + 1 /\ DOMAIN camps' = 1..(n + 1) /\ Camp' = c
  BY DEF n, Camp
<1>3. MaxCycles \in Nat /\ MaxCampaigns \in Nat
  BY ReadinessAssumption
<1>4. c.bind.gen \in Nat /\ c.ord \in 0..MaxCycles
  BY DEF Campaigns, Bindings
<1>5. ASSUME NEW g \in Nat
      PROVE  /\ c.kind = "RESOLUTION" /\ c.bind.gen = g => Resolutions(g)' = Resolutions(g) \cup {n + 1}
             /\ ~(c.kind = "RESOLUTION" /\ c.bind.gen = g) => Resolutions(g)' = Resolutions(g)
  <2>1. ASSUME NEW j
        PROVE  j \in Resolutions(g)' <=> j \in Resolutions(g) \/ (j = n + 1 /\ c.kind = "RESOLUTION" /\ c.bind.gen = g)
    <3>1. j \in 1..(n + 1) <=> j \in 1..n \/ j = n + 1
      BY <1>1
    <3>. QED BY <1>2, <3>1 DEF Resolutions
  <2>2. ASSUME c.kind = "RESOLUTION", c.bind.gen = g PROVE Resolutions(g)' = Resolutions(g) \cup {n + 1}
    BY <2>1, <2>2
  <2>3. ASSUME ~(c.kind = "RESOLUTION" /\ c.bind.gen = g) PROVE Resolutions(g)' = Resolutions(g)
    BY <2>1, <2>3
  <2>. QED BY <2>2, <2>3
<1>6. ASSUME NEW g \in Nat
      PROVE  /\ IsFiniteSet(Resolutions(g)) /\ Cardinality(Resolutions(g)) \in Nat
             /\ c.kind = "RESOLUTION" /\ c.bind.gen = g
                  => Cardinality(Resolutions(g)') = Cardinality(Resolutions(g)) + 1
             /\ ~(c.kind = "RESOLUTION" /\ c.bind.gen = g)
                  => Cardinality(Resolutions(g)') = Cardinality(Resolutions(g))
  <2>1. IsFiniteSet(Resolutions(g)) /\ Cardinality(Resolutions(g)) \in Nat
    BY <1>1, ResolutionsFinite, FS_CardinalityType
  <2>2. n + 1 \notin Resolutions(g)
    BY <1>1 DEF Resolutions
  <2>3. Cardinality(Resolutions(g) \cup {n + 1}) = Cardinality(Resolutions(g)) + 1
    BY <2>1, <2>2, FS_AddElement
  <2>. QED BY <1>5, <2>1, <2>3
<1>7. ASSUME NEW g \in Nat, c.bind.gen = g PROVE Cardinality(Resolutions(g)') = c.ord
  <2>1. CASE n > 0 /\ Camp.bind.gen = g
    <3>1. Cardinality(Resolutions(g)) = Camp.ord /\ Camp.ord \in Nat
      BY <1>1, <2>1 DEF CampaignInv, ChainInv
    <3>2. c.ord = Camp.ord + (IF c.kind = "RESOLUTION" THEN 1 ELSE 0)
      BY <1>7, <2>1
    <3>3. Cardinality(Resolutions(g)') = c.ord
      <4>1. CASE c.kind = "RESOLUTION"
        BY <1>6, <1>7, <3>1, <3>2, <4>1
      <4>2. CASE c.kind # "RESOLUTION"
        <5>1. c.ord = Camp.ord
          BY <3>1, <3>2, <4>2
        <5>2. Cardinality(Resolutions(g)') = Cardinality(Resolutions(g))
          BY <1>6, <4>2
        <5>. QED BY <3>1, <5>1, <5>2
      <4>. QED BY <4>1, <4>2
    <3>. QED BY <3>3
  <2>2. CASE n = 0 \/ Camp.bind.gen # g
    <3>1. Resolutions(g) = {}
      <4>. SUFFICES ASSUME NEW j \in 1..n PROVE camps[j].bind.gen # g
        BY DEF Resolutions
      <4>1. n > 0 /\ camps[j].bind.gen <= Camp.bind.gen
        BY <1>1 DEF CampaignInv, ChainInv
      <4>2. c.bind.gen >= Camp.bind.gen /\ Camp.bind.gen # g
        BY <1>7, <2>2, <4>1
      <4>3. Camp.bind.gen \in Nat /\ camps[j].bind.gen \in Nat
        BY <1>1, <4>1
      <4>. QED BY <1>7, <4>1, <4>2, <4>3
    <3>2. c.ord = 0 /\ c.kind # "RESOLUTION"
      BY <1>7, <2>2
    <3>3. Cardinality(Resolutions(g)') = 0
      BY <1>6, <3>1, <3>2, FS_EmptySet
    <3>. QED BY <3>2, <3>3
  <2>. QED BY <1>1, <2>1, <2>2
<1>8. ASSUME NEW g \in Nat PROVE Cardinality(Resolutions(g)') <= MaxCycles
  <2>1. CASE c.bind.gen = g
    BY <1>3, <1>4, <1>7, <2>1
  <2>2. CASE c.bind.gen # g
    BY <1>6, <2>2 DEF CampaignInv, ChainInv
  <2>. QED BY <2>1, <2>2
<1>9. \A j \in 1..(n + 1) : camps'[j].bind.gen <= c.bind.gen
  <2>. SUFFICES ASSUME NEW j \in 1..(n + 1) PROVE camps'[j].bind.gen <= c.bind.gen
    OBVIOUS
  <2>1. CASE j = n + 1
    BY <1>4, <2>1
  <2>2. CASE j \in 1..n
    <3>1. camps'[j].bind.gen <= Camp.bind.gen /\ n > 0
      BY <1>1, <2>2 DEF CampaignInv, ChainInv
    <3>2. camps[j].bind.gen = camps'[j].bind.gen /\ c.bind.gen >= Camp.bind.gen
      BY <2>2, <3>1
    <3>. QED BY <1>1, <1>4, <2>2, <3>1, <3>2
  <2>. QED BY <1>1, <2>1, <2>2
<1>10. SuccessorIsResolved'
  <2>. SUFFICES ASSUME NEW j \in 2..(n + 1), camps'[j].kind = "RESOLUTION"
                PROVE  /\ Wants(j - 1, "source")' => /\ camps'[j].bind.source = DesiredSource(j - 1)'
                                                     /\ camps'[j].bind.item = DesiredSource(j - 1)'
                       /\ Wants(j - 1, "graph")' => camps'[j].bind.graph = Desired(j - 1)
                       /\ Wants(j - 1, "candidate")' => camps'[j].bind.candidate = Desired(j - 1)
    BY <1>2 DEF SuccessorIsResolved, Desired
  <2>1. j - 1 \in 1..n /\ j \in Nat
    BY <1>1
  <2>2. \A f : Wants(j - 1, f)' <=> Wants(j - 1, f)
    BY <2>1 DEF Wants
  <2>3. DesiredSource(j - 1)' = DesiredSource(j - 1)
    BY <2>1, <2>2 DEF DesiredSource, Desired
  <2>4. CASE j = n + 1
    <3>1. j - 1 = n /\ camps'[j] = c
      BY <1>1, <2>4
    <3>. QED BY <2>2, <2>3, <3>1
  <2>5. CASE j \in 2..n
    <3>1. j \in 1..n
      BY <1>1, <2>5
    <3>2. camps[j].kind = "RESOLUTION" /\ camps'[j].bind = camps[j].bind
      BY <3>1
    <3>. QED BY <2>2, <2>3, <2>5, <3>2 DEF CampaignInv, ChainInv, SuccessorIsResolved
  <2>. QED BY <1>1, <2>4, <2>5
<1>11. \A k \in 1..(n + 1) : camps'[k].kind = "APPROVAL_RESUME" => camps'[k].appr = k - 1
  <2>. SUFFICES ASSUME NEW k \in 1..(n + 1), camps'[k].kind = "APPROVAL_RESUME" PROVE camps'[k].appr = k - 1
    OBVIOUS
  <2>1. CASE k = n + 1
    BY <1>1, <2>1
  <2>2. CASE k \in 1..n
    BY <2>2 DEF CampaignInv, ChainInv
  <2>. QED BY <1>1, <2>1, <2>2
<1>12. \A g \in Nat : n' > 0 /\ Camp'.bind.gen = g => Cardinality(Resolutions(g)') = Camp'.ord
  BY <1>2, <1>7
<1>13. n' <= MaxCampaigns
  BY <1>1, <1>2, <1>3
<1>. QED BY <1>2, <1>8, <1>9, <1>10, <1>11, <1>12, <1>13 DEF ChainInv

-----------------------------------------------------------------------------
(* Steps that leave the campaigns alone.                                    *)

LEMMA CampFacts ==
    ASSUME CampaignInv, NEW k \in 1..n
    PROVE  /\ n \in Nat /\ camps[k] \in Campaigns /\ camps[k].bind \in Bindings /\ camps[k].req \in Requests
           /\ camps[k].ord \in 0..MaxCycles /\ camps[k].appr \in Nat /\ CampOK(camps[k])
           /\ camps[k].acts \in Seq({"source", "graph", "candidate"})
           /\ camps[k].atts \in Seq({"RUNNING", "COMPLETE", "HOLD"})
<1>1. n \in Nat /\ camps[k] \in Campaigns
  BY ChainFacts DEF CampaignInv
<1>2. CampOK(camps[k])
  BY DEF CampaignInv, RequestInv
<1>. QED BY <1>1, <1>2 DEF Campaigns

LEMMA StillThere ==
    ASSUME CampaignInv, UNCHANGED <<camps, cur>>, RowInv' PROVE CampaignInv'
<1>1. ChainInv' /\ RequestInv' /\ n' = n
  BY ChainKept
<1>2. PhaseInv'
  BY <1>1 DEF CampaignInv, PhaseInv, PhaseOK, Camp
<1>. QED BY <1>1, <1>2 DEF CampaignInv

LEMMA StateMoved ==
    ASSUME CampaignInv, UNCHANGED <<camps, drift, revoked>>, n > 0,
           NEW s \in {"STALE", "HOLD", "FINALIZED"}, cur' = [cur EXCEPT !.state = s],
           world' \in Worlds, notice' \in Notices, UNCHANGED act
    PROVE  CampaignInv'
<1>1. ChainInv' /\ RequestInv' /\ n' = n
  BY ChainKept
<1>2. cur' \in Currents /\ cur'.state = s /\ cur'.receipt = cur.receipt /\ cur'.att = cur.att
  BY DEF CampaignInv, RowInv, Currents, States
<1>3. RowInv'
  BY <1>1, <1>2 DEF CampaignInv, RowInv
<1>4. PhaseInv'
  BY <1>1, <1>2 DEF CampaignInv, PhaseInv, PhaseOK, Camp
<1>. QED BY <1>1, <1>3, <1>4 DEF CampaignInv

\* A row of the world with one field written over.
LEMMA WorldField ==
    ASSUME NEW w \in Worlds
    PROVE  /\ \A x \in Sources : /\ [w EXCEPT !.src = x] \in Worlds /\ [w EXCEPT !.item = x] \in Worlds
                               /\ [w EXCEPT !.gsrc = x] \in Worlds
           /\ \A x \in Int : [w EXCEPT !.graph = x] \in Worlds /\ [w EXCEPT !.cand = x] \in Worlds
           /\ \A x \in Nat : /\ [w EXCEPT !.gen = x] \in Worlds /\ [w EXCEPT !.cep = x] \in Worlds
                            /\ [w EXCEPT !.ep = x] \in Worlds
           /\ \A x \in {"PREPARED", "READY", "ACTIVE"} : [w EXCEPT !.status = x] \in Worlds
           /\ w.gen \in Nat /\ w.src \in Sources /\ w.item \in Sources /\ w.graph \in Int /\ w.gsrc \in Sources
           /\ w.cand \in Int /\ w.cep \in Nat /\ w.ep \in Nat
BY DEF Worlds

LEMMA WorldKeeps == CampaignInv /\ WorldNext => CampaignInv'
<1>. SUFFICES ASSUME CampaignInv, WorldNext PROVE CampaignInv'
  OBVIOUS
<1>1. world \in Worlds /\ drift \in 0..MaxDrift /\ MaxDrift \in Nat
  BY ReadinessAssumption DEF CampaignInv, RowInv
<1>2. Fresh \in Nat /\ Fresh \in Int /\ Source(Fresh, 0) \in Sources
  BY <1>1 DEF Fresh, Source, Sources
<1>3. ASSUME NEW w \in Worlds, Change(w) PROVE CampaignInv'
  <2>1. world' \in Worlds /\ drift' \in 0..MaxDrift /\ UNCHANGED <<camps, cur, notice, act, revoked>>
    BY <1>1, <1>3 DEF Change, Fresh
  <2>2. RowInv'
    BY <2>1 DEF CampaignInv, RowInv, n
  <2>. QED BY <2>1, <2>2, StillThere
<1>4. CASE EditSource
  <2>1. [world EXCEPT !.src = Source(Fresh, 0)] \in Worlds
    BY <1>1, <1>2 DEF Worlds
  <2>. QED BY <1>3, <1>4, <2>1 DEF EditSource
<1>5. CASE CommentOnSource
  <2>1. [world.src EXCEPT !.m = Fresh] \in Sources
    BY <1>1, <1>2 DEF Worlds, Sources
  <2>2. [world EXCEPT !.src.m = Fresh] \in Worlds
    BY <1>1, <2>1 DEF Worlds
  <2>. QED BY <1>3, <1>5, <2>2 DEF CommentOnSource
<1>6. CASE ReplaceGraph
  <2>1. [world EXCEPT !.graph = Fresh, !.gsrc = world.src] \in Worlds
    BY <1>1, <1>2 DEF Worlds
  <2>. QED BY <1>3, <1>6, <2>1 DEF ReplaceGraph
<1>7. CASE RotateEndpoint
  <2>1. [world EXCEPT !.ep = @ + 1] \in Worlds
    BY <1>1 DEF Worlds
  <2>. QED BY <1>3, <1>7, <2>1 DEF RotateEndpoint
<1>8. CASE PrepareGeneration
  <2>1. [world EXCEPT !.gen = @ + 1, !.item = world.src, !.cand = Fresh, !.cep = world.ep, !.status = "PREPARED"] \in Worlds
    <3>1. PICK w1 \in Worlds : w1 = [world EXCEPT !.gen = @ + 1, !.item = world.src]
      <4>1. world.gen + 1 \in Nat /\ world.src \in Sources
        BY <1>1 DEF Worlds
      <4>2. [world EXCEPT !.gen = world.gen + 1] \in Worlds
        BY <1>1, <4>1, WorldField
      <4>. QED BY <4>1, <4>2, WorldField
    <3>2. PICK w2 \in Worlds : w2 = [w1 EXCEPT !.cand = Fresh, !.cep = world.ep]
      <4>1. [w1 EXCEPT !.cand = Fresh] \in Worlds /\ world.ep \in Nat
        BY <1>1, <1>2, WorldField
      <4>. QED BY <4>1, WorldField
    <3>3. [w2 EXCEPT !.status = "PREPARED"] \in Worlds
      BY WorldField
    <3>. QED BY <3>1, <3>2, <3>3
  <2>. QED BY <1>3, <1>8, <2>1 DEF PrepareGeneration
<1>. QED BY <1>4, <1>5, <1>6, <1>7, <1>8 DEF WorldNext

\* The planner's actions, but the one that registers a successor.
LEMMA PlannerKeeps ==
    ASSUME CampaignInv, NEW i,
           ClaimContext \/ StartAction(i) \/ SourceEffect \/ ItemRebind \/ GraphEffect
             \/ CandidateEffect \/ CommitAction \/ PlannerDie
    PROVE  CampaignInv'
<1>1. /\ world \in Worlds /\ world.src \in Sources /\ world.ep \in Nat
      /\ notice \in Notices /\ act \in Acts /\ (act.step # "idle" => act.k \in 1..n)
      /\ drift \in 0..MaxDrift /\ cur \in Currents /\ revoked \subseteq 1..MaxCampaigns
  BY DEF CampaignInv, RowInv, Worlds
<1>2. Idle \in Acts /\ Idle.step = "idle"
  BY DEF Idle, Acts
<1>3. ASSUME NEW st \in {"rebind", "commit"}
      PROVE  [act EXCEPT !.step = st] \in Acts /\ [act EXCEPT !.step = st].k = act.k
  BY <1>1, <1>3 DEF Acts
<1>4. ASSUME NEW k \in 1..n PROVE Desired(k) \in Int /\ DesiredSource(k) \in Sources
  <2>1. Desired(k) \in Int /\ Source(Desired(k), 0) \in Sources
    BY <1>4 DEF Desired, Source, Sources
  <2>2. camps[k].bind.source \in Sources
    BY CampFacts DEF Bindings
  <2>. QED BY <2>1, <2>2 DEF DesiredSource
<1>5. ASSUME UNCHANGED <<camps, cur, drift, revoked>>, world' \in Worlds, notice' \in Notices,
             act' = Idle \/ act' = act \/ (act.k \in 1..n /\ \E st \in {"rebind", "commit"} : act' = [act EXCEPT !.step = st])
      PROVE  CampaignInv'
  <2>1. n' = n
    BY <1>5 DEF n
  <2>2. act' \in Acts /\ (act'.step # "idle" => act'.k \in 1..n)
    BY <1>1, <1>2, <1>3, <1>5
  <2>3. RowInv'
    BY <1>1, <1>5, <2>1, <2>2 DEF RowInv
  <2>. QED BY <1>5, <2>3, StillThere
<1>6. CASE ClaimContext
  <2>1. ASSUME NEW st \in {"CLAIMED", "COMPLETE"} PROVE [notice EXCEPT !.state = st] \in Notices
    BY <1>1 DEF Notices
  <2>2. CASE notice' = [notice EXCEPT !.state = "CLAIMED"] /\ UNCHANGED cur
    BY <1>1, <1>5, <1>6, <2>1, <2>2 DEF ClaimContext
  <2>3. CASE HoldResolution
    BY <1>1, <1>6, <2>1, <2>3, StateMoved DEF ClaimContext, HoldResolution
  <2>. QED BY <1>6, <2>2, <2>3 DEF ClaimContext
<1>7. CASE StartAction(i)
  <2>1. n > 0 /\ n \in Nat /\ n' = n /\ i \in DOMAIN Camp.acts /\ UNCHANGED <<camps, cur, world, drift, revoked>>
    BY <1>7, ChainFacts DEF StartAction, n, CampaignInv
  <2>2. i \in Nat
    <3>1. Camp.acts \in Seq({"source", "graph", "candidate"})
      BY <2>1, CampFacts DEF Camp
    <3>. QED BY <2>1, <3>1
  <2>3. notice' \in Notices
    BY <1>1, <1>7, <2>2 DEF StartAction, Notices
  <2>4. act' \in Acts /\ act'.k = n
    BY <1>7, <2>1, <2>2 DEF StartAction, Acts
  <2>5. RowInv'
    BY <1>1, <2>1, <2>3, <2>4 DEF RowInv
  <2>. QED BY <2>1, <2>5, StillThere
<1>8. CASE SourceEffect
  <2>1. act.k \in 1..n
    BY <1>1, <1>8 DEF SourceEffect
  <2>2. world' \in Worlds
    BY <1>1, <1>4, <1>8, <2>1 DEF SourceEffect, Worlds
  <2>. QED BY <1>1, <1>5, <1>8, <2>1, <2>2 DEF SourceEffect
<1>9. CASE ItemRebind
  <2>1. act.k \in 1..n
    BY <1>1, <1>9 DEF ItemRebind
  <2>2. world' \in Worlds
    BY <1>1, <1>9 DEF ItemRebind, Worlds
  <2>. QED BY <1>1, <1>5, <1>9, <2>1, <2>2 DEF ItemRebind
<1>10. CASE GraphEffect
  <2>1. act.k \in 1..n
    BY <1>1, <1>10 DEF GraphEffect
  <2>2. world' \in Worlds
    BY <1>1, <1>4, <1>10, <2>1 DEF GraphEffect, Worlds
  <2>. QED BY <1>1, <1>5, <1>10, <2>1, <2>2 DEF GraphEffect
<1>11. CASE CandidateEffect
  <2>1. act.k \in 1..n
    BY <1>1, <1>11 DEF CandidateEffect
  <2>2. world' \in Worlds
    BY <1>1, <1>4, <1>11, <2>1 DEF CandidateEffect, Worlds
  <2>. QED BY <1>1, <1>5, <1>11, <2>1, <2>2 DEF CandidateEffect
<1>12. CASE CommitAction
  <2>1. act.i \in Nat
    BY <1>1 DEF Acts
  <2>2. notice' \in Notices
    BY <1>1, <1>12, <2>1 DEF CommitAction, Notices
  <2>. QED BY <1>1, <1>5, <1>12, <2>2 DEF CommitAction
<1>13. CASE PlannerDie
  BY <1>1, <1>5, <1>13 DEF PlannerDie
<1>. QED BY <1>6, <1>7, <1>8, <1>9, <1>10, <1>11, <1>12, <1>13

-----------------------------------------------------------------------------
(* Steps that write one campaign over.                                      *)

\* What a step may leave of the current campaign's row when it rewrites a campaign.
LEMMA CampaignWritten ==
    ASSUME CampaignInv, NEW k \in 1..n, NEW c \in Campaigns, camps' = [camps EXCEPT ![k] = c],
           c.kind = camps[k].kind, c.bind = camps[k].bind, c.ord = camps[k].ord, c.appr = camps[k].appr,
           k = n \/ c.acts = camps[k].acts, CampOK(c),
           c.req.consumed = "RESUMED" <=> camps[k].req.consumed = "RESUMED",
           cur' \in Currents, notice' \in Notices, UNCHANGED <<world, drift, act, revoked>>,
           k = n => PhaseOK(c, cur'), k # n => UNCHANGED cur
    PROVE  CampaignInv'
<1>1. ChainInv' /\ RequestInv' /\ n' = n /\ (k = n => Camp' = c) /\ (k # n => Camp' = Camp)
  BY Rewritten
<1>2. RowInv'
  BY <1>1 DEF CampaignInv, RowInv
<1>3. PhaseInv'
  <2>1. n \in Nat
    BY ChainFacts DEF CampaignInv
  <2>2. n > 0
    BY <2>1
  <2>3. PhaseOK(Camp', cur')
    <3>1. CASE k = n
      BY <1>1, <3>1
    <3>2. CASE k # n
      BY <1>1, <2>2, <3>2 DEF CampaignInv, PhaseInv
    <3>. QED BY <3>1, <3>2
  <2>. QED BY <1>1, <2>2, <2>3 DEF PhaseInv, PhaseOK
<1>. QED BY <1>1, <1>2, <1>3 DEF CampaignInv

LEMMA CurrentField ==
    ASSUME CampaignInv
    PROVE  /\ cur \in Currents /\ notice \in Notices /\ world.ep \in Nat
           /\ \A s \in States : [cur EXCEPT !.state = s] \in Currents
BY DEF CampaignInv, RowInv, Currents, Worlds

LEMMA WorkersKeep ==
    ASSUME CampaignInv, NEW k \in 1..n, NEW i,
           Launch(k) \/ WorkerClaim(k) \/ WorkerComplete(k, i) \/ WorkerDie(k, i)
    PROVE  CampaignInv'
<1>1. PICK d \in Campaigns : d = camps[k]
  BY CampFacts
<1>2. /\ n \in Nat /\ CampOK(d) /\ d.atts \in Seq({"RUNNING", "COMPLETE", "HOLD"})
      /\ cur \in Currents /\ notice \in Notices
  BY <1>1, CampFacts, CurrentField
<1>3. k = n => PhaseOK(d, cur)
  BY <1>1, <1>2 DEF CampaignInv, PhaseInv, Camp
<1>4. ASSUME NEW c \in Campaigns, camps' = [camps EXCEPT ![k] = c], UNCHANGED <<world, drift, cur, notice, act, revoked>>,
             c.kind = d.kind, c.bind = d.bind, c.ord = d.ord, c.appr = d.appr, c.acts = d.acts, c.req = d.req,
             c.tries = d.tries, c.pick = d.pick, c.art = d.art,
             k = n => PhaseOK(c, cur)
      PROVE  CampaignInv'
  <2>1. CampOK(c)
    BY <1>2, <1>4 DEF CampOK
  <2>. QED BY <1>1, <1>2, <1>4, <2>1, CampaignWritten
<1>5. CASE Launch(k)
  <2>1. PICK a \in Seq({"RUNNING", "COMPLETE", "HOLD"}) : a = Append(d.atts, "RUNNING")
    BY <1>2, AppendProperties
  <2>2. PICK c \in Campaigns : c = [d EXCEPT !.atts = a]
    BY DEF Campaigns
  <2>3. camps' = [camps EXCEPT ![k] = c] /\ d.msg = "PREPARED" /\ UNCHANGED <<world, drift, cur, notice, act, revoked>>
    BY <1>1, <1>5, <2>1, <2>2 DEF Launch
  <2>4. k = n => PhaseOK(c, cur)
    <3>1. \A j \in DOMAIN d.atts : j \in DOMAIN a
      BY <1>2, <2>1
    <3>2. c.atts = a /\ c.pick = d.pick /\ c.art = d.art
      BY <2>2 DEF Campaigns
    <3>. QED BY <1>3, <2>3, <3>1, <3>2 DEF PhaseOK
  <2>. QED BY <1>4, <2>2, <2>3, <2>4 DEF Campaigns
<1>6. CASE WorkerClaim(k)
  <2>1. PICK c \in Campaigns : c = [d EXCEPT !.msg = "CLAIMED"]
    BY DEF Campaigns
  <2>2. camps' = [camps EXCEPT ![k] = c] /\ d.msg = "PREPARED" /\ UNCHANGED <<world, drift, cur, notice, act, revoked>>
    BY <1>1, <1>6, <2>1 DEF WorkerClaim
  <2>3. k = n => PhaseOK(c, cur)
    BY <1>3, <2>1, <2>2 DEF PhaseOK, Campaigns
  <2>. QED BY <1>4, <2>1, <2>2, <2>3 DEF Campaigns
<1>7. CASE WorkerComplete(k, i)
  <2>1. i \in 1..Len(d.atts) /\ d.atts[i] = "RUNNING" /\ d.msg = "CLAIMED" /\ UNCHANGED <<world, drift, cur, notice, act, revoked>>
    BY <1>1, <1>2, <1>7 DEF WorkerComplete, Live
  <2>2. PICK a \in Seq({"RUNNING", "COMPLETE", "HOLD"}) : a = [d.atts EXCEPT ![i] = "COMPLETE"]
    BY <1>2, <2>1, ExceptSeq
  <2>3. PICK e \in Campaigns : e = [d EXCEPT !.msg = "COMPLETE"]
    BY DEF Campaigns
  <2>4. PICK c \in Campaigns : c = [e EXCEPT !.atts = a]
    BY DEF Campaigns
  <2>5. camps' = [camps EXCEPT ![k] = c]
    <3>1. camps' = [camps EXCEPT ![k] = [[camps[k] EXCEPT !.msg = "COMPLETE"] EXCEPT !.atts[i] = "COMPLETE"]]
      BY <1>7 DEF WorkerComplete
    <3>2. e.atts = d.atts
      BY <2>3 DEF Campaigns
    <3>. QED BY <1>1, <2>2, <2>3, <2>4, <3>1, <3>2
  <2>6. k = n => PhaseOK(c, cur)
    <3>1. DOMAIN a = DOMAIN d.atts /\ \A j \in DOMAIN d.atts : d.atts[j] = "COMPLETE" => a[j] = "COMPLETE"
      BY <2>1, <2>2
    <3>2. c.atts = a /\ c.pick = d.pick /\ c.art = d.art /\ c.msg = "COMPLETE"
      BY <2>3, <2>4 DEF Campaigns
    <3>. QED BY <1>3, <3>1, <3>2 DEF PhaseOK
  <2>. QED BY <1>4, <2>1, <2>3, <2>4, <2>5, <2>6 DEF Campaigns
<1>8. CASE WorkerDie(k, i)
  <2>1. i \in 1..Len(d.atts) /\ d.atts[i] = "RUNNING" /\ UNCHANGED <<world, drift, cur, notice, act, revoked>>
    BY <1>1, <1>2, <1>8 DEF WorkerDie, Live
  <2>2. PICK a \in Seq({"RUNNING", "COMPLETE", "HOLD"}) : a = [d.atts EXCEPT ![i] = "HOLD"]
    BY <1>2, <2>1, ExceptSeq
  <2>3. PICK c \in Campaigns : c = [d EXCEPT !.atts = a]
    BY DEF Campaigns
  <2>4. camps' = [camps EXCEPT ![k] = c]
    BY <1>1, <1>8, <2>2, <2>3 DEF WorkerDie
  <2>5. k = n => PhaseOK(c, cur)
    <3>1. DOMAIN a = DOMAIN d.atts /\ \A j \in DOMAIN d.atts : d.atts[j] = "COMPLETE" => a[j] = "COMPLETE"
      BY <2>1, <2>2
    <3>2. c.atts = a /\ c.pick = d.pick /\ c.art = d.art /\ c.msg = d.msg
      BY <2>3 DEF Campaigns
    <3>. QED BY <1>3, <3>1, <3>2 DEF PhaseOK
  <2>. QED BY <1>4, <2>1, <2>3, <2>4, <2>5 DEF Campaigns
<1>. QED BY <1>5, <1>6, <1>7, <1>8

\* The last campaign's request has not resumed anything.
LEMMA NotYetResumed == CampaignInv /\ n > 0 => camps[n].req.consumed # "RESUMED"
<1>. SUFFICES ASSUME CampaignInv, n > 0 PROVE camps[n].req.consumed # "RESUMED"
  OBVIOUS
<1>1. n \in Nat /\ n \in 1..n /\ ~(n < n)
  BY ChainFacts DEF CampaignInv
<1>2. (n < n /\ camps[n + 1].kind = "APPROVAL_RESUME") <=> camps[n].req.consumed = "RESUMED"
  BY <1>1 DEF CampaignInv, RequestInv
<1>. QED BY <1>1, <1>2

LEMMA ReceiptsKeep ==
    ASSUME CampaignInv, NEW v \in Verdicts, NEW s \in ActionSets \cup {<< >>},
           StageReceipt(v, s) \/ PickupReceipt \/ PickupFailure
    PROVE  CampaignInv'
<1>1. n > 0 /\ n \in 1..n
  BY ChainFacts DEF CampaignInv, StageReceipt, PickupReceipt, PickupFailure
<1>2. PICK d \in Campaigns : d = camps[n] /\ d = Camp
  BY <1>1, CampFacts DEF Camp
<1>3. /\ CampOK(d) /\ cur \in Currents /\ notice \in Notices /\ PhaseOK(d, cur) /\ d.req \in Requests
      /\ d.tries \in 0..MaxTries /\ MaxTries \in Nat
  BY <1>1, <1>2, CampFacts, CurrentField, ReadinessAssumption DEF CampaignInv, PhaseInv, Campaigns
<1>4. d.req.consumed # "RESUMED"
  BY <1>1, <1>2, NotYetResumed
<1>5. ASSUME NEW c \in Campaigns, camps' = [camps EXCEPT ![n] = c], UNCHANGED <<world, drift, act, revoked>>,
             c.kind = d.kind, c.bind = d.bind, c.ord = d.ord, c.appr = d.appr, CampOK(c),
             c.req.consumed # "RESUMED", cur' \in Currents, notice' \in Notices, PhaseOK(c, cur')
      PROVE  CampaignInv'
  BY <1>1, <1>2, <1>4, <1>5, CampaignWritten
<1>6. CASE StageReceipt(v, s)
  <2>1. /\ d.pick = "PENDING" /\ cur.state = "RUNNING"
        /\ camps' = [camps EXCEPT ![n].pick = "STAGED", ![n].art = v, ![n].acts = s]
        /\ UNCHANGED <<world, drift, cur, notice, act, revoked>>
    BY <1>2, <1>6 DEF StageReceipt, StageBinding
  <2>2. s \in Seq({"source", "graph", "candidate"})
    <3>1. << >> \in Seq({"source", "graph", "candidate"})
      OBVIOUS
    <3>. QED BY <3>1, ReadinessAssumption
  <2>3. PICK e \in Campaigns : e = [d EXCEPT !.pick = "STAGED"]
    BY DEF Campaigns
  <2>4. PICK f \in Campaigns : f = [e EXCEPT !.art = v]
    BY DEF Campaigns
  <2>5. PICK c \in Campaigns : c = [f EXCEPT !.acts = s]
    BY <2>2 DEF Campaigns
  <2>6. camps' = [camps EXCEPT ![n] = c]
    BY <1>2, <2>1, <2>3, <2>4, <2>5
  <2>7. /\ e.kind = d.kind /\ e.bind = d.bind /\ e.ord = d.ord /\ e.appr = d.appr /\ e.req = d.req /\ e.tries = d.tries
        /\ e.pick = "STAGED"
    BY <2>3 DEF Campaigns
  <2>8. /\ f.kind = d.kind /\ f.bind = d.bind /\ f.ord = d.ord /\ f.appr = d.appr /\ f.req = d.req /\ f.tries = d.tries
        /\ f.pick = "STAGED" /\ f.art = v
    BY <2>4, <2>7 DEF Campaigns
  <2>9. /\ c.kind = d.kind /\ c.bind = d.bind /\ c.ord = d.ord /\ c.appr = d.appr /\ c.req = d.req /\ c.tries = d.tries
        /\ c.pick = "STAGED" /\ c.art = v
    BY <2>5, <2>8 DEF Campaigns
  <2>10. CampOK(c) /\ v # None
    BY <1>3, <2>1, <2>9 DEF CampOK, Verdicts, None
  <2>11. PhaseOK(c, cur)
    <3>1. c.atts = d.atts
      BY <2>3, <2>4, <2>5 DEF Campaigns
    <3>. QED BY <1>3, <2>1, <3>1 DEF PhaseOK
  <2>. QED BY <1>3, <1>4, <1>5, <2>1, <2>6, <2>9, <2>10, <2>11
<1>7. CASE PickupReceipt /\ ~CurrentBound
  <2>1. UNCHANGED <<camps, notice, world, drift, act, revoked>> /\ cur' = [cur EXCEPT !.state = "STALE"]
    BY <1>7 DEF PickupReceipt, MarkStale
  <2>2. world' \in Worlds /\ notice' \in Notices
    BY <2>1 DEF CampaignInv, RowInv
  <2>. QED BY <1>1, <2>1, <2>2, StateMoved
<1>8. CASE PickupReceipt /\ CurrentBound
  <2>1. /\ d.pick = "STAGED" /\ d.art # "INVALID" /\ cur.state = "RUNNING"
        /\ cur.att # 0 /\ d.msg = "COMPLETE" /\ d.atts[cur.att] = "COMPLETE"
        /\ cur' = [cur EXCEPT !.state = StateOf(d.art), !.receipt = d.art]
        /\ camps' = [camps EXCEPT ![n].pick = "RECORDED", ![n].req = RequestFor(d.art)]
        /\ notice' = [notice EXCEPT !.state = PlannerNotice(cur'.state)]
        /\ UNCHANGED <<world, drift, act, revoked>>
    BY <1>2, <1>8 DEF PickupReceipt, PickupDue, ValidReceipt, RecordReceipt
  <2>2. d.art \in {"PASS", "ACTIONABLE_HOLD", "APPROVAL_REQUIRED", "TERMINAL_HOLD"}
    <3>1. d.art \in Verdicts
      BY <1>3, <2>1 DEF CampOK, Campaigns
    <3>. QED BY <2>1, <3>1 DEF Verdicts
  <2>3. StateOf(d.art) \in {"READY_ELIGIBLE", "RESOLUTION_PENDING", "APPROVAL_PENDING", "HOLD"}
    BY <2>2 DEF StateOf
  <2>4. /\ cur' \in Currents /\ cur'.state = StateOf(d.art) /\ cur'.receipt = d.art /\ cur'.att = cur.att
    <3>1. PICK c1 \in Currents : c1 = [cur EXCEPT !.state = StateOf(d.art)]
      BY <1>3, <2>3 DEF Currents, States
    <3>2. c1.state = StateOf(d.art) /\ c1.att = cur.att
      BY <1>3, <3>1 DEF Currents
    <3>3. [c1 EXCEPT !.receipt = d.art] \in Currents
      BY <2>2 DEF Currents, Verdicts
    <3>4. cur' = [c1 EXCEPT !.receipt = d.art]
      BY <2>1, <3>1
    <3>. QED BY <3>2, <3>3, <3>4 DEF Currents
  <2>5. notice' \in Notices
    <3>1. PlannerNotice(cur'.state) \in {None, "PREPARED", "CLAIMED", "COMPLETE"}
      BY <1>3 DEF PlannerNotice, Notices
    <3>. QED BY <1>3, <2>1, <3>1 DEF Notices
  <2>6. PICK r \in Requests : r = RequestFor(d.art) /\ r.dec = None /\ r.notice = None /\ r.consumed = None
    <3>1. PICK b \in BOOLEAN : b = (d.art = "APPROVAL_REQUIRED")
      OBVIOUS
    <3>2. RequestFor(d.art) = [open |-> b, dec |-> None, consumed |-> None, notice |-> None, revisit |-> FALSE]
      BY <3>1 DEF RequestFor, Request
    <3>3. [open |-> b, dec |-> None, consumed |-> None, notice |-> None, revisit |-> FALSE] \in Requests
      BY DEF Requests
    <3>. QED BY <3>2, <3>3
  <2>7. PICK e \in Campaigns : e = [d EXCEPT !.pick = "RECORDED"]
    BY DEF Campaigns
  <2>8. PICK c \in Campaigns : c = [e EXCEPT !.req = r]
    BY DEF Campaigns
  <2>9. camps' = [camps EXCEPT ![n] = c]
    BY <1>2, <2>1, <2>6, <2>7, <2>8
  <2>10. /\ e.kind = d.kind /\ e.bind = d.bind /\ e.ord = d.ord /\ e.appr = d.appr /\ e.tries = d.tries
         /\ e.pick = "RECORDED" /\ e.art = d.art /\ e.atts = d.atts /\ e.msg = d.msg
    BY <2>7 DEF Campaigns
  <2>11. /\ c.kind = d.kind /\ c.bind = d.bind /\ c.ord = d.ord /\ c.appr = d.appr /\ c.tries = d.tries
         /\ c.pick = "RECORDED" /\ c.art = d.art /\ c.atts = d.atts /\ c.msg = d.msg /\ c.req = r
    BY <2>8, <2>10 DEF Campaigns
  <2>12. CampOK(c)
    BY <1>3, <2>1, <2>6, <2>11 DEF CampOK, None
  <2>13. PhaseOK(c, cur')
    <3>1. cur.att \in DOMAIN d.atts
      BY <1>3, <2>1 DEF PhaseOK
    <3>. QED BY <2>1, <2>2, <2>3, <2>4, <2>11, <3>1 DEF PhaseOK
  <2>14. c.req.consumed # "RESUMED"
    BY <2>6, <2>11 DEF None
  <2>. QED BY <1>5, <2>1, <2>4, <2>5, <2>9, <2>11, <2>12, <2>13, <2>14
<1>9. CASE PickupFailure
  <2>1. /\ cur.state = "RUNNING" /\ d.pick \in {"PENDING", "STAGED"} /\ UNCHANGED <<world, drift, notice, act, revoked>>
        /\ camps' = [camps EXCEPT ![n].tries = @ + 1, ![n].pick = IF d.tries + 1 >= MaxTries THEN "HOLD" ELSE @]
        /\ cur' = [cur EXCEPT !.state = IF d.tries + 1 >= MaxTries THEN "HOLD" ELSE @]
    BY <1>2, <1>9 DEF PickupFailure, PickupDue
  <2>2. d.tries + 1 \in 0..MaxTries
    BY <1>3, <2>1 DEF CampOK
  <2>3. PICK p \in {"PENDING", "STAGED", "HOLD"} : p = IF d.tries + 1 >= MaxTries THEN "HOLD" ELSE d.pick
    BY <2>1
  <2>4. PICK e \in Campaigns : e = [d EXCEPT !.tries = d.tries + 1]
    BY <2>2 DEF Campaigns
  <2>5. PICK c \in Campaigns : c = [e EXCEPT !.pick = p]
    BY DEF Campaigns
  <2>6. camps' = [camps EXCEPT ![n] = c]
    <3>1. e.pick = d.pick
      BY <2>4 DEF Campaigns
    <3>. QED BY <1>2, <2>1, <2>3, <2>4, <2>5, <3>1
  <2>7. /\ e.kind = d.kind /\ e.bind = d.bind /\ e.ord = d.ord /\ e.appr = d.appr /\ e.req = d.req
        /\ e.tries = d.tries + 1 /\ e.art = d.art /\ e.atts = d.atts
    BY <2>4 DEF Campaigns
  <2>8. /\ c.kind = d.kind /\ c.bind = d.bind /\ c.ord = d.ord /\ c.appr = d.appr /\ c.req = d.req
        /\ c.tries = d.tries + 1 /\ c.art = d.art /\ c.atts = d.atts /\ c.pick = p
    BY <2>5, <2>7 DEF Campaigns
  <2>9. CampOK(c)
    BY <1>3, <2>1, <2>3, <2>8 DEF CampOK
  <2>10. cur' \in Currents /\ cur'.state \in {"RUNNING", "HOLD"} /\ cur'.receipt = cur.receipt /\ cur'.att = cur.att
    BY <1>3, <2>1 DEF Currents, States
  <2>11. PhaseOK(c, cur')
    BY <1>3, <2>1, <2>8, <2>10 DEF PhaseOK
  <2>. QED BY <1>3, <1>4, <1>5, <2>1, <2>6, <2>8, <2>9, <2>10, <2>11
<1>. QED BY <1>6, <1>7, <1>8, <1>9 DEF PickupReceipt

LEMMA DispatchKeeps ==
    ASSUME CampaignInv, NEW i,
           Dispatch \/ (i \in 1..MaxAttempts /\ Attach(i)) \/ Evaluate \/ Finalize \/ Admit \/ RecoverFinalized \/ RegisterCandidate
    PROVE  CampaignInv'
<1>1. /\ world \in Worlds /\ drift \in 0..MaxDrift /\ cur \in Currents /\ notice \in Notices /\ n \in Nat
      /\ MaxDrift \in Nat
  BY ReadinessAssumption, ChainFacts DEF CampaignInv, RowInv
<1>2. ASSUME UNCHANGED <<camps, cur, drift, notice, act, revoked>>, world' \in Worlds PROVE CampaignInv'
  <2>1. RowInv'
    BY <1>2 DEF CampaignInv, RowInv, n
  <2>. QED BY <1>2, <2>1, StillThere
<1>3. ASSUME n > 0, UNCHANGED <<camps, drift, world, notice, act, revoked>>, MarkStale PROVE CampaignInv'
  BY <1>1, <1>3, StateMoved DEF MarkStale
<1>4. CASE Dispatch /\ ~CurrentBound
  <2>1. n > 0
    BY <1>1, <1>4 DEF Dispatch, CampaignInv, PhaseInv
  <2>. QED BY <1>3, <1>4, <2>1 DEF Dispatch
<1>5. CASE Dispatch /\ CurrentBound
  <2>1. n \in 1..n
    BY <1>1, <1>5 DEF Dispatch, CampaignInv, PhaseInv
  <2>2. PICK d \in Campaigns : d = camps[n] /\ d = Camp
    BY <2>1, CampFacts DEF Camp
  <2>3. /\ cur.state = "PENDING" /\ UNCHANGED <<world, drift, notice, act, revoked>>
        /\ cur' = [cur EXCEPT !.state = "RUNNING", !.ep = world.ep]
        /\ camps' = [camps EXCEPT ![n].msg = "PREPARED", ![n].pick = "PENDING"]
    BY <1>5 DEF Dispatch, MarkStale
  <2>4. /\ CampOK(d) /\ PhaseOK(d, cur) /\ cur.receipt = None /\ d.req.consumed # "RESUMED"
    <3>1. n > 0 /\ CampOK(d) /\ d.req.consumed # "RESUMED"
      <4>1. CampOK(camps[n]) /\ n > 0
        BY <1>1, <2>1, CampFacts
      <4>2. camps[n].req.consumed # "RESUMED"
        BY <4>1, NotYetResumed
      <4>. QED BY <2>2, <4>1, <4>2
    <3>2. PhaseOK(d, cur)
      BY <2>2, <3>1 DEF CampaignInv, PhaseInv
    <3>. QED BY <2>3, <3>1, <3>2 DEF PhaseOK
  <2>5. PICK e \in Campaigns : e = [d EXCEPT !.msg = "PREPARED"]
    BY DEF Campaigns
  <2>6. PICK c \in Campaigns : c = [e EXCEPT !.pick = "PENDING"]
    BY DEF Campaigns
  <2>7. camps' = [camps EXCEPT ![n] = c]
    BY <2>2, <2>3, <2>5, <2>6
  <2>8. /\ e.kind = d.kind /\ e.bind = d.bind /\ e.ord = d.ord /\ e.appr = d.appr /\ e.req = d.req
        /\ e.tries = d.tries /\ e.art = d.art /\ e.atts = d.atts
    BY <2>5 DEF Campaigns
  <2>9. /\ c.kind = d.kind /\ c.bind = d.bind /\ c.ord = d.ord /\ c.appr = d.appr /\ c.req = d.req
        /\ c.tries = d.tries /\ c.art = d.art /\ c.atts = d.atts /\ c.pick = "PENDING"
    BY <2>6, <2>8 DEF Campaigns
  <2>10. d.pick = None
    BY <2>3, <2>4 DEF PhaseOK
  <2>11. CampOK(c)
    BY <2>4, <2>9, <2>10 DEF CampOK, None
  <2>12. cur' \in Currents /\ cur'.state = "RUNNING" /\ cur'.receipt = None /\ cur'.att = cur.att
    <3>1. PICK c1 \in Currents : c1 = [cur EXCEPT !.state = "RUNNING"]
      BY <1>1 DEF Currents, States
    <3>2. world.ep \in Nat
      BY <1>1 DEF Worlds
    <3>3. cur' = [c1 EXCEPT !.ep = world.ep]
      BY <2>3, <3>1
    <3>. QED BY <1>1, <2>4, <3>1, <3>2, <3>3 DEF Currents
  <2>13. PhaseOK(c, cur')
    BY <2>4, <2>9, <2>12 DEF PhaseOK
  <2>14. notice' \in Notices
    BY <1>1, <2>3
  <2>. QED BY <2>1, <2>2, <2>3, <2>4, <2>7, <2>9, <2>11, <2>12, <2>13, <2>14, CampaignWritten
<1>6. CASE i \in 1..MaxAttempts /\ Attach(i)
  <2>1. CASE MarkStale
    BY <1>3, <1>6, <2>1 DEF Attach
  <2>2. CASE cur' = [cur EXCEPT !.att = i]
    <3>1. n > 0 /\ cur.state = "RUNNING" /\ i \in DOMAIN Camp.atts /\ UNCHANGED <<world, drift, camps, notice, act, revoked>>
      BY <1>6 DEF Attach
    <3>2. ChainInv' /\ RequestInv' /\ n' = n /\ Camp' = Camp
      BY <3>1, ChainKept DEF Camp
    <3>3. cur' \in Currents /\ cur'.state = "RUNNING" /\ cur'.receipt = cur.receipt /\ cur'.att = i
      BY <1>1, <1>6, <2>2, <3>1, ReadinessAssumption DEF Currents
    <3>4. cur.receipt = None
      BY <3>1 DEF CampaignInv, PhaseInv, PhaseOK
    <3>5. PhaseInv'
      BY <3>1, <3>2, <3>3, <3>4 DEF CampaignInv, PhaseInv, PhaseOK
    <3>6. RowInv'
      BY <3>1, <3>2, <3>3 DEF CampaignInv, RowInv
    <3>. QED BY <3>2, <3>5, <3>6 DEF CampaignInv
  <2>. QED BY <1>6, <2>1, <2>2 DEF Attach
<1>7. CASE Evaluate
  BY <1>3, <1>7 DEF Evaluate
<1>8. CASE Finalize
  <2>1. [world EXCEPT !.status = "READY"] \in Worlds
    BY <1>1, WorldField
  <2>. QED BY <1>1, <1>8, <2>1, StateMoved DEF Finalize
<1>9. CASE Admit
  <2>1. [world EXCEPT !.status = "ACTIVE"] \in Worlds
    BY <1>1, WorldField
  <2>. QED BY <1>2, <1>9, <2>1 DEF Admit
<1>10. CASE RecoverFinalized
  <2>1. NoCandidate \in Int
    BY <1>1 DEF NoCandidate
  <2>2. world' \in Worlds
    <3>1. PICK w1 \in Worlds : w1 = [world EXCEPT !.status = "PREPARED", !.gen = @ + 1]
      <4>1. world.gen + 1 \in Nat
        BY <1>1 DEF Worlds
      <4>2. [world EXCEPT !.status = "PREPARED"] \in Worlds
        BY <1>1, WorldField
      <4>. QED BY <1>1, <4>1, <4>2, WorldField DEF Worlds
    <3>2. PICK w2 \in Worlds : w2 = [w1 EXCEPT !.item = world.src]
      BY <1>1, WorldField
    <3>3. [w2 EXCEPT !.cand = NoCandidate] \in Worlds
      BY <2>1, WorldField
    <3>4. world' = [w2 EXCEPT !.cand = NoCandidate]
      BY <1>10, <3>1, <3>2 DEF RecoverFinalized
    <3>. QED BY <3>3, <3>4
  <2>. QED BY <1>1, <1>10, <2>2, StateMoved DEF RecoverFinalized, MarkStale
<1>11. CASE RegisterCandidate
  <2>1. NoCandidate + world.gen \in Int /\ world.ep \in Nat
    BY <1>1 DEF NoCandidate, Worlds
  <2>2. PICK w1 \in Worlds : w1 = [world EXCEPT !.cand = NoCandidate + world.gen]
    BY <1>1, <2>1, WorldField
  <2>3. [w1 EXCEPT !.cep = world.ep] \in Worlds
    BY <2>1, WorldField
  <2>4. world' = [w1 EXCEPT !.cep = world.ep]
    BY <1>11, <2>2 DEF RegisterCandidate
  <2>. QED BY <1>2, <1>11, <2>3, <2>4 DEF RegisterCandidate
<1>. QED BY <1>4, <1>5, <1>6, <1>7, <1>8, <1>9, <1>10, <1>11

-----------------------------------------------------------------------------
(* Decisions.                                                               *)

\* One request is written over, with the rest of its campaign as it is.
LEMMA RequestWritten ==
    ASSUME CampaignInv, NEW k \in 1..n, NEW r \in Requests,
           camps' = [camps EXCEPT ![k].req = r], UNCHANGED <<world, drift, notice, act, revoked>>,
           CampOK([camps[k] EXCEPT !.req = r]), r.consumed = "RESUMED" <=> camps[k].req.consumed = "RESUMED",
           cur' = cur \/ \E s \in {"STALE", "HOLD"} : k = n /\ cur' = [cur EXCEPT !.state = s]
    PROVE  CampaignInv'
<1>1. PICK d \in Campaigns : d = camps[k]
  BY CampFacts
<1>2. PICK c \in Campaigns : c = [d EXCEPT !.req = r]
  BY DEF Campaigns
<1>3. camps' = [camps EXCEPT ![k] = c] /\ CampOK(c)
  BY <1>1, <1>2
<1>4. /\ c.kind = d.kind /\ c.bind = d.bind /\ c.ord = d.ord /\ c.appr = d.appr /\ c.acts = d.acts /\ c.req = r
      /\ c.atts = d.atts /\ c.pick = d.pick /\ c.art = d.art /\ c.msg = d.msg
  BY <1>2 DEF Campaigns
<1>5. cur \in Currents /\ notice' \in Notices
  BY CurrentField
<1>6. cur' \in Currents /\ cur'.receipt = cur.receipt /\ cur'.att = cur.att /\ (cur'.state = cur.state \/ cur'.state \in {"STALE", "HOLD"})
  BY <1>5 DEF Currents, States
<1>7. k = n => PhaseOK(c, cur')
  <2>1. k = n => PhaseOK(d, cur)
    BY <1>1, CampFacts DEF CampaignInv, PhaseInv, Camp
  <2>. QED BY <1>4, <1>6, <2>1 DEF PhaseOK
<1>. QED BY <1>1, <1>3, <1>4, <1>5, <1>6, <1>7, CampaignWritten

LEMMA RequestField ==
    ASSUME NEW r \in Requests
    PROVE  /\ \A x \in Decisions \cup {None} : /\ [r EXCEPT !.dec = x] \in Requests /\ [r EXCEPT !.dec = x].dec = x
                                              /\ [r EXCEPT !.dec = x].notice = r.notice
                                              /\ [r EXCEPT !.dec = x].consumed = r.consumed
                                              /\ [r EXCEPT !.dec = x].open <=> r.open
           /\ \A x \in {None, "PREPARED", "COMPLETE"} :
                /\ [r EXCEPT !.notice = x] \in Requests /\ [r EXCEPT !.notice = x].notice = x
                /\ [r EXCEPT !.notice = x].dec = r.dec /\ [r EXCEPT !.notice = x].consumed = r.consumed
                /\ [r EXCEPT !.notice = x].open <=> r.open
           /\ \A x \in {None, "STALE", "HOLD", "RESUMED"} :
                /\ [r EXCEPT !.consumed = x] \in Requests /\ [r EXCEPT !.consumed = x].consumed = x
                /\ [r EXCEPT !.consumed = x].dec = r.dec /\ [r EXCEPT !.consumed = x].notice = r.notice
                /\ [r EXCEPT !.consumed = x].open <=> r.open
           /\ /\ [r EXCEPT !.revisit = TRUE] \in Requests /\ [r EXCEPT !.revisit = TRUE].consumed = r.consumed
              /\ [r EXCEPT !.revisit = TRUE].dec = r.dec /\ [r EXCEPT !.revisit = TRUE].notice = r.notice
              /\ [r EXCEPT !.revisit = TRUE].open <=> r.open
<1>1. r = [open |-> r.open, dec |-> r.dec, consumed |-> r.consumed, notice |-> r.notice, revisit |-> r.revisit]
  BY DEF Requests
<1>2. r.open \in BOOLEAN /\ r.revisit \in BOOLEAN
  BY DEF Requests
<1>. QED BY <1>1, <1>2 DEF Requests

\* A request of a campaign keeps its order if the request does.
LEMMA RequestOrdered ==
    ASSUME CampaignInv, NEW k \in 1..n, NEW r \in Requests,
           r.dec = None <=> r.notice = None, r.dec # None => r.open,
           (r.notice = "COMPLETE") <=> (r.consumed # None)
    PROVE  CampOK([camps[k] EXCEPT !.req = r])
<1>1. PICK d \in Campaigns : d = camps[k] /\ CampOK(d)
  BY CampFacts
<1>2. PICK c \in Campaigns : c = [d EXCEPT !.req = r]
  BY DEF Campaigns
<1>3. c.req = r /\ c.tries = d.tries /\ c.pick = d.pick /\ c.art = d.art
  BY <1>2 DEF Campaigns
<1>4. CampOK(c)
  BY <1>1, <1>3 DEF CampOK
<1>. QED BY <1>1, <1>2, <1>4

LEMMA DecisionsKeep ==
    ASSUME CampaignInv, NEW k \in 1..n, NEW d \in Decisions,
           Revoke(k) \/ Decide(k, d) \/ DecisionLost \/ DecisionDrifted \/ DecisionHolds \/ EnqueueRevisit \/ StopRevoked
    PROVE  CampaignInv'
<1>1. n \in Nat /\ n \in 1..n
  BY ChainFacts DEF CampaignInv
<1>2. ASSUME NEW j \in 1..n PROVE camps[j].req \in Requests /\ CampOK(camps[j])
  BY <1>2, CampFacts
<1>3. CASE Revoke(k)
  <2>1. n <= MaxCampaigns /\ MaxCampaigns \in Nat
    BY ReadinessAssumption DEF CampaignInv, ChainInv
  <2>2. RowInv'
    BY <1>1, <1>3, <2>1 DEF Revoke, CampaignInv, RowInv, n
  <2>. QED BY <1>3, <2>2, StillThere DEF Revoke
<1>4. CASE Decide(k, d)
  <2>1. PICK q \in Requests : q = camps[k].req
    BY <1>2
  <2>2. PICK p \in Requests : p = [q EXCEPT !.dec = d]
    BY DEF Requests
  <2>3. PICK r \in Requests : r = [p EXCEPT !.notice = "PREPARED"]
    BY RequestField
  <2>4. /\ q.open /\ q.dec = None /\ UNCHANGED <<world, drift, cur, notice, act, revoked>>
        /\ camps' = [camps EXCEPT ![k].req.dec = d, ![k].req.notice = "PREPARED"]
    BY <1>4, <2>1 DEF Decide
  <2>5. camps' = [camps EXCEPT ![k].req = r]
    BY <2>1, <2>2, <2>3, <2>4
  <2>6. r.dec = d /\ r.notice = "PREPARED" /\ r.consumed = q.consumed /\ r.open
    BY <2>2, <2>3, <2>4, RequestField
  <2>7. q.consumed = None
    BY <1>2, <2>1, <2>4 DEF CampOK, None
  <2>8. CampOK([camps[k] EXCEPT !.req = r])
    BY <2>6, <2>7, RequestOrdered DEF None, Decisions
  <2>. QED BY <2>1, <2>4, <2>5, <2>6, <2>8, RequestWritten
<1>5. ASSUME NEW x \in {"STALE", "HOLD"}, DecisionDue, camps' = Consumed(x), cur' = [cur EXCEPT !.state = x],
             UNCHANGED <<world, drift, notice, act, revoked>>
      PROVE  CampaignInv'
  <2>1. PICK q \in Requests : q = camps[n].req /\ q = Camp.req /\ CampOK(camps[n])
    BY <1>1, <1>2 DEF Camp
  <2>2. PICK p \in Requests : p = [q EXCEPT !.consumed = x]
    BY <1>5, RequestField
  <2>3. PICK r \in Requests : r = [p EXCEPT !.notice = "COMPLETE"]
    BY RequestField
  <2>4. q.notice = "PREPARED" /\ q.consumed = None
    BY <1>5, <2>1 DEF DecisionDue
  <2>5. camps' = [camps EXCEPT ![n].req = r]
    BY <1>5, <2>1, <2>2, <2>3 DEF Consumed
  <2>6. r.dec = q.dec /\ r.notice = "COMPLETE" /\ r.consumed = x /\ (r.open <=> q.open)
    BY <1>5, <2>2, <2>3, RequestField
  <2>7. q.dec # None /\ q.open
    BY <2>1, <2>4 DEF CampOK, None
  <2>8. CampOK([camps[n] EXCEPT !.req = r])
    BY <1>1, <1>5, <2>6, <2>7, RequestOrdered DEF None
  <2>. QED BY <1>1, <1>5, <2>1, <2>4, <2>5, <2>6, <2>8, RequestWritten DEF None
<1>6. CASE DecisionLost
  <2>1. PICK x \in {"STALE", "HOLD"} : cur' = [cur EXCEPT !.state = x] /\ camps' = Consumed(x)
    BY <1>6 DEF DecisionLost
  <2>. QED BY <1>5, <1>6, <2>1 DEF DecisionLost
<1>7. CASE DecisionDrifted
  BY <1>5, <1>7 DEF DecisionDrifted
<1>8. CASE DecisionHolds
  BY <1>5, <1>8 DEF DecisionHolds
<1>9. CASE EnqueueRevisit
  <2>1. PICK q \in Requests : q = camps[n].req /\ q = Camp.req /\ CampOK(camps[n])
    BY <1>1, <1>2 DEF Camp
  <2>2. PICK r \in Requests : r = [q EXCEPT !.revisit = TRUE]
    BY RequestField
  <2>3. r.dec = q.dec /\ r.notice = q.notice /\ r.consumed = q.consumed /\ (r.open <=> q.open)
    BY <2>2, RequestField
  <2>4. camps' = [camps EXCEPT ![n].req = r] /\ UNCHANGED <<world, drift, cur, notice, act, revoked>>
    BY <1>9, <2>1, <2>2 DEF EnqueueRevisit
  <2>5. CampOK([camps[n] EXCEPT !.req = r])
    BY <1>1, <2>1, <2>3, RequestOrdered DEF CampOK
  <2>. QED BY <1>1, <2>1, <2>3, <2>4, <2>5, RequestWritten
<1>10. CASE StopRevoked
  <2>1. PICK q \in Campaigns : q = camps[n] /\ q = Camp /\ CampOK(q)
    BY <1>1, CampFacts DEF Camp
  <2>2. /\ cur.state \in {"PENDING", "RUNNING", "READY_ELIGIBLE", "FINALIZED"} /\ cur' = [cur EXCEPT !.state = "HOLD"]
        /\ camps' = [camps EXCEPT ![n].msg = IF q.msg \in {"PREPARED", "CLAIMED"} THEN "HOLD" ELSE q.msg]
        /\ UNCHANGED <<world, drift, notice, act, revoked>>
    BY <1>10, <2>1 DEF StopRevoked
  <2>3. PICK m : m = (IF q.msg \in {"PREPARED", "CLAIMED"} THEN "HOLD" ELSE q.msg) /\ m \in {None, "PREPARED", "CLAIMED", "COMPLETE", "HOLD"}
    BY DEF Campaigns
  <2>4. PICK c \in Campaigns : c = [q EXCEPT !.msg = m]
    BY <2>3 DEF Campaigns
  <2>5. camps' = [camps EXCEPT ![n] = c]
    BY <2>1, <2>2, <2>3, <2>4
  <2>6. /\ c.kind = q.kind /\ c.bind = q.bind /\ c.ord = q.ord /\ c.appr = q.appr /\ c.acts = q.acts /\ c.req = q.req
        /\ c.atts = q.atts /\ c.pick = q.pick /\ c.art = q.art /\ c.tries = q.tries /\ c.msg = m
    BY <2>4 DEF Campaigns
  <2>7. CampOK(c)
    BY <2>1, <2>6 DEF CampOK
  <2>8. cur' \in Currents /\ notice' \in Notices /\ cur'.state = "HOLD" /\ cur'.receipt = cur.receipt /\ cur'.att = cur.att
    BY <2>2, CurrentField DEF Currents, States
  <2>9. PhaseOK(c, cur')
    <3>1. PhaseOK(q, cur)
      BY <1>1, <2>1 DEF CampaignInv, PhaseInv
    <3>2. q.msg = "COMPLETE" => m = "COMPLETE"
      BY <2>3
    <3>. QED BY <2>6, <2>8, <3>1, <3>2 DEF PhaseOK
  <2>10. /\ c.kind = camps[n].kind /\ c.bind = camps[n].bind /\ c.ord = camps[n].ord /\ c.appr = camps[n].appr
         /\ (c.req.consumed = "RESUMED" <=> camps[n].req.consumed = "RESUMED")
    BY <2>1, <2>6
  <2>11. UNCHANGED <<world, drift, act, revoked>>
    BY <2>2
  <2>. QED BY <1>1, <2>5, <2>7, <2>8, <2>9, <2>10, <2>11, CampaignWritten
<1>. QED BY <1>3, <1>4, <1>6, <1>7, <1>8, <1>9, <1>10

-----------------------------------------------------------------------------
(* Successors.                                                              *)

\* A campaign nothing has happened to yet.
NewlyMade(c) ==
    /\ c \in Campaigns /\ c.pick = None /\ c.tries = 0
    /\ c.req.dec = None /\ c.req.notice = None /\ c.req.consumed = None

LEMMA NewCampaignMade ==
    ASSUME NEW kind \in {"INITIAL", "REFRESH", "RESOLUTION", "APPROVAL_RESUME"}, NEW b \in Bindings,
           NEW ord \in 0..MaxCycles, NEW a \in Nat
    PROVE  /\ NewlyMade(NewCampaign(kind, b, ord, a))
           /\ NewCampaign(kind, b, ord, a).kind = kind /\ NewCampaign(kind, b, ord, a).bind = b
           /\ NewCampaign(kind, b, ord, a).ord = ord /\ NewCampaign(kind, b, ord, a).appr = a
<1>1. PICK r \in Requests : r = Request(FALSE) /\ r.dec = None /\ r.notice = None /\ r.consumed = None
  <2>1. Request(FALSE) = [open |-> FALSE, dec |-> None, consumed |-> None, notice |-> None, revisit |-> FALSE]
    BY DEF Request
  <2>2. [open |-> FALSE, dec |-> None, consumed |-> None, notice |-> None, revisit |-> FALSE] \in Requests
    BY DEF Requests
  <2>. QED BY <2>1, <2>2
<1>2. /\ << >> \in Seq({"RUNNING", "COMPLETE", "HOLD"}) /\ << >> \in Seq({"source", "graph", "candidate"})
      /\ 0 \in 0..MaxTries
  BY ReadinessAssumption
<1>3. [kind |-> kind, bind |-> b, ord |-> ord, appr |-> a, msg |-> None, atts |-> << >>,
       pick |-> None, tries |-> 0, art |-> None, acts |-> << >>, req |-> r] \in Campaigns
  BY <1>2 DEF Campaigns
<1>. QED BY <1>1, <1>3 DEF NewlyMade, NewCampaign

\* The last campaign's successor: the others keep what they were registered with, and
\* the last one's request is consumed exactly by a resumed one.
LEMMA Succeeded ==
    ASSUME CampaignInv, NEW c, NewlyMade(c), n < MaxCampaigns,
           NEW cs \in Seq(Campaigns), Len(cs) = n, camps' = Append(cs, c),
           \A j \in 1..n : /\ cs[j].kind = camps[j].kind /\ cs[j].bind = camps[j].bind
                           /\ cs[j].ord = camps[j].ord /\ cs[j].appr = camps[j].appr
                           /\ cs[j].acts = camps[j].acts /\ CampOK(cs[j])
                           /\ j < n => (cs[j].req.consumed = "RESUMED" <=> camps[j].req.consumed = "RESUMED"),
           n > 0 => (cs[n].req.consumed = "RESUMED" <=> c.kind = "APPROVAL_RESUME"),
           n > 0 => c.bind.gen >= Camp.bind.gen,
           n > 0 /\ c.bind.gen = Camp.bind.gen
              => c.ord = Camp.ord + (IF c.kind = "RESOLUTION" THEN 1 ELSE 0),
           n = 0 \/ c.bind.gen # Camp.bind.gen => c.ord = 0 /\ c.kind # "RESOLUTION",
           c.kind = "APPROVAL_RESUME" => c.appr = n,
           c.kind = "RESOLUTION" =>
              /\ Wants(n, "source") => /\ c.bind.source = DesiredSource(n) /\ c.bind.item = DesiredSource(n)
              /\ Wants(n, "graph") => c.bind.graph = Desired(n)
              /\ Wants(n, "candidate") => c.bind.candidate = Desired(n),
           cur' = [state |-> "PENDING", att |-> 0, ep |-> 0, receipt |-> None], notice' = NoNotice,
           UNCHANGED <<world, drift, act, revoked>>
    PROVE  CampaignInv'
<1>1. c \in Campaigns /\ n \in Nat
  BY ChainFacts DEF NewlyMade, CampaignInv
<1>2. /\ camps' \in Seq(Campaigns) /\ Len(camps') = n + 1 /\ camps'[n + 1] = c
      /\ \A j \in 1..n : camps'[j] = cs[j]
  BY <1>1, AppendProperties
<1>3. ChainInv' /\ n' = n + 1 /\ Camp' = c
  BY <1>1, <1>2, Grown
<1>4. CampOK(c)
  BY ReadinessAssumption DEF NewlyMade, CampOK, None
<1>5. RequestInv'
  <2>1. ASSUME NEW k \in 1..(n + 1) PROVE CampOK(camps'[k])
    <3>1. CASE k = n + 1
      BY <1>2, <1>4, <3>1
    <3>2. CASE k \in 1..n
      BY <1>2, <3>2
    <3>. QED BY <1>1, <3>1, <3>2
  <2>2. ASSUME NEW k \in 1..(n + 1)
        PROVE  (k < n + 1 /\ camps'[k + 1].kind = "APPROVAL_RESUME") <=> camps'[k].req.consumed = "RESUMED"
    <3>1. CASE k = n + 1
      BY <1>1, <1>2, <3>1 DEF NewlyMade, None
    <3>2. CASE k = n
      BY <1>1, <1>2, <3>2
    <3>3. CASE k \in 1..n /\ k < n
      <4>1. (k < n /\ camps[k + 1].kind = "APPROVAL_RESUME") <=> camps[k].req.consumed = "RESUMED"
        BY <3>3 DEF CampaignInv, RequestInv
      <4>2. k + 1 \in 1..n /\ k < n + 1
        BY <1>1, <3>3
      <4>3. camps'[k + 1].kind = camps[k + 1].kind
        BY <1>2, <4>2
      <4>4. camps'[k].req.consumed = "RESUMED" <=> camps[k].req.consumed = "RESUMED"
        BY <1>2, <3>3
      <4>. QED BY <3>3, <4>1, <4>2, <4>3, <4>4
    <3>. QED BY <1>1, <3>1, <3>2, <3>3
  <2>. QED BY <1>3, <2>1, <2>2 DEF RequestInv, CampOK
<1>6. PhaseInv'
  <2>1. cur'.state = "PENDING" /\ cur'.att = 0 /\ cur'.receipt = None
    OBVIOUS
  <2>2. c.pick = None
    BY DEF NewlyMade
  <2>. QED BY <1>1, <1>3, <2>1, <2>2 DEF PhaseInv, PhaseOK
<1>7. RowInv'
  <2>1. cur' \in Currents
    BY ReadinessAssumption DEF Currents, States
  <2>2. notice' \in Notices
    BY DEF Notices, NoNotice
  <2>3. act.step # "idle" => act.k \in 1..(n + 1)
    BY <1>1 DEF CampaignInv, RowInv
  <2>. QED BY <1>3, <2>1, <2>2, <2>3 DEF CampaignInv, RowInv
<1>. QED BY <1>3, <1>5, <1>6, <1>7 DEF CampaignInv

LEMMA BindingMade == CampaignInv => BindingOf(world) \in Bindings /\ BindingOf(world).gen = world.gen /\ world.gen \in Nat
BY DEF CampaignInv, RowInv, Worlds, BindingOf, Bindings

\* A registration with the world's binding.
LEMMA Registered ==
    ASSUME CampaignInv, NEW kind \in {"INITIAL", "REFRESH", "RESOLUTION"}, NEW ord \in Nat, NEW a \in Nat,
           Register(camps, kind, BindingOf(world), ord, a), UNCHANGED <<world, drift, act, revoked>>,
           n > 0 => world.gen >= Camp.bind.gen /\ ord = Ordinal(kind, BindingOf(world)),
           n = 0 => kind = "INITIAL" /\ ord = 0,
           kind = "RESOLUTION" =>
              /\ Wants(n, "source") => world.src = DesiredSource(n) /\ world.item = DesiredSource(n)
              /\ Wants(n, "graph") => world.graph = Desired(n)
              /\ Wants(n, "candidate") => world.cand = Desired(n)
    PROVE  CampaignInv'
<1>1. PICK b \in Bindings : b = BindingOf(world) /\ b.gen = world.gen /\ b.gen \in Nat
  BY BindingMade
<1>2. /\ n < MaxCampaigns /\ ord \in 0..MaxCycles /\ camps' = Append(camps, NewCampaign(kind, b, ord, a))
      /\ cur' = [state |-> "PENDING", att |-> 0, ep |-> 0, receipt |-> None] /\ notice' = NoNotice
      /\ (n > 0 /\ kind # "REFRESH") => b.gen = Camp.bind.gen
  BY <1>1, ReadinessAssumption DEF Register
<1>3. PICK c : /\ c = NewCampaign(kind, b, ord, a) /\ NewlyMade(c)
               /\ c.kind = kind /\ c.bind = b /\ c.ord = ord /\ c.appr = a
  BY <1>2, NewCampaignMade
<1>4. camps \in Seq(Campaigns) /\ Len(camps) = n /\ n \in Nat /\ \A j \in 1..n : CampOK(camps[j])
  BY ChainFacts DEF CampaignInv, ChainInv, RequestInv, n
<1>5. n > 0 => camps[n].req.consumed # "RESUMED"
  BY NotYetResumed
<1>6. n > 0 => Camp.bind.gen \in Nat
  <2>1. n > 0 => Camp.bind \in Bindings
    BY <1>4, CampFacts DEF Camp
  <2>. QED BY <2>1 DEF Bindings
<1>7. /\ n > 0 /\ c.bind.gen = Camp.bind.gen => c.ord = Camp.ord + (IF c.kind = "RESOLUTION" THEN 1 ELSE 0)
      /\ n = 0 \/ c.bind.gen # Camp.bind.gen => c.ord = 0 /\ c.kind # "RESOLUTION"
  BY <1>1, <1>2, <1>3, <1>4, <1>6 DEF Ordinal
<1>8. c.kind = "RESOLUTION" =>
        /\ Wants(n, "source") => /\ c.bind.source = DesiredSource(n) /\ c.bind.item = DesiredSource(n)
        /\ Wants(n, "graph") => c.bind.graph = Desired(n)
        /\ Wants(n, "candidate") => c.bind.candidate = Desired(n)
  BY <1>1, <1>3 DEF BindingOf
<1>. QED BY <1>1, <1>2, <1>3, <1>4, <1>5, <1>7, <1>8, Succeeded

LEMMA RegistersKeep ==
    ASSUME CampaignInv, RegisterInitial \/ RegisterRefresh \/ ReopenTerminalHold \/ ApplyResolution
    PROVE  CampaignInv'
<1>1. /\ n \in Nat /\ BindingOf(world).gen = world.gen /\ world.gen \in Nat
      /\ n > 0 => Camp.bind.gen \in Nat /\ Camp.ord \in Nat /\ Camp.appr \in Nat
  <2>1. n \in Nat
    BY ChainFacts DEF CampaignInv
  <2>2. n > 0 => Camp.bind \in Bindings /\ Camp.ord \in Nat /\ Camp.appr \in Nat
    BY <2>1, CampFacts, ReadinessAssumption DEF Camp
  <2>. QED BY <2>1, <2>2, BindingMade DEF Bindings
<1>2. CASE RegisterInitial
  BY <1>1, <1>2, Registered DEF RegisterInitial
<1>3. CASE RegisterRefresh \/ ReopenTerminalHold
  <2>1. /\ n > 0 /\ world.gen >= Camp.bind.gen /\ UNCHANGED <<world, drift, act, revoked>>
        /\ Register(camps, "REFRESH", BindingOf(world), Ordinal("REFRESH", BindingOf(world)), 0)
    BY <1>1, <1>3 DEF RegisterRefresh, ReopenTerminalHold
  <2>2. Ordinal("REFRESH", BindingOf(world)) \in Nat
    BY <1>1, <2>1 DEF Ordinal
  <2>. QED BY <2>1, <2>2, Registered
<1>4. CASE ApplyResolution
  <2>1. n > 0 /\ UNCHANGED <<world, drift, act, revoked>>
    BY <1>4 DEF ApplyResolution
  <2>2. CASE Resolved /\ Register(camps, "RESOLUTION", BindingOf(world), Ordinal("RESOLUTION", BindingOf(world)), Camp.appr)
    <3>1. world.gen = Camp.bind.gen
      BY <1>1, <2>1, <2>2 DEF Register
    <3>2. Ordinal("RESOLUTION", BindingOf(world)) \in Nat
      BY <1>1, <2>1 DEF Ordinal
    <3>3. /\ Wants(n, "source") => world.src = DesiredSource(n) /\ world.item = DesiredSource(n)
          /\ Wants(n, "graph") => world.graph = Desired(n)
          /\ Wants(n, "candidate") => world.cand = Desired(n)
      <4>1. \A f : Wants(n, f) => AsDesired(n, f)
        BY <2>2 DEF Resolved, Wants, Camp
      <4>. QED BY <4>1 DEF AsDesired
    <3>. QED BY <1>1, <2>1, <2>2, <3>1, <3>2, <3>3, Registered
  <2>3. CASE HoldResolution /\ UNCHANGED camps
    <3>1. notice' \in Notices /\ world' \in Worlds
      BY <2>1, <2>3 DEF HoldResolution, CampaignInv, RowInv, Notices
    <3>. QED BY <2>1, <2>3, <3>1, StateMoved DEF HoldResolution
  <2>. QED BY <1>4, <2>2, <2>3 DEF ApplyResolution
<1>. QED BY <1>2, <1>3, <1>4

LEMMA ResumesKeeps == CampaignInv /\ DecisionResumes => CampaignInv'
<1>. SUFFICES ASSUME CampaignInv, DecisionResumes PROVE CampaignInv'
  OBVIOUS
<1>1. /\ n > 0 /\ n < MaxCampaigns /\ Camp.req.notice = "PREPARED" /\ Camp.req.consumed = None
      /\ camps' = Append(Consumed("RESUMED"), NewCampaign("APPROVAL_RESUME", Camp.bind, Camp.ord, n))
      /\ cur' = [state |-> "PENDING", att |-> 0, ep |-> 0, receipt |-> None] /\ notice' = NoNotice
      /\ UNCHANGED <<world, drift, act, revoked>>
  BY DEF DecisionResumes, DecisionDue
<1>2. n \in Nat /\ n \in 1..n /\ camps \in Seq(Campaigns) /\ Len(camps) = n /\ Camp.bind \in Bindings /\ Camp.ord \in 0..MaxCycles
  <2>1. n \in Nat /\ n \in 1..n
    BY <1>1, ChainFacts DEF CampaignInv
  <2>. QED BY <2>1, CampFacts DEF Camp, CampaignInv, ChainInv, n
<1>3. PICK d \in Campaigns : d = camps[n] /\ d = Camp /\ CampOK(d)
  BY <1>2, CampFacts DEF Camp
<1>4. PICK q \in Requests : q = d.req
  BY <1>2, <1>3, CampFacts
<1>5. PICK p \in Requests : p = [q EXCEPT !.consumed = "RESUMED"]
  BY RequestField
<1>6. PICK r \in Requests : r = [p EXCEPT !.notice = "COMPLETE"]
  BY RequestField
<1>7. PICK e \in Campaigns : e = [d EXCEPT !.req = r]
  BY DEF Campaigns
<1>8. PICK cs \in Seq(Campaigns) : cs = [camps EXCEPT ![n] = e] /\ Len(cs) = n
  <2>1. n \in 1..Len(camps)
    BY <1>2
  <2>2. [camps EXCEPT ![n] = e] \in Seq(Campaigns) /\ Len([camps EXCEPT ![n] = e]) = Len(camps)
    BY <1>2, <2>1, ExceptSeq
  <2>. QED BY <1>2, <2>2
<1>9. Consumed("RESUMED") = cs
  BY <1>3, <1>4, <1>5, <1>6, <1>7, <1>8 DEF Consumed
<1>10. /\ e.kind = d.kind /\ e.bind = d.bind /\ e.ord = d.ord /\ e.appr = d.appr /\ e.acts = d.acts /\ e.req = r
       /\ e.pick = d.pick /\ e.tries = d.tries /\ e.art = d.art
  BY <1>7 DEF Campaigns
<1>11. r.dec = q.dec /\ r.notice = "COMPLETE" /\ r.consumed = "RESUMED" /\ (r.open <=> q.open)
  BY <1>5, <1>6, RequestField
<1>12. CampOK(e)
  BY <1>1, <1>3, <1>4, <1>10, <1>11 DEF CampOK, None
<1>13. cs[n] = e /\ \A j \in 1..n : j # n => cs[j] = camps[j]
  BY <1>2, <1>8
<1>14. \A j \in 1..n : /\ cs[j].kind = camps[j].kind /\ cs[j].bind = camps[j].bind
                       /\ cs[j].ord = camps[j].ord /\ cs[j].appr = camps[j].appr
                       /\ cs[j].acts = camps[j].acts /\ CampOK(cs[j])
                       /\ j < n => (cs[j].req.consumed = "RESUMED" <=> camps[j].req.consumed = "RESUMED")
  <2>. SUFFICES ASSUME NEW j \in 1..n
                PROVE  /\ cs[j].kind = camps[j].kind /\ cs[j].bind = camps[j].bind
                       /\ cs[j].ord = camps[j].ord /\ cs[j].appr = camps[j].appr
                       /\ cs[j].acts = camps[j].acts /\ CampOK(cs[j])
                       /\ j < n => (cs[j].req.consumed = "RESUMED" <=> camps[j].req.consumed = "RESUMED")
    OBVIOUS
  <2>1. CASE j = n
    <3>1. cs[j] = e /\ camps[j] = d
      BY <1>3, <1>13, <2>1
    <3>2. ~(j < n)
      BY <1>2, <2>1
    <3>. QED BY <1>10, <1>12, <3>1, <3>2
  <2>2. CASE j # n
    BY <1>13, <2>2, CampFacts
  <2>. QED BY <2>1, <2>2
<1>15. PICK c : /\ c = NewCampaign("APPROVAL_RESUME", Camp.bind, Camp.ord, n) /\ NewlyMade(c)
                /\ c.kind = "APPROVAL_RESUME" /\ c.bind = Camp.bind /\ c.ord = Camp.ord /\ c.appr = n
  BY <1>2, NewCampaignMade
<1>16. Camp.bind.gen \in Nat /\ Camp.ord \in Nat
  BY <1>2 DEF Bindings
<1>17. cs[n].req.consumed = "RESUMED"
  BY <1>10, <1>11, <1>13
<1>18. camps' = Append(cs, c)
  BY <1>1, <1>9, <1>15
<1>19. /\ c.bind.gen >= Camp.bind.gen /\ c.ord = Camp.ord + (IF c.kind = "RESOLUTION" THEN 1 ELSE 0)
       /\ ~(n = 0 \/ c.bind.gen # Camp.bind.gen)
  BY <1>1, <1>2, <1>15, <1>16
<1>. QED BY <1>1, <1>8, <1>14, <1>15, <1>17, <1>18, <1>19, Succeeded

-----------------------------------------------------------------------------
(* The chain of campaigns is sound.                                         *)

LEMMA CampaignStarts == Init => CampaignInv
<1>. SUFFICES ASSUME Init PROVE CampaignInv
  OBVIOUS
<1>1. camps = << >> /\ n = 0
  BY DEF Init, n
<1>2. RowInv
  BY <1>1, ReadinessAssumption DEF Init, RowInv, Worlds, Sources, Source, Currents, States, Notices, NoNotice, Acts, Idle
<1>3. ChainInv
  <2>1. \A g : Resolutions(g) = {}
    BY <1>1 DEF Resolutions
  <2>2. << >> \in Seq(Campaigns)
    OBVIOUS
  <2>. QED BY <1>1, <2>1, <2>2, ReadinessAssumption, FS_EmptySet DEF ChainInv, SuccessorIsResolved
<1>4. RequestInv /\ PhaseInv
  BY <1>1 DEF Init, RequestInv, PhaseInv
<1>. QED BY <1>2, <1>3, <1>4 DEF CampaignInv

LEMMA CampaignKept == CampaignInv /\ [ReadinessNext]_vars => CampaignInv'
<1>. SUFFICES ASSUME CampaignInv, [ReadinessNext]_vars PROVE CampaignInv'
  OBVIOUS
<1>1. CASE UNCHANGED vars
  <2>1. RowInv'
    BY <1>1 DEF vars, CampaignInv, RowInv, n
  <2>. QED BY <1>1, <2>1, StillThere DEF vars
<1>2. CASE CampaignNext
  <2>1. CASE RegisterInitial \/ RegisterRefresh \/ ReopenTerminalHold
    BY <2>1, RegistersKeep
  <2>2. ASSUME NEW i \in 1..MaxAttempts, Attach(i) PROVE CampaignInv'
    BY <2>2, DispatchKeeps
  <2>3. CASE Dispatch \/ Evaluate \/ Finalize \/ Admit \/ RecoverFinalized \/ RegisterCandidate
    BY <2>3, DispatchKeeps
  <2>. QED BY <1>2, <2>1, <2>2, <2>3 DEF CampaignNext
<1>3. CASE WorkerNext
  <2>. PICK k \in 1..n : \/ Launch(k) \/ WorkerClaim(k)
                        \/ \E i \in 1..MaxAttempts : WorkerComplete(k, i) \/ WorkerDie(k, i)
    BY <1>3 DEF WorkerNext
  <2>1. CASE Launch(k) \/ WorkerClaim(k)
    BY <2>1, WorkersKeep
  <2>2. ASSUME NEW i \in 1..MaxAttempts, WorkerComplete(k, i) \/ WorkerDie(k, i) PROVE CampaignInv'
    BY <2>2, WorkersKeep
  <2>. QED BY <2>1, <2>2
<1>4. CASE ReceiptNext
  <2>1. ASSUME NEW v \in Verdicts, NEW s \in ActionSets \cup {<< >>}, StageReceipt(v, s) PROVE CampaignInv'
    BY <2>1, ReceiptsKeep
  <2>2. CASE PickupReceipt \/ PickupFailure
    <3>1. "PASS" \in Verdicts /\ << >> \in ActionSets \cup {<< >>}
      BY DEF Verdicts
    <3>. QED BY <2>2, <3>1, ReceiptsKeep
  <2>. QED BY <1>4, <2>1, <2>2 DEF ReceiptNext
<1>5. CASE PlannerNext
  <2>1. CASE ApplyResolution
    BY <2>1, RegistersKeep
  <2>2. CASE ClaimContext \/ SourceEffect \/ ItemRebind \/ GraphEffect \/ CandidateEffect \/ CommitAction \/ PlannerDie
    BY <2>2, PlannerKeeps
  <2>3. ASSUME NEW i \in 1..3, StartAction(i) PROVE CampaignInv'
    BY <2>3, PlannerKeeps
  <2>. QED BY <1>5, <2>1, <2>2, <2>3 DEF PlannerNext
<1>6. CASE DecisionNext
  <2>1. ASSUME NEW k \in 1..n, Revoke(k) PROVE CampaignInv'
    BY <2>1, DecisionsKeep DEF Decisions
  <2>2. ASSUME NEW k \in 1..n, NEW d \in Decisions, Decide(k, d) PROVE CampaignInv'
    BY <2>2, DecisionsKeep
  <2>3. CASE DecisionResumes
    BY <2>3, ResumesKeeps
  <2>4. CASE DecisionLost \/ DecisionDrifted \/ DecisionHolds \/ EnqueueRevisit \/ StopRevoked
    <3>1. n \in 1..n
      BY <2>4, ChainFacts DEF DecisionLost, DecisionDrifted, DecisionHolds, DecisionDue, EnqueueRevisit, StopRevoked, CampaignInv
    <3>. QED BY <2>4, <3>1, DecisionsKeep DEF Decisions
  <2>. QED BY <1>6, <2>1, <2>2, <2>3, <2>4 DEF DecisionNext
<1>7. CASE WorldNext
  BY <1>7, WorldKeeps
<1>. QED BY <1>1, <1>2, <1>3, <1>4, <1>5, <1>6, <1>7 DEF ReadinessNext

LEMMA CampaignHolds == Spec => []CampaignInv
BY CampaignStarts, CampaignKept, PTL DEF Spec

LEMMA InvIsSound == CampaignInv => CampaignsAreSound
<1>. SUFFICES ASSUME CampaignInv PROVE CampaignsAreSound
  OBVIOUS
<1>1. n \in Nat
  BY ChainFacts DEF CampaignInv
<1>2. TypeOK
  <2>1. \A k \in 1..n : /\ camps[k].msg \in {None, "PREPARED", "CLAIMED", "COMPLETE", "HOLD"}
                         /\ camps[k].pick \in {None, "PENDING", "STAGED", "RECORDED", "HOLD"}
                         /\ camps[k].tries \in 0..MaxTries /\ camps[k].ord \in 0..MaxCycles
    BY CampFacts DEF Campaigns
  <2>2. n <= MaxCampaigns
    BY DEF CampaignInv, ChainInv
  <2>. QED BY <2>1, <2>2 DEF TypeOK, CampaignInv, RowInv, Worlds, Currents, Notices, Acts
<1>3. CyclesPerGeneration
  <2>. SUFFICES ASSUME NEW k \in 1..n
                PROVE  Cardinality({j \in 1..n : camps[j].kind = "RESOLUTION" /\ camps[j].bind.gen = camps[k].bind.gen}) <= MaxCycles
    BY DEF CyclesPerGeneration
  <2>1. PICK g \in Nat : g = camps[k].bind.gen
    BY CampFacts DEF Bindings
  <2>2. Cardinality(Resolutions(g)) <= MaxCycles
    BY DEF CampaignInv, ChainInv
  <2>. QED BY <2>1, <2>2 DEF Resolutions
<1>4. ReceiptIsOwn
  BY <1>1 DEF ReceiptIsOwn, CampaignInv, PhaseInv, PhaseOK
<1>5. OneResume
  <2>. SUFFICES ASSUME NEW k \in 1..n
                PROVE  /\ (camps[k].req.notice = "COMPLETE") <=> (camps[k].req.consumed # None)
                       /\ (camps[k].req.consumed = "RESUMED")
                             <=> Cardinality({j \in 1..n : camps[j].kind = "APPROVAL_RESUME" /\ camps[j].appr = k}) = 1
    BY DEF OneResume
  <2>. DEFINE R == {j \in 1..n : camps[j].kind = "APPROVAL_RESUME" /\ camps[j].appr = k}
  <2>1. (camps[k].req.notice = "COMPLETE") <=> (camps[k].req.consumed # None)
    BY CampFacts DEF CampOK
  <2>2. (k < n /\ camps[k + 1].kind = "APPROVAL_RESUME") <=> camps[k].req.consumed = "RESUMED"
    BY DEF CampaignInv, RequestInv
  <2>3. \A j \in 1..n : camps[j].kind = "APPROVAL_RESUME" => camps[j].appr = j - 1
    BY DEF CampaignInv, ChainInv
  <2>4. CASE k < n /\ camps[k + 1].kind = "APPROVAL_RESUME"
    <3>1. R = {k + 1}
      BY <1>1, <2>3, <2>4
    <3>2. Cardinality(R) = 1
      BY <3>1, FS_Singleton
    <3>. QED BY <2>1, <2>2, <2>4, <3>2
  <2>5. CASE ~(k < n /\ camps[k + 1].kind = "APPROVAL_RESUME")
    <3>1. R = {}
      BY <1>1, <2>3, <2>5
    <3>2. Cardinality(R) = 0
      BY <3>1, FS_EmptySet
    <3>. QED BY <2>1, <2>2, <2>5, <3>2
  <2>. QED BY <2>4, <2>5
<1>. QED BY <1>2, <1>3, <1>4, <1>5 DEF CampaignsAreSound, CampaignInv, ChainInv

\* The chain of campaigns is sound at all times: a verdict on record is the attached
\* attempt's own, a resolution's successor is bound to what was asked for, a generation
\* resolves a bounded number of times, a request resumes one campaign at most.
THEOREM CampaignChainSound == Spec => []CampaignsAreSound
BY CampaignHolds, InvIsSound, PTL

-----------------------------------------------------------------------------
(* How a campaign leaves a judgement, a parking or a hold.                  *)

LEMMA StateLeft ==
    ASSUME CampaignInv, [ReadinessNext]_vars, cur.state \in {"APPROVAL_PENDING", "HOLD"}
    PROVE  \/ cur' = cur
           \/ cur.state = "HOLD" /\ ReopenTerminalHold
           \/ DecisionLost \/ DecisionDrifted \/ DecisionResumes \/ DecisionHolds
<1>1. CASE UNCHANGED vars
  BY <1>1 DEF vars
<1>2. CASE CampaignNext
  <2>1. CASE RegisterInitial \/ RegisterRefresh \/ ReopenTerminalHold
    BY <2>1 DEF RegisterInitial, RegisterRefresh, ReopenTerminalHold, TerminallyHeld, CampaignInv, PhaseInv
  <2>2. ASSUME NEW i, Attach(i) PROVE FALSE
    BY <2>2 DEF Attach
  <2>3. CASE Dispatch \/ Evaluate \/ Finalize \/ Admit \/ RecoverFinalized \/ RegisterCandidate
    BY <2>3 DEF Dispatch, Evaluate, Finalize, Admit, RecoverFinalized, RegisterCandidate
  <2>. QED BY <1>2, <2>1, <2>2, <2>3 DEF CampaignNext
<1>3. CASE WorkerNext
  BY <1>3 DEF WorkerNext, Launch, WorkerClaim, WorkerComplete, WorkerDie
<1>4. CASE ReceiptNext
  BY <1>4 DEF ReceiptNext, StageReceipt, PickupReceipt, PickupFailure, PickupDue
<1>5. CASE PlannerNext
  BY <1>5 DEF PlannerNext, ClaimContext, StartAction, SourceEffect, ItemRebind, GraphEffect, CandidateEffect,
              CommitAction, PlannerDie, ApplyResolution, Pending
<1>6. CASE DecisionNext
  BY <1>6 DEF DecisionNext, Revoke, Decide, EnqueueRevisit, StopRevoked
<1>7. CASE WorldNext
  BY <1>7 DEF WorldNext, EditSource, CommentOnSource, ReplaceGraph, RotateEndpoint, PrepareGeneration, Change
<1>. QED BY <1>1, <1>2, <1>3, <1>4, <1>5, <1>6, <1>7 DEF ReadinessNext

LEMMA OnlyAdmitted ==
    ASSUME CampaignInv, [ReadinessNext]_vars, world.status = "READY", world'.status = "ACTIVE"
    PROVE  Admit
<1>. world \in Worlds
  BY DEF CampaignInv, RowInv
<1>1. CASE UNCHANGED vars
  BY <1>1 DEF vars
<1>2. CASE CampaignNext
  <2>1. CASE RegisterInitial \/ RegisterRefresh \/ ReopenTerminalHold
    BY <2>1 DEF RegisterInitial, RegisterRefresh, ReopenTerminalHold
  <2>2. ASSUME NEW i, Attach(i) PROVE FALSE
    BY <2>2 DEF Attach
  <2>3. CASE Dispatch \/ Evaluate \/ RegisterCandidate
    BY <2>3 DEF Dispatch, Evaluate, RegisterCandidate
  <2>4. CASE Finalize
    BY <2>4 DEF Finalize, Worlds
  <2>5. CASE RecoverFinalized
    <3>1. world' = [[[[world EXCEPT !.status = "PREPARED"] EXCEPT !.gen = world.gen + 1] EXCEPT !.item = world.src]
                      EXCEPT !.cand = NoCandidate]
      BY <2>5 DEF RecoverFinalized
    <3>2. world'.status = "PREPARED"
      BY <3>1 DEF Worlds
    <3>. QED BY <3>2
  <2>. QED BY <1>2, <2>1, <2>2, <2>3, <2>4, <2>5 DEF CampaignNext
<1>3. CASE WorkerNext
  BY <1>3 DEF WorkerNext, Launch, WorkerClaim, WorkerComplete, WorkerDie
<1>4. CASE ReceiptNext
  BY <1>4 DEF ReceiptNext, StageReceipt, PickupReceipt, PickupFailure
<1>5. CASE PlannerNext
  <2>1. CASE \/ ClaimContext \/ CommitAction \/ PlannerDie \/ ApplyResolution
             \/ \E i \in 1..3 : StartAction(i)
    BY <2>1 DEF ClaimContext, StartAction, CommitAction, PlannerDie, ApplyResolution
  <2>2. CASE SourceEffect
    BY <2>2 DEF SourceEffect, Worlds
  <2>3. CASE ItemRebind
    BY <2>3 DEF ItemRebind, Worlds
  <2>4. CASE GraphEffect
    BY <2>4 DEF GraphEffect, Worlds
  <2>5. CASE CandidateEffect
    BY <2>5 DEF CandidateEffect, Worlds
  <2>. QED BY <1>5, <2>1, <2>2, <2>3, <2>4, <2>5 DEF PlannerNext
<1>6. CASE DecisionNext
  BY <1>6 DEF DecisionNext, Revoke, Decide, EnqueueRevisit, StopRevoked, DecisionLost, DecisionDrifted, DecisionResumes, DecisionHolds
<1>7. CASE WorldNext
  <2>1. CASE EditSource
    BY <2>1 DEF EditSource, Change, Worlds
  <2>2. CASE CommentOnSource
    BY <2>2 DEF CommentOnSource, Change, Worlds
  <2>3. CASE ReplaceGraph
    BY <2>3 DEF ReplaceGraph, Change, Worlds
  <2>4. CASE RotateEndpoint
    BY <2>4 DEF RotateEndpoint, Change, Worlds
  <2>5. CASE PrepareGeneration
    <3>1. world' = [[[[[world EXCEPT !.gen = world.gen + 1] EXCEPT !.item = world.src] EXCEPT !.cand = Fresh]
                      EXCEPT !.cep = world.ep] EXCEPT !.status = "PREPARED"]
      BY <2>5 DEF PrepareGeneration, Change
    <3>2. world'.status = "PREPARED"
      BY <3>1 DEF Worlds
    <3>. QED BY <3>2
  <2>. QED BY <1>7, <2>1, <2>2, <2>3, <2>4, <2>5 DEF WorldNext
<1>. QED BY <1>1, <1>2, <1>3, <1>4, <1>5, <1>6, <1>7 DEF ReadinessNext

LEMMA AdmittedStep ==
    ASSUME CampaignInv, [ReadinessNext]_vars, world.status = "READY", world'.status = "ACTIVE"
    PROVE  /\ Camp.kind = "APPROVAL_RESUME" => Camp.appr \notin revoked
           /\ cur.receipt = "PASS" /\ world.src = Camp.bind.item /\ world.gen = Camp.bind.gen
<1>1. Admit
  BY OnlyAdmitted
<1>2. 0 \notin revoked
  BY DEF CampaignInv, RowInv
<1>. QED BY <1>1, <1>2 DEF Admit, Attested, Effective

LEMMA ParkedStep ==
    ASSUME CampaignInv, [ReadinessNext]_vars, cur.state = "APPROVAL_PENDING", cur'.state # "APPROVAL_PENDING"
    PROVE  camps'[n].req.consumed # None
<1>1. DecisionLost \/ DecisionDrifted \/ DecisionResumes \/ DecisionHolds
  BY StateLeft
<1>2. n > 0 /\ n \in Nat /\ n \in 1..n /\ camps \in Seq(Campaigns) /\ Len(camps) = n
  BY <1>1, ChainFacts DEF DecisionLost, DecisionDrifted, DecisionResumes, DecisionHolds, DecisionDue, CampaignInv, ChainInv, n
<1>3. PICK d \in Campaigns : d = camps[n]
  BY <1>2, CampFacts
<1>4. PICK q \in Requests : q = d.req
  BY <1>2, <1>3, CampFacts
<1>5. ASSUME NEW x \in {"STALE", "HOLD", "RESUMED"}
      PROVE  Consumed(x) \in Seq(Campaigns) /\ Len(Consumed(x)) = n /\ Consumed(x)[n].req.consumed = x
  <2>1. PICK p \in Requests : p = [q EXCEPT !.consumed = x]
    BY <1>5, RequestField
  <2>2. PICK r \in Requests : r = [p EXCEPT !.notice = "COMPLETE"]
    BY RequestField
  <2>3. PICK e \in Campaigns : e = [d EXCEPT !.req = r]
    BY DEF Campaigns
  <2>8. r.consumed = x
    <3>1. p.consumed = x
      BY <1>5, <2>1, RequestField
    <3>. QED BY <2>2, <3>1, RequestField
  <2>9. e.req = r
    BY <2>3 DEF Campaigns
  <2>4. Consumed(x) = [camps EXCEPT ![n] = e]
    BY <1>3, <1>4, <2>1, <2>2, <2>3 DEF Consumed
  <2>5. n \in 1..Len(camps)
    BY <1>2
  <2>6. [camps EXCEPT ![n] = e] \in Seq(Campaigns) /\ Len([camps EXCEPT ![n] = e]) = Len(camps)
    BY <1>2, <2>5, ExceptSeq
  <2>7. [camps EXCEPT ![n] = e][n] = e
    BY <1>2, <2>5
  <2>. QED BY <1>2, <2>4, <2>6, <2>7, <2>8, <2>9
<1>6. CASE DecisionResumes
  <2>1. PICK cs \in Seq(Campaigns) : cs = Consumed("RESUMED") /\ Len(cs) = n /\ cs[n].req.consumed = "RESUMED"
    BY <1>5
  <2>2. PICK c : c \in Campaigns /\ camps' = Append(cs, c)
    <3>1. NewCampaign("APPROVAL_RESUME", Camp.bind, Camp.ord, n) \in Campaigns
      <4>1. Camp.bind \in Bindings /\ Camp.ord \in 0..MaxCycles
        BY <1>2, CampFacts DEF Camp
      <4>. QED BY <1>2, <4>1, NewCampaignMade DEF NewlyMade
    <3>. QED BY <1>6, <2>1, <3>1 DEF DecisionResumes
  <2>3. camps'[n] = cs[n]
    BY <1>2, <2>1, <2>2, AppendProperties
  <2>. QED BY <2>1, <2>3 DEF None
<1>7. CASE DecisionLost
  <2>1. PICK x \in {"STALE", "HOLD"} : camps' = Consumed(x)
    BY <1>7 DEF DecisionLost
  <2>. QED BY <1>5, <2>1 DEF None
<1>8. CASE DecisionDrifted
  BY <1>5, <1>8 DEF DecisionDrifted, None
<1>9. CASE DecisionHolds
  BY <1>5, <1>9 DEF DecisionHolds, None
<1>. QED BY <1>1, <1>6, <1>7, <1>8, <1>9

LEMMA HoldStep ==
    ASSUME CampaignInv, [ReadinessNext]_vars, cur.state = "HOLD", cur'.state # "HOLD"
    PROVE  /\ Len(camps') = n + 1 /\ camps'[n + 1].bind.gen > Camp.bind.gen
           /\ cur.receipt = "TERMINAL_HOLD"
<1>1. ReopenTerminalHold
  BY StateLeft DEF DecisionLost, DecisionDrifted, DecisionResumes, DecisionHolds, DecisionDue
<1>2. /\ n > 0 /\ cur.receipt = "TERMINAL_HOLD" /\ world.gen > Camp.bind.gen
      /\ Register(camps, "REFRESH", BindingOf(world), Ordinal("REFRESH", BindingOf(world)), 0)
  BY <1>1 DEF ReopenTerminalHold, TerminallyHeld
<1>3. PICK b \in Bindings : b = BindingOf(world) /\ b.gen = world.gen
  BY BindingMade
<1>4. n \in Nat /\ camps \in Seq(Campaigns) /\ Len(camps) = n /\ Camp.bind.gen \in Nat /\ world.gen \in Nat /\ Camp.ord \in Nat
  <2>1. n \in Nat /\ n \in 1..n
    BY <1>2, ChainFacts DEF CampaignInv
  <2>2. Camp.bind \in Bindings /\ Camp.ord \in Nat
    BY <2>1, CampFacts, ReadinessAssumption DEF Camp
  <2>. QED BY <2>1, <2>2, BindingMade DEF CampaignInv, ChainInv, n, Bindings
<1>5. PICK c \in Campaigns : camps' = Append(camps, c) /\ c.bind = b
  <2>1. PICK ord \in 0..MaxCycles : ord = Ordinal("REFRESH", b) /\ camps' = Append(camps, NewCampaign("REFRESH", b, ord, 0))
    <3>1. Ordinal("REFRESH", b) \in Nat
      BY <1>4 DEF Ordinal
    <3>. QED BY <1>2, <1>3, <3>1, ReadinessAssumption DEF Register
  <2>. QED BY <2>1, NewCampaignMade DEF NewlyMade
<1>6. Len(camps') = n + 1 /\ camps'[n + 1] = c
  BY <1>4, <1>5, AppendProperties
<1>. QED BY <1>2, <1>3, <1>5, <1>6

\* An issue is admitted as it was judged, a parked campaign leaves with a consumed
\* decision, and a hold is reopened for a newer generation only.
THEOREM CampaignsLeaveAsJudged == Spec => TransitionsAreJudged
<1>1. CampaignInv /\ [ReadinessNext]_vars =>
        [(world.status = "READY" /\ world'.status = "ACTIVE") =>
          /\ Camp.kind = "APPROVAL_RESUME" => Camp.appr \notin revoked
          /\ cur.receipt = "PASS" /\ world.src = Camp.bind.item /\ world.gen = Camp.bind.gen]_vars
  BY AdmittedStep
<1>2. CampaignInv /\ [ReadinessNext]_vars =>
        [(cur.state = "APPROVAL_PENDING" /\ cur'.state # "APPROVAL_PENDING") => camps'[n].req.consumed # None]_vars
  BY ParkedStep
<1>3. CampaignInv /\ [ReadinessNext]_vars =>
        [(cur.state = "HOLD" /\ cur'.state # "HOLD") =>
          /\ Len(camps') = n + 1 /\ camps'[n + 1].bind.gen > Camp.bind.gen
          /\ cur.receipt = "TERMINAL_HOLD"]_vars
  BY HoldStep
<1>. QED BY <1>1, <1>2, <1>3, CampaignHolds, PTL DEF Spec, TransitionsAreJudged, AdmittedAsJudged, ParkedUntilConsumed, HoldIsDurable
=============================================================================
