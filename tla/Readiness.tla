----------------------------- MODULE Readiness -----------------------------
(***************************************************************************)
(* Readiness campaigns (kanban_readiness.py): before an issue may become   *)
(* READY one worker at a time examines it against a frozen binding - item  *)
(* generation, source snapshot, graph version, candidate - and returns a   *)
(* receipt.  The receipt opens the issue, asks the planner for a set of    *)
(* prerequisite actions, asks the owner for a decision, or holds.  Every   *)
(* successor campaign is registered by the handler that consumed its       *)
(* predecessor.  The world drifts at any time, workers and the planner may *)
(* die anywhere.  One issue is modelled.                                   *)
(***************************************************************************)
EXTENDS Integers, FiniteSets, Sequences

CONSTANTS
    MaxCycles,      \* MAX_RESOLUTION_CYCLES
    MaxTries,       \* MAX_RECEIPT_PICKUP_ATTEMPTS
    MaxCampaigns,   \* bound: campaigns registered for the issue
    MaxAttempts,    \* bound: attempts launched for one worker notice
    MaxDrift,       \* bound: external changes of the world
    ActionSets      \* the action lists a receipt may ask for, in execution order

ASSUME ReadinessAssumption ==
    /\ MaxCycles \in Nat /\ MaxTries \in Nat \ {0} /\ MaxCampaigns \in Nat
    /\ MaxAttempts \in Nat /\ MaxDrift \in Nat
    /\ ActionSets \subseteq Seq({"source", "graph", "candidate"})

VARIABLES
    world,      \* the item, source snapshot, graph, candidate (and the endpoint its
                \* admission is addressed to), and the current endpoint
    drift,      \* external changes so far
    camps,      \* the campaigns with their notices, attempts, pickups and requests
    cur,        \* portfolio_readiness_current: the row of the last campaign
    notice,     \* the current resolution notice: state, started and done actions
    act,        \* execute_readiness_resolution_action in flight: campaign, index, step
    equiv,      \* portfolio_readiness_source_equivalence
    revoked     \* requests whose decision was revoked

vars == <<world, drift, camps, cur, notice, act, equiv, revoked>>

None == "none"
Verdicts == {"PASS", "ACTIONABLE_HOLD", "APPROVAL_REQUIRED", "TERMINAL_HOLD", "INVALID"}
Decisions == {"APPROVE", "REJECT", "DEFER", "COURSE_CORRECT"}
States == {"ABSENT", "PENDING", "RUNNING", "READY_ELIGIBLE", "RESOLUTION_PENDING",
           "APPROVAL_PENDING", "HOLD", "STALE", "FINALIZED"}

n == Len(camps)
Camp == camps[n]
NoNotice == [state |-> None, started |-> {}, done |-> {}]
Idle == [k |-> 0, i |-> 0, step |-> "idle"]

\* The candidate of an item whose pointer was retired.
NoCandidate == MaxDrift + 1

\* A source snapshot: its content, and the metadata a comment changes as well.
Source(c, m) == [c |-> c, m |-> m]

Init ==
    /\ world = [gen |-> 1, src |-> Source(0, 0), item |-> Source(0, 0), graph |-> 0,
                gsrc |-> Source(0, 0), cand |-> 0, cep |-> 1, ep |-> 1, status |-> "PREPARED"]
    /\ drift = 0 /\ camps = << >> /\ notice = NoNotice /\ act = Idle
    /\ cur = [state |-> "ABSENT", att |-> 0, ep |-> 0, receipt |-> None]
    /\ equiv = {} /\ revoked = {}

-----------------------------------------------------------------------------
(* _binding_reasons: what drifted from a campaign's frozen binding.         *)

BindingOf(w) == [gen |-> w.gen, item |-> w.item, source |-> w.src, graph |-> w.graph,
                 candidate |-> w.cand]

\* The request whose recorded equivalences a campaign may use: its own, or that
\* of the campaign it resumes.
RequestOf(k, kind) ==
    IF kind = "APPROVAL_RESUME" THEN k - 1
    ELSE IF k \in DOMAIN camps /\ camps[k].req.open THEN k ELSE 0

\* approval_source_equivalent
SourceEquivalent(r, a, b) == a # b => (a.c = b.c /\ <<r, a, b>> \in equiv)

\* _graph_stale_only_for_equivalent_source
GraphUsable(r) == SourceEquivalent(r, world.gsrc, world.src)

GraphHealthy == world.gsrc = world.src

\* require_effective_approval: the request's decision still stands.
Effective(a) == a # 0 => camps[a].req.dec = "APPROVE" /\ a \notin revoked

Bound(b, r, ep, a) ==
    /\ GraphUsable(r) /\ world.graph = b.graph
    /\ world.gen = b.gen /\ world.item = b.item /\ world.status = "PREPARED"
    /\ SourceEquivalent(r, b.source, world.src)
    /\ world.cand = b.candidate /\ b.candidate # NoCandidate /\ ep \in {0, world.ep} /\ Effective(a)

CurrentBound == Bound(Camp.bind, RequestOf(n, Camp.kind), cur.ep, Camp.appr)

\* Mutant: a finalized campaign's approval is not looked at again.
AttestedWithoutApproval ==
    /\ cur.state = "FINALIZED" /\ cur.receipt = "PASS"
    /\ world.gen = Camp.bind.gen /\ world.item = Camp.bind.item

\* _ready_finalization_attestation_error: the finalization of the current
\* campaign; the approval is looked at again for a resumed campaign only.
Attested ==
    /\ cur.state = "FINALIZED" /\ cur.receipt = "PASS"
    /\ world.gen = Camp.bind.gen /\ world.item = Camp.bind.item
    /\ Camp.kind = "APPROVAL_RESUME" => Effective(Camp.appr)

-----------------------------------------------------------------------------
(* _register_locked                                                         *)

\* portfolio_readiness_approval_requests, with the decision, its notice and its
\* consumption.
Request(o) == [open |-> o, dec |-> None, consumed |-> None, notice |-> None, revisit |-> FALSE]

NewCampaign(kind, b, ord, a) ==
    [kind |-> kind, bind |-> b, ord |-> ord, appr |-> a, msg |-> None, atts |-> << >>,
     pick |-> None, tries |-> 0, art |-> None, acts |-> << >>, req |-> Request(FALSE)]

\* Mutant: a resolution does not count as a cycle.
OrdinalNotCounted(kind, b) == IF b.gen > Camp.bind.gen THEN 0 ELSE Camp.ord

\* The ordinal a successor gets: only a newer generation starts again.
Ordinal(kind, b) ==
    IF b.gen > Camp.bind.gen THEN 0 ELSE Camp.ord + (IF kind = "RESOLUTION" THEN 1 ELSE 0)

Register(cs, kind, b, ord, a) ==
    /\ n < MaxCampaigns /\ ord <= MaxCycles
    /\ (n > 0 /\ kind # "REFRESH") => b.gen = Camp.bind.gen
    /\ Bound(b, RequestOf(n + 1, kind), 0, a)
    /\ camps' = Append(cs, NewCampaign(kind, b, ord, a))
    /\ cur' = [state |-> "PENDING", att |-> 0, ep |-> 0, receipt |-> None]
    /\ notice' = NoNotice

\* register: the first campaign, or a refresh of a stale one that changed something.
RegisterInitial ==
    /\ n = 0 /\ Register(camps, "INITIAL", BindingOf(world), 0, 0)
    /\ UNCHANGED <<world, drift, act, equiv, revoked>>

RegisterRefresh ==
    /\ n > 0 /\ cur.state = "STALE" /\ BindingOf(world) # Camp.bind
    /\ world.gen >= Camp.bind.gen
    /\ Register(camps, "REFRESH", BindingOf(world), Ordinal("REFRESH", BindingOf(world)), 0)
    /\ UNCHANGED <<world, drift, act, equiv, revoked>>

\* The executors and notices that must be over before a hold is reopened.
TerminallyHeld ==
    /\ cur.state = "HOLD" /\ cur.receipt = "TERMINAL_HOLD"
    /\ Camp.msg \in {"COMPLETE", "HOLD"}
    /\ \A i \in DOMAIN Camp.atts : Camp.atts[i] # "RUNNING"

\* Mutant: a terminal hold reopens within its generation.
ReopenAnyTime ==
    /\ n > 0 /\ TerminallyHeld /\ GraphHealthy /\ world.item = world.src
    /\ Register(camps, "REFRESH", BindingOf(world), Ordinal("REFRESH", BindingOf(world)), 0)
    /\ UNCHANGED <<world, drift, act, equiv, revoked>>

ReopenTerminalHold ==
    /\ n > 0 /\ TerminallyHeld /\ GraphHealthy /\ world.item = world.src
    /\ world.gen > Camp.bind.gen
    /\ Register(camps, "REFRESH", BindingOf(world), Ordinal("REFRESH", BindingOf(world)), 0)
    /\ UNCHANGED <<world, drift, act, equiv, revoked>>

-----------------------------------------------------------------------------
(* dispatch, attach and the worker.                                         *)

\* _mark_stale
MarkStale == cur' = [cur EXCEPT !.state = "STALE"]

Dispatch ==
    /\ cur.state = "PENDING"
    /\ \/ ~CurrentBound /\ MarkStale /\ UNCHANGED camps
       \/ /\ CurrentBound
          /\ cur' = [cur EXCEPT !.state = "RUNNING", !.ep = world.ep]
          /\ camps' = [camps EXCEPT ![n].msg = "PREPARED", ![n].pick = "PENDING"]
    /\ UNCHANGED <<world, drift, notice, act, equiv, revoked>>

Live(k) == {i \in DOMAIN camps[k].atts : camps[k].atts[i] = "RUNNING"}

\* The supervisor launches an attempt for a PREPARED notice (executor_registry).
Launch(k) ==
    /\ camps[k].msg = "PREPARED" /\ Live(k) = {} /\ Len(camps[k].atts) < MaxAttempts
    /\ camps' = [camps EXCEPT ![k].atts = Append(@, "RUNNING")]
    /\ UNCHANGED <<world, drift, cur, notice, act, equiv, revoked>>

WorkerClaim(k) ==
    /\ camps[k].msg = "PREPARED" /\ Live(k) # {}
    /\ camps' = [camps EXCEPT ![k].msg = "CLAIMED"]
    /\ UNCHANGED <<world, drift, cur, notice, act, equiv, revoked>>

\* Completion of the claimed notice ends the attempt.
WorkerComplete(k, i) ==
    /\ i \in Live(k) /\ camps[k].msg = "CLAIMED"
    /\ camps' = [camps EXCEPT ![k].msg = "COMPLETE", ![k].atts[i] = "COMPLETE"]
    /\ UNCHANGED <<world, drift, cur, notice, act, equiv, revoked>>

WorkerDie(k, i) ==
    /\ i \in Live(k)
    /\ camps' = [camps EXCEPT ![k].atts[i] = "HOLD"]
    /\ UNCHANGED <<world, drift, cur, notice, act, equiv, revoked>>

\* _validate_attempt: an attempt of the phase's own notice that did not fail.
ValidAttempt(i) == Camp.atts[i] \in {"RUNNING", "COMPLETE"} /\ Camp.msg # "HOLD"

\* attach: the first attempt is pinned for good.  The pickup row of the phase
\* exists only once it was dispatched.
Attach(i) ==
    /\ n > 0 /\ cur.state = "RUNNING" /\ cur.att = 0 /\ i \in DOMAIN Camp.atts
    /\ \/ ~CurrentBound /\ MarkStale
       \/ /\ CurrentBound /\ Camp.pick = "PENDING" /\ ValidAttempt(i)
          /\ cur' = [cur EXCEPT !.att = i]
    /\ UNCHANGED <<world, drift, camps, notice, act, equiv, revoked>>

-----------------------------------------------------------------------------
(* stage_receipt, pickup_receipt.                                           *)

\* _stage_binding: the running attempt that is attached, on an undrifted binding.
StageBinding ==
    /\ cur.state = "RUNNING" /\ cur.att \in Live(n) /\ Camp.msg = "CLAIMED"
    /\ CurrentBound

\* _validate_resolution_actions: only an actionable hold asks for actions.
ActionsOf(v) == IF v = "ACTIONABLE_HOLD" THEN ActionSets ELSE {<< >>}

\* The exclusive file, then the row; a second receipt finds the file and fails.
StageReceipt(v, s) ==
    /\ n > 0 /\ StageBinding /\ Camp.pick = "PENDING"
    /\ s \in ActionsOf(v)
    /\ camps' = [camps EXCEPT ![n].pick = "STAGED", ![n].art = v, ![n].acts = s]
    /\ UNCHANGED <<world, drift, cur, notice, act, equiv, revoked>>

\* Mutant: the receipt of a worker that is still running is recorded.
StagedIsEnough == cur.state = "RUNNING" /\ cur.att # 0

\* The scan's condition: the notice and the attached attempt are COMPLETE.
PickupDue ==
    /\ cur.state = "RUNNING" /\ cur.att # 0
    /\ Camp.msg = "COMPLETE" /\ Camp.atts[cur.att] = "COMPLETE"

\* The state a verdict moves the campaign to.
StateOf(v) ==
    CASE v = "PASS" -> "READY_ELIGIBLE"
      [] v = "ACTIONABLE_HOLD" -> IF Camp.ord >= MaxCycles THEN "HOLD" ELSE "RESOLUTION_PENDING"
      [] v = "APPROVAL_REQUIRED" -> "APPROVAL_PENDING"
      [] v = "TERMINAL_HOLD" -> "HOLD"

\* _validate_receipt
ValidReceipt == Camp.art # "INVALID"

\* _approval_input_for_campaign: the request a receipt opens.
RequestFor(v) == Request(v = "APPROVAL_REQUIRED")

\* _planner_notice: the planner is asked only while a cycle is left.
PlannerNotice(state) == IF state = "RESOLUTION_PENDING" THEN "PREPARED" ELSE notice.state

\* _record_staged_receipt
RecordReceipt ==
    /\ cur' = [cur EXCEPT !.state = StateOf(Camp.art), !.receipt = Camp.art]
    /\ camps' = [camps EXCEPT ![n].pick = "RECORDED", ![n].req = RequestFor(Camp.art)]
    /\ notice' = [notice EXCEPT !.state = PlannerNotice(cur'.state)]

PickupReceipt ==
    /\ n > 0 /\ PickupDue /\ Camp.pick = "STAGED"
    /\ \/ ~CurrentBound /\ MarkStale /\ UNCHANGED <<camps, notice>>
       \/ CurrentBound /\ ValidReceipt /\ RecordReceipt
    /\ UNCHANGED <<world, drift, act, equiv, revoked>>

\* Mutant: the pickup is given up one attempt late.
FailureOneLate ==
    /\ n > 0 /\ PickupDue /\ Camp.pick = "PENDING"
    /\ camps' = [camps EXCEPT ![n].tries = @ + 1,
                              ![n].pick = IF Camp.tries >= MaxTries THEN "HOLD" ELSE @]
    /\ cur' = [cur EXCEPT !.state = IF Camp.tries >= MaxTries THEN "HOLD" ELSE @]
    /\ UNCHANGED <<world, drift, notice, act, equiv, revoked>>

\* Mutant: the campaign is not held with its pickup.
FailureHoldsPickup ==
    /\ n > 0 /\ PickupDue /\ Camp.pick = "PENDING"
    /\ camps' = [camps EXCEPT ![n].tries = @ + 1,
                              ![n].pick = IF Camp.tries + 1 >= MaxTries THEN "HOLD" ELSE @]
    /\ UNCHANGED <<world, drift, cur, notice, act, equiv, revoked>>

\* _record_pickup_failure: nothing was staged, or the receipt does not validate.
PickupFailure ==
    /\ n > 0 /\ PickupDue
    /\ Camp.pick = "PENDING" \/ (Camp.pick = "STAGED" /\ CurrentBound /\ ~ValidReceipt)
    /\ camps' = [camps EXCEPT ![n].tries = @ + 1,
                              ![n].pick = IF Camp.tries + 1 >= MaxTries THEN "HOLD" ELSE @]
    /\ cur' = [cur EXCEPT !.state = IF Camp.tries + 1 >= MaxTries THEN "HOLD" ELSE @]
    /\ UNCHANGED <<world, drift, notice, act, equiv, revoked>>

-----------------------------------------------------------------------------
(* The planner's resolution: claim, one action at a time, apply.            *)

Pending(k) == k = n /\ cur.state = "RESOLUTION_PENDING" /\ notice.state = "CLAIMED"

\* What the receipt of campaign k wants of a facet: a value of its own.
Desired(k) == 0 - k
Wants(k, f) == \E i \in DOMAIN camps[k].acts : camps[k].acts[i] = f
DesiredSource(k) == IF Wants(k, "source") THEN Source(Desired(k), 0) ELSE camps[k].bind.source

\* _resolution_observation_matches against the expected digest.
AsExpected(f) ==
    CASE f = "source" -> world.src = Camp.bind.source /\ world.item = world.src
                         /\ world.status = "PREPARED"
      [] f = "graph" -> world.graph = Camp.bind.graph /\ GraphHealthy
      [] f = "candidate" -> world.cand = Camp.bind.candidate

\* _resolution_action_start_matches: a graph may already be stale.
MayStart(f) == IF f = "graph" THEN world.graph = Camp.bind.graph ELSE AsExpected(f)

\* _resolution_observation_matches against the desired digest.
AsDesired(k, f) ==
    CASE f = "source" -> world.src = DesiredSource(k) /\ world.item = world.src
                         /\ world.status = "PREPARED"
      [] f = "graph" -> world.graph = Desired(k) /\ GraphHealthy
      [] f = "candidate" -> world.cand = Desired(k)

\* The cycle ends in a hold, and its notice with it.
HoldResolution ==
    /\ cur' = [cur EXCEPT !.state = "HOLD"]
    /\ notice' = [notice EXCEPT !.state = "COMPLETE"]

\* claim_readiness_resolution_context
ClaimContext ==
    /\ n > 0 /\ cur.state = "RESOLUTION_PENDING" /\ notice.state = "PREPARED"
    /\ IF \A i \in DOMAIN Camp.acts : AsExpected(Camp.acts[i])
       THEN notice' = [notice EXCEPT !.state = "CLAIMED"] /\ UNCHANGED cur
       ELSE HoldResolution
    /\ UNCHANGED <<world, drift, camps, act, equiv, revoked>>

\* _require_resolution_action_predecessors: a graph may follow a source that is
\* in place but not yet bound by the item.
PredecessorsReady(i) ==
    \A j \in 1..(i - 1) :
        /\ j \in notice.started
        /\ IF Camp.acts[j] = "source" /\ Camp.acts[i] = "graph"
           THEN world.src = DesiredSource(n)
           ELSE j \in notice.done /\ AsDesired(n, Camp.acts[j])

\* execute_readiness_resolution_action, its first transaction: the start receipt.
StartAction(i) ==
    /\ n > 0 /\ act = Idle /\ Pending(n) /\ i \in DOMAIN Camp.acts /\ i \notin notice.done
    /\ PredecessorsReady(i)
    /\ i \in notice.started \/ MayStart(Camp.acts[i])
    /\ notice' = [notice EXCEPT !.started = @ \cup {i}]
    /\ act' = [k |-> n, i |-> i, step |-> IF i \in notice.started /\ AsDesired(n, Camp.acts[i])
                                          THEN "commit" ELSE "effect"]
    /\ UNCHANGED <<world, drift, camps, cur, equiv, revoked>>

Facet == camps[act.k].acts[act.i]

\* _source_graph_completion_required
GraphFirst ==
    \E j \in DOMAIN camps[act.k].acts :
        /\ j > act.i /\ camps[act.k].acts[j] = "graph"
        /\ ~(act.k = n /\ j \in notice.done)

\* The owner APIs, between the two transactions and fenced by neither.
SourceEffect ==
    /\ act.step = "effect" /\ Facet = "source"
    /\ world' = [world EXCEPT !.src = DesiredSource(act.k)]
    /\ act' = IF GraphFirst THEN Idle ELSE [act EXCEPT !.step = "rebind"]
    /\ UNCHANGED <<drift, camps, cur, notice, equiv, revoked>>

\* set_issue_status with the frozen generation and version; a stale graph makes
\* the action wait, anything else that moved fails it.
ItemRebind ==
    /\ act.step = "rebind"
    /\ LET ok == /\ GraphHealthy /\ world.src = DesiredSource(act.k)
                 /\ world.gen = camps[act.k].bind.gen /\ world.status = "PREPARED"
                 /\ world.item = camps[act.k].bind.item
       IN  /\ world' = IF ok THEN [world EXCEPT !.item = world.src] ELSE world
           /\ act' = IF ok THEN [act EXCEPT !.step = "commit"] ELSE Idle
    /\ UNCHANGED <<drift, camps, cur, notice, equiv, revoked>>

\* replace_graph: the plan's nodes carry the source the receipt asked for.
GraphEffect ==
    /\ act.step = "effect" /\ Facet = "graph"
    /\ LET ok == world.src = DesiredSource(act.k) /\ world.graph = camps[act.k].bind.graph
       IN  /\ world' = IF ok THEN [world EXCEPT !.graph = Desired(act.k), !.gsrc = world.src]
                       ELSE world
           /\ act' = IF ok THEN [act EXCEPT !.step = "commit"] ELSE Idle
    /\ UNCHANGED <<drift, camps, cur, notice, equiv, revoked>>

\* register_candidate: for the current source, item and graph only.
CandidateEffect ==
    /\ act.step = "effect" /\ Facet = "candidate"
    /\ LET ok == /\ GraphHealthy /\ world.item = world.src /\ world.status = "PREPARED"
                 /\ world.gen = camps[act.k].bind.gen /\ world.src = DesiredSource(act.k)
       IN  /\ world' = IF ok THEN [world EXCEPT !.cand = Desired(act.k), !.cep = world.ep] ELSE world
           /\ act' = IF ok THEN [act EXCEPT !.step = "commit"] ELSE Idle
    /\ UNCHANGED <<drift, camps, cur, notice, equiv, revoked>>

\* The second transaction validates everything again.
CommitAction ==
    /\ act.step = "commit" /\ act' = Idle
    /\ notice' = IF /\ Pending(act.k) /\ AsDesired(act.k, Facet)
                    /\ ~(Facet = "source" /\ GraphFirst)
                 THEN [notice EXCEPT !.done = @ \cup {act.i}] ELSE notice
    /\ UNCHANGED <<world, drift, camps, cur, equiv, revoked>>

PlannerDie ==
    /\ act # Idle /\ act' = Idle
    /\ UNCHANGED <<world, drift, camps, cur, notice, equiv, revoked>>

\* Mutant: the completion receipts are trusted without a new observation.
TrustReceipts == notice.done = DOMAIN Camp.acts

\* _resolution_observations_and_successor: every receipt is there and every
\* target is still as desired.
Resolved ==
    /\ notice.done = DOMAIN Camp.acts
    /\ \A i \in DOMAIN Camp.acts : AsDesired(n, Camp.acts[i])

\* apply_readiness_resolution
ApplyResolution ==
    /\ n > 0 /\ Pending(n) /\ n < MaxCampaigns
    /\ LET b == BindingOf(world)
       IN  IF Resolved /\ Bound(b, 0, 0, Camp.appr)
           THEN Register(camps, "RESOLUTION", b, Ordinal("RESOLUTION", b), Camp.appr)
           ELSE HoldResolution /\ UNCHANGED camps
    /\ UNCHANGED <<world, drift, act, equiv, revoked>>

-----------------------------------------------------------------------------
(* Approval decisions.                                                      *)

\* The owner's decision is published and its notice enqueued (approval_ledger).
Decide(k, d) ==
    /\ camps[k].req.open /\ camps[k].req.dec = None
    /\ camps' = [camps EXCEPT ![k].req.dec = d, ![k].req.notice = "PREPARED"]
    /\ UNCHANGED <<world, drift, cur, notice, act, equiv, revoked>>

Revoke(k) ==
    /\ camps[k].req.open /\ camps[k].req.dec # None /\ k \notin revoked
    /\ revoked' = revoked \cup {k}
    /\ UNCHANGED <<world, drift, camps, cur, notice, act, equiv>>

\* Mutant: the notice of a consumed decision stays open.
ConsumedUnacknowledged(d) == [camps EXCEPT ![n].req.consumed = d]

Consumed(d) == [camps EXCEPT ![n].req.consumed = d, ![n].req.notice = "COMPLETE"]

DecisionDue ==
    /\ n > 0 /\ cur.state = "APPROVAL_PENDING"
    /\ Camp.req.notice = "PREPARED" /\ Camp.req.consumed = None

SourceMoved == world.src.c # Camp.bind.source.c

\* apply_readiness_decision: drift and revocation come before the decision.
DecisionLost ==
    /\ DecisionDue
    /\ LET d == IF SourceMoved THEN "STALE" ELSE "HOLD"
       IN  /\ SourceMoved \/ n \in revoked
           /\ cur' = [cur EXCEPT !.state = d] /\ camps' = Consumed(d)
    /\ UNCHANGED <<world, drift, notice, act, equiv, revoked>>

\* The binding without the endpoint, with the snapshots just recorded as equal.
DecisionBound ==
    /\ world.src.c = Camp.bind.source.c /\ world.gsrc.c = world.src.c
    /\ (world.gsrc = world.src \/ world.gsrc = Camp.bind.source)
    /\ world.graph = Camp.bind.graph /\ world.gen = Camp.bind.gen
    /\ world.item = Camp.bind.item /\ world.status = "PREPARED"
    /\ world.cand = Camp.bind.candidate /\ Effective(Camp.appr)

RecordEquivalence == equiv' = equiv \cup {<<n, Camp.bind.source, world.src>>}

DecisionDrifted ==
    /\ DecisionDue /\ ~SourceMoved /\ n \notin revoked /\ ~DecisionBound
    /\ RecordEquivalence
    /\ cur' = [cur EXCEPT !.state = "STALE"] /\ camps' = Consumed("STALE")
    /\ UNCHANGED <<world, drift, notice, act, revoked>>

\* An approval resumes the same plan under the decision.
DecisionResumes ==
    /\ DecisionDue /\ ~SourceMoved /\ n \notin revoked /\ DecisionBound
    /\ Camp.req.dec = "APPROVE" /\ n < MaxCampaigns
    /\ RecordEquivalence
    /\ camps' = Append(Consumed("RESUMED"), NewCampaign("APPROVAL_RESUME", Camp.bind, Camp.ord, n))
    /\ cur' = [state |-> "PENDING", att |-> 0, ep |-> 0, receipt |-> None]
    /\ notice' = NoNotice
    /\ UNCHANGED <<world, drift, act, revoked>>

DecisionHolds ==
    /\ DecisionDue /\ ~SourceMoved /\ n \notin revoked /\ DecisionBound
    /\ Camp.req.dec \in {"REJECT", "DEFER", "COURSE_CORRECT"}
    /\ RecordEquivalence
    /\ cur' = [cur EXCEPT !.state = "HOLD"] /\ camps' = Consumed("HOLD")
    /\ UNCHANGED <<world, drift, notice, act, revoked>>

\* enqueue_due_readiness_revisits: one planning notice per deferred request.
EnqueueRevisit ==
    /\ n > 0 /\ Camp.req.open /\ cur.state = "HOLD" /\ Camp.req.consumed = "HOLD"
    /\ Camp.req.dec = "DEFER" /\ ~Camp.req.revisit
    /\ camps' = [camps EXCEPT ![n].req.revisit = TRUE]
    /\ UNCHANGED <<world, drift, cur, notice, act, equiv, revoked>>

\* Mutant: a finalized campaign is not stopped.
StopUnfinished ==
    /\ n > 0 /\ Camp.kind = "APPROVAL_RESUME" /\ Camp.appr \in revoked
    /\ cur.state \in {"PENDING", "RUNNING", "READY_ELIGIBLE"}
    /\ cur' = [cur EXCEPT !.state = "HOLD"]
    /\ camps' = [camps EXCEPT ![n].msg = IF @ \in {"PREPARED", "CLAIMED"} THEN "HOLD" ELSE @]
    /\ UNCHANGED <<world, drift, notice, act, equiv, revoked>>

\* stop_revoked_readiness_successors
StopRevoked ==
    /\ n > 0 /\ Camp.kind = "APPROVAL_RESUME" /\ Camp.appr \in revoked
    /\ cur.state \in {"PENDING", "RUNNING", "READY_ELIGIBLE", "FINALIZED"}
    /\ cur' = [cur EXCEPT !.state = "HOLD"]
    /\ camps' = [camps EXCEPT ![n].msg = IF @ \in {"PREPARED", "CLAIMED"} THEN "HOLD" ELSE @]
    /\ UNCHANGED <<world, drift, notice, act, equiv, revoked>>

-----------------------------------------------------------------------------
(* evaluate, and the pull buffer's use of a passed campaign.                *)

\* Mutant: generic observation may rewrite a parked campaign.
EvaluateParked ==
    /\ n > 0 /\ cur.state \notin {"HOLD", "FINALIZED", "STALE"}
    /\ ~CurrentBound /\ MarkStale
    /\ UNCHANGED <<world, drift, camps, notice, act, equiv, revoked>>

\* evaluate with record_state: generic observation never rewrites these states.
Evaluate ==
    /\ n > 0 /\ cur.state \notin {"APPROVAL_PENDING", "HOLD", "FINALIZED", "STALE"}
    /\ ~CurrentBound /\ MarkStale
    /\ UNCHANGED <<world, drift, camps, notice, act, equiv, revoked>>

\* finalize_ready: a source that is only equivalent passes its own checks and is
\* then refused by set_issue_status, a stale graph by the scheduler.
Finalize ==
    /\ n > 0 /\ cur.state = "READY_ELIGIBLE" /\ CurrentBound
    /\ world.item = world.src /\ GraphHealthy /\ world.cep = world.ep
    /\ cur' = [cur EXCEPT !.state = "FINALIZED"]
    /\ world' = [world EXCEPT !.status = "READY"]
    /\ UNCHANGED <<drift, camps, notice, act, equiv, revoked>>

\* activate_admission
Admit ==
    /\ n > 0 /\ world.status = "READY" /\ Attested
    /\ world.item = world.src /\ world.cep = world.ep
    /\ world' = [world EXCEPT !.status = "ACTIVE"]
    /\ UNCHANGED <<drift, camps, cur, notice, act, equiv, revoked>>

\* What audit_pull_buffer finds wrong with a READY candidate.
CandidateDrifted ==
    world.src # world.item \/ ~GraphHealthy \/ world.graph # Camp.bind.graph \/ world.cep # world.ep

\* _recover_finalized_ready_candidate: the pointer is retired, the campaign goes
\* stale and the item is prepared again in a new generation on the observed source.
RecoverFinalized ==
    /\ n > 0 /\ cur.state = "FINALIZED" /\ world.status = "READY"
    /\ world.gen = Camp.bind.gen /\ CandidateDrifted
    /\ MarkStale
    /\ world' = [world EXCEPT !.status = "PREPARED", !.gen = @ + 1, !.item = world.src,
                              !.cand = NoCandidate]
    /\ UNCHANGED <<drift, camps, notice, act, equiv, revoked>>

\* register_candidate, for an item that lost its candidate.
RegisterCandidate ==
    /\ world.cand = NoCandidate /\ world.status = "PREPARED"
    /\ GraphHealthy /\ world.item = world.src
    /\ world' = [world EXCEPT !.cand = NoCandidate + world.gen, !.cep = world.ep]
    /\ UNCHANGED <<drift, camps, cur, notice, act, equiv, revoked>>

-----------------------------------------------------------------------------
(* The world: synchronisation, planning and routing by others.              *)

Fresh == drift + 1

Change(w) ==
    /\ drift < MaxDrift /\ drift' = Fresh /\ world' = w
    /\ UNCHANGED <<camps, cur, notice, act, equiv, revoked>>

EditSource == Change([world EXCEPT !.src = Source(Fresh, 0)])
CommentOnSource == Change([world EXCEPT !.src.m = Fresh])
ReplaceGraph == Change([world EXCEPT !.graph = Fresh, !.gsrc = world.src])
RotateEndpoint == Change([world EXCEPT !.ep = @ + 1])

\* The item is prepared again on the current source, with a new candidate.
PrepareGeneration ==
    /\ world.status # "ACTIVE" /\ GraphHealthy
    /\ Change([world EXCEPT !.gen = @ + 1, !.item = world.src, !.cand = Fresh,
                            !.cep = world.ep, !.status = "PREPARED"])

-----------------------------------------------------------------------------

WorkerNext ==
    \E k \in 1..n : \/ Launch(k) \/ WorkerClaim(k)
                    \/ \E i \in 1..MaxAttempts : WorkerComplete(k, i) \/ WorkerDie(k, i)

ReceiptNext ==
    \/ \E v \in Verdicts, s \in ActionSets \cup {<< >>} : StageReceipt(v, s)
    \/ PickupReceipt \/ PickupFailure

PlannerNext ==
    \/ ClaimContext \/ \E i \in 1..3 : StartAction(i)
    \/ SourceEffect \/ ItemRebind \/ GraphEffect \/ CandidateEffect \/ CommitAction
    \/ PlannerDie \/ ApplyResolution

DecisionNext ==
    \/ \E k \in 1..n : Revoke(k) \/ \E d \in Decisions : Decide(k, d)
    \/ DecisionLost \/ DecisionDrifted \/ DecisionResumes \/ DecisionHolds
    \/ EnqueueRevisit \/ StopRevoked

CampaignNext ==
    \/ RegisterInitial \/ RegisterRefresh \/ ReopenTerminalHold
    \/ Dispatch \/ \E i \in 1..MaxAttempts : Attach(i)
    \/ Evaluate \/ Finalize \/ Admit \/ RecoverFinalized \/ RegisterCandidate

WorldNext == EditSource \/ CommentOnSource \/ ReplaceGraph \/ RotateEndpoint \/ PrepareGeneration

ReadinessNext == CampaignNext \/ WorkerNext \/ ReceiptNext \/ PlannerNext \/ DecisionNext \/ WorldNext

\* The supervisor repeats its scans; the planner and the workers are not relied on.
Scans == PickupReceipt \/ PickupFailure

Fairness == WF_vars(Scans) /\ WF_vars(StopRevoked) /\ WF_vars(EnqueueRevisit)

Spec == Init /\ [][ReadinessNext]_vars /\ Fairness

-----------------------------------------------------------------------------

Sources == [c : Int, m : Nat]

TypeOK ==
    /\ world.gen \in Nat /\ world.src \in Sources /\ world.item \in Sources
    /\ world.gsrc \in Sources /\ world.status \in {"PREPARED", "READY", "ACTIVE"}
    /\ drift \in 0..MaxDrift /\ n <= MaxCampaigns
    /\ cur.state \in States /\ cur.att \in 0..MaxAttempts
    /\ cur.receipt \in Verdicts \cup {None}
    /\ notice.state \in {None, "PREPARED", "CLAIMED", "COMPLETE"}
    /\ act.step \in {"idle", "effect", "rebind", "commit"}
    /\ revoked \subseteq 1..MaxCampaigns
    /\ \A k \in 1..n : /\ camps[k].msg \in {None, "PREPARED", "CLAIMED", "COMPLETE", "HOLD"}
                       /\ camps[k].pick \in {None, "PENDING", "STAGED", "RECORDED", "HOLD"}
                       /\ camps[k].tries \in 0..MaxTries /\ camps[k].ord \in 0..MaxCycles

\* A campaign that follows a resolution is bound to what the resolved receipt
\* asked for, in every facet it asked for: completion receipts are confirmed
\* against the world in the transaction that registers the successor, however
\* the world moved between the actions (apply_readiness_resolution).
SuccessorIsResolved ==
    \A k \in 2..n : camps[k].kind = "RESOLUTION" =>
        /\ Wants(k - 1, "source") => /\ camps[k].bind.source = DesiredSource(k - 1)
                                     /\ camps[k].bind.item = DesiredSource(k - 1)
        /\ Wants(k - 1, "graph") => camps[k].bind.graph = Desired(k - 1)
        /\ Wants(k - 1, "candidate") => camps[k].bind.candidate = Desired(k - 1)

\* One generation of the item goes through at most MAX_RESOLUTION_CYCLES
\* resolutions, whatever refreshes and approvals come between them.
CyclesPerGeneration ==
    \A k \in 1..n : Cardinality({j \in 1..n : /\ camps[j].kind = "RESOLUTION"
                                              /\ camps[j].bind.gen = camps[k].bind.gen}) <= MaxCycles

\* The verdict on record was staged for this campaign by the attempt that is
\* attached to it, and that attempt and its notice had ended by then.
ReceiptIsOwn ==
    cur.receipt # None =>
        /\ Camp.pick = "RECORDED" /\ Camp.art = cur.receipt
        /\ Camp.atts[cur.att] = "COMPLETE" /\ Camp.msg = "COMPLETE"

\* A request resumes at most one campaign, exactly when it was consumed so, and
\* its notice is complete exactly when it was consumed.
OneResume ==
    \A k \in 1..n : camps[k].req.open =>
        /\ (camps[k].req.notice = "COMPLETE") <=> (camps[k].req.consumed # None)
        /\ (camps[k].req.consumed = "RESUMED")
             <=> Cardinality({j \in 1..n : camps[j].kind = "APPROVAL_RESUME"
                                           /\ camps[j].appr = k}) = 1

\* An issue is admitted only on the item that was examined, on the source it was
\* examined on, and a resumed campaign only while the decision it resumed on
\* stands, a revocation after finalization included (activate_admission).
AdmittedAsJudged ==
    [][(world.status = "READY" /\ world'.status = "ACTIVE") =>
        /\ Camp.kind = "APPROVAL_RESUME" => Camp.appr \notin revoked
        /\ cur.receipt = "PASS" /\ world.src = Camp.bind.item /\ world.gen = Camp.bind.gen]_vars

\* No issue is admitted on a decision that was revoked, whichever successor of the
\* resumed campaign carried it to READY.
RevokedNeverAdmitted ==
    [][(world.status = "READY" /\ world'.status = "ACTIVE") => Camp.appr \notin revoked]_vars

\* A campaign parked for the owner leaves only with a consumed decision.
ParkedUntilConsumed ==
    [][(cur.state = "APPROVAL_PENDING" /\ cur'.state # "APPROVAL_PENDING") =>
        camps'[n].req.consumed # None]_vars

\* A hold is left only by reopening a terminal receipt for a newer generation.
HoldIsDurable ==
    [][(cur.state = "HOLD" /\ cur'.state # "HOLD") =>
        /\ Len(camps') = n + 1 /\ camps'[n + 1].bind.gen > Camp.bind.gen
        /\ cur.receipt = "TERMINAL_HOLD"]_vars

\* A phase whose attached worker ended leaves RUNNING: the receipt is recorded,
\* found stale, or given up after the last pickup attempt.
PhaseSettles == (n > 0 /\ PickupDue) ~> (cur.state # "RUNNING")

\* A campaign that rests on a revoked decision does not stay in motion.
RevokedStops ==
    (n > 0 /\ Camp.kind = "APPROVAL_RESUME" /\ Camp.appr \in revoked)
        ~> (cur.state \notin {"PENDING", "RUNNING", "READY_ELIGIBLE", "FINALIZED"}
            \/ Camp.kind # "APPROVAL_RESUME")

\* The chain of campaigns is sound: every row has its shape, a verdict belongs to the
\* attempt on record, a successor to what was resolved or approved, and a generation
\* does not resolve for ever.
CampaignsAreSound ==
    /\ TypeOK
    /\ SuccessorIsResolved /\ CyclesPerGeneration /\ ReceiptIsOwn /\ OneResume

\* A campaign leaves its judgements, holds and parkings only on the way made for it.
TransitionsAreJudged == AdmittedAsJudged /\ ParkedUntilConsumed /\ HoldIsDurable

\* A campaign does not hang on a worker that ended, nor go on upon a revoked decision.
CampaignsSettle == PhaseSettles /\ RevokedStops
=============================================================================
