----------------------------- MODULE Portfolio -----------------------------
(***************************************************************************)
(* The portfolio graph (portfolio_graph.py), the pull buffer of prepared   *)
(* and READY candidates (kanban_pull_buffer.py) and the convergence that   *)
(* admits them (portfolio_convergence.py).  Two processes consume the same *)
(* queue of dirty events: each reads canonical main and the candidate      *)
(* packets outside the database and then commits one transaction, while    *)
(* planners replace the graph, register and finalize candidates, main      *)
(* moves and issues are edited.                                            *)
(***************************************************************************)
EXTENDS Integers, FiniteSets, Sequences, FiniteSetsExt

CONSTANTS
    Issues,         \* issue numbers, in the graph's priority order
    Consumers,      \* the processes that run consume_one
    Auditors,       \* those of them that audit the buffer on their own as well
    Packets,        \* the packet texts a planner may write for one binding
    Capacity,       \* units of the capacity policy; every issue takes one
    Collides,       \* COLLISION relations: sets of two issues
    BlockSets,      \* the HARD_BLOCK relations a plan may carry
    MaxAttempts,    \* MAX_ATTEMPTS of a dirty event
    Scenarios,      \* where a run starts: issues delivered, held and in their last generation,
                    \* the first graph's blocks, and how much of the two bounds below is used up
    MaxChanges,     \* bound: moves of main, edits, revocations, deaths, failed reads
    MaxPlans,       \* bound: plans that replace the graph
    MaxGen,         \* bound: the last generation a plan or an owner's recovery opens
    MaxEvents       \* bound: dirty events

ASSUME PortfolioAssumption ==
    /\ Issues \subseteq Nat \ {0} /\ IsFiniteSet(Issues) /\ IsFiniteSet(Consumers)
    /\ Auditors \subseteq Consumers
    /\ Capacity \in Nat /\ MaxAttempts \in Nat \ {0}
    /\ MaxChanges \in Nat /\ MaxPlans \in Nat /\ MaxGen \in Nat \ {0} /\ MaxEvents \in Nat
    /\ \A b \in BlockSets : b \subseteq Issues \X Issues
    /\ \A x \in Scenarios : /\ x.done \cup x.held \subseteq Issues /\ x.blocks \in BlockSets
                             /\ x.changes \in 0..MaxChanges

VARIABLES
    main,       \* canonical main
    src,        \* github_current: the snapshot of each issue
    graph,      \* portfolio_graph_current and its revision
    item,       \* coordination_items; ver: ordinary writes of the row in its generation
    ptr,        \* portfolio_pull_buffer_current: the candidate of each issue
    retired,    \* portfolio_pull_buffer_retirements
    camp,       \* portfolio_readiness_current
    events,     \* portfolio_dirty_events, in order
    con,        \* what each consumer has read
    hosted,     \* units reserved by hosted operations
    inv,        \* the READY inventory an operator's cut-over request names
    changes,    \* external changes so far
    plans       \* plans so far

vars == <<main, src, graph, item, ptr, retired, camp, events, con, hosted, inv, changes, plans>>
buffer == <<ptr, retired, camp>>

\* A candidate is its packet: content-addressed by everything it binds.
Candidate(i, ready, p) ==
    [gen |-> item[i].gen, ver |-> item[i].ver, src |-> item[i].src, main |-> graph.obs,
     gv |-> graph.v, ready |-> ready, p |-> p]
NoCand == [gen |-> 0, ver |-> 0, src |-> 0, main |-> 0, gv |-> 0, ready |-> FALSE, p |-> 0]

Event(kind, of, gen, prev) ==
    [kind |-> kind, of |-> of, gen |-> gen, prev |-> prev, st |-> "PENDING", att |-> 0,
     adm |-> <<0, 0>>]

Idle == [pc |-> "idle", ev |-> 0, att |-> 0, main |-> 0, seen |-> {}, term |-> FALSE]
NoRequest == [st |-> "none", of |-> [i \in {} |-> NoCand]]

Init ==
    /\ \E x \in Scenarios :
        /\ graph = [v |-> 1, acc |-> 0, obs |-> 0, err |-> "none", blocks |-> x.blocks,
                    nsrc |-> [i \in Issues |-> 0]]
        /\ item = [i \in Issues |->
                      [st |-> IF i \in x.done THEN "DONE" ELSE IF i \in x.held THEN "HOLD" ELSE "PREPARED",
                       gen |-> IF i \in x.last THEN MaxGen ELSE 1, ver |-> 0, src |-> 0]]
        /\ changes = x.changes /\ plans = x.plans
    /\ main = 0 /\ src = [i \in Issues |-> 0]
    /\ ptr = [i \in Issues |-> NoCand] /\ retired = {}
    /\ camp = [i \in Issues |-> [st |-> "NONE", cand |-> NoCand]]
    /\ events = << >> /\ con = [c \in Consumers |-> Idle]
    /\ hosted = 0 /\ inv = NoRequest

Change == changes < MaxChanges /\ changes' = changes + 1
Plan == plans < MaxPlans /\ plans' = plans + 1

-----------------------------------------------------------------------------
(* portfolio_graph.py                                                       *)

\* enqueue_convergence_dirty_event: one row per payload.
SameEvent(e, f) == e.kind = f.kind /\ e.of = f.of /\ e.gen = f.gen /\ e.prev = f.prev
Enqueued(e) == \E k \in DOMAIN events : SameEvent(events[k], e)
Enqueue(e) ==
    /\ Enqueued(e) \/ Len(events) < MaxEvents
    /\ events' = IF Enqueued(e) THEN events ELSE Append(events, e)

\* With require_pending an event that is already there must be untouched.
EnqueueFresh(e) ==
    /\ \A k \in DOMAIN events : SameEvent(events[k], e) => events[k].st = "PENDING"
    /\ Enqueue(e)

Working == {i \in Issues : item[i].st = "ACTIVE"}
Terminal(i) == item[i].st = "DONE"
Blockers(i) == {j \in Issues : <<j, i>> \in graph.blocks /\ ~Terminal(j)}
GraphCurrent == graph.err = "none"

\* evaluate_graph
StructurallyReady(i) == ~Terminal(i) /\ Blockers(i) = {}

\* Mutant: the cursor moves and the graph keeps calling itself current.
KeptError(sha) == graph.err

\* sync_head, issue-set graphs: an older error outlives a move of main.
HeadError(sha) ==
    IF sha # graph.acc THEN IF graph.err = "none" THEN "MAIN" ELSE graph.err
    ELSE IF graph.err = "MAIN" THEN "none" ELSE graph.err

\* The supervisor's refresh reads main and moves the graph's cursor to it.
SyncHead ==
    /\ main # graph.obs
    /\ graph' = [graph EXCEPT !.obs = main, !.err = HeadError(main)]
    /\ Enqueue(Event("MAIN", main, graph.v, graph.obs))
    /\ UNCHANGED <<main, src, item, buffer, con, hosted, inv, changes, plans>>

\* Mutant: the relations of a plan are taken as they are.
AnyRelations(b) == TRUE

\* _topological_order finds one: the blocks have no cycle.
Acyclic(b) ==
    LET Rest[k \in 0..Cardinality(Issues)] ==
            IF k = 0 THEN Issues
            ELSE {i \in Rest[k - 1] : \E j \in Rest[k - 1] : <<j, i>> \in b}
    IN  Rest[Cardinality(Issues)] = {}

\* _validate_plan and replace_graph's own check.
ValidPlan(b) == (\A e \in b : e[1] # e[2]) /\ Acyclic(b)

\* The graph a run starts with was checked when it was stored.
ASSUME ScenarioAssumption == \A x \in Scenarios : ValidPlan(x.blocks)

\* replace_graph, inside the caller's transaction: the plan names current sources.
NewGraph(sha, b) ==
    [v |-> graph.v + 1, acc |-> sha, obs |-> sha, err |-> "none", blocks |-> b, nsrc |-> src]

ReplaceGraph(b) ==
    /\ Plan /\ ValidPlan(b) /\ graph' = NewGraph(main, b)
    /\ UNCHANGED <<main, src, item, buffer, events, con, hosted, inv, changes>>

\* portfolio_graph_stale_on_issue_update
EditIssue(i) ==
    /\ Change /\ src' = [src EXCEPT ![i] = changes + 1]
    /\ graph' = [graph EXCEPT !.err = "SOURCE"]
    /\ UNCHANGED <<main, item, buffer, events, con, hosted, inv, plans>>

MoveMain(m) ==
    /\ Change /\ m # main /\ main' = m
    /\ UNCHANGED <<src, graph, item, buffer, events, con, hosted, inv, plans>>

\* Mutant: hosted operations are not counted.
FreeOfHosted == Capacity - Cardinality(Working)

\* reserved_hosted_sre_units
Free == Capacity - Cardinality(Working) - hosted

Collision(i, S) == \E j \in Working \cup S : {i, j} \in Collides

\* _schedule_decision: the executable issues in priority order, while they fit.
Executable == {i \in Issues : StructurallyReady(i) /\ item[i].st = "READY"}
Selected(E) ==
    LET S[k \in 0..Max(Issues)] ==
            IF k = 0 THEN {}
            ELSE IF k \in E /\ ~Collision(k, S[k - 1]) /\ Cardinality(S[k - 1]) < Free
                 THEN S[k - 1] \cup {k} ELSE S[k - 1]
    IN  S[Max(Issues)]

\* validate_portfolio_transition, for a move that is not the closing of work: any
\* move needs a current graph that names the issue's source, READY no blocker
\* either, and an activation no collision.
SourceNamed(i) == GraphCurrent /\ graph.nsrc[i] = src[i]
TransitionAllowed(i, active) ==
    /\ SourceNamed(i) /\ Blockers(i) = {}
    /\ active => ~Collision(i, {})

-----------------------------------------------------------------------------
(* kanban_pull_buffer.py: preparation.                                      *)

\* STATUS_RANK
Rank == [PREPARED |-> 1, READY |-> 3, ACTIVE |-> 4, HOLD |-> 6, DONE |-> 7]

\* Mutant: the order of the states is not asked for.
OrderUnread(i, s, g) == g >= item[i].gen

\* STATUS_REGRESSION and NEW_GENERATION_REQUIRED: a generation is never reopened.
OrderOk(i, s, g) ==
    \/ g > item[i].gen
    \/ g = item[i].gen /\ Rank[s] >= Rank[item[i].st] /\ (item[i].st = "HOLD" => s = "HOLD")

\* Without a gateway nothing is released, activated or finalized: an item that
\* holds units (ACTIVE here, parked or not) keeps them, and READY is only kept.
GatewayOk(i, s) ==
    /\ s = "ACTIVE" <=> item[i].st = "ACTIVE"
    /\ s = "READY" => item[i].st = "READY"

\* set_issue_status, ordinary: an item is rewritten, in this generation or in the
\* next, on its current source.  The buffer and its campaign are not looked at.
Replan(i, s, g) ==
    /\ Change /\ OrderOk(i, s, g) /\ GatewayOk(i, s)
    /\ SourceNamed(i) /\ (s = "READY" => Blockers(i) = {})
    /\ item' = [item EXCEPT ![i] =
                   [st |-> s, gen |-> g, ver |-> IF g > @.gen THEN 0 ELSE @.ver + 1, src |-> src[i]]]
    /\ UNCHANGED <<main, src, graph, buffer, events, con, hosted, inv, plans>>

\* _retire_pointer
Retire(S) == retired \cup {<<i, ptr[i]>> : i \in {j \in S : ptr[j] # NoCand}}

\* Mutant: a packet that was retired may come back.
RegisterAgain(i, p) ==
    /\ GraphCurrent /\ item[i].st = "PREPARED" /\ item[i].src = src[i]
    /\ LET c == Candidate(i, FALSE, p)
       IN  c # ptr[i] /\ ptr' = [ptr EXCEPT ![i] = c] /\ retired' = Retire({i})
    /\ UNCHANGED <<main, src, graph, item, camp, events, con, hosted, inv, changes, plans>>

\* register_candidate: an identical packet is a replay, a retired one is refused.
RegisterCandidate(i, p) ==
    /\ GraphCurrent /\ item[i].st = "PREPARED" /\ item[i].src = src[i]
    /\ LET c == Candidate(i, FALSE, p)
       IN  /\ <<i, c>> \notin retired /\ c # ptr[i]
           /\ ptr' = [ptr EXCEPT ![i] = c] /\ retired' = Retire({i})
    /\ UNCHANGED <<main, src, graph, item, camp, events, con, hosted, inv, changes, plans>>

\* ZERO_WIP_ALLOCATION_PRESENT, ZERO_WIP_HOSTED_SRE_PRESENT, ZERO_WIP_RESIDUAL_STATE
NothingRuns == Working = {} /\ hosted = 0

\* The plan of the request: every relation is sourced and the candidate is free.
ZeroWipPlan(i, b) == ValidPlan(b) /\ \A j \in Issues : <<j, i>> \in b => Terminal(j)

\* The packet is computed for the graph and the item version the commit will make.
ZeroWipCandidate(i, p) ==
    [gen |-> item[i].gen + 1, ver |-> 0, src |-> src[i], main |-> main, gv |-> graph.v + 1,
     ready |-> FALSE, p |-> p]

\* prepare_zero_wip_candidate: graph, item and candidate in one transaction, and
\* only while nothing at all is running.
PrepareZeroWip(i, b, p) ==
    /\ Plan /\ NothingRuns /\ ZeroWipPlan(i, b)
    /\ item[i].st \in {"PREPARED", "HOLD"} /\ item[i].gen < MaxGen
    /\ graph' = NewGraph(main, b)
    /\ item' = [item EXCEPT ![i] = [st |-> "PREPARED", gen |-> @.gen + 1, ver |-> 0, src |-> src[i]]]
    /\ ptr' = [ptr EXCEPT ![i] = ZeroWipCandidate(i, p)]
    /\ retired' = Retire({i})
    /\ UNCHANGED <<main, src, camp, events, con, hosted, inv, changes>>

\* Neither GENERATION_DRIFT, ITEM_VERSION_DRIFT nor NOT_ZERO_WIP_PREP.
ItemMatches(i) ==
    /\ item[i].gen = ptr[i].gen /\ item[i].ver = ptr[i].ver /\ item[i].src = ptr[i].src
    /\ item[i].st = IF ptr[i].ready THEN "READY" ELSE "PREPARED"

\* A readiness campaign examines the registered candidate and passes (Readiness).
Examine(i) ==
    /\ ptr[i] # NoCand /\ ~ptr[i].ready /\ camp[i].st \in {"NONE", "STALE"}
    /\ camp' = [camp EXCEPT ![i] = [st |-> "ELIGIBLE", cand |-> ptr[i]]]
    /\ UNCHANGED <<main, src, graph, item, ptr, retired, events, con, hosted, inv, changes, plans>>

\* _binding_reasons: the candidate, the item, its source or the graph moved.
ExaminationStale(i) ==
    /\ camp[i].st = "ELIGIBLE"
    /\ \/ ptr[i] # camp[i].cand \/ ~ItemMatches(i) \/ src[i] # camp[i].cand.src
       \/ ~GraphCurrent \/ graph.v # camp[i].cand.gv \/ graph.obs # camp[i].cand.main
    /\ camp' = [camp EXCEPT ![i].st = "STALE"]
    /\ UNCHANGED <<main, src, graph, item, ptr, retired, events, con, hosted, inv, changes, plans>>

\* stop_revoked_readiness_successors, for a campaign that was finalized.
StopRevoked(i) ==
    /\ Change /\ camp[i].st = "FINALIZED"
    /\ camp' = [camp EXCEPT ![i].st = "HOLD"]
    /\ UNCHANGED <<main, src, graph, item, ptr, retired, events, con, hosted, inv, plans>>

\* The current campaign passed this candidate, and its binding still holds.
FinalizeDue(i) == camp[i].st = "ELIGIBLE" /\ ptr[i] = camp[i].cand /\ graph.v = ptr[i].gv

\* The item, its source, the graph and main are those of the candidate.
FinalBound(i) ==
    /\ item[i].st = "PREPARED" /\ item[i].gen = ptr[i].gen /\ item[i].ver = ptr[i].ver
    /\ item[i].src = ptr[i].src /\ item[i].src = src[i] /\ graph.obs = main
    /\ TransitionAllowed(i, FALSE)

\* PULL_BUFFER_READY_NOT_DISPATCHABLE otherwise.
Dispatchable(i) == i \in Selected(Executable \cup {i})

\* finalize_ready: the packet, the pointer, the campaign, the item and the wake.
FinalizeReady(i, p) ==
    /\ FinalizeDue(i) /\ FinalBound(i) /\ Dispatchable(i)
    /\ LET c == Candidate(i, TRUE, p)
       IN  /\ ptr' = [ptr EXCEPT ![i] = c]
           /\ camp' = [camp EXCEPT ![i] = [st |-> "FINALIZED", cand |-> c]]
    /\ retired' = Retire({i})
    /\ item' = [item EXCEPT ![i].st = "READY"]
    /\ EnqueueFresh(Event("PROMOTED", i, item[i].gen, 0))
    /\ UNCHANGED <<main, src, graph, con, hosted, inv, changes, plans>>

-----------------------------------------------------------------------------
(* audit_pull_buffer                                                        *)

\* ready_attestation_error
Attested(i) == camp[i].st = "FINALIZED" /\ camp[i].cand = ptr[i]

\* load_candidate_packets: the packets of the pointers there were.
Observed(i, seen) == <<i, ptr[i]>> \in seen

\* The reasons for which a pointed candidate is no longer valid.
Invalid(i, seen) ==
    \/ ~GraphCurrent \/ ptr[i].main # graph.obs \/ ptr[i].gv # graph.v
    \/ ~StructurallyReady(i) \/ ~ItemMatches(i) \/ item[i].src # src[i]
    \/ ~Observed(i, seen) \/ (ptr[i].ready /\ ~Attested(i))

AuditInvalid(seen) == {i \in Issues : ptr[i] # NoCand /\ Invalid(i, seen)}

\* An attested READY candidate is returned to discovery, others lose the pointer.
Recovered(seen) ==
    {i \in AuditInvalid(seen) : ptr[i].ready /\ Attested(i) /\ Observed(i, seen) /\ ItemMatches(i)}

\* _recover_finalized_ready_candidate
AuditedItem(seen) ==
    [i \in Issues |-> IF i \in Recovered(seen)
        THEN [st |-> "PREPARED", gen |-> item[i].gen + 1, ver |-> 0, src |-> src[i]] ELSE item[i]]

\* Mutant: the campaign of a recovered candidate stays finalized.
CampKept(seen) == camp

AuditedCamp(seen) ==
    [i \in Issues |-> IF i \in Recovered(seen) THEN [camp[i] EXCEPT !.st = "STALE"] ELSE camp[i]]
AuditedPtr(seen) == [i \in Issues |-> IF i \in AuditInvalid(seen) THEN NoCand ELSE ptr[i]]

Audit(seen) ==
    /\ ptr' = AuditedPtr(seen) /\ retired' = Retire(AuditInvalid(seen))
    /\ item' = AuditedItem(seen) /\ camp' = AuditedCamp(seen)

-----------------------------------------------------------------------------
(* portfolio_convergence.py: consume_one.                                   *)

\* _next_event: the oldest due one; a RETRY may still be waiting for its time.
Due(k) ==
    /\ events[k].st \in {"PENDING", "RETRY"}
    /\ \A j \in 1..k - 1 : events[j].st # "PENDING"

Pointed == {<<i, ptr[i]>> : i \in {j \in Issues : ptr[j] # NoCand}}

\* Main, the packets, and main once more: equal, or the reading fails.
BeginEvent(c, k) ==
    /\ con[c].pc = "idle" /\ k \in DOMAIN events /\ Due(k)
    /\ con' = [con EXCEPT ![c] = [Idle EXCEPT !.pc = "loaded", !.ev = k, !.att = events[k].att,
                                              !.main = main, !.seen = Pointed]]
    /\ UNCHANGED <<main, src, graph, item, buffer, events, hosted, inv, changes, plans>>

\* supervise: the audit of its own, on a graph that evaluates as current.
BeginAudit(c) ==
    /\ c \in Auditors /\ con[c].pc = "idle" /\ GraphCurrent /\ Pointed # {}
    /\ con' = [con EXCEPT ![c] = [Idle EXCEPT !.pc = "loaded", !.seen = Pointed]]
    /\ UNCHANGED <<main, src, graph, item, buffer, events, hosted, inv, changes, plans>>

Fail(c) == con' = [con EXCEPT ![c] = [Idle EXCEPT !.pc = "failed", !.ev = con[c].ev]]
Finish(c) == con' = [con EXCEPT ![c] = Idle]

\* The reader raises, or main moved under it; REPOSITORY_GIT_ errors are terminal.
ReadFails(c, k, t) ==
    /\ Change /\ con[c].pc = "idle" /\ k \in DOMAIN events /\ Due(k)
    /\ con' = [con EXCEPT ![c] = [Idle EXCEPT !.pc = "failed", !.ev = k, !.term = t]]
    /\ UNCHANGED <<main, src, graph, item, buffer, events, hosted, inv, plans>>

Die(c) ==
    /\ Change /\ con[c].pc # "idle" /\ Finish(c)
    /\ UNCHANGED <<main, src, graph, item, buffer, events, hosted, inv, plans>>

CommitAudit(c) ==
    /\ con[c].pc = "loaded" /\ con[c].ev = 0
    /\ Audit(con[c].seen) /\ Finish(c)
    /\ UNCHANGED <<main, src, graph, events, hosted, inv, changes, plans>>

\* Mutant: whoever read the event first may apply it.
FenceUnread(c) == TRUE

\* Another consumer settled the event in the meantime.
FenceHeld(c) == events[con[c].ev].st \in {"PENDING", "RETRY"}

\* Another consumer postponed it: it may be due by the time this one began at, or not.
Postponed(c) == events[con[c].ev].att # con[c].att

Fenced(c) ==
    /\ con[c].pc = "loaded" /\ con[c].ev # 0 /\ (~FenceHeld(c) \/ Postponed(c)) /\ Finish(c)
    /\ UNCHANGED <<main, src, graph, item, buffer, events, hosted, inv, changes, plans>>

Ev(c) == events[con[c].ev]
Applies(c) == con[c].pc = "loaded" /\ con[c].ev # 0 /\ FenceHeld(c)

\* _complete_event
Complete(e, adm) == [e EXCEPT !.st = "COMPLETE", !.att = @ + 1, !.adm = adm]

\* _defer_event: what the event must wait for is on record, up to MAX_ATTEMPTS.
Defer(e) == [e EXCEPT !.att = @ + 1, !.st = IF e.att + 1 >= MaxAttempts THEN "HOLD" ELSE "RETRY"]

\* RELEASE_ITEM_DRIFT
ReleaseDrifted(c) == Ev(c).kind = "RELEASE" /\ ~(Terminal(Ev(c).of) /\ item[Ev(c).of].gen >= Ev(c).gen)

\* RELEASE_SOURCE_DRIFT
ReleaseUnread(c) == Ev(c).kind = "RELEASE" /\ src[Ev(c).of] # item[Ev(c).of].src

ReleaseOver(c) ==
    /\ Applies(c) /\ ReleaseDrifted(c)
    /\ events' = [events EXCEPT ![con[c].ev] = Complete(@, <<0, 0>>)] /\ Finish(c)
    /\ UNCHANGED <<main, src, graph, item, buffer, hosted, inv, changes, plans>>

ReleaseWaits(c) ==
    /\ Applies(c) /\ ~ReleaseDrifted(c) /\ ReleaseUnread(c)
    /\ events' = [events EXCEPT ![con[c].ev] = Defer(@)] /\ Finish(c)
    /\ UNCHANGED <<main, src, graph, item, buffer, hosted, inv, changes, plans>>

Proceeds(c) == Applies(c) /\ ~ReleaseDrifted(c) /\ ~ReleaseUnread(c)

\* CANONICAL_MAIN_PROVIDER_CURSOR_DRIFT otherwise.
CursorMatches(c) == graph.obs = con[c].main

CursorDrifted(c) ==
    /\ Proceeds(c) /\ ~CursorMatches(c) /\ Fail(c)
    /\ UNCHANGED <<main, src, graph, item, buffer, events, hosted, inv, changes, plans>>

\* The READY candidates that survive the audit and that the scheduler selects.
Chosen(seen) ==
    {i \in Issues : /\ ptr[i] # NoCand /\ ptr[i].ready /\ i \notin AuditInvalid(seen)
                    /\ GraphCurrent /\ i \in Selected(Executable \ Recovered(seen))}

NothingChosen(c) ==
    /\ Proceeds(c) /\ CursorMatches(c) /\ Chosen(con[c].seen) = {}
    /\ Audit(con[c].seen)
    /\ events' = [events EXCEPT ![con[c].ev] = Defer(@)] /\ Finish(c)
    /\ UNCHANGED <<main, src, graph, hosted, inv, changes, plans>>

\* Mutant: main is not read again before the commit.
MainAssumed(c) == TRUE

\* The last read of main, before the transaction commits.
MainHeld(c) == main = con[c].main

\* activate_admission, the pointer's retirement and the event in one transaction.
Admit(c) ==
    /\ Proceeds(c) /\ CursorMatches(c) /\ Chosen(con[c].seen) # {} /\ MainHeld(c)
    /\ LET i == Min(Chosen(con[c].seen))
           S == AuditInvalid(con[c].seen)
       IN  /\ TransitionAllowed(i, TRUE)
           /\ item' = [AuditedItem(con[c].seen) EXCEPT ![i].st = "ACTIVE"]
           /\ camp' = AuditedCamp(con[c].seen)
           /\ ptr' = [AuditedPtr(con[c].seen) EXCEPT ![i] = NoCand]
           /\ retired' = Retire(S \cup {i})
           /\ events' = [events EXCEPT ![con[c].ev] = Complete(@, <<i, item[i].gen>>)]
    /\ Finish(c)
    /\ UNCHANGED <<main, src, graph, hosted, inv, changes, plans>>

AdmissionUndone(c) ==
    /\ Proceeds(c) /\ CursorMatches(c) /\ Chosen(con[c].seen) # {} /\ ~MainHeld(c)
    /\ Fail(c)
    /\ UNCHANGED <<main, src, graph, item, buffer, events, hosted, inv, changes, plans>>

\* Mutant: a failure is not an attempt.
RetryUncounted(e, t) == [e EXCEPT !.st = "RETRY"]

\* Mutant: the attempts have no limit.
RetryForever(e, t) == [e EXCEPT !.att = @ + 1, !.st = "RETRY"]

\* _record_retry: a transaction of its own, that a HOLD does not stop either.
Retried(e, t) ==
    [e EXCEPT !.att = @ + 1, !.st = IF t \/ e.att + 1 >= MaxAttempts THEN "HOLD" ELSE "RETRY"]

RecordRetry(c) ==
    /\ con[c].pc = "failed" /\ Finish(c)
    /\ events' = IF Ev(c).st = "COMPLETE" THEN events
                 ELSE [events EXCEPT ![con[c].ev] = Retried(@, con[c].term)]
    /\ UNCHANGED <<main, src, graph, item, buffer, hosted, inv, changes, plans>>

-----------------------------------------------------------------------------
(* What happens to admitted work (Lineage), and hosted operations.          *)

\* The closed issue is released: _enqueue_release with a CAPACITY_RELEASE event.
Deliver(i) ==
    /\ item[i].st = "ACTIVE" /\ item' = [item EXCEPT ![i].st = "DONE"]
    /\ Enqueue(Event("RELEASE", i, item[i].gen, 0))
    /\ UNCHANGED <<main, src, graph, buffer, con, hosted, inv, changes, plans>>

\* The admission of a finalized candidate, in the generation its recovery notice names.
Unclaimed(i) ==
    /\ item[i].st = "ACTIVE" /\ camp[i].st = "FINALIZED"
    /\ item[i].gen = camp[i].cand.gen /\ item[i].gen < MaxGen

\* recover_unclaimed_admission: nobody claimed the admission; a refill is asked for.
RecoverUnclaimed(i) ==
    /\ Change /\ Unclaimed(i)
    /\ item' = [item EXCEPT ![i] = [st |-> "PREPARED", gen |-> @.gen + 1, ver |-> 0, src |-> src[i]]]
    /\ camp' = [camp EXCEPT ![i].st = "STALE"]
    /\ EnqueueFresh(Event("REFILL", i, item[i].gen + 1, 0))
    /\ UNCHANGED <<main, src, graph, ptr, retired, con, hosted, inv, plans>>

ReserveHosted ==
    /\ Change /\ hosted < 1 /\ Free > 0 /\ hosted' = hosted + 1
    /\ UNCHANGED <<main, src, graph, item, buffer, events, con, inv, plans>>

\* Mutant: a reservation is given back twice.
ReleaseHostedTwice ==
    /\ hosted > 0 /\ hosted' = hosted - 2
    /\ UNCHANGED <<main, src, graph, item, buffer, events, con, inv, changes, plans>>

ReleaseHosted ==
    /\ hosted > 0 /\ hosted' = hosted - 1
    /\ UNCHANGED <<main, src, graph, item, buffer, events, con, inv, changes, plans>>

-----------------------------------------------------------------------------
(* The cut-over's quarantine.                                               *)

\* ready_quarantine_inventory
ReadyItems == {i \in Issues : item[i].st = "READY"}
Inventory == [i \in ReadyItems |-> [item |-> item[i], ptr |-> ptr[i], camp |-> camp[i]]]

\* _exact_ready_attestation_error
Exact(i) == ptr[i] # NoCand /\ Attested(i) /\ ItemMatches(i)
Unattested == {i \in ReadyItems : ~Exact(i)}

QuarantinedItem == [i \in Issues |-> IF i \in Unattested THEN [item[i] EXCEPT !.st = "HOLD"] ELSE item[i]]
QuarantinedCamp ==
    [i \in Issues |-> IF i \in Unattested /\ camp[i].st # "NONE"
                      THEN [camp[i] EXCEPT !.st = "HOLD"] ELSE camp[i]]

\* The operator reads the inventory and writes the request that names it.
AskQuarantine ==
    /\ inv.st = "none" /\ Unattested # {} /\ inv' = [st |-> "asked", of |-> Inventory]
    /\ UNCHANGED <<main, src, graph, item, buffer, events, con, hosted, changes, plans>>

\* Mutant: the request's inventory is not compared.
InventoryTaken == TRUE

InventoryHeld == inv.of = Inventory

\* quarantine_unattested_ready: every READY item is kept as it is or held.
Quarantine ==
    /\ inv.st = "asked"
    /\ IF ~InventoryHeld THEN inv' = NoRequest /\ UNCHANGED <<item, buffer>>
       ELSE /\ inv' = [NoRequest EXCEPT !.st = "done"]
            /\ item' = QuarantinedItem /\ camp' = QuarantinedCamp
            /\ ptr' = [i \in Issues |-> IF i \in Unattested THEN NoCand ELSE ptr[i]]
            /\ retired' = Retire(Unattested)
    /\ UNCHANGED <<main, src, graph, events, con, hosted, changes, plans>>

-----------------------------------------------------------------------------

ConsumerNext(c) ==
    \/ \E k \in 1..MaxEvents : BeginEvent(c, k)
    \/ BeginAudit(c)
    \/ \E k \in 1..MaxEvents, t \in BOOLEAN : ReadFails(c, k, t)
    \/ Die(c) \/ CommitAudit(c) \/ Fenced(c) \/ ReleaseOver(c) \/ ReleaseWaits(c)
    \/ CursorDrifted(c) \/ NothingChosen(c) \/ Admit(c) \/ AdmissionUndone(c) \/ RecordRetry(c)

PlannerNext ==
    \/ \E b \in BlockSets : ReplaceGraph(b)
    \/ \E i \in Issues : \/ \E s \in DOMAIN Rank : \E g \in item[i].gen..MaxGen : Replan(i, s, g)
                          \/ Examine(i) \/ ExaminationStale(i) \/ StopRevoked(i)
                          \/ \E p \in Packets : \/ RegisterCandidate(i, p) \/ FinalizeReady(i, p)
                                                 \/ \E b \in BlockSets : PrepareZeroWip(i, b, p)
    \/ AskQuarantine \/ Quarantine

WorldNext ==
    \/ SyncHead \/ ReserveHosted \/ ReleaseHosted
    \/ \E i \in Issues : EditIssue(i) \/ Deliver(i) \/ RecoverUnclaimed(i)
    \/ \E m \in 0..1 : MoveMain(m)

PortfolioNext == (\E c \in Consumers : ConsumerNext(c)) \/ PlannerNext \/ WorldNext

\* The timers start the consumers again: one of them is always at work on events.
Consume(c) ==
    \/ \E k \in 1..MaxEvents : BeginEvent(c, k)
    \/ Fenced(c) \/ ReleaseOver(c) \/ ReleaseWaits(c)
    \/ CursorDrifted(c) \/ NothingChosen(c) \/ Admit(c) \/ AdmissionUndone(c) \/ RecordRetry(c)

Fairness == WF_vars(\E c \in Consumers : Consume(c))

Spec == Init /\ [][PortfolioNext]_vars /\ Fairness

-----------------------------------------------------------------------------

TypeOK ==
    /\ graph.err \in {"none", "MAIN", "SOURCE"} /\ hosted \in 0..1 /\ changes \in 0..MaxChanges
    /\ \A i \in Issues : /\ item[i].st \in {"PREPARED", "READY", "ACTIVE", "DONE", "HOLD"}
                          /\ item[i].gen \in 1..MaxGen + MaxEvents
                          /\ camp[i].st \in {"NONE", "ELIGIBLE", "FINALIZED", "STALE", "HOLD"}
    /\ \A k \in DOMAIN events : /\ events[k].st \in {"PENDING", "RETRY", "HOLD", "COMPLETE"}
                                 /\ events[k].att \in Nat
    /\ \A c \in Consumers : con[c].pc \in {"idle", "loaded", "failed"}

\* A graph that says it is current binds the sources and the main there are:
\* the trigger, the cursor's move and a replacement keep the two in step in any
\* order (sync_head, portfolio_graph_stale_on_issue_update).
GraphHonest == GraphCurrent => graph.nsrc = src /\ graph.obs = graph.acc

\* No plan locks the portfolio: while something is undelivered, something is
\* structurally ready (_topological_order, evaluate_graph).
SomethingIsReady == (\E i \in Issues : ~Terminal(i)) => \E i \in Issues : StructurallyReady(i)

\* A packet that was retired never becomes an issue's candidate again.
RetiredIsGone == \A i \in Issues : ptr[i] # NoCand => <<i, ptr[i]>> \notin retired

\* Running work never collides and fits the policy, hosted operations included.
WorkFits ==
    /\ Cardinality(Working) + hosted <= Capacity
    /\ \A i, j \in Working : {i, j} \notin Collides \/ i = j

\* Two consumers never spend one event twice, nor admit one finalized generation
\* twice: work that runs was admitted by one event, and that event stays completed,
\* also when an ordinary call carries the work into a later generation.
AdmittedOnce ==
    \A i \in Issues : item[i].st = "ACTIVE" =>
        Cardinality({k \in DOMAIN events :
                        events[k].st = "COMPLETE" /\ events[k].adm = <<i, camp[i].cand.gen>>}) = 1

\* An event is attempted at most MAX_ATTEMPTS times, and once more by each other
\* consumer that had read it before it was held.
AttemptsBounded ==
    \A k \in DOMAIN events : events[k].att <= MaxAttempts + Cardinality(Consumers) - 1

\* An issue is admitted on the main, the graph and the source there are at that
\* moment, with every predecessor delivered, however old the consumer's reads.
AdmittedCurrent ==
    [][\A i \in Issues : (item[i].st # "ACTIVE" /\ item'[i].st = "ACTIVE") =>
        /\ main = graph.obs /\ main = graph.acc /\ GraphCurrent
        /\ item[i].st = "READY" /\ item[i].src = src[i] /\ src[i] = graph.nsrc[i]
        /\ Blockers(i) = {} /\ Attested(i)]_vars

\* An issue that a campaign made READY is admitted with its campaign, returned to
\* discovery with a stale one (_recover_finalized_ready_candidate) or held with a
\* held one (quarantine_unattested_ready).  Only an ordinary call takes the item
\* alone, never to work and never back within its generation (set_issue_status).
ReadyLeavesWhole ==
    [][\A i \in Issues : (item[i].st = "READY" /\ item'[i].st # "READY") =>
        \/ item'[i].st = "ACTIVE" /\ camp'[i].st = "FINALIZED" /\ ptr'[i] = NoCand
        \/ /\ item'[i].st = "PREPARED" /\ item'[i].gen = item[i].gen + 1
           /\ camp'[i].st = "STALE" /\ ptr'[i] = NoCand
        \/ item'[i].st = "HOLD" /\ camp'[i].st = "HOLD" /\ ptr'[i] = NoCand
        \/ /\ UNCHANGED <<buffer, events, graph>> /\ GraphCurrent
           /\ item'[i].st \in {"PREPARED", "HOLD", "DONE"} /\ item'[i].src = src[i]
           /\ item'[i].st = "PREPARED" => item'[i].gen > item[i].gen]_vars

\* A READY item with the candidate its own campaign finalized from it.
ExactRow(x) ==
    /\ x.camp.st = "FINALIZED" /\ x.ptr # NoCand /\ x.camp.cand = x.ptr /\ x.ptr.ready
    /\ x.item.gen = x.ptr.gen /\ x.item.ver = x.ptr.ver /\ x.item.src = x.ptr.src

\* The quarantine holds exactly what the operator's inventory showed unattested,
\* and leaves the rest of it as it was.
QuarantineAsSeen ==
    [][(inv.st = "asked" /\ inv'.st = "done") =>
        \A i \in Issues :
            IF i \in DOMAIN inv.of
            THEN IF ExactRow(inv.of[i])
                 THEN item'[i] = inv.of[i].item /\ ptr'[i] = inv.of[i].ptr
                 ELSE item'[i].st = "HOLD" /\ ptr'[i] = NoCand
            ELSE item'[i] = item[i]]_vars

\* Every dirty event is settled, completed or held, whoever dies on the way.
EventsSettle ==
    []<>(\A k \in DOMAIN events : events[k].st \in {"COMPLETE", "HOLD"})

\* Graph, packets, events and running work agree, whoever reads what too early.
PortfolioIsSound ==
    /\ TypeOK
    /\ GraphHonest /\ SomethingIsReady /\ RetiredIsGone
    /\ WorkFits /\ AdmittedOnce /\ AttemptsBounded

\* An issue moves only as what is current at that moment allows.
MovesAreCurrent == AdmittedCurrent /\ ReadyLeavesWhole /\ QuarantineAsSeen
=============================================================================
