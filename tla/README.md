# Verification of the Twinfinity harness control plane

TLA+ models of the control plane of the Twinfinity harness
(`src/skills/twinfinity-sprint-orchestrator/scripts/`), TLC configurations that
check them on small instances, and TLAPS proofs of the properties that matter
most. Paths below are relative to the repository, and script names to that
directory.

    tlc -workers 2 -config MCOutbox.cfg MCOutbox     # one run
    tlapm OutboxProofs.tla                           # one proof module

## 1. The system

The harness lets agent roles (planner, development, SRE) work on the issues of a
GitHub repository without two writers ever touching the same surface. All
coordination state is one owner-only SQLite file; every operation is a
`BEGIN IMMEDIATE` transaction, so operations are atomic and serialised. What is
not atomic is everything around them: GitHub calls, child processes, one-shot
scripts, and three supervisors on timers (coordination and hosted every 30 s,
graph every 5 min) which read outside a transaction and write in another.

| Component | State it keeps | Operations | Interacts with | What is hard |
|---|---|---|---|---|
| GitHub outbox and publisher (`publish_coordination_outbox`, `coordination_store`) | outbox row, publisher binding, recovery record | enqueue, bind, reserve, POST, read back, complete, hold, count an absence, re-arm | GitHub, closeout packets | lost answers, lagging reads, two runs at once, rotated credentials |
| Items, capacity, leases, watches (`coordination_store`) | item rows, capacity policy, terminal watches | plan, ready, admit, claim, hold, recover, park, closeout, policy change | messages, hosted operations | one pool summed over two tables; long call sequences |
| Hosted operations (`hosted_operation_control`) | operation row, claim, receipt | prepare, promote, claim, complete, hold, retire | SRE pool, blocking issues, provider | stale blockers and policies |
| Admission messages and lineage (`coordination_store`, `admission_source_equivalence`) | message, watch, equivalence receipts, closeout packet | claim, refuse, hold, re-arm, park, prepare and commit closeout | everything above | drift of the issue between any two steps |
| Coordination supervisor (`coordination_supervisor`) | wakes, submission intents | scan, validate, hold, reserve, submit, reconcile | service manager, executors | check-then-act, crash around the submission |
| Executor registry (`executor_registry`, `run_role_executor`, `role_executor_transport`) | endpoints, attempts | reserve, launch, run, end, recover, rotate | supervisor, systemd | late children, dead processes |
| Artifact collection (`coordination_store`) | artifact rows, files | preview, reserve, link, verify, unlink, purge, hold | items, file system | a crash or an error between file and row; the issue reopened meanwhile |
| Readiness campaigns (`kanban_readiness`, `kanban_make_ready`) | campaigns, receipts, pickups, dispositions, holds | initialize, evaluate, attach, stage, pick up, resolve, request approval, resume, finalize, reopen | planner messages, graph, approvals | a world that drifts between any two transactions; workers that die |
| Pull buffer (`kanban_pull_buffer`) | candidate pointers, retirements, recovery records | register, finalize, select, audit, retire, quarantine, recover unclaimed work | graph, items, campaigns | packets read before the transaction |
| Portfolio graph and convergence (`portfolio_graph`, `portfolio_convergence`, `portfolio_graph_supervisor`) | graph versions, cursor on main, dirty events | replace, follow main, consume an event, admit, retry | every release of capacity | two consumers of one queue; main that moves |
| Approval ledger (`approval_ledger`, `approval_guard`) | proposals, batches, decisions, deliveries | propose, review, decide, publish, claim, acknowledge, revoke | owner, outbox, campaigns | decisions on what was fetched before the transaction |
| Pre-push control (`prepush_control`) | gate receipts, publications | gate, assert, reserve, push, hook, read back, settle | git remote, worktree | head and lineage move after the gate; a push that outlives its session |
| Issue body compare-and-swap (`issue_body_cas`) | none | read, compare, write, read back | GitHub | no server-side compare |
| Source install (`source_install_atom`) | receipts, backups, files | stage, back up, rename, roll back | file system, operator | a death or an error between two renames |
| Environment restore, transfer | authorities, journals | begin, complete, hold | file system | run by hand, once |
| Broker (`role_executor_broker`) | run, attempt, staged receipt | prepare, claim, gate, stage, hold, recover, pick up | readiness campaigns | host and evaluator die apart |
| Responses proxy (`attempt_responses_proxy`) | request rows, token budget | begin, open, stream, prepare, finalize, recover | upstream, agents | whether bytes left the host when nobody can ask |
| Snapshots, validators, guards, baselines | none | read and judge | | pure |

An item goes `PREPARED/NONE -> READY/NONE -> ACTIVE/ACTIVE ->
PUBLICATION_PENDING/ACTIVE -> DONE/NONE`, or to `HOLD/RETAINED`; a message
`PREPARED -> CLAIMED -> COMPLETE | HOLD`; a watch `PENDING_CLAIM -> ACTIVE ->
COMPLETE | HOLD`; an attempt `RESERVED -> LAUNCHING -> RUNNING -> COMPLETE | HOLD`.

`PROJECT.json` lists every component with what is modelled of it, every hazard at
its line, and the source lines of every definition.

## 2. Modules

| Module | Models | Checked by | Proved in |
|---|---|---|---|
| `Outbox` | one outbox row, its publishers, GitHub's comments | `MCOutbox` | `OutboxProofs` |
| `Allocation` | items, capacity, leases, watches, hosted operations | `MCAllocation` | `AllocationProofs` |
| `Lineage` | one admission from plan to closeout; implements `Allocation` | `MCLineage` | `LineageProofs` |
| `Submission` | the launch ledger of the supervisor and the attempts of the children | `MCSubmission` | `SubmissionProofs` |
| `Readiness` | the campaigns of one issue | `MCReadiness` | `ReadinessProofs` |
| `Approval` | the proposals, decisions and deliveries of one issue | `MCApproval` | `ControlsProofs` |
| `Portfolio` | graph, pull buffer, dirty events and their consumers | `MCPortfolio` | `PortfolioProofs` |
| `Proxy` | the requests of one attempt | `MCExecution` | `ExecutionProofs` |
| `Broker` | one brokered evaluation | `MCExecution` | `ExecutionProofs` |
| `Artifacts` | one artifact file and its collectors | `MCExecution` | `ExecutionProofs` |
| `Prepush` | gates and pushes of one issue | `MCControls` | `ControlsProofs` |
| `Install` | the installation of one manifest | `MCControls` | `ControlsProofs` |

Several MC modules look at more than one instance, or at components that share no
state. They declare a variable `which`, chosen in the initial state, that says whose
behaviour this is; the other variables then stay as they are. Nothing is composed
that way: it is a set of separate models under one run.

### Outbox

`publish()` reads the row once, keeps that copy (`loc`), and alternates
transactions and `gh` calls; each is one action, `pc` is the place in the
function, any number of processes run, and `Abort` ends one anywhere. `row`, `rec`
and `bound` are the outbox row, the recovery record and the immutable publisher
of a terminal row. GitHub is external: `posted` are the comments that carry the
marker, each invisible to listings until `List`, and alterable by people; the
credential may rotate at any moment. An ordinary row is `Terminal = FALSE`.
Abstractions: `next_retry_at` becomes the flag `due`; the attempts counter
saturates at the bound it is compared with; a terminal row of an old database may
start `INFLIGHT` and unbound, as the code provides for.

### Allocation

`_set_issue_status_locked` is `SetIssueStatus` with one operator for each of its
refusals; each caller (plan, ready finalizer, admission, closeout, park) is an
action that passes its gateway. Operations that update item and watch directly
(claim, hold, re-arm, recovery, commit) are actions with their own guards. A call
with a stale version or digest changes nothing and is no step. Sums of units are
cardinalities of sets of tokens, which both TLC and the provers handle. Guards
of other components (graph, artifact collection, messages) only restrict the
actions further. The watch backfill of the supervisor is left out: it only runs
for executing items without a watch, which `WatchedExecution` excludes. The
transfer gateway is not modelled.

### Lineage

One issue, one lease, one admission; everything that happens between planning
and the committed closeout, with every process that takes part:

- the issue on GitHub (`live`) and the stored snapshot (`db`); a revision counts
  foreign changes and our own comments, because only the latter can be excused by
  an equivalence receipt or by the closeout evidence;
- the store: item, admission message, watch, receipt, closeout packet;
- the supervisor (`sup`), cut at every transaction of its pass: rows read,
  contract checked, message held or wake reserved, submission; it may crash at
  each cut, and around the manager call nobody knows whether a child exists;
- executors: submitted children that start late or never, the one running attempt
  of the lineage, the claim attempt the watch is bound to, and the calls it makes
  (claim, heartbeat, prepare, observe, commit), a refused claim being two
  transactions as in the code;
- planner and owner: any ordinary `set_issue_status` (`Plan`), in the generation of the
  admission or in the next one, recovery, re-arm, park;
- the publisher, reduced to its source check and its POST (`Outbox` has the rest).

Left out: retry delays and launch quotas, which only postpone; the markers of the
submission ledger (a launch is unresolved or not; `Submission` has them); endpoint rotation, recovery of
HOLD items, approvals, and guards that only restrict (graph, artifacts,
pre-push). `ACTIVE` stands for `ACTIVE`, `ACTIVE_FENCED` and `MONITOR`. An attempt
makes one call at a time. The item fences of
`_reserve_terminal_watch` cannot fire, by `ActiveWatchIsCurrent`, which
`Allocation` proves and `Lineage` inherits by refinement.

`Plan` is the ordinary call with its refusals: capacity is not released, work is not
declared done (`ReleaseOk`), READY and execution are not begun (`GatewayOk`), and within a
generation the order of the states holds (`OrderOk`). Nothing stops it from parking
publication-pending work, or from carrying executing work into the next generation under
a running claimer, whose ACTIVE watch is then superseded by one of the new generation
(`Superseded`, `heir`). The admission of generation 0 (`gen = 0`) goes on to its end
afterwards: its packet, publisher, wakes and late children stay, and fail at their fences.
Generation 1 is only as much as they can tell: whether the row is reserved and runs
(`NextRows`) and the state of its watch; its own admission, and a third generation, would
be another instance of the module. Every replan writes a new item version, which is no longer the one the admission
names (`named`), so of its source only that of running work is kept; the progress digest covers the item version, so the count of launches starts over.

`Lineage` implements `Allocation`: `A == INSTANCE Allocation WITH ...` maps the
item and the watch, and `AllocationSpec` is checked as a property, and
proved for all bounds (`ImplementsAllocation`), so every action of supervisor,
executors and planner on these rows, in both generations, is one the allocation rules allow, and the invariants proved for `Allocation` hold of it.

### Submission

How the supervisor starts an executor exactly once. A key is a notice or a
delivery lineage (admission and watch). State and code:

- `row` is the wake of a message (one for its PREPARED and one for its CLAIMED
  state) or the terminal watch, with retry count, progress digest, process and
  `last_error`; the latter holds the marker of the ledger (SUBMITTING, PENDING,
  AMBIGUOUS), and a transaction that finds another row than its own reservation
  plus marker raises TARGET_DRIFT (`Marked`);
- `ledger` is the sequence of intents with the reservation (`res`) and the earlier
  attempts (`pre`) they recorded, their first disposition (submitted, ambiguous,
  abandoned) and their final one;
- `unit[i]` is what the call of intent `i` started: the process, the attempt row it
  wrote, the progress digest that row was reserved and ended with, and the
  deadlines its last event is after;
- `pc`, `todo`, `cur`, `fenced` are the pass: recovery of stale attempts, the loops
  over unbound, ambiguous and pending intents, the scan, and for a launch the
  chain reserve, record, precall, call, bind, await, finalize. Every transaction
  is an action; `Crash` ends the pass between any two.

The service manager answers the call with a receipt, with a proof that nothing was
submitted, or not at all, in which case the unit may exist or not. Children reserve
an attempt, advance it, claim, answer, heartbeat, close out, end or die, at any time.

Time is abstracted to what the code compares: `late` is the number of intents whose
observation deadline (15 minutes) has passed, and moves only between passes, which
are shorter; `recent` are the units with an event later than the instant a poll
compares with. A digest is the tuple of fields the code hashes. `MaxIntents` acts as a
launch policy that is used up. Left out: launch quotas and the order of rows,
planner single-flight per repository, endpoint changes, broker rows, and
`process_checker`, a hint the attempts make redundant.

### Readiness

`world` is what a campaign is judged against (issue source, item, graph,
candidate, endpoint), `camps` the sequence of campaigns with their frozen bindings, attempts,
notice, pickup and request, `cur` the current row. Each handler is one action per
transaction: a resolution action is started, has its effect on GitHub, item, graph or
candidate, and is committed, each a step of its own that nothing fences; the
completion receipts are confirmed again when `apply_readiness_resolution` registers the
successor (`Resolved`), which the model allows at any time an owner may call it and the code only with
a claimed notice and its context: the model has more behaviours there. Workers reserve, attach,
stage and die; the supervisor recovers their attempts and picks receipts up,
at most `MaxTries` times. The world changes at any time (`WorldNext`, counted by `drift`). The approval
request is the part of `Approval` the campaign sees: decided, consumed, revoked.

### Approval

Per proposal: what was proposed and on which snapshot (`prop`), the decision and
whom it goes to (`dec`), the delivery of each recipient (`deliv`); `src` is GitHub's
snapshot, content and comments apart. `claim_decision` fetches, then decides in a
transaction (`StartClaim`, `FinishClaim`), so edits, revocations, newer proposals and
the activation of the second semantic contract come in between. A user event is
presented as often as one likes, for any batch. The guard is `RequireEffectiveApproval`.

### Portfolio

Three scripts on one set of rows, with two consumers (the timer's and the
supervisor's). A consumer reads main and the packets outside the database
(`BeginEvent`, `BeginAudit`) and commits later; between the two, planners replace the
graph, prepare, finalize or reopen issues, main moves, issues are edited. A
candidate is content-addressed: its packet is the tuple of what it binds. Audit,
admission, deferral, retry and completion of an event are the branches of the
commit. `Replan` is the ordinary `set_issue_status` with its refusals: it rewrites any item in
its generation or a later one, on the current source and a current graph, and looks neither
at the buffer nor at the campaign; `ver` counts such writes within a generation, which is
what a candidate's item version compares. ACTIVE stands for every item that holds units,
parked or not, PREPARED for BACKLOG, PREPARED and QUEUED; a reservation without execution
made by an ordinary call is in `Allocation` and `Lineage`. An event that another consumer
postponed may or may not be due by the time a slow consumer began at, so `Fenced` is
possible then and not certain (`Postponed`). `Capacity` is constant (policy changes are in `Allocation`); the make-ready
sweep only calls these operations in a loop and is left out.

### Proxy, Broker and Artifacts

`Proxy`: `reqs` are the request rows, `wire` and `child` what really happened at the
upstream and at the agent, and `pc` the place in the handler, between whose
transactions the process may be lost; `Recover` then has the rows and a receipt of the death only.

`Broker`: one run with its attempt, notice, campaign, evaluator (`kid`), receipt file
and pickups. The contract may be retired, as it is in production, and the
mechanics are then refused.

`Artifacts`: one registered file, its name in the source tree and in the trash, the
row, the collector's lock, and a step for each file operation of the move and the
purge. A collector may die at each, each may fail with or without its effect, and
others edit the file, reopen or close the issue and hold the row. Registration is
the initial state.

### Prepush and Install

`Prepush`: sessions run gates and guarded pushes of one issue; lineage, worktree and
remote move under them; `git push` with its hook is a process of its own that goes
on when its session dies. `passed`, `starts` and `landed` are history variables. The
lineage is one with an existing environment (the check after the gate is skipped for the
others, `prepush_control.py:2044`). The readings at the end of a gate (2028-2035) and the
transaction that records it are one step: the receipt only speaks of the head the gate
began with. `Eligible` compares the whole lineage; `assert_push_eligible` leaves out the
item version, which for a lineage in force differs alone only when an endpoint is rotated
away and back.

`Install`: files, stage, receipts and backups of one manifest with a new, an
unchanged and a changed file, two rollback directories and two callers. Each
rename, copy and receipt is a step, may be the last one of its process, or may fail.

## 3. Runs

| Run | Bounds | States | Shows |
|---|---|---|---|
| `outbox` | race: 2 publishers, 1 extra round; lone: 1 publisher, 2 absences per round, 1 edit, 1 lost run, fair; ordinary: 2 publishers, 1 edit, 1 altered comment, 2 lost runs | 1.15 M | one write per round, receipt of the bound publisher, publication final, only the original publisher re-arms, a visible marker is recorded |
| `allocation` | items: 2 issues, 2 leases, 2 policies, 2 generations; hosted: 2 operations, SRE limit 1 or 2; harness: exclusive writer | 136 k | capacity over two tables, leases, watches, releases, holds |
| `lineage` | 1 foreign change, 1 comment of ours beside the closeout's, 2 launches, 2 generations | 809 k | closeout, writers, end of launches, refinement of `Allocation` |
| `submission` | delivery: 2 intents, budget 2, 1 heartbeat; crash: 2 intents, 1 crash; notice: 3 intents, budget 2, 1 crash, fair | 502 k | one executor, own process, bounded retries, every notice settles |
| `readiness` | 3 campaigns, 1 cycle per generation, 2 pickup attempts, 1 drift | 439 k | chain of campaigns, judged transitions, no campaign hangs |
| `approval` | 2 proposals, 2 recipients, 2 user events, 1 edit | 503 k | decisions stand for what was seen, deliveries move on |
| `portfolio` | 2 colliding issues, 2 consumers, 2 events of 2 attempts, 2 external changes or 1 and a plan (a replan is one such change), 2 generations | 567 k | graph, packets, events and work agree; every event settles |
| `execution` | proxy: 2 requests, 3 tokens; broker: 1 run; artifacts: 2 collectors, 2 foreign writes, 2 deaths | 13 k | requests accounted, runs whole, no file lost, everything begun ends |
| `controls` | push: 2 sessions, 2 heads (1 leased), 2 generations and versions, 3 disturbances; install: 3 files, 2 directories, 2 callers, 2 mishaps | 340 k | pushes gated and made once, installations recoverable and whole |
| `lineage_receipt` | as `lineage` | | finding 1 |
| `submission_wedge` | 1 notice, 1 claimed lineage, fair | | finding 2 |
| `readiness_revoked` | as `readiness` | | finding 3 |

Why the bounds are enough. Every race here is between one actor that acts on what it
read and one that makes it stale, so two publishers, two consumers, two sessions,
two collectors are what it takes; a guard compares one row with all others, so two
issues meet in it. Two generations show a superseded one, and a counter of 2 has a
value that is not the last and one that is. In `lineage` one foreign change and one
comment of ours are the two kinds of drift. In `submission` two intents are a launch and
whatever comes beside or after it, and the third is the one a budget of two
forbids. In `readiness` three campaigns are a first one, its successor and the
successor of that, which is where budgets and approvals are handed on. In `portfolio` the
two events are the one that admits and the release that follows; the
scenarios trade a second change for a plan, and items that only compete start in their last
generation. In `controls` one of the heads is outside the lease.

Deadlock checking is off where the bounds leave nothing to do (issues DONE
in the last generation, spent budgets, delivered decisions). Symmetry is used
only in `allocation`, which has no liveness property.

### What the properties say

The invariants and action properties of a run are conjunctions of named parts, each
defined with its own comment.

- `outbox`: `PostsWithinRounds`, `ReceiptIsMarker`, `PublicationFinal`, `OnlyOriginalRearms`,
  `LoneMarkerIsRecorded`.
- `allocation`: `WithinCapacity`; `LeaseExclusive`; `HarnessHasOneWriter`;
  `WatchesFollowWork` (executing work has an open watch of its generation and lease,
  and an ACTIVE watch follows executing work); `LifecycleKept` (capacity is released, and
  held work taken up again, only on the paths made for it).
- `lineage`: `CloseoutKept` (closed everywhere or nowhere, on the admitted source, and
  capacity kept from packet to commit: also work an ordinary call parks or carries into the
  next generation stays reserved and undone); `WritersKept` (whoever works has a reservation, be it
  one an ordinary call has since parked or moved to the next generation, and nobody writes on an exhausted admission, however late a child
  starts); `LaunchesStop` (no relaunch beside a packet, no retry storm);
  `AllocationSpec`, the refinement.
- `submission`: `OneExecutor` (never two unresolved submissions, nothing submitted again
  while an earlier executor is alive or may come up, a lost reply and a crash around
  the call included); `AttachedIsOwn` (also when the process is recovered from the
  attempts alone); `RetriesEnd`; `NoticeSettles`. For a watch the last does not hold:
  finding 2, and the heartbeat described in section 4.
- `readiness`: `CampaignsAreSound` (a successor is bound to what was really resolved,
  cycles are counted per generation across refreshes and approvals, a verdict is its
  own attempt's, a request resumes one campaign); `TransitionsAreJudged` (admission on
  what was examined, parked until a decision is consumed, holds durable);
  `CampaignsSettle`.
- `approval`: `DecisionsStand` (recipients as reviewed, nothing open on superseded or revoked
  proposals, one event decides once, the effective source is the decided one, the
  guard lets only that pass); `DeliveriesMoveOn`.
- `portfolio`: `PortfolioIsSound` (a current graph is current, no plan locks everything,
  retired packets stay away, work fits and does not collide, one event admits once,
  attempts bounded); `MovesAreCurrent` (admission on the main, graph and source of that
  moment; READY left together with the campaign, or by an ordinary call that takes the item
  alone, never to work and never back in its generation; quarantine as inventoried);
  `EventsSettle`.
- `execution`: `RequestsAccounted` (SAFE_NOT_SENT means nothing was sent, nothing follows an
  unknown outcome, no worker after the decision, delivered means durable, the lineage
  is what was delivered, tokens add up); `RunIsWhole`; `BytesKept`; `CollectionIsDue`;
  `ExecutionSettles`.
- `controls`: `PushIsGated`; `InstallRecoverable` (prior bytes kept somewhere, and the set whole
  when no receipt is open); `ControlsRecover`.

### Fairness

The coordination, hosted and graph supervisors are restarted by timers, so passes are
started again and take their steps; a step that is enabled only between passes, or only
when a pass comes to it, needs strong fairness for that (`Tick`, `Reserve`, recovery in
`Submission`). Of executors, planners, owners and GitHub nothing is assumed.

- `outbox`: publishers are invoked again and a started one goes on; the retry time passes.
  That GitHub lists the comment is the hypothesis of the property.
- `submission`: passes, backoffs and deadlines pass, systemd reports a dead unit at some time.
- `readiness`, `approval`, `portfolio`: the supervisors' passes (pickup, the sweep of
  revoked lineages, the planner's wake, the synchronisation with GitHub, the consumers
  of events).
- `execution`: the proxy's own handler while it lives, its recovery, the end of the
  evaluator's unit, the recovery and pickup passes, the collector's pass; deaths are
  bounded (`MaxStops`).
- `controls`: sessions and git processes go on, and an open reservation is tried again; an
  installing process goes on, and the operator repeats a rollback that was
  interrupted: the code only asks for it ("recovery required"), so `InstallSettles`
  says no more than that repeating it is enough.

`LaunchesStop` needs no fairness: it says what an endless sequence of launches contains.

## 4. Findings

1. `ReceiptHonoured`: after a source-equivalent re-arm, the next supervisor pass
   holds the admission again, because `_message_contract_error` compares raw
   snapshots while the watch path accepts the receipt.
2. `NoSilentStall`, with a lineage beside the notice: an ambiguous watch launch
   whose row moved makes every pass end with TARGET_DRIFT before its scan, and
   nothing else is launched.
3. `RevokedNeverAdmitted`: a resolution hands the approval of a resumed campaign to a
   successor of another kind, which the stop of revoked lineages, the dispatch guard
   and admission do not look at; it is finalized and admitted on a revoked decision.

Each is a run that is expected to be violated; `PROJECT.json` quotes the lines.

The models reach further states that a reader of the code may want to know. They have
no run of their own, and no property claims the opposite.

Launches and lineages:
- A child that records or advances its attempt while the supervisor sleeps between two
  polls is rejected and its wake held: the poll compares with an instant from
  before the sleep (`coordination_supervisor.py:1657`, `executor_registry.py:3304`).
- A heartbeat clears the marker of a pending watch submission, which then drifts for
  ever (`coordination_store.py:11740`); a watch that made progress while its submission
  failed before the call keeps its intent unresolved (`coordination_supervisor.py:1236`).
- A claimed notice whose executor ended unanswered is not launched again
  (`coordination_supervisor.py:2916`, against `references/control-plane.md:181`).
- A wake held for want of an acknowledgement, and a PREPARED admission held for drift,
  leave watch PENDING_CLAIM and item ACTIVE until a person acts
  (`coordination_supervisor.py:1842`, `2857`).
- A synchronisation after the closeout comment makes the watch that must commit it drift
  (`coordination_supervisor.py:2501`); a publisher that read the outbox row before a
  re-arm skips the last marker scan (`publish_coordination_outbox.py:220`).

Readiness, approvals, portfolio:
- A first attempt that is attached and dies before it stages leaves its campaign
  RUNNING and its dispatch slot taken (`kanban_readiness.py:4978`); an action list with a
  source action and no graph action waits for ever (`kanban_readiness.py:2886`).
- A held publication keeps deliveries WAITING_PUBLICATION, and new proposals are refused
  until the decision is revoked (`approval_ledger.py:1937`).
- `portfolio_convergence.py:305` reads the packets before its transaction. A `finalize_ready`
  that commits in between has no observation: the audit retires its pointer as
  ARTIFACT_DRIFT (`kanban_pull_buffer.py:8064`, `5621`) while the item stays READY and the
  campaign FINALIZED, with no packet. Such an item keeps being selected, and with one
  free slot it starves the others.
- An ordinary `set_issue_status` takes a READY item to HOLD, or to PREPARED in the next
  generation, and leaves its campaign FINALIZED (`coordination_store.py:4935`). `evaluate` never
  marks a finalized campaign STALE (`kanban_readiness.py:6196`) and a refresh wants a STALE
  one (`kanban_readiness.py:1916`), so the issue is not examined again as long as the campaign
  stays FINALIZED.
- Main that moves A, B, A, B enqueues no second event for the same move
  (`portfolio_graph.py:92`); the supervisor returns GRAPH_STALE before its audit; the completion of a hosted operation
  enqueues no event; a retry recorded late revives an event another consumer held.

Execution and controls:
- A proxy lost between activation and the binding of its process identity matches no
  termination receipt and is not recovered (`attempt_responses_proxy.py:1689`).
- A campaign marked STALE under a RUNNING brokered run makes both its completion and its
  hold refuse (`role_executor_broker.py:2360`).
- An issue that moves between the collector's preview and its reservation puts the
  artifact on HOLD for good; a file swapped between verification and unlink is
  unlinked by its name (`coordination_store.py:4258`).
- A second `guarded_push` that finds the reservation while the first `git push` still
  runs settles it HOLD, and the push may land afterwards (`prepush_control.py:2322`); a gate that fails later at
  the same head keeps an open reservation from being settled; a change of the worktree
  that is undone before the gate ends is not seen.
- Receipts nest up to depth 16; past that a rollback is refused for good
  (`source_install_atom.py:1158`). A rollback with an older directory undoes a newer
  installation whose receipt still says INSTALLED (`1860`).

## 5. Proofs

For every value of the constants (any finite number of publishers, issues and
operations; any sets of sessions, heads and collectors; any policies, demands and bounds):

- `OutboxProofs`: `ReceiptCorrect` (types, and the receipt of a COMPLETE row is a
  comment that exists, of the bound publisher if terminal), `PostsBounded` (at
  most one write per round), `PublicationIsFinal` and `OriginalCounts` (only the bound
  credential counts an absence or re-arms). The count of comments is
  not inductive: a publisher past its reservation has a write still to come. The
  invariant `PostBudget` says that comments plus publishers about to post never
  exceed the rounds granted, plus one once the row has left PREPARED: a
  reservation pays for its write before it is made.
  The receipt rests on `HitsAreMarkers`: what a publisher remembers of a scan
  is still a comment of its author, since comments are never removed; and `OriginalCounts` on
  `AbsencesAreOwn`: a publisher reaches the count with an empty scan only when the credential
  it observed is the one it acts for.
- `AllocationProofs`: `TypeCorrect`, `WatchesCorrect`, `LeasesExclusive`,
  `HarnessWriterExclusive`, `CapacityRespected`, `LifecycleRespected` (both parts of
  `LifecycleKept`, judged issue by issue from types alone), and `HarnessInstanceExclusive`:
  the property `HarnessHasOneWriter` of the run's harness instance, next to the other two. `WatchInv` strengthens the watch
  properties: no watch belongs to a generation the item has not reached, and a
  PENDING_CLAIM watch of the current generation, too, follows executing work. The
  capacity proof shows that every step changes the token set of one item (or the
  hosted set by one operation) and that its guard counted all the others.
- `ExecutionProofs`, for what surrounds an attempt:
  - `FilesSurvive` (no registered file is lost before its retention has passed) and
    `CollectionCorrect` (files are taken from closed-out issues only, held rows are left
    alone). `CollectorInv` adds what a step relies on across transactions: only the holder
    of the lock is past its preview, a step of the move has a MOVE_RESERVED row and, from
    the link on, its file in the trash, and an open move keeps the issue closed out, which
    is what the ARTIFACT_GC_INFLIGHT fence is for.
  - `BrokerRunIsWhole`, all four parts of `RunIsWhole`, and `BrokerDisposed`. `BrokerInv`
    adds `HostInv` (until the gate opens, nobody but the host moves its run, except a
    recovery that finds it not started; a dead host leaves no evaluator) and
    `RunInv` (no evaluator before the launch; the claim divides the ends of a run).
  - `ProxyRequestsAccounted`, all six parts of `RequestsAccounted`, and
    `ProxyTerminalIsFinal`. `ProxyInv` ties the place of the handler to the state of its
    request (`StepInv`), what the worker said to what is on the wire (`WorkerInv`), an
    unknown outcome to a proxy that is held, or held next (`WireInv`), the predecessor to
    the last response delivered (`DeliveryInv`) and the tokens to what was prepared
    (`ChargeInv`; the charges
    are counted as a set of pairs of a request and one of its tokens, which finite sets
    decide without an induction over sums).
  - `ExecutionIsSound`: the same for the three side by side, which is `ExecutionSpec` of
    the run, with all their types.
- `ControlsProofs`, for the two controls of a working tree and for the approval ledger:
  - `PushesAreGated`, all four parts of `PushIsGated`. `PushInv` is needed
    because `guarded_push` reads the lineage three times: lineages only move forward
    (`Before`), so a session whose lineage is in force when it reserves was asserted under
    that lineage; a publication that is open stops the lineage; and the session that
    created the row is the only one at its push, with none started before (`OnceInv`).
  - `InstallsCanBeUndone`, both parts of `InstallRecoverable`, and `FailuresRestore`.
    `InstallInv` says by where the bytes came from, not by what they are now, so that an
    edit from outside does not disturb it: the prior bytes of whatever is installed are in
    some rollback directory, and a set that is neither all prior nor all installed has a
    receipt that still says PREPARED (`FileInv`); a process at work holds the lock, and its
    place says which entries it has copied and replaced (`AtHand`).
  - `ControlsAreSound`: the two controls side by side, as the run has them, with their types.
  - `ApprovalDecisionsStand` (all parts of `DecisionsStand`) and
    `ApprovalDeliveryMonotonic` (no delivery goes back). The four parts of
    `DecisionsStand` are inductive together once `ApprovalInv` adds the types and
    `DecidedFirst`: until its decision a proposal has no delivery, no publication and no
    effective source, and only a submitted proposal is current or decided. That is what
    lets `RecordDecision` start from a clean record, whatever was fetched before it.
- `LineageProofs`: `LineageTypes`, `CloseoutsKept` (the closeout stays one piece, on the
  admitted source, and its capacity stays reserved) and `WritersRespected` (whoever works does
  so on reserved capacity, and nobody after its retries are spent), with the planner free to
  replan into the next generation at any step. The five properties are
  not inductive. `LineageInv` adds `PassTypes` (what the supervisor carries from one
  transaction to the next), `BeforeAdmission` (no receipt and no watch before the
  admission), `RowKinds` (which statuses go with which allocation),
  `OpenWatchRuns` (an ACTIVE watch follows executing work of its own generation, and only a held
  one remembers an exhaustion), `HeirFollows` (no watch of the next generation before the item
  reaches it), `ReceiptIsLater` (a receipt speaks for a
  revision later than the admitted one, so the snapshot comparison inside `Prepare`
  excludes it) and `ClaimerIsAttempt` (the bound claimer is the attempt that runs).
  `NothingRelaunched` is the safety half of `LaunchesStop`. `LaunchInv` adds who may still be
  on the way when the packet is written: before the first claim a child is accounted for by
  the supervisor's intent or by a wake that is spent (`OneStarts`), so the claimer was the only
  one; and while the claimed watch is ACTIVE none is launched for the admission
  (`NoneWhileWatched`). A late child survives only under an equivalence receipt, which allows
  neither another claim nor a packet.
  `ImplementsAllocation` is the property `AllocationSpec` for all
  bounds. Each operation that writes item or watch is shown to be one item step of
  `Allocation` from `LineageInv`; the capacity, lease and writer guards of
  `_set_issue_status_locked` hold because the instance has one issue, and the remaining
  guards follow from those of the operation.
- `SubmissionProofs`: `SubmissionTypeOK`, `SubmissionOneExecutor`, `SubmissionAttachedIsOwn`
  and `SubmissionRetriesEnd`, for any set of notices and lineages, any budget and any number
  of intents, crashes and heartbeats. None of the three is inductive; `SubmissionInv` is in
  five groups.
  - `StoreInv`, about the rows alone: an attempt and its intent name each other's
    reservation (`RowsAgree`, `Reservations`); the intents of a key are recorded one after the
    other, each with all the attempts written before it (`KeyOrder`, `FenceLists`), so
    an attempt that is new to an intent is its own; a final outcome says whether the
    child can still come up (`Outcomes`, `Unclaimed`); the launches in the ledger are
    those the row has counted (`Counting`, `Budgeted`).
  - `LoopInv`, `FenceInv` and `LaunchInv`, about the pass: what it read is still so, or the
    transaction that uses it will find that it is not. This is the part about
    check-then-act: between the fence and the call only children move, and no child of
    a key whose intents are settled can come up again.

- `ReadinessProofs`: `CampaignChainSound`, all parts of `CampaignsAreSound`, and
  `CampaignsLeaveAsJudged`, all parts of `TransitionsAreJudged`, for any budget of cycles and
  attempts, any set of action lists and any changes of the world. Of `CampaignInv`:
  - `RowInv` has the types of the rows beside the chain, and that an action in flight is of
    a campaign that exists;
  - `ChainInv`: generations only grow along the chain; the ordinal of the last campaign
    counts the resolutions of its generation, which is why bounding the ordinal in
    `apply_readiness_resolution` bounds the cycles; a resumed campaign is the one right
    after the campaign it resumes;
  - `RequestInv`: a request goes from its decision to its notice to its consumption, and is
    consumed RESUMED exactly when the next campaign is an APPROVAL_RESUME;
  - `PhaseInv`: a verdict on record is the one staged for this campaign by its attached
    attempt, which had ended.
- `PortfolioProofs`: `PortfolioSound`, all parts of `PortfolioIsSound`, and
  `PortfolioMovesAreCurrent`, all parts of `MovesAreCurrent`, for any issues, collisions,
  plans, consumers and packets. `PortfolioInv` adds to `PortfolioIsSound`:
  - `GraphInv`: the graph in force has a plan that was checked when it was stored, and an error
    of main alone leaves the sources in step, so that the cursor may become current again
    without a new graph;
  - `CandInv`: a candidate names a graph version and a READY one a generation there has been.
    `register_candidate` refuses a packet that was retired; `prepare_zero_wip` and
    `finalize_ready` do not look, and need not: the first binds a graph version, the second a
    READY generation, that no candidate before it can have named (`RetiredIsGone`);
  - `PromotionInv` and `GenInv`: a READY item, and a READY candidate even after an ordinary call
    took its item away, was promoted by an event and a campaign on record, so a generation outgrows its bound only by promotions that were returned;
  - `WorkInv`: an item that runs has left the buffer, so that an ordinary call which moves it to
    another generation leaves no candidate behind;
  - `AdmissionInv`: an item whose admission is on record is not before it again, which makes
    the event of `AdmittedOnce` the only one;
  - `AttemptInv`: the attempts still to be counted are those of consumers that failed on the
    event after it was closed; an open event has attempts left.

  Two parts rest on recursive functions. The library's induction theorems take an operator,
  which the provers here cannot instantiate; `Induct` is the same induction about a
  *set* of numbers, derived from the well-foundedness of `<`. With it
  `AcyclicIsWellFounded` shows that peeling a plan rank by rank, as the graph store does,
  decides that every set of issues has one that nothing in the set blocks
  (`SomethingIsReady`); `SelectedByPriority` shows that the scheduler's walk selects exactly
  the offered issues that collide with nothing selected before them and find a unit left,
  and `ScheduleFits` that its result fits next to the work there is (`WorkFits`).
  `PortfolioMovesAreCurrent` is about reads that are old: what a consumer admits is READY,
  unblocked and attested when it commits because the audit and the schedule of that
  transaction look again, and an item that is READY then has the campaign the promotion
  left. The ordinary call is shown to leave READY only upwards or into another
  generation, with everything but the item unchanged.

The assumptions are the ASSUMEs of the modules: finiteness of the sets of
processes and rows, numbers that are natural, a value that stands for "none" outside the
set it is used with (`LoginAssumption`, `OutputsAssumption`, `FreeIsNobody`,
`InstallersAssumption`), a manifest whose entries are new, equal or changed
(`KindAssumption`), action lists made of the three actions there are
(`ReadinessAssumption`), and scenarios of the portfolio that start with a plan the graph
store accepts and within the bounds, of which `MaxGen` allows the first generation
(`PortfolioAssumption`, `ScenarioAssumption`).

Only model-checked:
- `AllTypesOK` of `MCOutbox` and `MCSubmission`. They say of each of the instances in the run
  what `ReceiptCorrect` and `SubmissionTypeOK` say of every instance;
- the liveness properties, which are out of this prover's reach, as are the properties that
  bundle them. Their safety halves are theorems of their own: `NothingRelaunched` of
  `LaunchesStop`, `FailuresRestore` of `ControlsRecover`, `BrokerDisposed` and
  `ProxyTerminalIsFinal` of `ExecutionSettles`, `ApprovalDeliveryMonotonic` of
  `DeliveriesMoveOn`;
- the refuted properties, of which a run shows the counterexample.

## 6. Not modelled

- Hosted operations beyond their units and blockers (clearances, provider receipts), and
  the parts of the supervisor that only order its work (quotas, ranking).
- `issue_body_cas` is one sequential script without state of its own; what it promises is
  GitHub's answer to a read, a write and a read.
- `environment_restore_control` and `environment_rebuild_control` are off by default and
  run by hand; the transfer between repositories, routing deprecation and the clean-room
  bootstrap are one-time migrations on a stopped control plane.
- `delivery_guard`, identities, baseline verifiers, test runners, snapshot and tracker
  validators are functions of text and files that change no coordination state.
- Installers, units and the vendored skills hold no coordination state; the timers
  among the units justify the fairness above.
- The sandbox set-up of the broker and the byte protocol of the proxy are outside
  what a state model shows.
