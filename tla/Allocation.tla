---------------------------- MODULE Allocation ----------------------------
(***************************************************************************)
(* The delivery items of one repository: who holds capacity, under which   *)
(* lease and generation, and which terminal watch follows the work.        *)
(*                                                                         *)
(* Everything is one owner-only SQLite file and every operation is one     *)
(* BEGIN IMMEDIATE transaction, so each is one action.  Every caller names *)
(* the item version and the source digest it read; a stale call changes    *)
(* nothing and is no step here.  The capacity of the SRE pool is shared    *)
(* with the hosted operations, which keep their own table and their own    *)
(* arithmetic.  Guards of other components (portfolio graph, artifact      *)
(* collection, messages, attempts) only restrict these actions further;    *)
(* Lineage adds the ones of messages, attempts and publication.            *)
(***************************************************************************)
EXTENDS Integers, FiniteSets

CONSTANTS
    Issues,         \* issues of the repository
    Pools,          \* capacity pools: development, shared, sre
    Sre,            \* the pool hosted operations draw on
    Demands,        \* the unit vectors callers ask for
    Policies,       \* the limit vectors an authority may set
    Leases,         \* lease manifest digests
    NoLease,        \* SQL NULL
    Harness,        \* TRUE: the harness repository (exclusive writer)
    Ops,            \* hosted operations
    Blocker,        \* [Ops -> Issues]: the issue an operation waits for
    Planned,        \* bound: the statuses ordinary callers ask for
    MaxGen          \* bound: item generations

ASSUME IssuesFinite == IsFiniteSet(Issues) /\ IsFiniteSet(Ops)
ASSUME PoolsAssumption == Sre \in Pools
ASSUME VectorsAssumption == Demands \subseteq [Pools -> Nat] /\ Policies \subseteq [Pools -> Nat]
ASSUME BlockerAssumption == Blocker \in [Ops -> Issues]
ASSUME GenAssumption == MaxGen \in Nat
ASSUME HarnessAssumption == Harness \in BOOLEAN

VARIABLES
    item,       \* coordination_items: [status, alloc, gen, lease, units]
    watch,      \* coordination_terminal_watches by issue and generation
    limit,      \* the current capacity policy
    op          \* hosted_operations.state

vars == <<item, watch, limit, op>>

StatusRank ==
    [s \in {"ABSENT", "BACKLOG", "PREPARED", "QUEUED", "READY", "ACTIVE",
            "ACTIVE_FENCED", "MONITOR", "PUBLICATION_PENDING", "HOLD", "DONE"} |->
       CASE s = "ABSENT" -> -1 [] s = "BACKLOG" -> 0 [] s = "PREPARED" -> 1
         [] s = "QUEUED" -> 2 [] s = "READY" -> 3
         [] s \in {"ACTIVE", "ACTIVE_FENCED", "MONITOR"} -> 4
         [] s = "PUBLICATION_PENDING" -> 5 [] s = "HOLD" -> 6 [] s = "DONE" -> 7]
Statuses == DOMAIN StatusRank

ASSUME PlannedAssumption == Planned \subseteq Statuses

Executing == {"ACTIVE", "ACTIVE_FENCED", "MONITOR", "PUBLICATION_PENDING"}
Classes == {"NONE", "ACTIVE", "RETAINED"}
WatchStates == {"ABSENT", "PENDING_CLAIM", "ACTIVE", "HOLD", "COMPLETE"}
OpStates == {"ABSENT", "WAITING", "PREPARED", "CLAIMED", "COMPLETE", "HOLD"}
Gens == 0..MaxGen

Rows == [status : Statuses, alloc : Classes, gen : Gens,
         lease : Leases \cup {NoLease}, units : [Pools -> Nat]]
Watches == [state : WatchStates, lease : Leases \cup {NoLease}, exhausted : BOOLEAN]

Zero == [p \in Pools |-> 0]
NoRow == [status |-> "ABSENT", alloc |-> "NONE", gen |-> 0, lease |-> NoLease, units |-> Zero]
NoWatch == [state |-> "ABSENT", lease |-> NoLease, exhausted |-> FALSE]

Reserved(row) == row.alloc \in {"ACTIVE", "RETAINED"}
Runs(row) == row.alloc = "ACTIVE" /\ row.status \in Executing
Holders == {i \in Issues : Reserved(item[i])}

\* One token per unit: a SUM over rows is the cardinality of their tokens.
Tokens(i, units, p) == {i} \X (1..units[p])
Held(S, p) == UNION {Tokens(i, item[i].units, p) : i \in S}

\* reserved_hosted_sre_units: SRE units fenced by hosted operations.
HostedHolders == {o \in Ops : op[o] \in {"PREPARED", "CLAIMED"}}
Hosted(p) == IF p = Sre THEN Cardinality(HostedHolders) ELSE 0

Occupied(S, p) == Cardinality(Held(S, p)) + Hosted(p)

Init ==
    /\ item = [i \in Issues |-> NoRow]
    /\ watch = [i \in Issues |-> [g \in Gens |-> NoWatch]]
    /\ limit \in Policies
    /\ op = [o \in Ops |-> "ABSENT"]

-----------------------------------------------------------------------------
(* _set_issue_status_locked: its guards, one operator per refusal.         *)

\* Mutant: only the reservations of other ACTIVE items are counted.
CapacityOkActiveOnly(i, new) ==
    \A p \in Pools :
        Occupied({j \in Holders \ {i} : item[j].alloc = "ACTIVE"}, p)
          + (IF Reserved(new) THEN new.units[p] ELSE 0) <= limit[p]

CapacityOk(i, new) ==
    \A p \in Pools :
        Occupied(Holders \ {i}, p) + (IF Reserved(new) THEN new.units[p] ELSE 0) <= limit[p]

\* Mutant: a retained lease does not collide.
LeaseOkActiveOnly(i, new) ==
    Reserved(new) /\ new.lease # NoLease =>
        \A j \in Holders \ {i} : item[j].alloc = "ACTIVE" => item[j].lease # new.lease

LeaseOk(i, new) ==
    Reserved(new) /\ new.lease # NoLease =>
        \A j \in Holders \ {i} : item[j].lease # new.lease

\* Mutant: the mutex forgets retained work.
WriterOkActiveOnly(i, new) ==
    Harness /\ Reserved(new) => {j \in Holders : item[j].alloc = "ACTIVE"} \subseteq {i}

\* ADMISSION_REPOSITORY_WRITER_MUTEX of an exclusive repository.
WriterOk(i, new) == Harness /\ Reserved(new) => Holders \subseteq {i}

HarnessOk(i, new, gateway) ==
    Harness =>
        /\ new.alloc = "NONE" => new.lease = NoLease
        /\ Reserved(new) => \A p \in Pools : new.units[p] = IF p = "shared" THEN 1 ELSE 0
        /\ gateway = "ordinary" => ~Reserved(new) /\ ~Reserved(item[i])

\* Mutant: an ordinary call may let a reservation go.
ReleaseOkAnyCaller(i, new, gateway) == TRUE

\* TERMINAL_FINALIZATION_REQUIRED.
ReleaseOk(i, new, gateway) ==
    Reserved(item[i]) /\ (new.alloc = "NONE" \/ new.status = "DONE") =>
        gateway \in {"terminal", "park"}

\* Statuses only their gateway may create.
GatewayOk(i, new, gateway) ==
    /\ new.status = "PUBLICATION_PENDING" => gateway = "terminal"
    /\ new.status \in Executing /\ ~Runs(item[i]) => gateway = "admission"
    /\ new.status = "READY" /\ item[i].status # "READY" => gateway = "ready"

\* GENERATION_REGRESSION, NEW_GENERATION_REQUIRED, STATUS_REGRESSION.
OrderOk(i, new) ==
    /\ new.gen >= item[i].gen
    /\ new.gen = item[i].gen =>
          /\ item[i].status = "HOLD" => new.status = "HOLD"
          /\ StatusRank[new.status] >= StatusRank[item[i].status]

\* Mutant: the watch already there is taken as it is.
LineageOkAnyWatch(i, new) == Runs(new) => new.lease # NoLease

\* An executing row needs a lease and a live watch of the same lease, or none.
LineageOk(i, new) ==
    Runs(new) =>
        /\ new.lease # NoLease
        /\ LET w == watch[i][new.gen]
           IN  w.state = "ABSENT" \/ (w.lease = new.lease /\ w.state \in {"PENDING_CLAIM", "ACTIVE"})

Permitted(i, new, gateway) ==
    /\ Reserved(new) => new.units # Zero
    /\ HarnessOk(i, new, gateway)
    /\ WriterOk(i, new)
    /\ ReleaseOk(i, new, gateway)
    /\ GatewayOk(i, new, gateway)
    /\ OrderOk(i, new)
    /\ CapacityOk(i, new)
    /\ LeaseOk(i, new)
    /\ LineageOk(i, new)

\* Mutant: leaving execution forgets the watch.
WatchesAfterNoClose(i, new, opened) ==
    IF Runs(new)
    THEN [g \in Gens |->
            IF g = new.gen /\ watch[i][g].state = "ABSENT"
            THEN [state |-> opened, lease |-> new.lease, exhausted |-> FALSE]
            ELSE watch[i][g]]
    ELSE watch[i]

\* The watches of the issue after the call: an executing row opens the watch of
\* its generation and closes ACTIVE ones of earlier generations; any other row
\* closes every open watch.
WatchesAfter(i, new, opened) ==
    [g \in Gens |->
       IF Runs(new)
       THEN CASE g = new.gen /\ watch[i][g].state = "ABSENT" ->
                   [state |-> opened, lease |-> new.lease, exhausted |-> FALSE]
              [] g < new.gen /\ item[i].gen < new.gen /\ watch[i][g].state = "ACTIVE" ->
                   [watch[i][g] EXCEPT !.state = "COMPLETE"]
              [] OTHER -> watch[i][g]
       ELSE IF watch[i][g].state \in {"PENDING_CLAIM", "ACTIVE"}
            THEN [watch[i][g] EXCEPT !.state = "COMPLETE", !.exhausted = FALSE]
            ELSE watch[i][g]]

\* The row comes first: TLC drops a row that does not fit before it asks the guards.
SetIssueStatus(i, new, gateway, opened) ==
    /\ item' = [item EXCEPT ![i] = new]
    /\ Permitted(i, new, gateway)
    /\ watch' = [watch EXCEPT ![i] = WatchesAfter(i, new, opened)]
    /\ UNCHANGED <<limit, op>>

-----------------------------------------------------------------------------
(* The operations.                                                         *)

\* set_issue_status, apply_issue_plan: the ordinary caller, no gateway.
Plan(i) ==
    \E s \in Planned, a \in Classes, u \in Demands, l \in Leases \cup {NoLease},
       g \in {item[i].gen, item[i].gen + 1} \cap Gens :
        SetIssueStatus(i, [status |-> s, alloc |-> a, gen |-> g, lease |-> l, units |-> u],
                       "ordinary", "ACTIVE")

\* finalize-ready: a zero-WIP PREPARED item becomes READY.
FinalizeReady(i) ==
    /\ item[i].status = "PREPARED" /\ ~Reserved(item[i])
    /\ SetIssueStatus(i, [item[i] EXCEPT !.status = "READY", !.lease = NoLease], "ready", "ACTIVE")

\* activate_admission: READY -> ACTIVE with allocation, lease and watch.
Admit(i) ==
    /\ item[i].status = "READY"
    /\ \E u \in Demands, l \in Leases :
          SetIssueStatus(i, [item[i] EXCEPT !.status = "ACTIVE", !.alloc = "ACTIVE",
                                            !.lease = l, !.units = u],
                         "admission", "PENDING_CLAIM")

\* claim_message of the admission: the watch starts.
Claim(i) ==
    LET g == item[i].gen
    IN  /\ item[i].status \in {"ACTIVE", "ACTIVE_FENCED", "PUBLICATION_PENDING"}
        /\ Reserved(item[i])
        /\ watch[i][g].state = "PENDING_CLAIM"
        /\ watch[i][g].lease = item[i].lease
        /\ watch' = [watch EXCEPT ![i][g].state = "ACTIVE"]
        /\ UNCHANGED <<item, limit, op>>

\* hold_prepared_message, by the planner or on an exhausted retry budget: the
\* unclaimed work keeps its units and its lease.
HoldUnclaimed(i, exhausted) ==
    LET g == item[i].gen
    IN  /\ item[i].status \in {"ACTIVE", "ACTIVE_FENCED", "MONITOR"}
        /\ item[i].alloc = "ACTIVE"
        /\ watch[i][g].state = "PENDING_CLAIM"
        /\ watch' = [watch EXCEPT ![i][g] = [@ EXCEPT !.state = "HOLD", !.exhausted = exhausted]]
        /\ item' = [item EXCEPT ![i] = [@ EXCEPT !.status = "HOLD", !.alloc = "RETAINED"]]
        /\ UNCHANGED <<limit, op>>

\* _reserve_terminal_watch, _hold_terminal_watch, and the dispositions of a launch
\* that nobody acknowledged: the supervisor stops following the work.
HoldWatch(i, g) ==
    /\ watch[i][g].state = "ACTIVE"
    /\ \E s \in IF Runs(item[i]) THEN {"HOLD"} ELSE {"HOLD", "COMPLETE"} :
          watch' = [watch EXCEPT ![i][g].state = s]
    /\ UNCHANGED <<item, limit, op>>

\* apply_*_admission_rearm: a proven benign drift restores the watch.
Rearm(i) ==
    LET g == item[i].gen
    IN  /\ item[i].status \in {"ACTIVE", "ACTIVE_FENCED", "MONITOR"}
        /\ item[i].alloc = "ACTIVE"
        /\ watch[i][g].state = "HOLD" /\ watch[i][g].lease = item[i].lease
        /\ watch' = [watch EXCEPT ![i][g].state = "ACTIVE"]
        /\ UNCHANGED <<item, limit, op>>

\* prepare_terminal_closeout.
Prepare(i) ==
    /\ item[i].status \in {"ACTIVE", "ACTIVE_FENCED", "MONITOR"}
    /\ item[i].alloc = "ACTIVE"
    /\ watch[i][item[i].gen].state = "ACTIVE"
    /\ SetIssueStatus(i, [item[i] EXCEPT !.status = "PUBLICATION_PENDING"], "terminal", "ACTIVE")

\* commit_terminal_closeout: item, lease, units and watch in one transaction.
Commit(i) ==
    LET g == item[i].gen
    IN  /\ item[i].status = "PUBLICATION_PENDING" /\ item[i].alloc = "ACTIVE"
        /\ watch[i][g].state = "ACTIVE" /\ watch[i][g].lease = item[i].lease
        /\ item' = [item EXCEPT ![i] = [@ EXCEPT !.status = "DONE", !.alloc = "NONE",
                                                 !.lease = NoLease, !.units = Zero]]
        /\ watch' = [watch EXCEPT ![i][g].state = "COMPLETE"]
        /\ UNCHANGED <<limit, op>>

\* Mutant: the parked row gets a status the table does not have.
ParkUnknownStatus(i) ==
    /\ item[i].status \in {"ACTIVE", "ACTIVE_FENCED"} /\ item[i].alloc = "ACTIVE"
    /\ watch[i][item[i].gen].state = "ACTIVE"
    /\ item' = [item EXCEPT ![i].status = "PARKED"]
    /\ UNCHANGED <<watch, limit, op>>

\* commit_claimed_no_delivery_park: the lineage ends without a delivery.
Park(i) ==
    /\ item[i].status \in {"ACTIVE", "ACTIVE_FENCED"} /\ item[i].alloc = "ACTIVE"
    /\ watch[i][item[i].gen].state = "ACTIVE"
    /\ item[i].gen < MaxGen
    /\ SetIssueStatus(i, [item[i] EXCEPT !.status = "PREPARED", !.alloc = "NONE",
                                         !.gen = @ + 1, !.lease = NoLease], "park", "ACTIVE")

\* Mutant: recovery forgets the writer mutex and reopens any watch.
RecoverableAny(i) == item[i].status = "HOLD" /\ Reserved(item[i])

Recoverable(i) ==
    /\ item[i].status = "HOLD" /\ Reserved(item[i]) /\ item[i].lease # NoLease
    /\ Harness => Holders \subseteq {i}
    /\ LET w == watch[i][item[i].gen]
       IN  \/ w.state = "ABSENT" /\ ~Harness         \* HARNESS_RECOVERY_PROVENANCE_MISSING
           \/ w.state = "COMPLETE" /\ w.lease = item[i].lease

\* activate_recovery: the retained work is fenced and followed again.
Recover(i) ==
    LET g == item[i].gen
    IN  /\ Recoverable(i)
        /\ item' = [item EXCEPT ![i].status = "ACTIVE_FENCED", ![i].alloc = "ACTIVE"]
        /\ watch' = [watch EXCEPT ![i][g] = [state |-> "ACTIVE", lease |-> item[i].lease,
                                             exhausted |-> FALSE]]
        /\ UNCHANGED <<limit, op>>

\* recover_unclaimed_admission: work nobody claimed returns to planning.
RecoverUnclaimed(i) ==
    /\ item[i].status = "HOLD" /\ item[i].alloc = "RETAINED" /\ item[i].gen < MaxGen
    /\ watch[i][item[i].gen].state = "HOLD" /\ watch[i][item[i].gen].exhausted
    /\ watch[i][item[i].gen].lease = item[i].lease
    /\ item' = [item EXCEPT ![i] = [item[i] EXCEPT !.status = "PREPARED", !.alloc = "NONE",
                                                   !.gen = item[i].gen + 1, !.lease = NoLease]]
    /\ UNCHANGED <<watch, limit, op>>

PolicyOk(new) == \A p \in Pools : Occupied(Holders, p) <= new[p]

\* set_capacity_policy.
SetCapacityPolicy ==
    \E new \in Policies \ {limit} :
        /\ PolicyOk(new)
        /\ limit' = new
        /\ UNCHANGED <<item, watch, op>>

-----------------------------------------------------------------------------
(* hosted_operation_control.                                               *)

\* Mutant: the units of delivery items are left out of the sum.
HostedFitsAlone == Cardinality(HostedHolders) + 1 <= limit[Sre]

\* _reserved_sre against _sre_limit: items and hosted operations together.
HostedFits == Occupied(Holders, Sre) + 1 <= limit[Sre]

BlockerTerminal(o) == item[Blocker[o]].status = "DONE" /\ item[Blocker[o]].alloc = "NONE"

\* prepare: WAITING behind its blocker, else PREPARED with its unit reserved.
PrepareOperation(o) ==
    /\ op[o] = "ABSENT"
    /\ IF BlockerTerminal(o) THEN HostedFits /\ op' = [op EXCEPT ![o] = "PREPARED"]
       ELSE op' = [op EXCEPT ![o] = "WAITING"]
    /\ UNCHANGED <<item, watch, limit>>

\* refresh_waiting.
PromoteOperation(o) ==
    /\ op[o] = "WAITING" /\ BlockerTerminal(o) /\ HostedFits
    /\ op' = [op EXCEPT ![o] = "PREPARED"]
    /\ UNCHANGED <<item, watch, limit>>

\* claim: its local guards are evaluated again; a failing one holds it.
ClaimOperation(o) ==
    /\ op[o] = "PREPARED"
    /\ op' = [op EXCEPT ![o] = IF BlockerTerminal(o) /\ Occupied(Holders, Sre) <= limit[Sre]
                               THEN "CLAIMED" ELSE "HOLD"]
    /\ UNCHANGED <<item, watch, limit>>

\* complete, on the receipt's outcome, and hold, on evidence that went stale.
EndOperation(o) ==
    /\ \/ op[o] = "CLAIMED" /\ \E s \in {"COMPLETE", "HOLD"} : op' = [op EXCEPT ![o] = s]
       \/ op[o] \in {"WAITING", "PREPARED"} /\ op' = [op EXCEPT ![o] = "HOLD"]
    /\ UNCHANGED <<item, watch, limit>>

ItemStep(i) ==
    \/ Plan(i) \/ FinalizeReady(i) \/ Admit(i) \/ Claim(i)
    \/ HoldUnclaimed(i, TRUE) \/ HoldUnclaimed(i, FALSE)
    \/ (\E g \in Gens : HoldWatch(i, g)) \/ Rearm(i)
    \/ Prepare(i) \/ Commit(i) \/ Park(i) \/ Recover(i) \/ RecoverUnclaimed(i)

Next ==
    \/ \E i \in Issues : ItemStep(i)
    \/ SetCapacityPolicy
    \/ \E o \in Ops : \/ PrepareOperation(o) \/ PromoteOperation(o)
                      \/ ClaimOperation(o) \/ EndOperation(o)

Spec == Init /\ [][Next]_vars

-----------------------------------------------------------------------------
TypeOK ==
    /\ item \in [Issues -> Rows]
    /\ watch \in [Issues -> [Gens -> Watches]]
    /\ limit \in [Pools -> Nat]
    /\ op \in [Ops -> OpStates]

\* No pool is ever overcommitted: the units of ACTIVE and RETAINED items plus the
\* hosted operations' SRE units stay within the current policy, whichever of the
\* two tables is written, and across policy changes.
WithinCapacity == \A p \in Pools : Occupied(Holders, p) <= limit[p]

\* Two reserved items never work under one lease manifest.
LeaseExclusive ==
    \A i, j \in Holders : item[i].lease = item[j].lease /\ item[i].lease # NoLease => i = j

\* "Every ACTIVE or PUBLICATION_PENDING lineage has one exact-generation terminal
\* watch" (control-plane.md): it exists, for its lease, and is not closed.
WatchedExecution ==
    \A i \in Issues :
        Runs(item[i]) =>
            /\ watch[i][item[i].gen].state \in {"PENDING_CLAIM", "ACTIVE", "HOLD"}
            /\ watch[i][item[i].gen].lease = item[i].lease

\* And a watch that wakes executors always follows current work: no released,
\* held or superseded generation is ever woken.
ActiveWatchIsCurrent ==
    \A i \in Issues, g \in Gens :
        watch[i][g].state = "ACTIVE" => Runs(item[i]) /\ item[i].gen = g

\* The harness repository has one writer, retained work included.
OneHarnessWriter == Harness => \A i, j \in Holders : i = j

\* Capacity is given back only by a published closeout, by a park of claimed work,
\* or by the recovery of work nobody claimed; the watch that followed the work is
\* closed by the first two and was already on HOLD for the third.
ReleaseIsAccounted ==
    [][\A i \in Issues :
         Reserved(item[i]) /\ ~Reserved(item'[i]) =>
            LET g == item[i].gen
            IN  \/ /\ item[i].status = "PUBLICATION_PENDING" /\ item'[i].status = "DONE"
                   /\ watch[i][g].state = "ACTIVE" /\ watch'[i][g].state = "COMPLETE"
                \/ /\ item'[i].status = "PREPARED" /\ item'[i].gen = g + 1
                   /\ \/ watch[i][g].state = "ACTIVE" /\ watch'[i][g].state = "COMPLETE"
                      \/ watch[i][g].state = "HOLD"]_vars

\* Within a generation a held item runs again only by the recovery of a retained
\* lineage whose watch was closed, and nothing leaves DONE.
HeldStaysHeld ==
    [][\A i \in Issues :
         item'[i].gen = item[i].gen =>
            /\ item[i].status = "DONE" => item'[i].status = "DONE"
            /\ item[i].status = "HOLD" /\ item'[i].status # "HOLD" =>
                  /\ item'[i].status = "ACTIVE_FENCED"
                  /\ watch[i][item[i].gen].state \in {"ABSENT", "COMPLETE"}]_vars

\* A watch and the work it follows agree in both directions (_set_issue_status_locked
\* and the recovery of watches write them together).
WatchesFollowWork == WatchedExecution /\ ActiveWatchIsCurrent

\* An item lets go of capacity, and takes up held work again, only on the paths made
\* for it, however planner, supervisor and owner interleave.
LifecycleKept == ReleaseIsAccounted /\ HeldStaysHeld
=============================================================================
