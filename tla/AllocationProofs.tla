-------------------------- MODULE AllocationProofs --------------------------
(***************************************************************************)
(* Proofs about Allocation for every set of issues, pools, leases, demands *)
(* and policies, any number of hosted operations and generations.          *)
(***************************************************************************)
EXTENDS MCAllocation, FiniteSetTheorems, TLAPS

\* No watch is ahead of its item.
WatchBounds ==
    \A i \in Issues, g \in Gens : watch[i][g].state # "ABSENT" => g <= item[i].gen

\* A watch of the current generation that waits for its claim belongs to work that
\* runs: closing the item closes it.  (One of an earlier generation may survive.)
PendingIsRunning ==
    \A i \in Issues : watch[i][item[i].gen].state = "PENDING_CLAIM" => Runs(item[i])

WatchInv == TypeOK /\ WatchBounds /\ PendingIsRunning /\ WatchedExecution /\ ActiveWatchIsCurrent

-----------------------------------------------------------------------------
LEMMA StatusesAre ==
    Statuses = {"ABSENT", "BACKLOG", "PREPARED", "QUEUED", "READY", "ACTIVE",
                "ACTIVE_FENCED", "MONITOR", "PUBLICATION_PENDING", "HOLD", "DONE"}
BY DEF Statuses, StatusRank

LEMMA ZeroType == Zero \in [Pools -> Nat]
BY DEF Zero

LEMMA NoWatchType == NoWatch \in Watches
BY DEF NoWatch, Watches, WatchStates

LEMMA NoRowType == NoRow \in Rows
BY StatusesAre, ZeroType, GenAssumption DEF NoRow, Rows, Classes, Gens

LEMMA InitType == Init => TypeOK
BY NoRowType, NoWatchType, VectorsAssumption DEF Init, TypeOK, OpStates

\* A call that writes the row of one issue and its watches keeps the types.
LEMMA TypeFrame ==
    ASSUME TypeOK, NEW i \in Issues, NEW r \in Rows, NEW w \in [Gens -> Watches],
           item' = [item EXCEPT ![i] = r], watch' = [watch EXCEPT ![i] = w],
           UNCHANGED <<limit, op>>
    PROVE  TypeOK'
BY DEF TypeOK

LEMMA WatchesAfterType ==
    ASSUME TypeOK, NEW i \in Issues, NEW r \in Rows, NEW o \in {"ACTIVE", "PENDING_CLAIM"}
    PROVE  WatchesAfter(i, r, o) \in [Gens -> Watches]
<1>. SUFFICES ASSUME NEW g \in Gens PROVE WatchesAfter(i, r, o)[g] \in Watches
  BY DEF WatchesAfter
<1>1. watch[i][g] \in Watches
  BY DEF TypeOK
<1>2. r.lease \in Leases \cup {NoLease}
  BY DEF Rows
<1>. QED BY <1>1, <1>2 DEF WatchesAfter, Watches, WatchStates

LEMMA SetIssueStatusType ==
    ASSUME TypeOK, NEW i \in Issues, NEW r \in Rows, NEW gw,
           NEW o \in {"ACTIVE", "PENDING_CLAIM"}, SetIssueStatus(i, r, gw, o)
    PROVE  TypeOK'
<1>1. WatchesAfter(i, r, o) \in [Gens -> Watches]
  BY WatchesAfterType
<1>. QED BY <1>1, TypeFrame DEF SetIssueStatus

\* Every step on a row is one of the four shapes below; the invariants are proved
\* shape by shape.  Called: a permitted call of _set_issue_status_locked.
Called(i, r, gw, o) ==
    /\ i \in Issues /\ r \in Rows /\ gw \in {"ordinary", "ready", "admission", "terminal", "park"}
    /\ o \in {"ACTIVE", "PENDING_CLAIM"}
    /\ SetIssueStatus(i, r, gw, o)

\* The steps of Next that write a row through _set_issue_status_locked.
LEMMA CalledSteps ==
    ASSUME TypeOK, NEW i \in Issues,
           Plan(i) \/ FinalizeReady(i) \/ Admit(i) \/ Prepare(i) \/ Park(i)
    PROVE  \E r, gw, o : Called(i, r, gw, o)
<1>0. item[i] \in Rows
  BY DEF TypeOK
<1>1. CASE Plan(i)
  <2>1. PICK s \in Planned, a \in Classes, u \in Demands, l \in Leases \cup {NoLease},
             g \in {item[i].gen, item[i].gen + 1} \cap Gens :
        SetIssueStatus(i, [status |-> s, alloc |-> a, gen |-> g, lease |-> l, units |-> u],
                       "ordinary", "ACTIVE")
    BY <1>1 DEF Plan
  <2>2. [status |-> s, alloc |-> a, gen |-> g, lease |-> l, units |-> u] \in Rows
    BY <2>1, PlannedAssumption, VectorsAssumption DEF Rows
  <2>. QED BY <2>1, <2>2 DEF Called
<1>2. CASE FinalizeReady(i)
  <2>1. [item[i] EXCEPT !.status = "READY", !.lease = NoLease] \in Rows
    BY <1>0, StatusesAre DEF Rows
  <2>. QED BY <2>1, <1>2 DEF FinalizeReady, Called
<1>3. CASE Admit(i)
  <2>1. PICK u \in Demands, l \in Leases :
        SetIssueStatus(i, [item[i] EXCEPT !.status = "ACTIVE", !.alloc = "ACTIVE",
                                          !.lease = l, !.units = u],
                       "admission", "PENDING_CLAIM")
    BY <1>3 DEF Admit
  <2>2. [item[i] EXCEPT !.status = "ACTIVE", !.alloc = "ACTIVE", !.lease = l, !.units = u] \in Rows
    BY <1>0, StatusesAre, VectorsAssumption DEF Rows, Classes
  <2>. QED BY <2>1, <2>2 DEF Called
<1>4. CASE Prepare(i)
  <2>1. [item[i] EXCEPT !.status = "PUBLICATION_PENDING"] \in Rows
    BY <1>0, StatusesAre DEF Rows
  <2>. QED BY <2>1, <1>4 DEF Prepare, Called
<1>5. CASE Park(i)
  <2>0. item[i].gen + 1 \in Gens
    BY <1>0, <1>5, GenAssumption DEF Park, Rows, Gens
  <2>1. [item[i] EXCEPT !.status = "PREPARED", !.alloc = "NONE", !.gen = @ + 1,
                        !.lease = NoLease] \in Rows
    BY <1>0, <2>0, StatusesAre DEF Rows, Classes
  <2>. QED BY <2>1, <1>5 DEF Park, Called
<1>. QED BY <1>1, <1>2, <1>3, <1>4, <1>5

\* The steps that only move a watch of an issue.
LEMMA WatchSteps ==
    ASSUME TypeOK, NEW i \in Issues,
           Claim(i) \/ Rearm(i) \/ \E g \in Gens : HoldWatch(i, g)
    PROVE  /\ UNCHANGED <<item, limit, op>>
           /\ \E g \in Gens, s \in WatchStates : watch' = [watch EXCEPT ![i][g].state = s]
<1>0. item[i].gen \in Gens
  BY DEF TypeOK, Rows
<1>1. CASE Claim(i)
  BY <1>0, <1>1 DEF Claim, WatchStates
<1>2. CASE Rearm(i)
  BY <1>0, <1>2 DEF Rearm, WatchStates
<1>3. ASSUME NEW g \in Gens, HoldWatch(i, g)
      PROVE  /\ UNCHANGED <<item, limit, op>>
             /\ \E h \in Gens, s \in WatchStates : watch' = [watch EXCEPT ![i][h].state = s]
  BY <1>3 DEF HoldWatch, WatchStates
<1>. QED BY <1>1, <1>2, <1>3

LEMMA NextType == TypeOK /\ [Next]_vars => TypeOK'
<1>. SUFFICES ASSUME TypeOK, [Next]_vars PROVE TypeOK'
  OBVIOUS
<1>1. ASSUME NEW i \in Issues, ItemStep(i) PROVE TypeOK'
  <2>0. item[i] \in Rows /\ item[i].gen \in Gens /\ watch[i] \in [Gens -> Watches]
    BY DEF TypeOK, Rows
  <2>1. CASE Plan(i) \/ FinalizeReady(i) \/ Admit(i) \/ Prepare(i) \/ Park(i)
    BY <2>1, CalledSteps, SetIssueStatusType DEF Called
  <2>2. CASE Claim(i) \/ Rearm(i) \/ \E g \in Gens : HoldWatch(i, g)
    <3>1. PICK g \in Gens, s \in WatchStates : watch' = [watch EXCEPT ![i][g].state = s]
      BY <2>2, WatchSteps
    <3>2. [watch[i][g] EXCEPT !.state = s] \in Watches
      BY <2>0 DEF Watches
    <3>3. watch' \in [Issues -> [Gens -> Watches]]
      BY <2>0, <3>1, <3>2 DEF TypeOK
    <3>. QED BY <2>2, <3>3, WatchSteps DEF TypeOK
  <2>3. ASSUME NEW e \in BOOLEAN, HoldUnclaimed(i, e) PROVE TypeOK'
    <3>1. [item[i] EXCEPT !.status = "HOLD", !.alloc = "RETAINED"] \in Rows
      BY <2>0, StatusesAre DEF Rows, Classes
    <3>2. [watch[i] EXCEPT ![item[i].gen] = [@ EXCEPT !.state = "HOLD", !.exhausted = e]]
            \in [Gens -> Watches]
      BY <2>0 DEF Watches, WatchStates
    <3>. QED BY <2>3, <3>1, <3>2 DEF HoldUnclaimed, TypeOK
  <2>4. CASE Commit(i)
    <3>1. [item[i] EXCEPT !.status = "DONE", !.alloc = "NONE", !.lease = NoLease,
                          !.units = Zero] \in Rows
      BY <2>0, StatusesAre, ZeroType DEF Rows, Classes
    <3>. QED BY <2>0, <2>4, <3>1 DEF Commit, TypeOK, Watches, WatchStates
  <2>5. CASE Recover(i)
    <3>1. [item[i] EXCEPT !.status = "ACTIVE_FENCED", !.alloc = "ACTIVE"] \in Rows
      BY <2>0, StatusesAre DEF Rows, Classes
    <3>2. [state |-> "ACTIVE", lease |-> item[i].lease, exhausted |-> FALSE] \in Watches
      BY <2>0 DEF Rows, Watches, WatchStates
    <3>. QED BY <2>0, <2>5, <3>1, <3>2 DEF Recover, TypeOK
  <2>6. CASE RecoverUnclaimed(i)
    <3>1. item[i].gen + 1 \in Gens
      BY <2>0, <2>6, GenAssumption DEF RecoverUnclaimed, Gens
    <3>. DEFINE r == [item[i] EXCEPT !.status = "PREPARED", !.alloc = "NONE",
                                     !.gen = item[i].gen + 1, !.lease = NoLease]
    <3>2. r \in Rows
      BY <2>0, <3>1, StatusesAre DEF Rows, Classes
    <3>3. item' = [item EXCEPT ![i] = r] /\ UNCHANGED <<watch, limit, op>>
      BY <2>6 DEF RecoverUnclaimed, TypeOK
    <3>. QED BY <3>2, <3>3 DEF TypeOK
  <2>. QED BY <1>1, <2>1, <2>2, <2>3, <2>4, <2>5, <2>6 DEF ItemStep
<1>2. CASE SetCapacityPolicy
  BY <1>2, VectorsAssumption DEF SetCapacityPolicy, TypeOK
<1>3. ASSUME NEW o \in Ops,
             PrepareOperation(o) \/ PromoteOperation(o) \/ ClaimOperation(o) \/ EndOperation(o)
      PROVE  TypeOK'
  BY <1>3 DEF PrepareOperation, PromoteOperation, ClaimOperation, EndOperation, TypeOK, OpStates
<1>4. CASE UNCHANGED vars
  BY <1>4 DEF vars, TypeOK
<1>. QED BY <1>1, <1>2, <1>3, <1>4 DEF Next

\* Every reachable state of the coordination items, watches, policy and hosted
\* operations has its type.
THEOREM TypeCorrect == Spec => []TypeOK
<1>. QED BY InitType, NextType, PTL DEF Spec

-----------------------------------------------------------------------------
\* What the watches of one issue owe to its row.
IssueInv(r, w) ==
    /\ \A g \in Gens : w[g].state # "ABSENT" => g <= r.gen
    /\ w[r.gen].state = "PENDING_CLAIM" => Runs(r)
    /\ Runs(r) => w[r.gen].state \in {"PENDING_CLAIM", "ACTIVE", "HOLD"} /\ w[r.gen].lease = r.lease
    /\ \A g \in Gens : w[g].state = "ACTIVE" => Runs(r) /\ r.gen = g

LEMMA WatchInvPerIssue ==
    WatchInv <=> TypeOK /\ \A i \in Issues : IssueInv(item[i], watch[i])
BY DEF WatchInv, WatchBounds, PendingIsRunning, WatchedExecution, ActiveWatchIsCurrent, IssueInv

\* A step that writes one issue keeps the invariant if it does so for that issue.
LEMMA WatchFrame ==
    ASSUME WatchInv, TypeOK', NEW i \in Issues, NEW r, NEW w, IssueInv(r, w),
           item' = [item EXCEPT ![i] = r], watch' = [watch EXCEPT ![i] = w]
    PROVE  WatchInv'
<1>1. ASSUME NEW j \in Issues PROVE IssueInv(item'[j], watch'[j])
  <2>1. CASE j = i
    BY <2>1 DEF WatchInv, TypeOK
  <2>2. CASE j # i
    BY <2>2, WatchInvPerIssue DEF WatchInv, TypeOK
  <2>. QED BY <2>1, <2>2
<1>2. \A j \in Issues : IssueInv(item'[j], watch'[j])
  BY <1>1
<1>. QED BY <1>2 DEF WatchInv, WatchBounds, PendingIsRunning, WatchedExecution,
                     ActiveWatchIsCurrent, IssueInv

\* After a permitted call the open watches are those of the new row.
LEMMA CalledWatches ==
    ASSUME WatchInv, NEW i \in Issues, NEW r, NEW gw, NEW o, Called(i, r, gw, o)
    PROVE  IssueInv(r, WatchesAfter(i, r, o))
<1>. DEFINE w == WatchesAfter(i, r, o)
<1>0. /\ item[i] \in Rows /\ watch[i] \in [Gens -> Watches] /\ r \in Rows
      /\ item[i].gen \in Nat /\ r.gen \in Nat /\ r.gen \in Gens /\ Gens \subseteq Nat
      /\ o \in {"ACTIVE", "PENDING_CLAIM"}
  BY GenAssumption DEF WatchInv, TypeOK, Rows, Gens, Called
<1>1. IssueInv(item[i], watch[i])
  BY WatchInvPerIssue
<1>2. r.gen >= item[i].gen /\ LineageOk(i, r)
  BY DEF Called, SetIssueStatus, Permitted, OrderOk
<1>3. CASE Runs(r)
  <2>1. ASSUME NEW g \in Gens
        PROVE  \/ /\ g = r.gen /\ watch[i][g].state = "ABSENT"
                  /\ w[g].state = o /\ w[g].lease = r.lease
               \/ /\ g < r.gen /\ watch[i][g].state = "ACTIVE"
                  /\ w[g].state = "COMPLETE"
               \/ /\ ~(g = r.gen /\ watch[i][g].state = "ABSENT")
                  /\ ~(g < r.gen /\ item[i].gen < r.gen /\ watch[i][g].state = "ACTIVE")
                  /\ w[g] = watch[i][g]
    <3>1. watch[i][g] \in Watches
      BY <1>0
    <3>. QED BY <1>3, <3>1 DEF WatchesAfter, Watches
  <2>2. \A g \in Gens : w[g].state # "ABSENT" => g <= r.gen
    BY <1>0, <1>1, <1>2, <2>1 DEF IssueInv
  <2>3. w[r.gen].state \in {"PENDING_CLAIM", "ACTIVE", "HOLD"} /\ w[r.gen].lease = r.lease
    BY <1>0, <1>2, <1>3, <2>1 DEF LineageOk
  <2>4. \A g \in Gens : w[g].state = "ACTIVE" => r.gen = g
    BY <1>0, <1>1, <1>2, <2>1 DEF IssueInv
  <2>. QED BY <1>0, <1>3, <2>2, <2>3, <2>4 DEF IssueInv
<1>4. CASE ~Runs(r)
  <2>1. ASSUME NEW g \in Gens
        PROVE  /\ w[g].state \notin {"PENDING_CLAIM", "ACTIVE"}
               /\ w[g].state # "ABSENT" => watch[i][g].state # "ABSENT"
    <3>1. watch[i][g] \in Watches
      BY <1>0
    <3>. QED BY <1>4, <3>1 DEF WatchesAfter, Watches
  <2>2. \A g \in Gens : w[g].state # "ABSENT" => g <= r.gen
    BY <1>0, <1>1, <1>2, <2>1 DEF IssueInv
  <2>. QED BY <1>0, <1>4, <2>1, <2>2 DEF IssueInv
<1>. QED BY <1>3, <1>4

LEMMA InitWatches == Init => WatchInv
<1>. SUFFICES ASSUME Init PROVE WatchInv
  OBVIOUS
<1>1. TypeOK
  BY InitType
<1>2. \A i \in Issues : item[i] = NoRow /\ watch[i] = [g \in Gens |-> NoWatch]
  BY DEF Init
<1>3. NoRow.gen \in Gens /\ ~Runs(NoRow)
  BY GenAssumption DEF NoRow, Gens, Runs
<1>4. IssueInv(NoRow, [g \in Gens |-> NoWatch])
  BY <1>3 DEF IssueInv, NoWatch
<1>. QED BY <1>1, <1>2, <1>4, WatchInvPerIssue

LEMMA NextWatches == WatchInv /\ [Next]_vars => WatchInv'
<1>. SUFFICES ASSUME WatchInv, [Next]_vars PROVE WatchInv'
  OBVIOUS
<1>0. TypeOK /\ TypeOK'
  BY NextType DEF WatchInv
<1>1. ASSUME NEW i \in Issues, ItemStep(i) PROVE WatchInv'
  <2>. DEFINE g == item[i].gen
  <2>0. /\ item[i] \in Rows /\ g \in Gens /\ watch[i] \in [Gens -> Watches]
        /\ \A h \in Gens : h \in Nat /\ watch[i][h] \in Watches
    BY <1>0, GenAssumption DEF TypeOK, Rows, Gens
  <2>00. IssueInv(item[i], watch[i])
    BY WatchInvPerIssue
  <2>1. CASE Plan(i) \/ FinalizeReady(i) \/ Admit(i) \/ Prepare(i) \/ Park(i)
    <3>1. PICK r, gw, o : Called(i, r, gw, o)
      BY <1>0, <2>1, CalledSteps
    <3>2. IssueInv(r, WatchesAfter(i, r, o))
      BY <3>1, CalledWatches
    <3>. QED BY <1>0, <3>1, <3>2, WatchFrame DEF Called, SetIssueStatus
  <2>2. CASE Claim(i) \/ Rearm(i)
    <3>. DEFINE w == [watch[i] EXCEPT ![g].state = "ACTIVE"]
    <3>1. /\ item' = [item EXCEPT ![i] = item[i]] /\ watch' = [watch EXCEPT ![i] = w]
          /\ watch[i][g].state \in {"PENDING_CLAIM", "HOLD"} /\ Runs(item[i])
      BY <1>0, <2>00, <2>2 DEF Claim, Rearm, TypeOK, IssueInv, Runs, Executing
    <3>2. w[g].state = "ACTIVE" /\ w[g].lease = watch[i][g].lease
      BY <2>0 DEF Watches
    <3>3. \A h \in Gens : h # g => w[h] = watch[i][h]
      BY <2>0
    <3>4. IssueInv(item[i], w)
      BY <2>0, <2>00, <3>1, <3>2, <3>3 DEF IssueInv
    <3>. QED BY <1>0, <3>1, <3>4, WatchFrame
  <2>3. ASSUME NEW h \in Gens, HoldWatch(i, h) PROVE WatchInv'
    <3>1. g = h /\ Runs(item[i]) /\ watch[i][h].state = "ACTIVE"
      BY <2>00, <2>3 DEF IssueInv, HoldWatch
    <3>. DEFINE w == [watch[i] EXCEPT ![g].state = "HOLD"]
    <3>2. item' = [item EXCEPT ![i] = item[i]] /\ watch' = [watch EXCEPT ![i] = w]
      BY <1>0, <2>3, <3>1 DEF HoldWatch, TypeOK
    <3>3. w[g].state = "HOLD" /\ w[g].lease = watch[i][g].lease
      BY <2>0 DEF Watches
    <3>4. \A k \in Gens : k # g => w[k] = watch[i][k]
      BY <2>0
    <3>5. IssueInv(item[i], w)
      BY <2>0, <2>00, <3>1, <3>3, <3>4 DEF IssueInv
    <3>. QED BY <1>0, <3>2, <3>5, WatchFrame
  <2>4. ASSUME NEW e \in BOOLEAN, HoldUnclaimed(i, e) PROVE WatchInv'
    <3>. DEFINE w == [watch[i] EXCEPT ![g] = [@ EXCEPT !.state = "HOLD", !.exhausted = e]]
                r == [item[i] EXCEPT !.status = "HOLD", !.alloc = "RETAINED"]
    <3>1. /\ item' = [item EXCEPT ![i] = r] /\ watch' = [watch EXCEPT ![i] = w]
          /\ watch[i][g].state = "PENDING_CLAIM"
      BY <1>0, <2>0, <2>4 DEF HoldUnclaimed, TypeOK
    <3>2. w[g].state = "HOLD" /\ \A h \in Gens : h # g => w[h] = watch[i][h]
      BY <2>0 DEF Watches
    <3>3. r.gen = g /\ ~Runs(r)
      BY <2>0 DEF Rows, Runs
    <3>4. IssueInv(r, w)
      BY <2>0, <2>00, <3>1, <3>2, <3>3 DEF IssueInv
    <3>. QED BY <1>0, <3>1, <3>4, WatchFrame
  <2>5. CASE Commit(i)
    <3>. DEFINE w == [watch[i] EXCEPT ![g].state = "COMPLETE"]
                r == [item[i] EXCEPT !.status = "DONE", !.alloc = "NONE",
                                     !.lease = NoLease, !.units = Zero]
    <3>1. /\ item' = [item EXCEPT ![i] = r] /\ watch' = [watch EXCEPT ![i] = w]
          /\ watch[i][g].state = "ACTIVE"
      BY <1>0, <2>0, <2>5 DEF Commit, TypeOK
    <3>2. w[g].state = "COMPLETE" /\ \A h \in Gens : h # g => w[h] = watch[i][h]
      BY <2>0 DEF Watches
    <3>3. r.gen = g /\ ~Runs(r)
      BY <2>0 DEF Rows, Runs
    <3>4. IssueInv(r, w)
      BY <2>0, <2>00, <3>1, <3>2, <3>3 DEF IssueInv
    <3>. QED BY <1>0, <3>1, <3>4, WatchFrame
  <2>6. CASE Recover(i)
    <3>. DEFINE w == [watch[i] EXCEPT ![g] = [state |-> "ACTIVE", lease |-> item[i].lease,
                                              exhausted |-> FALSE]]
                r == [item[i] EXCEPT !.status = "ACTIVE_FENCED", !.alloc = "ACTIVE"]
    <3>1. /\ item' = [item EXCEPT ![i] = r] /\ watch' = [watch EXCEPT ![i] = w]
          /\ ~Runs(item[i])
      BY <1>0, <2>0, <2>6 DEF Recover, Recoverable, TypeOK, Runs, Executing
    <3>2. /\ w[g].state = "ACTIVE" /\ w[g].lease = item[i].lease
          /\ \A h \in Gens : h # g => w[h] = watch[i][h]
      BY <2>0
    <3>3. r.gen = g /\ r.lease = item[i].lease /\ Runs(r)
      BY <2>0 DEF Rows, Runs, Executing
    <3>4. IssueInv(r, w)
      BY <2>0, <2>00, <3>1, <3>2, <3>3 DEF IssueInv
    <3>. QED BY <1>0, <3>1, <3>4, WatchFrame
  <2>7. CASE RecoverUnclaimed(i)
    <3>. DEFINE r == [item[i] EXCEPT !.status = "PREPARED", !.alloc = "NONE",
                                     !.gen = item[i].gen + 1, !.lease = NoLease]
    <3>1. /\ item' = [item EXCEPT ![i] = r] /\ watch' = [watch EXCEPT ![i] = watch[i]]
          /\ ~Runs(item[i]) /\ g + 1 \in Gens
      BY <1>0, <2>0, <2>7, GenAssumption DEF RecoverUnclaimed, TypeOK, Runs, Gens
    <3>2. r.gen = g + 1 /\ ~Runs(r)
      BY <2>0 DEF Rows, Runs
    <3>3. IssueInv(r, watch[i])
      BY <2>0, <2>00, <3>1, <3>2 DEF IssueInv
    <3>. QED BY <1>0, <3>1, <3>3, WatchFrame
  <2>. QED BY <1>1, <2>1, <2>2, <2>3, <2>4, <2>5, <2>6, <2>7 DEF ItemStep
<1>2. CASE UNCHANGED <<item, watch>>
  BY <1>0, <1>2 DEF WatchInv, WatchBounds, PendingIsRunning, WatchedExecution, ActiveWatchIsCurrent
<1>3. CASE SetCapacityPolicy
  BY <1>2, <1>3 DEF SetCapacityPolicy
<1>4. ASSUME NEW o \in Ops,
             PrepareOperation(o) \/ PromoteOperation(o) \/ ClaimOperation(o) \/ EndOperation(o)
      PROVE  UNCHANGED <<item, watch>>
  BY <1>4 DEF PrepareOperation, PromoteOperation, ClaimOperation, EndOperation
<1>. QED BY <1>1, <1>2, <1>3, <1>4 DEF Next, vars

\* A watch that may wake an executor always follows the current generation of work
\* that still runs, and running work always has a watch that is open for its lease.
THEOREM WatchesCorrect == Spec => []WatchesFollowWork
<1>1. WatchInv => WatchesFollowWork
  BY DEF WatchInv, WatchesFollowWork
<1>. QED BY <1>1, InitWatches, NextWatches, PTL DEF Spec

-----------------------------------------------------------------------------
\* A row written without a permitted call reserves nothing it did not hold.
Keeps(i, r) ==
    /\ item' = [item EXCEPT ![i] = r] /\ UNCHANGED <<limit, op>>
    /\ Reserved(r) => Reserved(item[i]) /\ r.lease = item[i].lease /\ r.units = item[i].units

LEMMA RowEffect ==
    ASSUME TypeOK, NEW i \in Issues, ItemStep(i)
    PROVE  (\E r, gw, o : Called(i, r, gw, o)) \/ (\E r : Keeps(i, r))
<1>0. item[i] \in Rows /\ item \in [Issues -> Rows]
  BY DEF TypeOK
<1>1. CASE Plan(i) \/ FinalizeReady(i) \/ Admit(i) \/ Prepare(i) \/ Park(i)
  BY <1>1, CalledSteps
<1>2. CASE Claim(i) \/ Rearm(i) \/ \E g \in Gens : HoldWatch(i, g)
  <2>1. Keeps(i, item[i])
    BY <1>0, <1>2, WatchSteps DEF Keeps
  <2>. QED BY <2>1
<1>3. ASSUME NEW e \in BOOLEAN, HoldUnclaimed(i, e) PROVE \E r : Keeps(i, r)
  <2>1. Keeps(i, [item[i] EXCEPT !.status = "HOLD", !.alloc = "RETAINED"])
    BY <1>0, <1>3 DEF HoldUnclaimed, Keeps, Reserved, Rows
  <2>. QED BY <2>1
<1>4. CASE Commit(i)
  <2>1. Keeps(i, [item[i] EXCEPT !.status = "DONE", !.alloc = "NONE", !.lease = NoLease,
                                 !.units = Zero])
    BY <1>0, <1>4 DEF Commit, Keeps, Reserved, Rows
  <2>. QED BY <2>1
<1>5. CASE Recover(i)
  <2>1. Keeps(i, [item[i] EXCEPT !.status = "ACTIVE_FENCED", !.alloc = "ACTIVE"])
    BY <1>0, <1>5 DEF Recover, Recoverable, Keeps, Reserved, Rows
  <2>. QED BY <2>1
<1>6. CASE RecoverUnclaimed(i)
  <2>1. Keeps(i, [item[i] EXCEPT !.status = "PREPARED", !.alloc = "NONE",
                                 !.gen = item[i].gen + 1, !.lease = NoLease])
    BY <1>0, <1>6 DEF RecoverUnclaimed, Keeps, Reserved, Rows
  <2>. QED BY <2>1
<1>. QED BY <1>1, <1>2, <1>3, <1>4, <1>5, <1>6 DEF ItemStep

\* Steps of the policy and of the hosted operations leave every row alone.
LEMMA OtherSteps ==
    ASSUME \/ SetCapacityPolicy
           \/ \E o \in Ops : \/ PrepareOperation(o) \/ PromoteOperation(o)
                             \/ ClaimOperation(o) \/ EndOperation(o)
           \/ UNCHANGED vars
    PROVE  UNCHANGED item
BY DEF SetCapacityPolicy, PrepareOperation, PromoteOperation, ClaimOperation, EndOperation, vars

LEMMA NextLease == TypeOK /\ LeaseExclusive /\ [Next]_vars => LeaseExclusive'
<1>. SUFFICES ASSUME TypeOK, LeaseExclusive, [Next]_vars PROVE LeaseExclusive'
  OBVIOUS
<1>1. ASSUME NEW i \in Issues, ItemStep(i) PROVE LeaseExclusive'
  <2>1. CASE \E r, gw, o : Called(i, r, gw, o)
    BY <2>1 DEF Called, SetIssueStatus, Permitted, LeaseOk, LeaseExclusive, Holders, TypeOK
  <2>2. CASE \E r : Keeps(i, r)
    BY <2>2 DEF Keeps, LeaseExclusive, Holders, TypeOK
  <2>. QED BY <1>1, <2>1, <2>2, RowEffect
<1>2. CASE UNCHANGED item
  BY <1>2 DEF LeaseExclusive, Holders
<1>. QED BY <1>1, <1>2, OtherSteps DEF Next

\* Two items that hold capacity never share a lease manifest.
THEOREM LeasesExclusive == Spec => []LeaseExclusive
<1>1. Init => LeaseExclusive
  BY DEF Init, LeaseExclusive, Holders, Reserved, NoRow
<1>. QED BY <1>1, NextLease, TypeCorrect, PTL DEF Spec

LEMMA NextWriter == TypeOK /\ OneHarnessWriter /\ [Next]_vars => OneHarnessWriter'
<1>. SUFFICES ASSUME TypeOK, OneHarnessWriter, [Next]_vars PROVE OneHarnessWriter'
  OBVIOUS
<1>1. ASSUME NEW i \in Issues, ItemStep(i) PROVE OneHarnessWriter'
  <2>1. CASE \E r, gw, o : Called(i, r, gw, o)
    BY <2>1 DEF Called, SetIssueStatus, Permitted, WriterOk, OneHarnessWriter, Holders, TypeOK
  <2>2. CASE \E r : Keeps(i, r)
    BY <2>2 DEF Keeps, OneHarnessWriter, Holders, TypeOK
  <2>. QED BY <1>1, <2>1, <2>2, RowEffect
<1>2. CASE UNCHANGED item
  BY <1>2 DEF OneHarnessWriter, Holders
<1>. QED BY <1>1, <1>2, OtherSteps DEF Next

\* The harness repository never has a second item that holds capacity.
THEOREM HarnessWriterExclusive == Spec => []OneHarnessWriter
<1>1. Init => OneHarnessWriter
  BY DEF Init, OneHarnessWriter, Holders, Reserved, NoRow
<1>. QED BY <1>1, NextWriter, TypeCorrect, PTL DEF Spec

\* The same of the harness repository next to the other instances, as the run has them,
\* from the shape of a row alone.
Shaped(row) == DOMAIN row = {"status", "alloc", "gen", "lease", "units"}

WriterInv ==
    which = "harness" =>
        /\ DOMAIN item = Issues
        /\ \A i \in Issues : Shaped(item[i])
        /\ Writer!OneHarnessWriter

\* What a step of the harness writes reserves nothing, keeps the reservation of its item,
\* or found no other.
Takes(i, r) ==
    /\ item' = [item EXCEPT ![i] = r] /\ Shaped(r)
    /\ Writer!Reserved(r) => Writer!Reserved(item[i]) \/ Writer!Holders \subseteq {i}

LEMMA WriterCalled ==
    ASSUME NEW i \in Issues, NEW r, NEW gw, NEW o, Writer!SetIssueStatus(i, r, gw, o), Shaped(r)
    PROVE  Takes(i, r)
BY DEF Writer!SetIssueStatus, Writer!Permitted, Writer!WriterOk, Takes

LEMMA WriterEffect ==
    ASSUME NEW i \in Issues, DOMAIN item = Issues, Shaped(item[i]), Writer!ItemStep(i)
    PROVE  (\E r : Takes(i, r)) \/ UNCHANGED item
<1>1. CASE Writer!Plan(i)
  <2>1. PICK r, gw, o : Writer!SetIssueStatus(i, r, gw, o) /\ Shaped(r)
    BY <1>1 DEF Writer!Plan, Shaped
  <2>. QED BY <2>1, WriterCalled
<1>2. CASE Writer!FinalizeReady(i) \/ Writer!Admit(i) \/ Writer!Prepare(i) \/ Writer!Park(i)
  <2>. DEFINE Ready == [item[i] EXCEPT !.status = "READY", !.lease = NoLease]
              Admitted(u, l) == [item[i] EXCEPT !.status = "ACTIVE", !.alloc = "ACTIVE",
                                                !.lease = l, !.units = u]
              Closing == [item[i] EXCEPT !.status = "PUBLICATION_PENDING"]
              Parked == [item[i] EXCEPT !.status = "PREPARED", !.alloc = "NONE",
                                        !.gen = @ + 1, !.lease = NoLease]
  <2>1. Shaped(Ready) /\ Shaped(Closing) /\ Shaped(Parked) /\ \A u, l : Shaped(Admitted(u, l))
    BY DEF Shaped
  <2>2. Writer!FinalizeReady(i) => Writer!SetIssueStatus(i, Ready, "ready", "ACTIVE")
    BY DEF Writer!FinalizeReady
  <2>3. Writer!Admit(i) =>
          \E u, l : Writer!SetIssueStatus(i, Admitted(u, l), "admission", "PENDING_CLAIM")
    BY DEF Writer!Admit
  <2>4. Writer!Prepare(i) => Writer!SetIssueStatus(i, Closing, "terminal", "ACTIVE")
    BY DEF Writer!Prepare
  <2>5. Writer!Park(i) => Writer!SetIssueStatus(i, Parked, "park", "ACTIVE")
    BY DEF Writer!Park
  <2>. HIDE DEF Ready, Admitted, Closing, Parked
  <2>. QED BY <1>2, <2>1, <2>2, <2>3, <2>4, <2>5, WriterCalled
<1>3. CASE Writer!Claim(i) \/ Writer!Rearm(i) \/ \E g \in Gens : Writer!HoldWatch(i, g)
  BY <1>3 DEF Writer!Claim, Writer!Rearm, Writer!HoldWatch
<1>4. ASSUME NEW e \in BOOLEAN, Writer!HoldUnclaimed(i, e) PROVE \E r : Takes(i, r)
  <2>1. Takes(i, [item[i] EXCEPT !.status = "HOLD", !.alloc = "RETAINED"])
    BY <1>4 DEF Writer!HoldUnclaimed, Takes, Shaped, Writer!Reserved
  <2>. QED BY <2>1
<1>5. CASE Writer!Commit(i)
  <2>1. Takes(i, [item[i] EXCEPT !.status = "DONE", !.alloc = "NONE", !.lease = NoLease,
                                 !.units = Zero])
    BY <1>5 DEF Writer!Commit, Takes, Shaped, Writer!Reserved, Zero, Writer!Zero
  <2>. QED BY <2>1
<1>6. CASE Writer!Recover(i)
  <2>1. Takes(i, [item[i] EXCEPT !.status = "ACTIVE_FENCED", !.alloc = "ACTIVE"])
    BY <1>6 DEF Writer!Recover, Writer!Recoverable, Takes, Shaped, Writer!Reserved
  <2>. QED BY <2>1
<1>7. CASE Writer!RecoverUnclaimed(i)
  <2>1. Takes(i, [item[i] EXCEPT !.status = "PREPARED", !.alloc = "NONE",
                                 !.gen = item[i].gen + 1, !.lease = NoLease])
    BY <1>7 DEF Writer!RecoverUnclaimed, Takes, Shaped, Writer!Reserved
  <2>. QED BY <2>1
<1>. QED BY <1>1, <1>2, <1>3, <1>4, <1>5, <1>6, <1>7 DEF Writer!ItemStep, Gens, Writer!Gens

LEMMA WriterKept == WriterInv /\ [AllocationNext]_allVars => WriterInv'
<1>. SUFFICES ASSUME WriterInv, [AllocationNext]_allVars, which' = "harness" PROVE WriterInv'
  BY DEF WriterInv
<1>1. ASSUME NEW i \in Issues, In("harness"), Writer!ItemStep(i) PROVE WriterInv'
  <2>0. which = "harness" /\ DOMAIN item = Issues /\ Shaped(item[i])
    BY <1>1 DEF In, WriterInv
  <2>1. ASSUME NEW r, Takes(i, r) PROVE WriterInv'
    <3>1. DOMAIN item' = Issues /\ \A j \in Issues : item'[j] = IF j = i THEN r ELSE item[j]
      BY <2>0, <2>1 DEF Takes
    <3>2. Writer!Holders' \subseteq Writer!Holders \cup {i}
      BY <3>1 DEF Writer!Holders
    <3>3. i \in Writer!Holders' => i \in Writer!Holders \/ Writer!Holders \subseteq {i}
      BY <2>1, <3>1 DEF Takes, Writer!Holders
    <3>4. Writer!OneHarnessWriter'
      BY <2>0, <3>2, <3>3 DEF WriterInv, Writer!OneHarnessWriter
    <3>5. \A j \in Issues : Shaped(item'[j])
      BY <2>0, <2>1, <3>1 DEF WriterInv, Takes
    <3>. QED BY <3>1, <3>4, <3>5 DEF WriterInv
  <2>2. CASE UNCHANGED item
    BY <1>1, <2>2 DEF In, WriterInv, Writer!OneHarnessWriter, Writer!Holders
  <2>. QED BY <1>1, <2>0, <2>1, <2>2, WriterEffect
<1>2. CASE UNCHANGED allVars
  BY <1>2 DEF allVars, vars, WriterInv, Writer!OneHarnessWriter, Writer!Holders
<1>3. ~In("items") /\ ~In("hosted")
  BY DEF In
<1>. QED BY <1>1, <1>2, <1>3 DEF AllocationNext

\* The harness instance of the run never has two reserved items, whatever is planned,
\* admitted, held, parked or recovered in it, for any issues, leases and generations.
THEOREM HarnessInstanceExclusive == AllocationSpec => []HarnessHasOneWriter
<1>1. AllocationInit => WriterInv
  BY DEF AllocationInit, WriterInv, Writer!Init, Writer!NoRow, Shaped, Writer!OneHarnessWriter,
         Writer!Holders, Writer!Reserved
<1>2. WriterInv => HarnessHasOneWriter
  BY DEF WriterInv, HarnessHasOneWriter
<1>. QED BY <1>1, <1>2, WriterKept, PTL DEF AllocationSpec

-----------------------------------------------------------------------------
(* Capacity: sums of units are counted as sets of unit tokens.             *)

LEMMA TokensCount ==
    ASSUME NEW i, NEW p \in Pools, NEW u \in [Pools -> Nat]
    PROVE  IsFiniteSet(Tokens(i, u, p)) /\ Cardinality(Tokens(i, u, p)) = u[p]
<1>1. IsFiniteSet({i}) /\ Cardinality({i}) = 1
  BY FS_Singleton
<1>2. IsFiniteSet(1..u[p]) /\ Cardinality(1..u[p]) = u[p]
  BY FS_Interval
<1>3. /\ IsFiniteSet({i} \X (1..u[p]))
      /\ Cardinality({i} \X (1..u[p])) = Cardinality({i}) * Cardinality(1..u[p])
  BY <1>1, <1>2, FS_Product
<1>. QED BY <1>1, <1>2, <1>3 DEF Tokens

LEMMA HeldFinite ==
    ASSUME TypeOK, NEW S \in SUBSET Issues, NEW p \in Pools
    PROVE  IsFiniteSet(Held(S, p)) /\ Cardinality(Held(S, p)) \in Nat
<1>. DEFINE f == [i \in S |-> Tokens(i, item[i].units, p)]
            F == {Tokens(i, item[i].units, p) : i \in S}
<1>1. IsFiniteSet(S)
  BY IssuesFinite, FS_Subset
<1>2. f \in Surjection(S, F)
  BY DEF Surjection
<1>3. IsFiniteSet(F)
  BY <1>1, <1>2, FS_Surjection
<1>4. \A T \in F : IsFiniteSet(T)
  BY TokensCount DEF TypeOK, Rows
<1>5. IsFiniteSet(UNION F)
  BY <1>3, <1>4, FS_UNION
<1>. QED BY <1>5, FS_CardinalityType DEF Held

LEMMA HostedType ==
    ASSUME NEW p \in Pools
    PROVE  IsFiniteSet(HostedHolders) /\ Hosted(p) \in Nat
<1>1. IsFiniteSet(HostedHolders)
  BY IssuesFinite, FS_Subset DEF HostedHolders
<1>. QED BY <1>1, FS_CardinalityType DEF Hosted

\* A permitted call leaves at most what CapacityOk counted.
LEMMA CalledCapacity ==
    ASSUME TypeOK, TypeOK', NEW i \in Issues, NEW r, NEW gw, NEW o, Called(i, r, gw, o),
           NEW p \in Pools
    PROVE  Occupied(Holders, p)' <= limit'[p]
<1>. DEFINE others == Held(Holders \ {i}, p)
            mine == IF Reserved(r) THEN Tokens(i, r.units, p) ELSE {}
            after == Held(Holders, p)'
<1>0. r \in Rows /\ r.units \in [Pools -> Nat]
  BY DEF Called, Rows
<1>1. IsFiniteSet(others) /\ Cardinality(others) \in Nat
  <2>1. Holders \ {i} \in SUBSET Issues
    BY DEF Holders
  <2>. QED BY <2>1, HeldFinite
<1>2. /\ IsFiniteSet(mine) /\ Cardinality(mine) \in Nat
      /\ Cardinality(mine) = IF Reserved(r) THEN r.units[p] ELSE 0
  BY <1>0, TokensCount, FS_EmptySet
<1>3. /\ IsFiniteSet(others \cup mine) /\ Cardinality(others \cup mine) \in Nat
      /\ Cardinality(others \cup mine) <= Cardinality(others) + Cardinality(mine)
  <2>1. /\ IsFiniteSet(others \cup mine)
        /\ Cardinality(others \cup mine) =
              Cardinality(others) + Cardinality(mine) - Cardinality(others \cap mine)
    BY <1>1, <1>2, FS_Union
  <2>2. Cardinality(others \cap mine) \in Nat
    BY <1>1, FS_Intersection, FS_CardinalityType
  <2>. QED BY <1>1, <1>2, <2>1, <2>2, FS_CardinalityType
<1>4. after \subseteq others \cup mine
  <2>1. item' = [item EXCEPT ![i] = r] /\ item \in [Issues -> Rows]
    BY DEF Called, SetIssueStatus, TypeOK
  <2>2. Holders' \ {i} = Holders \ {i} /\ (i \in Holders' => Reserved(r))
    BY <2>1 DEF Holders
  <2>3. \A j \in Issues \ {i} : item'[j] = item[j]
    BY <2>1
  <2>4. item'[i] = r
    BY <2>1
  <2>5. Holders' \subseteq Issues
    BY DEF Holders
  <2>6. ASSUME NEW t \in after PROVE t \in others \cup mine
    <3>1. PICK j \in Holders' : t \in Tokens(j, item'[j].units, p)
      BY <2>6 DEF Held, Tokens
    <3>2. CASE j = i
      BY <2>2, <2>4, <3>1, <3>2
    <3>3. CASE j # i
      BY <2>2, <2>3, <2>5, <3>1, <3>3 DEF Held
    <3>. QED BY <3>2, <3>3
  <2>. QED BY <2>6
<1>5. Cardinality(after) \in Nat /\ Cardinality(after) <= Cardinality(others \cup mine)
  BY <1>3, <1>4, FS_Subset, FS_CardinalityType
<1>6. Cardinality(others) + Hosted(p) + (IF Reserved(r) THEN r.units[p] ELSE 0) <= limit[p]
  BY DEF Called, SetIssueStatus, Permitted, CapacityOk, Occupied
<1>7. UNCHANGED <<limit, op>> /\ limit[p] \in Nat /\ Hosted(p) \in Nat
  BY HostedType DEF Called, SetIssueStatus, TypeOK
<1>8. Hosted(p)' = Hosted(p)
  BY <1>7 DEF Hosted, HostedHolders
<1>9. Cardinality(after) + Hosted(p) <= limit[p]
  BY <1>1, <1>2, <1>3, <1>5, <1>6, <1>7
<1>. QED BY <1>7, <1>8, <1>9 DEF Occupied

\* A row written without such a call occupies no more than before.
LEMMA KeepsCapacity ==
    ASSUME TypeOK, NEW i \in Issues, NEW r, Keeps(i, r), NEW p \in Pools
    PROVE  /\ Occupied(Holders, p)' <= Occupied(Holders, p)
           /\ Occupied(Holders, p) \in Nat /\ Occupied(Holders, p)' \in Nat
<1>0. Holders \in SUBSET Issues
  BY DEF Holders
<1>1. IsFiniteSet(Held(Holders, p)) /\ Cardinality(Held(Holders, p)) \in Nat
  BY <1>0, HeldFinite
<1>2. item' = [item EXCEPT ![i] = r] /\ item \in [Issues -> Rows]
  BY DEF Keeps, TypeOK
<1>3. Holders' \subseteq Holders /\ \A j \in Holders' : item'[j].units = item[j].units
  BY <1>2 DEF Keeps, Holders
<1>4. Held(Holders, p)' \subseteq Held(Holders, p)
  BY <1>3 DEF Held, Tokens
<1>5. /\ Cardinality(Held(Holders, p)') \in Nat
      /\ Cardinality(Held(Holders, p)') <= Cardinality(Held(Holders, p))
  BY <1>1, <1>4, FS_Subset, FS_CardinalityType
<1>6. Hosted(p)' = Hosted(p) /\ Hosted(p) \in Nat
  BY HostedType DEF Keeps, Hosted, HostedHolders
<1>. QED BY <1>1, <1>5, <1>6 DEF Occupied

\* A hosted operation adds its unit only after HostedFits has counted the items.
LEMMA HostedCapacity ==
    ASSUME TypeOK, WithinCapacity, NEW o \in Ops, NEW p \in Pools,
           PrepareOperation(o) \/ PromoteOperation(o) \/ ClaimOperation(o) \/ EndOperation(o)
    PROVE  Occupied(Holders, p)' <= limit'[p]
<1>0. /\ UNCHANGED <<item, limit>> /\ Holders' = Holders /\ Held(Holders, p)' = Held(Holders, p)
      /\ op \in [Ops -> OpStates] /\ limit[p] \in Nat
      /\ Occupied(Holders, p) <= limit[p]
  BY DEF PrepareOperation, PromoteOperation, ClaimOperation, EndOperation, Holders, Held,
         TypeOK, WithinCapacity
<1>1. Cardinality(Held(Holders, p)) \in Nat
  <2>1. Holders \in SUBSET Issues
    BY DEF Holders
  <2>. QED BY <2>1, HeldFinite
<1>2. CASE p # Sre
  <2>1. Hosted(p)' = 0 /\ Hosted(p) = 0
    BY <1>2 DEF Hosted
  <2>. QED BY <1>0, <2>1 DEF Occupied
<1>3. CASE p = Sre
  <2>1. IsFiniteSet(HostedHolders) /\ Cardinality(HostedHolders) \in Nat
    BY HostedType, FS_CardinalityType
  <2>2. CASE op' = [op EXCEPT ![o] = "PREPARED"] /\ HostedFits
    <3>1. HostedHolders' = HostedHolders \cup {o}
      BY <1>0, <2>2 DEF HostedHolders
    <3>2. /\ Cardinality(HostedHolders') \in Nat
          /\ Cardinality(HostedHolders') <= Cardinality(HostedHolders) + 1
      <4>1. /\ IsFiniteSet(HostedHolders \cup {o})
            /\ Cardinality(HostedHolders \cup {o}) =
                  IF o \in HostedHolders THEN Cardinality(HostedHolders)
                  ELSE Cardinality(HostedHolders) + 1
        BY <2>1, FS_AddElement
      <4>. QED BY <2>1, <3>1, <4>1
    <3>. QED BY <1>0, <1>1, <1>3, <2>1, <2>2, <3>2 DEF HostedFits, Occupied, Hosted
  <2>3. CASE HostedHolders' \subseteq HostedHolders
    <3>1. /\ Cardinality(HostedHolders') \in Nat
          /\ Cardinality(HostedHolders') <= Cardinality(HostedHolders)
      BY <2>1, <2>3, FS_Subset, FS_CardinalityType
    <3>. QED BY <1>0, <1>1, <1>3, <2>1, <3>1 DEF Occupied, Hosted
  <2>4. \/ op' = [op EXCEPT ![o] = "PREPARED"] /\ HostedFits
        \/ HostedHolders' \subseteq HostedHolders
    BY <1>0 DEF PrepareOperation, PromoteOperation, ClaimOperation, EndOperation, HostedHolders
  <2>. QED BY <2>2, <2>3, <2>4
<1>. QED BY <1>2, <1>3

LEMMA NextCapacity == TypeOK /\ WithinCapacity /\ [Next]_vars => WithinCapacity'
<1>. SUFFICES ASSUME TypeOK, WithinCapacity, [Next]_vars, NEW p \in Pools
              PROVE  Occupied(Holders, p)' <= limit'[p]
  BY DEF WithinCapacity
<1>0. TypeOK' /\ limit[p] \in Nat /\ Occupied(Holders, p) <= limit[p]
  BY NextType DEF TypeOK, WithinCapacity
<1>1. ASSUME NEW i \in Issues, ItemStep(i) PROVE Occupied(Holders, p)' <= limit'[p]
  <2>1. CASE \E r, gw, o : Called(i, r, gw, o)
    BY <1>0, <2>1, CalledCapacity
  <2>2. ASSUME NEW r, Keeps(i, r) PROVE Occupied(Holders, p)' <= limit'[p]
    <3>1. /\ Occupied(Holders, p)' <= Occupied(Holders, p)
          /\ Occupied(Holders, p) \in Nat /\ Occupied(Holders, p)' \in Nat
      BY <2>2, KeepsCapacity
    <3>2. limit' = limit
      BY <2>2 DEF Keeps
    <3>. QED BY <1>0, <3>1, <3>2
  <2>. QED BY <1>1, <2>1, <2>2, RowEffect
<1>2. CASE SetCapacityPolicy
  <2>1. PolicyOk(limit') /\ UNCHANGED <<item, op>>
    BY <1>2 DEF SetCapacityPolicy
  <2>2. Occupied(Holders, p) <= limit'[p]
    BY <2>1 DEF PolicyOk
  <2>3. Occupied(Holders, p)' = Occupied(Holders, p)
    BY <2>1 DEF Occupied, Held, Holders, Hosted, HostedHolders
  <2>. QED BY <2>2, <2>3
<1>3. ASSUME NEW o \in Ops,
             PrepareOperation(o) \/ PromoteOperation(o) \/ ClaimOperation(o) \/ EndOperation(o)
      PROVE  Occupied(Holders, p)' <= limit'[p]
  BY <1>3, HostedCapacity
<1>4. CASE UNCHANGED vars
  BY <1>0, <1>4 DEF vars, Occupied, Held, Holders, Hosted, HostedHolders
<1>. QED BY <1>1, <1>2, <1>3, <1>4 DEF Next

LEMMA InitCapacity == Init => WithinCapacity
<1>. SUFFICES ASSUME Init, NEW p \in Pools PROVE Occupied(Holders, p) <= limit[p]
  BY DEF WithinCapacity
<1>1. Holders = {} /\ HostedHolders = {}
  BY DEF Init, Holders, HostedHolders, Reserved, NoRow
<1>2. Held(Holders, p) = {}
  BY <1>1 DEF Held
<1>3. Occupied(Holders, p) = 0
  BY <1>1, <1>2, FS_EmptySet DEF Occupied, Hosted
<1>. QED BY <1>3, VectorsAssumption DEF Init

\* The units held by ACTIVE and RETAINED items and by hosted operations never exceed
\* the capacity policy in force, in any pool.
THEOREM CapacityRespected == Spec => []WithinCapacity
<1>. QED BY InitCapacity, NextCapacity, TypeCorrect, PTL DEF Spec
-----------------------------------------------------------------------------
\* What one step owes to the lifecycle of an issue: row and watches before and after.
IssueLifecycle(r, w, s, x) ==
    /\ Reserved(r) /\ ~Reserved(s) =>
          \/ /\ r.status = "PUBLICATION_PENDING" /\ s.status = "DONE"
             /\ w[r.gen].state = "ACTIVE" /\ x[r.gen].state = "COMPLETE"
          \/ /\ s.status = "PREPARED" /\ s.gen = r.gen + 1
             /\ \/ w[r.gen].state = "ACTIVE" /\ x[r.gen].state = "COMPLETE"
                \/ w[r.gen].state = "HOLD"
    /\ s.gen = r.gen =>
          /\ r.status = "DONE" => s.status = "DONE"
          /\ r.status = "HOLD" /\ s.status # "HOLD" =>
                s.status = "ACTIVE_FENCED" /\ w[r.gen].state \in {"ABSENT", "COMPLETE"}

Lifecycle == \A i \in Issues : IssueLifecycle(item[i], watch[i], item'[i], watch'[i])

\* A row that stays as it is, or keeps its reservation and is neither held nor done,
\* owes nothing, whatever its watches do.
LEMMA QuietLifecycle ==
    ASSUME NEW r, NEW s, NEW w, NEW x,
           \/ s = r
           \/ (Reserved(r) => Reserved(s)) /\ r.status \notin {"HOLD", "DONE"}
    PROVE  IssueLifecycle(r, w, s, x)
BY DEF IssueLifecycle

\* A step on one issue is judged by that issue alone.
LEMMA LifecycleFrame ==
    ASSUME TypeOK, NEW i \in Issues, IssueLifecycle(item[i], watch[i], item'[i], watch'[i]),
           \A j \in Issues \ {i} : item'[j] = item[j]
    PROVE  Lifecycle
BY QuietLifecycle DEF Lifecycle

\* An ordinary call neither releases a reservation nor lets a row leave HOLD or DONE.
LEMMA PlanLifecycle ==
    ASSUME TypeOK, NEW i \in Issues, Plan(i)
    PROVE  Lifecycle
<1>1. PICK s \in Planned, a \in Classes, u \in Demands, l \in Leases \cup {NoLease},
           g \in {item[i].gen, item[i].gen + 1} \cap Gens :
      SetIssueStatus(i, [status |-> s, alloc |-> a, gen |-> g, lease |-> l, units |-> u],
                     "ordinary", "ACTIVE")
  BY DEF Plan
<1>. DEFINE r == [status |-> s, alloc |-> a, gen |-> g, lease |-> l, units |-> u]
<1>2. /\ ReleaseOk(i, r, "ordinary") /\ OrderOk(i, r)
      /\ item' = [item EXCEPT ![i] = r]
  BY <1>1 DEF SetIssueStatus, Permitted
<1>3. item'[i] = r /\ \A j \in Issues \ {i} : item'[j] = item[j]
  BY <1>2 DEF TypeOK
<1>4. Reserved(item[i]) => Reserved(r)
  BY <1>2 DEF ReleaseOk, Reserved, Classes
<1>5. r.gen = item[i].gen /\ item[i].status = "DONE" => r.status = "DONE"
  <2>1. r.status \in Statuses
    BY PlannedAssumption
  <2>2. \A t \in Statuses : StatusRank[t] >= StatusRank["DONE"] => t = "DONE"
    BY DEF Statuses, StatusRank
  <2>. QED BY <1>2, <2>1, <2>2 DEF OrderOk
<1>6. r.gen = item[i].gen /\ item[i].status = "HOLD" => r.status = "HOLD"
  BY <1>2 DEF OrderOk
<1>7. IssueLifecycle(item[i], watch[i], r, watch'[i])
  BY <1>4, <1>5, <1>6 DEF IssueLifecycle
<1>. QED BY <1>3, <1>7, LifecycleFrame

\* A park starts the next generation and closes the watch it was followed by.
LEMMA ParkLifecycle ==
    ASSUME TypeOK, NEW i \in Issues, Park(i)
    PROVE  Lifecycle
<1>. DEFINE g == item[i].gen
            r == [item[i] EXCEPT !.status = "PREPARED", !.alloc = "NONE", !.gen = @ + 1,
                                 !.lease = NoLease]
<1>0. item[i] \in Rows /\ g \in Gens /\ watch[i] \in [Gens -> Watches] /\ watch[i][g] \in Watches
  BY DEF TypeOK, Rows
<1>1. /\ item' = [item EXCEPT ![i] = r]
      /\ watch' = [watch EXCEPT ![i] = WatchesAfter(i, r, "ACTIVE")]
      /\ watch[i][g].state = "ACTIVE"
  BY DEF Park, SetIssueStatus
<1>2. r.status = "PREPARED" /\ r.alloc = "NONE" /\ r.gen = g + 1
  BY <1>0 DEF Rows
<1>3. WatchesAfter(i, r, "ACTIVE")[g].state = "COMPLETE"
  BY <1>0, <1>1, <1>2 DEF WatchesAfter, Runs, Watches
<1>4. /\ item'[i] = r /\ watch'[i] = WatchesAfter(i, r, "ACTIVE")
      /\ \A j \in Issues \ {i} : item'[j] = item[j]
  BY <1>1 DEF TypeOK
<1>5. g + 1 # g
  BY <1>0, GenAssumption DEF Gens
<1>6. IssueLifecycle(item[i], watch[i], r, WatchesAfter(i, r, "ACTIVE"))
  BY <1>1, <1>2, <1>3, <1>5 DEF IssueLifecycle
<1>. QED BY <1>4, <1>6, LifecycleFrame

LEMMA NextLifecycle == TypeOK /\ [Next]_vars => Lifecycle
<1>. SUFFICES ASSUME TypeOK, [Next]_vars PROVE Lifecycle
  OBVIOUS
<1>1. ASSUME NEW i \in Issues, ItemStep(i) PROVE Lifecycle
  <2>. DEFINE g == item[i].gen
  <2>0. /\ item[i] \in Rows /\ g \in Gens /\ g + 1 # g /\ item \in [Issues -> Rows]
        /\ watch[i] \in [Gens -> Watches] /\ watch[i][g] \in Watches
    BY GenAssumption DEF TypeOK, Rows, Gens
  <2>1. CASE Plan(i)
    BY <2>1, PlanLifecycle
  <2>2. CASE FinalizeReady(i) \/ Admit(i) \/ Prepare(i)
    <3>1. PICK r : /\ item' = [item EXCEPT ![i] = r]
                   /\ item[i].status \notin {"HOLD", "DONE"}
                   /\ Reserved(item[i]) => Reserved(r)
      <4>1. CASE FinalizeReady(i)
        BY <4>1 DEF FinalizeReady, SetIssueStatus
      <4>2. CASE Admit(i)
        <5>1. PICK u \in Demands, l \in Leases :
                item' = [item EXCEPT ![i] = [item[i] EXCEPT !.status = "ACTIVE", !.alloc = "ACTIVE",
                                                            !.lease = l, !.units = u]]
          BY <4>2 DEF Admit, SetIssueStatus
        <5>2. Reserved([item[i] EXCEPT !.status = "ACTIVE", !.alloc = "ACTIVE",
                                       !.lease = l, !.units = u])
          BY <2>0 DEF Reserved, Rows
        <5>. QED BY <4>2, <5>1, <5>2 DEF Admit
      <4>3. CASE Prepare(i)
        <5>1. Reserved([item[i] EXCEPT !.status = "PUBLICATION_PENDING"])
          BY <2>0, <4>3 DEF Prepare, Reserved, Rows
        <5>. QED BY <4>3, <5>1 DEF Prepare, SetIssueStatus
      <4>. QED BY <2>2, <4>1, <4>2, <4>3
    <3>2. item'[i] = r /\ \A j \in Issues \ {i} : item'[j] = item[j]
      BY <2>0, <3>1
    <3>3. IssueLifecycle(item[i], watch[i], item'[i], watch'[i])
      BY <3>1, <3>2, QuietLifecycle
    <3>. QED BY <3>2, <3>3, LifecycleFrame
  <2>3. CASE Claim(i) \/ Rearm(i) \/ \E h \in Gens : HoldWatch(i, h)
    BY <2>3, WatchSteps, QuietLifecycle, LifecycleFrame
  <2>4. ASSUME NEW e \in BOOLEAN, HoldUnclaimed(i, e) PROVE Lifecycle
    <3>1. /\ item[i].status \notin {"HOLD", "DONE"} /\ Reserved(item'[i])
          /\ \A j \in Issues \ {i} : item'[j] = item[j]
      BY <2>0, <2>4 DEF HoldUnclaimed, Reserved, Rows
    <3>. QED BY <3>1, QuietLifecycle, LifecycleFrame
  <2>5. CASE Commit(i)
    <3>1. /\ item[i].status = "PUBLICATION_PENDING" /\ item'[i].status = "DONE"
          /\ \A j \in Issues \ {i} : item'[j] = item[j]
      BY <2>0, <2>5 DEF Commit, Rows
    <3>2. watch[i][g].state = "ACTIVE" /\ watch'[i][g].state = "COMPLETE"
      BY <2>0, <2>5 DEF Commit, TypeOK, Watches
    <3>3. IssueLifecycle(item[i], watch[i], item'[i], watch'[i])
      BY <3>1, <3>2 DEF IssueLifecycle
    <3>. QED BY <3>1, <3>3, LifecycleFrame
  <2>6. CASE Park(i)
    BY <2>6, ParkLifecycle
  <2>7. CASE Recover(i)
    <3>1. /\ item[i].status = "HOLD" /\ item'[i].status = "ACTIVE_FENCED" /\ Reserved(item'[i])
          /\ watch[i][g].state \in {"ABSENT", "COMPLETE"}
          /\ \A j \in Issues \ {i} : item'[j] = item[j]
      BY <2>0, <2>7 DEF Recover, Recoverable, Reserved, Rows
    <3>2. IssueLifecycle(item[i], watch[i], item'[i], watch'[i])
      BY <3>1 DEF IssueLifecycle
    <3>. QED BY <3>1, <3>2, LifecycleFrame
  <2>8. CASE RecoverUnclaimed(i)
    <3>1. /\ item'[i].status = "PREPARED" /\ item'[i].gen = g + 1 /\ watch[i][g].state = "HOLD"
          /\ \A j \in Issues \ {i} : item'[j] = item[j]
      BY <2>0, <2>8 DEF RecoverUnclaimed, Rows
    <3>2. IssueLifecycle(item[i], watch[i], item'[i], watch'[i])
      BY <2>0, <3>1 DEF IssueLifecycle
    <3>. QED BY <3>1, <3>2, LifecycleFrame
  <2>. QED BY <1>1, <2>1, <2>2, <2>3, <2>4, <2>5, <2>6, <2>7, <2>8 DEF ItemStep
<1>2. CASE UNCHANGED item
  BY <1>2, QuietLifecycle DEF Lifecycle
<1>. QED BY <1>1, <1>2, OtherSteps DEF Next

\* Capacity is given back only by a published closeout, a park of claimed work or the
\* recovery of unclaimed work, each with its watch closed or on HOLD; within a generation
\* held work runs again only by recovery, and nothing leaves DONE.
THEOREM LifecycleRespected == Spec => LifecycleKept
<1>1. TypeOK /\ [Next]_vars =>
        [\A i \in Issues :
           Reserved(item[i]) /\ ~Reserved(item'[i]) =>
              LET g == item[i].gen
              IN  \/ /\ item[i].status = "PUBLICATION_PENDING" /\ item'[i].status = "DONE"
                     /\ watch[i][g].state = "ACTIVE" /\ watch'[i][g].state = "COMPLETE"
                  \/ /\ item'[i].status = "PREPARED" /\ item'[i].gen = g + 1
                     /\ \/ watch[i][g].state = "ACTIVE" /\ watch'[i][g].state = "COMPLETE"
                        \/ watch[i][g].state = "HOLD"]_vars
  BY NextLifecycle DEF Lifecycle, IssueLifecycle
<1>2. TypeOK /\ [Next]_vars =>
        [\A i \in Issues :
           item'[i].gen = item[i].gen =>
              /\ item[i].status = "DONE" => item'[i].status = "DONE"
              /\ item[i].status = "HOLD" /\ item'[i].status # "HOLD" =>
                    /\ item'[i].status = "ACTIVE_FENCED"
                    /\ watch[i][item[i].gen].state \in {"ABSENT", "COMPLETE"}]_vars
  BY NextLifecycle DEF Lifecycle, IssueLifecycle
<1>. QED BY <1>1, <1>2, TypeCorrect, PTL DEF Spec, LifecycleKept, ReleaseIsAccounted, HeldStaysHeld
=============================================================================
