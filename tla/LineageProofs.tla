--------------------------- MODULE LineageProofs ---------------------------
(***************************************************************************)
(* Proofs about Lineage for every number of foreign revisions, of own      *)
(* comments and of permitted launch attempts, and the proof that Lineage   *)
(* implements Allocation.                                                  *)
(***************************************************************************)
EXTENDS Lineage, TLAPS, FiniteSetTheorems

\* The rows of the store.
Sources == Revisions \cup {NoRevision}
Items == [status : Statuses, alloc : Classes, gen : {0, 1}, source : Sources, named : BOOLEAN]
Messages == [state : {"ABSENT", "PREPARED", "CLAIMED", "COMPLETE", "HOLD"}, error : Errors,
             source : Revisions]
Watches == [state : {"ABSENT", "PENDING_CLAIM", "ACTIVE", "COMPLETE", "HOLD"},
            error : {None, "BINDING", "RETRY", "LAUNCH", "EXHAUSTED", "PLANNER"},
            tries : 0..MaxTries]
Wakes == [Phases -> [state : {None, "INFLIGHT", "HOLD", "COMPLETE"}, n : 0..MaxTries]]
Packets == {None, "open", "checked", "published", "committed"}
Passes == [pc : {"idle", "contract", "hold", "reserve", "watch", "submit"},
           seen : {None, "SOURCE", "ITEM", "watch"} \cup Open \cup Phases]
LateErrors == {None, "SOURCE", "ITEM"}

StoreTypes ==
    /\ item \in Items /\ msg \in Messages /\ watch \in Watches
    /\ heir \in {"ABSENT", "ACTIVE", "COMPLETE"}
    /\ receipt \in Revisions \cup {NoRevision} /\ packet \in Packets

\* Each place of the pass carries in sup.seen what it needs.
PassTypes ==
    /\ sup \in Passes
    /\ sup.pc \in {"contract", "reserve"} => sup.seen \in Open
    /\ sup.pc = "hold" => sup.seen \in {"SOURCE", "ITEM"}
    /\ sup.pc = "submit" => sup.seen \in Phases \cup {"watch"}

SchedulerTypes == wake \in Wakes /\ launch \in Phases \cup {None, "watch"} /\ PassTypes

ExecutorTypes ==
    /\ child \subseteq Targets /\ attempt \in Targets \cup {None}
    /\ claimer \in {None, "RUNNING", "COMPLETE", "HOLD"} /\ watched \in BOOLEAN
    /\ late \in LateErrors /\ evidence \in Revisions \cup {NoRevision}

GithubTypes == live \in Revisions /\ db \in Revisions

Types == GithubTypes /\ StoreTypes /\ SchedulerTypes /\ ExecutorTypes

\* Before its admission the lineage has no receipt and no watch, and only generation 0
\* is admitted.
BeforeAdmission ==
    /\ item.status = "READY" => item.gen = 0
    /\ item.status \in {"ABSENT", "PREPARED", "READY"} /\ item.gen = 0 =>
          receipt = NoRevision /\ watch.state = "ABSENT" /\ watch.error = None

\* An executing row, and no other, has class ACTIVE; an attested row has no capacity yet,
\* and an exhaustion retains the row at the version it leaves.
RowKinds ==
    /\ item.status \in Executing <=> item.alloc = "ACTIVE"
    /\ item.status = "ABSENT" => item.alloc = "NONE" /\ item.gen = 0
    /\ item.status = "READY" /\ item.named => item.alloc = "NONE"
    /\ item.status = "HOLD" /\ item.named => item.alloc = "RETAINED"

\* A started watch follows executing work of this generation, an unclaimed one work that
\* a replan may have carried on, and only one that is held remembers an exhaustion.
OpenWatchRuns ==
    /\ watch.state = "ACTIVE" => item.status \in Executing /\ item.gen = 0
    /\ watch.state = "PENDING_CLAIM" => item.status = "ACTIVE"
    /\ watch.error = "EXHAUSTED" => watch.state = "HOLD"

\* The next generation has no watch before its row.
HeirFollows == item.gen = 0 => heir = "ABSENT"

\* A receipt speaks for a revision after the admitted one, and snapshots never go back.
ReceiptIsLater ==
    /\ db.own <= live.own
    /\ receipt # NoRevision => receipt.own = msg.source.own + 1 /\ receipt.own <= db.own

\* The bound claimer is the attempt that runs.
ClaimerIsAttempt == claimer = "RUNNING" => attempt = "message"

LineageInv ==
    /\ Types
    /\ BeforeAdmission /\ RowKinds /\ OpenWatchRuns /\ HeirFollows
    /\ ReceiptIsLater /\ ClaimerIsAttempt
    /\ CloseoutIsWhole /\ PublicationKeepsCapacity /\ PacketOnAdmittedSource
    /\ WorkIsReserved /\ NoWriterAfterExhaustion

-----------------------------------------------------------------------------
LEMMA TypesSuffice == Types => TypeOK
BY DEF Types, GithubTypes, StoreTypes, SchedulerTypes, PassTypes, ExecutorTypes, TypeOK,
       Items, Sources, Messages, Watches, Wakes, Packets, Passes, LateErrors

LEMMA InitTypes == Init => Types
<1>. SUFFICES ASSUME Init PROVE Types
  OBVIOUS
<1>1. live \in Revisions /\ db = live
  BY BoundsAssumption DEF Init, Revisions
<1>2. item \in Items /\ msg \in Messages
  BY <1>1 DEF Init, Items, Sources, Classes, Messages, Statuses, Errors, None
<1>3. watch \in Watches
  BY TriesAssumption DEF Init, Watches, None
<1>4. wake \in Wakes
  BY TriesAssumption DEF Init, Wakes, Phases, None
<1>5. PassTypes
  BY DEF Init, Idle, PassTypes, Passes, None
<1>. QED BY <1>1, <1>2, <1>3, <1>4, <1>5
         DEF Init, Types, GithubTypes, StoreTypes, SchedulerTypes, ExecutorTypes, Packets,
             LateErrors, Targets

LEMMA WakeWrite ==
    ASSUME NEW w \in Wakes, NEW p \in Phases, NEW n \in 0..MaxTries,
           NEW s \in {None, "INFLIGHT", "HOLD", "COMPLETE"}
    PROVE  /\ [w EXCEPT ![p].state = s] \in Wakes /\ [w EXCEPT ![p].n = n] \in Wakes
           /\ [w EXCEPT ![p] = [state |-> s, n |-> n]] \in Wakes
           /\ w[p].n \in 0..MaxTries
BY DEF Wakes

LEMMA NoTries == 0 \in 0..MaxTries
BY TriesAssumption

LEMMA HoldMessageType ==
    ASSUME msg \in Messages, NEW e \in Errors, HoldMessage(e)
    PROVE  msg' \in Messages
BY DEF HoldMessage, Messages

LEMMA ClosedType ==
    ASSUME NEW w \in Watches
    PROVE  /\ Closed(w) \in Watches /\ Closed(w).state \notin {"PENDING_CLAIM", "ACTIVE"}
           /\ Closed(w) = w \/ (Closed(w).state = "COMPLETE" /\ Closed(w).error = None)
           /\ Superseded(w) \in Watches /\ Superseded(w).state # "ACTIVE"
           /\ Superseded(w) = w \/ (Superseded(w).state = "COMPLETE" /\ Superseded(w).error = None)
BY NoTries DEF Closed, Superseded, Watches

LEMMA ExhaustType ==
    ASSUME StoreTypes, SchedulerTypes, NEW p \in Phases, Exhaust(p)
    PROVE  item' \in Items /\ msg' \in Messages /\ watch' \in Watches /\ wake' \in Wakes
<1>1. wake' \in Wakes
  BY WakeWrite, NoTries DEF Exhaust, SchedulerTypes
<1>2. CASE msg.state = "PREPARED"
  <2>1. msg' \in Messages
    BY <1>2, HoldMessageType DEF Exhaust, StoreTypes, Errors
  <2>2. item' \in Items
    BY <1>2 DEF Exhaust, StoreTypes, Statuses, Classes, Items
  <2>3. watch' \in Watches
    BY <1>2, NoTries DEF Exhaust, Watches
  <2>. QED BY <1>1, <2>1, <2>2, <2>3
<1>3. CASE msg.state # "PREPARED"
  BY <1>1, <1>3, HoldMessageType DEF Exhaust, StoreTypes, Errors
<1>. QED BY <1>2, <1>3

-----------------------------------------------------------------------------
LEMMA OutsideTypes ==
    ASSUME Types, Outside
    PROVE  Types'
<1>1. UNCHANGED <<store, scheduler, executors>>
  BY DEF Outside, Foreign, OwnComment, Sync
<1>2. GithubTypes'
  <2>1. CASE Foreign
    BY <2>1, BoundsAssumption DEF Foreign, Types, GithubTypes, Revisions
  <2>2. CASE OwnComment
    BY <2>2, BoundsAssumption DEF OwnComment, Commented, Types, GithubTypes, Revisions
  <2>3. CASE Sync
    BY <2>3 DEF Sync, Types, GithubTypes
  <2>. QED BY <2>1, <2>2, <2>3 DEF Outside
<1>. QED BY <1>1, <1>2
         DEF Types, StoreTypes, SchedulerTypes, PassTypes, ExecutorTypes, store, scheduler, executors

\* The rows an ordinary call may name.
LEMMA NamedRows ==
    /\ \A row \in PlannedRows \cup NextRows :
          /\ row[1] \in {"PREPARED", "READY", "ACTIVE", "HOLD", "DONE"}
          /\ row[2] \in Classes /\ (row[1] = "ACTIVE" <=> row[2] = "ACTIVE")
    /\ \A row \in NextRows : row[1] \in {"PREPARED", "HOLD", "ACTIVE"}
BY DEF PlannedRows, NextRows, Classes

\* The row an ordinary call leaves, and what becomes of the watches.
LEMMA PlanEffect ==
    ASSUME item \in Items, db \in Sources, Plan
    PROVE  /\ item' \in Items /\ ~item'.named
           /\ item'.status \in {"PREPARED", "READY", "ACTIVE", "HOLD", "DONE"}
           /\ item'.status = "ACTIVE" <=> item'.alloc = "ACTIVE"
           /\ item'.gen = item.gen \/ item'.gen = 1
           /\ item'.gen = 1 => item'.status \in {"PREPARED", "HOLD", "ACTIVE"}
           /\ Reserved => item'.alloc # "NONE" /\ item'.status # "DONE"
           /\ item'.status = "READY" => item.status = "READY"
           /\ item'.status = "ACTIVE" => Runs(item)
           /\ item'.gen = item.gen => /\ item.status = "HOLD" => item'.status = "HOLD"
                                     /\ StatusRank[item'.status] >= StatusRank[item.status]
           /\ IF item'.status = "ACTIVE" THEN WatchGoesOn(item') ELSE WatchesEnd
<1>1. PICK gen \in {item.gen, 1} : \E row \in IF gen = 0 THEN PlannedRows ELSE NextRows :
        LET new == [status |-> row[1], alloc |-> row[2], gen |-> gen,
                    source |-> IF gen = 0 /\ row[2] = "ACTIVE" THEN db ELSE NoRevision,
                    named |-> FALSE]
        IN  /\ ReleaseOk(new) /\ GatewayOk(new) /\ OrderOk(new)
            /\ item' = new
            /\ IF Runs(new) THEN WatchGoesOn(new) ELSE WatchesEnd
            /\ UNCHANGED <<github, msg, receipt, packet, scheduler, executors>>
  BY Zenon DEF Plan
<1>2. PICK row \in IF gen = 0 THEN PlannedRows ELSE NextRows :
        LET new == [status |-> row[1], alloc |-> row[2], gen |-> gen,
                    source |-> IF gen = 0 /\ row[2] = "ACTIVE" THEN db ELSE NoRevision,
                    named |-> FALSE]
        IN  /\ ReleaseOk(new) /\ GatewayOk(new) /\ OrderOk(new)
            /\ item' = new
            /\ IF Runs(new) THEN WatchGoesOn(new) ELSE WatchesEnd
            /\ UNCHANGED <<github, msg, receipt, packet, scheduler, executors>>
  BY <1>1
<1>3. /\ ReleaseOk(item') /\ GatewayOk(item') /\ OrderOk(item')
      /\ IF Runs(item') THEN WatchGoesOn(item') ELSE WatchesEnd
  BY <1>2
<1>4. /\ item' = [status |-> row[1], alloc |-> row[2], gen |-> gen,
                  source |-> IF gen = 0 /\ row[2] = "ACTIVE" THEN db ELSE NoRevision,
                  named |-> FALSE]
      /\ gen \in {0, 1}
  BY <1>2 DEF Items
<1>5. /\ row[1] \in {"PREPARED", "READY", "ACTIVE", "HOLD", "DONE"}
      /\ row[2] \in Classes /\ (row[1] = "ACTIVE" <=> row[2] = "ACTIVE")
      /\ gen = 1 => row[1] \in {"PREPARED", "HOLD", "ACTIVE"}
  BY <1>2, <1>4, NamedRows
<1>6. /\ item'.status = row[1] /\ item'.alloc = row[2] /\ item'.gen = gen /\ ~item'.named
      /\ item' \in Items
  BY <1>4, <1>5 DEF Items, Statuses, Sources
<1>7. item'.status = "ACTIVE" <=> Runs(item')
  BY <1>5, <1>6 DEF Runs, Executing
<1>8. /\ Reserved => item'.alloc # "NONE" /\ item'.status # "DONE"
      /\ item'.status = "READY" => item.status = "READY"
      /\ item'.status = "ACTIVE" => Runs(item)
      /\ item'.gen = item.gen => /\ item.status = "HOLD" => item'.status = "HOLD"
                                /\ StatusRank[item'.status] >= StatusRank[item.status]
  BY <1>3 DEF ReleaseOk, GatewayOk, OrderOk
<1>. QED BY <1>3, <1>5, <1>6, <1>7, <1>8

LEMMA PlannerTypes ==
    ASSUME Types, Planner
    PROVE  Types'
<1>0. /\ item \in Items /\ msg \in Messages /\ watch \in Watches /\ wake \in Wakes
      /\ receipt \in Revisions \cup {NoRevision} /\ packet \in Packets
      /\ live \in Revisions /\ db \in Revisions /\ heir \in {"ABSENT", "ACTIVE", "COMPLETE"}
      /\ db \in Sources /\ NoRevision \in Sources /\ item.gen \in {0, 1}
  BY DEF Types, GithubTypes, StoreTypes, SchedulerTypes, Items, Sources
<1>00. /\ {"PREPARED", "READY", "ACTIVE", "HOLD"} \subseteq Statuses
       /\ {"NONE", "ACTIVE", "RETAINED"} \subseteq Classes
       /\ "PLANNER" \in Errors /\ None \in Errors
  BY DEF Statuses, Classes, Errors
<1>1. UNCHANGED <<github, executors, launch, sup>>
  BY DEF Planner, Plan, FinalizeReady, Admit, HoldUnclaimed, RecoverUnclaimed, RearmSource, Park,
         scheduler
<1>2. item' \in Items
  <2>1. CASE Plan
    BY <1>0, <2>1, PlanEffect
  <2>2. CASE FinalizeReady \/ Admit \/ HoldUnclaimed
    BY <1>0, <1>00, <2>2 DEF FinalizeReady, Admit, HoldUnclaimed, Items
  <2>3. CASE RecoverUnclaimed \/ Park
    BY <1>0, <1>00, <2>3 DEF RecoverUnclaimed, Park, Items
  <2>. QED BY <1>0, <2>1, <2>2, <2>3 DEF Planner, RearmSource
<1>3. msg' \in Messages
  <2>1. CASE Admit
    BY <1>0, <1>00, <2>1 DEF Admit, Messages
  <2>2. CASE HoldUnclaimed \/ RearmSource
    BY <1>0, <1>00, <2>2 DEF HoldUnclaimed, RearmSource, Messages
  <2>3. CASE UNCHANGED msg
    BY <1>0, <2>3
  <2>. QED BY <2>1, <2>2, <2>3 DEF Planner, Plan, FinalizeReady, RecoverUnclaimed, Park
<1>4. watch' \in Watches
  <2>1. CASE Plan
    <3>1. watch' \in {watch, Closed(watch), Superseded(watch), [watch EXCEPT !.tries = 0]}
      BY <2>1 DEF Plan, WatchGoesOn, WatchesEnd
    <3>. QED BY <1>0, <3>1, NoTries, ClosedType DEF Watches
  <2>2. CASE Admit \/ HoldUnclaimed \/ RearmSource
    <3>1. CASE Admit
      BY <1>0, <3>1 DEF Admit, Watches
    <3>2. CASE HoldUnclaimed
      BY <3>2, NoTries DEF HoldUnclaimed, Watches
    <3>3. CASE RearmSource
      BY <3>3, NoTries DEF RearmSource, Watches
    <3>. QED BY <2>2, <3>1, <3>2, <3>3
  <2>3. CASE Park
    BY <1>0, <2>3, ClosedType DEF Park, WatchesEnd
  <2>. QED BY <1>0, <2>1, <2>2, <2>3 DEF Planner, FinalizeReady, RecoverUnclaimed
<1>5. receipt' \in Revisions \cup {NoRevision} /\ packet' = packet
  BY <1>0 DEF Planner, Plan, FinalizeReady, Admit, HoldUnclaimed, RecoverUnclaimed, RearmSource, Park
<1>6. heir' \in {"ABSENT", "ACTIVE", "COMPLETE"}
  <2>1. CASE Plan \/ Park
    <3>1. heir' \in {heir, "ACTIVE", "COMPLETE"}
      BY <2>1 DEF Plan, Park, WatchGoesOn, WatchesEnd
    <3>. QED BY <1>0, <3>1
  <2>2. CASE UNCHANGED heir
    BY <1>0, <2>2
  <2>. QED BY <2>1, <2>2, Zenon
       DEF Planner, FinalizeReady, Admit, HoldUnclaimed, RecoverUnclaimed, RearmSource
<1>7. wake' \in Wakes
  <2>1. CASE RearmSource
    BY <1>0, <2>1, WakeWrite, NoTries DEF RearmSource, Phases
  <2>2. CASE UNCHANGED wake
    BY <1>0, <2>2
  <2>. QED BY <2>1, <2>2
       DEF Planner, Plan, FinalizeReady, Admit, HoldUnclaimed, RecoverUnclaimed, Park, scheduler
<1>. QED BY <1>0, <1>1, <1>2, <1>3, <1>4, <1>5, <1>6, <1>7
         DEF Types, GithubTypes, StoreTypes, SchedulerTypes, PassTypes, ExecutorTypes, github, executors

LEMMA PublisherTypes ==
    ASSUME Types, Publisher
    PROVE  Types'
<1>1. UNCHANGED <<item, msg, watch, heir, receipt, scheduler, executors>>
  BY DEF Publisher, PublisherSync, PublisherPost
<1>2. packet' \in Packets
  BY DEF Publisher, PublisherSync, PublisherPost, Packets
<1>3. GithubTypes'
  BY BoundsAssumption
     DEF Publisher, PublisherSync, PublisherPost, Types, GithubTypes, Commented, Revisions
<1>. QED BY <1>1, <1>2, <1>3
         DEF Types, StoreTypes, SchedulerTypes, PassTypes, ExecutorTypes, scheduler, executors

LEMMA ExecutorStepTypes ==
    ASSUME Types, Executor
    PROVE  Types'
<1>0. /\ item \in Items /\ msg \in Messages /\ watch \in Watches
      /\ receipt \in Revisions \cup {NoRevision} /\ packet \in Packets
  BY DEF Types, StoreTypes
<1>00. {"PUBLICATION_PENDING", "DONE"} \subseteq Statuses /\ "NONE" \in Classes /\ None \in Errors /\ LateErrors \subseteq Errors
  BY DEF Statuses, Classes, Errors, LateErrors
<1>1. UNCHANGED <<github, wake, sup>>
  BY DEF Executor, StartAttempt, EndAttempt, Claim, RefuseClaim, RecordRefusal, Heartbeat,
         Prepare, Observe, Commit, scheduler
<1>2. SchedulerTypes'
  <2>1. launch' \in {launch, None}
    BY DEF Executor, StartAttempt, EndAttempt, Claim, RefuseClaim, RecordRefusal, Heartbeat,
           Prepare, Observe, Commit, scheduler
  <2>. QED BY <1>1, <2>1 DEF Types, SchedulerTypes, PassTypes
<1>3. ExecutorTypes'
  <2>1. ASSUME NEW k \in Targets, StartAttempt(k) PROVE ExecutorTypes'
    BY <2>1 DEF StartAttempt, Types, ExecutorTypes
  <2>2. CASE EndAttempt
    BY <2>2 DEF EndAttempt, Ended, Types, ExecutorTypes, LateErrors
  <2>3. CASE Claim
    BY <2>3 DEF Claim, Types, ExecutorTypes
  <2>4. CASE RefuseClaim
    BY <2>4 DEF RefuseClaim, ContractError, Types, ExecutorTypes, LateErrors
  <2>5. CASE RecordRefusal
    BY <2>5 DEF RecordRefusal, Types, ExecutorTypes, LateErrors
  <2>6. CASE Observe
    BY <2>6 DEF Observe, Types, GithubTypes, ExecutorTypes
  <2>7. CASE Heartbeat \/ Prepare \/ Commit
    BY <2>7 DEF Heartbeat, Prepare, Commit, Types, ExecutorTypes, executors
  <2>. QED BY <2>1, <2>2, <2>3, <2>4, <2>5, <2>6, <2>7 DEF Executor
<1>4. item' \in Items
  <2>1. CASE Prepare \/ Commit
    BY <1>0, <1>00, <2>1 DEF Prepare, Commit, Items
  <2>2. CASE UNCHANGED item
    BY <1>0, <2>2
  <2>. QED BY <2>1, <2>2 DEF Executor, StartAttempt, EndAttempt, Claim, RefuseClaim, RecordRefusal,
                             Heartbeat, Observe, store
<1>5. msg' \in Messages
  <2>1. CASE RecordRefusal
    BY <1>0, <1>00, <2>1, HoldMessageType DEF RecordRefusal, Types, ExecutorTypes
  <2>2. CASE Claim \/ Commit
    BY <1>0, <1>00, <2>2 DEF Claim, Commit, Completed, Messages
  <2>3. CASE UNCHANGED msg
    BY <1>0, <2>3
  <2>. QED BY <2>1, <2>2, <2>3 DEF Executor, StartAttempt, EndAttempt, RefuseClaim, Heartbeat,
                                   Prepare, Observe, store
<1>6. watch' \in Watches
  <2>1. CASE Claim \/ Heartbeat \/ Prepare
    BY <1>0, <2>1, NoTries DEF Claim, Heartbeat, Prepare, Watches
  <2>3. CASE Commit
    BY <2>3, NoTries DEF Commit, Watches
  <2>2. CASE UNCHANGED watch
    BY <1>0, <2>2
  <2>. QED BY <2>1, <2>2, <2>3 DEF Executor, StartAttempt, EndAttempt, RefuseClaim, RecordRefusal,
                                   Observe, store
<1>7. receipt' \in {receipt, NoRevision} /\ packet' \in Packets /\ heir' = heir
  BY <1>0 DEF Executor, StartAttempt, EndAttempt, Claim, RefuseClaim, RecordRefusal, Heartbeat,
         Prepare, Observe, Commit, store, Packets
<1>. QED BY <1>0, <1>1, <1>2, <1>3, <1>4, <1>5, <1>6, <1>7 DEF Types, GithubTypes, StoreTypes, github

LEMMA SupervisorTypes ==
    ASSUME Types, Supervisor
    PROVE  Types'
<1>0. /\ item \in Items /\ msg \in Messages /\ watch \in Watches /\ wake \in Wakes
      /\ StoreTypes /\ SchedulerTypes /\ sup \in Passes
  BY DEF Types, StoreTypes, SchedulerTypes, PassTypes
<1>00. Phase(msg.state) \in Phases
  BY DEF Phase, Phases
<1>1. UNCHANGED <<github, heir, receipt, packet, attempt, claimer, watched, late, evidence>>
  BY DEF Supervisor, BeginPass, CheckContract, HoldStale, ReserveWake, ReserveTerminalWatch, Submit,
         Abandon, Crash, Unacknowledged, store, executors
<1>2. PassTypes'
  <2>1. CASE BeginPass
    BY <1>0, <2>1 DEF BeginPass, EndOfMessages, PassTypes, Passes
  <2>2. CASE CheckContract
    BY <1>0, <2>2 DEF CheckContract, ContractError, EndOfMessages, SchedulerTypes, PassTypes, Passes
  <2>3. CASE ReserveWake
    BY <1>00, <2>3 DEF ReserveWake, EndOfMessages, PassTypes, Passes
  <2>4. CASE ReserveTerminalWatch
    BY <1>0, <2>4 DEF ReserveTerminalWatch, ReserveLaunch, Idle, SchedulerTypes, PassTypes, Passes
  <2>5. CASE sup' \in {EndOfMessages, Idle, sup}
    BY <1>0, <2>5 DEF EndOfMessages, Idle, SchedulerTypes, PassTypes, Passes
  <2>. QED BY <2>1, <2>2, <2>3, <2>4, <2>5 DEF Supervisor, HoldStale, Submit, Abandon, Crash,
                                               Unacknowledged, AfterSubmit
<1>3. launch' \in Phases \cup {None, "watch"} /\ child' \subseteq Targets
  <2>1. sup.pc = "submit" => sup.seen \in Phases \cup {"watch"}
    BY <1>0 DEF SchedulerTypes, PassTypes
  <2>. QED BY <1>0, <2>1
           DEF Supervisor, BeginPass, CheckContract, HoldStale, ReserveWake, ReserveTerminalWatch,
               Submit, Abandon, Crash, Unacknowledged, executors, Types, SchedulerTypes,
               ExecutorTypes, Target, Targets
<1>4. item' \in Items /\ msg' \in Messages /\ watch' \in Watches /\ wake' \in Wakes
  <2>1. CASE BeginPass
    <3>1. wake' \in Wakes
      BY <1>0, <2>1 DEF BeginPass, Wakes
    <3>. QED BY <1>0, <2>1, <3>1 DEF BeginPass, store
  <2>2. CASE HoldStale
    <3>1. msg' \in Messages
      BY <1>0, <2>2, HoldMessageType DEF HoldStale, SchedulerTypes, PassTypes, Errors
    <3>. QED BY <1>0, <2>2, <3>1 DEF HoldStale
  <2>3. CASE ReserveWake
    <3>. DEFINE p == Phase(msg.state)
    <3>1. CASE HoldMessage(ContractError) /\ UNCHANGED <<wake, item, watch>>
      BY <1>0, <3>1, HoldMessageType DEF ContractError, Errors
    <3>2. CASE Exhaust(p)
      BY <1>0, <1>00, <3>2, ExhaustType
    <3>3. CASE /\ wake[p].n < MaxTries /\ UNCHANGED <<item, msg, watch>>
               /\ wake' = [wake EXCEPT ![p] = [state |-> "INFLIGHT", n |-> @.n + 1]]
      <4>1. wake[p].n \in 0..MaxTries
        BY <1>0, <1>00, WakeWrite, NoTries
      <4>2. wake[p].n + 1 \in 0..MaxTries
        BY <3>3, <4>1, TriesAssumption
      <4>. QED BY <1>0, <1>00, <3>3, <4>2, WakeWrite
    <3>4. CASE UNCHANGED <<wake, item, msg, watch>>
      BY <1>0, <3>4
    <3>. QED BY <2>3, <3>1, <3>2, <3>3, <3>4 DEF ReserveWake
  <2>4. CASE ReserveTerminalWatch
    <3>1. watch.tries < MaxTries => watch.tries + 1 \in 0..MaxTries
      BY <1>0, TriesAssumption DEF Watches
    <3>2. \/ watch' = watch
          \/ watch' = [state |-> "HOLD", error |-> "BINDING", tries |-> 0]
          \/ watch' = [state |-> "HOLD", error |-> "RETRY", tries |-> 0]
          \/ watch.tries < MaxTries /\ watch' = [watch EXCEPT !.tries = watch.tries + 1]
      BY <2>4, Zenon DEF ReserveTerminalWatch, ReserveLaunch, Count
    <3>3. watch' \in Watches
      BY <1>0, <3>1, <3>2, NoTries DEF Watches
    <3>. QED BY <1>0, <2>4, <3>3 DEF ReserveTerminalWatch
  <2>5. CASE Abandon
    <3>1. CASE UNCHANGED <<wake, item, msg, watch>>
      BY <1>0, <3>1
    <3>2. CASE sup.seen \in Phases /\ Exhaust(sup.seen)
      BY <1>0, <3>2, ExhaustType
    <3>3. CASE /\ watch' = [state |-> "HOLD", error |-> "RETRY", tries |-> 0]
               /\ UNCHANGED <<wake, item, msg>>
      BY <1>0, <3>3, NoTries DEF Watches
    <3>. QED BY <2>5, <3>1, <3>2, <3>3 DEF Abandon
  <2>6. CASE Unacknowledged
    <3>1. /\ wake' = wake \/ \E p \in Phases : wake' = [wake EXCEPT ![p].state = "HOLD"]
          /\ watch' = watch \/ watch' = [state |-> "HOLD", error |-> "LAUNCH", tries |-> 0]
          /\ UNCHANGED <<item, msg>>
      BY <2>6, Zenon DEF Unacknowledged
    <3>2. wake' \in Wakes
      BY <1>0, <3>1, WakeWrite, NoTries
    <3>3. watch' \in Watches
      BY <1>0, <3>1, NoTries DEF Watches
    <3>. QED BY <1>0, <3>1, <3>2, <3>3
  <2>7. CASE UNCHANGED <<wake, item, msg, watch>>
    BY <1>0, <2>7
  <2>. QED BY <2>1, <2>2, <2>3, <2>4, <2>5, <2>6, <2>7 DEF Supervisor, CheckContract, Submit, Crash, store
<1>. QED BY <1>1, <1>2, <1>3, <1>4
         DEF Types, GithubTypes, StoreTypes, SchedulerTypes, ExecutorTypes, github

LEMMA NextTypes == Types /\ [Next]_vars => Types'
<1>1. Types /\ UNCHANGED vars => Types'
  BY DEF Types, GithubTypes, StoreTypes, SchedulerTypes, PassTypes, ExecutorTypes, vars, github,
         store, scheduler, executors
<1>. QED BY <1>1, OutsideTypes, PlannerTypes, SupervisorTypes, ExecutorStepTypes, PublisherTypes
         DEF Next

\* Every reachable state of item, admission, watch, packet, wakes and processes has its
\* type.
THEOREM LineageTypes == Spec => []TypeOK
<1>. QED BY TypesSuffice, InitTypes, NextTypes, PTL DEF Spec

-----------------------------------------------------------------------------
LEMMA InitLineage == Init => LineageInv
BY InitTypes
   DEF Init, LineageInv, BeforeAdmission, RowKinds, OpenWatchRuns, HeirFollows,
       ReceiptIsLater, ClaimerIsAttempt,
       CloseoutIsWhole, PublicationKeepsCapacity, PacketOnAdmittedSource, WorkIsReserved,
       NoWriterAfterExhaustion, Executing, None

\* The columns the invariant reads, as plain values.
LEMMA RowTypes ==
    ASSUME Types
    PROVE  /\ item \in Items /\ msg \in Messages /\ watch \in Watches
           /\ db \in Revisions /\ live \in Revisions
           /\ msg.source \in Revisions
           /\ db.own \in Nat /\ live.own \in Nat /\ msg.source.own \in Nat
BY BoundsAssumption DEF Types, GithubTypes, StoreTypes, Items, Messages, Revisions

\* A step of the supervisor, or of an executor, that at most stops a watch.
LEMMA QuietStep ==
    ASSUME LineageInv, Types',
           UNCHANGED <<github, item, msg, heir, receipt, packet, attempt, claimer>>,
           \/ watch'.state = watch.state /\ watch'.error = watch.error
           \/ watch.state = "ACTIVE" /\ watch'.state = "HOLD"
    PROVE  LineageInv'
BY DEF LineageInv, BeforeAdmission, RowKinds, OpenWatchRuns, HeirFollows,
       ReceiptIsLater, ClaimerIsAttempt,
       CloseoutIsWhole, PublicationKeepsCapacity, PacketOnAdmittedSource, WorkIsReserved,
       NoWriterAfterExhaustion, github, Reserved

\* An open message is held, for anything but exhaustion.
LEMMA HoldStep ==
    ASSUME LineageInv, Types', NEW e \in Errors \ {"EXHAUSTED"}, HoldMessage(e),
           UNCHANGED <<github, item, watch, heir, receipt, packet, attempt, claimer>>
    PROVE  LineageInv'
<1>1. /\ msg'.source = msg.source
      /\ \/ msg' = msg
         \/ msg.state \in Open /\ msg'.state = "HOLD" /\ msg'.error # "EXHAUSTED"
  BY RowTypes DEF LineageInv, HoldMessage, Messages
<1>. QED BY <1>1
         DEF LineageInv, BeforeAdmission, RowKinds, OpenWatchRuns, HeirFollows,
             ReceiptIsLater, ClaimerIsAttempt,
             CloseoutIsWhole, PublicationKeepsCapacity, PacketOnAdmittedSource, WorkIsReserved,
             NoWriterAfterExhaustion, github, Reserved, Open

\* Exhaustion retains the item only where nobody works.
LEMMA ExhaustStep ==
    ASSUME LineageInv, Types', NEW p \in Phases, Exhaust(p),
           UNCHANGED <<github, heir, receipt, packet, attempt, claimer>>
    PROVE  LineageInv'
<1>1. CASE msg.state = "PREPARED"
  <2>1. /\ item'.status = "HOLD" /\ item'.alloc = "RETAINED" /\ item'.gen = item.gen
        /\ watch'.state = "HOLD" /\ watch.state = "PENDING_CLAIM" /\ attempt = None
    <3>1. /\ item' = [item EXCEPT !.status = "HOLD", !.alloc = "RETAINED"]
          /\ watch' = [state |-> "HOLD", error |-> "EXHAUSTED", tries |-> 0] /\ Unclaimed
      BY <1>1 DEF Exhaust
    <3>2. item \in Items
      BY RowTypes DEF LineageInv
    <3>. QED BY <3>1, <3>2 DEF Unclaimed, LineageFree, Items
  <2>2. msg'.state = "HOLD" /\ msg'.source = msg.source
    BY <1>1, RowTypes DEF LineageInv, Exhaust, HoldMessage, Messages, Open
  <2>. QED BY <1>1, <2>1, <2>2
           DEF LineageInv, BeforeAdmission, RowKinds, OpenWatchRuns, HeirFollows,
               ReceiptIsLater, ClaimerIsAttempt,
               CloseoutIsWhole, PublicationKeepsCapacity, PacketOnAdmittedSource, WorkIsReserved,
               NoWriterAfterExhaustion, github, Reserved, Executing, None
<1>2. CASE msg.state # "PREPARED"
  BY <1>2, HoldStep DEF Exhaust, Errors
<1>. QED BY <1>1, <1>2

LEMMA SupervisorStep ==
    ASSUME LineageInv, Supervisor
    PROVE  LineageInv'
<1>0. Types /\ Types' /\ watch \in Watches
  BY SupervisorTypes, RowTypes DEF LineageInv
<1>00. UNCHANGED <<github, heir, receipt, packet, attempt, claimer>>
  BY DEF Supervisor, BeginPass, CheckContract, HoldStale, ReserveWake, ReserveTerminalWatch, Submit,
         Abandon, Crash, Unacknowledged, store, executors
<1>1. CASE BeginPass \/ CheckContract \/ Submit \/ Crash
  <2>1. UNCHANGED <<item, msg, watch>>
    BY <1>1 DEF BeginPass, CheckContract, Submit, Crash, store
  <2>. QED BY <1>0, <1>00, <2>1, QuietStep
<1>2. CASE HoldStale
  <2>1. sup.seen \in Errors \ {"EXHAUSTED"}
    BY <1>0, <1>2 DEF HoldStale, Types, SchedulerTypes, PassTypes, Errors
  <2>. QED BY <1>0, <1>00, <1>2, <2>1, HoldStep DEF HoldStale
<1>3. CASE ReserveWake
  <2>1. Phase(msg.state) \in Phases
    BY DEF Phase, Phases
  <2>2. ContractError \in Errors \ {"EXHAUSTED"}
    BY DEF ContractError, Errors, None
  <2>3. CASE HoldMessage(ContractError) /\ UNCHANGED <<item, watch>>
    BY <1>0, <1>00, <2>2, <2>3, HoldStep
  <2>4. CASE Exhaust(Phase(msg.state))
    BY <1>0, <1>00, <2>1, <2>4, ExhaustStep
  <2>5. CASE UNCHANGED <<item, msg, watch>>
    BY <1>0, <1>00, <2>5, QuietStep
  <2>. QED BY <1>3, <2>3, <2>4, <2>5 DEF ReserveWake
<1>4. CASE ReserveTerminalWatch
  <2>1. UNCHANGED <<item, msg>>
    BY <1>4 DEF ReserveTerminalWatch
  <2>2. \/ watch'.state = watch.state /\ watch'.error = watch.error
        \/ watch.state = "ACTIVE" /\ watch'.state = "HOLD"
    BY <1>0, <1>4 DEF ReserveTerminalWatch, ReserveLaunch, Watches
  <2>. QED BY <1>0, <1>00, <2>1, <2>2, QuietStep
<1>5. CASE Abandon
  <2>1. CASE UNCHANGED <<item, msg, watch>>
    BY <1>0, <1>00, <2>1, QuietStep
  <2>2. CASE sup.seen \in Phases /\ Exhaust(sup.seen)
    BY <1>0, <1>00, <2>2, ExhaustStep
  <2>3. CASE /\ watch.state = "ACTIVE" /\ UNCHANGED <<item, msg>>
             /\ watch' = [state |-> "HOLD", error |-> "RETRY", tries |-> 0]
    <3>1. watch'.state = "HOLD"
      BY <2>3
    <3>. QED BY <1>0, <1>00, <2>3, <3>1, QuietStep
  <2>. QED BY <1>5, <2>1, <2>2, <2>3 DEF Abandon
<1>6. CASE Unacknowledged
  <2>1. UNCHANGED <<item, msg>>
    BY <1>6 DEF Unacknowledged
  <2>2. \/ watch'.state = watch.state /\ watch'.error = watch.error
        \/ watch.state = "ACTIVE" /\ watch'.state = "HOLD"
    BY <1>0, <1>6 DEF Unacknowledged, Watches
  <2>. QED BY <1>0, <1>00, <2>1, <2>2, QuietStep
<1>. QED BY <1>1, <1>2, <1>3, <1>4, <1>5, <1>6 DEF Supervisor

\* GitHub and the publisher only move revisions forward.
LEMMA RevisionStep ==
    ASSUME LineageInv, Outside \/ Publisher
    PROVE  LineageInv'
<1>0. Types /\ Types'
  BY OutsideTypes, PublisherTypes DEF LineageInv
<1>1. UNCHANGED <<item, msg, watch, heir, receipt, attempt, claimer>>
  BY DEF Outside, Foreign, OwnComment, Sync, Publisher, PublisherSync, PublisherPost, store, executors
<1>2. db'.own >= db.own /\ db'.own <= live'.own /\ db'.own \in Nat
  <2>1. live' \in {live, Commented(live), [live EXCEPT !.foreign = @ + 1]} /\ db' \in {db, live}
    BY DEF Outside, Foreign, OwnComment, Sync, Publisher, PublisherSync, PublisherPost
  <2>2. live'.own >= live.own /\ live'.own \in Nat
    BY <1>0, <2>1, RowTypes DEF Commented, Revisions
  <2>3. live.own >= db.own /\ live.own \in Nat /\ db.own \in Nat
    BY <1>0, RowTypes DEF LineageInv, ReceiptIsLater
  <2>. QED BY <2>1, <2>2, <2>3
<1>3. \/ packet' = packet
      \/ packet \in {"open", "checked"} /\ packet' \in {"open", "checked", "published"}
  BY DEF Outside, Foreign, OwnComment, Sync, Publisher, PublisherSync, PublisherPost, store
<1>4. ReceiptIsLater'
  BY <1>0, <1>1, <1>2, RowTypes DEF LineageInv, ReceiptIsLater
<1>. QED BY <1>0, <1>1, <1>3, <1>4
         DEF LineageInv, BeforeAdmission, RowKinds, OpenWatchRuns, HeirFollows, ClaimerIsAttempt,
             CloseoutIsWhole, PublicationKeepsCapacity, PacketOnAdmittedSource, WorkIsReserved,
             NoWriterAfterExhaustion, Reserved, None

\* The ranks of the statuses a lineage has.
LEMMA LineageRanks ==
    /\ StatusRank["ABSENT"] = 0 /\ StatusRank["PREPARED"] = 1 /\ StatusRank["READY"] = 2
    /\ StatusRank["ACTIVE"] = 3 /\ StatusRank["PUBLICATION_PENDING"] = 4
    /\ StatusRank["HOLD"] = 5 /\ StatusRank["DONE"] = 6
BY DEF StatusRank, Statuses

\* Within its generation an ordinary call only moves the row on.
LEMMA PlanMovesOn ==
    ASSUME item \in Items, db \in Sources, Plan, item'.gen = item.gen
    PROVE  /\ item'.status \in {"PREPARED", "READY"} => item.status \in {"ABSENT", "PREPARED", "READY"}
           /\ item'.status = "ACTIVE" => item.status = "ACTIVE"
           /\ item.status = "PUBLICATION_PENDING" => item'.status \in {"HOLD", "DONE"}
           /\ item.status = "HOLD" => item'.status = "HOLD"
           /\ item.status = "DONE" => item'.status = "DONE"
<1>1. /\ item.status = "HOLD" => item'.status = "HOLD"
      /\ StatusRank[item'.status] >= StatusRank[item.status]
      /\ item'.status \in {"PREPARED", "READY", "ACTIVE", "HOLD", "DONE"}
      /\ item'.status = "ACTIVE" => Runs(item)
  BY PlanEffect
<1>2. item.status \in Statuses /\ (Runs(item) => item.status \in {"ACTIVE", "PUBLICATION_PENDING"})
  BY DEF Items, Runs, Executing
<1>. QED BY <1>1, <1>2, LineageRanks DEF Statuses

LEMMA PlannerStep ==
    ASSUME LineageInv, Planner
    PROVE  LineageInv'
<1>0. Types /\ Types'
  BY PlannerTypes DEF LineageInv
<1>00. /\ item \in Items /\ msg \in Messages /\ watch \in Watches
       /\ msg.source \in Revisions /\ db \in Revisions
  BY <1>0, RowTypes
<1>000. UNCHANGED <<github, packet, attempt, claimer>>
  BY DEF Planner, Plan, FinalizeReady, Admit, HoldUnclaimed, RecoverUnclaimed, RearmSource, Park,
         scheduler, executors
<1>. USE DEF LineageInv, BeforeAdmission, RowKinds, OpenWatchRuns, HeirFollows,
             ReceiptIsLater, ClaimerIsAttempt,
             CloseoutIsWhole, PublicationKeepsCapacity, PacketOnAdmittedSource, WorkIsReserved,
             NoWriterAfterExhaustion, Reserved, Executing, github
<1>1. CASE Plan
  <2>1. UNCHANGED <<msg, receipt>>
    BY <1>1 DEF Plan
  <2>2. /\ item'.status \in {"PREPARED", "READY", "ACTIVE", "HOLD", "DONE"} /\ ~item'.named
        /\ item'.status = "ACTIVE" <=> item'.alloc = "ACTIVE"
        /\ item'.gen = item.gen \/ item'.gen = 1
        /\ item'.gen = 1 => item'.status \in {"PREPARED", "HOLD", "ACTIVE"}
        /\ Reserved => item'.alloc # "NONE" /\ item'.status # "DONE"
    BY <1>00, <1>1, PlanEffect DEF Sources
  <2>3. item'.gen = item.gen =>
           /\ item'.status \in {"PREPARED", "READY"} => item.status \in {"ABSENT", "PREPARED", "READY"}
           /\ item'.status = "ACTIVE" => item.status = "ACTIVE"
           /\ item.status = "PUBLICATION_PENDING" => item'.status \in {"HOLD", "DONE"}
           /\ item.status = "HOLD" => item'.status = "HOLD"
           /\ item.status = "DONE" => item'.status = "DONE"
    BY <1>00, <1>1, PlanMovesOn DEF Sources
  <2>4. IF item'.status = "ACTIVE" THEN WatchGoesOn(item') ELSE WatchesEnd
    BY <1>00, <1>1, PlanEffect DEF Sources
  <2>5. item.gen \in {0, 1}
    BY <1>00 DEF Items
  <2>6. CASE item'.status # "ACTIVE"
    <3>1. /\ watch'.state \notin {"PENDING_CLAIM", "ACTIVE"}
          /\ watch.state \in {"ABSENT", "COMPLETE", "HOLD"} => watch' = watch
          /\ watch' = watch \/ (watch'.state = "COMPLETE" /\ watch'.error = None)
          /\ heir = "ABSENT" => heir' = "ABSENT"
      BY <1>00, <2>4, <2>6, ClosedType DEF WatchesEnd, Closed
    <3>. QED BY <1>0, <1>000, <2>1, <2>2, <2>3, <2>5, <2>6, <3>1 DEF None
  <2>7. CASE item'.status = "ACTIVE" /\ item'.gen = item.gen
    <3>1. /\ watch'.state = watch.state /\ watch'.error = watch.error
          /\ heir' = heir
      BY <1>00, <2>4, <2>5, <2>7 DEF WatchGoesOn, Watches
    <3>. QED BY <1>0, <1>000, <2>1, <2>2, <2>3, <2>5, <2>7, <3>1 DEF None
  <2>8. CASE item'.status = "ACTIVE" /\ item'.gen # item.gen
    <3>1. /\ watch'.state # "ACTIVE" /\ item.gen = 0 /\ item'.gen = 1
          /\ watch' = watch \/ (watch'.state = "COMPLETE" /\ watch'.error = None)
          /\ watch.state = "COMPLETE" => watch' = watch
      BY <1>00, <2>2, <2>4, <2>5, <2>8, ClosedType DEF WatchGoesOn, Superseded
    <3>. QED BY <1>0, <1>000, <2>1, <2>2, <2>5, <2>8, <3>1 DEF None
  <2>. QED BY <2>6, <2>7, <2>8
<1>2. CASE FinalizeReady
  <2>1. /\ item.status = "PREPARED" /\ item.gen = 0 /\ item'.status = "READY" /\ item'.gen = 0
        /\ item.alloc = "NONE" /\ item'.alloc = "NONE" /\ UNCHANGED <<msg, watch, heir, receipt>>
    BY <1>00, <1>2 DEF FinalizeReady, Items, Reserved
  <2>. QED BY <1>0, <1>000, <2>1
<1>3. CASE Admit
  <2>1. /\ item.status = "READY" /\ item'.status = "ACTIVE" /\ item'.alloc = "ACTIVE"
        /\ item'.gen = item.gen /\ UNCHANGED heir
        /\ watch'.state = "PENDING_CLAIM" /\ watch'.error = watch.error
        /\ msg'.state = "PREPARED" /\ UNCHANGED receipt
    BY <1>00, <1>3 DEF Admit, AdmissionBound, Items, Watches
  <2>. QED BY <1>0, <1>000, <2>1
<1>4. CASE HoldUnclaimed
  <2>1. /\ msg.state = "PREPARED" /\ watch.state = "PENDING_CLAIM" /\ item.status = "ACTIVE"
        /\ item'.status = "HOLD" /\ item'.alloc = "RETAINED" /\ item'.gen = item.gen
        /\ watch'.state = "HOLD" /\ watch'.error = "PLANNER"
        /\ msg'.state = "HOLD" /\ msg'.error = "PLANNER"
        /\ msg'.source = msg.source /\ UNCHANGED <<heir, receipt>>
    BY <1>00, <1>4 DEF HoldUnclaimed, Items, Watches, Messages
  <2>. QED BY <1>0, <1>000, <2>1
<1>5. CASE RecoverUnclaimed
  <2>1. /\ item'.status = "PREPARED" /\ item'.alloc = "NONE" /\ item'.gen = 1
        /\ watch.state = "HOLD" /\ attempt = None /\ packet = None
        /\ UNCHANGED <<msg, watch, heir, receipt>>
    BY <1>00, <1>5 DEF RecoverUnclaimed, ExhaustedTogether, NoTerminalWork, LineageFree, Items
  <2>. QED BY <1>0, <1>000, <2>1 DEF None
<1>6. CASE RearmSource
  <2>1. /\ item.status = "ACTIVE" /\ item.gen = 0 /\ watch'.state = "ACTIVE" /\ watch'.error = None
        /\ packet = None
        /\ msg'.state = "CLAIMED" /\ msg'.source = msg.source /\ receipt' = db
        /\ UNCHANGED <<item, heir>> /\ msg.state = "HOLD"
    BY <1>00, <1>6 DEF RearmSource, RearmPermitted, Messages
  <2>2. db.own = msg.source.own + 1 /\ db.own <= db.own
    BY <1>00, <1>6, BoundsAssumption DEF RearmSource, RearmPermitted, Commented, Revisions
  <2>. QED BY <1>0, <1>000, <2>1, <2>2 DEF None
<1>7. CASE Park
  <2>1. /\ item'.status = "PREPARED" /\ item'.alloc = "NONE" /\ item'.gen = 1
        /\ attempt = None /\ claimer # "RUNNING" /\ packet = None /\ watch'.state = "COMPLETE" /\ watch'.error = None /\ UNCHANGED <<msg, receipt>>
    BY <1>00, <1>7 DEF Park, ParkPermitted, ParkLineage, ParkLiveness, ClaimEnded, LineageFree,
                       WatchesEnd, Closed, Items, Watches
  <2>. QED BY <1>0, <1>000, <2>1 DEF None
<1>. QED BY <1>1, <1>2, <1>3, <1>4, <1>5, <1>6, <1>7 DEF Planner

\* A closeout is prepared on the admitted revision only: under a receipt the snapshot
\* is already past it, and snapshots do not come back.
LEMMA PrepareHasNoReceipt ==
    ASSUME LineageInv, Prepare
    PROVE  receipt = NoRevision
<1>1. db = msg.source
  BY DEF Prepare, PreparePermitted, SnapshotIsBound
<1>2. db.own \in Nat
  BY RowTypes DEF LineageInv
<1>. QED BY <1>1, <1>2 DEF LineageInv, ReceiptIsLater

LEMMA ExecutorStep ==
    ASSUME LineageInv, Executor
    PROVE  LineageInv'
<1>0. Types /\ Types'
  BY ExecutorStepTypes DEF LineageInv
<1>00. item \in Items /\ msg \in Messages /\ watch \in Watches
  BY <1>0, RowTypes
<1>1. CASE RefuseClaim \/ Heartbeat \/ Observe
  <2>1. /\ UNCHANGED <<github, item, msg, heir, receipt, packet, attempt, claimer>>
        /\ watch'.state = watch.state /\ watch'.error = watch.error
    BY <1>00, <1>1 DEF RefuseClaim, Heartbeat, Observe, store, executors, Watches
  <2>. QED BY <1>0, <2>1, QuietStep
<1>2. CASE RecordRefusal
  <2>1. late \in Errors \ {"EXHAUSTED"}
    BY <1>0 DEF Types, ExecutorTypes, LateErrors, Errors, None
  <2>. QED BY <1>0, <1>2, <2>1, HoldStep DEF RecordRefusal
<1>. USE DEF LineageInv, BeforeAdmission, RowKinds, OpenWatchRuns, HeirFollows,
             ReceiptIsLater, ClaimerIsAttempt,
             CloseoutIsWhole, PublicationKeepsCapacity, PacketOnAdmittedSource, WorkIsReserved,
             NoWriterAfterExhaustion, Reserved, Executing, github
<1>3. ASSUME NEW k \in Targets, StartAttempt(k) PROVE LineageInv'
  <2>1. UNCHANGED <<github, store, claimer>>
    BY <1>3 DEF StartAttempt
  <2>2. \/ attempt' = attempt
        \/ attempt = None /\ attempt' = "message" /\ msg.state \in Open
        \/ /\ attempt = None /\ attempt' = "watch" /\ watch.state = "ACTIVE"
           /\ msg.state \in {"CLAIMED", "COMPLETE"}
    BY <1>3 DEF StartAttempt, LineageFree, TargetValid, MessageTargetValid, WatchTargetValid, Targets
  <2>. QED BY <1>0, <2>1, <2>2 DEF store, Open, None
<1>4. CASE EndAttempt
  <2>1. /\ UNCHANGED <<github, store>> /\ attempt' = None
        /\ claimer' # "RUNNING"
    BY <1>4 DEF EndAttempt, Ended
  <2>. QED BY <1>0, <2>1 DEF store, None
<1>5. CASE Claim
  <2>1. /\ attempt = "message" /\ item.status \in {"ACTIVE", "PUBLICATION_PENDING"} /\ item.gen = 0
        /\ msg.state \in Open /\ watch'.state = "ACTIVE" /\ watch'.error = watch.error
        /\ msg'.state = "CLAIMED"
        /\ msg'.source = msg.source /\ receipt' \in {receipt, NoRevision} /\ claimer' = "RUNNING"
        /\ UNCHANGED <<github, item, heir, packet, attempt>>
    BY <1>00, <1>5 DEF Claim, ContractError, ItemMatches, Claimable, Open, Messages, Watches, None
  <2>2. watch.state \in {"PENDING_CLAIM", "ACTIVE"}
    BY <1>5 DEF Claim, Claimable
  <2>. QED BY <1>0, <2>1, <2>2 DEF Open, None
<1>6. CASE Prepare
  <2>1. /\ receipt = NoRevision /\ packet' = "open" /\ item.status = "ACTIVE" /\ item.gen = 0
        /\ item'.status = "PUBLICATION_PENDING" /\ item'.gen = 0 /\ item'.alloc = item.alloc
        /\ watch.state = "ACTIVE" /\ watch'.state = watch.state /\ watch'.error = watch.error
        /\ msg.state = "CLAIMED" /\ UNCHANGED <<github, msg, heir, receipt, attempt, claimer>>
    BY <1>00, <1>6, PrepareHasNoReceipt
       DEF Prepare, PreparePermitted, Items, Watches, executors
  <2>. QED BY <1>0, <2>1 DEF None
<1>7. CASE Commit
  <2>1. /\ packet = "published" /\ packet' = "committed" /\ item.gen = 0
        /\ item'.status = "DONE" /\ item'.gen = 0
        /\ item'.alloc = "NONE" /\ watch'.state = "COMPLETE" /\ watch'.error = None /\ msg'.state = "COMPLETE" /\ msg'.source = msg.source
        /\ UNCHANGED <<github, heir, receipt, attempt, claimer>>
    BY <1>00, <1>7 DEF Commit, CommitPermitted, Completed, Items, Watches, Messages, executors
  <2>. QED BY <1>0, <2>1 DEF None
<1>. QED BY <1>1, <1>2, <1>3, <1>4, <1>5, <1>6, <1>7 DEF Executor

LEMMA NextLineage == LineageInv /\ [Next]_vars => LineageInv'
<1>1. LineageInv /\ UNCHANGED vars => LineageInv'
  <2>. SUFFICES ASSUME LineageInv, UNCHANGED vars PROVE LineageInv'
    OBVIOUS
  <2>1. Types'
    BY NextTypes DEF LineageInv
  <2>. QED BY <2>1, QuietStep DEF vars, github, store, executors
<1>. QED BY <1>1, SupervisorStep, RevisionStep, PlannerStep, ExecutorStep DEF Next

LEMMA LineageInvariant == Spec => []LineageInv
BY InitLineage, NextLineage, PTL DEF Spec

\* From the first packet to the commit the closeout stays one piece: on the admitted
\* source, on capacity that is still reserved, closed everywhere or nowhere, whatever
\* planner, supervisor, publisher and late executors do in between.
THEOREM CloseoutsKept == Spec => []CloseoutKept
<1>1. LineageInv => CloseoutKept
  BY DEF LineageInv, CloseoutKept
<1>. QED BY <1>1, LineageInvariant, PTL

\* Whoever works on the lineage works on reserved capacity or has just committed, and an
\* admission whose retries are spent has no running attempt, however late a child starts.
THEOREM WritersRespected == Spec => []WritersKept
<1>1. LineageInv => WritersKept
  BY DEF LineageInv, WritersKept
<1>. QED BY <1>1, LineageInvariant, PTL

-----------------------------------------------------------------------------
(***************************************************************************)
(* No executor starts on the admission once its closeout is prepared.  A   *)
(* child submitted long ago may still start, so the invariant follows who  *)
(* may still be on the way: the first claim is made by the one child that  *)
(* was launched for it, and while the claimed watch is ACTIVE nobody is    *)
(* launched for the admission again.                                       *)
(***************************************************************************)
Submitting == sup.pc = "submit" /\ sup.seen \in Phases

\* An executor for the admission is submitted, or about to be.
Launching == "message" \in child \/ Submitting

\* Claim attempt, admission and watch leave their first states together.
ClaimFollowsStart ==
    /\ claimer = None => msg.state \notin {"CLAIMED", "COMPLETE"}
    /\ msg.state = "PREPARED" \/ watch.state \in {"ABSENT", "PENDING_CLAIM"} => claimer = None

\* Between reservation and submission there is no other intent, and the wake is INFLIGHT.
PassLaunches ==
    /\ sup.pc \in {"reserve", "submit"} => launch = None
    /\ Submitting => wake[sup.seen].state = "INFLIGHT"
    /\ claimer = None /\ Submitting => sup.seen = "prepared"

Spent == wake["prepared"].state \in {"HOLD", "COMPLETE"}

\* Before the first claim a child is accounted for by the intent or by a spent wake, and
\* once it runs there is no second one.
OneStarts ==
    /\ claimer = None /\ "message" \in child => launch = "prepared" \/ Spent
    /\ claimer = None /\ attempt = "message" => ~Launching /\ (sup.pc = "reserve" => Spent)

\* A rearmed admission may meet a late child; it has a receipt.
NoneWhileWatched ==
    claimer # None /\ watch.state = "ACTIVE" /\ receipt = NoRevision => ~Launching

NoneAfterPacket == packet # None => claimer # None /\ ~Launching

LaunchInv == ClaimFollowsStart /\ PassLaunches /\ OneStarts /\ NoneWhileWatched /\ NoneAfterPacket

LEMMA InitLaunch == Init => LaunchInv
BY DEF Init, LaunchInv, ClaimFollowsStart, PassLaunches, Submitting, Launching, OneStarts,
       NoneWhileWatched, NoneAfterPacket, Idle, None, Spent

\* The admission and its watch at most stop.
Stops ==
    /\ msg'.state \in {msg.state, "HOLD"}
    /\ watch'.state \in {watch.state, "HOLD", "COMPLETE"}
    /\ packet' = None <=> packet = None
    /\ UNCHANGED <<receipt, claimer, child, attempt>>

LEMMA HoldStops ==
    ASSUME msg \in Messages, NEW e \in Errors, HoldMessage(e)
    PROVE  msg'.state \in {msg.state, "HOLD"}
BY DEF HoldMessage, Messages

LEMMA ExhaustStops ==
    ASSUME Types, NEW p \in Phases, Exhaust(p)
    PROVE  /\ msg'.state \in {msg.state, "HOLD"} /\ watch'.state \in {watch.state, "HOLD"}
           /\ wake' = [wake EXCEPT ![p].state = "HOLD"]
<1>1. msg \in Messages /\ watch \in Watches
  BY RowTypes
<1>2. \/ HoldMessage("EXHAUSTED") /\ watch' = [state |-> "HOLD", error |-> "EXHAUSTED", tries |-> 0]
      \/ HoldMessage("RETRY") /\ watch' = watch
  BY DEF Exhaust
<1>3. msg'.state \in {msg.state, "HOLD"}
  BY <1>1, <1>2, HoldStops DEF Errors
<1>4. watch'.state \in {watch.state, "HOLD"}
  BY <1>1, <1>2 DEF Watches
<1>. QED BY <1>3, <1>4 DEF Exhaust

\* The pass goes on without a launch for the admission.
LEMMA CalmStep ==
    ASSUME LaunchInv, Stops, UNCHANGED launch,
           sup'.pc = "submit" => sup'.seen = "watch",
           sup'.pc \in {"reserve", "submit"} => launch = None,
           sup'.pc = "reserve" => attempt = None,
           Spent => Spent'
    PROVE  LaunchInv'
<1>1. ~Submitting' /\ (Launching' => Launching)
  BY DEF Submitting, Launching, Stops, Phases
<1>2. ClaimFollowsStart'
  BY DEF LaunchInv, ClaimFollowsStart, Stops
<1>3. PassLaunches' /\ OneStarts'
  BY <1>1 DEF LaunchInv, PassLaunches, OneStarts, Launching, Stops, None
<1>4. NoneWhileWatched' /\ NoneAfterPacket'
  BY <1>1 DEF LaunchInv, NoneWhileWatched, NoneAfterPacket, Stops
<1>. QED BY <1>2, <1>3, <1>4 DEF LaunchInv

\* Steps outside the supervisor that at most stop the admission.
LEMMA StopStep ==
    ASSUME LaunchInv, Stops, UNCHANGED scheduler
    PROVE  LaunchInv'
BY DEF LaunchInv, Stops, scheduler, ClaimFollowsStart, PassLaunches, Submitting, Launching, OneStarts,
       NoneWhileWatched, NoneAfterPacket, Spent

LEMMA SpentStays ==
    ASSUME wake \in Wakes, NEW p \in Phases, Spent,
           \/ wake' = [wake EXCEPT ![p].state = "HOLD"]
           \/ wake' = [q \in Phases |-> IF Stale(q) THEN [wake[q] EXCEPT !.state = "COMPLETE"] ELSE wake[q]]
    PROVE  Spent'
BY DEF Wakes, Phases, Spent

\* The reserved launch: an unclaimed admission gets its first child, a claimed one a
\* child only where no watch is ACTIVE and no packet exists.
LEMMA ReserveLaunches ==
    ASSUME Types, LaunchInv, sup.pc = "reserve", Reservable,
           UNCHANGED <<launch, msg, watch, packet, receipt, claimer, child, attempt>>,
           wake[Phase(msg.state)].state \in {None, "INFLIGHT"},
           wake'[Phase(msg.state)].state = "INFLIGHT",
           sup' = [pc |-> "submit", seen |-> Phase(msg.state)]
    PROVE  LaunchInv'
<1>1. /\ launch = None /\ sup'.pc = "submit" /\ sup'.seen = Phase(msg.state)
      /\ Phase(msg.state) \in Phases /\ wake'[sup'.seen].state = "INFLIGHT"
  BY DEF LaunchInv, PassLaunches, Phase, Phases
<1>2. CASE claimer = None
  <2>1. msg.state = "PREPARED" /\ Phase(msg.state) = "prepared" /\ ~Spent
    BY <1>2 DEF LaunchInv, ClaimFollowsStart, Reservable, Open, Phase, Spent, None
  <2>2. "message" \notin child /\ attempt # "message"
    BY <1>1, <1>2, <2>1 DEF LaunchInv, OneStarts, None
  <2>. QED BY <1>1, <1>2, <2>1, <2>2
           DEF LaunchInv, ClaimFollowsStart, PassLaunches, Submitting, OneStarts, NoneWhileWatched,
               NoneAfterPacket, Launching
<1>3. CASE claimer # None
  <2>1. msg.state = "CLAIMED" /\ packet = None /\ watch.state # "ACTIVE"
    BY <1>3 DEF LaunchInv, ClaimFollowsStart, Reservable, NeedsWorker
  <2>. QED BY <1>1, <1>3, <2>1
           DEF LaunchInv, ClaimFollowsStart, PassLaunches, Submitting, OneStarts, NoneWhileWatched,
               NoneAfterPacket
<1>. QED BY <1>2, <1>3

\* The manager call, whether or not it is acknowledged.
LEMMA SubmitLaunches ==
    ASSUME Types, LaunchInv, sup.pc = "submit", sup'.pc \notin {"reserve", "submit"},
           UNCHANGED <<wake, msg, watch, packet, receipt, claimer, attempt>>,
           launch' = sup.seen, child' \in {child, child \cup {Target(sup.seen)}}
    PROVE  LaunchInv'
<1>1. launch = None /\ ~Submitting' /\ (sup.seen \in Phases \/ sup.seen = "watch")
  BY DEF LaunchInv, PassLaunches, Submitting, Types, SchedulerTypes, PassTypes
<1>2. "message" \in child' => "message" \in child \/ Submitting
  BY <1>1 DEF Target, Submitting
<1>3. Launching' => Launching
  BY <1>1, <1>2 DEF Launching
<1>4. OneStarts'
  <2>1. ASSUME claimer = None, "message" \in child' PROVE launch' = "prepared" \/ Spent'
    <3>1. CASE Submitting
      BY <2>1, <3>1 DEF LaunchInv, PassLaunches
    <3>2. CASE "message" \in child
      BY <1>1, <2>1, <3>2 DEF LaunchInv, OneStarts, Spent, None
    <3>. QED BY <1>2, <2>1, <3>1, <3>2
  <2>. QED BY <1>3, <2>1 DEF LaunchInv, OneStarts
<1>. QED BY <1>1, <1>3, <1>4
         DEF LaunchInv, ClaimFollowsStart, PassLaunches, NoneWhileWatched, NoneAfterPacket

LEMMA SupervisorLaunches ==
    ASSUME LineageInv, LaunchInv, Supervisor
    PROVE  LaunchInv'
<1>0. /\ Types /\ msg \in Messages /\ watch \in Watches /\ wake \in Wakes /\ PassTypes
  BY RowTypes DEF LineageInv, Types, SchedulerTypes
<1>00. UNCHANGED <<receipt, packet, attempt, claimer>>
  BY DEF Supervisor, BeginPass, CheckContract, HoldStale, ReserveWake, ReserveTerminalWatch, Submit,
         Abandon, Crash, Unacknowledged, store, executors
<1>1. CASE BeginPass
  <2>1. sup'.pc \in {"contract", "watch"} /\ Stops /\ UNCHANGED launch
    BY <1>1 DEF BeginPass, EndOfMessages, Stops, store, executors
  <2>2. Spent => Spent'
    BY <1>0, <1>1, SpentStays DEF BeginPass, Phases
  <2>. QED BY <2>1, <2>2, CalmStep
<1>2. CASE CheckContract
  <2>1. /\ sup'.pc \in {"hold", "reserve", "watch"} /\ Stops /\ UNCHANGED <<launch, wake>>
        /\ sup'.pc = "reserve" => launch = None /\ attempt = None
    BY <1>0, <1>2
       DEF CheckContract, EndOfMessages, Stops, store, executors, LineageFree, PassTypes, Passes
  <2>. QED BY <2>1, CalmStep DEF Spent
<1>3. CASE HoldStale
  <2>1. msg'.state \in {msg.state, "HOLD"}
    BY <1>0, <1>3, HoldStops DEF HoldStale, PassTypes, Errors
  <2>2. sup'.pc = "watch" /\ Stops /\ UNCHANGED <<launch, wake>>
    BY <1>3, <2>1 DEF HoldStale, EndOfMessages, Stops, executors
  <2>. QED BY <2>2, CalmStep DEF Spent
<1>4. CASE ReserveWake
  <2>1. Phase(msg.state) \in Phases /\ ContractError \in Errors
    BY DEF Phase, Phases, ContractError, Errors, None
  <2>2. UNCHANGED <<launch, child>> /\ sup.pc = "reserve"
    BY <1>4 DEF ReserveWake, executors
  <2>3. CASE HoldMessage(ContractError) /\ sup' = EndOfMessages /\ UNCHANGED <<wake, item, watch>>
    <3>1. Stops
      BY <1>0, <1>00, <2>1, <2>2, <2>3, HoldStops DEF Stops
    <3>. QED BY <2>2, <2>3, <3>1, CalmStep DEF EndOfMessages, Spent
  <2>4. CASE sup' = EndOfMessages /\ UNCHANGED <<wake, item, msg, watch>>
    BY <1>00, <2>2, <2>4, CalmStep DEF EndOfMessages, Spent, Stops
  <2>5. CASE /\ Reservable /\ wake[Phase(msg.state)].state \in {None, "INFLIGHT"}
             /\ wake' = [wake EXCEPT ![Phase(msg.state)] = [state |-> "INFLIGHT", n |-> @.n + 1]]
             /\ sup' = [pc |-> "submit", seen |-> Phase(msg.state)]
             /\ UNCHANGED <<item, msg, watch>>
    <3>1. wake'[Phase(msg.state)].state = "INFLIGHT"
      BY <1>0, <2>1, <2>5 DEF Wakes
    <3>. QED BY <1>0, <1>00, <2>2, <2>5, <3>1, ReserveLaunches
  <2>6. CASE Exhaust(Phase(msg.state)) /\ sup' = EndOfMessages
    <3>1. Stops /\ (Spent => Spent')
      BY <1>0, <1>00, <2>1, <2>2, <2>6, ExhaustStops, SpentStays DEF Stops
    <3>. QED BY <2>2, <2>6, <3>1, CalmStep DEF EndOfMessages
  <2>. QED BY <1>4, <2>3, <2>4, <2>5, <2>6 DEF ReserveWake
<1>5. CASE ReserveTerminalWatch
  <2>1. watch'.state \in {watch.state, "HOLD"}
    BY <1>0, <1>5 DEF ReserveTerminalWatch, ReserveLaunch, Watches
  <2>2. /\ sup'.pc \in {"idle", "submit"}
        /\ sup'.pc = "submit" => launch = None /\ sup'.seen = "watch"
    BY <1>5 DEF ReserveTerminalWatch, ReserveLaunch, Idle
  <2>3. Stops /\ UNCHANGED <<launch, wake>>
    BY <1>5, <2>1 DEF ReserveTerminalWatch, Stops, executors
  <2>. QED BY <2>2, <2>3, CalmStep DEF Spent
<1>6. CASE Submit
  <2>1. sup'.pc \notin {"reserve", "submit"} /\ sup.pc = "submit"
    BY <1>6 DEF Submit, AfterSubmit, Idle, EndOfMessages
  <2>. QED BY <1>0, <1>6, <2>1, SubmitLaunches DEF Submit, store
<1>7. CASE Abandon
  <2>1. sup'.pc \notin {"reserve", "submit"} /\ UNCHANGED <<launch, child>>
    BY <1>7 DEF Abandon, AfterSubmit, Idle, EndOfMessages, executors
  <2>2. CASE UNCHANGED <<wake, item, msg, watch>>
    BY <1>00, <2>1, <2>2, CalmStep DEF Stops, Spent
  <2>3. CASE sup.seen \in Phases /\ Exhaust(sup.seen)
    <3>1. Stops /\ (Spent => Spent')
      BY <1>0, <1>00, <2>1, <2>3, ExhaustStops, SpentStays DEF Stops
    <3>. QED BY <2>1, <3>1, CalmStep
  <2>4. CASE /\ watch' = [state |-> "HOLD", error |-> "RETRY", tries |-> 0]
             /\ UNCHANGED <<wake, item, msg>>
    <3>1. watch'.state = "HOLD"
      BY <2>4
    <3>. QED BY <1>00, <2>1, <2>4, <3>1, CalmStep DEF Stops, Spent
  <2>. QED BY <1>7, <2>2, <2>3, <2>4 DEF Abandon
<1>8. CASE Crash
  <2>1. sup'.pc = "idle" /\ UNCHANGED <<wake, msg, watch>>
    BY <1>8 DEF Crash, Idle, store
  <2>2. CASE sup.pc = "submit"
    BY <1>0, <1>00, <1>8, <2>1, <2>2, SubmitLaunches DEF Crash
  <2>3. CASE sup.pc # "submit"
    <3>1. Stops /\ UNCHANGED launch
      BY <1>00, <1>8, <2>1, <2>3 DEF Crash, Stops
    <3>. QED BY <2>1, <3>1, CalmStep DEF Spent
  <2>. QED BY <2>2, <2>3
<1>9. CASE Unacknowledged
  <2>1. watch'.state \in {watch.state, "HOLD"}
    BY <1>0, <1>9 DEF Unacknowledged, Watches
  <2>2. /\ sup' = sup /\ sup.pc = "idle" /\ launch' = None /\ Stops
    BY <1>9, <2>1 DEF Unacknowledged, Idle, Stops, executors
  <2>3. Spent => Spent'
    BY <1>0, <1>9, SpentStays DEF Unacknowledged, Spent
  <2>4. launch = "prepared" => Spent'
    BY <1>0, <1>9 DEF Unacknowledged, Wakes, Phases, Spent
  <2>5. ~Submitting' /\ (Launching' => "message" \in child)
    BY <2>2 DEF Submitting, Launching, Stops
  <2>6. OneStarts'
    BY <2>2, <2>3, <2>4, <2>5 DEF LaunchInv, OneStarts, Launching, Stops
  <2>. QED BY <2>2, <2>5, <2>6
           DEF LaunchInv, Stops, ClaimFollowsStart, PassLaunches, NoneWhileWatched, NoneAfterPacket,
               Launching
<1>. QED BY <1>1, <1>2, <1>3, <1>4, <1>5, <1>6, <1>7, <1>8, <1>9 DEF Supervisor

\* The child that starts is the last one on the way, whoever claims with it.
LEMMA StartLaunches ==
    ASSUME Types, LaunchInv, NEW k \in Targets, StartAttempt(k)
    PROVE  LaunchInv'
<1>1. /\ UNCHANGED <<wake, sup, msg, watch, packet, receipt, claimer>> /\ child' = child \ {k}
      /\ k \in child /\ launch' \in {launch, None}
      /\ attempt' \in {attempt, k}
      /\ attempt' # attempt /\ launch' # launch => Target(launch) = k
      /\ attempt' = attempt => launch' = launch \/ attempt = k
  BY DEF StartAttempt, store, LineageFree
<1>2. (Submitting' <=> Submitting) /\ (Launching' => Launching) /\ (Spent' <=> Spent)
  BY <1>1 DEF Submitting, Launching, Spent
<1>3. ClaimFollowsStart' /\ PassLaunches' /\ NoneWhileWatched' /\ NoneAfterPacket'
  BY <1>1, <1>2 DEF LaunchInv, ClaimFollowsStart, PassLaunches, NoneWhileWatched, NoneAfterPacket
<1>4. CASE k = "message"
  <2>1. ASSUME claimer = None, attempt' = "message"
        PROVE  ~Submitting /\ (sup.pc = "reserve" => Spent)
    <3>1. sup.pc \in {"reserve", "submit"} => Spent
      BY <1>1, <1>4, <2>1 DEF LaunchInv, PassLaunches, OneStarts, None
    <3>. QED BY <2>1, <3>1 DEF LaunchInv, PassLaunches, Submitting, Spent
  <2>. QED BY <1>1, <1>2, <1>3, <1>4, <2>1 DEF LaunchInv, OneStarts, Launching
<1>5. CASE k = "watch"
  <2>1. launch = "prepared" => launch' = "prepared"
    BY <1>5 DEF StartAttempt, Target
  <2>. QED BY <1>1, <1>2, <1>3, <1>5, <2>1 DEF LaunchInv, OneStarts, Launching
<1>. QED BY <1>4, <1>5 DEF Targets

\* A claim of a rearmed admission by anybody but its claimer is refused for the source
\* drift the receipt speaks of.
LEMMA ClaimLaunches ==
    ASSUME LineageInv, LaunchInv, Claim
    PROVE  LaunchInv'
<1>1. /\ msg \in Messages /\ watch \in Watches /\ db.own \in Nat /\ msg.source.own \in Nat
  BY RowTypes DEF LineageInv
<1>2. /\ msg'.state = "CLAIMED" /\ watch'.state = "ACTIVE" /\ claimer' = "RUNNING"
      /\ attempt = "message" /\ db = msg.source /\ receipt' \in {receipt, NoRevision}
      /\ UNCHANGED <<packet, wake, launch, sup, child, attempt>>
      /\ msg.state = "PREPARED" \/ watch.state = "ACTIVE"
  BY <1>1 DEF Claim, Claimable, ContractError, Messages, Watches, scheduler, None
<1>3. receipt = NoRevision
  BY <1>1, <1>2 DEF LineageInv, ReceiptIsLater
<1>4. ~Launching
  BY <1>2, <1>3 DEF LaunchInv, ClaimFollowsStart, OneStarts, NoneWhileWatched
<1>5. ~Launching' /\ (Submitting' <=> Submitting)
  BY <1>2, <1>4 DEF Launching, Submitting
<1>. QED BY <1>2, <1>5
         DEF LaunchInv, ClaimFollowsStart, PassLaunches, OneStarts, NoneWhileWatched, NoneAfterPacket,
             None, Launching

LEMMA ExecutorLaunches ==
    ASSUME LineageInv, LaunchInv, Executor
    PROVE  LaunchInv'
<1>0. Types /\ msg \in Messages /\ watch \in Watches
  BY RowTypes DEF LineageInv
<1>1. CASE RefuseClaim \/ Heartbeat \/ Observe
  <2>1. Stops /\ UNCHANGED scheduler
    BY <1>0, <1>1 DEF RefuseClaim, Heartbeat, Observe, store, executors, Watches, Stops
  <2>. QED BY <2>1, StopStep
<1>2. CASE RecordRefusal
  <2>1. msg'.state \in {msg.state, "HOLD"}
    BY <1>0, <1>2, HoldStops DEF RecordRefusal, Types, ExecutorTypes, LateErrors, Errors
  <2>. QED BY <1>2, <2>1, StopStep DEF RecordRefusal, Stops
<1>3. ASSUME NEW k \in Targets, StartAttempt(k) PROVE LaunchInv'
  BY <1>0, <1>3, StartLaunches
<1>4. CASE EndAttempt
  <2>1. /\ UNCHANGED <<child, msg, watch, packet, receipt, wake, launch, sup>> /\ attempt' = None
        /\ claimer' = None <=> claimer = None
    BY <1>4 DEF EndAttempt, Ended, store, scheduler, None
  <2>. QED BY <2>1
           DEF LaunchInv, ClaimFollowsStart, PassLaunches, Submitting, Launching, OneStarts,
               NoneWhileWatched, NoneAfterPacket, Spent, None
<1>5. CASE Claim
  BY <1>5, ClaimLaunches
<1>6. CASE Prepare
  <2>1. /\ claimer # None /\ watch.state = "ACTIVE" /\ watch'.state = "ACTIVE"
        /\ UNCHANGED <<msg, receipt, wake, launch, sup, child, attempt, claimer>>
    BY <1>0, <1>6 DEF Prepare, PreparePermitted, Finalizer, Watches, scheduler, executors, None
  <2>2. ~Launching
    BY <1>6, <2>1, PrepareHasNoReceipt DEF LaunchInv, NoneWhileWatched
  <2>. QED BY <2>1, <2>2
           DEF LaunchInv, ClaimFollowsStart, PassLaunches, Submitting, Launching, OneStarts,
               NoneWhileWatched, NoneAfterPacket
<1>7. CASE Commit
  <2>1. /\ packet = "published" /\ packet' = "committed" /\ msg'.state = "COMPLETE"
        /\ watch'.state = "COMPLETE" /\ UNCHANGED <<receipt, wake, launch, sup, child, attempt, claimer>>
    BY <1>0, <1>7
       DEF Commit, CommitPermitted, Completed, Watches, Messages, scheduler, executors
  <2>. QED BY <2>1
           DEF LaunchInv, ClaimFollowsStart, PassLaunches, Submitting, Launching, OneStarts,
               NoneWhileWatched, NoneAfterPacket, Spent, None
<1>. QED BY <1>1, <1>2, <1>3, <1>4, <1>5, <1>6, <1>7 DEF Executor

LEMMA PlannerLaunches ==
    ASSUME LineageInv, LaunchInv, Planner
    PROVE  LaunchInv'
<1>0. /\ Types /\ item \in Items /\ msg \in Messages /\ watch \in Watches /\ wake \in Wakes
  BY RowTypes DEF LineageInv, Types, SchedulerTypes
<1>00. UNCHANGED <<packet, launch, sup, executors>>
  BY Zenon DEF Planner, Plan, FinalizeReady, Admit, HoldUnclaimed, RecoverUnclaimed, RearmSource, Park,
               scheduler
<1>000. UNCHANGED <<packet, launch, sup, child, attempt, claimer>>
  BY <1>00 DEF executors
<1>1. CASE Plan \/ Park
  <2>1. UNCHANGED <<msg, receipt, scheduler>>
    BY <1>1, Zenon DEF Plan, Park
  <2>2. watch' \in {watch, Closed(watch), Superseded(watch), [watch EXCEPT !.tries = 0]}
    BY <1>1 DEF Plan, Park, WatchGoesOn, WatchesEnd
  <2>3. watch'.state \in {watch.state, "COMPLETE"}
    BY <1>0, <2>2 DEF Closed, Superseded, Watches
  <2>. QED BY <1>000, <2>1, <2>3, StopStep DEF Stops
<1>2. CASE FinalizeReady \/ RecoverUnclaimed
  BY <1>000, <1>2, StopStep DEF FinalizeReady, RecoverUnclaimed, Stops
<1>3. CASE HoldUnclaimed
  <2>1. msg'.state = "HOLD" /\ watch'.state = "HOLD" /\ UNCHANGED <<receipt, scheduler>>
    BY <1>0, <1>3 DEF HoldUnclaimed, Messages, Watches
  <2>. QED BY <1>000, <2>1, StopStep DEF Stops
<1>4. CASE Admit
  <2>1. /\ msg'.state = "PREPARED" /\ watch'.state = "PENDING_CLAIM" /\ watch.state = "ABSENT"
        /\ UNCHANGED <<receipt, wake>>
    BY <1>0, <1>4
       DEF Admit, AdmissionBound, LineageInv, BeforeAdmission, Messages, Watches, scheduler
  <2>2. claimer = None
    BY <2>1 DEF LaunchInv, ClaimFollowsStart
  <2>. QED BY <1>000, <2>1, <2>2
           DEF LaunchInv, ClaimFollowsStart, PassLaunches, Submitting, Launching, OneStarts,
               NoneWhileWatched, NoneAfterPacket, Spent
<1>5. CASE RearmSource
  <2>1. /\ claimer # None /\ msg'.state = "CLAIMED" /\ watch'.state = "ACTIVE"
        /\ receipt' = db
    BY <1>0, <1>5 DEF RearmSource, RearmPermitted, ClaimEnded, Messages, None
  <2>2. db # NoRevision
    BY <1>0, RowTypes DEF NoRevision
  <2>3. \A p \in Phases : wake'[p].state = wake[p].state
    BY <1>0, <1>5 DEF RearmSource, Wakes
  <2>4. (Submitting' <=> Submitting) /\ (Launching' <=> Launching) /\ (Spent' <=> Spent)
    BY <1>000, <2>3 DEF Submitting, Launching, Spent, Phases
  <2>5. PassLaunches'
    BY <1>000, <2>3, <2>4 DEF LaunchInv, PassLaunches, Submitting
  <2>. QED BY <1>000, <2>1, <2>2, <2>4, <2>5
           DEF LaunchInv, ClaimFollowsStart, OneStarts, NoneWhileWatched, NoneAfterPacket
<1>. QED BY <1>1, <1>2, <1>3, <1>4, <1>5 DEF Planner

LEMMA RevisionLaunches ==
    ASSUME LaunchInv, Outside \/ Publisher
    PROVE  LaunchInv'
<1>1. Stops /\ UNCHANGED scheduler
  BY DEF Outside, Foreign, OwnComment, Sync, Publisher, PublisherSync, PublisherPost, store, executors,
         Stops, None
<1>. QED BY <1>1, StopStep

LEMMA NextLaunch == LineageInv /\ LaunchInv /\ [Next]_vars => LaunchInv'
<1>1. LaunchInv /\ UNCHANGED vars => LaunchInv'
  BY StopStep DEF vars, github, store, executors, Stops
<1>. QED BY <1>1, SupervisorLaunches, RevisionLaunches, PlannerLaunches, ExecutorLaunches DEF Next

\* "The packet suppresses admission relaunch": no executor starts on the admission once
\* its closeout is prepared, though a child of an earlier pass may start at any time.
THEOREM NothingRelaunched == Spec => NoRelaunchAfterPacket
<1>1. LaunchInv /\ [Next]_vars => [attempt' = "message" /\ attempt # "message" => packet = None]_vars
  <2>. SUFFICES ASSUME LaunchInv, Next, attempt' = "message", attempt # "message" PROVE packet = None
    BY DEF vars
  <2>1. StartAttempt("message")
    <3>1. Outside \/ Publisher => attempt' = attempt
      BY DEF Outside, Foreign, OwnComment, Sync, Publisher, PublisherSync, PublisherPost, executors
    <3>2. Planner => executors' = executors
      BY Zenon DEF Planner, Plan, FinalizeReady, Admit, HoldUnclaimed, RecoverUnclaimed, RearmSource,
                   Park
    <3>3. Supervisor => attempt' = attempt
      BY DEF Supervisor, BeginPass, CheckContract, HoldStale, ReserveWake, ReserveTerminalWatch, Submit,
             Abandon, Crash, Unacknowledged, executors
    <3>4. Executor => \E k \in Targets : StartAttempt(k)
      BY DEF Executor, EndAttempt, Claim, RefuseClaim, RecordRefusal, Heartbeat, Prepare, Observe,
             Commit, executors, None
    <3>. QED BY <3>1, <3>2, <3>3, <3>4 DEF Next, StartAttempt, executors
  <2>. QED BY <2>1 DEF StartAttempt, LaunchInv, NoneAfterPacket, Launching
<1>. QED BY <1>1, InitLaunch, NextLaunch, LineageInvariant, PTL DEF Spec, NoRelaunchAfterPacket

-----------------------------------------------------------------------------
(***************************************************************************)
(* Lineage implements Allocation: every transaction of the supervisor, an  *)
(* executor or an owner on the item or its watch is one of the item steps  *)
(* Allocation has.  One lemma per operation that writes either row; the    *)
(* rows themselves are compared column by column (SameRow).                *)
(***************************************************************************)

\* The row and the watches Allocation sees.
Row(s, a, g, u) ==
    [status |-> s, alloc |-> a, gen |-> g, lease |-> IF a # "NONE" THEN "lease" ELSE None,
     units |-> Units(u)]
Watch(s, e, h) ==
    [g \in {0, 1} |-> IF g = 0 THEN Followed(s, e = "EXHAUSTED") ELSE Followed(h, FALSE)]

\* The Cardinality the instance brings is the one of FiniteSets.
LEMMA SameCardinality == A!Cardinality({}) = 0
<1>1. A!Cardinality({}) = Cardinality({})
  BY DEF A!Cardinality, Cardinality
<1>. QED BY <1>1, FS_EmptySet

\* With one issue and no hosted operation nothing else is counted.
LEMMA Alone ==
    /\ A!Holders \ {"issue"} = {}
    /\ \A p \in {"sre"} : A!Occupied({}, p) = 0
<1>1. A!Holders \ {"issue"} = {}
  BY DEF A!Holders
<1>2. A!HostedHolders = {}
  BY DEF A!HostedHolders
<1>3. A!Held({}, "sre") = {}
  BY DEF A!Held
<1>. QED BY <1>1, <1>2, <1>3, SameCardinality DEF A!Occupied, A!Hosted

\* The empty tables are the initial state of Allocation.
Used == IF Dropped THEN 0 ELSE 1
AItem == [i \in {"issue"} |-> Row(item.status, item.alloc, item.gen, Used)]
AWatch == [i \in {"issue"} |-> Watch(watch.state, watch.error, heir)]

LEMMA RefInit == Init => A!Init
<1>. SUFFICES ASSUME Init PROVE A!Init
  OBVIOUS
<1>1. /\ item.status = "ABSENT" /\ item.alloc = "NONE" /\ item.gen = 0
      /\ watch.state = "ABSENT" /\ heir = "ABSENT" /\ watch.error = None
  BY DEF Init
<1>2. Used = 0
  BY <1>1 DEF Used, Dropped, Reserved
<1>3. AItem = [i \in {"issue"} |-> A!NoRow]
  BY <1>1, <1>2 DEF AItem, Row, A!NoRow, A!Zero, Units
<1>4. AWatch = [i \in {"issue"} |-> [g \in A!Gens |-> A!NoWatch]]
  <2>1. A!Gens = {0, 1}
    BY DEF A!Gens
  <2>2. \A s, h : s = "ABSENT" /\ h = "ABSENT" =>
          Watch(s, None, h) = [g \in {0, 1} |-> A!NoWatch]
    BY DEF Watch, Followed, A!NoWatch, None
  <2>3. Watch(watch.state, watch.error, heir) = [g \in {0, 1} |-> A!NoWatch]
    BY <1>1, <2>2
  <2>. QED BY <2>1, <2>3 DEF AWatch
<1>5. Units(1) \in {Units(1)} /\ [o \in {} |-> "ABSENT"] = [o \in {} |-> "ABSENT"]
  OBVIOUS
<1>. QED BY <1>3, <1>4, <1>5 DEF A!Init, AItem, AWatch, Row, Watch, Reserved, Used

\* Only a row that is not there, or that a commit left, asks for nothing.
LEMMA UsedOne == item.status \notin {"ABSENT", "DONE"} => Used = 1
BY DEF Used, Dropped

\* A call of _set_issue_status_locked on the only item: capacity, lease and writer stand
\* in nobody's way, so that the remaining guards permit it.
LEMMA CalledMaps ==
    ASSUME NEW s \in Statuses, NEW a \in Classes, NEW g \in {0, 1}, NEW gw, NEW o,
           item'.status = s, item'.alloc = a, item'.gen = g, Used' = 1,
           A!ReleaseOk("issue", Row(s, a, g, 1), gw), A!GatewayOk("issue", Row(s, a, g, 1), gw),
           A!OrderOk("issue", Row(s, a, g, 1)), A!LineageOk("issue", Row(s, a, g, 1)),
           AWatch' = [i \in {"issue"} |-> A!WatchesAfter("issue", Row(s, a, g, 1), o)]
    PROVE  A!SetIssueStatus("issue", Row(s, a, g, 1), gw, o)
<1>. DEFINE r == Row(s, a, g, 1)
<1>1. r.units["sre"] = 1 /\ r.units # A!Zero
  BY DEF Row, A!Zero, Units
<1>3. A!CapacityOk("issue", r)
  BY <1>1, Alone DEF A!CapacityOk, Units
<1>4. A!LeaseOk("issue", r)
  BY Alone DEF A!LeaseOk
<1>5. A!Permitted("issue", r, gw)
  BY <1>1, <1>3, <1>4 DEF A!Permitted, A!HarnessOk, A!WriterOk
<1>6. AItem' = [AItem EXCEPT !["issue"] = r]
  BY DEF AItem
<1>7. AWatch' = [AWatch EXCEPT !["issue"] = A!WatchesAfter("issue", r, o)]
  BY DEF AWatch
<1>. QED BY <1>5, <1>6, <1>7 DEF A!SetIssueStatus, AItem, AWatch, Row, Watch, Reserved, Used

\* Rows by their columns.
ARows == [status : Statuses, alloc : Classes, gen : {0, 1}, lease : {"lease", None},
          units : {Units(0), Units(1)}]

LEMMA Rows ==
    /\ \A s \in Statuses, a \in Classes, g \in {0, 1}, u \in {0, 1} :
          LET r == Row(s, a, g, u)
          IN  /\ r \in ARows
              /\ r.status = s /\ r.alloc = a /\ r.gen = g /\ r.units = Units(u)
              /\ r.lease = IF a = "NONE" THEN None ELSE "lease"
    /\ AItem["issue"] = Row(item.status, item.alloc, item.gen, Used)
BY DEF Row, ARows, AItem

\* A row is known by its columns.
LEMMA SameRow ==
    ASSUME NEW r \in ARows, NEW s \in Statuses, NEW a \in Classes, NEW g \in {0, 1}, NEW u \in {0, 1},
           r.status = s, r.alloc = a, r.gen = g, r.units = Units(u),
           r.lease = IF a = "NONE" THEN None ELSE "lease"
    PROVE  r = Row(s, a, g, u)
<1>. DEFINE q == Row(s, a, g, u)
<1>1. /\ q \in ARows /\ q.status = s /\ q.alloc = a /\ q.gen = g /\ q.units = Units(u)
      /\ q.lease = IF a = "NONE" THEN None ELSE "lease"
  BY Rows
<1>. HIDE DEF q
<1>2. r = q
  BY <1>1 DEF ARows
<1>. QED BY <1>2 DEF q

LEMMA Names ==
    /\ {"PREPARED", "READY", "ACTIVE", "PUBLICATION_PENDING", "HOLD", "DONE"} \subseteq Statuses
    /\ {"NONE", "ACTIVE", "RETAINED"} \subseteq Classes
BY DEF Statuses, Classes

\* What each operation writes, as rows.
LEMMA ReadyRow ==
    [Row("PREPARED", "NONE", 0, 1) EXCEPT !.status = "READY", !.lease = None]
       = Row("READY", "NONE", 0, 1)
<1>. DEFINE b == Row("PREPARED", "NONE", 0, 1)
            r == [b EXCEPT !.status = "READY", !.lease = None]
<1>1. b \in ARows /\ b.gen = 0 /\ b.alloc = "NONE" /\ b.lease = None /\ b.units = Units(1)
  BY Rows, Names
<1>. HIDE DEF b
<1>2. r \in ARows
  BY <1>1, Names DEF ARows
<1>3. r.status = "READY" /\ r.alloc = "NONE" /\ r.gen = 0 /\ r.lease = None /\ r.units = Units(1)
  BY <1>1 DEF ARows
<1>. HIDE DEF r
<1>4. r = Row("READY", "NONE", 0, 1)
  BY <1>2, <1>3, Names, SameRow
<1>. QED BY <1>4 DEF r, b

\* activate_admission.
LEMMA AdmittedRow ==
    [Row("READY", "NONE", 0, 1) EXCEPT !.status = "ACTIVE", !.alloc = "ACTIVE", !.lease = "lease", !.units = Units(1)]
       = Row("ACTIVE", "ACTIVE", 0, 1)
<1>. DEFINE b == Row("READY", "NONE", 0, 1)
            r == [b EXCEPT !.status = "ACTIVE", !.alloc = "ACTIVE", !.lease = "lease", !.units = Units(1)]
<1>1. b \in ARows /\ b.gen = 0 /\ b.alloc = "NONE" /\ b.lease = None /\ b.units = Units(1)
  BY Rows, Names
<1>. HIDE DEF b
<1>2. r \in ARows
  BY <1>1, Names DEF ARows
<1>3. r.status = "ACTIVE" /\ r.alloc = "ACTIVE" /\ r.gen = 0 /\ r.lease = "lease" /\ r.units = Units(1)
  BY <1>1 DEF ARows
<1>. HIDE DEF r
<1>4. r = Row("ACTIVE", "ACTIVE", 0, 1)
  BY <1>2, <1>3, Names, SameRow
<1>. QED BY <1>4 DEF r, b

\* prepare_terminal_closeout.
LEMMA PublishedRow ==
    [Row("ACTIVE", "ACTIVE", 0, 1) EXCEPT !.status = "PUBLICATION_PENDING"]
       = Row("PUBLICATION_PENDING", "ACTIVE", 0, 1)
<1>. DEFINE b == Row("ACTIVE", "ACTIVE", 0, 1)
            r == [b EXCEPT !.status = "PUBLICATION_PENDING"]
<1>1. b \in ARows /\ b.gen = 0 /\ b.alloc = "ACTIVE" /\ b.lease = "lease" /\ b.units = Units(1)
  BY Rows, Names
<1>. HIDE DEF b
<1>2. r \in ARows
  BY <1>1, Names DEF ARows
<1>3. r.status = "PUBLICATION_PENDING" /\ r.alloc = "ACTIVE" /\ r.gen = 0 /\ r.lease = "lease" /\ r.units = Units(1)
  BY <1>1 DEF ARows
<1>. HIDE DEF r
<1>4. r = Row("PUBLICATION_PENDING", "ACTIVE", 0, 1)
  BY <1>2, <1>3, Names, SameRow
<1>. QED BY <1>4 DEF r, b

\* commit_claimed_no_delivery_park.
LEMMA ParkedRow ==
    [Row("ACTIVE", "ACTIVE", 0, 1) EXCEPT !.status = "PREPARED", !.alloc = "NONE", !.gen = @ + 1, !.lease = None]
       = Row("PREPARED", "NONE", 1, 1)
<1>. DEFINE b == Row("ACTIVE", "ACTIVE", 0, 1)
            r == [b EXCEPT !.status = "PREPARED", !.alloc = "NONE", !.gen = @ + 1, !.lease = None]
<1>1. b \in ARows /\ b.gen = 0 /\ b.alloc = "ACTIVE" /\ b.lease = "lease" /\ b.units = Units(1)
  BY Rows, Names
<1>. HIDE DEF b
<1>0. b.gen + 1 = 1
  BY <1>1
<1>2. r \in ARows
  BY <1>0, <1>1, Names DEF ARows
<1>3. r.status = "PREPARED" /\ r.alloc = "NONE" /\ r.gen = 1 /\ r.lease = None /\ r.units = Units(1)
  BY <1>0, <1>1 DEF ARows
<1>. HIDE DEF r
<1>4. r = Row("PREPARED", "NONE", 1, 1)
  BY <1>2, <1>3, Names, SameRow
<1>. QED BY <1>4 DEF r, b

\* recover_unclaimed_admission.
LEMMA RecoveredRow ==
    [Row("HOLD", "RETAINED", 0, 1) EXCEPT !.status = "PREPARED", !.alloc = "NONE", !.gen = Row("HOLD", "RETAINED", 0, 1).gen + 1, !.lease = None]
       = Row("PREPARED", "NONE", 1, 1)
<1>. DEFINE b == Row("HOLD", "RETAINED", 0, 1)
            r == [b EXCEPT !.status = "PREPARED", !.alloc = "NONE", !.gen = b.gen + 1, !.lease = None]
<1>1. b \in ARows /\ b.gen = 0 /\ b.alloc = "RETAINED" /\ b.lease = "lease" /\ b.units = Units(1)
  BY Rows, Names
<1>. HIDE DEF b
<1>0. b.gen + 1 = 1
  BY <1>1
<1>2. r \in ARows
  BY <1>0, <1>1, Names DEF ARows
<1>3. r.status = "PREPARED" /\ r.alloc = "NONE" /\ r.gen = 1 /\ r.lease = None /\ r.units = Units(1)
  BY <1>0, <1>1 DEF ARows
<1>. HIDE DEF r
<1>4. r = Row("PREPARED", "NONE", 1, 1)
  BY <1>2, <1>3, Names, SameRow
<1>. QED BY <1>4 DEF r, b

\* hold_prepared_message, _hold_retry_exhausted_locked.
LEMMA HeldRow ==
    [Row("ACTIVE", "ACTIVE", 0, 1) EXCEPT !.status = "HOLD", !.alloc = "RETAINED"]
       = Row("HOLD", "RETAINED", 0, 1)
<1>. DEFINE b == Row("ACTIVE", "ACTIVE", 0, 1)
            r == [b EXCEPT !.status = "HOLD", !.alloc = "RETAINED"]
<1>1. b \in ARows /\ b.gen = 0 /\ b.alloc = "ACTIVE" /\ b.lease = "lease" /\ b.units = Units(1)
  BY Rows, Names
<1>. HIDE DEF b
<1>2. r \in ARows
  BY <1>1, Names DEF ARows
<1>3. r.status = "HOLD" /\ r.alloc = "RETAINED" /\ r.gen = 0 /\ r.lease = "lease" /\ r.units = Units(1)
  BY <1>1 DEF ARows
<1>. HIDE DEF r
<1>4. r = Row("HOLD", "RETAINED", 0, 1)
  BY <1>2, <1>3, Names, SameRow
<1>. QED BY <1>4 DEF r, b

\* commit_terminal_closeout.
LEMMA DoneRow ==
    [Row("PUBLICATION_PENDING", "ACTIVE", 0, 1) EXCEPT !.status = "DONE", !.alloc = "NONE", !.lease = None, !.units = A!Zero]
       = Row("DONE", "NONE", 0, 0)
<1>. DEFINE b == Row("PUBLICATION_PENDING", "ACTIVE", 0, 1)
            r == [b EXCEPT !.status = "DONE", !.alloc = "NONE", !.lease = None, !.units = A!Zero]
<1>1. b \in ARows /\ b.gen = 0 /\ b.alloc = "ACTIVE" /\ b.lease = "lease" /\ b.units = Units(1)
  BY Rows, Names
<1>. HIDE DEF b
<1>2. r \in ARows
  BY <1>1, Names DEF ARows, A!Zero, Units
<1>3. r.status = "DONE" /\ r.alloc = "NONE" /\ r.gen = 0 /\ r.lease = None /\ r.units = Units(0)
  BY <1>1 DEF ARows, A!Zero, Units
<1>. HIDE DEF r
<1>4. r = Row("DONE", "NONE", 0, 0)
  BY <1>2, <1>3, Names, SameRow
<1>. QED BY <1>4 DEF r, b

\* The ranks of the statuses a lineage has.
LEMMA Ranks ==
    /\ A!StatusRank["ABSENT"] = -1 /\ A!StatusRank["PREPARED"] = 1 /\ A!StatusRank["READY"] = 3
    /\ A!StatusRank["ACTIVE"] = 4 /\ A!StatusRank["PUBLICATION_PENDING"] = 5
    /\ A!StatusRank["HOLD"] = 6 /\ A!StatusRank["DONE"] = 7
BY DEF A!StatusRank

LEMMA SameOrder ==
    ASSUME NEW s \in Statuses, NEW t \in Statuses, StatusRank[s] >= StatusRank[t]
    PROVE  A!StatusRank[s] >= A!StatusRank[t]
BY Ranks, LineageRanks DEF Statuses

\* The watches after a call that leaves execution, or finds none.
LEMMA ClosedMaps ==
    ASSUME NEW r, NEW o, ~A!Runs(r), Types,
           \/ /\ watch.state \in {"PENDING_CLAIM", "ACTIVE"}
              /\ watch'.state = "COMPLETE" /\ watch'.error # "EXHAUSTED"
           \/ /\ watch.state \notin {"PENDING_CLAIM", "ACTIVE"}
              /\ watch'.state = watch.state /\ watch'.error = watch.error,
           heir' = IF heir = "ACTIVE" THEN "COMPLETE" ELSE heir
    PROVE  AWatch' = [i \in {"issue"} |-> A!WatchesAfter("issue", r, o)]
<1>1. A!Gens = {0, 1}
  BY DEF A!Gens
<1>2. heir \in {"ABSENT", "ACTIVE", "COMPLETE"}
  BY DEF Types, StoreTypes
<1>3. ASSUME NEW g \in {0, 1}
      PROVE  Watch(watch'.state, watch'.error, heir')[g] = A!WatchesAfter("issue", r, o)[g]
  <2>1. CASE g = 0
    BY <1>1, <2>1 DEF A!WatchesAfter, Watch, Followed
  <2>2. CASE g = 1
    BY <1>1, <1>2, <2>2 DEF A!WatchesAfter, Watch, Followed
  <2>. QED BY <2>1, <2>2
<1>4. Watch(watch'.state, watch'.error, heir') = A!WatchesAfter("issue", r, o)
  BY <1>1, <1>3 DEF A!WatchesAfter, Watch
<1>. QED BY <1>4 DEF AWatch

\* Work carried into the next generation ends the started watch of this one and opens
\* its own.
LEMMA SupersededMaps ==
    ASSUME LineageInv, NEW r, A!Runs(r), r.gen = 1, r.lease = "lease", item.gen = 0,
           watch' = Superseded(watch), heir' = "ACTIVE"
    PROVE  AWatch' = [i \in {"issue"} |-> A!WatchesAfter("issue", r, "ACTIVE")]
<1>1. A!Gens = {0, 1}
  BY DEF A!Gens
<1>2. heir = "ABSENT" /\ (watch.state = "ACTIVE" => watch.error # "EXHAUSTED")
  BY DEF LineageInv, HeirFollows, OpenWatchRuns
<1>3. ASSUME NEW g \in {0, 1}
      PROVE  Watch(watch'.state, watch'.error, heir')[g] = A!WatchesAfter("issue", r, "ACTIVE")[g]
  <2>1. CASE g = 0
    BY <1>1, <1>2, <2>1 DEF A!WatchesAfter, Watch, Followed, Superseded, None
  <2>2. CASE g = 1
    BY <1>1, <1>2, <2>2 DEF A!WatchesAfter, Watch, Followed
  <2>. QED BY <2>1, <2>2
<1>4. Watch(watch'.state, watch'.error, heir') = A!WatchesAfter("issue", r, "ACTIVE")
  BY <1>1, <1>3 DEF A!WatchesAfter, Watch
<1>. QED BY <1>4 DEF AWatch

\* An ordinary call names one of the rows Plan may write.
LEMMA PlanWitness ==
    ASSUME item.gen \in {0, 1}, NEW s \in {"PREPARED", "READY", "ACTIVE", "HOLD", "DONE"},
           NEW a \in Classes, NEW g \in {item.gen, 1},
           A!SetIssueStatus("issue", Row(s, a, g, 1), "ordinary", "ACTIVE")
    PROVE  A!Plan("issue")
<1>1. AItem["issue"].gen = item.gen
  BY DEF AItem, Row
<1>2. g \in {AItem["issue"].gen, AItem["issue"].gen + 1} \cap A!Gens
  <2>1. g \in A!Gens
    BY DEF A!Gens
  <2>2. g \in {AItem["issue"].gen, AItem["issue"].gen + 1}
    BY <1>1
  <2>. QED BY <2>1, <2>2
<1>3. \E l \in {"lease"} \cup {None} :
         Row(s, a, g, 1) = [status |-> s, alloc |-> a, gen |-> g, lease |-> l, units |-> Units(1)]
  BY DEF Row
<1>4. \E t \in {"PREPARED", "READY", "ACTIVE", "HOLD", "DONE"}, b \in A!Classes, u \in {Units(1)},
         m \in {"lease"} \cup {None}, h \in {AItem["issue"].gen, AItem["issue"].gen + 1} \cap A!Gens :
        A!SetIssueStatus("issue", [status |-> t, alloc |-> b, gen |-> h, lease |-> m, units |-> u],
                         "ordinary", "ACTIVE")
  BY <1>2, <1>3 DEF A!Classes, Classes
<1>. QED BY <1>4, Zenon DEF A!Plan, AItem, Row, Reserved, Used

\* set_issue_status of an ordinary caller.
LEMMA PlanMaps ==
    ASSUME LineageInv, Plan, Mapped' # Mapped
    PROVE  A!Plan("issue")
<1>0. /\ item \in Items /\ watch \in Watches /\ Types /\ db \in Sources
      /\ item.status \in Statuses /\ item.gen \in {0, 1}
  BY RowTypes DEF LineageInv, Items, Sources
<1>. DEFINE s == item'.status
            a == item'.alloc
            g == item'.gen
            r == Row(s, a, g, 1)
<1>1. /\ s \in {"PREPARED", "READY", "ACTIVE", "HOLD", "DONE"} /\ a \in Classes
      /\ s = "ACTIVE" <=> a = "ACTIVE"
      /\ g = item.gen \/ g = 1
      /\ g = 1 => s \in {"PREPARED", "HOLD", "ACTIVE"}
      /\ Reserved => a # "NONE" /\ s # "DONE"
      /\ s = "READY" => item.status = "READY"
      /\ s = "ACTIVE" => Runs(item)
      /\ g = item.gen => /\ item.status = "HOLD" => s = "HOLD"
                        /\ StatusRank[s] >= StatusRank[item.status]
  BY <1>0, PlanEffect DEF Items
<1>2. IF s = "ACTIVE" THEN WatchGoesOn(item') ELSE WatchesEnd
  BY <1>0, PlanEffect
<1>3. Used' = 1
  <2>1. ASSUME Dropped' PROVE Mapped' = Mapped
    <3>1. s = "DONE" /\ a = "NONE" /\ packet = "committed" /\ g = 0 /\ item.gen = 0
      BY <1>0, <1>1, <2>1 DEF Dropped, Reserved, Plan
    <3>2. item.status = "DONE" /\ item.alloc = "NONE" /\ watch.state = "COMPLETE" /\ heir = "ABSENT"
      BY <1>1, <3>1 DEF LineageInv, CloseoutIsWhole, HeirFollows, Reserved
    <3>3. watch' = watch /\ heir' = heir
      BY <1>2, <3>1, <3>2 DEF WatchesEnd, Closed
    <3>. QED BY <3>1, <3>2, <3>3 DEF Mapped
  <2>. QED BY <2>1 DEF Used
<1>4. r.status = s /\ r.alloc = a /\ r.gen = g /\ r.lease = (IF a = "NONE" THEN None ELSE "lease")
  BY <1>0, <1>1, Rows, Names
<1>5. /\ AItem["issue"].status = item.status /\ AItem["issue"].alloc = item.alloc
      /\ AItem["issue"].gen = item.gen
  BY DEF AItem, Row
<1>. HIDE DEF r
<1>6. A!Runs(AItem["issue"]) <=> Runs(item)
  BY <1>0, <1>5 DEF A!Runs, Runs, A!Executing, Executing, Statuses
<1>7. A!ReleaseOk("issue", r, "ordinary")
  <2>1. A!Reserved(AItem["issue"]) => Reserved
    BY <1>5 DEF A!Reserved, Reserved
  <2>2. ~(A!Reserved(AItem["issue"]) /\ (r.alloc = "NONE" \/ r.status = "DONE"))
    BY <1>1, <1>4, <2>1
  <2>. QED BY <2>2 DEF A!ReleaseOk, AItem, Row, Reserved, Used
<1>8. A!GatewayOk("issue", r, "ordinary")
  <2>1. /\ r.status = "PUBLICATION_PENDING" => FALSE
        /\ r.status \in A!Executing /\ ~A!Runs(AItem["issue"]) => FALSE
        /\ r.status = "READY" /\ AItem["issue"].status # "READY" => FALSE
    BY <1>1, <1>4, <1>5, <1>6 DEF A!Executing
  <2>. QED BY <2>1 DEF A!GatewayOk, AItem, Row, Reserved, Used
<1>9. A!OrderOk("issue", r)
  <2>1. /\ r.gen >= AItem["issue"].gen
        /\ r.gen = AItem["issue"].gen =>
              /\ AItem["issue"].status = "HOLD" => r.status = "HOLD"
              /\ A!StatusRank[r.status] >= A!StatusRank[AItem["issue"].status]
    BY <1>0, <1>1, <1>4, <1>5, SameOrder, Names
  <2>. QED BY <2>1 DEF A!OrderOk, AItem, Row, Reserved, Used
<1>10. CASE s # "ACTIVE"
  <2>1. ~A!Runs(r)
    BY <1>1, <1>4, <1>10 DEF A!Runs
  <2>2. AWatch' = [i \in {"issue"} |-> A!WatchesAfter("issue", r, "ACTIVE")]
    BY <1>0, <1>2, <1>10, <2>1, ClosedMaps DEF WatchesEnd, Closed, Watches, None
  <2>3. A!LineageOk("issue", r)
    BY <2>1 DEF A!LineageOk
  <2>4. A!SetIssueStatus("issue", r, "ordinary", "ACTIVE")
    BY <1>0, <1>1, <1>3, <1>7, <1>8, <1>9, <2>2, <2>3, CalledMaps, Names DEF r
  <2>. QED BY <1>0, <1>1, <2>4, PlanWitness DEF r
<1>11. CASE s = "ACTIVE"
  <2>1. g = 1 /\ item.gen = 0 /\ watch' = Superseded(watch) /\ heir' = "ACTIVE"
    <3>1. CASE g = item.gen
      <4>1. item.status = "ACTIVE" /\ item.alloc = "ACTIVE"
        BY <1>0, <1>1, <1>11, <3>1, PlanMovesOn DEF Runs
      <4>2. watch'.state = watch.state /\ watch'.error = watch.error /\ heir' = heir
        BY <1>0, <1>2, <1>11, <3>1 DEF WatchGoesOn, Watches
      <4>. QED BY <1>1, <1>11, <3>1, <4>1, <4>2 DEF Mapped
    <3>. QED BY <1>0, <1>1, <1>2, <1>11, <3>1 DEF WatchGoesOn
  <2>2. A!Runs(r) /\ r.lease = "lease" /\ r.gen = 1
    BY <1>1, <1>4, <1>11, <2>1 DEF A!Runs, A!Executing
  <2>3. AWatch' = [i \in {"issue"} |-> A!WatchesAfter("issue", r, "ACTIVE")]
    BY <2>1, <2>2, SupersededMaps
  <2>4. A!LineageOk("issue", r)
    <3>1. heir = "ABSENT"
      BY <2>1 DEF LineageInv, HeirFollows
    <3>2. AWatch["issue"][r.gen].state = "ABSENT"
      BY <2>2, <3>1 DEF AWatch, Watch, Followed
    <3>. QED BY <2>2, <3>2 DEF A!LineageOk, AWatch, Watch, None
  <2>5. A!SetIssueStatus("issue", r, "ordinary", "ACTIVE")
    BY <1>0, <1>1, <1>3, <1>7, <1>8, <1>9, <2>3, <2>4, CalledMaps, Names DEF r
  <2>. QED BY <1>0, <1>1, <2>5, PlanWitness DEF r
<1>. QED BY <1>10, <1>11

\* _set_issue_status_from_ready_finalizer.
LEMMA FinalizeReadyMaps ==
    ASSUME LineageInv, FinalizeReady
    PROVE  A!FinalizeReady("issue")
<1>0. item \in Items /\ watch \in Watches /\ Types
  BY RowTypes DEF LineageInv
<1>. DEFINE r == Row("READY", "NONE", 0, 1)
<1>1. /\ item.status = "PREPARED" /\ item.alloc = "NONE" /\ item.gen = 0
      /\ item'.status = "READY" /\ item'.alloc = "NONE" /\ item'.gen = 0
      /\ watch' = watch /\ heir' = heir /\ heir = "ABSENT"
  BY <1>0 DEF FinalizeReady, Reserved, Items, LineageInv, HeirFollows
<1>10. Used = 1 /\ Used' = 1
  BY <1>1 DEF Used, Dropped
<1>2. A!ReleaseOk("issue", r, "ready") /\ A!GatewayOk("issue", r, "ready")
  BY <1>1 DEF A!ReleaseOk, A!GatewayOk, Row, A!Reserved, A!Executing, A!Runs
<1>3. A!OrderOk("issue", r) /\ ~A!Runs(r) /\ A!LineageOk("issue", r)
  BY <1>1, Ranks DEF A!OrderOk, A!LineageOk, Row, A!Runs, A!Executing
<1>4. AWatch' = [i \in {"issue"} |-> A!WatchesAfter("issue", r, "ACTIVE")]
  BY <1>0, <1>1, <1>3, ClosedMaps DEF LineageInv, OpenWatchRuns, Executing
<1>5. A!SetIssueStatus("issue", r, "ready", "ACTIVE")
  BY <1>1, <1>10, <1>2, <1>3, <1>4, CalledMaps, Names
<1>6. r = [AItem["issue"] EXCEPT !.status = "READY", !.lease = None]
  <2>1. AItem["issue"] = Row("PREPARED", "NONE", 0, 1)
    BY <1>1, <1>10, Rows
  <2>. QED BY <2>1, ReadyRow
<1>7. AItem["issue"].status = "PREPARED" /\ ~A!Reserved(AItem["issue"])
  BY <1>1 DEF AItem, Row, A!Reserved
<1>. QED BY <1>5, <1>6, <1>7, Zenon DEF A!FinalizeReady, AItem, Row, Reserved, Used

\* activate_admission: row and watch together.
LEMMA AdmitMaps ==
    ASSUME LineageInv, Admit
    PROVE  A!Admit("issue")
<1>0. item \in Items /\ watch \in Watches
  BY RowTypes DEF LineageInv
<1>. DEFINE r == Row("ACTIVE", "ACTIVE", 0, 1)
<1>1. /\ item.status = "READY" /\ item.alloc = "NONE" /\ item.gen = 0
      /\ item'.status = "ACTIVE" /\ item'.alloc = "ACTIVE" /\ item'.gen = 0
      /\ heir' = heir /\ heir = "ABSENT" /\ watch.state = "ABSENT" /\ watch.error = None
      /\ watch'.state = "PENDING_CLAIM" /\ watch'.error = None
  <2>1. item.status = "READY" /\ item.named /\ heir' = heir
    BY DEF Admit, AdmissionBound
  <2>2. item.alloc = "NONE" /\ item.gen = 0
    BY <2>1 DEF LineageInv, RowKinds, BeforeAdmission
  <2>3. heir = "ABSENT" /\ watch.state = "ABSENT" /\ watch.error = None
    BY <2>1, <2>2 DEF LineageInv, HeirFollows, BeforeAdmission
  <2>4. item'.status = "ACTIVE" /\ item'.alloc = "ACTIVE" /\ item'.gen = item.gen
    BY <1>0 DEF Admit, Items
  <2>5. watch'.state = "PENDING_CLAIM" /\ watch'.error = watch.error
    BY <1>0 DEF Admit, Watches
  <2>. QED BY <2>1, <2>2, <2>3, <2>4, <2>5
<1>10. Used = 1 /\ Used' = 1
  BY <1>1 DEF Used, Dropped
<1>2. A!ReleaseOk("issue", r, "admission") /\ A!GatewayOk("issue", r, "admission")
  BY <1>1 DEF A!ReleaseOk, A!GatewayOk, Row, A!Reserved, A!Executing, A!Runs
<1>3. A!OrderOk("issue", r) /\ A!Runs(r)
  BY <1>1, Ranks DEF A!OrderOk, Row, A!Runs, A!Executing
<1>4. A!LineageOk("issue", r)
  BY <1>1 DEF A!LineageOk, Row, Followed, None
<1>5. AWatch' = [i \in {"issue"} |-> A!WatchesAfter("issue", r, "PENDING_CLAIM")]
  <2>1. ASSUME NEW g \in {0, 1}
        PROVE  Watch(watch'.state, watch'.error, heir')[g] = A!WatchesAfter("issue", r, "PENDING_CLAIM")[g]
    <3>1. r.gen = 0 /\ r.lease = "lease"
      BY DEF Row
    <3>2. CASE g = 0
      <4>. DEFINE fresh == [state |-> "PENDING_CLAIM", lease |-> "lease", exhausted |-> FALSE]
      <4>1. A!WatchesAfter("issue", r, "PENDING_CLAIM")[g] = fresh
        <5>1. A!Gens = {0, 1} /\ g = r.gen
          BY <3>1, <3>2 DEF A!Gens
        <5>2. A!WatchesAfter("issue", r, "PENDING_CLAIM")[g] =
                [state |-> "PENDING_CLAIM", lease |-> r.lease, exhausted |-> FALSE]
          <6>. HIDE DEF r
          <6>. QED BY <1>1, <1>3, <3>2, <5>1 DEF A!WatchesAfter, Followed
        <5>. QED BY <3>1, <5>2
      <4>2. (watch'.error = "EXHAUSTED") = FALSE
        BY <1>1 DEF None
      <4>3. Watch(watch'.state, watch'.error, heir')[g] = fresh
        BY <1>1, <3>2, <4>2 DEF Watch, Followed
      <4>. QED BY <4>1, <4>3
    <3>3. CASE g = 1
      BY <1>1, <1>3, <3>1, <3>3 DEF A!WatchesAfter, A!Gens, AWatch, Watch, Followed
    <3>. QED BY <3>2, <3>3
  <2>2. Watch(watch'.state, watch'.error, heir') = A!WatchesAfter("issue", r, "PENDING_CLAIM")
    <3>1. A!Gens = {0, 1}
      BY DEF A!Gens
    <3>. QED BY <2>1, <3>1 DEF A!WatchesAfter, Watch
  <2>. QED BY <2>2 DEF AWatch
<1>6. A!SetIssueStatus("issue", r, "admission", "PENDING_CLAIM")
  BY <1>1, <1>10, <1>2, <1>3, <1>4, <1>5, CalledMaps, Names
<1>7. r = [AItem["issue"] EXCEPT !.status = "ACTIVE", !.alloc = "ACTIVE", !.lease = "lease",
                                 !.units = Units(1)]
  <2>1. AItem["issue"] = Row("READY", "NONE", 0, 1)
    BY <1>1, <1>10, Rows
  <2>. QED BY <2>1, AdmittedRow
<1>8. AItem["issue"].status = "READY"
  BY <1>1 DEF AItem, Row
<1>9. /\ AItem["issue"].status = "READY"
      /\ \E u \in {Units(1)}, l \in {"lease"} :
            A!SetIssueStatus("issue", [AItem["issue"] EXCEPT !.status = "ACTIVE", !.alloc = "ACTIVE",
                                                             !.lease = l, !.units = u],
                             "admission", "PENDING_CLAIM")
  BY <1>6, <1>7, <1>8
<1>. QED BY <1>9, Zenon DEF A!Admit, AItem, Row, Reserved, Used

\* A closeout keeps row, lease and watch; only the status moves.
LEMMA PrepareMaps ==
    ASSUME LineageInv, Prepare
    PROVE  A!Prepare("issue")
<1>0. item \in Items /\ watch \in Watches
  BY RowTypes DEF LineageInv
<1>. DEFINE r == Row("PUBLICATION_PENDING", "ACTIVE", 0, 1)
<1>1. /\ item.status = "ACTIVE" /\ item.alloc = "ACTIVE" /\ item.gen = 0
      /\ item'.status = "PUBLICATION_PENDING" /\ item'.alloc = "ACTIVE" /\ item'.gen = 0
      /\ watch.state = "ACTIVE" /\ watch'.state = "ACTIVE" /\ watch'.error = watch.error
      /\ heir = "ABSENT" /\ heir' = heir
  BY <1>0 DEF Prepare, PreparePermitted, Items, Watches, LineageInv, RowKinds, HeirFollows, Executing
<1>10. Used = 1 /\ Used' = 1
  BY <1>1 DEF Used, Dropped
<1>2. A!ReleaseOk("issue", r, "terminal") /\ A!GatewayOk("issue", r, "terminal")
  BY <1>1 DEF A!ReleaseOk, A!GatewayOk, Row, A!Reserved, A!Executing, A!Runs
<1>3. A!OrderOk("issue", r) /\ A!Runs(r)
  BY <1>1, Ranks DEF A!OrderOk, Row, A!Runs, A!Executing
<1>4. A!LineageOk("issue", r)
  BY <1>1 DEF A!LineageOk, Row, Followed, None
<1>5. AWatch' = [i \in {"issue"} |-> A!WatchesAfter("issue", r, "ACTIVE")]
  <2>1. ASSUME NEW g \in {0, 1}
        PROVE  Watch(watch'.state, watch'.error, heir')[g] = A!WatchesAfter("issue", r, "ACTIVE")[g]
    <3>1. r.gen = 0 /\ r.lease = "lease"
      BY DEF Row
    <3>2. AWatch["issue"][0].state = "ACTIVE" /\ AWatch["issue"] = Watch(watch.state, watch.error, heir)
      BY <1>1 DEF AWatch, Watch, Followed
    <3>3. A!WatchesAfter("issue", r, "ACTIVE")[g] = AWatch["issue"][g]
      BY <1>3, <3>1, <3>2 DEF A!WatchesAfter, A!Gens, AWatch, Watch, Followed
    <3>. QED BY <1>1, <3>2, <3>3
  <2>2. Watch(watch'.state, watch'.error, heir') = A!WatchesAfter("issue", r, "ACTIVE")
    <3>1. A!Gens = {0, 1}
      BY DEF A!Gens
    <3>. QED BY <2>1, <3>1 DEF A!WatchesAfter, Watch
  <2>. QED BY <2>2 DEF AWatch
<1>6. A!SetIssueStatus("issue", r, "terminal", "ACTIVE")
  BY <1>1, <1>10, <1>2, <1>3, <1>4, <1>5, CalledMaps, Names
<1>7. r = [AItem["issue"] EXCEPT !.status = "PUBLICATION_PENDING"]
  BY <1>1, <1>10, Rows, PublishedRow
<1>8. /\ AItem["issue"].status = "ACTIVE" /\ AItem["issue"].alloc = "ACTIVE"
      /\ AWatch["issue"][AItem["issue"].gen].state = "ACTIVE"
  BY <1>1 DEF AItem, Row, AWatch, Watch, Followed
<1>9. /\ AItem["issue"].status \in {"ACTIVE", "ACTIVE_FENCED", "MONITOR"}
      /\ A!SetIssueStatus("issue", [AItem["issue"] EXCEPT !.status = "PUBLICATION_PENDING"],
                          "terminal", "ACTIVE")
  BY <1>6, <1>7, <1>8
<1>. QED BY <1>8, <1>9, Zenon DEF A!Prepare, AItem, AWatch, Row, Watch, Reserved, Used

\* A park leaves execution and starts the next generation.
LEMMA ParkMaps ==
    ASSUME LineageInv, Park
    PROVE  A!Park("issue")
<1>0. item \in Items /\ watch \in Watches /\ Types
  BY RowTypes DEF LineageInv
<1>. DEFINE r == Row("PREPARED", "NONE", 1, 1)
<1>1. /\ item.status = "ACTIVE" /\ item.alloc = "ACTIVE" /\ item.gen = 0
      /\ item'.status = "PREPARED" /\ item'.alloc = "NONE" /\ item'.gen = 1
      /\ watch.state = "ACTIVE" /\ watch'.state = "COMPLETE" /\ watch'.error = None
      /\ heir = "ABSENT" /\ heir' = "ABSENT"
  BY <1>0 DEF Park, ParkPermitted, ParkLineage, WatchesEnd, Closed, Items, Watches, LineageInv, RowKinds,
              HeirFollows, Executing
<1>10. Used = 1 /\ Used' = 1
  BY <1>1 DEF Used, Dropped
<1>2. A!ReleaseOk("issue", r, "park") /\ A!GatewayOk("issue", r, "park")
  BY <1>1 DEF A!ReleaseOk, A!GatewayOk, Row, A!Reserved, A!Executing, A!Runs
<1>3. A!OrderOk("issue", r) /\ ~A!Runs(r) /\ A!LineageOk("issue", r)
  BY <1>1, Ranks DEF A!OrderOk, A!LineageOk, Row, A!Runs, A!Executing
<1>4. AWatch' = [i \in {"issue"} |-> A!WatchesAfter("issue", r, "ACTIVE")]
  BY <1>0, <1>1, <1>3, ClosedMaps DEF None
<1>5. A!SetIssueStatus("issue", r, "park", "ACTIVE")
  BY <1>1, <1>10, <1>2, <1>3, <1>4, CalledMaps, Names
<1>6. r = [AItem["issue"] EXCEPT !.status = "PREPARED", !.alloc = "NONE", !.gen = @ + 1, !.lease = None]
  <2>1. AItem["issue"] = Row("ACTIVE", "ACTIVE", 0, 1)
    BY <1>1, <1>10, Rows
  <2>. QED BY <2>1, ParkedRow
<1>7. /\ AItem["issue"].status = "ACTIVE" /\ AItem["issue"].alloc = "ACTIVE"
      /\ AItem["issue"].gen < 1 /\ AWatch["issue"][AItem["issue"].gen].state = "ACTIVE"
  BY <1>1 DEF AItem, Row, AWatch, Watch, Followed
<1>8. /\ AItem["issue"].status \in {"ACTIVE", "ACTIVE_FENCED"}
      /\ A!SetIssueStatus("issue", [AItem["issue"] EXCEPT !.status = "PREPARED", !.alloc = "NONE",
                                                         !.gen = @ + 1, !.lease = None],
                          "park", "ACTIVE")
  BY <1>5, <1>6, <1>7
<1>. QED BY <1>7, <1>8, Zenon DEF A!Park, AItem, AWatch, Row, Watch, Reserved, Used

\* Writing the state of a watch.
LEMMA StateMoves ==
    ASSUME NEW s, NEW t, NEW l, NEW e
    PROVE  [[state |-> s, lease |-> l, exhausted |-> e] EXCEPT !.state = t]
              = [state |-> t, lease |-> l, exhausted |-> e]
OBVIOUS

\* A step that moves the watch of generation 0 and writes no row.
LEMMA WatchMoves ==
    ASSUME watch.state # "ABSENT", NEW s \in {"ACTIVE", "HOLD", "COMPLETE"}, watch'.state = s,
           watch.error # "EXHAUSTED", watch'.error # "EXHAUSTED", UNCHANGED heir
    PROVE  AWatch' = [AWatch EXCEPT !["issue"][0].state = s]
<1>0. PICK e : e = FALSE
  OBVIOUS
<1>. DEFINE w == [state |-> watch.state, lease |-> "lease", exhausted |-> e]
            x == [state |-> s, lease |-> "lease", exhausted |-> e]
            n == Followed(heir, FALSE)
<1>1. (watch.error = "EXHAUSTED") = e /\ (watch'.error = "EXHAUSTED") = e
  BY <1>0
<1>2. AWatch = [i \in {"issue"} |-> [g \in {0, 1} |-> IF g = 0 THEN w ELSE n]]
  BY <1>1 DEF AWatch, Watch, Followed
<1>3. AWatch' = [i \in {"issue"} |-> [g \in {0, 1} |-> IF g = 0 THEN x ELSE n]]
  BY <1>1 DEF AWatch, Watch, Followed
<1>4. [w EXCEPT !.state = s] = x
  BY StateMoves
<1>. QED BY <1>2, <1>3, <1>4

\* The first claim starts the watch; a later one does not touch it.
LEMMA ClaimMaps ==
    ASSUME LineageInv, Claim, Mapped' # Mapped
    PROVE  A!Claim("issue")
<1>0. item \in Items /\ watch \in Watches
  BY RowTypes DEF LineageInv
<1>1. /\ UNCHANGED <<item, heir>> /\ watch'.state = "ACTIVE" /\ watch'.error = watch.error
      /\ watch.state \in {"PENDING_CLAIM", "ACTIVE"} /\ item.gen = 0
  BY <1>0 DEF Claim, Claimable, ContractError, ItemMatches, Watches, None
<1>2. /\ watch.state = "PENDING_CLAIM" /\ watch.error # "EXHAUSTED"
      /\ item.status = "ACTIVE" /\ item.alloc = "ACTIVE"
  BY <1>1 DEF Mapped, LineageInv, OpenWatchRuns, RowKinds, Executing
<1>10. Used = 1 /\ Used' = 1
  BY <1>1, <1>2 DEF Used, Dropped
<1>3. AWatch' = [AWatch EXCEPT !["issue"][0].state = "ACTIVE"] /\ AItem' = AItem
  BY <1>1, <1>2, <1>10, WatchMoves DEF AItem
<1>4. /\ AItem["issue"].gen = 0 /\ AItem["issue"].status = "ACTIVE" /\ A!Reserved(AItem["issue"])
      /\ AItem["issue"].lease = "lease" /\ AWatch["issue"][0].state = "PENDING_CLAIM"
      /\ AWatch["issue"][0].lease = "lease"
  BY <1>1, <1>2 DEF AItem, AWatch, Row, Watch, Followed, A!Reserved
<1>. QED BY <1>3, <1>4 DEF A!Claim, AItem, AWatch, Row, Watch, Reserved, Used

\* The supervisor stops following work that still runs.
LEMMA HoldWatchMaps ==
    ASSUME LineageInv, UNCHANGED <<item, heir>>, watch.state = "ACTIVE", watch'.state = "HOLD",
           watch'.error # "EXHAUSTED"
    PROVE  A!HoldWatch("issue", 0)
<1>1. /\ item.status \in Executing /\ item.alloc = "ACTIVE" /\ item.gen = 0
      /\ watch.error # "EXHAUSTED"
  BY DEF LineageInv, OpenWatchRuns, RowKinds
<1>10. Used = 1 /\ Used' = 1
  BY <1>1 DEF Used, Dropped, Executing
<1>2. AWatch' = [AWatch EXCEPT !["issue"][0].state = "HOLD"] /\ AItem' = AItem
  BY <1>1, <1>10, WatchMoves DEF AItem
<1>3. A!Runs(AItem["issue"]) /\ AWatch["issue"][0].state = "ACTIVE"
  BY <1>1 DEF AItem, AWatch, Row, Watch, Followed, A!Runs, A!Executing, Executing
<1>4. \E s \in IF A!Runs(AItem["issue"]) THEN {"HOLD"} ELSE {"HOLD", "COMPLETE"} :
         AWatch' = [AWatch EXCEPT !["issue"][0].state = s]
  BY <1>2, <1>3
<1>. QED BY <1>2, <1>3, <1>4 DEF A!HoldWatch, AItem, AWatch, Row, Watch, Reserved, Used

\* apply_source_equivalent_admission_rearm.
LEMMA RearmMaps ==
    ASSUME LineageInv, RearmSource
    PROVE  A!Rearm("issue")
<1>1. /\ item.status = "ACTIVE" /\ item.gen = 0 /\ watch.state = "HOLD" /\ watch.error = "BINDING"
      /\ UNCHANGED <<item, heir>> /\ watch'.state = "ACTIVE" /\ watch'.error = None
      /\ item.alloc = "ACTIVE"
  BY DEF RearmSource, RearmPermitted, LineageInv, RowKinds, Executing
<1>10. Used = 1 /\ Used' = 1
  BY <1>1 DEF Used, Dropped
<1>2. AWatch' = [AWatch EXCEPT !["issue"][0].state = "ACTIVE"] /\ AItem' = AItem
  BY <1>1, <1>10, WatchMoves DEF AItem, None
<1>3. /\ AItem["issue"].gen = 0 /\ AItem["issue"].status = "ACTIVE" /\ AItem["issue"].alloc = "ACTIVE"
      /\ AItem["issue"].lease = "lease" /\ AWatch["issue"][0].state = "HOLD"
      /\ AWatch["issue"][0].lease = "lease"
  BY <1>1 DEF AItem, AWatch, Row, Watch, Followed
<1>. QED BY <1>2, <1>3 DEF A!Rearm, AItem, AWatch, Row, Watch, Reserved, Used

\* commit_terminal_closeout: row and watch close together.
LEMMA CommitMaps ==
    ASSUME LineageInv, Commit
    PROVE  A!Commit("issue")
<1>0. item \in Items /\ watch \in Watches
  BY RowTypes DEF LineageInv
<1>1. /\ item.status = "PUBLICATION_PENDING" /\ item.gen = 0 /\ watch.state = "ACTIVE"
      /\ item.alloc = "ACTIVE" /\ item'.status = "DONE" /\ item'.alloc = "NONE" /\ item'.gen = 0
      /\ watch'.state = "COMPLETE" /\ watch'.error = None /\ packet' = "committed" /\ UNCHANGED heir
  BY <1>0 DEF Commit, CommitPermitted, Items, LineageInv, RowKinds, Executing
<1>10. Used = 1 /\ Used' = 0
  BY <1>1 DEF Used, Dropped, Reserved
<1>2. AWatch' = [AWatch EXCEPT !["issue"][0].state = "COMPLETE"]
  BY <1>1, WatchMoves DEF None, LineageInv, OpenWatchRuns
<1>3. AItem["issue"] = Row("PUBLICATION_PENDING", "ACTIVE", 0, 1)
  BY <1>1, <1>10, Rows
<1>4. AItem' = [AItem EXCEPT !["issue"] = Row("DONE", "NONE", 0, 0)]
  BY <1>1, <1>10 DEF AItem
<1>5. AItem' = [AItem EXCEPT !["issue"] = [@ EXCEPT !.status = "DONE", !.alloc = "NONE",
                                                   !.lease = None, !.units = A!Zero]]
  BY <1>3, <1>4, DoneRow
<1>6. /\ AItem["issue"].gen = 0 /\ AItem["issue"].status = "PUBLICATION_PENDING"
      /\ AItem["issue"].alloc = "ACTIVE" /\ AItem["issue"].lease = "lease"
      /\ AWatch["issue"][0].state = "ACTIVE" /\ AWatch["issue"][0].lease = "lease"
  BY <1>1, <1>3, Rows, Names DEF AWatch, Watch, Followed
<1>. QED BY <1>2, <1>5, <1>6, Zenon DEF A!Commit, AItem, AWatch, Row, Watch, Reserved, Used

\* Two watches are equal when their columns are.
LEMMA SameWatch ==
    ASSUME NEW E,
           NEW r \in [state : {"PENDING_CLAIM", "HOLD"}, lease : {"lease"}, exhausted : E],
           NEW s \in [state : {"PENDING_CLAIM", "HOLD"}, lease : {"lease"}, exhausted : E],
           r.state = s.state, r.lease = s.lease, r.exhausted = s.exhausted
    PROVE  r = s
OBVIOUS

\* An unclaimed admission is retained with its item and watch.
LEMMA HoldUnclaimedMaps ==
    ASSUME LineageInv, watch.state = "PENDING_CLAIM", watch'.state = "HOLD",
           item.gen = 0, item'.status = "HOLD", item'.alloc = "RETAINED", item'.gen = item.gen,
           UNCHANGED heir, NEW f, (watch'.error = "EXHAUSTED") = f
    PROVE  A!HoldUnclaimed("issue", f)
<1>1. item.status = "ACTIVE" /\ item.alloc = "ACTIVE" /\ item.gen = 0 /\ watch.error # "EXHAUSTED"
  BY DEF LineageInv, OpenWatchRuns, RowKinds, Executing
<1>10. Used = 1 /\ Used' = 1
  BY <1>1 DEF Used, Dropped
<1>2. AWatch' = [AWatch EXCEPT !["issue"][0] = [@ EXCEPT !.state = "HOLD", !.exhausted = f]]
  <2>0. PICK e : e = FALSE
    OBVIOUS
  <2>. DEFINE w == [state |-> "PENDING_CLAIM", lease |-> "lease", exhausted |-> e]
              x == [state |-> "HOLD", lease |-> "lease", exhausted |-> f]
              n == Followed(heir, FALSE)
  <2>1. (watch.error = "EXHAUSTED") = e
    BY <1>1, <2>0
  <2>2. AWatch = [i \in {"issue"} |-> [h \in {0, 1} |-> IF h = 0 THEN w ELSE n]]
    BY <2>1 DEF AWatch, Watch, Followed
  <2>3. AWatch' = [i \in {"issue"} |-> [h \in {0, 1} |-> IF h = 0 THEN x ELSE n]]
    BY DEF AWatch, Watch, Followed
  <2>4. /\ w = [state |-> "PENDING_CLAIM", lease |-> "lease", exhausted |-> e]
        /\ x = [state |-> "HOLD", lease |-> "lease", exhausted |-> f]
    OBVIOUS
  <2>. HIDE DEF w, x, n
  <2>5. [w EXCEPT !.state = "HOLD", !.exhausted = f] = x
    <3>. DEFINE E == {e, f}
                r == [w EXCEPT !.state = "HOLD", !.exhausted = f]
    <3>1. w \in [state : {"PENDING_CLAIM", "HOLD"}, lease : {"lease"}, exhausted : E]
      BY ONLY <2>4
    <3>2. /\ r \in [state : {"PENDING_CLAIM", "HOLD"}, lease : {"lease"}, exhausted : E]
          /\ x \in [state : {"PENDING_CLAIM", "HOLD"}, lease : {"lease"}, exhausted : E]
      BY ONLY <2>4, <3>1
    <3>3. r.state = x.state /\ r.lease = x.lease /\ r.exhausted = x.exhausted
      BY ONLY <2>4, <3>1
    <3>. HIDE DEF r, E
    <3>4. r = x
      BY <3>2, <3>3, SameWatch
    <3>. QED BY <3>4 DEF r
  <2>. QED BY <2>2, <2>3, <2>5
<1>3. AItem["issue"] = Row("ACTIVE", "ACTIVE", 0, 1)
  BY <1>1, <1>10, Rows
<1>4. AItem' = [AItem EXCEPT !["issue"] = Row("HOLD", "RETAINED", 0, 1)]
  BY <1>1, <1>10 DEF AItem
<1>5. AItem' = [AItem EXCEPT !["issue"] = [@ EXCEPT !.status = "HOLD", !.alloc = "RETAINED"]]
  BY <1>3, <1>4, HeldRow
<1>6. /\ AItem["issue"].gen = 0 /\ AItem["issue"].status = "ACTIVE" /\ AItem["issue"].alloc = "ACTIVE"
      /\ AWatch["issue"][0].state = "PENDING_CLAIM"
  BY <1>3, Rows, Names DEF AWatch, Watch, Followed
<1>7. LET g == AItem["issue"].gen
      IN  /\ AItem["issue"].status \in {"ACTIVE", "ACTIVE_FENCED", "MONITOR"}
          /\ AItem["issue"].alloc = "ACTIVE"
          /\ AWatch["issue"][g].state = "PENDING_CLAIM"
          /\ AWatch' = [AWatch EXCEPT !["issue"][g] = [@ EXCEPT !.state = "HOLD", !.exhausted = f]]
          /\ AItem' = [AItem EXCEPT !["issue"] = [@ EXCEPT !.status = "HOLD", !.alloc = "RETAINED"]]
  BY <1>2, <1>5, <1>6
<1>. QED BY <1>7, Zenon DEF A!HoldUnclaimed, AItem, AWatch, Row, Watch, Reserved, Used

\* The item starts over; the held watch stays as evidence.
LEMMA RecoverUnclaimedMaps ==
    ASSUME LineageInv, RecoverUnclaimed
    PROVE  A!RecoverUnclaimed("issue")
<1>0. item \in Items
  BY RowTypes DEF LineageInv
<1>1. /\ item.status = "HOLD" /\ item.gen = 0 /\ watch.state = "HOLD" /\ watch.error = "EXHAUSTED"
      /\ item.alloc = "RETAINED" /\ item'.status = "PREPARED" /\ item'.alloc = "NONE" /\ item'.gen = 1
      /\ watch' = watch /\ heir' = heir
  BY <1>0 DEF RecoverUnclaimed, ExhaustedTogether, Items, LineageInv, RowKinds
<1>10. Used = 1 /\ Used' = 1
  BY <1>1 DEF Used, Dropped
<1>2. AItem["issue"] = Row("HOLD", "RETAINED", 0, 1)
  BY <1>1, <1>10, Rows
<1>3. AItem' = [AItem EXCEPT !["issue"] = Row("PREPARED", "NONE", 1, 1)] /\ AWatch' = AWatch
  BY <1>1, <1>10 DEF AItem, AWatch
<1>4. /\ AItem["issue"].gen = 0 /\ AItem["issue"].status = "HOLD" /\ AItem["issue"].alloc = "RETAINED"
      /\ AItem["issue"].lease = "lease"
      /\ AWatch["issue"][0].state = "HOLD" /\ AWatch["issue"][0].exhausted
      /\ AWatch["issue"][0].lease = "lease"
  <2>1. PICK b : b = (watch.error = "EXHAUSTED")
    OBVIOUS
  <2>2. b
    BY <1>1, <2>1
  <2>3. AWatch["issue"][0] = [state |-> "HOLD", lease |-> "lease", exhausted |-> b]
    BY <1>1, <2>1 DEF AWatch, Watch, Followed
  <2>4. AWatch["issue"][0].exhausted = b
    BY <2>3
  <2>. QED BY <1>1, <1>2, <2>2, <2>3, <2>4, Rows, Names
<1>5. Row("PREPARED", "NONE", 1, 1) = [AItem["issue"] EXCEPT !.status = "PREPARED", !.alloc = "NONE",
                                                 !.gen = AItem["issue"].gen + 1, !.lease = None]
  BY <1>2, <1>4, RecoveredRow
<1>6. AItem["issue"].gen < 1
  BY <1>4
<1>7. /\ AItem["issue"].status = "HOLD" /\ AItem["issue"].alloc = "RETAINED" /\ AItem["issue"].gen < 1
      /\ AWatch["issue"][AItem["issue"].gen].state = "HOLD" /\ AWatch["issue"][AItem["issue"].gen].exhausted
      /\ AWatch["issue"][AItem["issue"].gen].lease = AItem["issue"].lease
      /\ AItem' = [AItem EXCEPT !["issue"] = [AItem["issue"] EXCEPT !.status = "PREPARED", !.alloc = "NONE",
                                                 !.gen = AItem["issue"].gen + 1, !.lease = None]]
  BY <1>3, <1>4, <1>5, <1>6
<1>. QED BY <1>3, <1>7, Zenon DEF A!RecoverUnclaimed, AItem, AWatch, Row, Watch, Reserved, Used

\* _hold_retry_exhausted_locked, on either message.
LEMMA ExhaustMaps ==
    ASSUME LineageInv, NEW p \in Phases, Exhaust(p), Mapped' # Mapped, UNCHANGED heir
    PROVE  A!HoldUnclaimed("issue", TRUE)
<1>0. item \in Items /\ watch \in Watches
  BY RowTypes DEF LineageInv
<1>1. msg.state = "PREPARED"
  BY DEF Exhaust, Mapped
<1>2. /\ watch.state = "PENDING_CLAIM" /\ watch'.state = "HOLD" /\ watch'.error = "EXHAUSTED"
      /\ item.gen = 0 /\ item'.status = "HOLD" /\ item'.alloc = "RETAINED" /\ item'.gen = item.gen
  <2>1. /\ Unclaimed /\ item' = [item EXCEPT !.status = "HOLD", !.alloc = "RETAINED"]
        /\ watch' = [state |-> "HOLD", error |-> "EXHAUSTED", tries |-> 0]
    BY <1>1 DEF Exhaust
  <2>2. item'.status = "HOLD" /\ item'.alloc = "RETAINED" /\ item'.gen = item.gen
    BY <1>0, <2>1 DEF Items
  <2>3. watch.state = "PENDING_CLAIM" /\ ContractError = None
    BY <2>1 DEF Unclaimed
  <2>4. item.gen = 0
    BY <2>3 DEF ContractError, ItemMatches, None
  <2>. QED BY <2>1, <2>2, <2>3, <2>4
<1>3. (watch'.error = "EXHAUSTED") = TRUE
  BY <1>2
<1>. QED BY <1>2, <1>3, HoldUnclaimedMaps

\* A step of the lineage's item or watch is a step of Allocation.
LEMMA ItemStepMaps ==
    ASSUME A!ItemStep("issue")
    PROVE  A!Next
BY Zenon DEF A!Next

\* Generation 0 is one Allocation knows.
LEMMA ZeroGen == 0 \in A!Gens
BY DEF A!Gens

\* What planner and owner call.
LEMMA PlannerMaps ==
    ASSUME LineageInv, Planner, Mapped' # Mapped
    PROVE  A!ItemStep("issue")
<1>0. item \in Items /\ watch \in Watches
  BY RowTypes DEF LineageInv
<1>1. CASE Plan
  BY <1>1, PlanMaps, Zenon DEF A!ItemStep
<1>2. CASE FinalizeReady
  BY <1>2, FinalizeReadyMaps, Zenon DEF A!ItemStep
<1>3. CASE Admit
  BY <1>3, AdmitMaps, Zenon DEF A!ItemStep
<1>4. CASE HoldUnclaimed
  <2>1. /\ watch.state = "PENDING_CLAIM" /\ watch'.state = "HOLD" /\ watch'.error = "PLANNER"
        /\ item.gen = 0 /\ item'.status = "HOLD" /\ item'.alloc = "RETAINED" /\ item'.gen = item.gen
        /\ UNCHANGED heir
    BY <1>0, <1>4 DEF HoldUnclaimed, Items
  <2>2. (watch'.error = "EXHAUSTED") = FALSE
    BY <2>1
  <2>3. A!HoldUnclaimed("issue", FALSE)
    BY <2>1, <2>2, HoldUnclaimedMaps
  <2>. QED BY <2>3, Zenon DEF A!ItemStep
<1>5. CASE RecoverUnclaimed
  BY <1>5, RecoverUnclaimedMaps, Zenon DEF A!ItemStep
<1>6. CASE RearmSource
  BY <1>6, RearmMaps, Zenon DEF A!ItemStep
<1>7. CASE Park
  BY <1>7, ParkMaps, Zenon DEF A!ItemStep
<1>. QED BY <1>1, <1>2, <1>3, <1>4, <1>5, <1>6, <1>7 DEF Planner

\* A held watch is an item step.
LEMMA HeldStep ==
    ASSUME LineageInv, UNCHANGED <<item, heir>>, watch.state = "ACTIVE", watch'.state = "HOLD",
           watch'.error # "EXHAUSTED"
    PROVE  A!ItemStep("issue")
<1>1. A!HoldWatch("issue", 0)
  BY HoldWatchMaps
<1>. QED BY <1>1, ZeroGen, Zenon DEF A!ItemStep

\* What a pass of the supervisor writes.
LEMMA SupervisorMaps ==
    ASSUME LineageInv, Supervisor, Mapped' # Mapped
    PROVE  A!ItemStep("issue")
<1>0. item \in Items /\ watch \in Watches /\ Types
  BY RowTypes DEF LineageInv
<1>00. UNCHANGED heir
  BY DEF Supervisor, BeginPass, CheckContract, HoldStale, ReserveWake, ReserveTerminalWatch, Submit,
         Abandon, Crash, Unacknowledged, store
<1>1. ASSUME NEW p \in Phases, Exhaust(p)
      PROVE  A!ItemStep("issue")
  <2>1. A!HoldUnclaimed("issue", TRUE)
    BY <1>00, <1>1, ExhaustMaps
  <2>. QED BY <2>1, Zenon DEF A!ItemStep
<1>2. CASE UNCHANGED <<item, watch>>
  BY <1>00, <1>2 DEF Mapped
<1>3. CASE BeginPass \/ CheckContract \/ HoldStale \/ Submit \/ Crash
  BY <1>2, <1>3 DEF BeginPass, CheckContract, HoldStale, Submit, Crash, store
<1>4. CASE ReserveWake
  <2>1. Phase(msg.state) \in Phases
    BY DEF Phase, Phases
  <2>2. UNCHANGED <<item, watch>> \/ Exhaust(Phase(msg.state))
    BY <1>4 DEF ReserveWake
  <2>. QED BY <1>1, <1>2, <2>1, <2>2
<1>5. CASE ReserveTerminalWatch
  <2>1. UNCHANGED item
    BY <1>5 DEF ReserveTerminalWatch
  <2>2. \/ UNCHANGED watch
        \/ /\ watch.state = "ACTIVE"
           /\ \/ watch' = [state |-> "HOLD", error |-> "BINDING", tries |-> 0]
              \/ watch' = [state |-> "HOLD", error |-> "RETRY", tries |-> 0]
              \/ watch' = [watch EXCEPT !.tries = Count]
    BY <1>5 DEF ReserveTerminalWatch, ReserveLaunch
  <2>3. CASE watch' = [watch EXCEPT !.tries = Count]
    BY <1>0, <1>00, <2>1, <2>3 DEF Mapped, Watches
  <2>. QED BY <1>00, <1>2, <2>1, <2>2, <2>3, HeldStep
<1>6. CASE Abandon
  <2>1. \/ UNCHANGED <<item, watch>>
        \/ sup.seen \in Phases /\ Exhaust(sup.seen)
        \/ /\ watch.state = "ACTIVE" /\ UNCHANGED item
           /\ watch' = [state |-> "HOLD", error |-> "RETRY", tries |-> 0]
    BY <1>6 DEF Abandon
  <2>. QED BY <1>00, <1>1, <1>2, <2>1, HeldStep
<1>7. CASE Unacknowledged
  <2>1. \/ UNCHANGED <<item, watch>>
        \/ /\ watch.state = "ACTIVE" /\ UNCHANGED item
           /\ watch' = [state |-> "HOLD", error |-> "LAUNCH", tries |-> 0]
    BY <1>7 DEF Unacknowledged
  <2>. QED BY <1>00, <1>2, <2>1, HeldStep
<1>. QED BY <1>3, <1>4, <1>5, <1>6, <1>7 DEF Supervisor

\* What executors call.
LEMMA ExecutorMaps ==
    ASSUME LineageInv, Executor, Mapped' # Mapped
    PROVE  A!ItemStep("issue")
<1>0. watch \in Watches
  BY RowTypes DEF LineageInv
<1>00. UNCHANGED heir
  BY DEF Executor, StartAttempt, EndAttempt, Claim, RefuseClaim, RecordRefusal, Heartbeat, Prepare,
         Observe, Commit, store
<1>1. CASE UNCHANGED <<item, watch>>
  BY <1>00, <1>1 DEF Mapped
<1>2. CASE (\E k \in Targets : StartAttempt(k)) \/ EndAttempt \/ RefuseClaim \/ RecordRefusal \/ Observe
  BY <1>1, <1>2 DEF StartAttempt, EndAttempt, RefuseClaim, RecordRefusal, Observe, store
<1>3. CASE Heartbeat
  BY <1>0, <1>00, <1>3 DEF Heartbeat, Mapped, Watches
<1>4. CASE Claim
  BY <1>4, ClaimMaps, Zenon DEF A!ItemStep
<1>5. CASE Prepare
  BY <1>5, PrepareMaps, Zenon DEF A!ItemStep
<1>6. CASE Commit
  BY <1>6, CommitMaps, Zenon DEF A!ItemStep
<1>. QED BY <1>2, <1>3, <1>4, <1>5, <1>6 DEF Executor

\* Every step, by whichever process, is an item step or leaves the mapped columns.
LEMMA StepMaps == LineageInv /\ [Next]_vars => [Mapped' # Mapped => A!Next]_vars
<1>. SUFFICES ASSUME LineageInv, Next, Mapped' # Mapped
              PROVE  A!Next
  BY DEF vars, github, store, Mapped
<1>1. CASE Outside \/ Publisher
  BY <1>1 DEF Outside, Foreign, OwnComment, Sync, Publisher, PublisherSync, PublisherPost, store, Mapped
<1>2. CASE Planner
  BY <1>2, PlannerMaps, ItemStepMaps
<1>3. CASE Supervisor
  BY <1>3, SupervisorMaps, ItemStepMaps
<1>4. CASE Executor
  BY <1>4, ExecutorMaps, ItemStepMaps
<1>. QED BY <1>1, <1>2, <1>3, <1>4 DEF Next

\* For any bounds, admission, claim, hold, rearm, recovery, park and closeout move item
\* and watch only as Allocation allows, however supervisor, late executors, planner and
\* owner interleave: what is proved of Allocation holds of the lineage.
THEOREM ImplementsAllocation == Spec => AllocationSpec
<1>1. Spec => []LineageInv
  BY LineageInvariant
<1>. QED BY <1>1, RefInit, StepMaps, PTL DEF Spec, AllocationSpec
=============================================================================
