------------------------------ MODULE Lineage ------------------------------
(***************************************************************************)
(* One admitted unit of work (issue, generation 0, lease) from planning to *)
(* its published closeout: the item, the admission message, the terminal   *)
(* watch, the executors launched for either, the closeout packet, and the  *)
(* supervisor that scans, holds, reserves and launches.                    *)
(*                                                                         *)
(* Every binding names a revision of the GitHub issue.  `live' is the      *)
(* issue as GitHub has it and `db' the snapshot in SQLite; a revision      *)
(* counts what others changed and the comments our own outbox posted,      *)
(* because only the latter can be proven benign.  Item and watch are those *)
(* of Allocation, which this module implements (AllocationSpec).           *)
(*                                                                         *)
(* Ordinary callers may replan the item at any time, also into the next    *)
(* generation, whose row and watch are kept here because the lineage runs  *)
(* on beside them; messages and claims of that generation are a lineage of *)
(* their own.                                                              *)
(*                                                                         *)
(* The supervisor is one process (flock) that reads outside transactions;  *)
(* its pass is cut at each transaction.  Executors are child processes     *)
(* that start late, crash, or never acknowledge.  Retry delays and the     *)
(* launch policy only postpone a pass and are left out, as are endpoint    *)
(* rotation, recovery of HOLD items and approvals.                         *)
(***************************************************************************)
EXTENDS Integers

CONSTANTS
    MaxForeign,     \* bound: revisions made by others
    MaxOwn,         \* bound: comments of our outbox, the closeout included
    MaxTries        \* MAX_IDENTICAL_TARGET_LAUNCH_ATTEMPTS

ASSUME BoundsAssumption == MaxForeign \in Nat /\ MaxOwn \in Nat
ASSUME TriesAssumption == MaxTries \in Nat \ {0}

VARIABLES
    live,       \* the issue on GitHub
    db,         \* github_current
    item,       \* coordination_items: status, alloc (allocation_class), generation,
                \*   source (left out of rows no fence reads it from); named: its
                \*   version is the one its attestation, its admission or its
                \*   exhaustion left
    msg,        \* the admission message: state, last_error, source
    watch,      \* its terminal watch: state, last_error, attempts (0 once it is held or
                \*   closed, when nothing reads them any more)
    heir,       \* state of the terminal watch of generation 1
    receipt,    \* revision of the source equivalence receipt
    packet,     \* terminal closeout packet with its outbox row
    wake,       \* coordination_wakes of the message, by phase
    launch,     \* the unresolved submission intent: a wake phase or "watch"
    sup,        \* the supervisor's place in its pass
    child,      \* submitted executors that have not started
    attempt,    \* target of the RUNNING attempt of the lineage
    claimer,    \* state of the attempt bound as watch.claim_attempt_id
    watched,    \* some terminal watch attempt has ended
    late,       \* error of a refused claim, to be recorded by its 2nd transaction
    evidence    \* live evidence acquired by the finalizing attempt

github == <<live, db>>
store == <<item, msg, watch, heir, receipt, packet>>
scheduler == <<wake, launch, sup>>
executors == <<child, attempt, claimer, watched, late, evidence>>
vars == <<github, store, scheduler, executors>>

Revisions == [foreign : 0..MaxForeign, own : 0..MaxOwn]
Statuses == {"ABSENT", "PREPARED", "READY", "ACTIVE", "PUBLICATION_PENDING", "HOLD", "DONE"}
Targets == {"message", "watch"}
Phases == {"prepared", "claimed"}
Open == {"PREPARED", "CLAIMED"}
None == "none"
NoRevision == [foreign |-> -1, own |-> -1]
Idle == [pc |-> "idle", seen |-> None]

\* PREPARED stands for BACKLOG, PREPARED and QUEUED, ACTIVE for ACTIVE, ACTIVE_FENCED
\* and MONITOR: the last is reached only by a replan, which already breaks the version
\* the admission names.
Executing == {"ACTIVE", "PUBLICATION_PENDING"}
Classes == {"NONE", "ACTIVE", "RETAINED"}
Runs(row) == row.alloc = "ACTIVE" /\ row.status \in Executing
Reserved == item.alloc # "NONE"

\* The revision after one more comment of ours.
Commented(r) == [r EXCEPT !.own = @ + 1]

Init ==
    /\ live = [foreign |-> 0, own |-> 0]
    /\ db = live
    /\ item = [status |-> "ABSENT", alloc |-> "NONE", gen |-> 0, source |-> live, named |-> FALSE]
    /\ msg = [state |-> "ABSENT", error |-> None, source |-> live]
    /\ watch = [state |-> "ABSENT", error |-> None, tries |-> 0]
    /\ heir = "ABSENT"
    /\ receipt = NoRevision
    /\ packet = None
    /\ wake = [p \in Phases |-> [state |-> None, n |-> 0]]
    /\ launch = None
    /\ sup = Idle
    /\ child = {}
    /\ attempt = None /\ claimer = None /\ watched = FALSE
    /\ late = None
    /\ evidence = NoRevision

-----------------------------------------------------------------------------
(* GitHub and the snapshots.                                               *)

\* Somebody else edits or comments.
Foreign ==
    /\ live.foreign < MaxForeign
    /\ live' = [live EXCEPT !.foreign = @ + 1]
    /\ UNCHANGED <<db, store, scheduler, executors>>

\* An ordinary outbox row is published: it stores the snapshot it compares with.
OwnComment ==
    /\ live.own < MaxOwn
    /\ db' = live
    /\ live' = Commented(live)
    /\ UNCHANGED <<store, scheduler, executors>>

\* The graph supervisor's timer synchronises every node of the portfolio.
Sync ==
    /\ db # live
    /\ db' = live
    /\ UNCHANGED <<live, store, scheduler, executors>>

-----------------------------------------------------------------------------
(* Planning and admission.  Every call names the current snapshot.         *)

\* Mutant: the closed watch gets a state the table does not have.
ClosedUnknownState(w) == [w EXCEPT !.state = "CLOSED"]

\* Mutant: leaving execution forgets the watch.
ClosedNever(w) == w

\* Leaving execution closes the open watch.
Closed(w) == IF w.state \in {"PENDING_CLAIM", "ACTIVE"}
             THEN [state |-> "COMPLETE", error |-> None, tries |-> 0] ELSE w

\* SUPERSEDED_BY_NEW_GENERATION: only an ACTIVE watch ends.
Superseded(w) == IF w.state = "ACTIVE" THEN [state |-> "COMPLETE", error |-> None, tries |-> 0] ELSE w

StatusRank == [s \in Statuses |->
    CASE s = "ABSENT" -> 0 [] s = "PREPARED" -> 1 [] s = "READY" -> 2 [] s = "ACTIVE" -> 3
      [] s = "PUBLICATION_PENDING" -> 4 [] s = "HOLD" -> 5 [] s = "DONE" -> 6]

\* The rows ordinary callers ask for.  A reserved row that does not run is RETAINED here,
\* and HOLD if its status is an executing one: no fence of the lineage tells these apart.
PlannedRows ==
    ({"PREPARED", "READY", "HOLD", "DONE"} \X {"NONE", "RETAINED"}) \cup {<<"ACTIVE", "ACTIVE">>}

\* Of the next generation the lineage can only tell whether the row is reserved and runs:
\* three rows stand for all.
NextRows == {<<"PREPARED", "NONE">>, <<"HOLD", "RETAINED">>, <<"ACTIVE", "ACTIVE">>}

\* Mutant: an ordinary caller may also finish the work.
ReleaseOkDone(new) == Reserved => new.alloc # "NONE" \/ new.status = "DONE"

\* TERMINAL_FINALIZATION_REQUIRED.
ReleaseOk(new) == Reserved => new.alloc # "NONE" /\ new.status # "DONE"

\* ADMISSION_ACTIVATION_REQUIRED and READY_FINALIZATION_REQUIRED.
GatewayOk(new) ==
    /\ new.status = "ACTIVE" => Runs(item)
    /\ new.status = "READY" => item.status = "READY"

\* NEW_GENERATION_REQUIRED and STATUS_REGRESSION; the next generation starts anywhere.
OrderOk(new) ==
    new.gen = item.gen =>
        /\ item.status = "HOLD" => new.status = "HOLD"
        /\ StatusRank[new.status] >= StatusRank[item.status]

\* Work that goes on keeps the open watch of its generation, whose budget starts over
\* (its progress digest covers the item version), or opens the one of the next.
WatchGoesOn(new) ==
    \/ /\ new.gen = 0 /\ watch.state \in {"PENDING_CLAIM", "ACTIVE"}
       /\ watch' = [watch EXCEPT !.tries = 0] /\ UNCHANGED heir
    \/ /\ new.gen = 1 /\ item.gen = 0
       /\ watch' = Superseded(watch) /\ heir' = "ACTIVE"
    \/ /\ new.gen = 1 /\ item.gen = 1 /\ heir = "ACTIVE"
       /\ UNCHANGED <<watch, heir>>

WatchesEnd ==
    /\ watch' = Closed(watch)
    /\ heir' = IF heir = "ACTIVE" THEN "COMPLETE" ELSE heir

\* set_issue_status of an ordinary caller, in this generation or the next.
Plan ==
    \E gen \in {item.gen, 1} : \E row \in IF gen = 0 THEN PlannedRows ELSE NextRows :
        LET new == [status |-> row[1], alloc |-> row[2], gen |-> gen,
                    source |-> IF gen = 0 /\ row[2] = "ACTIVE" THEN db ELSE NoRevision,
                    named |-> FALSE]
        IN  /\ ReleaseOk(new) /\ GatewayOk(new) /\ OrderOk(new)
            /\ item' = new
            /\ IF Runs(new) THEN WatchGoesOn(new) ELSE WatchesEnd
            /\ UNCHANGED <<github, msg, receipt, packet, scheduler, executors>>

\* The attestation names the version it leaves.
FinalizeReady ==
    /\ item.status = "PREPARED" /\ ~Reserved /\ item.gen = 0
    /\ item' = [item EXCEPT !.status = "READY", !.source = db, !.named = TRUE]
    /\ UNCHANGED <<github, msg, watch, heir, receipt, packet, scheduler, executors>>

\* The item, its lease artifact and the packet of the admission agree on the source,
\* and the attestation on the version.
AdmissionBound == item.status = "READY" /\ item.named /\ item.source = db

\* activate_admission: item, message and watch in one transaction.
Admit ==
    /\ AdmissionBound
    /\ item' = [item EXCEPT !.status = "ACTIVE", !.alloc = "ACTIVE"]
    /\ msg' = [state |-> "PREPARED", error |-> None, source |-> db]
    /\ watch' = [watch EXCEPT !.state = "PENDING_CLAIM"]
    /\ UNCHANGED <<github, heir, receipt, packet, scheduler, executors>>

-----------------------------------------------------------------------------
(* The fences every path evaluates.                                        *)

TerminalPending == item.status = "PUBLICATION_PENDING" /\ packet # None

ItemMatches ==
    /\ item.gen = 0 /\ item.status \in Executing
    /\ item.source = msg.source
    /\ item.named \/ TerminalPending

\* _validate_message_source, then _validate_message_contract.
ContractError ==
    IF db # msg.source THEN "SOURCE" ELSE IF ~ItemMatches THEN "ITEM" ELSE None

\* admission_lineage_source_is_current.
LineageSourceIsCurrent ==
    \/ db = item.source
    \/ msg.state = "CLAIMED" /\ watch.state = "ACTIVE" /\ receipt = db /\ item.named

\* The claim attempt a terminal watch may continue from.
ClaimBindingOk == claimer \in {"RUNNING", "COMPLETE"} \cup (IF packet # None THEN {"HOLD"} ELSE {})

\* Mutant: neither packet nor watch is consulted.
NeedsWorkerOpen(state) == state \in Open

\* _message_needs_worker, apart from the contract.
NeedsWorker(state) ==
    \/ state = "PREPARED"
    \/ state = "CLAIMED" /\ packet = None /\ watch.state # "ACTIVE"

\* Mutant: a RUNNING attempt is overlooked.
LineageFreeAlways == TRUE

\* active_attempt_for_lineage finds nobody.
LineageFree == attempt = None

Phase(state) == IF state = "PREPARED" THEN "prepared" ELSE "claimed"
HoldMessage(error) ==
    msg' = IF msg.state \in Open THEN [msg EXCEPT !.state = "HOLD", !.error = error] ELSE msg

-----------------------------------------------------------------------------
(* A pass of the supervisor: stale wakes, the message, the watch.          *)

Stale(p) ==
    /\ wake[p].state = "INFLIGHT" /\ launch # p
    /\ \/ msg.state \notin Open
       \/ p = "prepared" /\ msg.state # "PREPARED"
       \/ p = "claimed" /\ (~NeedsWorker(msg.state) \/ ContractError # None)

EndOfMessages == [pc |-> "watch", seen |-> None]

\* _complete_stale_wakes, and the rows are read, once; a CLAIMED row with a packet
\* is left alone.
BeginPass ==
    /\ sup = Idle
    /\ wake' = [p \in Phases |-> IF Stale(p) THEN [wake[p] EXCEPT !.state = "COMPLETE"] ELSE wake[p]]
    /\ sup' = IF msg.state \in Open /\ ~(msg.state = "CLAIMED" /\ packet # None)
              THEN [pc |-> "contract", seen |-> msg.state] ELSE EndOfMessages
    /\ UNCHANGED <<launch, github, store, executors>>

\* The contract is read outside the transaction that acts on it.
CheckContract ==
    /\ sup.pc = "contract"
    /\ sup' = IF ContractError # None THEN [pc |-> "hold", seen |-> ContractError]
              ELSE IF NeedsWorker(sup.seen) /\ LineageFree /\ launch = None
                   THEN [sup EXCEPT !.pc = "reserve"] ELSE EndOfMessages
    /\ UNCHANGED <<wake, launch, github, store, executors>>

\* _hold_stale_message.
HoldStale ==
    /\ sup.pc = "hold"
    /\ HoldMessage(sup.seen)
    /\ sup' = EndOfMessages
    /\ UNCHANGED <<wake, launch, github, item, watch, heir, receipt, packet, executors>>

\* UNCLAIMED_ADMISSION_BINDING_INVALID, UNCLAIMED_ADMISSION_TERMINAL_WORK_PRESENT.
Unclaimed == ContractError = None /\ watch.state = "PENDING_CLAIM" /\ LineageFree

\* _hold_retry_exhausted_locked: an unclaimed admission is retained with its item and
\* watch, provided nobody works on it; otherwise message and wake are held.
Exhaust(phase) ==
    /\ wake' = [wake EXCEPT ![phase].state = "HOLD"]
    /\ IF msg.state = "PREPARED"
       THEN /\ Unclaimed
            /\ HoldMessage("EXHAUSTED")
            /\ item' = [item EXCEPT !.status = "HOLD", !.alloc = "RETAINED"]
            /\ watch' = [state |-> "HOLD", error |-> "EXHAUSTED", tries |-> 0]
       ELSE HoldMessage("RETRY") /\ UNCHANGED <<item, watch>>

\* _reserve_wake: read again, validated again and counted, in one transaction.
Reservable == msg.state \in Open /\ ContractError = None /\ NeedsWorker(msg.state)

ReserveWake ==
    LET phase == Phase(msg.state)
    IN  /\ sup.pc = "reserve"
        /\ \/ /\ msg.state \in Open /\ ContractError # None
              /\ HoldMessage(ContractError)
              /\ sup' = EndOfMessages
              /\ UNCHANGED <<wake, item, watch>>
           \/ /\ msg.state \in Open => ContractError = None
              /\ ~Reservable \/ wake[phase].state \in {"HOLD", "COMPLETE"}
              /\ sup' = EndOfMessages
              /\ UNCHANGED <<wake, item, msg, watch>>
           \/ /\ Reservable
              /\ wake[phase].state \in {None, "INFLIGHT"} /\ wake[phase].n < MaxTries
              /\ wake' = [wake EXCEPT ![phase] = [state |-> "INFLIGHT", n |-> @.n + 1]]
              /\ sup' = [pc |-> "submit", seen |-> phase]
              /\ UNCHANGED <<item, msg, watch>>
           \/ /\ Reservable
              /\ wake[phase].state = "INFLIGHT" /\ wake[phase].n >= MaxTries
              /\ Exhaust(phase)
              /\ sup' = EndOfMessages
        /\ UNCHANGED <<launch, github, heir, receipt, packet, executors>>

\* Whether the immutable bindings of the watch still hold.
WatchBound ==
    /\ msg.state \in {"CLAIMED", "COMPLETE"}
    /\ item.source = msg.source
    /\ LineageSourceIsCurrent
    /\ ClaimBindingOk

\* Mutant: a launch is counted only when the issue changed.
CountUnchanged == IF db = msg.source THEN watch.tries ELSE watch.tries + 1

\* attempts + 1: progress has already set them back to 0.
Count == watch.tries + 1

\* The launch of a watcher is counted before it is submitted.
ReserveLaunch ==
    /\ watch' = [watch EXCEPT !.tries = Count]
    /\ sup' = [pc |-> "submit", seen |-> "watch"]

\* _reserve_terminal_watch.  The watch is ACTIVE only over executing work of its
\* generation (ActiveWatchIsCurrent of Allocation): its item fences never fire.
ReserveTerminalWatch ==
    /\ sup.pc = "watch"
    /\ \/ /\ watch.state # "ACTIVE" \/ launch # None \/ ~LineageFree
          /\ sup' = Idle /\ UNCHANGED watch
       \/ /\ watch.state = "ACTIVE" /\ launch = None /\ LineageFree
          /\ \/ /\ ~WatchBound
                /\ watch' = [state |-> "HOLD", error |-> "BINDING", tries |-> 0]
                /\ sup' = Idle
             \/ /\ WatchBound /\ watch.tries >= MaxTries
                /\ watch' = [state |-> "HOLD", error |-> "RETRY", tries |-> 0]
                /\ sup' = Idle
             \/ WatchBound /\ watch.tries < MaxTries /\ ReserveLaunch
    /\ UNCHANGED <<wake, launch, github, item, msg, heir, receipt, packet, executors>>

-----------------------------------------------------------------------------
(* Launches.                                                               *)

Target(l) == IF l = "watch" THEN "watch" ELSE "message"
AfterSubmit == IF sup.seen = "watch" THEN Idle ELSE EndOfMessages

\* _submit_manager_after_atomic_revalidation: the last fence before the manager call.
SubmitFence == LineageFree /\ (sup.seen # "watch" => Reservable)

Submit ==
    /\ sup.pc = "submit" /\ SubmitFence
    /\ launch' = sup.seen /\ child' = child \cup {Target(sup.seen)}
    /\ sup' = AfterSubmit
    /\ UNCHANGED <<wake, github, store, attempt, claimer, watched, late, evidence>>

\* RoleExecutorManagerNotSubmitted, or the fence moved.  The third failure exhausts.
Abandon ==
    /\ sup.pc = "submit"
    /\ sup' = AfterSubmit
    /\ LET k == sup.seen
           last == SubmitFence /\ (IF k = "watch" THEN watch.tries ELSE wake[k].n) >= MaxTries
       IN  \/ ~last /\ UNCHANGED <<wake, item, msg, watch>>
           \/ last /\ k \in Phases /\ Exhaust(k)
           \/ /\ last /\ k = "watch" /\ watch.state = "ACTIVE"
              /\ watch' = [state |-> "HOLD", error |-> "RETRY", tries |-> 0]
              /\ UNCHANGED <<wake, item, msg>>
    /\ UNCHANGED <<launch, github, heir, receipt, packet, executors>>

\* The supervisor dies.  Around the manager call nobody knows whether a child runs.
Crash ==
    /\ sup.pc \in {"contract", "hold", "reserve", "submit"}
    /\ sup' = Idle
    /\ IF sup.pc = "submit"
       THEN /\ launch' = sup.seen
            /\ child' \in {child, child \cup {Target(sup.seen)}}
       ELSE UNCHANGED <<launch, child>>
    /\ UNCHANGED <<wake, github, store, attempt, claimer, watched, late, evidence>>

\* _finalize_manager_submission and its reconcilers: no acknowledgement in time, or a
\* rejected or ambiguous one, holds the target; the child may still start.
Unacknowledged ==
    /\ sup = Idle
    /\ \/ /\ launch \in Phases
          /\ wake' = [wake EXCEPT ![launch].state = "HOLD"]
          /\ UNCHANGED watch
       \/ /\ launch = "watch" /\ watch.state = "ACTIVE"
          /\ watch' = [state |-> "HOLD", error |-> "LAUNCH", tries |-> 0]
          /\ UNCHANGED wake
    /\ launch' = None
    /\ UNCHANGED <<sup, github, item, msg, heir, receipt, packet, executors>>

\* _validate_target, of a message and of a terminal watch.
MessageTargetValid == msg.state \in Open
WatchTargetValid ==
    /\ watch.state = "ACTIVE"
    /\ msg.state \in {"CLAIMED", "COMPLETE"}
    /\ LineageSourceIsCurrent /\ ClaimBindingOk
TargetValid(k) == IF k = "message" THEN MessageTargetValid ELSE WatchTargetValid

\* execute_role: one RUNNING attempt per lineage; its row is the acknowledgement.
StartAttempt(k) ==
    /\ k \in child
    /\ child' = child \ {k}
    /\ IF LineageFree /\ TargetValid(k)
       THEN /\ attempt' = k
            /\ launch' = IF launch # None /\ Target(launch) = k THEN None ELSE launch
       ELSE UNCHANGED <<attempt, launch>>
    /\ UNCHANGED <<wake, sup, github, store, claimer, watched, late, evidence>>

\* transition_attempt: how a RUNNING attempt may end; an ended one stays as it is.
Ended(state) == IF state = "RUNNING" THEN {"COMPLETE", "HOLD"} ELSE {state}

EndAttempt ==
    /\ attempt # None
    /\ attempt' = None
    /\ claimer' \in Ended(claimer)
    /\ watched' = (watched \/ attempt = "watch")
    /\ late' = None /\ evidence' = NoRevision
    /\ UNCHANGED <<child, github, store, scheduler>>

-----------------------------------------------------------------------------
(* What executors call.                                                    *)

\* Message and watch are both unclaimed, or both claimed.
Claimable ==
    \/ msg.state = "PREPARED" /\ watch.state = "PENDING_CLAIM"
    \/ msg.state = "CLAIMED" /\ watch.state = "ACTIVE"

\* claim_message: the first claim starts the watch; a later one rebinds it, and a
\* receipt for the former claim attempt no longer matches.
Claim ==
    /\ attempt = "message" /\ late = None /\ ContractError = None
    /\ Claimable
    /\ msg' = [msg EXCEPT !.state = "CLAIMED"]
    /\ watch' = [watch EXCEPT !.state = "ACTIVE", !.tries = 0]
    /\ receipt' = IF claimer = "RUNNING" THEN receipt ELSE NoRevision
    /\ claimer' = "RUNNING"
    /\ UNCHANGED <<github, item, heir, packet, scheduler, child, attempt, watched, late, evidence>>

\* A claim refused for drift holds the message in a second transaction.
RefuseClaim ==
    /\ attempt = "message" /\ msg.state \in Open
    /\ ContractError # None /\ late = None
    /\ late' = ContractError
    /\ UNCHANGED <<github, store, scheduler, child, attempt, claimer, watched, evidence>>

RecordRefusal ==
    /\ late # None
    /\ HoldMessage(late)
    /\ late' = None
    /\ UNCHANGED <<github, item, watch, heir, receipt, packet, scheduler,
                   child, attempt, claimer, watched, evidence>>

\* heartbeat_terminal_watch.
Heartbeat ==
    /\ watch.state = "ACTIVE" /\ item.status \in Executing /\ item.gen = 0
    /\ watch' = [watch EXCEPT !.tries = 0]
    /\ UNCHANGED <<github, item, msg, heir, receipt, packet, scheduler, executors>>

\* The attempt that may close out, between its calls: the bound claimer, or a watcher
\* after it ended.
Finalizer ==
    /\ late = None
    /\ \/ attempt = "message" /\ claimer = "RUNNING"
       \/ attempt = "watch" /\ claimer \in {"COMPLETE", "HOLD"}

PreparePermitted ==
    /\ Finalizer /\ packet = None
    /\ msg.state = "CLAIMED" /\ watch.state = "ACTIVE"
    /\ item.status = "ACTIVE" /\ item.gen = 0 /\ item.source = msg.source
    /\ LineageSourceIsCurrent

\* Mutant: the status change accepts the equivalence receipt as well.
SnapshotIsBoundOrReceipt == TRUE

\* _set_issue_status_locked compares the snapshot itself.
SnapshotIsBound == db = item.source

\* prepare_terminal_closeout: packet, outbox row and PUBLICATION_PENDING.
Prepare ==
    /\ PreparePermitted /\ SnapshotIsBound
    /\ packet' = "open"
    /\ item' = [item EXCEPT !.status = "PUBLICATION_PENDING", !.named = FALSE]
    /\ watch' = [watch EXCEPT !.tries = 0]
    /\ UNCHANGED <<github, msg, heir, receipt, scheduler, executors>>

\* The publisher stores the live issue and goes on only if it is the bound one.
PublisherSync ==
    /\ packet \in {"open", "checked"}
    /\ db' = live
    /\ packet' = IF live = msg.source THEN "checked" ELSE "open"
    /\ UNCHANGED <<live, item, msg, watch, heir, receipt, scheduler, executors>>

PublisherPost ==
    /\ packet = "checked" /\ live.own < MaxOwn
    /\ live' = Commented(live)
    /\ packet' = "published"
    /\ UNCHANGED <<db, item, msg, watch, heir, receipt, scheduler, executors>>

\* _acquire_terminal_live_evidence, before the commit transaction.
Observe ==
    /\ Finalizer /\ packet = "published"
    /\ evidence' = live
    /\ UNCHANGED <<github, store, scheduler, child, attempt, claimer, watched, late>>

\* Mutant: the admission is left to a later call.
CompletedLater(m) == m

\* The admission after the commit.
Completed(m) == [m EXCEPT !.state = "COMPLETE", !.error = None]

\* _validate_terminal_live_evidence: the issue as bound, with the closeout comment.
EvidenceValid == evidence = Commented(item.source)

\* TERMINAL_CLOSEOUT_LINEAGE_DRIFT and TERMINAL_CLOSEOUT_SOURCE_DRIFT.
CommitPermitted ==
    /\ Finalizer /\ packet = "published"
    /\ msg.state = "CLAIMED" /\ watch.state = "ACTIVE"
    /\ item.status = "PUBLICATION_PENDING" /\ item.gen = 0 /\ item.source = msg.source
    /\ db = item.source \/ receipt = db

\* commit_terminal_closeout.
Commit ==
    /\ CommitPermitted /\ EvidenceValid
    /\ msg' = Completed(msg)
    /\ item' = [item EXCEPT !.status = "DONE", !.alloc = "NONE", !.named = FALSE]
    /\ watch' = [state |-> "COMPLETE", error |-> None, tries |-> 0]
    /\ packet' = "committed"
    /\ UNCHANGED <<github, heir, receipt, scheduler, executors>>

-----------------------------------------------------------------------------
(* What planner and owner call.                                            *)

\* hold_prepared_message.
HoldUnclaimed ==
    /\ msg.state = "PREPARED" /\ watch.state = "PENDING_CLAIM"
    /\ item.status = "ACTIVE" /\ item.gen = 0 /\ item.named
    /\ msg' = [msg EXCEPT !.state = "HOLD", !.error = "PLANNER"]
    /\ watch' = [state |-> "HOLD", error |-> "PLANNER", tries |-> 0]
    /\ item' = [item EXCEPT !.status = "HOLD", !.alloc = "RETAINED", !.named = FALSE]
    /\ UNCHANGED <<github, heir, receipt, packet, scheduler, executors>>

\* UNCLAIMED_ADMISSION_RECOVERY_FENCE_MISMATCH: all three rows are as the exhaustion
\* left them, the item at its very version.
ExhaustedTogether ==
    /\ msg.state = "HOLD" /\ msg.error = "EXHAUSTED"
    /\ item.status = "HOLD" /\ item.gen = 0 /\ item.named
    /\ watch.state = "HOLD" /\ watch.error = "EXHAUSTED"

\* Neither an attempt nor a closeout of the admission stands in the way.
NoTerminalWork == LineageFree /\ packet = None

\* recover_unclaimed_admission, on the exhaustion notice.
RecoverUnclaimed ==
    /\ ExhaustedTogether /\ db = msg.source /\ NoTerminalWork
    /\ item' = [item EXCEPT !.status = "PREPARED", !.alloc = "NONE", !.gen = 1,
                             !.source = NoRevision, !.named = FALSE]
    /\ UNCHANGED <<github, msg, watch, heir, receipt, packet, scheduler, executors>>

ClaimEnded == LineageFree /\ claimer \in {"COMPLETE", "HOLD"}

\* _source_equivalence_preview_locked: one comment of ours is the whole drift.
RearmPermitted ==
    /\ msg.state = "HOLD" /\ msg.error = "SOURCE"
    /\ watch.state = "HOLD" /\ watch.error = "BINDING"
    /\ item.status = "ACTIVE" /\ item.gen = 0 /\ item.named /\ item.source = msg.source
    /\ db = Commented(msg.source)
    /\ ClaimEnded /\ packet = None

\* apply_source_equivalent_admission_rearm.
RearmSource ==
    /\ RearmPermitted
    /\ msg' = [msg EXCEPT !.state = "CLAIMED", !.error = None]
    /\ watch' = [state |-> "ACTIVE", error |-> None, tries |-> 0]
    /\ receipt' = db
    /\ wake' = [wake EXCEPT !["claimed"].n = 0]
    /\ UNCHANGED <<github, item, heir, packet, launch, sup, executors>>

\* PARK_LINEAGE_DRIFT.
ParkLineage ==
    /\ msg.state = "CLAIMED" /\ watch.state = "ACTIVE"
    /\ item.status = "ACTIVE" /\ item.gen = 0 /\ item.named /\ item.source = msg.source

\* PARK_SOURCE_EQUIVALENCE_DRIFT, and what delivery left behind.
ParkPermitted ==
    /\ ParkLineage
    /\ receipt = db /\ db # item.source
    /\ watched /\ packet = None

\* Mutant: an attempt that still runs does not keep the work from being parked.
ParkLivenessUnchecked == claimer # None

\* PARK_ATTEMPT_LIVENESS_CONFLICT.
ParkLiveness == ClaimEnded

\* commit_claimed_no_delivery_park: the item starts over; the admission stays CLAIMED.
Park ==
    /\ ParkPermitted /\ ParkLiveness
    /\ item' = [item EXCEPT !.status = "PREPARED", !.alloc = "NONE", !.gen = 1,
                             !.source = NoRevision, !.named = FALSE]
    /\ WatchesEnd
    /\ UNCHANGED <<github, msg, receipt, packet, scheduler, executors>>

-----------------------------------------------------------------------------
Outside == Foreign \/ OwnComment \/ Sync
Planner == Plan \/ FinalizeReady \/ Admit \/ HoldUnclaimed \/ RecoverUnclaimed \/ RearmSource \/ Park
Supervisor ==
    \/ BeginPass \/ CheckContract \/ HoldStale \/ ReserveWake \/ ReserveTerminalWatch
    \/ Submit \/ Abandon \/ Crash \/ Unacknowledged
Executor ==
    \/ \E k \in Targets : StartAttempt(k)
    \/ EndAttempt \/ Claim \/ RefuseClaim \/ RecordRefusal \/ Heartbeat
    \/ Prepare \/ Observe \/ Commit
Publisher == PublisherSync \/ PublisherPost

Next == Outside \/ Planner \/ Supervisor \/ Executor \/ Publisher

Spec == Init /\ [][Next]_vars

-----------------------------------------------------------------------------
Errors == {None, "SOURCE", "ITEM", "EXHAUSTED", "RETRY", "PLANNER"}

TypeOK ==
    /\ live \in Revisions /\ db \in Revisions
    /\ item \in [status : Statuses, alloc : Classes, gen : {0, 1},
                 source : Revisions \cup {NoRevision},
                 named : BOOLEAN]
    /\ msg \in [state : {"ABSENT", "PREPARED", "CLAIMED", "COMPLETE", "HOLD"}, error : Errors,
                source : Revisions]
    /\ watch \in [state : {"ABSENT", "PENDING_CLAIM", "ACTIVE", "COMPLETE", "HOLD"},
                  error : {None, "BINDING", "RETRY", "LAUNCH", "EXHAUSTED", "PLANNER"},
                  tries : 0..MaxTries]
    /\ heir \in {"ABSENT", "ACTIVE", "COMPLETE"}
    /\ receipt \in Revisions \cup {NoRevision}
    /\ packet \in {None, "open", "checked", "published", "committed"}
    /\ wake \in [Phases -> [state : {None, "INFLIGHT", "HOLD", "COMPLETE"}, n : 0..MaxTries]]
    /\ launch \in Phases \cup {None, "watch"}
    /\ sup.pc \in {"idle", "contract", "hold", "reserve", "watch", "submit"}
    /\ child \subseteq Targets /\ attempt \in Targets \cup {None}
    /\ claimer \in {None, "RUNNING", "COMPLETE", "HOLD"} /\ watched \in BOOLEAN
    /\ late \in {None, "SOURCE", "ITEM"}
    /\ evidence \in Revisions \cup {NoRevision}

\* The closeout is all or nothing: the admission is COMPLETE exactly when the packet
\* is committed, and then the watch is closed with it, for good, and the item is DONE
\* until a caller opens the next generation.
CloseoutIsWhole ==
    /\ msg.state = "COMPLETE" <=> packet = "committed"
    /\ packet = "committed" =>
          watch.state = "COMPLETE" /\ (item.gen = 0 => item.status = "DONE")

\* "Terminal publication failure keeps the exact lineage ... with its already-held
\* capacity and lease" (control-plane.md): between packet and commit the item keeps
\* its reservation, whatever planner, supervisor and late executors do.  A replan may
\* carry it into the next generation; in its own the item is published or held, and
\* never worked on again.
PublicationKeepsCapacity ==
    packet \in {"open", "checked", "published"} =>
        Reserved /\ (item.gen = 0 => item.status \in {"PUBLICATION_PENDING", "HOLD"})

\* Whoever works on the lineage, the bound claimer or a watcher, works on reserved
\* capacity, of this generation or of the one a replan carried it into, or has just
\* committed.
WorkIsReserved ==
    claimer = "RUNNING" \/ attempt = "watch" => Reserved \/ packet = "committed"

\* A closeout is only ever prepared on the admitted revision: no lineage that went on
\* under an equivalence receipt has a packet.
PacketOnAdmittedSource == packet # None => receipt = NoRevision

\* "No writer is launched from that state" (control-plane.md): an admission whose
\* retries are exhausted has no running attempt, however late a child starts.
NoWriterAfterExhaustion == msg.state = "HOLD" /\ msg.error = "EXHAUSTED" => attempt = None

Units(n) == [p \in {"sre"} |-> n]
Followed(state, exhausted) ==
    [state |-> state, lease |-> IF state = "ABSENT" THEN None ELSE "lease",
     exhausted |-> exhausted]

\* No row yet, or the one the commit left.
Dropped == ~Reserved /\ (item.status = "ABSENT" \/ (item.status = "DONE" /\ packet = "committed"))

\* Item and watches behave as Allocation says.
A == INSTANCE Allocation WITH
        Issues <- {"issue"}, Pools <- {"sre"}, Sre <- "sre",
        Demands <- {Units(1)}, Policies <- {Units(1)},
        Leases <- {"lease"}, NoLease <- None, Harness <- FALSE, Ops <- {},
        Blocker <- [o \in {} |-> "issue"], MaxGen <- 1,
        Planned <- {"PREPARED", "READY", "ACTIVE", "HOLD", "DONE"},
        item <- [i \in {"issue"} |->
                   [status |-> item.status, alloc |-> item.alloc, gen |-> item.gen,
                    lease |-> IF Reserved THEN "lease" ELSE None,
                    units |-> Units(IF Dropped THEN 0 ELSE 1)]],
        watch <- [i \in {"issue"} |->
                    [g \in {0, 1} |->
                       IF g = 0 THEN Followed(watch.state, watch.error = "EXHAUSTED")
                       ELSE Followed(heir, FALSE)]],
        limit <- Units(1), op <- [o \in {} |-> "ABSENT"]

\* Every step on item and watches, by whichever process, is one Allocation allows.
\* This is A!Spec, its stutters being the steps that leave the mapped columns alone.
Mapped == <<item.status, item.alloc, item.gen, watch.state, watch.error, heir>>
AllocationSpec == A!Init /\ [][Mapped' # Mapped => A!Next]_vars

\* "The packet suppresses admission relaunch" (control-plane.md): no executor starts
\* on the admission once the closeout is prepared.
NoRelaunchAfterPacket ==
    [][attempt' = "message" /\ attempt # "message" => packet = None]_vars

\* "A missing heartbeat eventually holds the watch rather than producing an infinite
\* retry storm" (control-plane.md): the supervisor launches watchers for ever only if
\* progress, or an owner, keeps resetting the budget.
NoRetryStorm ==
    []<><<Submit /\ sup.seen = "watch">>_vars =>
        []<><<Heartbeat \/ Plan \/ RearmSource>>_vars

-----------------------------------------------------------------------------
(* What the repository says and the code does not do.                      *)

\* "Accept raw equality or the exact current receipt for this lineage": a claimed
\* admission whose receipt is current is not held for source drift.
ReceiptHonoured ==
    [][msg.state = "CLAIMED" /\ watch.state = "ACTIVE" /\ receipt = db /\ item.named
         => ~(msg'.state = "HOLD" /\ msg'.error = "SOURCE")]_vars

\* From the first packet to the commit the closeout stays one piece: on the admitted
\* source, on capacity that is still reserved, and closed everywhere or nowhere
\* (commit_terminal_closeout against planner, supervisor and late executors).
CloseoutKept == CloseoutIsWhole /\ PublicationKeepsCapacity /\ PacketOnAdmittedSource

\* Nobody works on a lineage without its capacity, nor after its retries are spent.
WritersKept == WorkIsReserved /\ NoWriterAfterExhaustion

\* Launches of a lineage come to an end: the packet ends those of the admission, the
\* budget those of the watch.
LaunchesStop == NoRelaunchAfterPacket /\ NoRetryStorm
=============================================================================
