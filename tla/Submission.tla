----------------------------- MODULE Submission -----------------------------
(***************************************************************************)
(* How the supervisor starts executors without ever starting one twice.    *)
(*                                                                         *)
(* A launch is a chain of transactions of coordination_supervisor.py: a    *)
(* retry reservation, a committed intent, a last fence, the call of the    *)
(* service manager (outside any transaction), the binding of its outcome,  *)
(* and the acknowledgement read from the attempt rows the child writes     *)
(* (executor_registry.py).  The supervisor may die between any two; every  *)
(* later pass reconciles what it finds.  The row of the target (a wake of  *)
(* a message, or a terminal watch) carries a marker in last_error, and a   *)
(* transaction that finds another row raises TARGET_DRIFT.                 *)
(*                                                                         *)
(* Children run beside it: they reserve an attempt, work on the target,    *)
(* end or die.  A key is a notice (coordination.notice, no lineage) or a   *)
(* delivery lineage: its admission message and its terminal watch.         *)
(***************************************************************************)
EXTENDS Integers, FiniteSets, Sequences

CONSTANTS
    Notices, Lineages,  \* keys
    Claimed,            \* the lineages whose admission is claimed at the start
    MaxAttempts,        \* MAX_IDENTICAL_TARGET_LAUNCH_ATTEMPTS
    MaxIntents,         \* bound: intents; acts as a used up launch policy
    MaxBeats,           \* bound: terminal watch heartbeats of a lineage
    MaxCrashes          \* bound: passes that die

ASSUME KeysAssumption == Notices \cap Lineages = {} /\ Claimed \subseteq Lineages
ASSUME AttemptsAssumption == MaxAttempts \in Nat \ {0}
ASSUME SubmissionBounds == MaxIntents \in Nat /\ MaxBeats \in Nat /\ MaxCrashes \in Nat

VARIABLES
    msg,        \* coordination_messages.state, by key
    row,        \* coordination_wakes and coordination_terminal_watches
    beats,      \* last_heartbeat_at of the watch, by lineage
    ledger,     \* the intents with their first and final dispositions
    unit,       \* per intent: the process its call started and the attempt row
    recent,     \* units with an event later than the instant of observation
    late,       \* intents 1..late are past their observation deadline
    pc, todo,   \* the pass: next step, what is left of it
    cur,        \* the pass: the launch under way
    fenced,     \* the pass: keys it must not launch
    crashes     \* passes that died so far

store == <<msg, row, beats, ledger>>
children == <<unit, recent>>
pass == <<pc, todo, cur, fenced>>
vars == <<store, children, late, pass, crashes>>

None == "none"
Keys == Notices \cup Lineages
Ids == 1..MaxIntents
Entities == [key : Notices, kind : {"prepared"}]
            \cup [key : Lineages, kind : {"prepared", "claimed", "watch"}]
Targets == [key : Keys, kind : {"message"}] \cup [key : Lineages, kind : {"watch"}]
Target(e) == [key |-> e.key, kind |-> IF e.kind = "watch" THEN "watch" ELSE "message"]
Watch(l) == [key |-> l, kind |-> "watch"]
WatchState(k) == IF k \in Lineages THEN row[Watch(k)].state ELSE None

Open == {"PREPARED", "CLAIMED"}
Errors == {None, "SUBMITTING", "PENDING", "AMBIGUOUS", "REJECTED", "EXPIRED", "FAILED", "EXHAUSTED"}
Active == {"RESERVED", "LAUNCHING", "RUNNING"}
Ended == {"COMPLETE", "HOLD", "LAUNCH_FAILED"}     \* LAUNCH_FAILED: or a HOLD that never ran
NoDigest == <<None, None, 0>>
NoUnit == [st |-> None, dead |-> FALSE, prog |-> NoDigest, tprog |-> NoDigest, after |-> 0]
Row(s) == [state |-> s, attempts |-> 0, err |-> None, proc |-> 0, prog |-> NoDigest]
NoLaunch == [e |-> [key |-> None, kind |-> None], row |-> Row("ABSENT"), out |-> None]

\* target_progress_digest: what counts as progress on a target.
Digest(t) ==
    IF t.kind = "watch" THEN <<None, WatchState(t.key), beats[t.key]>>
    ELSE <<msg[t.key], WatchState(t.key), IF t.key \in Lineages THEN beats[t.key] ELSE 0>>

Init ==
    /\ msg = [k \in Keys |-> IF k \in Notices THEN "ABSENT" ELSE IF k \in Claimed THEN "CLAIMED" ELSE "PREPARED"]
    /\ row = [e \in Entities |-> Row(IF e.kind # "watch" THEN "ABSENT"
                                     ELSE IF e.key \in Claimed THEN "ACTIVE" ELSE "PENDING_CLAIM")]
    /\ beats = [l \in Lineages |-> 0]
    /\ ledger = << >>
    /\ unit = [i \in Ids |-> NoUnit]
    /\ recent = {}
    /\ late = 0
    /\ pc = "idle" /\ todo = {} /\ cur = NoLaunch /\ fenced = {}
    /\ crashes = 0

-----------------------------------------------------------------------------
(* The ledger and the attempts.                                            *)

\* _unresolved_submission_intents.
Unresolved(i) == ledger[i].disp # "abandoned" /\ ledger[i].final = None

Entity(i) == ledger[i].e
With(d) == {i \in DOMAIN ledger : Unresolved(i) /\ ledger[i].disp = d}
HasAttempt(i) == unit[i].st \in Active \cup Ended
Attempts(t) == {i \in DOMAIN ledger : Target(Entity(i)) = t /\ HasAttempt(i)}
Busy(t) == \E i \in Attempts(t) : unit[i].st \in Active
KeyBusy(k) == \E i \in DOMAIN ledger : Entity(i).key = k /\ unit[i].st \in Active

\* _require_marker_target: the row is the reservation plus the marker.
Marked(i, marker) == row[Entity(i)] = [ledger[i].res EXCEPT !.err = marker]

\* Mutant: the fence lists no earlier attempts.
FreshAny(i) == Attempts(Target(Entity(i)))

\* The attempts of the target that the fence did not list.
Fresh(i) == Attempts(Target(Entity(i))) \ ledger[i].pre

\* _observe_role_executor_child_ack for the only fresh attempt j: events past the
\* deadline expire; events later than the instant of observation, another fence, a
\* failed launch or a moved target reject.
Observed(i, j) ==
    LET u == unit[j]
        accepted == IF u.st \in {"COMPLETE", "HOLD"} /\ u.tprog # NoDigest
                    THEN u.tprog ELSE ledger[i].res.prog
    IN  CASE i <= u.after -> "expired"
          [] i > u.after /\ (j \in recent \/ u.prog # ledger[i].res.prog) -> "rejected"
          [] OTHER -> CASE u.st = "LAUNCH_FAILED" -> "rejected"
                        [] u.st \in {"RESERVED", "LAUNCHING"} -> None
                        [] OTHER -> IF Digest(Target(Entity(i))) = accepted THEN "ack" ELSE "rejected"

\* observe_role_executor_child_ack of a bound receipt.
Observe(i) ==
    CASE Fresh(i) = {} -> None
      [] Cardinality(Fresh(i)) > 1 -> "rejected"
      [] OTHER -> LET j == CHOOSE j \in Fresh(i) : TRUE
                  IN  IF j # i /\ unit[j].st # "RESERVED" THEN "rejected" ELSE Observed(i, j)

\* recover_role_executor_child_ack_expectation: the child of an ambiguous intent, by
\* its own launch event; 0 if there is none to be sure of.
RecoveredChild(i) ==
    IF /\ i > late
       /\ Cardinality(Fresh(i)) = 1
       /\ \A j \in Fresh(i) : unit[j].st \notin {"RESERVED", "LAUNCHING"} /\ Observed(i, j) = "ack"
    THEN CHOOSE j \in Fresh(i) : TRUE ELSE 0

\* A disposition: the row, and the ledger event with the process it names.
Dispose(i, r, disp, final) ==
    /\ row' = [row EXCEPT ![Entity(i)] = r]
    /\ ledger' = [ledger EXCEPT ![i].disp = disp, ![i].final = final, ![i].child = r.proc]

-----------------------------------------------------------------------------
(* A pass begins: dead attempts, unbound, ambiguous and pending intents.   *)

\* Mutant: a dead RUNNING attempt is never recovered.
RecoverableReserved == {i \in 1..late : unit[i].st = "RESERVED"}

\* Stale attempts: RESERVED, or proven inactive by systemd.  Both need a heartbeat
\* older than the deadline of the intent.
Recoverable == {i \in 1..late : unit[i].st = "RESERVED" \/ (unit[i].st \in Active /\ unit[i].dead)}

\* Mutant: a recovered attempt gets a state of its own.
RecoverAttemptUnknown(i) == [unit[i] EXCEPT !.st = "RECOVERED"]

\* recover_reserved_attempts and recover_stale_active_attempts.
RecoverAttempt(i) ==
    [unit[i] EXCEPT !.st = IF unit[i].st = "RUNNING" THEN "HOLD" ELSE "LAUNCH_FAILED", !.after = late]

Begin ==
    /\ pc = "idle"
    /\ \E stale \in SUBSET Recoverable :
          unit' = [i \in Ids |-> IF i \in stale THEN RecoverAttempt(i) ELSE unit[i]]
    /\ recent' = {}
    /\ pc' = "unbound" /\ todo' = With(None)
    /\ UNCHANGED <<store, late, cur, fenced, crashes>>

\* _reconcile_unbound_submission_intents: nobody knows what the call did; a drifted
\* row is left alone.
Unbound(i) ==
    /\ pc = "unbound" /\ i \in todo
    /\ todo' = todo \ {i}
    /\ IF Marked(i, "SUBMITTING")
       THEN Dispose(i, [row[Entity(i)] EXCEPT !.err = "AMBIGUOUS"], "ambiguous", None)
       ELSE UNCHANGED <<row, ledger>>
    /\ UNCHANGED <<msg, beats, children, late, pc, cur, fenced, crashes>>

\* The next loop reads its intents when the last one is through.
NextLoop ==
    /\ todo = {}
    /\ \/ pc = "unbound" /\ pc' = "ambiguous" /\ todo' = With("ambiguous")
       \/ pc = "ambiguous" /\ pc' = "pending" /\ todo' = With("submitted")
    /\ UNCHANGED <<store, children, late, cur, fenced, crashes>>

\* _authoritative_terminal_evidence: the message ended, or the closeout is committed
\* (which completes the admission).
Terminal(i) ==
    LET e == Entity(i)
    IN  msg[e.key] \in (IF e.kind = "watch" THEN {"COMPLETE"} ELSE {"COMPLETE", "HOLD"})

EndPass == pc' = "idle" /\ todo' = {} /\ cur' = NoLaunch /\ fenced' = {}

\* _resolve_ambiguous_submission.  TARGET_DRIFT leaves run_once: the pass ends.
Ambiguous(i) ==
    /\ pc = "ambiguous" /\ i \in todo
    /\ LET held == [ledger[i].res EXCEPT !.err = "AMBIGUOUS", !.state = "HOLD"]
           j == RecoveredChild(i)
           drift == ~Marked(i, "AMBIGUOUS") /\ row[Entity(i)] # held
       IN  IF ~Terminal(i) /\ drift THEN EndPass /\ recent' = {} /\ UNCHANGED <<row, ledger>>
           ELSE /\ todo' = todo \ {i} /\ UNCHANGED <<pc, cur, fenced, recent>>
                /\ CASE Terminal(i) -> Dispose(i, row[Entity(i)], "ambiguous", "terminal")
                     [] ~Terminal(i) /\ j # 0 ->
                          Dispose(i, [ledger[i].res EXCEPT !.proc = j], "ambiguous", "recovered")
                     [] OTHER -> Dispose(i, held, "ambiguous", None)
    /\ UNCHANGED <<msg, beats, unit, late, crashes>>

\* Mutant: a rejected wake stays INFLIGHT and is tried again.
VerdictRetries(i, verdict) ==
    IF verdict = "ack"
    THEN Dispose(i, [ledger[i].res EXCEPT !.proc = CHOOSE j \in Fresh(i) : TRUE], "submitted", "accepted")
    ELSE Dispose(i, ledger[i].res, "submitted", verdict)

\* _finalize_manager_submission once it has a verdict and a marked row.
Verdict(i, verdict) ==
    CASE verdict = "ack" ->
           Dispose(i, [ledger[i].res EXCEPT !.proc = CHOOSE j \in Fresh(i) : TRUE], "submitted", "accepted")
      [] verdict = "rejected" ->
           Dispose(i, [ledger[i].res EXCEPT !.state = "HOLD", !.err = "REJECTED"], "submitted", "rejected")
      [] verdict = "expired" ->
           Dispose(i, [ledger[i].res EXCEPT !.state = "HOLD", !.err = "EXPIRED"], "submitted", "expired")

Finalize(i, verdict) ==
    IF verdict # None /\ Marked(i, "PENDING") THEN Verdict(i, verdict) ELSE UNCHANGED <<row, ledger>>

\* Mutant: nothing expires.
JudgedNever(i) == Observe(i)

\* expire_if_pending.
Judged(i) == IF Observe(i) = None /\ i <= late THEN "expired" ELSE Observe(i)

\* _reconcile_pending_manager_submissions.
Pending(i) ==
    /\ pc = "pending" /\ i \in todo
    /\ todo' = todo \ {i}
    /\ Finalize(i, Judged(i))
    /\ UNCHANGED <<msg, beats, children, late, pc, cur, fenced, crashes>>

-----------------------------------------------------------------------------
(* The scan: reservations.                                                 *)

\* The item left execution: its watch is closed, its admission invalid.
ContractError(k) == msg[k] \in Open /\ WatchState(k) = "COMPLETE"

\* _message_needs_worker: a claimed notice never does, a claimed admission only when
\* its watch does not carry it.
NeedsWorker(k) ==
    /\ ~ContractError(k)
    /\ msg[k] = "PREPARED" \/ (k \in Lineages /\ msg[k] = "CLAIMED" /\ WatchState(k) # "ACTIVE")

Wake(k) == [key |-> k, kind |-> IF msg[k] = "PREPARED" THEN "prepared" ELSE "claimed"]

\* _complete_stale_wakes.
StaleWake(e) ==
    /\ e.kind # "watch" /\ row[e].state = "INFLIGHT"
    /\ ~\E i \in DOMAIN ledger : Unresolved(i) /\ Entity(i) = e
    /\ msg[e.key] \notin Open \/ ~NeedsWorker(e.key) \/ Wake(e.key) # e

\* Mutant: the lineages of unresolved intents are not fenced.
FencedNotices == {Entity(i).key : i \in {i \in DOMAIN ledger : Unresolved(i) /\ Entity(i).key \in Notices}}

\* manager_submission_targets and manager_submission_lineages.
Fenced == {Entity(i).key : i \in {i \in DOMAIN ledger : Unresolved(i)}}

BeginScan ==
    /\ pc = "pending" /\ todo = {}
    /\ row' = [e \in Entities |-> IF StaleWake(e) THEN [row[e] EXCEPT !.state = "COMPLETE", !.err = None] ELSE row[e]]
    /\ fenced' = Fenced
    /\ pc' = "select" /\ todo' = Targets
    /\ recent' = {}
    /\ UNCHANGED <<msg, beats, ledger, unit, late, cur, crashes>>

\* Messages first.  What is read here is only advice for the reservation; so is
\* process_checker, which is left out: the attempts decide.
InTurn(t) == pc = "select" /\ t \in todo /\ (t.kind = "watch" => \A u \in todo : u.kind = "watch")
Wanted(t) ==
    /\ t.key \notin fenced /\ ~KeyBusy(t.key)
    /\ IF t.kind = "watch" THEN WatchState(t.key) = "ACTIVE" ELSE NeedsWorker(t.key)
    /\ Len(ledger) < MaxIntents

Select(t) ==
    /\ InTurn(t) /\ Wanted(t)
    /\ todo' = todo \ {t} /\ pc' = "reserve"
    /\ cur' = [NoLaunch EXCEPT !.e = t]
    /\ UNCHANGED <<store, children, late, fenced, crashes>>

\* _hold_stale_message, or nothing to do for this target.
PassOver(t) ==
    /\ InTurn(t) /\ ~Wanted(t)
    /\ todo' = todo \ {t}
    /\ msg' = IF t.kind = "message" /\ ContractError(t.key) THEN [msg EXCEPT ![t.key] = "HOLD"] ELSE msg
    /\ UNCHANGED <<row, beats, ledger, children, late, pc, cur, fenced, crashes>>

EndScan ==
    /\ pc = "select" /\ todo = {}
    /\ EndPass
    /\ UNCHANGED <<store, children, late, crashes>>

Back == pc' = "select" /\ cur' = NoLaunch /\ UNCHANGED todo
Launch(e, r) ==
    /\ row' = [row EXCEPT ![e] = r]
    /\ cur' = [e |-> e, row |-> r, out |-> None]
    /\ fenced' = fenced \cup {e.key}
    /\ pc' = "record" /\ UNCHANGED <<todo, msg>>

\* _hold_retry_exhausted_locked; an unclaimed admission is retained with its watch
\* (refused while an attempt is active, which no row that may be retried has).
HoldExhausted(e) ==
    /\ msg' = IF e.kind = "watch" THEN msg ELSE [msg EXCEPT ![e.key] = "HOLD"]
    /\ row' = [f \in Entities |->
                 IF f = e \/ (e.kind = "prepared" /\ e.key \in Lineages /\ f = Watch(e.key))
                 THEN [row[f] EXCEPT !.state = "HOLD", !.err = "EXHAUSTED", !.proc = 0] ELSE row[f]]

\* Mutant: the launch is not counted.
CountedNot(r, d) == [r EXCEPT !.state = IF @ = "ACTIVE" THEN @ ELSE "INFLIGHT", !.attempts = 1, !.err = None, !.proc = 0, !.prog = d]

\* The reservation: one more attempt, or the first after progress.
Counted(r, d) ==
    [state |-> IF r.state = "ACTIVE" THEN "ACTIVE" ELSE "INFLIGHT",
     attempts |-> IF r.prog = d THEN r.attempts + 1 ELSE 1,
     err |-> None, proc |-> 0, prog |-> d]

\* _reserve_wake and _reserve_terminal_watch: everything is read again in one
\* transaction.
Reserving ==
    LET t == cur.e
        e == IF t.kind = "watch" THEN t ELSE Wake(t.key)
        valid == IF t.kind = "watch" THEN WatchState(t.key) = "ACTIVE" ELSE NeedsWorker(t.key)
    IN  [e |-> e, digest |-> Digest(t),
         ok |-> valid /\ row[e].state \in {"ABSENT", "INFLIGHT", "ACTIVE"}]

Reserve ==
    /\ pc = "reserve" /\ Reserving.ok
    /\ LET e == Reserving.e
           r == row[e]
           d == Reserving.digest
       IN  \/ /\ r.prog # d \/ r.attempts < MaxAttempts
              /\ Launch(e, Counted(r, d))
           \/ /\ r.prog = d /\ r.attempts >= MaxAttempts
              /\ HoldExhausted(e) /\ Back /\ UNCHANGED fenced
    /\ UNCHANGED <<beats, ledger, children, late, crashes>>

\* The target needs nobody any more, or its time has not come.
NotDue ==
    /\ pc = "reserve"
    /\ Reserving.ok /\ cur.e.kind # "watch" =>
          row[Reserving.e].state = "INFLIGHT" /\ row[Reserving.e].prog = Reserving.digest
    /\ Back
    /\ UNCHANGED <<store, children, late, fenced, crashes>>

-----------------------------------------------------------------------------
(* The launch: intent, fence, call, outcome.                               *)

Last == Len(ledger)

\* _record_submission_intent: the reservation and the fence are unchanged.
RecordIntent ==
    /\ pc = "record"
    /\ LET t == Target(cur.e)
       IN  IF row[cur.e] = cur.row /\ Digest(t) = cur.row.prog /\ ~Busy(t)
           THEN /\ row' = [row EXCEPT ![cur.e].err = "SUBMITTING"]
                /\ ledger' = Append(ledger, [e |-> cur.e, res |-> cur.row, pre |-> Attempts(t),
                                             disp |-> None, final |-> None, child |-> 0])
                /\ pc' = "precall" /\ UNCHANGED <<cur, todo>>
           ELSE Back /\ UNCHANGED <<row, ledger>>
    /\ UNCHANGED <<msg, beats, children, late, fenced, crashes>>

\* The last fence before the call.  An attempt that has begun makes the intent
\* ambiguous, a moved fence abandons it, a drifted row leaves it undisposed.
FenceHolds ==
    LET t == Target(Entity(Last))
    IN  /\ Digest(t) = ledger[Last].res.prog /\ Attempts(t) = ledger[Last].pre
        /\ t.kind = "message" => NeedsWorker(t.key)

Precall ==
    /\ pc = "precall"
    /\ CASE ~Marked(Last, "SUBMITTING") -> Back /\ UNCHANGED <<row, ledger>>
         [] Marked(Last, "SUBMITTING") /\ Busy(Target(Entity(Last))) ->
              Back /\ Dispose(Last, [row[cur.e] EXCEPT !.err = "AMBIGUOUS"], "ambiguous", None)
         [] OTHER -> IF FenceHolds
                     THEN pc' = "call" /\ UNCHANGED <<cur, todo, row, ledger>>
                     ELSE Back /\ Dispose(Last, ledger[Last].res, "abandoned", None)
    /\ UNCHANGED <<msg, beats, children, late, fenced, crashes>>

\* submit_role_executor: systemd-run.  Unit names are a function of the target, so a
\* second unit of a live one is refused.
Live(i) == unit[i].st \in {"started"} \cup Active /\ ~unit[i].dead
Call ==
    /\ pc = "call"
    /\ \E out \in {"receipt", "lost", "notSubmitted"}, starts \in BOOLEAN :
          /\ out = "receipt" => starts
          /\ out = "notSubmitted" => ~starts
          /\ starts => ~\E i \in DOMAIN ledger : Live(i) /\ Target(Entity(i)) = Target(cur.e)
          /\ cur' = [cur EXCEPT !.out = out]
          /\ unit' = IF starts THEN [unit EXCEPT ![Last].st = "started"] ELSE unit
    /\ pc' = "bind"
    /\ UNCHANGED <<store, recent, late, todo, fenced, crashes>>

\* RoleExecutorManagerNotSubmitted.  Progress of a message during the call resets its
\* budget; progress of a watch leaves the intent as it is.
NotSubmitted ==
    /\ pc = "bind" /\ cur.out = "notSubmitted"
    /\ Back
    /\ LET r == ledger[Last].res
           d == Digest(Target(cur.e))
       IN  CASE (d # r.prog /\ cur.e.kind = "watch") \/ ~Marked(Last, "SUBMITTING") ->
                  UNCHANGED <<msg, row, ledger>>
             [] d # r.prog /\ cur.e.kind # "watch" /\ Marked(Last, "SUBMITTING") ->
                  /\ Dispose(Last, [r EXCEPT !.attempts = 1, !.prog = d, !.err = "FAILED"], "abandoned", None)
                  /\ UNCHANGED msg
             [] OTHER ->
                  IF r.attempts >= MaxAttempts
                  THEN HoldExhausted(cur.e) /\ ledger' = [ledger EXCEPT ![Last].disp = "abandoned"]
                  ELSE Dispose(Last, [r EXCEPT !.err = "FAILED"], "abandoned", None) /\ UNCHANGED msg
    /\ UNCHANGED <<beats, children, late, fenced, crashes>>

\* Mutant: an error after the call is taken for a failed submission.
LostAsFailure == Dispose(Last, [ledger[Last].res EXCEPT !.err = "FAILED"], "abandoned", None)

\* _record_unbound_submission_hold.
LostReply == Dispose(Last, [ledger[Last].res EXCEPT !.err = "AMBIGUOUS"], "ambiguous", None)

Lost ==
    /\ pc = "bind" /\ cur.out = "lost"
    /\ Back
    /\ IF Marked(Last, "SUBMITTING") THEN LostReply ELSE UNCHANGED <<row, ledger>>
    /\ UNCHANGED <<msg, beats, children, late, fenced, crashes>>

\* _record_manager_submission; the wait then notes its first instant.
BindReceipt ==
    /\ pc = "bind" /\ cur.out = "receipt"
    /\ recent' = {}
    /\ IF Marked(Last, "SUBMITTING")
       THEN /\ Dispose(Last, [ledger[Last].res EXCEPT !.err = "PENDING"], "submitted", None)
            /\ pc' = "await" /\ UNCHANGED <<cur, todo>>
       ELSE Back /\ UNCHANGED <<row, ledger>>
    /\ UNCHANGED <<msg, beats, unit, late, fenced, crashes>>

\* _await_role_executor_child_ack: a poll judges events by the instant noted before
\* it slept, and notes the next one after it has looked.
Poll ==
    /\ pc = "await"
    /\ CASE Observe(Last) = None -> recent' = {} /\ UNCHANGED pc
         [] Observe(Last) = "ack" -> pc' = "finalize" /\ UNCHANGED recent
         [] OTHER -> pc' = "reject" /\ UNCHANGED recent
    /\ UNCHANGED <<store, unit, late, todo, cur, fenced, crashes>>

TimeOut ==
    /\ pc = "await" /\ Observe(Last) = None
    /\ Back
    /\ recent' = {}
    /\ UNCHANGED <<store, unit, late, fenced, crashes>>

\* The acknowledgement, or the forced rejection, in a transaction of its own.
FinalizeLast ==
    /\ pc \in {"finalize", "reject"}
    /\ Back
    /\ Finalize(Last, IF pc = "reject" THEN "rejected" ELSE Observe(Last))
    /\ recent' = {}
    /\ UNCHANGED <<msg, beats, unit, late, fenced, crashes>>

Crash ==
    /\ pc # "idle" /\ crashes < MaxCrashes
    /\ crashes' = crashes + 1
    /\ EndPass
    /\ recent' = {}
    /\ UNCHANGED <<store, unit, late>>

-----------------------------------------------------------------------------
(* The children.                                                           *)

\* The steps of the pass that compare events with an instant noted before.
Observing == pc \in {"unbound", "ambiguous", "pending", "await", "finalize"}

\* An event in the attempt history of unit i.
Event(i, u) ==
    /\ unit' = [unit EXCEPT ![i] = [u EXCEPT !.after = late]]
    /\ recent' = IF Observing THEN recent \cup {i} ELSE recent

Alive(i, states) == i \in DOMAIN ledger /\ unit[i].st \in states /\ ~unit[i].dead
Key(i) == Entity(i).key

\* _validate_target and reserve_attempt: one active attempt per target and lineage.
ReserveAttempt(i) ==
    /\ Alive(i, {"started"})
    /\ LET t == Target(Entity(i))
           valid == IF t.kind = "watch" THEN WatchState(t.key) = "ACTIVE"
                    ELSE msg[t.key] \in Open /\ ~ContractError(t.key)
       IN  IF valid /\ ~KeyBusy(t.key)
           THEN Event(i, [unit[i] EXCEPT !.st = "RESERVED", !.prog = Digest(t)])
           ELSE unit' = [unit EXCEPT ![i].st = "gone"] /\ UNCHANGED recent
    /\ UNCHANGED <<store, late, pass, crashes>>

\* transition_attempt up to RUNNING.  A heartbeat repeats RUNNING.
Advance(i) ==
    /\ \E step \in {<<"RESERVED", "LAUNCHING">>, <<"LAUNCHING", "RUNNING">>,
                    <<"RUNNING", "RUNNING">>,
                    <<"RESERVED", "LAUNCH_FAILED">>, <<"LAUNCHING", "LAUNCH_FAILED">>} :
          /\ Alive(i, {step[1]})
          /\ Event(i, [unit[i] EXCEPT !.st = step[2]])
    /\ UNCHANGED <<store, late, pass, crashes>>

\* The executor ends: COMPLETE only if the target moved.
Exit(i) ==
    /\ Alive(i, {"RUNNING"})
    /\ LET d == Digest(Target(Entity(i)))
       IN  Event(i, [unit[i] EXCEPT !.st = IF d = unit[i].prog THEN "HOLD" ELSE "COMPLETE", !.tprog = d])
    /\ UNCHANGED <<store, late, pass, crashes>>

\* The process is killed; its attempt row stays as it was.
Die(i) ==
    /\ Alive(i, {"started"} \cup Active)
    /\ unit' = [unit EXCEPT ![i] = IF @.st = "started" THEN [@ EXCEPT !.st = "gone"] ELSE [@ EXCEPT !.dead = TRUE]]
    /\ UNCHANGED <<store, recent, late, pass, crashes>>

\* claim_message: the claim of an admission activates its watch.
Claim(i) ==
    /\ Alive(i, {"RUNNING"}) /\ Entity(i).kind # "watch" /\ msg[Key(i)] = "PREPARED"
    /\ ~ContractError(Key(i))
    /\ msg' = [msg EXCEPT ![Key(i)] = "CLAIMED"]
    /\ row' = IF Key(i) \in Lineages THEN [row EXCEPT ![Watch(Key(i))].state = "ACTIVE"] ELSE row
    /\ UNCHANGED <<beats, ledger, children, late, pass, crashes>>

\* complete_message of a notice; a source that drifted meanwhile holds it instead.
Answer(i) ==
    /\ Alive(i, {"RUNNING"}) /\ Key(i) \in Notices /\ msg[Key(i)] = "CLAIMED"
    /\ \E s \in {"COMPLETE", "HOLD"} : msg' = [msg EXCEPT ![Key(i)] = s]
    /\ UNCHANGED <<row, beats, ledger, children, late, pass, crashes>>

\* heartbeat_terminal_watch: the row forgets attempts, process and marker.
HeartbeatRow(r) == [r EXCEPT !.attempts = 0, !.proc = 0, !.err = None]

Heartbeat(i) ==
    /\ Alive(i, {"RUNNING"}) /\ WatchState(Key(i)) = "ACTIVE" /\ beats[Key(i)] < MaxBeats
    /\ beats' = [beats EXCEPT ![Key(i)] = @ + 1]
    /\ row' = [row EXCEPT ![Watch(Key(i))] = HeartbeatRow(@)]
    /\ UNCHANGED <<msg, ledger, children, late, pass, crashes>>

\* commit_terminal_closeout: admission and watch end together.
Closeout(i) ==
    /\ Alive(i, {"RUNNING"}) /\ WatchState(Key(i)) = "ACTIVE" /\ msg[Key(i)] = "CLAIMED"
    /\ msg' = [msg EXCEPT ![Key(i)] = "COMPLETE"]
    /\ row' = [row EXCEPT ![Watch(Key(i))] = [@ EXCEPT !.state = "COMPLETE", !.proc = 0, !.err = None]]
    /\ UNCHANGED <<beats, ledger, children, late, pass, crashes>>

-----------------------------------------------------------------------------
(* The environment.                                                        *)

\* enqueue_message of a notice.
Enqueue(n) ==
    /\ msg[n] = "ABSENT"
    /\ msg' = [msg EXCEPT ![n] = "PREPARED"]
    /\ UNCHANGED <<row, beats, ledger, children, late, pass, crashes>>

\* The planner takes the item out of execution; set_issue_status closes the watch.
Replan(l) ==
    /\ WatchState(l) \in {"PENDING_CLAIM", "ACTIVE"}
    /\ row' = [row EXCEPT ![Watch(l)] = [@ EXCEPT !.state = "COMPLETE", !.proc = 0, !.err = None]]
    /\ UNCHANGED <<msg, beats, ledger, children, late, pass, crashes>>

\* Fifteen minutes pass between two passes; a pass is shorter.
Tick ==
    /\ pc = "idle" /\ late < Len(ledger)
    /\ late' = late + 1
    /\ UNCHANGED <<store, children, pass, crashes>>

Reconcile == \E i \in Ids : Unbound(i) \/ Ambiguous(i) \/ Pending(i)
Scan == \E t \in Targets : Select(t) \/ PassOver(t)
Supervisor ==
    \/ Begin \/ Reconcile \/ NextLoop \/ BeginScan \/ Scan \/ EndScan
    \/ Reserve \/ NotDue \/ RecordIntent \/ Precall \/ Call
    \/ NotSubmitted \/ Lost \/ BindReceipt \/ Poll \/ TimeOut \/ FinalizeLast
Child(i) ==
    \/ ReserveAttempt(i) \/ Advance(i) \/ Exit(i) \/ Die(i)
    \/ Claim(i) \/ Answer(i) \/ Heartbeat(i) \/ Closeout(i)

Next ==
    \/ Supervisor \/ Crash \/ Tick
    \/ \E i \in Ids : Child(i)
    \/ \E n \in Notices : Enqueue(n)
    \/ \E l \in Lineages : Replan(l)

Spec == Init /\ [][Next]_vars

\* Passes are started by a timer and take every step; a backoff ends (SF: NotDue may
\* come first); time passes (SF: between passes); systemd comes to report a dead unit
\* inactive.  Nothing is assumed of executors, whose run time no code bounds.
Recovers(i) == Begin /\ i \in Recoverable /\ unit'[i] # unit[i]
LiveSpec ==
    /\ Spec
    /\ WF_vars(Supervisor) /\ SF_vars(Reserve) /\ SF_vars(Tick)
    /\ \A i \in Ids : SF_vars(Recovers(i))

-----------------------------------------------------------------------------
(* Properties.                                                             *)

RowType == [state : {"ABSENT", "INFLIGHT", "PENDING_CLAIM", "ACTIVE", "HOLD", "COMPLETE"},
            attempts : 0..MaxAttempts, err : Errors, proc : 0..MaxIntents,
            prog : {None, "PREPARED", "CLAIMED", "COMPLETE", "HOLD"}
                   \X {None, "PENDING_CLAIM", "ACTIVE", "HOLD", "COMPLETE"} \X (0..MaxBeats)]

\* Every variable has its shape; retry counters stay within MaxAttempts.
TypeOK ==
    /\ msg \in [Keys -> {"ABSENT", "PREPARED", "CLAIMED", "COMPLETE", "HOLD"}]
    /\ row \in [Entities -> RowType]
    /\ beats \in [Lineages -> 0..MaxBeats]
    /\ Len(ledger) <= MaxIntents
    /\ \A i \in DOMAIN ledger :
          /\ ledger[i].e \in Entities /\ ledger[i].res \in RowType /\ ledger[i].pre \subseteq Ids
          /\ ledger[i].disp \in {None, "submitted", "ambiguous", "abandoned"}
          /\ ledger[i].child \in 0..MaxIntents
          /\ ledger[i].final \in {None, "accepted", "rejected", "expired", "recovered", "terminal"}
    /\ \A i \in Ids : unit[i].st \in {None, "started", "gone"} \cup Active \cup Ended
    /\ recent \subseteq Ids /\ late \in 0..Len(ledger) /\ fenced \subseteq Keys
    /\ crashes \in 0..MaxCrashes

\* At no time are two submissions of one notice or one lineage unresolved, whatever
\* crashes, lost replies and late children come between.
SingleFlight ==
    \A i, j \in DOMAIN ledger : i # j /\ Unresolved(i) /\ Unresolved(j) => Entity(i).key # Entity(j).key

\* The process the supervisor attaches to a submission is the one its own call started,
\* also when it has to find it from the attempts alone.
AttachedIsOwn ==
    \A i \in DOMAIN ledger :
        ledger[i].final \in {"accepted", "recovered"} => ledger[i].child = i /\ HasAttempt(i)

\* A target is never submitted again while an executor of an earlier submission is alive
\* or may still come up: an error after the call does not resubmit.
NeverTwice ==
    \A i, j \in DOMAIN ledger : i < j /\ Target(Entity(i)) = Target(Entity(j)) => ~Live(i)

\* Identical progress of one row is launched at most MaxAttempts times, over all
\* passes and crashes.
RetryBudget ==
    \A e \in Entities : \A i \in DOMAIN ledger :
        Cardinality({j \in DOMAIN ledger : Entity(j) = e /\ ledger[j].res.prog = ledger[i].res.prog}) <= MaxAttempts

\* A row that a submission put on HOLD is never launched again.
HeldIsFinal ==
    \A i, j \in DOMAIN ledger :
        i < j /\ Entity(i) = Entity(j) => ledger[i].final \notin {"rejected", "expired"}

\* A notice does not wait in silence: an executor comes up for it, it is claimed or
\* answered, or its wake is held for somebody to look at.
Waiting(n) ==
    /\ msg[n] = "PREPARED" /\ row[[key |-> n, kind |-> "prepared"]].state # "HOLD"
    /\ ~\E i \in DOMAIN ledger : Key(i) = n /\ Live(i)
NoSilentStall == \A n \in Notices : Waiting(n) ~> ~Waiting(n)

\* At most one executor of a notice or a lineage is on its way or at work at a time
\* (_pending_manager_submissions, _lineage_active).
OneExecutor == SingleFlight /\ NeverTwice

\* Launching ends: after MaxAttempts without progress, and at once when a submission
\* held the row.
RetriesEnd == RetryBudget /\ HeldIsFinal
=============================================================================
