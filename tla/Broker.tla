------------------------------- MODULE Broker -------------------------------
(***************************************************************************)
(* The role executor broker (role_executor_broker.py): one readiness       *)
(* evaluator in an isolated child, every authority kept by the host.  The  *)
(* host reserves an attempt, prepares a run, starts the child behind a     *)
(* gate, claims the notice and attaches the campaign in one transaction,   *)
(* opens the gate, and stages the receipt file the child leaves.  The host *)
(* may die anywhere; the supervisor's recovery and pickup passes and the   *)
(* readiness lane work on the same rows.  The contract may be retired: the *)
(* mechanics are then refused and staged pickups end in a hold.            *)
(***************************************************************************)
EXTENDS Naturals

CONSTANTS Outputs       \* contents the child may leave in its output file

VARIABLES
    attempt,    \* executor_attempts.state
    run,        \* role_executor_broker_runs: state, process_id known, last_error
    msg,        \* coordination_messages.state of the notice
    camp,       \* portfolio_readiness_current: state, attempt attached
    pickup,     \* portfolio_readiness_receipt_pickups.state
    staged,     \* role_executor_broker_receipt_pickups: the receipt
    consumed,   \* role_executor_broker_pickup_consumptions: readiness_state
    file,       \* out/receipt.json in the spool of the attempt
    kid,        \* the evaluator process
    host,       \* the step of the broker process; "dead" once its unit is gone
    drift,      \* _binding_reasons is not empty
    retired     \* _require_active_broker_receipt_contract refuses

brokerRows == <<attempt, run, msg, camp, pickup, staged, consumed>>
brokerVars == <<brokerRows, file, kid, host, drift, retired>>

Nil == "none"
ASSUME OutputsAssumption == Nil \notin Outputs

Live == {"gated", "working"}
RunActive == {"PREPARING", "LAUNCHING", "RUNNING"}
RunTerminal == {"COMPLETE", "HOLD"}
Recorded == {"READY_ELIGIBLE", "APPROVAL_PENDING", "RESOLUTION_PENDING", "HOLD"}

BrokerInit ==
    /\ attempt = "ABSENT" /\ run = [state |-> "ABSENT", pid |-> FALSE, err |-> Nil]
    /\ msg = "PREPARED" /\ camp = [state |-> "RUNNING", attached |-> FALSE]
    /\ pickup = "PENDING" /\ staged = Nil /\ consumed = Nil
    /\ file = Nil /\ kid = Nil /\ host = "reserve" /\ drift = FALSE /\ retired = FALSE

-----------------------------------------------------------------------------
(* What the host validates against its own rows before it acts.             *)

\* _attempt_transition: the table of the attempt's states.
AttemptMay(s) ==
    s \in CASE attempt = "RESERVED"  -> {"LAUNCHING", "LAUNCH_FAILED"}
            [] attempt = "LAUNCHING" -> {"RUNNING", "LAUNCH_FAILED"}
            [] attempt = "RUNNING"   -> {"RUNNING", "COMPLETE", "HOLD"}
            [] OTHER                 -> {}

\* _build_input_projection: the campaign, its bindings and the notice are current.
InputProjected == ~drift /\ msg = "PREPARED" /\ camp.state = "RUNNING"

\* _validate_message_for_claim, and the campaign's pickup is still open.
Claimable == msg = "PREPARED" /\ camp = [state |-> "RUNNING", attached |-> FALSE] /\ pickup = "PENDING"

\* read_receipt_file: a regular file of the right owner, size and canonical form.
Readable(receipt) == receipt \in Outputs

\* _validated_pickup_lineage: pickup, run, attempt, message and campaign agree.
PickupLineage ==
    /\ staged # Nil /\ run.state = "COMPLETE" /\ attempt = "COMPLETE"
    /\ msg = "COMPLETE" /\ camp.attached

-----------------------------------------------------------------------------
(* Proof that the evaluator can no longer write.                            *)

NotStarted == ~run.pid /\ run.state \in {"PREPARING", "LAUNCHING"}
ProcessExit == kid \in {"ok", "failed"}
\* Mutant: an old heartbeat is taken for the end of the unit.
SystemdAssumed == run.state # "PREPARING"

SystemdInactive == host = "dead" /\ run.state # "PREPARING"

\* The rows one receipt or one hold ends together.
Attached == run.state = "RUNNING" /\ attempt = "RUNNING" /\ msg = "CLAIMED"

\* Mutant: the hold after the claim forgets the message.
HoldApart(error, inactive) ==
    /\ run.state \in RunActive /\ inactive
    /\ attempt' = IF attempt = "RUNNING" THEN "HOLD" ELSE "LAUNCH_FAILED"
    /\ camp' = IF camp.attached THEN [camp EXCEPT !.state = "HOLD"] ELSE camp
    /\ run' = [run EXCEPT !.state = "HOLD", !.err = error]
    /\ UNCHANGED <<msg, pickup, staged, consumed>>

\* hold_broker_run: before the claim only the attempt and the run end; after it
\* the message and the campaign are held with them, or nothing is.
Hold(error, inactive) ==
    /\ run.state \in RunActive /\ inactive
    /\ IF camp.attached
       THEN /\ Attached /\ camp.state = "RUNNING"
            /\ msg' = "HOLD" /\ camp' = [camp EXCEPT !.state = "HOLD"] /\ attempt' = "HOLD"
       ELSE /\ attempt' = IF attempt = "RUNNING" THEN "HOLD" ELSE "LAUNCH_FAILED"
            /\ UNCHANGED <<msg, camp>>
    /\ AttemptMay(attempt')
    /\ run' = [run EXCEPT !.state = "HOLD", !.err = error]
    /\ UNCHANGED <<pickup, staged, consumed>>

\* Mutant: a completed run keeps the name of its result as a state.
CompleteNamed(receipt, inactive) ==
    /\ ~retired /\ inactive /\ ~drift /\ Attached /\ camp.state = "RUNNING"
    /\ receipt \in Outputs /\ staged' = receipt
    /\ msg' = "COMPLETE" /\ attempt' = "COMPLETE" /\ run' = [run EXCEPT !.state = "STAGED"]
    /\ UNCHANGED <<camp, pickup, consumed>>

\* complete_broker_receipt: stage, complete the message, the attempt and the run.
Complete(receipt, inactive) ==
    /\ ~retired /\ inactive /\ ~drift
    /\ Attached /\ camp = [state |-> "RUNNING", attached |-> TRUE]
    /\ Readable(receipt) /\ staged' = receipt
    /\ AttemptMay("COMPLETE") /\ msg' = "COMPLETE" /\ attempt' = "COMPLETE"
    /\ run' = [run EXCEPT !.state = "COMPLETE", !.err = Nil]
    /\ UNCHANGED <<camp, pickup, consumed>>

\* _persist_pickup_disposition: a pickup that cannot be recorded is retired with
\* the campaign held or stale; a retired contract also takes back what was recorded.
Dispose ==
    LET open == IF retired THEN {"RUNNING", "READY_ELIGIBLE", "APPROVAL_PENDING", "RESOLUTION_PENDING"}
                ELSE {"RUNNING"}
        s == IF camp.state \notin open THEN camp.state
             ELSE IF drift /\ ~retired THEN "STALE" ELSE "HOLD"
    IN /\ camp' = [camp EXCEPT !.state = s]
       /\ consumed' = IF consumed = Nil THEN s ELSE consumed
       /\ ~(retired /\ s = "FINALIZED")

-----------------------------------------------------------------------------
(* The broker process: _execute_brokered_readiness_mechanics.               *)

Reserve ==
    /\ host = "reserve" /\ ~retired /\ InputProjected
    /\ host' = "prepare" /\ attempt' = "RESERVED"
    /\ UNCHANGED <<run, msg, camp, pickup, staged, consumed, file, kid, drift, retired>>

PrepareBrokerRun ==
    /\ host = "prepare" /\ ~retired /\ attempt = "RESERVED" /\ InputProjected
    /\ host' = "spool"
    /\ run' = [state |-> "PREPARING", pid |-> FALSE, err |-> Nil]
    /\ UNCHANGED <<attempt, msg, camp, pickup, staged, consumed, file, kid, drift, retired>>

\* prepare_spool: a fresh directory, the contract in it, no receipt yet.
PrepareSpool ==
    /\ host = "spool" /\ host' = "launch" /\ file' = Nil
    /\ UNCHANGED <<brokerRows, kid, drift, retired>>

MarkLaunching ==
    /\ host = "launch" /\ ~retired /\ run.state = "PREPARING" /\ AttemptMay("LAUNCHING")
    /\ host' = "popen" /\ attempt' = "LAUNCHING" /\ run' = [run EXCEPT !.state = "LAUNCHING"]
    /\ UNCHANGED <<msg, camp, pickup, staged, consumed, file, kid, drift, retired>>

\* Mutant: the child starts without its gate.
StartUngated ==
    /\ host = "popen" /\ host' = "claim" /\ kid' = "working"
    /\ UNCHANGED <<brokerRows, file, drift, retired>>

StartChild ==
    /\ host = "popen" /\ host' = "claim" /\ kid' = "gated"
    /\ UNCHANGED <<brokerRows, file, drift, retired>>

ClaimAttachAndStart ==
    /\ host = "claim" /\ ~retired /\ ~drift
    /\ run.state = "LAUNCHING" /\ attempt = "LAUNCHING" /\ AttemptMay("RUNNING") /\ Claimable
    /\ host' = "gate" /\ msg' = "CLAIMED" /\ camp' = [camp EXCEPT !.attached = TRUE]
    /\ attempt' = "RUNNING" /\ run' = [run EXCEPT !.state = "RUNNING", !.pid = TRUE]
    /\ UNCHANGED <<pickup, staged, consumed, file, kid, drift, retired>>

OpenGate ==
    /\ host = "gate" /\ host' = "wait"
    /\ kid' = IF kid = "gated" THEN "working" ELSE kid
    /\ UNCHANGED <<brokerRows, file, drift, retired>>

\* Wait with heartbeats: the exit is observed, or the deadline passes.
ObserveExit ==
    /\ host = "wait"
    /\ host' = CASE kid = "ok" -> "complete" [] kid = "failed" -> "hold" [] OTHER -> "fail"
    /\ UNCHANGED <<brokerRows, file, kid, drift, retired>>

HoldFailedChild ==
    /\ host = "hold" /\ Hold("child", ProcessExit) /\ host' = "done"
    /\ UNCHANGED <<file, kid, drift, retired>>

CompleteReceipt ==
    /\ host = "complete" /\ Complete(file, ProcessExit) /\ host' = "consume"
    /\ UNCHANGED <<file, kid, drift, retired>>

\* Any exception of the steps above; its transaction, if any, was rolled back.
Boundary ==
    /\ host \in {"prepare", "spool", "launch", "popen", "claim", "gate", "hold", "complete", "consume"}
    /\ host' = "fail"
    /\ UNCHANGED <<brokerRows, file, kid, drift, retired>>

\* The handler: the child is stopped first; if its end is not confirmed nothing
\* is written and the exit of the unit is left to recovery.
StopChild ==
    /\ host = "fail" /\ kid \in Live
    /\ \/ kid' = "failed" /\ host' = "fail"
       \/ kid' = kid /\ host' = "done"
    /\ UNCHANGED <<brokerRows, file, drift, retired>>

CleanUp ==
    /\ host = "fail" /\ kid \notin Live /\ host' = "done"
    /\ \/ /\ run.state \in RunActive
          /\ Hold("boundary", IF kid = Nil THEN NotStarted ELSE ProcessExit)
       \/ /\ run.state = "ABSENT" /\ attempt = "RESERVED"
          /\ attempt' = "LAUNCH_FAILED"
          /\ UNCHANGED <<run, msg, camp, pickup, staged, consumed>>
       \/ UNCHANGED brokerRows      \* cleanup_error: the hold was refused
    /\ UNCHANGED <<file, kid, drift, retired>>

\* The unit is gone: the process ended or died and systemd killed its group.
UnitEnds ==
    /\ host # "dead" /\ host' = "dead"
    /\ kid' = IF kid \in Live THEN "failed" ELSE kid
    /\ UNCHANGED <<brokerRows, file, drift, retired>>

-----------------------------------------------------------------------------
(* The evaluator, confined to its spool.                                    *)

ChildWrites(r) ==
    /\ kid = "working" /\ file' = r
    /\ UNCHANGED <<brokerRows, kid, host, drift, retired>>

ChildEnds ==
    /\ kid \in Live /\ \E c \in {"ok", "failed"} : (kid = "working" \/ c = "failed") /\ kid' = c
    /\ UNCHANGED <<brokerRows, file, host, drift, retired>>

-----------------------------------------------------------------------------
(* The supervisor's passes.                                                 *)

\* Mutant: recovery looks at prepared runs only.
RecoverPrepared ==
    /\ run.state = "PREPARING" /\ Hold("stale", NotStarted)
    /\ UNCHANGED <<file, kid, host, drift, retired>>

\* recover_stale_broker_runs, a run whose heartbeat is old: a run that never got
\* to a child needs no evidence; every other waits for the end of its unit.  The
\* receipt left behind is replayed; what cannot be replayed is held.
RecoverPreclaim ==
    /\ run.state \in {"PREPARING", "LAUNCHING"}
    /\ Hold("stale", IF run.state = "PREPARING" THEN NotStarted ELSE SystemdInactive)
    /\ UNCHANGED <<file, kid, host, drift, retired>>

RecoverRunning ==
    /\ run.state = "RUNNING" /\ SystemdInactive
    /\ \/ Complete(file, SystemdInactive)
       \/ (~Readable(file) \/ retired \/ drift) /\ Hold("receipt", SystemdInactive)
    /\ UNCHANGED <<file, kid, host, drift, retired>>

\* consume_broker_pickup, first part: the receipt enters the readiness lane
\* (_stage_terminal_readiness_receipt, then pickup_receipt), or is disposed of.
StageReadiness ==
    /\ PickupLineage /\ ~retired /\ consumed = Nil
    /\ pickup = "PENDING" /\ camp.state = "RUNNING" /\ ~drift
    /\ pickup' = "STAGED"
    /\ UNCHANGED <<attempt, run, msg, camp, staged, consumed, file, kid, host, drift, retired>>

\* Mutant: neither the campaign's state nor the consumption is consulted.
RecordAgain(s) ==
    /\ staged # Nil /\ ~retired /\ pickup = "STAGED"
    /\ camp' = [camp EXCEPT !.state = IF drift THEN "STALE" ELSE s] /\ pickup' = "CONSUMED"
    /\ UNCHANGED <<attempt, run, msg, staged, consumed, file, kid, host, drift, retired>>

RecordReadiness(s) ==
    /\ PickupLineage /\ ~retired /\ consumed = Nil
    /\ pickup = "STAGED" /\ camp.state = "RUNNING"
    /\ camp' = [camp EXCEPT !.state = IF drift THEN "STALE" ELSE s]
    /\ pickup' = IF drift THEN pickup ELSE "CONSUMED"
    /\ UNCHANGED <<attempt, run, msg, staged, consumed, file, kid, host, drift, retired>>

\* Second part, its own transaction: the outcome is written down once.
RecordConsumption ==
    /\ PickupLineage /\ ~retired /\ consumed = Nil /\ pickup = "CONSUMED"
    /\ camp.state # "STALE"
    /\ consumed' = camp.state
    /\ UNCHANGED <<attempt, run, msg, camp, pickup, staged, file, kid, host, drift, retired>>

\* Mutant: a pickup that cannot be recorded is tried again for ever.
DisposeRetired ==
    /\ staged # Nil /\ retired /\ Dispose
    /\ UNCHANGED <<attempt, run, msg, pickup, staged, file, kid, host, drift, retired>>

DisposePickup ==
    /\ PickupLineage
    /\ \/ retired
       \/ consumed = Nil /\ (pickup # "CONSUMED" \/ camp.state = "STALE")
    /\ Dispose
    /\ UNCHANGED <<attempt, run, msg, pickup, staged, file, kid, host, drift, retired>>

-----------------------------------------------------------------------------
(* The rest of the readiness lane and of the world.                         *)

Evaluate ==     \* evaluate(record_state): drift makes an unprotected campaign stale
    /\ drift /\ camp.state \in {"RUNNING", "READY_ELIGIBLE", "RESOLUTION_PENDING"}
    /\ camp' = [camp EXCEPT !.state = "STALE"]
    /\ UNCHANGED <<attempt, run, msg, pickup, staged, consumed, file, kid, host, drift, retired>>

Finalize ==     \* finalization or a decision takes the recorded campaign on
    /\ camp.state \in {"READY_ELIGIBLE", "APPROVAL_PENDING"} /\ ~drift
    /\ camp' = [camp EXCEPT !.state = "FINALIZED"]
    /\ UNCHANGED <<attempt, run, msg, pickup, staged, consumed, file, kid, host, drift, retired>>

Drift ==
    /\ ~drift /\ drift' = TRUE
    /\ UNCHANGED <<brokerRows, file, kid, host, retired>>

Retire ==
    /\ ~retired /\ retired' = TRUE
    /\ UNCHANGED <<brokerRows, file, kid, host, drift>>

HostStep ==
    \/ Reserve \/ PrepareBrokerRun \/ PrepareSpool \/ MarkLaunching \/ StartChild \/ ClaimAttachAndStart
    \/ OpenGate \/ ObserveExit \/ HoldFailedChild \/ CompleteReceipt \/ Boundary
    \/ StopChild \/ CleanUp

RecoveryStep == RecoverPreclaim \/ RecoverRunning
PickupStep ==
    StageReadiness \/ (\E s \in Recorded : RecordReadiness(s)) \/ RecordConsumption \/ DisposePickup

BrokerNext ==
    \/ HostStep \/ UnitEnds
    \/ (\E r \in Outputs \cup {"invalid"} : ChildWrites(r)) \/ ChildEnds
    \/ RecoveryStep \/ PickupStep
    \/ Evaluate \/ Finalize \/ Drift \/ Retire

BrokerSpec == BrokerInit /\ [][BrokerNext]_brokerVars

\* Units end (RuntimeMaxSec), and the supervisor's passes come round again.
BrokerFairness ==
    WF_brokerVars(UnitEnds) /\ WF_brokerVars(RecoveryStep) /\ WF_brokerVars(PickupStep)

-----------------------------------------------------------------------------
BrokerTypeOK ==
    /\ attempt \in {"ABSENT", "RESERVED", "LAUNCHING", "RUNNING", "COMPLETE", "HOLD", "LAUNCH_FAILED"}
    /\ run \in [state : RunActive \cup RunTerminal \cup {"ABSENT"}, pid : BOOLEAN,
                err : {Nil, "child", "boundary", "stale", "receipt"}]
    /\ msg \in {"PREPARED", "CLAIMED", "COMPLETE", "HOLD"}
    /\ camp \in [state : {"RUNNING", "STALE", "FINALIZED"} \cup Recorded, attached : BOOLEAN]
    /\ pickup \in {"PENDING", "STAGED", "CONSUMED"}
    /\ staged \in Outputs \cup {Nil} /\ file \in Outputs \cup {Nil, "invalid"}
    /\ consumed \in {Nil, "STALE", "FINALIZED"} \cup Recorded
    /\ kid \in Live \cup {Nil, "ok", "failed"}
    /\ drift \in BOOLEAN /\ retired \in BOOLEAN

\* A run ends only when its evaluator can no longer write: by its own exit, the
\* end of its unit, or because it was never started.
NoEvaluatorAfterEnd == run.state \in RunTerminal => kid \notin Live

\* What was staged stays what the evaluator left: nothing rewrites the file after
\* it was read, whoever read it.
StagedIsLeftBehind == staged # Nil => file = staged /\ kid \notin Live

\* The evaluator works only behind a committed claim of its notice and campaign.
GateOpensAfterClaim ==
    kid = "working" => camp.attached /\ msg = "CLAIMED" /\ run.state = "RUNNING"

\* Message, attempt, run and staged receipt end together, whether the host, its
\* failure handler or recovery ends them.
EndsTogether ==
    /\ (staged # Nil) = (run.state = "COMPLETE")
    /\ run.state = "COMPLETE" => attempt = "COMPLETE" /\ msg = "COMPLETE" /\ camp.attached
    /\ run.state = "HOLD" => /\ attempt \in {"HOLD", "LAUNCH_FAILED"}
                             /\ msg = IF camp.attached THEN "HOLD" ELSE "PREPARED"
                             /\ camp.attached => camp.state = "HOLD"

\* A campaign whose pickup was disposed of as held or stale never becomes
\* eligible afterwards by the broker's receipt.
Admissible == {"READY_ELIGIBLE", "APPROVAL_PENDING", "FINALIZED"}
DisposedStaysClosed ==
    [][(consumed \in {"HOLD", "STALE"} /\ camp.state \notin Admissible
           => camp'.state \notin Admissible)]_brokerVars

\* An active run ends, unless its campaign was taken from under it: then both the
\* completion and the hold are refused and the run is left as it is.
RunSettles == (run.state \in RunActive) ~> (run.state \in RunTerminal \/ (camp.attached /\ camp.state # "RUNNING"))

\* A staged receipt is accounted for, except when finalization overtook a
\* retired pickup.
PickupSettles == (staged # Nil) ~> (consumed # Nil \/ (retired /\ camp.state = "FINALIZED"))

\* A brokered run is whole: its evaluator works behind the claim, cannot write after
\* the end, and all the rows of the run end together.
RunIsWhole == NoEvaluatorAfterEnd /\ StagedIsLeftBehind /\ GateOpensAfterClaim /\ EndsTogether
=============================================================================
