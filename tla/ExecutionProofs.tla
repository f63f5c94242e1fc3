-------------------------- MODULE ExecutionProofs --------------------------
(***************************************************************************)
(* Proofs about what surrounds the attempts of executors: the collector of *)
(* the files they leave, the broker of an evaluator, and the responses     *)
(* proxy.  Each has its own inductive invariant, CollectorInv, BrokerInv   *)
(* and ProxyInv, since they share no row.                                  *)
(***************************************************************************)
EXTENDS MCExecution, TLAPS, FiniteSetTheorems, SequenceTheorems

(* The collector, for every set of collectors and every number of crashes  *)
(* and foreign writes.                                                     *)

Moving == {"open", "link", "verify", "unlink", "trashed"}
Purging == {"purge", "purged"}
StepNames == {"idle", "reserveMove", "reservePurge", "hold"} \cup Moving \cup Purging

\* The collector that holds the lock is the only one at work.
LockInv ==
    /\ step \in [Collectors -> StepNames]
    /\ lock \in Collectors \cup {Free}
    /\ \A c \in Collectors : step[c] # "idle" <=> lock = c

\* What a step of the collector rests on: the reservation it made, and where it
\* left the file.
CollectorStepInv ==
    \A c \in Collectors :
        /\ step[c] = "reserveMove" => art \in {"REGISTERED", "MOVE_RESERVED", "HOLD"}
        /\ step[c] \in Moving => art = "MOVE_RESERVED"
        /\ step[c] = "link" => trash = "none"
        /\ step[c] \in {"verify", "unlink", "trashed"} => trash = "own"
        /\ step[c] = "reservePurge" => art \in {"TRASHED", "PURGE_RESERVED"}
        /\ step[c] \in {"reservePurge"} \cup Purging => due
        /\ step[c] \in Purging => art = "PURGE_RESERVED"

\* What a row rests on: an open move keeps the issue closed out, and only a file
\* that reached the trash can be due.
ArtifactRowInv ==
    /\ art \in ArtStates
    /\ art = "MOVE_RESERVED" => issue = "done" /\ ~kept
    /\ art \in {"REGISTERED", "MOVE_RESERVED"} => ~due
    /\ issue \in {"working", "done", "next"} /\ src \in Files /\ trash \in Files
    /\ touches \in Nat /\ kept \in BOOLEAN /\ due \in BOOLEAN /\ pending \in BOOLEAN

CollectorInv == LockInv /\ CollectorStepInv /\ ArtifactRowInv /\ BytesKept

\* A step of one collector leaves the others where they were: at rest.
LEMMA OthersRest ==
    ASSUME LockInv, NEW c \in Collectors, step[c] # "idle"
    PROVE  \A d \in Collectors \ {c} : step[d] = "idle"
BY DEF LockInv

LEMMA InitCollector == ArtifactInit => CollectorInv
<1>. SUFFICES ASSUME ArtifactInit PROVE CollectorInv
  OBVIOUS
<1>1. LockInv
  BY FreeIsNobody DEF ArtifactInit, LockInv, StepNames
<1>2. CollectorStepInv
  BY DEF ArtifactInit, CollectorStepInv, Moving, Purging
<1>3. ArtifactRowInv
  BY DEF ArtifactInit, ArtifactRowInv, ArtStates, Files
<1>4. BytesKept
  BY DEF ArtifactInit, BytesKept
<1>. QED BY <1>1, <1>2, <1>3, <1>4 DEF CollectorInv

LEMMA CollectingStep ==
    ASSUME CollectorInv, NEW c \in Collectors, Collecting(c)
    PROVE  CollectorInv'
<1>. USE DEF CollectorInv, LockInv, CollectorStepInv, ArtifactRowInv, BytesKept, StepNames, Moving, Purging,
             ArtStates, Files, Turn, Finish
<1>. USE FreeIsNobody
<1>0. step[c] # "idle" => \A d \in Collectors \ {c} : step[d] = "idle"
  BY OthersRest
<1>1. CASE ReserveArtifactMove(c)
  BY <1>0, <1>1 DEF ReserveArtifactMove, TerminalArtifact
<1>2. CASE OpenArtifact(c)
  BY <1>0, <1>2 DEF OpenArtifact, AfterOpen
<1>3. CASE LinkArtifact(c)
  BY <1>0, <1>3 DEF LinkArtifact
<1>4. CASE VerifySource(c)
  BY <1>0, <1>4 DEF VerifySource
<1>5. CASE UnlinkSource(c)
  BY <1>0, <1>5 DEF UnlinkSource
<1>6. CASE RecordTrashed(c)
  BY <1>0, <1>6 DEF RecordTrashed
<1>7. CASE ReserveArtifactPurge(c)
  BY <1>0, <1>7 DEF ReserveArtifactPurge
<1>8. CASE PurgeArtifact(c)
  BY <1>0, <1>8 DEF PurgeArtifact
<1>9. CASE RecordPurged(c)
  BY <1>0, <1>9 DEF RecordPurged
<1>10. CASE HoldArtifact(c)
  BY <1>0, <1>10 DEF HoldArtifact
<1>11. CASE FailArtifact(c)
  BY <1>0, <1>11 DEF FailArtifact
<1>. QED BY <1>1, <1>2, <1>3, <1>4, <1>5, <1>6, <1>7, <1>8, <1>9, <1>10, <1>11 DEF Collecting

LEMMA NextCollector == CollectorInv /\ [ArtifactNext]_artifactVars => CollectorInv'
<1>. SUFFICES ASSUME CollectorInv, [ArtifactNext]_artifactVars PROVE CollectorInv'
  OBVIOUS
<1>. USE DEF CollectorInv, LockInv, CollectorStepInv, ArtifactRowInv, BytesKept, StepNames, Moving, Purging,
             ArtStates, Files
<1>. USE FreeIsNobody
<1>1. ASSUME NEW c \in Collectors, Collect(c) PROVE CollectorInv'
  <2>1. \A d \in Collectors \ {c} : step[d] = "idle"
    BY <1>1, FreeIsNobody DEF Collect
  <2>. QED BY <1>1, <2>1 DEF Collect, Preview
<1>2. ASSUME NEW c \in Collectors, Collecting(c) PROVE CollectorInv'
  BY <1>2, CollectingStep
<1>3. ASSUME NEW c \in Collectors, StopCollector(c) PROVE CollectorInv'
  BY <1>3, OthersRest DEF StopCollector, Finish
<1>4. CASE HoldDrifted
  BY <1>4 DEF HoldDrifted
<1>5. CASE CloseIssue \/ ReplanIssue \/ ControlIssue
  <2>1. CASE CloseIssue \/ ReplanIssue
    BY <2>1 DEF CloseIssue, ReplanIssue, GcFence, ArtReserved
  <2>2. CASE ControlIssue
    <3>1. pending' \in BOOLEAN
      BY <2>2 DEF ControlIssue
    <3>. QED BY <2>2, <3>1 DEF ControlIssue
  <2>. QED BY <1>5, <2>1, <2>2
<1>6. ASSUME NEW f \in {"none", "copy", "other"}, TouchSource(f) PROVE CollectorInv'
  BY <1>6 DEF TouchSource
<1>7. CASE PassRetention
  BY <1>7 DEF PassRetention
<1>8. CASE UNCHANGED artifactVars
  BY <1>8 DEF artifactVars
<1>. QED BY <1>1, <1>2, <1>3, <1>4, <1>5, <1>6, <1>7, <1>8 DEF ArtifactNext

LEMMA CollectorInvariant == ArtifactSpec => []CollectorInv
BY InitCollector, NextCollector, PTL DEF ArtifactSpec

\* Before its retention has passed, the collection loses no file, whatever
\* collectors die or fail at whatever file operation.
THEOREM FilesSurvive == ArtifactSpec => []BytesKept
<1>1. CollectorInv => BytesKept
  BY DEF CollectorInv
<1>. QED BY <1>1, CollectorInvariant, PTL

\* A file is taken only from an issue that is closed out in its generation.
THEOREM ClosedIssuesOnly == ArtifactSpec => TakenFromClosedOnly
<1>1. ASSUME CollectorInv, [ArtifactNext]_artifactVars
      PROVE  [TakesFromClosedOnly]_artifactVars
  <2>1. ASSUME NEW c \in Collectors, Collect(c) \/ Collecting(c) \/ StopCollector(c)
        PROVE  TakesFromClosedOnly
    BY <1>1, <2>1 DEF Collect, Collecting, StopCollector, ReserveArtifactMove, OpenArtifact,
          LinkArtifact, VerifySource, UnlinkSource, RecordTrashed, ReserveArtifactPurge,
          PurgeArtifact, RecordPurged, HoldArtifact, FailArtifact, TakesFromClosedOnly,
          CollectorInv, CollectorStepInv, ArtifactRowInv, Moving
  <2>2. ASSUME NEW f \in {"none", "copy", "other"}, TouchSource(f) PROVE TakesFromClosedOnly
    BY <1>1, <2>2 DEF TouchSource, TakesFromClosedOnly, CollectorInv, ArtifactRowInv
  <2>. QED BY <1>1, <2>1, <2>2 DEF ArtifactNext, HoldDrifted, CloseIssue, ReplanIssue,
          ControlIssue, PassRetention, TakesFromClosedOnly
<1>. QED BY <1>1, CollectorInvariant, PTL DEF ArtifactSpec, TakenFromClosedOnly

\* Neither a collector that had already listed the artifact nor a later one goes on
\* with a row that was held.
THEOREM HeldArtifactsStay == ArtifactSpec => HeldIsLeftAlone
<1>1. ASSUME CollectorInv, [ArtifactNext]_artifactVars
      PROVE  [LeavesHeldAlone]_artifactVars
  <2>1. ASSUME NEW c \in Collectors, Collect(c) \/ Collecting(c) \/ StopCollector(c)
        PROVE  LeavesHeldAlone
    BY <1>1, <2>1 DEF Collect, Collecting, StopCollector, ReserveArtifactMove, OpenArtifact,
          LinkArtifact, VerifySource, UnlinkSource, RecordTrashed, ReserveArtifactPurge,
          PurgeArtifact, RecordPurged, HoldArtifact, FailArtifact, LeavesHeldAlone,
          CollectorInv, CollectorStepInv, Moving, Purging
  <2>. QED BY <1>1, <2>1 DEF ArtifactNext, HoldDrifted, CloseIssue, ReplanIssue, TouchSource,
          ControlIssue, PassRetention, LeavesHeldAlone
<1>. QED BY <1>1, CollectorInvariant, PTL DEF ArtifactSpec, HeldIsLeftAlone

\* The collector acts only where it is due, for any number of collectors, deaths and
\* foreign edits.
THEOREM CollectionCorrect == ArtifactSpec => CollectionIsDue
BY ClosedIssuesOnly, HeldArtifactsStay DEF CollectionIsDue

-----------------------------------------------------------------------------
(* The broker, for every content an evaluator may leave.                    *)

HostSteps == {"reserve", "prepare", "spool", "launch", "popen", "claim", "gate", "wait",
              "complete", "hold", "consume", "fail", "done", "dead"}

\* What the host's next step rests on: until it opens the gate nobody but the host moves
\* its run, except a recovery that finds it not started.
HostInv ==
    /\ host \in HostSteps
    /\ host \in {"reserve", "prepare"} => run.state = "ABSENT"
    /\ host \in {"spool", "launch"} => run.state \in {"PREPARING", "HOLD"} /\ kid = Nil
    /\ host \in {"popen", "claim"} => run.state = "LAUNCHING"
    /\ host = "popen" => kid = Nil
    /\ host \in {"gate", "wait"} => run.state = "RUNNING"
    /\ host = "dead" => kid \notin Live

\* An evaluator exists from the launch on, and the claim is what divides the ends of a run.
RunInv ==
    /\ run.state \in {"ABSENT", "PREPARING"} => kid = Nil
    /\ camp.attached => run.state \in {"RUNNING", "COMPLETE", "HOLD"}
    /\ ~camp.attached => msg = "PREPARED" /\ run.state \notin {"RUNNING", "COMPLETE"}
    /\ run.state = "RUNNING" => msg = "CLAIMED"
    /\ pickup = "CONSUMED" => camp.state # "RUNNING"

BrokerInv == BrokerTypeOK /\ HostInv /\ RunInv /\ RunIsWhole

LEMMA InitBroker == BrokerInit => BrokerInv
<1>. SUFFICES ASSUME BrokerInit PROVE BrokerInv
  OBVIOUS
<1>. USE DEF BrokerInit, Nil, Live, RunActive, RunTerminal
<1>1. BrokerTypeOK
  BY DEF BrokerTypeOK
<1>2. HostInv /\ RunInv
  BY DEF HostInv, HostSteps, RunInv
<1>3. RunIsWhole
  BY DEF RunIsWhole, NoEvaluatorAfterEnd, StagedIsLeftBehind, GateOpensAfterClaim, EndsTogether
<1>. QED BY <1>1, <1>2, <1>3 DEF BrokerInv

\* The end of a run without a receipt, by whoever has proof that its evaluator is gone.
LEMMA HoldStep ==
    ASSUME BrokerInv, NEW error \in {"child", "boundary", "stale", "receipt"}, NEW inactive \in BOOLEAN,
           Hold(error, inactive), kid \notin Live, host' = host \/ host' = "done",
           host \notin {"popen", "claim", "gate", "wait"} \/ host' = "done",
           UNCHANGED <<file, kid, drift, retired>>
    PROVE  BrokerInv'
<1>. USE DEF BrokerInv, Nil, Live, RunActive, RunTerminal
<1>1. /\ run' = [run EXCEPT !.state = "HOLD", !.err = error]
      /\ run.state \in RunActive /\ UNCHANGED <<pickup, staged, consumed>>
  BY DEF Hold
<1>2. /\ run'.state = "HOLD" /\ run'.err = error
      /\ run' \in [state : RunActive \cup RunTerminal \cup {"ABSENT"}, pid : BOOLEAN,
                   err : {Nil, "child", "boundary", "stale", "receipt"}]
  BY <1>1 DEF BrokerTypeOK
<1>3. /\ attempt' \in {"HOLD", "LAUNCH_FAILED"}
      /\ camp' \in [state : {"RUNNING", "STALE", "FINALIZED"} \cup Recorded, attached : BOOLEAN]
      /\ camp'.attached = camp.attached /\ (camp' = camp \/ camp'.state = "HOLD")
      /\ camp.attached => msg' = "HOLD" /\ camp'.state = "HOLD"
      /\ ~camp.attached => msg' = "PREPARED"
  BY DEF Hold, BrokerTypeOK, Recorded, RunInv
<1>4. BrokerTypeOK'
  BY <1>1, <1>2, <1>3 DEF BrokerTypeOK, RunInv
<1>5. HostInv' /\ RunInv'
  BY <1>1, <1>2, <1>3 DEF HostInv, HostSteps, RunInv
<1>6. RunIsWhole'
  BY <1>1, <1>2, <1>3 DEF RunIsWhole, NoEvaluatorAfterEnd, StagedIsLeftBehind, GateOpensAfterClaim, EndsTogether
<1>. QED BY <1>4, <1>5, <1>6

\* The end of a run with the receipt its evaluator left.
LEMMA CompleteStep ==
    ASSUME BrokerInv, NEW inactive \in BOOLEAN, Complete(file, inactive), kid \notin Live,
           (host' = host /\ host = "dead") \/ host' = "consume",
           UNCHANGED <<file, kid, drift, retired>>
    PROVE  BrokerInv'
<1>. USE DEF BrokerInv, Nil, Live, RunActive, RunTerminal
<1>1. /\ run' = [run EXCEPT !.state = "COMPLETE", !.err = Nil] /\ staged' = file /\ file \in Outputs
      /\ attempt' = "COMPLETE" /\ msg' = "COMPLETE" /\ camp.attached
      /\ UNCHANGED <<camp, pickup, consumed>>
  BY DEF Complete, Readable
<1>2. /\ run'.state = "COMPLETE"
      /\ run' \in [state : RunActive \cup RunTerminal \cup {"ABSENT"}, pid : BOOLEAN,
                   err : {Nil, "child", "boundary", "stale", "receipt"}]
  BY <1>1 DEF BrokerTypeOK
<1>3. BrokerTypeOK'
  BY <1>1, <1>2 DEF BrokerTypeOK
<1>4. HostInv' /\ RunInv'
  BY <1>1, <1>2 DEF HostInv, HostSteps, RunInv
<1>5. RunIsWhole'
  BY <1>1, <1>2, OutputsAssumption DEF RunIsWhole, NoEvaluatorAfterEnd, StagedIsLeftBehind, GateOpensAfterClaim, EndsTogether
<1>. QED BY <1>3, <1>4, <1>5

LEMMA HostStepKeeps == ASSUME BrokerInv, HostStep PROVE BrokerInv'
<1>. USE DEF BrokerInv, BrokerTypeOK, HostInv, HostSteps, RunInv, RunIsWhole, NoEvaluatorAfterEnd,
             StagedIsLeftBehind, GateOpensAfterClaim, EndsTogether, Nil, Live, RunActive,
             RunTerminal, Recorded
<1>1. CASE Reserve
  BY <1>1 DEF Reserve
<1>2. CASE PrepareBrokerRun
  BY <1>2 DEF PrepareBrokerRun
<1>3. CASE PrepareSpool
  BY <1>3 DEF PrepareSpool, brokerRows
<1>4. CASE MarkLaunching
  BY <1>4 DEF MarkLaunching
<1>5. CASE StartChild
  BY <1>5 DEF StartChild, brokerRows
<1>6. CASE ClaimAttachAndStart
  BY <1>6 DEF ClaimAttachAndStart, Claimable
<1>7. CASE OpenGate
  BY <1>7 DEF OpenGate, brokerRows
<1>8. CASE ObserveExit
  BY <1>8 DEF ObserveExit, brokerRows
<1>9. CASE HoldFailedChild
  BY <1>9, HoldStep DEF HoldFailedChild, ProcessExit, Hold
<1>10. CASE CompleteReceipt
  BY <1>10, CompleteStep DEF CompleteReceipt, ProcessExit, Complete
<1>11. CASE Boundary
  BY <1>11 DEF Boundary, brokerRows
<1>12. CASE StopChild
  BY <1>12 DEF StopChild, brokerRows
<1>13. CASE CleanUp
  <2>1. CASE Hold("boundary", IF kid = Nil THEN NotStarted ELSE ProcessExit)
    BY <1>13, <2>1, HoldStep DEF CleanUp, ProcessExit, NotStarted
  <2>2. CASE run.state = "ABSENT" /\ attempt' = "LAUNCH_FAILED" /\ UNCHANGED <<run, msg, camp, pickup, staged, consumed>>
    BY <1>13, <2>2 DEF CleanUp
  <2>3. CASE UNCHANGED brokerRows
    BY <1>13, <2>3 DEF CleanUp, brokerRows
  <2>. QED BY <1>13, <2>1, <2>2, <2>3 DEF CleanUp
<1>. QED BY <1>1, <1>2, <1>3, <1>4, <1>5, <1>6, <1>7, <1>8, <1>9, <1>10, <1>11, <1>12, <1>13 DEF HostStep

LEMMA NextBroker == BrokerInv /\ [BrokerNext]_brokerVars => BrokerInv'
<1>. SUFFICES ASSUME BrokerInv, [BrokerNext]_brokerVars PROVE BrokerInv'
  OBVIOUS
<1>. USE DEF BrokerInv, BrokerTypeOK, HostInv, HostSteps, RunInv, RunIsWhole, NoEvaluatorAfterEnd,
             StagedIsLeftBehind, GateOpensAfterClaim, EndsTogether, Nil, Live, RunActive,
             RunTerminal, Recorded
<1>1. CASE HostStep
  BY <1>1, HostStepKeeps
<1>2. CASE UnitEnds
  BY <1>2 DEF UnitEnds, brokerRows
<1>3. ASSUME NEW r \in Outputs \cup {"invalid"}, ChildWrites(r) PROVE BrokerInv'
  BY <1>3 DEF ChildWrites, brokerRows
<1>4. CASE ChildEnds
  BY <1>4 DEF ChildEnds, brokerRows
<1>5. CASE RecoverPreclaim
  <2>. DEFINE inactive == IF run.state = "PREPARING" THEN NotStarted ELSE SystemdInactive
  <2>1. inactive \in BOOLEAN /\ inactive /\ kid \notin Live
    BY <1>5 DEF RecoverPreclaim, Hold, NotStarted, SystemdInactive
  <2>2. host \notin {"popen", "claim", "gate", "wait"}
    BY <1>5, <2>1 DEF NotStarted, SystemdInactive, RecoverPreclaim
  <2>. QED BY <1>5, <2>1, <2>2, HoldStep DEF RecoverPreclaim
<1>6. CASE RecoverRunning
  <2>1. host = "dead" /\ kid \notin Live /\ SystemdInactive \in BOOLEAN
    BY <1>6 DEF RecoverRunning, SystemdInactive
  <2>2. CASE Complete(file, SystemdInactive)
    BY <1>6, <2>1, <2>2, CompleteStep DEF RecoverRunning
  <2>3. CASE Hold("receipt", SystemdInactive)
    BY <1>6, <2>1, <2>3, HoldStep DEF RecoverRunning
  <2>. QED BY <1>6, <2>2, <2>3 DEF RecoverRunning
<1>7. CASE StageReadiness
  BY <1>7 DEF StageReadiness
<1>8. ASSUME NEW s \in Recorded, RecordReadiness(s) PROVE BrokerInv'
  BY <1>8 DEF RecordReadiness, PickupLineage
<1>9. CASE RecordConsumption
  BY <1>9 DEF RecordConsumption
<1>10. CASE DisposePickup
  <2>1. PICK s : /\ s \in {camp.state, "STALE", "HOLD"} \ {"RUNNING"} /\ camp' = [camp EXCEPT !.state = s]
                 /\ consumed' \in {consumed, s}
    BY <1>10 DEF DisposePickup, Dispose
  <2>2. /\ camp'.attached = camp.attached /\ camp'.state = s
        /\ camp' \in [state : {"RUNNING", "STALE", "FINALIZED"} \cup Recorded, attached : BOOLEAN]
    BY <2>1
  <2>3. run.state = "COMPLETE" /\ UNCHANGED <<attempt, run, msg, pickup, staged, file, kid, host, drift, retired>>
    BY <1>10 DEF DisposePickup, PickupLineage
  <2>4. consumed' \in {Nil, "STALE", "FINALIZED"} \cup Recorded
    BY <2>1
  <2>. QED BY <2>1, <2>2, <2>3, <2>4
<1>11. CASE Evaluate
  BY <1>11 DEF Evaluate
<1>12. CASE Finalize
  BY <1>12 DEF Finalize
<1>13. CASE Drift
  BY <1>13 DEF Drift, brokerRows
<1>15. CASE Retire
  BY <1>15 DEF Retire, brokerRows
<1>14. CASE UNCHANGED brokerVars
  BY <1>14 DEF brokerVars, brokerRows
<1>. QED BY <1>1, <1>2, <1>3, <1>4, <1>5, <1>6, <1>7, <1>8, <1>9, <1>10, <1>11, <1>12, <1>13, <1>14, <1>15
     DEF BrokerNext, RecoveryStep, PickupStep

\* Wherever the host dies, and whatever the handler, the recovery and the readiness lane
\* do then: no evaluator writes after its run ended, what was staged is what it left, and
\* message, attempt, run and receipt end together.
THEOREM BrokerRunIsWhole == BrokerSpec => []RunIsWhole
<1>1. BrokerInv => RunIsWhole
  BY DEF BrokerInv
<1>. QED BY <1>1, InitBroker, NextBroker, PTL DEF BrokerSpec

\* A campaign disposed of as held or stale is not made eligible by a receipt that comes after.
THEOREM BrokerDisposed == BrokerSpec => DisposedStaysClosed
<1>. DEFINE Stays == consumed \in {"HOLD", "STALE"} /\ camp.state \notin Admissible => camp'.state \notin Admissible
<1>1. ASSUME BrokerTypeOK, [BrokerNext]_brokerVars PROVE [Stays]_brokerVars
  <2>. USE DEF BrokerTypeOK, Admissible
  <2>1. CASE UNCHANGED camp
    BY <2>1
  <2>2. ASSUME NEW e, NEW i, Hold(e, i) PROVE Stays
    <3>1. camp' = camp \/ camp'.state = "HOLD"
      BY <2>2, <1>1 DEF Hold
    <3>. QED BY <3>1
  <2>3. CASE ClaimAttachAndStart
    BY <2>3 DEF ClaimAttachAndStart
  <2>4. ASSUME NEW s \in Recorded, RecordReadiness(s) PROVE Stays
    BY <2>4 DEF RecordReadiness, Nil
  <2>5. CASE DisposePickup
    <3>1. PICK s : s \in {camp.state, "STALE", "HOLD"} /\ camp' = [camp EXCEPT !.state = s]
      BY <2>5 DEF DisposePickup, Dispose
    <3>. QED BY <3>1
  <2>6. CASE Evaluate
    BY <2>6 DEF Evaluate
  <2>7. CASE Finalize
    BY <2>7 DEF Finalize
  <2>8. CASE UNCHANGED camp \/ \E e, i : Hold(e, i)
    BY <2>1, <2>2, <2>8
  <2>9. CASE HostStep
    <3>1. ClaimAttachAndStart \/ UNCHANGED camp \/ \E e, i : Hold(e, i)
      BY <2>9 DEF HostStep, Reserve, PrepareBrokerRun, PrepareSpool, MarkLaunching, StartChild,
         OpenGate, ObserveExit, HoldFailedChild, CompleteReceipt, Complete, Boundary, StopChild, CleanUp, brokerRows
    <3>. QED BY <2>3, <2>8, <3>1
  <2>10. CASE \/ UnitEnds \/ ChildEnds \/ RecoveryStep \/ StageReadiness \/ RecordConsumption
              \/ Drift \/ Retire \/ UNCHANGED brokerVars
              \/ \E r \in Outputs \cup {"invalid"} : ChildWrites(r)
    <3>1. UNCHANGED camp \/ \E e, i : Hold(e, i)
      BY <2>10 DEF UnitEnds, ChildEnds, ChildWrites, RecoveryStep, RecoverPreclaim, RecoverRunning, Complete,
         StageReadiness, RecordConsumption, Drift, Retire, brokerVars, brokerRows
    <3>. QED BY <2>8, <3>1
  <2>. QED BY <1>1, <2>4, <2>5, <2>6, <2>7, <2>9, <2>10 DEF BrokerNext, PickupStep
<1>2. BrokerInv => BrokerTypeOK
  BY DEF BrokerInv
<1>. QED BY <1>1, <1>2, InitBroker, NextBroker, PTL DEF BrokerSpec, DisposedStaysClosed

-----------------------------------------------------------------------------
(* The proxy, for every number of requests, token limit and reservation.    *)

Requests == [state : TerminalRequest \cup ActiveRequest, reserved : 0..MaxReserve,
             evidence : {None, "zero", "bytes"}, prepared : BOOLEAN, tokens : 0..TokenLimit]

Proxies == [state : {"ABSENT", "READY", "RUNNING", "HOLD", "COMPLETE"}, bound : BOOLEAN,
            receipt : Receipts \cup {None}, tokens : 0..TokenLimit]

\* The steps on a request before its outcome, and all steps on a request.
Undecided == {"parse", "policy", "reserved", "open", "opening", "opened", "recorded", "stream",
              "finish", "prepared"}
Handling == Undecided \cup {"hold", "emit", "close"}

\* Where the handler is says what its request has come to, and a proxy that handles a
\* request is held with the outcome, not before.
StepInv ==
    /\ pc \in Handling => n > 0
    /\ pc \in {"register", "activate", "bind"} => n = 0
    /\ pc \in {"parse", "policy", "reserved"} => reqs[n].state = "CREATED"
    /\ pc \in {"open", "opening", "opened", "recorded"} => reqs[n].state = "UPSTREAM_STARTED"
    /\ pc \in {"stream", "finish", "prepared"} => reqs[n].state \in {"UPSTREAM_STARTED", "STREAMING"}
    /\ pc = "emit" => reqs[n].state = "COMPLETE"
    /\ pc \in {"hold", "close"} => reqs[n].state \in {"COMPLETE", "AMBIGUOUS", "FAILED"}
    /\ pc \in Undecided \cup {"emit"} => proxy.state = "RUNNING"

\* What the worker said of its bytes is what is on the wire: it sends nothing after it said so.
WorkerInv ==
    /\ NoWorkerAfterDecision
    /\ worker # 0 /\ pc # "opening" => opened.stream
    /\ pc \in {"opened", "recorded"} => opened.sent = wire[n].sent

\* Bytes are on the wire only of requests that started; once one of them ended otherwise
\* than complete, the proxy is held, or held next.
WireInv ==
    /\ \A i \in Ids : wire[i].sent => i <= n /\ reqs[i].state \notin {"CREATED", "SAFE_NOT_SENT"}
    /\ NothingFollowsUnknown
    /\ proxy.state \in {"READY", "RUNNING"} /\ pc \notin {"hold", "lost"} =>
          \A i \in DOMAIN reqs : wire[i].sent => reqs[i].state \in {"UPSTREAM_STARTED", "STREAMING", "COMPLETE"}

\* As long as requests are forwarded, the predecessor is the last response delivered.
DeliveryInv ==
    /\ DeliveredIsDurable /\ LineageIsDelivered
    /\ prev \in {0} \cup child
    /\ proxy.state = "RUNNING" => \A j \in child : j <= prev

\* A request is charged when its completion is prepared.
ChargeInv ==
    /\ BudgetKept
    /\ \A i \in DOMAIN reqs : ~reqs[i].prepared => reqs[i].tokens = 0

ProxyInv == TypeOK /\ StepInv /\ WorkerInv /\ WireInv /\ DeliveryInv /\ ChargeInv

-----------------------------------------------------------------------------
(* Requests and their charges.                                              *)

LEMMA RequestFacts ==
    ASSUME TypeOK
    PROVE  /\ n \in Nat /\ DOMAIN reqs = 1..n /\ n \in 0..MaxRequests /\ reqs \in Seq(Requests)
           /\ \A i \in 1..n : reqs[i] \in Requests /\ i \in Ids
           /\ \A i \in Ids : wire[i].sent \in BOOLEAN /\ wire[i].prev \in 0..MaxRequests
<1>1. reqs \in Seq(Requests) /\ Len(reqs) <= MaxRequests /\ MaxRequests \in Nat
  BY ProxyAssumption DEF TypeOK, n, Requests
<1>2. Len(reqs) \in Nat /\ DOMAIN reqs = 1..Len(reqs) /\ \A i \in 1..Len(reqs) : reqs[i] \in Requests
  BY <1>1
<1>3. \A i \in Ids : wire[i].sent \in BOOLEAN /\ wire[i].prev \in 0..MaxRequests
  BY DEF TypeOK
<1>. QED BY <1>1, <1>2, <1>3 DEF n, Ids

LEMMA Typed ==
    ASSUME TypeOK, proxy' \in Proxies, reqs' \in Seq(Requests), n' = n \/ n' <= MaxRequests, pc' \in Steps,
           worker' \in 0..MaxRequests, opened' \in Answers, prev' \in 0..MaxRequests,
           sse' \in {None, "created", "completed", "done"},
           wire' = wire \/ wire' \in [Ids -> [sent : BOOLEAN, prev : 0..MaxRequests]], child' \subseteq Ids
    PROVE  TypeOK'
BY DEF TypeOK, Proxies, Requests

LEMMA ChargedFacts ==
    ASSUME TypeOK PROVE IsFiniteSet(Charged) /\ Cardinality(Charged) \in Nat
<1>. DEFINE All == (1..n) \X (1..TokenLimit)
<1>1. IsFiniteSet(All)
  <2>1. IsFiniteSet(1..n)
    BY RequestFacts, FS_Interval
  <2>2. IsFiniteSet(1..TokenLimit)
    BY ProxyAssumption, FS_Interval
  <2>. QED BY <2>1, <2>2, FS_Product
<1>2. \A i \in 1..n : {i} \X (1..reqs[i].tokens) \subseteq All
  BY RequestFacts, ProxyAssumption DEF Requests
<1>3. Charged \subseteq All
  BY <1>2, RequestFacts DEF Charged
<1>. QED BY <1>1, <1>3, FS_Subset, FS_CardinalityType

LEMMA ChargedKept ==
    ASSUME DOMAIN reqs' = DOMAIN reqs, \A i \in DOMAIN reqs : reqs'[i].tokens = reqs[i].tokens
    PROVE  Charged' = Charged
BY DEF Charged

\* A write to the request at hand.
LEMMA Rewritten ==
    ASSUME TypeOK, n > 0, NEW x \in Requests, reqs' = [reqs EXCEPT ![n] = x]
    PROVE  /\ reqs' \in Seq(Requests) /\ n' = n /\ DOMAIN reqs' = 1..n
           /\ \A i \in 1..n : reqs'[i] = IF i = n THEN x ELSE reqs[i]
<1>1. n \in 1..Len(reqs) /\ reqs \in Seq(Requests)
  BY RequestFacts DEF n
<1>2. /\ reqs' \in Seq(Requests) /\ Len(reqs') = Len(reqs)
      /\ \A i \in 1..Len(reqs) : reqs'[i] = IF i = n THEN x ELSE reqs[i]
  BY <1>1, ExceptSeq
<1>. QED BY <1>2, RequestFacts DEF n

\* A transition changes the state of the request at hand, and holds the proxy of an
\* unknown outcome.
LEMMA Transitions ==
    ASSUME ProxyInv, n > 0, NEW s \in TerminalRequest \cup ActiveRequest, Transition(s)
    PROVE  /\ reqs' \in Seq(Requests) /\ n' = n /\ DOMAIN reqs' = 1..n
           /\ \A i \in 1..n : i # n => reqs'[i] = reqs[i]
           /\ reqs'[n].state = s /\ reqs'[n].tokens = reqs[n].tokens
           /\ reqs'[n].prepared = reqs[n].prepared /\ reqs'[n].reserved = reqs[n].reserved
           /\ proxy' \in Proxies
           /\ proxy'.tokens = proxy.tokens
           /\ s # "AMBIGUOUS" => proxy' = proxy
           /\ s = "AMBIGUOUS" => proxy'.state \notin {"READY", "RUNNING"}
<1>. DEFINE x == [reqs[n] EXCEPT !.state = s]
<1>1. n \in 1..n /\ reqs[n] \in Requests
  BY RequestFacts DEF ProxyInv
<1>2. /\ x \in Requests /\ x.state = s /\ x.tokens = reqs[n].tokens
      /\ x.prepared = reqs[n].prepared /\ x.reserved = reqs[n].reserved
  BY <1>1 DEF Requests
<1>3. reqs' = [reqs EXCEPT ![n] = x]
  BY DEF Transition
<1>4. /\ reqs' \in Seq(Requests) /\ n' = n /\ DOMAIN reqs' = 1..n
      /\ \A i \in 1..n : reqs'[i] = IF i = n THEN x ELSE reqs[i]
  BY <1>2, <1>3, Rewritten DEF ProxyInv
<1>5. /\ HeldProxy \in Proxies
      /\ HeldProxy.tokens = proxy.tokens /\ HeldProxy.state \notin {"READY", "RUNNING"}
  BY DEF ProxyInv, TypeOK, HeldProxy, Proxies
<1>. QED BY <1>1, <1>2, <1>4, <1>5 DEF Transition, ProxyInv, TypeOK, Proxies

\* What the ledger says of wire and child, after a transition of an undecided request:
\* a request is only called safe or failed when nothing was sent, unless a hold follows.
LEMMA LedgerAfter ==
    ASSUME ProxyInv, pc \in Undecided, NEW s \in TerminalRequest \cup ActiveRequest, Transition(s),
           s \in {"CREATED", "SAFE_NOT_SENT"} => ~wire[n].sent,
           s = "FAILED" => ~wire[n].sent \/ pc' = "hold",
           UNCHANGED <<prev, wire, child>>
    PROVE  WireInv' /\ DeliveryInv' /\ ChargeInv'
<1>0. n > 0 /\ n \in Nat /\ DOMAIN reqs = 1..n /\ reqs[n].state # "COMPLETE" /\ proxy.state = "RUNNING"
  BY RequestFacts DEF ProxyInv, StepInv, Undecided, Handling
<1>1. /\ n' = n /\ DOMAIN reqs' = 1..n /\ reqs'[n].state = s
      /\ \A i \in 1..n : /\ i # n => reqs'[i] = reqs[i]
                         /\ reqs'[i].tokens = reqs[i].tokens /\ reqs'[i].prepared = reqs[i].prepared
      /\ proxy'.tokens = proxy.tokens
      /\ s = "AMBIGUOUS" => proxy'.state \notin {"READY", "RUNNING"}
  BY <1>0, Transitions
<1>2. WireInv'
  <2>1. \A i \in Ids : wire[i].sent => i \in 1..n /\ (i # n => reqs[i].state = "COMPLETE")
    BY <1>0 DEF ProxyInv, WireInv, NothingFollowsUnknown, Ids
  <2>2. \A i \in Ids : wire'[i].sent => i <= n' /\ reqs'[i].state \notin {"CREATED", "SAFE_NOT_SENT"}
    BY <1>0, <1>1, <2>1
  <2>3. NothingFollowsUnknown'
    BY <1>0, <1>1, RequestFacts DEF ProxyInv, WireInv, NothingFollowsUnknown
  <2>4. (proxy.state \in {"READY", "RUNNING"} /\ pc \notin {"hold", "lost"} =>
          \A i \in DOMAIN reqs : wire[i].sent => reqs[i].state \in {"UPSTREAM_STARTED", "STREAMING", "COMPLETE"})'
    BY <1>0, <1>1, <2>1, RequestFacts DEF ProxyInv, TerminalRequest, ActiveRequest
  <2>. QED BY <2>2, <2>3, <2>4 DEF WireInv
<1>3. DeliveryInv'
  BY <1>0, <1>1 DEF ProxyInv, DeliveryInv, DeliveredIsDurable, LineageIsDelivered
<1>4. ChargeInv'
  <2>1. Charged' = Charged
    BY <1>0, <1>1, ChargedKept
  <2>. QED BY <1>0, <1>1, <2>1 DEF ProxyInv, ChargeInv, BudgetKept
<1>. QED BY <1>2, <1>3, <1>4

\* The place of the handler moves, and the rows stay.
LEMMA LedgerStays ==
    ASSUME ProxyInv, UNCHANGED <<reqs, prev, wire, child>>,
           proxy'.tokens = proxy.tokens,
           proxy'.state \in {"READY", "RUNNING"} => proxy.state \in {"READY", "RUNNING"} \/ n = 0,
           proxy'.state = "RUNNING" => proxy.state = "RUNNING" \/ n = 0,
           pc \in {"hold", "lost"} => pc' = "lost" \/ proxy'.state \notin {"READY", "RUNNING"}
    PROVE  WireInv' /\ DeliveryInv' /\ ChargeInv'
<1>0. n' = n /\ n \in Nat /\ DOMAIN reqs = 1..n
  BY RequestFacts DEF n, ProxyInv
<1>1. WireInv'
  BY <1>0 DEF ProxyInv, WireInv, NothingFollowsUnknown
<1>2. DeliveryInv'
  BY <1>0 DEF ProxyInv, DeliveryInv, DeliveredIsDurable, LineageIsDelivered
<1>3. ChargeInv'
  BY ChargedKept DEF ProxyInv, ChargeInv, BudgetKept
<1>. QED BY <1>1, <1>2, <1>3

-----------------------------------------------------------------------------
(* The steps of the handler.                                                *)

\* Every transition of the request at hand, with the place the handler goes to.
LEMMA Decided ==
    ASSUME ProxyInv, pc \in Undecided, NEW s \in TerminalRequest \cup ActiveRequest, Transition(s),
           s # "CREATED", s = "SAFE_NOT_SENT" => ~wire[n].sent,
           s = "FAILED" => ~wire[n].sent \/ pc' = "hold",
           \/ pc' = "idle"
           \/ pc' = "open" /\ s = "UPSTREAM_STARTED"
           \/ pc' = "stream" /\ s = "STREAMING"
           \/ pc' \in {"hold", "close"} /\ s \in {"AMBIGUOUS", "FAILED"},
           worker' \in {worker, 0}, pc' \in {"idle", "open"} => worker' = 0, pc # "opening" \/ worker' = 0,
           sse' \in {None, "created", "completed", "done"},
           UNCHANGED <<opened, prev, wire, child>>
    PROVE  ProxyInv'
<1>0. n > 0 /\ proxy.state = "RUNNING"
  BY DEF ProxyInv, StepInv, Undecided, Handling
<1>1. /\ reqs' \in Seq(Requests) /\ n' = n /\ reqs'[n].state = s
      /\ proxy' \in Proxies
      /\ s # "AMBIGUOUS" => proxy' = proxy
  BY <1>0, Transitions
<1>2. TypeOK'
  BY <1>1, Typed, ProxyAssumption DEF ProxyInv, TypeOK, Steps
<1>3. StepInv'
  BY <1>0, <1>1 DEF StepInv, Undecided, Handling
<1>4. WorkerInv'
  BY <1>1 DEF ProxyInv, WorkerInv, NoWorkerAfterDecision
<1>5. WireInv' /\ DeliveryInv' /\ ChargeInv'
  BY <1>0, LedgerAfter
<1>. QED BY <1>2, <1>3, <1>4, <1>5 DEF ProxyInv

\* Until the worker is opened nothing of the request is on the wire, and later it is
\* known to be under way.
LEMMA AtHand ==
    ASSUME ProxyInv
    PROVE  /\ pc \in {"parse", "policy", "reserved"} =>
                 worker = 0 /\ ~wire[n].sent /\ reqs[n].state = "CREATED" /\ n \in Ids
           /\ pc = "open" => worker = 0
           /\ sse \in {None, "created", "completed", "done"}
<1>1. pc \in {"parse", "policy", "reserved"} => reqs[n].state = "CREATED" /\ n \in 1..n
  BY RequestFacts DEF ProxyInv, StepInv, Handling, Undecided
<1>2. pc \in {"parse", "policy", "reserved"} => ~wire[n].sent /\ n \in Ids
  BY <1>1, RequestFacts DEF ProxyInv, WireInv
<1>3. pc \in {"parse", "policy", "reserved", "open"} => worker = 0
  BY DEF ProxyInv, WorkerInv, NoWorkerAfterDecision
<1>. QED BY <1>1, <1>2, <1>3 DEF ProxyInv, TypeOK

LEMMA Refusals ==
    ASSUME ProxyInv,
           \/ Parse /\ Transition("FAILED") /\ pc' = "idle"
           \/ Reject
           \/ At("policy") /\ Transition("FAILED") /\ pc' = "idle" /\ UNCHANGED <<worker, opened, sse, prev, wire, child>>
           \/ StartUpstream \/ OpenFails
    PROVE  ProxyInv'
<1>. USE AtHand DEF At, Undecided, TerminalRequest, ActiveRequest
<1>1. CASE Parse /\ Transition("FAILED") /\ pc' = "idle"
  BY <1>1, Decided DEF Parse
<1>2. CASE Reject \/ (At("policy") /\ Transition("FAILED") /\ pc' = "idle" /\ UNCHANGED <<worker, opened, sse, prev, wire, child>>)
  BY <1>2, Decided DEF Reject
<1>3. CASE StartUpstream
  BY <1>3, Decided DEF StartUpstream
<1>4. CASE OpenFails
  <2>1. Transition("AMBIGUOUS")
    BY <1>4 DEF OpenFails, Settle, ProxyInv, StepInv
  <2>. QED BY <1>4, <2>1, Decided DEF OpenFails
<1>. QED BY <1>1, <1>2, <1>3, <1>4

\* From the answer of the worker to the end of the stream.
LEMMA Outcomes ==
    ASSUME ProxyInv,
           \/ RecordSendEvidence /\ ~opened.bound
           \/ Interpret /\ pc' # "stream"
           \/ \E e \in {"created", "delta", "completed", "done", "failed"} : Receive(e)
           \/ EndOfStream /\ pc' = "close"
           \/ StreamFails
           \/ At("finish") /\ Transition("FAILED") /\ pc' = "hold" /\ UNCHANGED <<worker, opened, sse, prev, wire, child>>
    PROVE  ProxyInv'
<1>. USE AtHand DEF At, Undecided, TerminalRequest, ActiveRequest
<1>1. ASSUME Settle, pc \in {"opened", "recorded", "stream"}, pc' = "close",
             UNCHANGED <<worker, opened, sse, prev, wire, child>>
      PROVE  ProxyInv'
  <2>1. Transition("AMBIGUOUS")
    BY <1>1 DEF Settle, ProxyInv, StepInv
  <2>. QED BY <1>1, <2>1, Decided
<1>2. CASE RecordSendEvidence /\ ~opened.bound
  BY <1>1, <1>2 DEF RecordSendEvidence
<1>3. CASE Interpret /\ pc' # "stream"
  <2>1. CASE ~opened.sent /\ ~opened.stream /\ Transition("SAFE_NOT_SENT") /\ pc' = "idle"
    <3>1. worker = 0 /\ ~wire[n].sent
      BY <1>3, <2>1 DEF Interpret, ProxyInv, WorkerInv
    <3>. QED BY <1>3, <2>1, <3>1, Decided DEF Interpret
  <2>2. CASE opened.sent /\ Transition("FAILED") /\ pc' = "hold"
    BY <1>3, <2>2, Decided DEF Interpret
  <2>3. CASE Settle /\ pc' = "close"
    BY <1>1, <1>3, <2>3 DEF Interpret
  <2>. QED BY <1>3, <2>1, <2>2, <2>3 DEF Interpret
<1>4. ASSUME NEW e \in {"created", "delta", "completed", "done", "failed"}, Receive(e) PROVE ProxyInv'
  <2>. DEFINE next == Consume(e)
              s == IF next = "failed" THEN "FAILED"
                   ELSE IF next = "invalid" THEN "AMBIGUOUS" ELSE "STREAMING"
  <2>1. next \in {"created", "completed", "done", "failed", "invalid"}
    BY DEF Consume
  <2>2. /\ pc = "stream" /\ Transition(s)
        /\ pc' = CASE s = "FAILED" -> "hold" [] s = "AMBIGUOUS" -> "close" [] OTHER -> "stream"
        /\ sse' = IF s = "STREAMING" THEN next ELSE sse
        /\ UNCHANGED <<worker, opened, prev, wire, child>>
    BY <1>4 DEF Receive
  <2>3. s \in {"FAILED", "AMBIGUOUS", "STREAMING"} /\ (s = "STREAMING" => next \in {"created", "completed", "done"})
    BY <2>1
  <2>. HIDE DEF next, s
  <2>. QED BY <2>2, <2>3, Decided
<1>5. CASE EndOfStream /\ pc' = "close"
  BY <1>1, <1>5 DEF EndOfStream
<1>6. CASE StreamFails
  BY <1>1, <1>6 DEF StreamFails
<1>7. CASE At("finish") /\ Transition("FAILED") /\ pc' = "hold" /\ UNCHANGED <<worker, opened, sse, prev, wire, child>>
  BY <1>7, Decided
<1>. QED BY <1>2, <1>3, <1>4, <1>5, <1>6, <1>7

\* Writes to the request at hand that leave its state and its charge: the reservation and
\* the evidence.
LEMMA Annotated ==
    ASSUME ProxyInv, pc \in Undecided, NEW x \in Requests, reqs' = [reqs EXCEPT ![n] = x],
           x.state = reqs[n].state, x.tokens = reqs[n].tokens, x.prepared = reqs[n].prepared,
           (pc = "policy" /\ pc' = "reserved") \/ (pc = "opened" /\ pc' = "recorded"),
           UNCHANGED <<proxy, worker, opened, sse, prev, wire, child>>
    PROVE  ProxyInv'
<1>0. n > 0 /\ n \in 1..n /\ DOMAIN reqs = 1..n
  BY RequestFacts DEF ProxyInv, StepInv, Undecided, Handling
<1>1. /\ reqs' \in Seq(Requests) /\ n' = n /\ DOMAIN reqs' = 1..n
      /\ \A i \in 1..n : reqs'[i] = IF i = n THEN x ELSE reqs[i]
  BY <1>0, Rewritten DEF ProxyInv
<1>2. \A i \in 1..n : /\ reqs'[i].state = reqs[i].state /\ reqs'[i].tokens = reqs[i].tokens
                      /\ reqs'[i].prepared = reqs[i].prepared
  BY <1>0, <1>1
<1>3. TypeOK'
  BY <1>1, ProxyAssumption DEF ProxyInv, TypeOK, Requests, Steps
<1>4. StepInv' /\ WorkerInv'
  BY <1>0, <1>1, <1>2 DEF ProxyInv, StepInv, WorkerInv, NoWorkerAfterDecision, Undecided, Handling
<1>5. WireInv'
  BY <1>0, <1>1, <1>2 DEF ProxyInv, WireInv, NothingFollowsUnknown, Ids
<1>6. DeliveryInv'
  BY <1>0, <1>1, <1>2 DEF ProxyInv, DeliveryInv, DeliveredIsDurable, LineageIsDelivered
<1>7. ChargeInv'
  BY <1>0, <1>1, <1>2, ChargedKept DEF ProxyInv, ChargeInv, BudgetKept
<1>. QED BY <1>3, <1>4, <1>5, <1>6, <1>7 DEF ProxyInv

\* Steps that write no request: the start of the proxy, and moves of the handler.
LEMMA QuietSteps ==
    ASSUME ProxyInv,
           \/ Register \/ Activate \/ BindProcessIdentity \/ HoldProxy \/ CompleteProxy
           \/ Parse /\ UNCHANGED rows
           \/ OpenWorker
           \/ \E a \in Answers : WorkerAnswers(a)
           \/ Interpret /\ pc' = "stream"
           \/ EndOfStream /\ UNCHANGED rows /\ pc' = "finish"
           \/ CloseWorker \/ ProcessLost
    PROVE  ProxyInv'
<1>. USE DEF At, Undecided, Handling, ProxyInv
<1>0. n' = n /\ UNCHANGED <<reqs, prev, wire, child>> /\ n \in Nat /\ (n > 0 => n \in Ids)
  <2>1. UNCHANGED <<reqs, prev, wire, child>>
    BY DEF Register, Activate, BindProcessIdentity, HoldProxy, CompleteProxy, Parse, OpenWorker,
       WorkerAnswers, Interpret, EndOfStream, CloseWorker, ProcessLost, rows
  <2>2. n \in Nat /\ (n > 0 => n \in Ids)
    BY RequestFacts
  <2>. QED BY <2>1, <2>2 DEF n
<1>1. ASSUME TypeOK', StepInv', WorkerInv', proxy'.tokens = proxy.tokens,
             proxy'.state \in {"READY", "RUNNING"} => proxy.state \in {"READY", "RUNNING"} \/ n = 0,
             proxy'.state = "RUNNING" => proxy.state = "RUNNING" \/ n = 0,
             pc \in {"hold", "lost"} => pc' = "lost" \/ proxy'.state \notin {"READY", "RUNNING"}
      PROVE  ProxyInv'
  BY <1>0, <1>1, LedgerStays
<1>. USE <1>0 DEF TypeOK, StepInv, WorkerInv, NoWorkerAfterDecision, Steps
<1>2. ASSUME NEW s \in {"ABSENT", "READY", "RUNNING", "HOLD", "COMPLETE"}, NEW b \in BOOLEAN,
             proxy' = [proxy EXCEPT !.state = s, !.bound = b], UNCHANGED <<worker, opened, sse>>,
             \/ pc = "register" /\ pc' = "activate"
             \/ pc = "activate" /\ pc' = "bind"
             \/ pc = "bind" /\ pc' = "idle" /\ s = "RUNNING" /\ proxy.state = "RUNNING"
             \/ pc = "hold" /\ pc' = "close" /\ s \notin {"READY", "RUNNING"}
             \/ pc = "idle" /\ pc' = "finished" /\ s = "COMPLETE"
      PROVE  ProxyInv'
  <2>1. proxy'.state = s /\ proxy'.tokens = proxy.tokens
    BY <1>2
  <2>2. TypeOK'
    BY <1>2
  <2>3. StepInv' /\ WorkerInv'
    BY <1>2, <2>1
  <2>. QED BY <1>1, <1>2, <2>1, <2>2, <2>3
<1>6. CASE Register \/ Activate \/ BindProcessIdentity \/ HoldProxy \/ CompleteProxy
  <2>1. proxy = [proxy EXCEPT !.bound = proxy.bound] /\ proxy.bound \in BOOLEAN
    OBVIOUS
  <2>2. \A s : [proxy EXCEPT !.state = s] = [proxy EXCEPT !.state = s, !.bound = proxy.bound]
    OBVIOUS
  <2>3. proxy.state = "RUNNING" => [proxy EXCEPT !.bound = TRUE] = [proxy EXCEPT !.state = "RUNNING", !.bound = TRUE]
    OBVIOUS
  <2>4. CASE Register
    <3>1. proxy' = [proxy EXCEPT !.state = "READY", !.bound = proxy.bound]
      BY <2>2, <2>4 DEF Register
    <3>. QED BY <1>2, <2>1, <2>4, <3>1 DEF Register
  <2>5. CASE Activate
    BY <1>2, <2>1, <2>2, <2>5 DEF Activate
  <2>6. CASE BindProcessIdentity
    BY <1>2, <2>3, <2>6 DEF BindProcessIdentity
  <2>7. CASE HoldProxy
    <3>1. PICK s \in {"HOLD", "COMPLETE", "ABSENT"} : proxy' = [proxy EXCEPT !.state = s]
      BY <2>7 DEF HoldProxy, HeldProxy
    <3>2. proxy' = [proxy EXCEPT !.state = s, !.bound = proxy.bound]
      BY <2>2, <3>1
    <3>. QED BY <1>2, <2>1, <2>7, <3>1, <3>2 DEF HoldProxy
  <2>8. CASE CompleteProxy
    BY <1>2, <2>1, <2>2, <2>8 DEF CompleteProxy
  <2>. QED BY <1>6, <2>4, <2>5, <2>6, <2>7, <2>8
<1>3. CASE \/ Parse /\ UNCHANGED rows
           \/ Interpret /\ pc' = "stream"
           \/ EndOfStream /\ UNCHANGED rows /\ pc' = "finish"
           \/ CloseWorker \/ ProcessLost
  <2>1. UNCHANGED <<proxy, opened, sse>> /\ worker' \in {0, worker}
    BY <1>3 DEF Parse, Interpret, EndOfStream, CloseWorker, ProcessLost, rows, Transition, Settle
  <2>4. pc' \in Steps
    BY <1>3 DEF Parse, Interpret, EndOfStream, CloseWorker, ProcessLost
  <2>2. TypeOK'
    BY <2>1, <2>4, ProxyAssumption
  <2>3. StepInv' /\ WorkerInv'
    BY <1>3, <2>1 DEF Parse, Interpret, EndOfStream, CloseWorker, ProcessLost
  <2>. QED BY <1>1, <1>3, <2>1, <2>2, <2>3 DEF CloseWorker, ProcessLost, Parse, Interpret, EndOfStream
<1>4. CASE OpenWorker
  BY <1>1, <1>4, RequestFacts DEF OpenWorker, rows
<1>5. ASSUME NEW a \in Answers, WorkerAnswers(a) PROVE ProxyInv'
  <2>1. /\ pc = "opening" /\ pc' = "opened" /\ opened' = a /\ a.sent = wire[n].sent
        /\ worker' \in {0, worker} /\ (worker' # 0 => a.stream) /\ UNCHANGED <<proxy, reqs, sse>>
    BY <1>5 DEF WorkerAnswers, rows
  <2>2. TypeOK'
    BY <1>5, <2>1, ProxyAssumption
  <2>3. StepInv' /\ WorkerInv'
    BY <2>1
  <2>. QED BY <1>1, <2>1, <2>2, <2>3
<1>. QED BY <1>3, <1>4, <1>5, <1>6

\* The worker's bytes: the predecessor it names is the last response that was delivered.
LEMMA SendingStep == ASSUME ProxyInv, WorkerSends PROVE ProxyInv'
<1>. USE DEF ProxyInv
<1>0. /\ worker = n /\ n > 0 /\ n \in Ids /\ n \in Nat /\ n' = n /\ DOMAIN reqs = 1..n
      /\ UNCHANGED <<proxy, reqs, pc, worker, opened, sse, prev, child>> /\ ~wire[n].sent
      /\ wire' = [wire EXCEPT ![n] = [sent |-> TRUE, prev |-> prev]]
      /\ opened.stream = FALSE
  <2>1. worker = n /\ worker # 0 /\ UNCHANGED <<proxy, reqs, pc, worker, opened, sse, prev, child>>
    BY DEF WorkerSends, WorkerInv, NoWorkerAfterDecision, rows
  <2>2. n \in Ids /\ n > 0 /\ n' = n /\ DOMAIN reqs = 1..n /\ n \in Nat
    BY <2>1, RequestFacts DEF n, Ids
  <2>. QED BY <2>1, <2>2 DEF WorkerSends, Unopened
<1>1. pc = "opening" /\ proxy.state = "RUNNING" /\ reqs[n].state = "UPSTREAM_STARTED"
  BY <1>0 DEF WorkerInv, StepInv, Undecided
<1>2. \A i \in Ids : wire'[i] = IF i = n THEN [sent |-> TRUE, prev |-> prev] ELSE wire[i]
  BY <1>0 DEF TypeOK
<1>3. TypeOK'
  BY <1>0 DEF TypeOK
<1>4. StepInv' /\ WorkerInv'
  BY <1>0, <1>1 DEF StepInv, WorkerInv, NoWorkerAfterDecision
<1>5. WireInv'
  BY <1>0, <1>1, <1>2, RequestFacts DEF WireInv, NothingFollowsUnknown
<1>6. DeliveryInv'
  BY <1>0, <1>1, <1>2 DEF DeliveryInv, DeliveredIsDurable, LineageIsDelivered
<1>7. ChargeInv'
  BY <1>0, ChargedKept DEF ChargeInv, BudgetKept
<1>. QED BY <1>3, <1>4, <1>5, <1>6, <1>7

\* A new request follows only requests whose outcome is known.
LEMMA BeginStep == ASSUME ProxyInv, BeginRequest PROVE ProxyInv'
<1>. USE DEF ProxyInv
<1>. DEFINE x == [state |-> "CREATED", reserved |-> 0, evidence |-> None, prepared |-> FALSE, tokens |-> 0]
<1>0. /\ n \in Nat /\ n < MaxRequests /\ MaxRequests \in Nat /\ DOMAIN reqs = 1..n
      /\ reqs \in Seq(Requests) /\ reqs' = Append(reqs, x) /\ x \in Requests
      /\ UNCHANGED <<proxy, worker, prev, wire, child>>
      /\ pc = "idle" /\ pc' = "parse" /\ proxy.state = "RUNNING" /\ worker = 0
      /\ opened' = Unopened /\ sse' = None
  BY RequestFacts, ProxyAssumption DEF BeginRequest, At, WorkerInv, NoWorkerAfterDecision, Requests, ActiveRequest
<1>1. /\ n' = n + 1 /\ DOMAIN reqs' = 1..(n + 1) /\ reqs' \in Seq(Requests)
      /\ \A i \in 1..n : reqs'[i] = reqs[i]
      /\ reqs'[n + 1] = x
  BY <1>0, AppendProperties DEF n
<1>2. x.state = "CREATED" /\ x.tokens = 0
  OBVIOUS
<1>. HIDE DEF x
<1>3. TypeOK'
  BY <1>0, <1>1 DEF TypeOK, Requests, Steps, Unopened, Answers
<1>4. StepInv' /\ WorkerInv'
  BY <1>0, <1>1, <1>2 DEF StepInv, WorkerInv, NoWorkerAfterDecision, Undecided, Handling
<1>5. \A i \in 1..n : wire[i].sent => reqs[i].state = "COMPLETE"
  <2>1. \A i \in 1..n : reqs[i].state \notin ActiveRequest
    BY <1>0 DEF BeginRequest
  <2>. QED BY <1>0, <2>1 DEF WireInv, ActiveRequest
<1>6. WireInv'
  <2>1. \A i \in Ids : wire[i].sent => i \in 1..n
    BY <1>0 DEF WireInv, Ids
  <2>. QED BY <1>0, <1>1, <1>5, <2>1, RequestFacts DEF WireInv, NothingFollowsUnknown, Ids
<1>7. DeliveryInv'
  BY <1>0, <1>1 DEF DeliveryInv, DeliveredIsDurable, LineageIsDelivered
<1>8. ChargeInv'
  <2>1. {n + 1} \X (1..0) = {}
    OBVIOUS
  <2>2. Charged' = Charged
    BY <1>0, <1>1, <1>2, <2>1 DEF Charged
  <2>. QED BY <1>0, <1>1, <1>2, <2>2 DEF ChargeInv, BudgetKept
<1>. QED BY <1>3, <1>4, <1>6, <1>7, <1>8

\* The usage of a completion is charged once, to its request and to the proxy.
LEMMA ChargeStep ==
    ASSUME ProxyInv, NEW used \in 0..(MaxReserve + 1), PrepareCompletion(used), pc' = "prepared"
    PROVE  ProxyInv'
<1>. USE DEF ProxyInv
<1>. DEFINE x == [reqs[n] EXCEPT !.prepared = TRUE, !.tokens = used]
<1>0. /\ pc = "finish" /\ reqs[n].state = "STREAMING" /\ ~reqs[n].prepared
      /\ reqs' = [reqs EXCEPT ![n].prepared = TRUE, ![n].tokens = used]
      /\ proxy' = [proxy EXCEPT !.tokens = @ + used]
      /\ used <= reqs[n].reserved /\ proxy.tokens + used <= TokenLimit
      /\ UNCHANGED <<worker, opened, sse, prev, wire, child>>
  <2>1. pc = "finish" /\ n \in 1..n
    BY RequestFacts DEF PrepareCompletion, At, StepInv, Handling, Undecided
  <2>2. reqs[n].reserved \in 0..MaxReserve
    BY <2>1, RequestFacts DEF Requests
  <2>3. proxy.tokens \in 0..TokenLimit
    BY DEF TypeOK
  <2>4. ~(used > reqs[n].reserved \/ proxy.tokens + used > TokenLimit)
    BY DEF PrepareCompletion
  <2>5. used <= reqs[n].reserved /\ proxy.tokens + used <= TokenLimit
    BY <2>2, <2>3, <2>4, ProxyAssumption
  <2>. QED BY <2>1, <2>4, <2>5 DEF PrepareCompletion
<1>1. /\ n > 0 /\ n \in 1..n /\ n \in Nat /\ DOMAIN reqs = 1..n /\ reqs[n] \in Requests /\ proxy.state = "RUNNING"
      /\ used \in Nat /\ proxy.tokens \in Nat /\ TokenLimit \in Nat
  BY <1>0, RequestFacts, ProxyAssumption DEF StepInv, Handling, Undecided, TypeOK
<1>2. /\ x \in Requests /\ x.state = "STREAMING" /\ x.prepared /\ x.tokens = used
  <2>1. used \in 0..TokenLimit
    BY <1>0, <1>1
  <2>. QED BY <1>0, <1>1, <2>1 DEF Requests
<1>3. reqs' = [reqs EXCEPT ![n] = x]
  BY <1>0
<1>. HIDE DEF x
<1>4. /\ reqs' \in Seq(Requests) /\ n' = n /\ DOMAIN reqs' = 1..n
      /\ \A i \in 1..n : reqs'[i] = IF i = n THEN x ELSE reqs[i]
  BY <1>1, <1>2, <1>3, Rewritten
<1>5. \A i \in 1..n : reqs'[i].state = reqs[i].state /\ (i # n => reqs'[i] = reqs[i])
  BY <1>0, <1>2, <1>4
<1>6. proxy'.tokens = proxy.tokens + used /\ proxy'.state = "RUNNING"
  BY <1>0, <1>1 DEF TypeOK
<1>7. TypeOK'
  <2>1. proxy' \in Proxies
    <3>1. proxy.tokens + used \in 0..TokenLimit /\ proxy \in Proxies
      BY <1>0, <1>1 DEF TypeOK, Proxies
    <3>. QED BY <1>0, <3>1 DEF Proxies
  <2>. QED BY <1>0, <1>4, <2>1, Typed DEF TypeOK, Steps
<1>8. StepInv' /\ WorkerInv'
  BY <1>0, <1>1, <1>4, <1>5, <1>6 DEF StepInv, WorkerInv, NoWorkerAfterDecision, Undecided, Handling
<1>9. WireInv'
  BY <1>0, <1>1, <1>4, <1>5 DEF WireInv, NothingFollowsUnknown, Ids
<1>10. DeliveryInv'
  BY <1>0, <1>1, <1>4, <1>5, <1>6 DEF DeliveryInv, DeliveredIsDurable, LineageIsDelivered
<1>11. ChargeInv'
  <2>. DEFINE new == {n} \X (1..used)
  <2>1. Charged' = Charged \cup new
    <3>1. \A i \in 1..n : i # n => {i} \X (1..reqs'[i].tokens) = {i} \X (1..reqs[i].tokens)
      BY <1>5
    <3>2. {n} \X (1..reqs[n].tokens) = {}
      BY <1>0, <1>1 DEF ChargeInv
    <3>3. {n} \X (1..reqs'[n].tokens) = new
      BY <1>1, <1>2, <1>4
    <3>. QED BY <1>1, <1>4, <3>1, <3>2, <3>3 DEF Charged
  <2>2. Charged \cap new = {}
    BY <1>0, <1>1 DEF Charged, ChargeInv
  <2>3. IsFiniteSet(new) /\ Cardinality(new) = used
    <3>1. IsFiniteSet(1..used) /\ Cardinality(1..used) = used
      BY <1>1, FS_Interval
    <3>2. IsFiniteSet({n}) /\ Cardinality({n}) = 1
      BY FS_Singleton
    <3>3. IsFiniteSet(new) /\ Cardinality(new) = Cardinality({n}) * Cardinality(1..used)
      BY <3>1, <3>2, FS_Product
    <3>. QED BY <1>1, <3>1, <3>2, <3>3
  <2>4. IsFiniteSet(Charged) /\ Cardinality(Charged) \in Nat /\ Cardinality(Charged \cap new) = 0
    BY <2>2, ChargedFacts, FS_EmptySet
  <2>5. Cardinality(Charged \cup new) = Cardinality(Charged) + Cardinality(new) - Cardinality(Charged \cap new)
    BY <2>3, <2>4, FS_Union
  <2>6. Cardinality(Charged') = proxy.tokens + used
    BY <1>1, <2>1, <2>3, <2>4, <2>5 DEF ChargeInv, BudgetKept
  <2>7. \A i \in 1..n : ~reqs'[i].prepared => reqs'[i].tokens = 0
    BY <1>1, <1>2, <1>4, <1>5 DEF ChargeInv
  <2>. QED BY <1>0, <1>1, <1>4, <1>6, <2>6, <2>7 DEF ChargeInv, BudgetKept
<1>. QED BY <1>7, <1>8, <1>9, <1>10, <1>11

LEMMA FinalizeStep == ASSUME ProxyInv, FinalizePreparedCompletion PROVE ProxyInv'
<1>. USE DEF ProxyInv
<1>. DEFINE x == [reqs[n] EXCEPT !.state = "COMPLETE"]
<1>0. /\ pc = "prepared" /\ pc' = "emit" /\ reqs' = [reqs EXCEPT ![n] = x]
      /\ UNCHANGED <<proxy, worker, opened, sse, prev, wire, child>>
      /\ n > 0 /\ n \in 1..n /\ DOMAIN reqs = 1..n /\ reqs[n] \in Requests /\ proxy.state = "RUNNING"
  BY RequestFacts DEF FinalizePreparedCompletion, At, StepInv, Undecided, Handling
<1>1. /\ x \in Requests /\ x.state = "COMPLETE" /\ x.tokens = reqs[n].tokens /\ x.prepared = reqs[n].prepared
  BY <1>0 DEF Requests, TerminalRequest
<1>. HIDE DEF x
<1>2. /\ reqs' \in Seq(Requests) /\ n' = n /\ DOMAIN reqs' = 1..n
      /\ \A i \in 1..n : reqs'[i] = IF i = n THEN x ELSE reqs[i]
  BY <1>0, <1>1, Rewritten
<1>3. \A i \in 1..n : reqs'[i].tokens = reqs[i].tokens /\ reqs'[i].prepared = reqs[i].prepared
  BY <1>1, <1>2
<1>4. TypeOK'
  BY <1>0, <1>2, Typed DEF TypeOK, Proxies, Steps
<1>5. StepInv' /\ WorkerInv'
  BY <1>0, <1>1, <1>2 DEF StepInv, WorkerInv, NoWorkerAfterDecision, Undecided, Handling
<1>6. WireInv'
  BY <1>0, <1>1, <1>2 DEF WireInv, NothingFollowsUnknown, Ids
<1>7. DeliveryInv'
  BY <1>0, <1>1, <1>2 DEF DeliveryInv, DeliveredIsDurable, LineageIsDelivered
<1>8. ChargeInv'
  BY <1>0, <1>2, <1>3, ChargedKept DEF ChargeInv, BudgetKept
<1>. QED BY <1>4, <1>5, <1>6, <1>7, <1>8

\* The completion reaches the child when it is durable, and becomes the predecessor only
\* when it is known to have.
LEMMA EmitStep == ASSUME ProxyInv, EmitCompletion PROVE ProxyInv'
<1>. USE DEF ProxyInv
<1>0. /\ pc = "emit" /\ pc' = "close" /\ UNCHANGED <<reqs, worker, opened, sse, wire>> /\ n' = n
      /\ n > 0 /\ n \in 1..n /\ n \in Ids /\ DOMAIN reqs = 1..n /\ reqs[n].state = "COMPLETE" /\ proxy.state = "RUNNING"
  BY RequestFacts DEF EmitCompletion, At, StepInv, Undecided, Handling, n
<1>1. /\ HeldProxy.tokens = proxy.tokens /\ HeldProxy.state = "HOLD"
      /\ HeldProxy \in Proxies
  BY <1>0 DEF HeldProxy, TypeOK, Proxies
<1>2. /\ child' \in {child, child \cup {n}} /\ proxy' \in {proxy, HeldProxy} /\ prev' \in {prev, n}
      /\ child' # child /\ proxy' = proxy => prev' = n
      /\ prev' = prev \/ n \in child'
  BY <1>0, <1>1 DEF EmitCompletion
<1>3. TypeOK'
  <2>1. proxy' \in Proxies /\ prev' \in 0..MaxRequests /\ child' \subseteq Ids
    BY <1>0, <1>1, <1>2 DEF TypeOK, Proxies, Ids
  <2>. QED BY <1>0, <2>1, RequestFacts, Typed DEF TypeOK, Steps
<1>4. StepInv' /\ WorkerInv'
  BY <1>0 DEF StepInv, WorkerInv, NoWorkerAfterDecision, Undecided, Handling
<1>5. WireInv'
  BY <1>0, <1>1, <1>2 DEF WireInv, NothingFollowsUnknown
<1>6. DeliveryInv'
  <2>1. \A j \in child : j \in 1..n
    BY <1>0 DEF DeliveryInv, DeliveredIsDurable
  <2>2. DeliveredIsDurable'
    BY <1>0, <1>2 DEF DeliveryInv, DeliveredIsDurable
  <2>3. LineageIsDelivered'
    <3>1. \A i \in Ids : wire[i].sent => i <= n /\ i \in Nat
      BY DEF WireInv, Ids
    <3>. QED BY <1>0, <1>2, <3>1, RequestFacts DEF DeliveryInv, LineageIsDelivered
  <2>4. prev' \in {0} \cup child'
    BY <1>2 DEF DeliveryInv
  <2>5. proxy'.state = "RUNNING" => \A j \in child' : j <= prev'
    BY <1>0, <1>1, <1>2, <2>1 DEF DeliveryInv
  <2>. QED BY <2>2, <2>3, <2>4, <2>5 DEF DeliveryInv
<1>7. ChargeInv'
  BY <1>0, <1>1, <1>2, ChargedKept DEF ChargeInv, BudgetKept
<1>. QED BY <1>3, <1>4, <1>5, <1>6, <1>7

\* Recovery knows the rows only: what was CREATED was not sent, what was under way is unknown.
LEMMA RecoverStep == ASSUME ProxyInv, NEW r \in Receipts, Recover(r) PROVE ProxyInv'
<1>. USE DEF ProxyInv
<1>0. /\ pc = "lost" /\ UNCHANGED <<pc, worker, opened, sse, prev, wire, child>> /\ worker = 0
      /\ n \in Nat /\ DOMAIN reqs = 1..n /\ reqs \in Seq(Requests) /\ Len(reqs) = n
      /\ \A i \in 1..n : reqs[i] \in Requests
  BY RequestFacts DEF Recover, WorkerInv, NoWorkerAfterDecision, n
<1>1. /\ proxy' \in Proxies
      /\ proxy'.state = "HOLD" /\ proxy'.tokens = proxy.tokens
  BY DEF Recover, TypeOK, Proxies
<1>2. \A q \in Requests : /\ Recovered(q) \in Requests
                          /\ Recovered(q).tokens = q.tokens /\ Recovered(q).prepared = q.prepared
                          /\ q.state \in TerminalRequest => Recovered(q) = q
                          /\ q.state = "CREATED" => Recovered(q).state = "SAFE_NOT_SENT"
                          /\ q.state \in {"UPSTREAM_STARTED", "STREAMING"} => Recovered(q).state = "AMBIGUOUS"
  <2>. SUFFICES ASSUME NEW q \in Requests
       PROVE  /\ Recovered(q) \in Requests
              /\ Recovered(q).tokens = q.tokens /\ Recovered(q).prepared = q.prepared
              /\ q.state \in TerminalRequest => Recovered(q) = q
              /\ q.state = "CREATED" => Recovered(q).state = "SAFE_NOT_SENT"
              /\ q.state \in {"UPSTREAM_STARTED", "STREAMING"} => Recovered(q).state = "AMBIGUOUS"
    OBVIOUS
  <2>1. CASE q.state = "CREATED"
    BY <2>1 DEF Recovered, Requests, TerminalRequest
  <2>2. CASE q.state \in {"UPSTREAM_STARTED", "STREAMING"}
    BY <2>2 DEF Recovered, Requests, TerminalRequest
  <2>3. CASE q.state \in TerminalRequest
    BY <2>3 DEF Recovered, TerminalRequest
  <2>. QED BY <2>1, <2>2, <2>3 DEF Requests, ActiveRequest
<1>3. /\ reqs' \in Seq(Requests) /\ n' = n /\ DOMAIN reqs' = 1..n
      /\ \/ \A i \in 1..n : reqs'[i] = Recovered(reqs[i])
         \/ reqs' = reqs
  <2>1. CASE reqs' = [i \in DOMAIN reqs |-> Recovered(reqs[i])]
    <3>1. reqs' \in [1..n -> Requests]
      BY <1>0, <1>2, <2>1
    <3>2. reqs' \in Seq(Requests)
      BY <1>0, <3>1
    <3>3. Len(reqs') = n
      BY <1>0, <3>1
    <3>. QED BY <1>0, <2>1, <3>1, <3>2, <3>3 DEF n
  <2>2. CASE reqs' = reqs
    BY <1>0, <2>2 DEF n
  <2>. QED BY <2>1, <2>2 DEF Recover
<1>4. \A i \in 1..n : /\ reqs'[i].tokens = reqs[i].tokens /\ reqs'[i].prepared = reqs[i].prepared
                      /\ reqs[i].state \in TerminalRequest => reqs'[i].state = reqs[i].state
                      /\ reqs[i].state # "CREATED" => reqs'[i].state \notin {"CREATED", "SAFE_NOT_SENT"} \/ reqs'[i].state = reqs[i].state
  <2>. SUFFICES ASSUME NEW i \in 1..n, reqs'[i] = Recovered(reqs[i])
       PROVE  /\ reqs'[i].tokens = reqs[i].tokens /\ reqs'[i].prepared = reqs[i].prepared
              /\ reqs[i].state \in TerminalRequest => reqs'[i].state = reqs[i].state
              /\ reqs[i].state # "CREATED" => reqs'[i].state \notin {"CREATED", "SAFE_NOT_SENT"} \/ reqs'[i].state = reqs[i].state
    BY <1>3
  <2>1. reqs[i] \in Requests /\ reqs[i].state \in TerminalRequest \cup {"CREATED", "UPSTREAM_STARTED", "STREAMING"}
    BY <1>0 DEF Requests, ActiveRequest
  <2>. QED BY <1>2, <2>1
<1>5. TypeOK'
  BY <1>0, <1>1, <1>3, Typed DEF TypeOK
<1>6. StepInv' /\ WorkerInv'
  BY <1>0, <1>1, <1>3 DEF StepInv, WorkerInv, NoWorkerAfterDecision, Undecided, Handling
<1>7. WireInv'
  <2>1. \A i \in Ids : wire[i].sent => i \in 1..n /\ reqs[i].state \notin {"CREATED", "SAFE_NOT_SENT"}
    BY <1>0 DEF WireInv, Ids
  <2>2. \A i \in Ids : wire[i].sent => i <= n /\ reqs'[i].state \notin {"CREATED", "SAFE_NOT_SENT"}
    BY <1>0, <1>4, <2>1
  <2>3. NothingFollowsUnknown'
    BY <1>0, <1>3, <1>4 DEF WireInv, NothingFollowsUnknown, TerminalRequest
  <2>. QED BY <1>0, <1>1, <1>3, <2>2, <2>3 DEF WireInv
<1>8. DeliveryInv'
  BY <1>0, <1>1, <1>3, <1>4 DEF DeliveryInv, DeliveredIsDurable, LineageIsDelivered, TerminalRequest
<1>9. ChargeInv'
  BY <1>0, <1>1, <1>3, <1>4, ChargedKept DEF ChargeInv, BudgetKept
<1>. QED BY <1>5, <1>6, <1>7, <1>8, <1>9

-----------------------------------------------------------------------------

LEMMA InitProxy == Init => ProxyInv
<1>. SUFFICES ASSUME Init PROVE ProxyInv
  OBVIOUS
<1>1. n = 0 /\ DOMAIN reqs = {} /\ reqs \in Seq(Requests) /\ \A i \in Ids : ~wire[i].sent
  BY DEF Init, n
<1>2. TypeOK
  BY <1>1, ProxyAssumption DEF Init, TypeOK, Steps, Unopened, Answers, Requests, n
<1>3. StepInv /\ WorkerInv
  BY <1>1 DEF Init, StepInv, WorkerInv, NoWorkerAfterDecision, Undecided, Handling
<1>4. WireInv /\ DeliveryInv
  BY <1>1 DEF Init, WireInv, NothingFollowsUnknown, DeliveryInv, DeliveredIsDurable, LineageIsDelivered
<1>5. ChargeInv
  <2>1. Charged = {}
    BY <1>1 DEF Charged
  <2>. QED BY <1>1, <2>1, FS_EmptySet, ProxyAssumption DEF Init, ChargeInv, BudgetKept
<1>. QED BY <1>2, <1>3, <1>4, <1>5 DEF ProxyInv

LEMMA ReserveBudgetStep == ASSUME ProxyInv, NEW k \in 1..MaxReserve, ReserveBudget(k) PROVE ProxyInv'
<1>1. CASE Transition("FAILED") /\ pc' = "idle"
  BY <1>1, Refusals DEF ReserveBudget
<1>2. CASE reqs' = [reqs EXCEPT ![n].reserved = k] /\ pc' = "reserved" /\ UNCHANGED proxy
  <2>. DEFINE x == [reqs[n] EXCEPT !.reserved = k]
  <2>1. pc = "policy" /\ n \in 1..n
    BY <1>2, RequestFacts DEF ReserveBudget, At, ProxyInv, StepInv, Handling, Undecided
  <2>2. reqs[n] \in Requests /\ k \in 0..MaxReserve
    BY <2>1, RequestFacts, ProxyAssumption DEF ProxyInv
  <2>3. /\ x \in Requests /\ x.state = reqs[n].state /\ x.tokens = reqs[n].tokens /\ x.prepared = reqs[n].prepared
    BY <2>2 DEF Requests
  <2>4. reqs' = [reqs EXCEPT ![n] = x]
    BY <1>2
  <2>. HIDE DEF x
  <2>. QED BY <1>2, <2>1, <2>3, <2>4, Annotated DEF ReserveBudget, Undecided
<1>. QED BY <1>1, <1>2 DEF ReserveBudget

LEMMA EvidenceStep == ASSUME ProxyInv, RecordSendEvidence PROVE ProxyInv'
<1>1. CASE ~opened.bound
  BY <1>1, Outcomes
<1>2. CASE opened.bound
  <2>. DEFINE e == IF opened.sent THEN "bytes" ELSE "zero"
              x == [reqs[n] EXCEPT !.evidence = e]
  <2>1. pc = "opened" /\ n \in 1..n
    BY RequestFacts DEF RecordSendEvidence, At, ProxyInv, StepInv, Handling, Undecided
  <2>2. reqs[n] \in Requests
    BY <2>1, RequestFacts DEF ProxyInv
  <2>3. /\ x \in Requests /\ x.state = reqs[n].state /\ x.tokens = reqs[n].tokens /\ x.prepared = reqs[n].prepared
    BY <2>2 DEF Requests
  <2>4. reqs' = [reqs EXCEPT ![n] = x] /\ pc' = "recorded" /\ UNCHANGED <<proxy, worker, opened, sse, prev, wire, child>>
    BY <1>2 DEF RecordSendEvidence
  <2>. HIDE DEF x, e
  <2>. QED BY <2>1, <2>3, <2>4, Annotated DEF Undecided
<1>. QED BY <1>1, <1>2

LEMMA NextProxy == ProxyInv /\ [Next]_vars => ProxyInv'
<1>. SUFFICES ASSUME ProxyInv, [Next]_vars PROVE ProxyInv'
  OBVIOUS
<1>1. CASE Register \/ Activate \/ BindProcessIdentity \/ HoldProxy \/ CompleteProxy \/ OpenWorker
           \/ CloseWorker \/ ProcessLost \/ \E a \in Answers : WorkerAnswers(a)
  BY <1>1, QuietSteps
<1>2. CASE Parse
  BY <1>2, QuietSteps, Refusals DEF Parse
<1>3. CASE Reject \/ StartUpstream \/ OpenFails
  BY <1>3, Refusals
<1>4. CASE \E k \in 1..MaxReserve : ReserveBudget(k)
  BY <1>4, ReserveBudgetStep
<1>5. CASE RecordSendEvidence
  BY <1>5, EvidenceStep
<1>6. CASE Interpret
  BY <1>6, QuietSteps, Outcomes
<1>7. CASE StreamFails \/ \E e \in {"created", "delta", "completed", "done", "failed"} : Receive(e)
  BY <1>7, Outcomes
<1>8. CASE EndOfStream
  BY <1>8, QuietSteps, Outcomes DEF EndOfStream
<1>9. ASSUME NEW k \in 0..MaxReserve + 1, PrepareCompletion(k) PROVE ProxyInv'
  <2>1. k \in 0..(MaxReserve + 1)
    OBVIOUS
  <2>. QED BY <1>9, <2>1, ChargeStep, Outcomes DEF PrepareCompletion
<1>10. CASE FinalizePreparedCompletion
  BY <1>10, FinalizeStep
<1>11. CASE EmitCompletion
  BY <1>11, EmitStep
<1>12. CASE WorkerSends
  BY <1>12, SendingStep
<1>13. CASE BeginRequest
  BY <1>13, BeginStep
<1>14. CASE \E r \in Receipts : Recover(r)
  BY <1>14, RecoverStep
<1>15. CASE UNCHANGED vars
  <2>1. UNCHANGED n
    BY <1>15 DEF vars, n
  <2>2. Charged' = Charged
    BY <1>15 DEF vars, Charged
  <2>. QED BY <1>15, <2>1, <2>2 DEF vars, ProxyInv, TypeOK, StepInv, WorkerInv, NoWorkerAfterDecision,
        WireInv, NothingFollowsUnknown, DeliveryInv, DeliveredIsDurable, LineageIsDelivered,
        ChargeInv, BudgetKept
<1>. QED BY <1>1, <1>2, <1>3, <1>4, <1>5, <1>6, <1>7, <1>8, <1>9, <1>10, <1>11, <1>12, <1>13, <1>14, <1>15
     DEF Next, Handle, Rest

LEMMA ProxyInvariant == Spec => []ProxyInv
BY InitProxy, NextProxy, PTL DEF Spec

LEMMA ProxyAccounts == ProxyInv => RequestsAccounted
<1>. SUFFICES ASSUME ProxyInv PROVE RequestsAccounted
  OBVIOUS
<1>1. SafeMeansUnsent
  BY RequestFacts DEF ProxyInv, WireInv, SafeMeansUnsent
<1>. QED BY <1>1 DEF ProxyInv, WireInv, WorkerInv, DeliveryInv, ChargeInv, RequestsAccounted

\* For every budget and every number of requests: what the proxy recorded of a request is
\* what happened on the wire, nothing is sent after an outcome nobody knows, and the
\* tokens are charged once and stay within the limit.
THEOREM ProxyRequestsAccounted == Spec => []RequestsAccounted
BY ProxyAccounts, ProxyInvariant, PTL

\* Neither the handler nor a recovery changes the outcome of a request that has one.
THEOREM ProxyTerminalIsFinal == Spec => TerminalIsFinal
<1>1. ASSUME ProxyInv, [Next]_vars
      PROVE  [\A i \in DOMAIN reqs : reqs[i].state \in TerminalRequest => reqs'[i].state = reqs[i].state]_vars
  <2>. DEFINE Final == \A i \in DOMAIN reqs : reqs[i].state \in TerminalRequest => reqs'[i].state = reqs[i].state
  <2>0. n \in Nat /\ DOMAIN reqs = 1..n /\ reqs \in Seq(Requests) /\ \A i \in 1..n : reqs[i] \in Requests
    BY <1>1, RequestFacts DEF ProxyInv
  <2>1. CASE UNCHANGED reqs
    BY <2>1
  <2>2. ASSUME NEW x, reqs' = [reqs EXCEPT ![n] = x], n > 0 => reqs[n].state \notin TerminalRequest \/ x.state = reqs[n].state
        PROVE  Final
    BY <2>0, <2>2
  <2>3. ASSUME NEW s, Transition(s), pc \in Undecided PROVE Final
    <3>1. reqs' = [reqs EXCEPT ![n] = [reqs[n] EXCEPT !.state = s]]
      BY <2>3 DEF Transition
    <3>2. n > 0 /\ reqs[n].state \notin TerminalRequest
      BY <1>1, <2>3 DEF ProxyInv, StepInv, Undecided, Handling, TerminalRequest
    <3>. QED BY <2>2, <3>1, <3>2
  <2>4. CASE Next
    <3>1. CASE \E r \in Receipts : Recover(r)
      <4>1. UNCHANGED reqs \/ reqs' = [i \in DOMAIN reqs |-> Recovered(reqs[i])]
        BY <3>1 DEF Recover
      <4>2. \A i \in DOMAIN reqs : reqs[i].state \in TerminalRequest => Recovered(reqs[i]) = reqs[i]
        BY DEF Recovered, TerminalRequest
      <4>. QED BY <2>1, <4>1, <4>2
    <3>2. CASE BeginRequest
      BY <2>0, <3>2 DEF BeginRequest
    <3>3. CASE FinalizePreparedCompletion
      <4>1. reqs' = [reqs EXCEPT ![n] = [reqs[n] EXCEPT !.state = "COMPLETE"]] /\ reqs[n].state = "STREAMING"
        BY <3>3 DEF FinalizePreparedCompletion
      <4>. QED BY <2>2, <4>1 DEF TerminalRequest
    <3>4. ASSUME NEW k, ReserveBudget(k) PROVE Final
      <4>1. CASE Transition("FAILED")
        BY <2>3, <3>4, <4>1 DEF ReserveBudget, At, Undecided
      <4>2. CASE reqs' = [reqs EXCEPT ![n].reserved = k]
        <5>1. reqs' = [reqs EXCEPT ![n] = [reqs[n] EXCEPT !.reserved = k]]
          BY <4>2
        <5>2. n > 0 => [reqs[n] EXCEPT !.reserved = k].state = reqs[n].state
          BY <2>0 DEF Requests
        <5>. QED BY <2>2, <5>1, <5>2
      <4>. QED BY <3>4, <4>1, <4>2 DEF ReserveBudget
    <3>5. ASSUME NEW k, PrepareCompletion(k) PROVE Final
      <4>1. CASE Transition("FAILED")
        BY <2>3, <3>5, <4>1 DEF PrepareCompletion, At, Undecided
      <4>2. CASE reqs' = [reqs EXCEPT ![n].prepared = TRUE, ![n].tokens = k]
        <5>1. reqs' = [reqs EXCEPT ![n] = [reqs[n] EXCEPT !.prepared = TRUE, !.tokens = k]]
          BY <4>2
        <5>2. n > 0 => [reqs[n] EXCEPT !.prepared = TRUE, !.tokens = k].state = reqs[n].state
          BY <2>0 DEF Requests
        <5>. QED BY <2>2, <5>1, <5>2
      <4>. QED BY <3>5, <4>1, <4>2 DEF PrepareCompletion
    <3>6. CASE RecordSendEvidence
      <4>1. CASE opened.bound
        <5>. DEFINE e == IF opened.sent THEN "bytes" ELSE "zero"
        <5>1. reqs' = [reqs EXCEPT ![n] = [reqs[n] EXCEPT !.evidence = e]]
          BY <3>6, <4>1 DEF RecordSendEvidence
        <5>2. n > 0 => [reqs[n] EXCEPT !.evidence = e].state = reqs[n].state
          BY <2>0 DEF Requests
        <5>. QED BY <2>2, <5>1, <5>2
      <4>2. CASE ~opened.bound
        BY <2>3, <3>6, <4>2 DEF RecordSendEvidence, Settle, At, Undecided
      <4>. QED BY <4>1, <4>2
    <3>7. ASSUME NEW e, Receive(e) PROVE Final
      BY <2>3, <3>7 DEF Receive, At, Undecided
    <3>8. CASE UNCHANGED reqs \/ \E s : Transition(s) /\ pc \in Undecided
      BY <2>1, <2>3, <3>8
    <3>9. CASE Parse \/ Reject \/ StartUpstream \/ OpenFails \/ Interpret \/ EndOfStream \/ StreamFails
      BY <3>8, <3>9 DEF Parse, Reject, StartUpstream, OpenFails, Interpret, EndOfStream, StreamFails, Settle,
         rows, At, Undecided
    <3>10. CASE \/ Register \/ Activate \/ BindProcessIdentity \/ OpenWorker \/ HoldProxy \/ EmitCompletion
                \/ CloseWorker \/ WorkerSends \/ CompleteProxy \/ ProcessLost \/ Rest
                \/ \E a \in Answers : WorkerAnswers(a)
      BY <2>1, <3>10 DEF Register, Activate, BindProcessIdentity, OpenWorker, HoldProxy, EmitCompletion,
         CloseWorker, WorkerSends, CompleteProxy, ProcessLost, Rest, WorkerAnswers, rows, vars
    <3>. QED BY <2>4, <3>1, <3>2, <3>3, <3>4, <3>5, <3>6, <3>7, <3>9, <3>10 DEF Next, Handle
  <2>. QED BY <1>1, <2>1, <2>4
<1>. QED BY <1>1, ProxyInvariant, PTL DEF Spec, TerminalIsFinal

-----------------------------------------------------------------------------
(* The three side by side: a step of one leaves the rows of the others.     *)

LEMMA ExecutionKept ==
    ExecutionSpec => [](ProxyInv /\ BrokerInv /\ CollectorInv)
<1>1. ExecutionInit => ProxyInv /\ BrokerInv /\ CollectorInv
  BY InitProxy, InitBroker, InitCollector DEF ExecutionInit
<1>2. ProxyInv /\ BrokerInv /\ CollectorInv /\ [ExecutionNext]_allVars
        => ProxyInv' /\ BrokerInv' /\ CollectorInv'
  <2>1. [ExecutionNext]_allVars => [Next]_vars /\ [BrokerNext]_brokerVars /\ [ArtifactNext]_artifactVars
    BY DEF ExecutionNext, InProxy, InBroker, InArtifacts, allVars
  <2>. QED BY <2>1, NextProxy, NextBroker, NextCollector
<1>. QED BY <1>1, <1>2, PTL DEF ExecutionSpec

\* Proxy, broker and collector in any order: their rows keep their types, requests stay
\* accounted for, a brokered run stays whole, and no file is lost before its time.
THEOREM ExecutionIsSound == ExecutionSpec => [](AllTypesOK /\ RequestsAccounted /\ RunIsWhole /\ BytesKept)
<1>1. CollectorInv => ArtifactTypeOK /\ BytesKept
  BY DEF CollectorInv, LockInv, StepNames, Moving, Purging, ArtifactRowInv, ArtifactTypeOK
<1>2. ProxyInv => TypeOK
  BY DEF ProxyInv
<1>3. BrokerInv => BrokerTypeOK /\ RunIsWhole
  BY DEF BrokerInv
<1>4. ProxyInv /\ BrokerInv /\ CollectorInv => AllTypesOK /\ RunIsWhole /\ BytesKept
  BY <1>1, <1>2, <1>3 DEF AllTypesOK
<1>. QED BY <1>4, ProxyAccounts, ExecutionKept, PTL
=============================================================================
