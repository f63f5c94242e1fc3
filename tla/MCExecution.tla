---------------------------- MODULE MCExecution ----------------------------
(* What surrounds the attempts of executors: the responses proxy, the       *)
(* broker, and the collector of the files they leave.  They share no row,   *)
(* so a behaviour is a behaviour of one of them.                            *)
EXTENDS Proxy, Broker, Artifacts

VARIABLE which

allVars == <<vars, brokerVars, artifactVars, which>>

ExecutionInit ==
    /\ Init /\ BrokerInit /\ ArtifactInit
    /\ which \in {"proxy", "broker", "artifacts"}
    /\ kept => which = "artifacts"

InProxy == which = "proxy" /\ UNCHANGED <<brokerVars, artifactVars, which>>
InBroker == which = "broker" /\ UNCHANGED <<vars, artifactVars, which>>
InArtifacts == which = "artifacts" /\ UNCHANGED <<vars, brokerVars, which>>

ExecutionNext == \/ InProxy /\ Next
                 \/ InBroker /\ BrokerNext
                 \/ InArtifacts /\ ArtifactNext

ExecutionSpec ==
    /\ ExecutionInit /\ [][ExecutionNext]_allVars
    /\ WF_allVars(InProxy /\ (Progress))
    /\ WF_allVars(InProxy /\ (\E r \in Receipts : Recover(r)))
    /\ WF_allVars(InBroker /\ UnitEnds)
    /\ WF_allVars(InBroker /\ RecoveryStep)
    /\ WF_allVars(InBroker /\ PickupStep)
    /\ WF_allVars(InArtifacts /\ CollectorRuns)

\* The rows of the proxy, the broker and the collector hold the states their tables
\* allow, and only the holder of artifact-gc.lock collects.
AllTypesOK == TypeOK /\ BrokerTypeOK /\ ArtifactTypeOK

\* What was begun ends, and for good: a request of the proxy, a run of the broker, the
\* pickup of its receipt and the collection of an artifact.
ExecutionSettles ==
    /\ RequestsSettle
    /\ RunSettles /\ PickupSettles /\ DisposedStaysClosed
    /\ FenceIsLifted
============================================================================
