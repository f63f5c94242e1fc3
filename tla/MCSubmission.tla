---------------------------- MODULE MCSubmission ----------------------------
(* Three instances of Submission, one per behaviour: the launches of one      *)
(* delivery lineage, its admission and then its watch, tried again and with a  *)
(* heartbeat; the same, tried once, with a pass that dies; and the launches of *)
(* a notice until its budget is used, by a supervisor that keeps running and   *)
(* dies once.  They share the variables; `which` says whose behaviour it is.   *)
EXTENDS Submission

VARIABLE which

Delivery == INSTANCE Submission WITH Notices <- {}, MaxIntents <- 2, MaxCrashes <- 0
Crashing == INSTANCE Submission
              WITH Notices <- {}, MaxIntents <- 2, MaxAttempts <- 1, MaxBeats <- 0
Notify == INSTANCE Submission WITH Lineages <- {}, Claimed <- {}, MaxBeats <- 0

allVars == <<vars, which>>

SubmissionInit ==
    \/ which = "delivery" /\ Delivery!Init
    \/ which = "crash" /\ Crashing!Init
    \/ which = "notice" /\ Notify!Init

In(part) == which = part /\ UNCHANGED which

SubmissionNext ==
    \/ In("delivery") /\ Delivery!Next
    \/ In("crash") /\ Crashing!Next
    \/ In("notice") /\ Notify!Next

\* The fairness of LiveSpec, for the notice.
SubmissionSpec ==
    /\ SubmissionInit /\ [][SubmissionNext]_allVars
    /\ WF_allVars(In("notice") /\ Notify!Supervisor)
    /\ SF_allVars(In("notice") /\ Notify!Reserve)
    /\ SF_allVars(In("notice") /\ Notify!Tick)
    /\ SF_allVars(In("notice") /\ \E i \in Ids : Notify!Recovers(i))

\* Rows, ledger, attempts and the state of the pass have their types in all three.
AllTypesOK ==
    /\ which = "delivery" => Delivery!TypeOK
    /\ which = "crash" => Crashing!TypeOK
    /\ which = "notice" => Notify!TypeOK

\* The notice comes to rest: run_once accepts, rejects or expires every launch it
\* submitted, and the notice does not wait in silence: an executor comes up for it,
\* it is claimed or answered, or its wake is held for somebody to look at.
NoticeSettles ==
    []<>(which = "notice" =>
            With("submitted") = {} /\ \A n \in Notices : ~Waiting(n))
=============================================================================
