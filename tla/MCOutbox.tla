------------------------------ MODULE MCOutbox ------------------------------
(* Three instances of Outbox, one per behaviour: two publishers that race for *)
(* a terminal row; one publisher of a terminal row that keeps being invoked,  *)
(* with the issue edited and a run lost; and two publishers of an ordinary    *)
(* row.  They share the variables; `which` says whose behaviour it is.        *)
EXTENDS Outbox

CONSTANTS p1, p2

VARIABLE which

Lone == INSTANCE Outbox
          WITH Publishers <- {p1}, ReadbackAttempts <- 2, MaxEdits <- 1, MaxAborts <- 1
Ordinary == INSTANCE Outbox
          WITH Terminal <- FALSE, MaxRetryRounds <- 0, MaxEdits <- 1, MaxAlters <- 1,
               MaxAborts <- 2

allVars == <<vars, which>>

OutboxInit ==
    \/ which = "race" /\ Init
    \/ which = "lone" /\ Lone!Init
    \/ which = "ordinary" /\ Ordinary!Init

In(part) == which = part /\ UNCHANGED which

OutboxNext ==
    \/ In("race") /\ Next
    \/ In("lone") /\ Lone!Next
    \/ In("ordinary") /\ Ordinary!Next

\* The publisher is invoked again while the row is open, a run in progress goes
\* on, and the clock passes next_retry_at.
OutboxSpec ==
    /\ OutboxInit /\ [][OutboxNext]_allVars
    /\ WF_allVars(In("lone") /\ Lone!Step(p1))
    /\ WF_allVars(In("lone") /\ Lone!Tick)

\* The rows, locals and comments of all three instances have their types.
AllTypesOK ==
    /\ which = "race" => TypeOK
    /\ which = "lone" => Lone!TypeOK
    /\ which = "ordinary" => Ordinary!TypeOK

\* Once the comment list shows exactly one marker of the bound publisher,
\* publish() eventually records the terminal row as published.
LoneMarkerIsRecorded == which = "lone" => MarkerIsRecorded
=============================================================================
