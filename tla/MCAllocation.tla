--------------------------- MODULE MCAllocation ---------------------------
(* Three instances of Allocation, one per behaviour: the items of an         *)
(* ordinary repository, two leases and a policy for one of them or for both; *)
(* items and hosted operations that compete for the SRE pool; and the        *)
(* harness repository with its exclusive writer.  They share the variables;  *)
(* `which` says whose behaviour it is.                                       *)
EXTENDS Allocation, TLC

CONSTANTS i1, i2, l1, l2, l3, o1, o2

VARIABLE which

ThreePools == {"development", "shared", "sre"}
Only(pool, n) == [p \in ThreePools |-> IF p = pool THEN n ELSE 0]
Blockers == o1 :> i1 @@ o2 :> i2
AnyDemand == {Only(p, 1) : p \in ThreePools}
AnyPolicy == {Only(p, n) : p \in ThreePools, n \in 1..2}

Items == INSTANCE Allocation
    WITH Demands <- {Only("development", 1)},
         Policies <- {Only("development", n) : n \in 1..2}, Leases <- {l1, l2}
Shared == INSTANCE Allocation
    WITH Demands <- {Only("sre", 1)}, Policies <- {Only("sre", n) : n \in 1..2},
         Leases <- {l3}, Planned <- {"PREPARED"}
Writer == INSTANCE Allocation
    WITH Demands <- {Only("shared", 1)}, Policies <- {Only("shared", 2)},
         Leases <- {l1, l2}, Harness <- TRUE

\* The issues may be swapped together with the operations that wait for them.
Symmetry == Permutations({l1, l2})
            \cup {i1 :> i2 @@ i2 :> i1 @@ o1 :> o2 @@ o2 :> o1}

allVars == <<vars, which>>

AllocationInit ==
    \/ which = "items" /\ Items!Init
    \/ which = "hosted" /\ Shared!Init
    \/ which = "harness" /\ Writer!Init

In(part) == which = part /\ UNCHANGED which

AllocationNext ==
    \/ In("items") /\ ((\E i \in Issues : Items!ItemStep(i)) \/ Items!SetCapacityPolicy)
    \/ In("hosted") /\ Shared!Next
    \/ In("harness") /\ \E i \in Issues : Writer!ItemStep(i)

AllocationSpec == AllocationInit /\ [][AllocationNext]_allVars

\* The harness repository has one writer, retained work included: the mutex of
\* _set_issue_status_locked looks at every reservation of the repository.
HarnessHasOneWriter == which = "harness" => Writer!OneHarnessWriter
=============================================================================
