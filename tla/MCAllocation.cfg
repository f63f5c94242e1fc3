CONSTANTS
  i1 = i1
  i2 = i2
  l1 = l1
  l2 = l2
  l3 = l3
  o1 = o1
  o2 = o2
  Issues = {i1, i2}
  Pools <- ThreePools
  Sre = "sre"
  Demands <- AnyDemand
  Policies <- AnyPolicy
  Leases = {l1, l2, l3}
  NoLease = none
  Harness = FALSE
  Ops = {o1, o2}
  Blocker <- Blockers
  Planned = {"PREPARED", "ACTIVE", "HOLD"}
  MaxGen = 1
SPECIFICATION AllocationSpec
SYMMETRY Symmetry
INVARIANTS TypeOK WithinCapacity LeaseExclusive WatchesFollowWork HarnessHasOneWriter
PROPERTIES LifecycleKept
CHECK_DEADLOCK FALSE
