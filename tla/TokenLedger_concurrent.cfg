SPECIFICATION Spec
CONSTANTS
  alice = alice
  bob = bob
  coop = coop
  r1 = r1
  r2 = r2
  Dids = {alice, bob, coop}
  Treasury = coop
  Receipts = {r1, r2}
  Terms <- MCTwoJobs
  Policy <- MCPolicy
  Enforced = TRUE
  Concurrent = TRUE
  MaxMonth = 2
INVARIANT AdmittedJobsCovered
CHECK_DEADLOCK FALSE
