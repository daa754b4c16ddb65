SPECIFICATION Spec
CONSTANTS
  alice = alice
  bob = bob
  coop = coop
  r1 = r1
  r2 = r2
  Dids = {alice, bob, coop}
  Treasury = coop
  Receipts = {r1, r2}
  Terms <- MCTerms
  Policy <- MCPolicy
  Enforced = TRUE
  Concurrent = FALSE
  MaxMonth = 2
INVARIANT TypeOK
INVARIANT BalancesMatchLog
INVARIANT SystemTotal
INVARIANT PayoutWithinShare
INVARIANT EventsHaveRows
INVARIANT PeriodPaidOnce
INVARIANT AdmittedJobsCovered
PROPERTY TokensTakenOnce
CHECK_DEADLOCK FALSE
