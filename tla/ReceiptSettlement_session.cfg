SPECIFICATION Spec
CONSTANTS
  r1 = r1  r2 = r2  j1 = j1  a1 = a1  t1 = t1
  alice = alice  bob = bob  coop = coop  n1 = n1  h1 = h1  h2 = h2  loop = loop  op = op
  NoReceipt = NoReceipt  NoBudget = NoBudget
  Receipts <- MCReceipts
  Deps <- MCDeps
  Dids <- MCDids
  Nonces <- MCNonces
  Treasury = coop
  Body <- MCUneven
  JobAuth <- MCJobAuth
  Owner <- MCOwner
  Terms <- MCSession
  Policy <- MCSmallGrant
  Handlers = {h1}
  Reconcilers = {}
  Operators = {op}
  MaxRetries = 1
  BatchSize = 2
  MaxFaults = 1
  MaxCrashes = 0
INVARIANTS TypeOK SessionBudgetKept MovedOnlySettled
