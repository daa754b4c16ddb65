SPECIFICATION FairSpec
CONSTANTS
  r1 = r1  r2 = r2  j1 = j1  a1 = a1  t1 = t1
  alice = alice  bob = bob  coop = coop  n1 = n1  h1 = h1  h2 = h2  loop = loop  op = op
  NoReceipt = NoReceipt  NoBudget = NoBudget
  Receipts <- MCOneReceipt
  Deps <- MCDeps
  Dids <- MCDids
  Nonces <- MCNonces
  Treasury = coop
  Body <- MCBody
  JobAuth <- MCJobAuth
  Owner <- MCOwner
  Terms <- MCSingleJob
  Policy <- MCPolicy
  Handlers = {h1}
  Reconcilers = {loop}
  Operators = {}
  MaxRetries = 1
  BatchSize = 2
  MaxFaults = 0
  MaxCrashes = 1
PROPERTY ReceiptEventuallyPaid
