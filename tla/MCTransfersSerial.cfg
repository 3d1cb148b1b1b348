SPECIFICATION LSpec
CONSTANTS
  u1 = u1  u2 = u2  a1 = a1  a2 = a2
  Users = {u1, u2}
  Groups = {g}
  Assets = {a1, a2}
  TransferIds = {t1, t2}
  Requests = {r1}
  Owner <- TwoOwners
  Shared = {a2}
  Amounts = {2, 3}
  Fees = {0, 1}
  Balances = {5}
  Null = Null
  MaxRequests = 3
INVARIANTS FamilyTransfersAreTagged
PROPERTIES ImplementsAtomicLedger
CHECK_DEADLOCK FALSE
