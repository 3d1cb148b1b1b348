SPECIFICATION LFairSpec
CONSTANTS
  u1 = u1  u2 = u2  a1 = a1  a2 = a2
  Users = {u1}
  Groups = {}
  Assets = {a1, a2}
  TransferIds = {t1, t2}
  Requests = {r1, r2}
  Owner <- OneOwner
  Shared = {}
  Amounts = {2}
  Fees = {1}
  Balances = {5}
  Null = Null
  MaxRequests = 3
INVARIANTS TypeOK ExactUnlessRaced OnlyCrossedTransfersDeadlock
PROPERTIES OrphansAreFrozen RequestsEnd
CHECK_DEADLOCK FALSE
