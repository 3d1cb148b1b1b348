SPECIFICATION Spec
CONSTANTS
  u1 = u1  u2 = u2  g = g  n = n
  Users = {u1, u2}
  GroupOf <- OneFamily
  Names = {n}
  Creates <- TwoCreates
  Edits <- ThreeEdits
  Requests = {r1}
  Null = Null
  MaxRequests = 3
INVARIANTS TotalsMatchEvents
CHECK_DEADLOCK FALSE
