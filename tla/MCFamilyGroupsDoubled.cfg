SPECIFICATION Spec
CONSTANTS
  Users = {u1, u2}
  GroupIds = {g1, g2}
  Codes = {c1, c2, c3}
  Requests = {r1, r2}
  Null = Null
  MaxRequests = 2
PROPERTIES OneGroupAtATime
CHECK_DEADLOCK FALSE
