SPECIFICATION PartSpec
CONSTANTS
  Addresses = {a1}
  Passwords = {p1, p2}
  Requests = {r1, r2, r3}
  MaxAttempts = 1
  MaxRequests = 4
  Clients = {u1}
  Limit = 2
  Window = 3
  MaxTime = 8
  Amounts = {0, 1, 2}
  Edits <- MCEdits
  Users = {u1, u2}
  Registered = {u1}
  Groups = {g1}
  Sections = {s1}
  Places = {1}
  ListRequests = {q1, q2}
  MaxListRequests = 3
  Null = Null
  a1 = a1
  p1 = p1
  p2 = p2
  r1 = r1
  r2 = r2
  r3 = r3
  q1 = q1
  q2 = q2
  u1 = u1
  u2 = u2
  g1 = g1
  s1 = s1
INVARIANTS TypesOK ServerErrorsExplained VerifiedByNewestCode CredentialsInForce LimitHolds CompletedWhenReached ListsInOrder
SYMMETRY Symmetry
CHECK_DEADLOCK FALSE
