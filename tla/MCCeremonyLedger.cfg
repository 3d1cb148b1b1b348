SPECIFICATION Spec
CONSTANTS
  u1 = u1  u2 = u2  g = g  n = n
  Users = {u1, u2}
  GroupOf <- OneFamily
  Names = {n}
  Creates <- TwoCreates
  Edits <- ThreeEdits
  Requests = {r1, r2}
  Null = Null
  MaxRequests = 4
SYMMETRY Symmetry
INVARIANTS TypeOK PeopleAddUp TwinsOnlyByRace OnlyEditsMeetDeletes NetAmounts
PROPERTIES TwinsAreFrozen EventsFollowTransactions
CHECK_DEADLOCK FALSE
