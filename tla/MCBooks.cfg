SPECIFICATION Spec
CONSTANTS
  Schedules <- MCSchedules
  Settings <- MCSettings
  Price = 100
  From <- FirstDay
  To <- LastWalked
  Holders = {v1, v2}
  Days = {31}
  Dates <- MCDates
  Amounts <- MCAmounts
  Discounts = {1, 3}
  Filings <- MCFilings
  CardIds = {j1, j2}
  Users = {u1, u2, u3}
  Kinds <- MCKinds
  Plans <- MCPlans
  Ratios <- MCRatios
  Ids = {i1, i2, i3}
  Tables = {messages, sessions}
  Prepared <- MCPrepared
  Ahead = 2
  First <- Installed
  ChatMonths <- MCMonths
  Null = Null
  u1 = u1
  u2 = u2
  u3 = u3
  i1 = i1
  i2 = i2
  i3 = i3
INVARIANTS DatesAgree CyclesTile BillsAddUp ViewsAgree SettlementBalances PartitionsKeepUp
SYMMETRY Symmetry
CHECK_DEADLOCK FALSE
