SPECIFICATION Spec
CONSTANTS
  Subs = {s1}
  Names = {n1}
  Plans <- EarlyFridays
  Targets <- NoDates
  Batches = {b1}
  FirstDay <- Feb27
  LastOrdinal <- Mar7Ordinal
  MaxBatches = 2
  MaxEdits = 1
  Null = Null
PROPERTIES EveryPaymentAnnounced
CHECK_DEADLOCK FALSE
