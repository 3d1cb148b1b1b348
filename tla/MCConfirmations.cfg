SPECIFICATION Spec
CONSTANTS
  Users = {u1}
  Requests = {r1, r2, r3}
  Null = Null
  MaxRequests = 4
INVARIANTS TypeOK ConfirmedOnceUnlessRaced RowsNameTheirOwn OrphansOnlyByLateAnswers
PROPERTIES RequestsEnd
CHECK_DEADLOCK FALSE
