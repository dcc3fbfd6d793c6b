CONSTANTS
  Workers = {w1, w2}
  Students = {s1}
  MaxRows = 2
  Capacity = 2
  Price = 2
  Kinds = {"enroll", "enrollPaying", "pay", "unenroll", "delete", "cancel", "cancelRefunding"}
  MaxTxns = 4
  NoWorker = NoWorker
  NoRow = NoRow
  w1 = w1
  w2 = w2
  s1 = s1
  s2 = s2
SPECIFICATION Spec
INVARIANT PaidWithinPrice NoDuplicateSeat
PROPERTY EveryRequestEnds SerialCountMatchesActive SerialCancellationRefundsAll
\* A behaviour ends once MaxTxns requests are done.
CHECK_DEADLOCK FALSE
