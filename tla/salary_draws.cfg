CONSTANTS
  Workers = {w1, w2}
  LastDay = 2
  Ceiling = 2
  Pages = {"payroll", "expenses"}
  MaxTxns = 4
  NoWorker = NoWorker
  w1 = w1
  w2 = w2
SPECIFICATION Spec
INVARIANT VouchersCoverDraws
PROPERTY DrawKeepsCeiling EveryRequestEnds
\* A behaviour ends once MaxTxns requests are done.
CHECK_DEADLOCK FALSE
