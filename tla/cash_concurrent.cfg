CONSTANTS
  Workers = {w1, w2}
  Refunds = {r1, r2}
  Kinds = {"payment", "expense", "refund", "close", "requestUnlock", "approve", "reject"}
  MaxTxns = 5
  NoWorker = NoWorker
  NoRefund = NoRefund
  w1 = w1
  w2 = w2
  r1 = r1
  r2 = r2
SPECIFICATION Spec
INVARIANT NumbersHaveNoGap ReceiptsNeverCollide ClaimsMatchRefunds
PROPERTY ReopensOnRequest EveryRequestEnds
\* A behaviour ends once MaxTxns requests are done.
CHECK_DEADLOCK FALSE
