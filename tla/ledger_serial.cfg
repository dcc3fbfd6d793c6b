CONSTANTS
  Workers = {w1}
  Teachers = {t1, t2}
  Contracts = {c1, c2}
  Kinds = {"payment", "activate", "complete", "forceComplete", "cancel", "deactivate", "withdraw", "amend", "assign", "edit"}
  Fees = {5, 10}
  Shares = {5}
  Draws = {4}
  MaxTxns = 5
  NoWorker = NoWorker
  NoContract = NoContract
  NoTeacher = NoTeacher
  w1 = w1
  w2 = w2
  c1 = c1
  c2 = c2
  t1 = t1
  t2 = t2
SPECIFICATION Spec
SYMMETRY Symmetry
INVARIANT WalletMatchesLedger CancelledHoldsNothing
PROPERTY TerminalIsFinal SettlementReleasesHoldback ImplementsAtomicLedger
\* A behaviour ends once MaxTxns requests are done.
CHECK_DEADLOCK FALSE
