CONSTANTS
  Workers = {w1}
  Teachers = {t1, t2}
  Contracts = {c1}
  Kinds = {"payment", "assign", "activate", "cancel"}
  Fees = {5}
  Shares = {5}
  Draws = {4}
  MaxTxns = 4
  NoWorker = NoWorker
  NoContract = NoContract
  NoTeacher = NoTeacher
  w1 = w1
  w2 = w2
  c1 = c1
  c2 = c2
  t1 = t1
  t2 = t2
SPECIFICATION Spec
SYMMETRY Symmetry
INVARIANT CancellationReversesEveryEntry
\* A behaviour ends once MaxTxns requests are done.
CHECK_DEADLOCK FALSE
