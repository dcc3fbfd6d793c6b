CONSTANTS
  t1 = t1
  t2 = t2
  pay = pay
  list = list
  Tabs = {t1, t2}
  Requests = {pay, list}
  Mutations = {pay}
  MaxRetries = 1
SPECIFICATION Spec
INVARIANT NoOneWaitsForNothing
PROPERTY OnlyAuthErrorsLeave ImplementsExchange EveryCallEnds
\* A behaviour ends once every call has ended.
CHECK_DEADLOCK FALSE
