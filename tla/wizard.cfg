CONSTANTS
  old = old
  new = new
  c1 = c1
  None = None
  Students = {old, new}
  Registered = {old}
  Sections = {c1}
  MaxVisits = 2
SPECIFICATION Spec
INVARIANT CompletionIsReal TakenIsOfStudent ProgressIsGuarded
PROPERTY EverySubmissionEnds
\* A behaviour ends once the page is left for the last time.
CHECK_DEADLOCK FALSE
