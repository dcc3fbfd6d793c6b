CONSTANTS
  Rules   <- AllRules
  MaxBusy = 2

SPECIFICATION Spec

INVARIANTS
  NothingIsStuck
  NoFalseEmpty
  WritesAreSeen
  OncePerPress
  NothingForbiddenIsOffered

\* A page that is left, or shows everything, is at rest.
CHECK_DEADLOCK FALSE
