\* Two profiles, recursion up to three scopes.
CONSTANTS
  Profile = {a, b}
  RunningTime = RunningTime
  MaxTime = 4
  MaxScopes = 3
SPECIFICATION Spec
INVARIANTS TypeOK NoAssertionFails RunningExact ProfileInv
PROPERTIES ImplementsClock
SYMMETRY Symmetry
