\* A start that removes the marker of a crash and fails before its own.
CONSTANTS
  Runs = {r1, r2}
  Pids = {p1, p2}
  Legacy = Legacy
  LegacyPid = p1
  Other = Other
  None = None
SPECIFICATION Spec
SYMMETRY RunSymmetry
INVARIANT CrashIsShown
CHECK_DEADLOCK FALSE
