\* Three runs that share two PIDs with each other and with other programs.
CONSTANTS
  Runs = {r1, r2, r3}
  Pids = {p1, p2}
  Legacy = Legacy
  LegacyPid = p1
  Other = Other
  None = None
SPECIFICATION Spec
SYMMETRY RunSymmetry
INVARIANTS
  LiveMarkerKept
  CrashIsNoticed
  StaleMarkersAreRemoved
CHECK_DEADLOCK FALSE
