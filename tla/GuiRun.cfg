\* Two runs at once, each of which may die or meet an error at any file
\* operation, over files an earlier version may have left unreadable.
CONSTANTS
  Runs = {r1, r2}
  LogCapacity = 3
  Damageable = {"log", "session"}
  Settings <- MCSettings
  Default <- MCDefault
  MinWidth = 320
  MinHeight = 240
  Absent = Absent
  Damaged = Damaged
  Free = Free
  Nothing = Nothing
SPECIFICATION RunSpec
INVARIANTS
  NoSessionForgotten
  LogIsNewestHistory
  WindowNeedsRecoveryChain
  SnapshotEventIsTrue
  SettingsSurviveCleanRuns
PROPERTIES
  SupersededRunsAreHarmless
  EveryStartEnds
  ExitTriesEverything
CHECK_DEADLOCK FALSE
