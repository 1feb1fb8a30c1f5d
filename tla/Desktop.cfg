\* The windows of three owners on two handles under the preview, or three
\* processes on two PIDs under the monitor.
CONSTANTS
  Handles = {h1, h2}
  Windows = {1, 2, 3}
  KindOf <- WindowKinds
  StallAfter = 2
  MaxQueue = 1
  Nothing = Nothing
  Pids = {1, 2}
  MaxProcesses = 3
SPECIFICATION DesktopSpec
INVARIANTS
  ListIsOfOneEnumeration
  OwnWindowsAreLeftAlone
  ChangesAddUp
PROPERTY StuckFeedIsReported
CHECK_DEADLOCK FALSE
