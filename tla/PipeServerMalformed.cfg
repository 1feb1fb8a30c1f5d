\* A message that arrives while the read for it is pending.
CONSTANTS
  CliClients = {c1}
  RawClients = {r1}
  LargeResponses = FALSE
  MaxQueued = 1
  None = None
SPECIFICATION Spec
INVARIANT MalformedIsNotFatal
CHECK_DEADLOCK FALSE
