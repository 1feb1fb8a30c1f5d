\* CLI exchanges beside a program that writes and reads what it likes; the
\* service thread and the CLI runs are fair.
CONSTANTS
  CliClients = {c1}
  RawClients = {r1}
  LargeResponses = TRUE
  MaxQueued = 2
  None = None
SPECIFICATION Spec
INVARIANTS
  OneExchangePerConnection
  NoResponseIsDiscarded
PROPERTIES
  CallsHappenAtMostOnce
  StopAlwaysWorks
  EveryCallReturns
  NobodyKeepsThePipe
CHECK_DEADLOCK FALSE
