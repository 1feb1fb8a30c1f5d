\* A program without an elevated token asks for any process, those of its own
\* user included, beside an administrator's CLI run.  There are ids for two
\* requests, and the audit has room for one event.  The service is fair.
CONSTANTS
  weak = weak
  alice = alice
  bob = bob
  CliRuns = {c1}
  RawClients = {weak}
  Pids = {10, 4}
  Protected = {4}
  Sids = {alice, bob}
  SystemSid = system
  Token <- Tokens
  AuditCapacity = 1
  MaxRequestId = 3
  MaxBirths = 2
  MaxRequests = 1
  Window = 1
  MaxSubjects = 2
  MaxTime = 0
  NoProcess = NoProcess
  Idle = Idle
  None = None
SPECIFICATION Spec
INVARIANT AuditHasEveryRequestOnce
PROPERTIES
  OnlyTheNamedProcessEnds
  EveryRequestEnds
CHECK_DEADLOCK FALSE
