\* A CLI run beside another program of the same administrator that sends any
\* request it likes, malformed ones included, while PIDs are reused and the
\* limiter grants one termination per window.
CONSTANTS
  weak = weak
  alice = alice
  bob = bob
  CliRuns = {c1}
  RawClients = {c2}
  Pids = {10, 4}
  Protected = {4}
  Sids = {alice, bob}
  SystemSid = system
  Token <- Tokens
  AuditCapacity = 2
  MaxRequestId = 4
  MaxBirths = 2
  MaxRequests = 1
  Window = 1
  MaxSubjects = 2
  MaxTime = 1
  NoProcess = NoProcess
  Idle = Idle
  None = None
SPECIFICATION Spec
INVARIANTS
  InspectionIsOfOneProcess
  AuditIsTrue
  AnswersAreTrue
  KillsKeepTheWindow
PROPERTY OnlyTheNamedProcessEnds
CHECK_DEADLOCK FALSE
