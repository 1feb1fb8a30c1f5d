\* Two commands of any kind, a shutdown of the system, failures and kills; the
\* threads of the service and the commands are fair.
CONSTANTS
  Commands = {k1, k2}
  MaxStarts = 2
  System = System
  None = None
SPECIFICATION Spec
INVARIANT CallbackKeepsContext
PROPERTIES
  LifeIsOrderly
  ShutdownEnds
  EveryCommandReturns
CHECK_DEADLOCK FALSE
