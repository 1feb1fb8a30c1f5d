\* A control that reaches the process while its service ends by itself.
CONSTANTS
  Commands = {k1, k2}
  MaxStarts = 1
  System = System
  None = None
SPECIFICATION Spec
INVARIANT ContextOutlivesCallback
CHECK_DEADLOCK FALSE
