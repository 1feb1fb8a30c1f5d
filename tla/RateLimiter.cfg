\* More callers than places in the table: the oldest subject is forgotten.
CONSTANTS
  Subjects = {a, b, c}
  MaxRequests = 2
  Window = 2
  MaxSubjects = 2
  MaxTime = 4
SPECIFICATION Spec
SYMMETRY SubjectSymmetry
INVARIANTS
  WindowBound
  OrderEnumeratesTable
PROPERTY VerdictsAreExact
