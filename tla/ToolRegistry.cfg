\* Three requests race over three identifiers and two names.  Requests are made
\* once: when all are answered the system stops.
CONSTANTS
  Requests = {r1, r2, r3}
  Keys = {k1, k2, k3}
  Names = {n1, n2}
  None = None
SPECIFICATION Spec
SYMMETRY Same
INVARIANTS TypeOK OwnersAgree ConfidentAnswersAreSnapshots AnswersStand
CHECK_DEADLOCK FALSE
