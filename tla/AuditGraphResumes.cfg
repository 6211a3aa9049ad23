\* Two processes, one after the other, killed up to twice.  No symmetry, for the
\* liveness property.
SPECIFICATION LiveSpec
CONSTANTS
  Processes = {p1, p2}
  None = None
  MaxRounds = 2
  MaxSources = 3
  Pages = 2
  MaxFailures = 2
  MaxRestarts = 0
INVARIANT BudgetRespected
PROPERTIES CheckpointKeepsWork InvestigationEnds
