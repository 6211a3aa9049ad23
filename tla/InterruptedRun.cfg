SPECIFICATION RelaunchSpec
CONSTANTS
  Processes = {p1}
  None = None
  MaxRounds = 1
  MaxSources = 1
  Pages = 1
  MaxFailures = 1
  MaxRestarts = 0
PROPERTY InterruptedRunCompletes
