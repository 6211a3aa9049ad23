SPECIFICATION Spec
CONSTANTS
  Processes = {p1, p2}
  None = None
  MaxRounds = 1
  MaxSources = 1
  Pages = 1
  MaxFailures = 0
  MaxRestarts = 1
SYMMETRY Slots
INVARIANTS TypeOK ApprovalNeedsPassport FrozenBoardMatches OneInvestigation
