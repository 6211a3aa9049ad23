\* node_finished does to a running run what node_started does, and nothing else.
SPECIFICATION Spec
CONSTANTS
  Handlers = {h1, h2}
  Versions = {1}
  None = None
  ClientEvents = {"node_started", "approval_required", "run_success", "run_failed", "note"}
  MaxEvents = 5
  MaxPassports = 2
SYMMETRY Requests
INVARIANTS TypeOK ChainLinked PassportsSealLog OneDecision OneApprovedTransaction ReceiptIsBacked LogExplainsStatus
PROPERTIES ImplementsAuditedRun TerminalIsFinal
