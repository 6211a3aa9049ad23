SPECIFICATION Spec
CONSTANTS
  Handlers = {h1, h2}
  Versions = {1}
  None = None
  ClientEvents = {"node_started", "approval_required", "run_failed"}
  MaxEvents = 6
  MaxPassports = 2
SYMMETRY Requests
PROPERTY ApprovalBindsLatest
