SPECIFICATION Spec
CONSTANTS
  Handlers = {h1, h2, h3}
  Ids = {u1, u2, u3}
  None = None
  MaxFaults = 2
SYMMETRY Names
INVARIANTS TypeOK RowsHaveFiles ManifestIsBacked OrphansAreFaults FreezeFindsSnapshots
