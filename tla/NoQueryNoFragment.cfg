\* One property, which the code does not have.
CONSTANTS
  Runs = {r1}
  Sepolia = sepolia
  Chains = {sepolia}
  Addresses = {a1}
  None = None
  MaxRestarts = 0
  Kinds = {"one"}
  MaxEvents = 1
  Evidence = {}
  Versions = {}
  ProfileChecks <- SomeChecks
  MaxPassports = 0
  EvidenceLists = {}
  ClaimLists = {}
  FindingLists = {}
  PassportRequests = {}
  Hosts <- SomeHosts
  Ports = {"", ":", ":443", ":+443", ":443?", ":8080"}
  Segments <- SomeSegments
  MaxPath = 3
  Profiles = {}
  Approved = {}
SPECIFICATION SpecPart
INVARIANT NoQueryNoFragment
CHECK_DEADLOCK FALSE
