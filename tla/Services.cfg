\* Two runs, Sepolia and another chain, two addresses, one restart in between;
\* two versions of a board and two passports; two old or new runs of four events;
\* paths of up to three segments; MC_Services has the other inputs.  Requests, events
\* and versions are bounded: the parts stop.
CONSTANTS
  Runs = {r1, r2}
  Sepolia = sepolia
  Chains = {sepolia, other}
  Addresses = {a1, a2}
  None = None
  MaxRestarts = 1
  Kinds = {"one", "two"}
  MaxEvents = 4
  Evidence = {1, 2}
  Versions = {1, 2}
  ProfileChecks <- SomeChecks
  MaxPassports = 2
  EvidenceLists <- SomeEvidence
  ClaimLists <- SomeClaims
  FindingLists <- SomeFindings
  PassportRequests <- SomePassports
  Hosts <- SomeHosts
  Ports = {"", ":", ":443", ":+443", ":443?", ":8080"}
  Segments <- SomeSegments
  MaxPath = 3
  Profiles <- EveryProfile
  Approved <- Excluded
SPECIFICATION SpecPart
INVARIANTS EveryTypeOK RecordsAreOfOneBoard OnlyKeptOrderMatters MigratedChainsHold ScoresAreSound SentAsApproved ReceiptsHold RecordedOnce NormalFormsAgree
PROPERTIES BetterNeverHurts OneIdentityPerPlace
CHECK_DEADLOCK FALSE
