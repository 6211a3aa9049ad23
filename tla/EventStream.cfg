\* Two requests and two clients, a channel that keeps two messages, one fault.  No
\* symmetry, for the liveness property.
CONSTANTS
  Handlers = {h1, h2}
  Clients = {c1, c2}
  Capacity = 2
  MaxEvents = 4
  MaxFaults = 1
SPECIFICATION FairSpec
INVARIANTS TypeOK ListAndStreamAreComplete GapsAreTold
PROPERTY EventuallyTold
CHECK_DEADLOCK FALSE
