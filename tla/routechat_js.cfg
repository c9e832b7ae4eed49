SPECIFICATION Spec
CONSTANTS
  Clients <- MCClients
  Locations = {"p", "q"}
  Scripts <- MCScripts
  ServerLangs = {"js"}
  Window = 1
  Workers = 1
  MaxUnreliable = 1
INVARIANTS
  OthersAreReceived
CHECK_DEADLOCK FALSE
