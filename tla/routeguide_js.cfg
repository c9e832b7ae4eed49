SPECIFICATION Spec
CONSTANTS
  Points <- MCPoints
  Features <- MCFeatures
  Distance <- MCDistance
  Clients <- JsClients
  Servers <- JsServers
  Skip = {}
  RandomPoints <- MCRandomPoints
  Nearby = 1
  RunByHand = {}
  MaxClock = 80
INVARIANTS
  AreaIsListed
CHECK_DEADLOCK FALSE
