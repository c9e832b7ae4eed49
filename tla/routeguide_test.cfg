SPECIFICATION FairSpec
CONSTANTS
  Points <- MCPoints
  Features <- MCFeatures
  Distance <- MCDistance
  Clients <- MCClients
  Servers <- MCServers
  Skip = {}
  RandomPoints <- MCRandomPoints
  Nearby = 1
  RunByHand <- MCRunByHand
  MaxClock = 80
INVARIANTS
  TestTypeOK
  PassMeansAnswered
  OwnServerAnswers
  AnswersFit
PROPERTIES
  HealthyPasses
CHECK_DEADLOCK FALSE
