SPECIFICATION FairSpec
CONSTANTS
  Clients <- MCClients
  Locations = {"p", "q"}
  Scripts <- MCScripts
  ServerLangs = {"cpp", "csharp", "go", "java", "js", "python", "scala"}
  Window = 1
  Workers = 1
  MaxUnreliable = 1
INVARIANTS
  ChatTypeOK
  PreviousAreReturned
  NoNoteIsLost
  OneOfTwoHears
PROPERTIES
  ChatsEnd
CHECK_DEADLOCK FALSE
