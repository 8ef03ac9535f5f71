CONSTANTS
  a1 = a1
  a2 = a2
  c1 = c1
  c2 = c2
  s1 = s1
  NoAgent = NoAgent
  NoClient = NoClient
  Agents <- TwoAgents
  Clients <- TwoClients
  Serials <- OneSerial
  SerialOf <- SameSerial
  MaxFailures = 1
  MaxChunks = 1
SPECIFICATION RemoteFairSpec
INVARIANTS
  RemoteTypeOK
  OkBeforeStream
  TablesTrue
  OneClientAtATime
PROPERTIES
  ClientAnswered
  SessionClosed
  DeviceHasAdapter
  PortReleased
CHECK_DEADLOCK FALSE
