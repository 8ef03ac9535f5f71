CONSTANTS
  a1 = a1
  a2 = a2
  c1 = c1
  c2 = c2
  s1 = s1
  NoAgent = NoAgent
  Agents <- OneAgent
  Clients <- OneClient
  Serials <- OneSerial
  SerialOf <- SameSerial
  MaxChunks = 1
SPECIFICATION Spec
INVARIANTS
  StreamIsTheAdapters
CHECK_DEADLOCK FALSE
