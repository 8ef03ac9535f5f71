CONSTANTS
  c1 = c1
  c2 = c2
  Clients <- TwoClients
  MaxBytes = 4
SPECIFICATION Spec
INVARIANTS
  AloneIsWhole
PROPERTIES
  PortReleased
  ClientsCutOff
CHECK_DEADLOCK FALSE
