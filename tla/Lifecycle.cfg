SPECIFICATION Spec
CONSTANTS
  u1 = u1
  u2 = u2
  Malformed = Malformed
  NotAnIp = NotAnIp
  User <- Users
  Port = {1, 2}
  Configs <- Everything
  MaxInits = 2
  MaxFaults = 2
CHECK_DEADLOCK FALSE
INVARIANTS TypeOK StringsAsListed LifeInv Accounted PortsHeld
