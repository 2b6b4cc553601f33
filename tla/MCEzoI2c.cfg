SPECIFICATION Spec
CONSTANTS
  d1 = d1
  d2 = d2
  a1 = a1
  a2 = a2
  a3 = a3
  NoAddr = NoAddr
  Device = {d1, d2}
  Addr = {a1, a2, a3}
  Present = {a1, a2}
  Caps = {0, 2, 4, 5}
  MaxText = 4
  MaxPayload = 3
  Lens = {1, 3}
  Transports = {"linux", "wire"}
  WireBuffer = 3
  MaxSends = 2
  MaxFaults = 2
SYMMETRY BusSymmetry
CONSTRAINT SharedBusIsPlain
INVARIANTS
  I2cTypeOK
  TextIsWhole
  StatusIsCurrent
  TextReportsStatus
PROPERTY
  TypedReadIsOwn
