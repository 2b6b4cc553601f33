SPECIFICATION Spec
CONSTANTS
  d1 = d1
  d2 = d2
  a1 = a1
  a2 = a2
  a3 = a3
  NoAddr = NoAddr
  Device = {d1}
  Addr = {a1}
  Present = {a1}
  Caps = {1, 2, 3}
  MaxText = 4
  MaxPayload = 3
  Lens = {1}
  Transports = {"linux"}
  WireBuffer = 3
  MaxSends = 1
  MaxFaults = 0
INVARIANT
  RawReportsStatus
