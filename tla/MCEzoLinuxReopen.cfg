SPECIFICATION Spec
CONSTANTS
  u1 = u1
  u2 = u2
  i1 = i1
  ttyA = ttyA
  ttyB = ttyB
  ttyC = ttyC
  busA = busA
  b1 = b1
  b2 = b2
  Uarts = {u1}
  I2cs = {i1}
  Ttys = {ttyA}
  Buses = {busA}
  Bauds = {b1, b2}
  MaxFds = 4
  SamePath = TRUE
  AsFound = AsFound
  Free = Free
INVARIANT
  ConfiguredAsAsked
