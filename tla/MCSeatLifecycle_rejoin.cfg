SPECIFICATION Spec
CONSTANTS
  A = A
  B = B
  a1 = a1
  a2 = a2
  a3 = a3
  b1 = b1
  r1 = r1
  r2 = r2
  None = None
  Socket = {a1, a2, a3, b1}
  Device = {A, B}
  DeviceOf <- ThreeAAndB
  RoomId = {r1}
  Nonce <- Nonces
  MaxRooms = 1
  MaxPending = 1
SYMMETRY SocketSymmetry
INVARIANTS
  UntouchedSeatCanBeRetaken
CHECK_DEADLOCK FALSE
