SPECIFICATION Spec
CONSTANTS
  A = A
  B = B
  a1 = a1
  a2 = a2
  a3 = a3
  b1 = b1
  r1 = r1
  r2 = r2
  None = None
  Socket = {a1, a2, b1}
  Device = {A, B}
  DeviceOf <- BothAAndB
  RoomId = {r1, r2}
  Nonce <- Nonces
  MaxRooms = 2
  MaxPending = 2
SYMMETRY SocketAndRoomSymmetry
INVARIANTS
  ConnectedSeatIsLive
  HostCanAct
  ReservationIsHeld
  OneSeatPerDevice
PROPERTIES
  ReservedSeatKept
CHECK_DEADLOCK FALSE
