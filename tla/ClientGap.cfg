\* The gap: a message of the other side is missed, an own one accepted after it.
CONSTANTS
  MaxMessages = 1
  Peer = Peer
  MaxLog = 2
  PageSize = 1
  MaxFaults = 1
SPECIFICATION Spec
INVARIANT CursorContiguous
CHECK_DEADLOCK FALSE
