CONSTANTS
  Header = 2
  SendSize = 8
  RecvSize = 8
  Sizes = {1, 2, 5, 6}
  UserSizes = {1, 5}
  MaxSent = 3
  WireSize = 7
  Streaming = TRUE
SPECIFICATION Spec
INVARIANT NoByteIsLost
CHECK_DEADLOCK FALSE
