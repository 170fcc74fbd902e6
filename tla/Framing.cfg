CONSTANTS
  Header = 2
  SendSize = 8
  RecvSize = 8
  Sizes = {1, 5, 6}
  UserSizes = {1, 5}
  MaxSent = 3
  WireSize = 5
  Streaming = FALSE
SPECIFICATION Spec
INVARIANTS TypeOK GotWhatWasSent NoByteIsLost
PROPERTY AllArrive
CHECK_DEADLOCK FALSE
