CONSTANTS
  Clients = 2
  CopyCount = 2
  Piece = 2
  MaxFaults = 1
  FileSizes = {1, 4}
SPECIFICATION Spec
INVARIANTS TypeOK FilesAreCopies NobodyLeftBehind
PROPERTIES Copied ClientEnds
CHECK_DEADLOCK FALSE
