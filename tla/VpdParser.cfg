\* Files up to one byte longer than the parser takes.
CONSTANTS
  Files <- MCFiles
  NoFile = NoFile
  MaxVpd = 17
  Marker <- MCMarker
SPECIFICATION FairSpec
INVARIANTS
  AnswerIsRight
  InBounds
PROPERTIES
  Terminates
CHECK_DEADLOCK FALSE
