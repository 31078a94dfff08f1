\* A client dies while the FSP is at work on its command.
SPECIFICATION Spec
INVARIANTS
  OkMeansStored
