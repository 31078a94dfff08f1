\* Two addresses, and one change of what is there per cache.
CONSTANTS
  Addresses = {1, 2}
  Functions <- MCFunctions
  NoFunction = NoFunction
  NoAddress = NoAddress
  MaxChanges = 1
SPECIFICATION InventorySpec
INVARIANTS
  RecordsAreTrue
  NothingOverlooked
