\* Probes run at any time, and a driver link may be unreadable.
CONSTANTS
  Native = "native"
  None = "none"
  Drivers <- MCDrivers
  Modules <- MCModules
  Registers <- MCRegisters
  Tables <- MCTables
SPECIFICATION Spec
INVARIANTS
  NothingUnasked
  TakenBackUndisturbed
  MadeForIt
