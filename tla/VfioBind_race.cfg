\* The same system: a probe may run while an unbind is in progress.
CONSTANTS
  Native = "native"
  None = "none"
  Drivers <- MCDrivers
  Modules <- MCModules
  Registers <- MCRegisters
  Tables <- MCTables
SPECIFICATION Spec
INVARIANTS
  TakenBack
