CONSTANTS
  Addresses <- MCAddresses
  Slot <- MCSlot
  Devices <- MCDevices
  MaxChanges = 1
SPECIFICATION Spec
INVARIANTS
  NothingOverlooked
  RolesAreEarned
  KindIsProved
