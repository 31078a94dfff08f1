\* Two threads that want one device, and five cards that may be there.
CONSTANTS
  t1 = t1
  t2 = t2
  NoDevice = NoDevice
  NoChip = NoChip
  NoCard = NoCard
  Hopper = "GH100"
  Threads <- MCThreads
  Devices <- MCDevices
  Spellings <- MCSpellings
  Cards <- MCCards
  Chips <- MCChips
  Switches <- MCSwitches
  Range <- MCRange
  Builtin <- MCBuiltin
  Given <- MCGiven
SPECIFICATION FairGpuSpec
INVARIANTS
  TypeOK
  OneHolder
  Usable
  Restored
  HandleFits
  UnvettedUntouched
PROPERTIES
  CallReturns
