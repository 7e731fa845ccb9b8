\* One-command writes without a byte after NAME, into a buffer of 8 bytes
\* whose unfilled bytes hold any of a name byte, another byte or NUL.
CONSTANTS
  MaxWrite = 8
  Inputs <- MC_Bare
  NameChars <- MC_NameChars
  Junk <- MC_Junk
  NUL <- MC_NUL
  SP <- MC_SP
  GROUP_COUNT = 3
  AllocStart = 8
  ListIds <- MC_ListIds
  ListNames <- MC_ListNames
  MaxGroups = 0
  ReadLens = {1, 5, 32}
  NoBuf = NoBuf
SPECIFICATION DeviceSpec
INVARIANTS
  NoReadPastWrite
CHECK_DEADLOCK FALSE
