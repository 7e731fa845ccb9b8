\* Every one-command write of names up to 2 bytes, ending in a newline, a
\* space, a byte outside the name set or nothing, into a buffer of 12 bytes
\* (the longest writes are cut) whose unfilled bytes hold a name byte or
\* another byte; every outcome of the group function.  The module with
\* three group devices is loaded, possibly failing at any call, and unloaded
\* around the write; mounts are attempted while it is loaded.
CONSTANTS
  MaxWrite = 12
  Inputs <- MC_Writes
  NameChars <- MC_NameChars
  Junk <- MC_JunkTwo
  NUL <- MC_NUL
  SP <- MC_SP
  GROUP_COUNT = 3
  AllocStart = 6
  ListIds <- MC_ListIds
  ListNames <- MC_ListNames
  MaxGroups = 2
  ReadLens = {1, 5, 32}
  NoBuf = NoBuf
SPECIFICATION DeviceSpec
INVARIANTS
  TypeOK
  CommandAsWritten
  UnwindExact
  DevicesRouteToOwnCdev
  ListingAsRegistered
CHECK_DEADLOCK FALSE
