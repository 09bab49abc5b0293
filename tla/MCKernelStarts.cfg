\* The starts of a kernel image are not relative.
SPECIFICATION ListsSpec
CONSTANTS
  Radix = 4
  LastShift = 2
  AddressSize = 16
  Lows <- MCLows
  MaxBytes = 6
  MaxEntries = 3
  KernelBase = 24
  UnwindInfos <- MCUnwindInfos
  EhFrames <- MCEhFrames
  Pdatas <- MCPdatas
  Bases <- MCBases
INVARIANT StartsAreRelative
