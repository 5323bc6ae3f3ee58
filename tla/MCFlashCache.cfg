\* Two sectors of two parts.
CONSTANTS
  NumSectors = 2
  NumParts = 2
  d1 = d1
  d2 = d2
  Datum <- MCDatum
  Erased = Erased
  NoSector = NoSector
  NoCall = NoCall
SPECIFICATION Spec
INVARIANTS TypeOK NoWriteLost HostReadsBack
PROPERTIES DeviceSpec
