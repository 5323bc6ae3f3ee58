\* Every drive for two keymaps, edited by the host, with the power going at any time.
CONSTANTS
  NumSectors = 4
  NumParts = 1
  Erased = Erased
  NoSector = NoSector
  NoCall = NoCall
  BaseLayer = BaseLayer
  Fn = Fn
  Readme = Readme
  Good = Good
  Bad = Bad
  Throwing = Throwing
  BootRecord = BootRecord
  NoLayer = NoLayer
  BootSector = 1
  RootSector = 2
  Keymap <- MCKeymap
  Text <- MCText
  Wrong <- MCWrong
  Halting <- MCHalting
  SectorOf <- MCSectorOf
  Datum <- MCDatum
SPECIFICATION FairBootSpec
INVARIANTS BootTypeOK KeymapsTakeEffect NoStaleRead StatusTellsAll QuietBoot HaltsAgain
PROPERTIES BootEnds
