\* compare and compare_iter on the same strings.
CONSTANTS
  MaxLen = 3
  ShortRun = 2
  Items <- MCItems
  Streams <- MCStreams
  Skip <- MCSkip
  CmpItems <- MCCmpItems
  ToDigit <- MCToDigit
  NotDigit = NotDigit
SPECIFICATION PairSpec
INVARIANTS
  TypeOK
  IterIsNatural
  AgreeOnPlain
PROPERTIES
  MirrorImage
  Returns
