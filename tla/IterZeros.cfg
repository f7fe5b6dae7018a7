\* The claim of the differential test on strings of letters and digits.
CONSTANTS
  MaxLen = 4
  ShortRun = 2
  Items <- MCItems
  Streams <- Alphanumeric
  Skip <- MCSkip
  CmpItems <- MCCmpItems
  ToDigit <- MCToDigit
  NotDigit = NotDigit
SPECIFICATION PairSpec
INVARIANTS
  AgreeWithoutSpace
