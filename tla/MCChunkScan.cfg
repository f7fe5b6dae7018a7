\* All backends against the plain byte loop.
CONSTANTS
  Entries <- AllEntries
  Lengths <- MCLengths
  Starts <- MCStarts
  StopSets <- MCStopSets
  NulSets <- NoNuls
SPECIFICATION Spec
INVARIANTS
  TypeOK
  NothingPassed
  FindsFirstStop
  AsciiVerdict
