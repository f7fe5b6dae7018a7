\* The SSE4.2 backend of skip_equal on strings with a common NUL.
CONSTANTS
  Entries <- NulEntries
  Lengths <- NulLengths
  Starts <- MCStarts
  StopSets <- MCStopSets
  NulSets <- OneNul
SPECIFICATION Spec
INVARIANTS
  SkipsOnlyEqual
