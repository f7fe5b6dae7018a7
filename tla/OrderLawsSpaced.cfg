\* Antisymmetry on strings with white space between digits.
CONSTANTS
  Strings <- SpacedStrings
  ShortRun = 3
SPECIFICATION LawSpec
INVARIANTS
  Antisymmetric
