\* The laws of a total order on strings without white space.
CONSTANTS
  Strings <- WsFreeStrings
  ShortRun = 3
SPECIFICATION LawSpec
INVARIANTS
  Antisymmetric
  Transitive
  FirstDifferenceDecides
PROPERTIES
  MirrorImage
