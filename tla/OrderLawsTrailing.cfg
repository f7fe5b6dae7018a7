\* Transitivity of equality on strings that end in white space.
CONSTANTS
  Strings <- TrailingSpace
  ShortRun = 3
SPECIFICATION LawSpec
INVARIANTS
  Transitive
