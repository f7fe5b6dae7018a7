\* The promise of the crate that no public function panics.
CONSTANTS
  ShortRun = 2
  Strings <- MCStrings
  Texts <- MCTexts
  AnyChar <- MCAnyChar
  Lowercase <- MCLowercase
  CaseFold <- MCCaseFold
  Normal <- MCNormal
SPECIFICATION NormSpec
INVARIANTS
  NeverPanics
