\* A normalizer in every configuration, with and without the normalize feature.
CONSTANTS
  ShortRun = 2
  Strings <- MCStrings
  Texts <- MCTexts
  AnyChar <- MCAnyChar
  Lowercase <- MCLowercase
  CaseFold <- MCCaseFold
  Normal <- MCNormal
SPECIFICATION NormSpec
INVARIANTS
  FoldTypeOK
  DecodesCharacters
  NormalizedOrder
  OwnedIffChanged
  ShortcutsAgree
PROPERTIES
  FoldMirrorImage
  CompareReturns
