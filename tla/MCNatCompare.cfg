\* Every pair of strings of up to MaxLen bytes; both digit-run paths are taken.
CONSTANTS
  MaxLen = 4
  Strings <- MCStrings
  ShortRun = 3
SPECIFICATION Spec
INVARIANTS
  TypeOK
  ConsumedEqual
  PathsAgree
  RoundConsumes
  NaturalOnPlain
  SpacingIgnored
