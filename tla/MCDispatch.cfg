\* Safety and liveness of the dispatch table, three threads.
CONSTANTS
  Threads = {t1, t2, t3}
  CpuSets <- MCCpuSets
  None = None
  Poison = Poison
SPECIFICATION Spec
INVARIANTS
  TypeOK
  NoRacyRead
  SingleInitialiser
  SpinHasOwner
  OnlySupportedCalled
  FastAfterFirst
PROPERTIES
  HandedOutImmutable
  CallsReturn
  RefinesOnce
