SPECIFICATION Spec
CONSTANTS
  Configs = {c1, c2}
  NoFile = NoFile
  Faulty <- AllButRemoval
  MaxFaults = 3
INVARIANTS
  TypeOK
  BaselinePristine
  EffectsRecorded
  NoAccumulation
  ReportsTruth
  NeverRefused
PROPERTY PromiseSpec
