\* One process with one of the providers.
CONSTANTS
  Providers <- MCProviderSet
  Records <- MCRecords
  ApplyChanges <- MCApplyChanges
  AdjustEndpoints <- MCAdjustEndpoints
  ZoneOf <- MCZoneOf
  Foreign <- MCForeign
  ManagedTypes <- MCManagedTypes
  Wants <- MCWants
  KeepsOldTargets <- MCKeepsOldTargets
  OtherTTLs <- MCOtherTTLs
  Restless <- MCRestless
  NotAtomic <- MCNotAtomic
  DeletesFirst <- MCDeletesFirst
  DefaultTTL = 300
  MinTTL = 350
  BatchChangeSize = 1
  GoogleBatchChangeSize = 2
  AliasTargets <- MCAliasTargets
  AWSBatchChangeSize = 3
  AWSBatchValues = 4
  MaxFaults = 2
  MaxWantChanges = 2
SPECIFICATION Spec
INVARIANTS NoCollateral
PROPERTIES Synchronised Quiet InService
