CONSTANTS
  NormalizeDNSName <- Name
  FilteredNames = {"foo", "bar", "a-foo", "a-bar"}
  ManagedTypes = {"A", "TXT"}
  Provider = "aws"
  Controllers <- MCControllers
  Config <- MCConfig
  SourceLists <- MCSourceLists
  InitialZones <- MCInitialZones
  Caching = TRUE
  MaxBatchSize = 1
  ToEndpointName <- MCToEndpointName
  FaultSets <- MCFaultSets
  MaxSourceChanges = 1
SPECIFICATION Spec
INVARIANT LabelsExact
PROPERTIES ClaimsKept RecordsClaimed OwnershipKept Settles
