\* Route 53, registry with cache.
CONSTANTS
  NormalizeDNSName <- MCNormalizeDNSName
  FilteredNames <- MCFilteredNames
  ManagedTypes <- MCManagedTypes
  LegacyTXT <- LegacyBar
  Controllers <- MCControllers
  Config <- MCConfig
  SourceLists <- MCSourceLists
  InitialZones <- MCInitialZones
  Provider = "aws"
  Caching = TRUE
  MaxSourceChanges = 2
SPECIFICATION Spec
PROPERTY ForeignRecordsKept
