\* Route 53, registry without cache, a record with an old TXT record.
CONSTANTS
  NormalizeDNSName <- MCNormalizeDNSName
  FilteredNames <- MCFilteredNames
  ManagedTypes <- MCManagedTypes
  LegacyTXT <- LegacyBar
  Controllers <- MCControllers
  Config <- MCConfig
  SourceLists <- UncachedSourceLists
  InitialZones <- MCInitialZones
  Provider = "aws"
  Caching = FALSE
  MaxSourceChanges = 2
SPECIFICATION FairSpec
PROPERTIES ForeignRecordsKept Converges LegacyReplaced
