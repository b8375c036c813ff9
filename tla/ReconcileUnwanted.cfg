\* Route 53, a record with an old TXT record that nobody wants any more.
CONSTANTS
  NormalizeDNSName <- MCNormalizeDNSName
  FilteredNames <- MCFilteredNames
  ManagedTypes <- MCManagedTypes
  LegacyTXT <- LegacyBar
  Controllers <- MCControllers
  Config <- MCConfig
  SourceLists <- UnwantedSourceLists
  InitialZones <- UnwantedInitialZones
  Provider = "aws"
  Caching = FALSE
  MaxSourceChanges = 0
SPECIFICATION FairSpec
PROPERTY UnwantedDeleted
