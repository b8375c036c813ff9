\* In-memory provider, registry with cache.
CONSTANTS
  NormalizeDNSName <- MCNormalizeDNSName
  FilteredNames <- MCFilteredNames
  ManagedTypes <- MCManagedTypes
  LegacyTXT <- NoLegacyTXT
  Controllers <- MCControllers
  Config <- MCConfig
  SourceLists <- LiveSourceLists
  InitialZones <- LiveInitialZones
  Provider = "inmemory"
  Caching = TRUE
  MaxSourceChanges = 2
SPECIFICATION FairSpec
INVARIANTS NoOrphanTXT ViewUnique CacheExact
PROPERTIES OwnershipKept Converges
