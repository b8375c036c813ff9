CONSTANTS
  NormalizeDNSName <- Name
  FilteredNames = {"foo", "bar"}
  ManagedTypes = {"A"}
  Provider = "aws"
  Controllers = {"c1", "c2"}
  Config <- MCConfig
  Namespace <- MCNamespace
  SourceLists <- MCSourceLists
  Worlds <- MCWorlds
  MaxSourceChanges = 2
SPECIFICATION Spec
INVARIANTS RecordsHaveObjects ProgrammedIsLive
PROPERTIES OwnRecordsOnly Settles
