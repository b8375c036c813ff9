CONSTANTS
  NormalizeDNSName <- MCNormalizeDNSName
  FilteredNames <- MCFilteredNames
  ManagedTypes <- MCManagedTypes
  Plans <- MCPlans
  CurrentSets <- MCCurrentSets
  DesiredLists <- MCDesiredLists
SPECIFICATION Spec
INVARIANTS RowsUnique Converged
PROPERTIES OthersUntouched CnameExclusive ResourceKeepsName PolicyRespected
