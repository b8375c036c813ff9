CONSTANTS
  Owners <- MCOwners
  Names <- MCNames
  Targets = {1, 2, 3}
  Matches <- MCMatches
  TTL <- MCTTL
  Wants <- MCWants
  Cleanup = TRUE
  DefaultTTL = 300
  MaxServices = 8
  MaxFaults = 1
  MaxEdits = 2
SPECIFICATION Spec
PROPERTIES ServicesKept NamesServed
