\* Sources, caches, name servers and the event emitter.
SPECIFICATION Spec
\* The event emitter stops after its shutdown.
CHECK_DEADLOCK FALSE
CONSTANTS
  Names = {"foo", "bar"}
  maxRetries = 2
  N = 3
  Strategies = {"round-robin", "disabled"}
  Changes <- MCChanges
  emitEvents = {"ready"}
  Missing = {"gone"}
  maxQueuedEvents = 2
  maxRetriesPerEvent = 2
  MaxFaults = 2
  MaxEdits = 2
  MaxFlips = 4
INVARIANTS ReverseAgrees KnownIsCurrent EventsTried
PROPERTIES Settles NoWithdrawal Stored SendReachesAll EventsEnd
