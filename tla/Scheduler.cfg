\* Interval > MinEventSyncInterval > EventDelay; two callbacks in flight.
CONSTANTS
  Handlers = {h1, h2}
  Interval = 3
  MinEventSyncInterval = 2
  EventDelay = 1
  StartTime = 2
  MaxTime = 7
SPECIFICATION Spec
INVARIANTS NoStarvation EventDeadline
PROPERTY ThreeRunSpacing
