CONSTANTS
  Handlers = {h1, h2}
  Interval = 4
  MinEventSyncInterval = 3
  EventDelay = 1
  StartTime = 3
  MaxTime = 10
SPECIFICATION Spec
PROPERTY MinEventSpacing
