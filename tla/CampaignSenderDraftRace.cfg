SPECIFICATION Spec
CONSTANTS
  Campaigns = {c1}
  Contacts = {k1}
  Segments = {s1}
  Requests = {r1, r2}
  None = None
  QueueCapacity = 1
  FkModes = {TRUE}
  MaxEdits = 1
  MaxFaults = 0
  MaxCrashes = 0
PROPERTY OnlyDraftsChange
CHECK_DEADLOCK FALSE
