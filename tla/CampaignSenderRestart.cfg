SPECIFICATION Spec
CONSTANTS
  Campaigns = {c1}
  Contacts = {k1}
  Segments = {s1}
  Requests = {r1}
  None = None
  QueueCapacity = 1
  FkModes = {TRUE}
  MaxEdits = 0
  MaxFaults = 0
  MaxCrashes = 1
PROPERTY AcceptedIsProcessed
CHECK_DEADLOCK FALSE
