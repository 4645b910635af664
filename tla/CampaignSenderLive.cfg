SPECIFICATION Spec
CONSTANTS
  Campaigns = {c1}
  Contacts = {k1}
  Segments = {s1}
  Requests = {r1, r2}
  None = None
  QueueCapacity = 1
  FkModes = {TRUE, FALSE}
  MaxEdits = 0
  MaxFaults = 1
  MaxCrashes = 1
PROPERTIES UnsubscribedBeforeSending QueuedIsProcessed SendHandlerReturns
CHECK_DEADLOCK FALSE
