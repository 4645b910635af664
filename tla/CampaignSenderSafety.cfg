SPECIFICATION Spec
CONSTANTS
  Campaigns = {c1}
  Contacts = {k1, k2}
  Segments = {s1}
  Requests = {r1}
  None = None
  QueueCapacity = 1
  FkModes = {TRUE, FALSE}
  MaxEdits = 1
  MaxFaults = 1
  MaxCrashes = 1
SYMMETRY Symmetry
INVARIANTS TypeOK WorkerOwnsCampaign MailedAtMostOnce SentMeansDelivered MailsAreAccounted
PROPERTIES OutcomeIsFinal LifecycleSpec DeletedIsNotMailed
CHECK_DEADLOCK FALSE
