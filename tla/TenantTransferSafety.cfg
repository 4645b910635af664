SPECIFICATION Spec
CONSTANTS
  Tenants = {t1, t2}
  Slugs = {s1, s2}
  Ann = Ann
  ANN = ANN
  Bob = Bob
  People = {Ann, ANN, Bob}
  Clients = {c1, c2, c3}
  Segments = {g1}
  UnfitUsers = {Bob}
  UnfitContacts = {Bob}
  UnfitClients = {c3}
  Twins <- TheTwins
  Requests = {r1, r2}
  None = None
  Beginnings <- Full
  MaxExports = 1
  MaxEdits = 1
  MaxFaults = 1
SYMMETRY Symmetry
INVARIANTS TypeOK RoundTrip ImportsDoNotMix
PROPERTIES RefusedForAReason
CHECK_DEADLOCK FALSE
