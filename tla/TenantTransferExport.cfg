SPECIFICATION Spec
CONSTANTS
  Tenants = {t1, t2}
  Slugs = {s1, s2}
  Ann = Ann
  ANN = ANN
  Bob = Bob
  People = {Ann, ANN, Bob}
  Clients = {c1, c2}
  Segments = {g1}
  UnfitUsers = {}
  UnfitContacts = {}
  UnfitClients = {}
  Twins = {}
  Requests = {r1, r2}
  None = None
  Beginnings <- Full
  MaxExports = 1
  MaxEdits = 1
  MaxFaults = 0
PROPERTIES ExportIsImportable
CHECK_DEADLOCK FALSE
