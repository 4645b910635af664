SPECIFICATION Spec
CONSTANTS
  Tenants = {t}
  Default = {}
  Keys = {k1}
  Requests = {r1}
  Spellings = {"slug"}
  None = None
  MaxRestarts = 1
  MaxFaults = 0
INVARIANTS SignedIsAccepted
CHECK_DEADLOCK FALSE
