SPECIFICATION Spec
CONSTANTS
  Tenants = {d, t}
  Default = {d}
  Keys = {k1, k2, k3}
  Requests = {r1, r2}
  Spellings = {"slug"}
  None = None
  MaxRestarts = 1
  MaxFaults = 1
INVARIANTS TypeOK KeysIsolated DefaultKeyStays KeysPerFirstUse
SYMMETRY Symmetry
CHECK_DEADLOCK FALSE
