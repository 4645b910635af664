SPECIFICATION Spec
CONSTANTS
  Users = {u1}
  Clients = {c1}
  Codes = {x1}
  Tokens = {t1, t2, t3}
  Requests = {r1, r2}
  None = None
  MaxFaults = 1
SYMMETRY Symmetry
INVARIANTS TypeOK CodesHeldOnce OneTokenPerSession
PROPERTIES CodesAreOneShot UsedTokenIsRefused DeletedUserIsShutOut
CHECK_DEADLOCK FALSE
