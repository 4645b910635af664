SPECIFICATION Spec
CONSTANTS
  Tenants = {p, x}
  Platform = p
  Users = {u1, u2}
  Tokens = {t1, t2}
  Requests = {r1, r2}
  None = None
SYMMETRY Symmetry
INVARIANTS TypeOK RoleIsAsAsked
PROPERTIES DemotedIsShutOut ChangedByAdmins DeletedBeginNothing
CHECK_DEADLOCK FALSE
