SPECIFICATION Spec
CONSTANTS
  Users = {u1, u2}
  Contacts = {k1}
  Emails = {e1, e2}
  Passwords = {p1}
  Links = {l1, l2, l3}
  Requests = {r1, r2}
  None = None
  FkModes = {TRUE, FALSE}
SYMMETRY Symmetry
INVARIANTS TypeOK LinksPerPeriod OneAccountPerInvitation InvitationIsUsedUp
PROPERTIES LinksAreOneShot
CHECK_DEADLOCK FALSE
