SPECIFICATION Spec
SYMMETRY Symmetry
CONSTANTS
  Users = {u1, u2}
  Emails = {"a", "b"}
  Households = {1}
  Invitations = {1, 2}
  Life = 1
  NoUser = "nobody"
  NoEmail = "no email"
  h1 = h1
  h2 = h2
  Hosts = {h1, h2}
  Keys <- CallbackKeys
  Limit = 2
  Window = 2
  Browsers = {b1, b2}
  MaxClock = 2
INVARIANTS PersonalIsPrivate MembersWereInvited OneLiveInvitation NoWindowOverfull RefusesOnlyWhenFull
PROPERTY AdmittedWhileLive
CHECK_DEADLOCK FALSE
