SPECIFICATION InviteFairSpec
CONSTANTS
  a = a
  b = b
  x = x
  y = y
  Invitors = {a, b}
  Invites = {x, y}
  InvitorOf <- OneEach
  MaxDisconnects = 1
  Null = Null
INVARIANTS DecisionsAgree JoinsWithConsent OneJoins
PROPERTIES AnsweredInviteEnds
\* When every invite has ended, nothing is left to do.
CHECK_DEADLOCK FALSE
