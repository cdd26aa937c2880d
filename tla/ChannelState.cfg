SPECIFICATION Spec
CONSTANTS
  Nicks = {a, b, m}
  FirstNick = m
  MaxOps = 5
INVARIANTS
  TypeOK
  MembersAgree
  MissingOnlyLate
  ModesSound
CHECK_DEADLOCK FALSE
