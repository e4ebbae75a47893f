SPECIFICATION FairSpec
CONSTANTS
  Calls = {c1, c2}
  Emails = {u1}
  Passwords = {p1, p2}
  MaxVersion = 1
  MaxChanges = 1
  None = None
INVARIANT TypeOK
PROPERTIES OnlyChangeAlters RevocationLasts SettledSessionsEnd
