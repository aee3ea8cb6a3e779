CONSTANTS
  g1 = g1  g2 = g2  g3 = g3  g4 = g4  l1 = l1  l2 = l2  f1 = f1  c1 = c1  c2 = c2
  p1 = p1  p2 = p2  short = short  accented = accented
  Registrations = {g1, g2, g3, g4}
  Logins = {l1, l2}
  Refreshes = {f1}
  Calls = {c1, c2}
  EmailOf <- MCEmailOf
  PasswordOf <- MCPasswordOf
  Chars <- MCChars
  Bytes <- MCBytes
  LoginOf <- MCLoginOf
  SourceOf <- MCSourceOf
  MinPassword = 8
  MaxPassword = 12
  AccessTTL = 2
  RefreshTTL = 3
  Second = 2
  MaxTime = 7
SPECIFICATION Spec
INVARIANTS OneUserPerEmail AccessIsEarned
PROPERTY RegisteredMayEnter
CHECK_DEADLOCK FALSE
