\* One caller over four mapping rows, of which a transaction lists three; one of
\* the users has a blank source id.
SPECIFICATION Spec
CONSTANTS
  user1 = user1
  user2 = user2
  user3 = user3
  file1 = file1
  Sessions = {s1}
  Entities = {user1, user2, user3, file1}
  TypeOf <- MCTypeOf
  Files = {file1}
  Blank = {user3}
  Targets = {t1, t2, t3}
  Limit = 3
  NoRow = NoRow
  None = None
  MaxReports = 2
SYMMETRY Symmetry
INVARIANTS TypeOK ReadyWithinLimit DuplicatesCounted
