\* Two saving requests over two MySQL URLs and a local one; an environment that
\* sets nothing, the mode, or a URL; installs over two passwords.
SPECIFICATION Spec
CONSTANTS
  Savers = {r1, r2}
  mysql1 = mysql1
  mysql2 = mysql2
  local = local
  Urls <- MCUrls
  MySQL <- MCMySQL
  Masked = Masked
  None = None
  Absent = Absent
  Empty = Empty
  Mixed = Mixed
  p1 = p1
  p2 = p2
  Passwords <- MCPasswords
  DefaultPassword = p1
  UrlOf <- MCUrlOf
  Environments <- MCEnvironments
INVARIANTS TypeOK FileIsWhole SoleSaveIsServed CompleteMeansCredentials
PROPERTIES WebComesBack InstallEnds
