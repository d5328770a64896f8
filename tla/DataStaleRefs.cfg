\* A task is blocked after a file reference of it was migrated.
SPECIFICATION Spec
CONSTANTS
  user = user
  author = author
  deal = deal
  comment = comment
  group = group
  task = task
  file = file
  t1 = t1
  t2 = t2
  Sessions = {s1, s2}
  Entities <- TaskChain
  KindOf <- TaskKinds
  Refs <- TaskRefs
  ParentOf <- TaskParents
  Targets = {t1, t2}
  TargetsOf <- MCTargetsOf
  ConflictAborts = TRUE
  NoRow = NoRow
  None = None
SYMMETRY Symmetry
INVARIANTS FileRefsIntact
