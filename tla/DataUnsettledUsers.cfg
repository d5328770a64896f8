\* A deal is bound while another user is not settled.
SPECIFICATION Spec
CONSTANTS
  user = user
  author = author
  deal = deal
  comment = comment
  group = group
  task = task
  file = file
  t1 = t1
  t2 = t2
  Sessions = {s1, s2}
  Entities <- DealChain
  KindOf <- DealKinds
  Refs <- DealRefs
  ParentOf <- DealParents
  Targets = {t1, t2}
  TargetsOf <- MCTargetsOf
  ConflictAborts = TRUE
  NoRow = NoRow
  None = None
SYMMETRY Symmetry
PROPERTIES DependentsWaitForUsers
