\* Two callers who follow the graph over two branches of a portal.
SPECIFICATION GraphSpec
CONSTANTS
  user = user
  field = field
  stage = stage
  contact = contact
  deal = deal
  note = note
  stray = stray
  group = group
  task = task
  t1 = t1
  t2 = t2
  Sessions = {s1, s2}
  Entities <- Portal
  KindOf <- PortalKinds
  Refs <- PortalRefs
  ParentOf <- PortalParents
  Targets = {t1, t2}
  TargetsOf <- PortalTargets
  ConflictAborts = TRUE
  NoRow = NoRow
  None = None
SYMMETRY Symmetry
INVARIANTS GraphTypeOK DecidedByFinalRefs LinksAreCurrent
