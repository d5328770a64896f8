\* Two callers, two users and one target; the database aborts the writer that
\* lost a race.
SPECIFICATION PlaneSpec
CONSTANTS
  Sessions = {s1, s2}
  Sources = {u1, u2}
  Targets = {t1}
  ConflictAborts = TRUE
  NoRow = NoRow
  NoTarget = NoTarget
  MaxItems = 1
  People = {t1, t2}
  Texts = {"a", "none"}
  NullText = "none"
  Null = Null
  Missing = Missing
SYMMETRY Symmetry
INVARIANTS TypeOK AmbiguousHasOpenReview RowsAreWhole PolicyBindsOnEvidence
PROPERTIES ReviewTakesEffect ChangesAsDataPlane
