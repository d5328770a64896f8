\* Two overlapping resumes over a database that lets the late writer overwrite.
SPECIFICATION Spec
CONSTANTS
  Pieces = {0, 1, 2}
  DefaultScope <- MCDefaultScope
  Sessions = {s1, s2}
  Runs = {r1, r2}
  Jobs = {j1}
  Scopes <- MCScopes
  ScopeLen <- MCScopeLen
  ConflictAborts = FALSE
  NoRow = NoRow
  DryRunToken = DryRunToken
  MaxTime = 1
  MaxCheckpoints = 4
SYMMETRY Symmetry
INVARIANTS PassesCountedOnce
