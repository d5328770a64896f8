\* Two callers, two runs, one job with two scopes; the database aborts the
\* writer that lost a race.
SPECIFICATION Spec
CONSTANTS
  Pieces = {0, 1, 2}
  DefaultScope <- MCDefaultScope
  Sessions = {s1, s2}
  Runs = {r1, r2}
  Jobs = {j1}
  Scopes <- MCScopes
  ScopeLen <- MCScopeLen
  ConflictAborts = TRUE
  NoRow = NoRow
  DryRunToken = DryRunToken
  MaxTime = 1
  MaxCheckpoints = 4
SYMMETRY Symmetry
INVARIANTS TypeOK ForeignKeys CheckpointAgreesWithRun PassesCountedOnce ScopeSurvivesCsv
PROPERTIES ImplementsLedger
