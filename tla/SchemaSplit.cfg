\* Two legacy plans of different portals, two runs, and two plans that
\* the application may save under new jobs.
SPECIFICATION Spec
CONSTANTS
  p1 = p1
  p2 = p2
  q = q
  q2 = q2
  jq2 = jq2
  jp1 = jp1
  jp2 = jp2
  jq = jq
  here = here
  there = there
  LegacyPlans = {p1, p2}
  NewPlans = {q, q2}
  NewJobs = {j, j2}
  LegacyJob <- MCLegacyJob
  Runs = {r1, r2}
  Portals = {here, there}
  PortalsOf <- MCPortalsOf
  Null = Null
INVARIANTS TypeOK LinksHaveJobs RevisionMeansSplit
PROPERTIES UpgradeArrives
