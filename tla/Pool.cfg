\* On one site: one job and crashes, or two jobs that compete and none.
CONSTANTS
  SiteIds = {s1, s2}
  ScanIds = {r1,r2,r3,r4,r5,r6,r7,r8}
  Workers = {w1, w2}
  JobIds = {j1, j2}
  MaxFails = 4
  MaxCrashes = 2
  MaxNow = 0
  Users = {u1}
  Urls = {url1}
  Nobody = Nobody
  NoSite = NoSite
  NoScan = NoScan
  NoUrl = NoUrl
  NoJob = NoJob
CHECK_DEADLOCK FALSE
SPECIFICATION FairSpec
PROPERTIES JobsSettle DoomedJobsDie
