\* Time passes: both intervals are reached, and more is due than a query returns.
CONSTANTS
  SiteIds = {s1, s2}
  ScanIds = {r1, r2}
  Requests = {q1}
  Workers = {w1}
  JobIds = {j1, j2}
  MaxFails = 1
  MaxNow = 3
  DueLimit = 1
  MaxCrashes = 0
  Users = {u1}
  Urls = {url1}
  Nobody = Nobody
  NoSite = NoSite
  NoScan = NoScan
  NoUrl = NoUrl
  NoJob = NoJob
SPECIFICATION Spec
INVARIANTS OnlyRepeats LastScannedIsAScan
