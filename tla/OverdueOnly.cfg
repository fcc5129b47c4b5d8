\* Two scans of one site, against scan.go:69.
CONSTANTS
  SiteIds = {s1}
  ScanIds = {r1, r2}
  Requests = {q1}
  Workers = {w1}
  JobIds = {j1, j2}
  MaxFails = 1
  MaxNow = 2
  DueLimit = 1
  MaxCrashes = 0
  Users = {u1}
  Urls = {url1}
  Nobody = Nobody
  NoSite = NoSite
  NoScan = NoScan
  NoUrl = NoUrl
  NoJob = NoJob
SPECIFICATION Spec
PROPERTY OnlyOverdueIsDue
