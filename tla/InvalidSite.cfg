\* The race of two requests, against scanner.go:127.
CONSTANTS
  SiteIds = {s1, s2}
  ScanIds = {r1, r2}
  Requests = {q1, q2}
  Workers = {w1}
  JobIds = {j1, j2}
  MaxFails = 2
  MaxNow = 0
  DueLimit = 1
  MaxCrashes = 0
  Users = {u1}
  Urls = {url1}
  Nobody = Nobody
  NoSite = NoSite
  NoScan = NoScan
  NoUrl = NoUrl
  NoJob = NoJob
SPECIFICATION Spec
SYMMETRY Symmetry
INVARIANT InvalidSiteRefused
