\* Two goroutines, and either process may die twice.
CONSTANTS
  SiteIds = {s1}
  ScanIds = {r1, r2, r3}
  Requests = {q1}
  Workers = {w1, w2}
  JobIds = {j1, j2}
  MaxFails = 2
  MaxNow = 0
  DueLimit = 1
  MaxCrashes = 2
  Users = {u1}
  Urls = {url1}
  Nobody = Nobody
  NoSite = NoSite
  NoScan = NoScan
  NoUrl = NoUrl
  NoJob = NoJob
SPECIFICATION Spec
SYMMETRY Symmetry
INVARIANTS IInv OneHolder
PROPERTIES SavedRowsAreFinal
