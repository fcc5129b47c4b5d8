------------------------------- MODULE Tables -------------------------------
(***************************************************************************)
(* The rows of the MySQL tables `sites` and `scans` that the scan pipeline *)
(* of gitmon reads and writes (sites.go, scan.go), and the wall clock that *)
(* stamps them.  Both tables hand out auto-increment primary keys, so an   *)
(* id is "unborn", then "live", then "gone", and is never given out again. *)
(*                                                                         *)
(* Urls stands for the addresses IsValidUrl accepts that name a host: they *)
(* have at least 8 characters.  (It accepts a few shorter ones, "http://"  *)
(* for one, whose fetch never succeeds; they are left out.)                *)
(***************************************************************************)
EXTENDS Integers, FiniteSets

CONSTANTS
  SiteIds,    \* primary keys of sites
  ScanIds,    \* primary keys of scans
  Users,      \* primary keys of users
  Urls,       \* addresses of sites
  Nobody,     \* the user id 0
  NoSite,     \* the site id 0
  NoScan,     \* the scan id 0
  NoUrl,      \* the empty url
  MaxNow      \* bound of the clock

ASSUME TablesAssumption ==
  /\ NoSite \notin SiteIds
  /\ NoScan \notin ScanIds
  /\ Nobody \notin Users
  /\ NoUrl \notin Urls
  /\ MaxNow \in Nat

VARIABLES
  sites,      \* table sites, by id
  scans,      \* table scans, by id
  now         \* time.Now()

(* The two scanners CreateApp registers, and the zero ScannerID a row has
   until a scan of it is saved. *)
IsAlive    == 1
GitScan    == 2
ScannerIds == {IsAlive, GitScan}
NoScanner  == 0

Lifetime   == {"unborn", "live", "gone"}
Never      == -1   \* the null last_scanned_at of a new site

SiteRow == [at : Lifetime, user : Users \cup {Nobody}, url : Urls \cup {NoUrl},
            last : Nat \cup {Never}]

ScanRow == [at : Lifetime, site : SiteIds \cup {NoSite},
            scanner : ScannerIds \cup {NoScanner},
            status : {0, 1}, result : {0, 1, 3}, created : Nat]

UnbornSite == [at |-> "unborn", user |-> Nobody, url |-> NoUrl, last |-> Never]

UnbornScan == [at |-> "unborn", site |-> NoSite, scanner |-> NoScanner,
               status |-> 0, result |-> 0, created |-> 0]

TablesInit ==
  /\ sites = [s \in SiteIds |-> UnbornSite]
  /\ scans = [r \in ScanIds |-> UnbornScan]
  /\ now = 0

TablesTypeOK ==
  /\ sites \in [SiteIds -> SiteRow]
  /\ scans \in [ScanIds -> ScanRow]
  /\ now \in Nat

-----------------------------------------------------------------------------
(* Queries. *)

(* Sites.ById finds a row. *)
LiveSite(s) == s \in SiteIds /\ sites[s].at = "live"

(* The user already has a site with this url: what Sites.Create counts and
   what the unique index idx_user_sites refuses. *)
Taken(u, url) ==
  \E s \in SiteIds : LiveSite(s) /\ sites[s].user = u /\ sites[s].url = url

(* The auto-increment key of the next row: any id that was never given out,
   always the same one in the same state. *)
Fresh(table)  == {i \in DOMAIN table : table[i].at = "unborn"}
NextId(table) == CHOOSE i \in Fresh(table) : TRUE

(* A new row of sites, never scanned. *)
SiteOf(u, url) == [at |-> "live", user |-> u, url |-> url, last |-> Never]

(* A row that Scans.Save has written: the only rows with a scanner id. *)
Finished(r) == scans[r].at = "live" /\ scans[r].scanner # NoScanner

(* Scanner c has a saved scan of site s. *)
ScannedBy(s, c) ==
  \E r \in ScanIds : Finished(r) /\ scans[r].site = s /\ scans[r].scanner = c

=============================================================================
