----------------------------- MODULE SiteRoutes -----------------------------
(***************************************************************************)
(* The routes of the web server that change sites: POST /admin/sites and   *)
(* every line of POST /admin/sites_bulk (both are Sites.Create),           *)
(* GET /admin/sites/:id/trigger and DELETE /admin/sites/:id.  Requests run *)
(* concurrently, and each statement a handler sends to MySQL or Redis is a *)
(* step of its own: nothing spans them in a transaction.                   *)
(*                                                                         *)
(* The admin routes are behind the login, so a request has a user of Users *)
(* and never the id 0.                                                     *)
(***************************************************************************)
EXTENDS WorkQueue

CONSTANT Requests   \* requests the server handles at once

VARIABLE req        \* what each request is doing

RequestSteps == {"idle", "insert", "push", "delete", "purge"}

RequestRow == [pc : RequestSteps, site : SiteIds \cup {NoSite},
               user : Users \cup {Nobody}, url : Urls \cup {NoUrl},
               next : ScannerIds]

IdleRequest == [pc |-> "idle", site |-> NoSite, user |-> Nobody,
                url |-> NoUrl, next |-> IsAlive]

RoutesInit == req = [q \in Requests |-> IdleRequest]

RoutesTypeOK == req \in [Requests -> RequestRow]

-----------------------------------------------------------------------------
(* Sites.Create up to its count: the user has no site with this url yet.
   When he has one, or the url is refused, the request only redirects. *)
BeginCreate(q, u, url) ==
  /\ req[q].pc = "idle"
  /\ ~Taken(u, url)
  /\ req' = [req EXCEPT ![q] = [IdleRequest EXCEPT
               !.pc = "insert", !.user = u, !.url = url]]
  /\ UNCHANGED <<sites, scans, now, jobs>>

(* s.DB.Create(site), and the publication of site.created.  Another request
   may have inserted the same pair since the count: the unique index then
   refuses the row, the error is dropped and the Site keeps the id 0. *)
InsertSite(q) ==
  /\ req[q].pc = "insert"
  /\ \/ /\ Taken(req[q].user, req[q].url)
        /\ req' = [req EXCEPT ![q].pc = "push", ![q].site = NoSite]
        /\ UNCHANGED sites
     \/ /\ ~Taken(req[q].user, req[q].url)
        /\ Fresh(sites) # {}
        /\ sites' = [sites EXCEPT ![NextId(sites)] =
                        SiteOf(req[q].user, req[q].url)]
        /\ req' = [req EXCEPT ![q].pc = "push", ![q].site = NextId(sites)]
  /\ UNCHANGED <<scans, now, jobs>>

(* Mutant of PushScan: one push too many. *)
PushScanOneMore(q) ==
  /\ req[q].pc = "push"
  /\ Push(ScanJob(req[q].site, req[q].url, req[q].next))
  /\ IF req[q].next <= GitScan
       THEN req' = [req EXCEPT ![q].next = @ + 1]
       ELSE req' = [req EXCEPT ![q] = IdleRequest]
  /\ UNCHANGED <<sites, scans, now>>

(* The two pushes of the site.created handler and of the trigger route:
   scanner 1, then scanner 2, each of which Redis may lose. *)
PushScan(q) ==
  /\ req[q].pc = "push"
  /\ Push(ScanJob(req[q].site, req[q].url, req[q].next))
  /\ IF req[q].next = IsAlive
       THEN req' = [req EXCEPT ![q].next = GitScan]
       ELSE req' = [req EXCEPT ![q] = IdleRequest]
  /\ UNCHANGED <<sites, scans, now>>

(* The trigger route, once ById has found a site of this user.  (A missing
   site has the user id 0, which is nobody's, so the request fails.) *)
BeginTrigger(q, s) ==
  /\ req[q].pc = "idle"
  /\ LiveSite(s) /\ sites[s].user # Nobody
  /\ req' = [req EXCEPT ![q] = [IdleRequest EXCEPT
               !.pc = "push", !.site = s, !.user = sites[s].user,
               !.url = sites[s].url]]
  /\ UNCHANGED <<sites, scans, now, jobs>>

(* The delete route: the same check, then the row of the site, then the
   rows of its scans. *)
BeginDelete(q, s) ==
  /\ req[q].pc = "idle"
  /\ LiveSite(s) /\ sites[s].user # Nobody
  /\ req' = [req EXCEPT ![q] = [IdleRequest EXCEPT
               !.pc = "delete", !.site = s, !.user = sites[s].user]]
  /\ UNCHANGED <<sites, scans, now, jobs>>

DeleteSite(q) ==
  /\ req[q].pc = "delete"
  /\ sites' = [sites EXCEPT ![req[q].site].at = "gone"]
  /\ req' = [req EXCEPT ![q].pc = "purge"]
  /\ UNCHANGED <<scans, now, jobs>>

(* Mutant of PurgeScans: the rows of every site. *)
PurgeAllScans(q) ==
  /\ req[q].pc = "purge"
  /\ scans' = [r \in ScanIds |->
                 IF scans[r].at = "live"
                   THEN [scans[r] EXCEPT !.at = "gone"] ELSE scans[r]]
  /\ req' = [req EXCEPT ![q] = IdleRequest]
  /\ UNCHANGED <<sites, now, jobs>>

PurgeScans(q) ==
  /\ req[q].pc = "purge"
  /\ scans' = [r \in ScanIds |->
                 IF scans[r].at = "live" /\ scans[r].site = req[q].site
                   THEN [scans[r] EXCEPT !.at = "gone"] ELSE scans[r]]
  /\ req' = [req EXCEPT ![q] = IdleRequest]
  /\ UNCHANGED <<sites, now, jobs>>

(* The server process dies: its requests are never finished. *)
ServerDies == req' = [q \in Requests |-> IdleRequest]

(* The routes of the admin group that write sites or scans.  The requests are
   those its gates let through: of a user signed in, the second factor given
   when the user has one.  A user may hold several at once. *)
RoutesNext ==
  \E q \in Requests :
    \/ \E u \in Users, url \in Urls : BeginCreate(q, u, url)
    \/ InsertSite(q) \/ PushScan(q) \/ DeleteSite(q) \/ PurgeScans(q)
    \/ \E s \in SiteIds : BeginTrigger(q, s) \/ BeginDelete(q, s)

=============================================================================
