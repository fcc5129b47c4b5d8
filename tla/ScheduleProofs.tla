--------------------------- MODULE ScheduleProofs ---------------------------
(***************************************************************************)
(* Proofs about ScanPipeline: the rows of a live site stay, so what the    *)
(* scheduler reads of them stays true until its jobs reach a worker, and   *)
(* the pipeline implements Monitoring.                                     *)
(***************************************************************************)
EXTENDS ScanPipelineProofs

Holding == {"execute", "handle", "touch", "save"}

(* What a request knows of the site it is about to scan or delete: it purges
   the scans of a deleted site only, and a job of a request has a url. *)
RequestSites ==
  \A q \in Requests :
    /\ req[q].pc \in {"insert", "push"} => req[q].url # NoUrl
    /\ req[q].pc \in {"delete", "purge"} => req[q].site \in SiteIds
    /\ req[q].pc = "purge" => Gone(req[q].site)

SitesHaveUrls == \A s \in SiteIds : LiveSite(s) => sites[s].url # NoUrl

(* The row a goroutine holds is of its site and its time, and is there as long
   as the site is. *)
HeldScans ==
  \A w \in Workers :
    worker[w].pc \in Holding /\ worker[w].scan # NoScan =>
      /\ scans[worker[w].scan].site = worker[w].site
      /\ scans[worker[w].scan].created = worker[w].created
      /\ LiveSite(worker[w].site) => scans[worker[w].scan].at = "live"

(* OnlyRepeats for the pairs the scheduler has not pushed yet. *)
DueAreScanned ==
  \A p \in sched.due : LiveSite(p[1]) => ScannedBy(p[1], p[2])

RowsInv == IInv /\ RequestSites /\ SitesHaveUrls /\ HeldScans

ScheduleInv == RowsInv /\ LastScannedIsAScan /\ DueAreScanned /\ OnlyRepeats

-----------------------------------------------------------------------------
(* What a step does. *)

(* To one site: nothing; it is registered, with a url and never scanned; it is
   deleted; or a goroutine writes when it was scanned. *)
LEMMA SiteMoves ==
  ASSUME RowsInv, [Next]_vars, NEW s \in SiteIds
  PROVE  \/ sites'[s] = sites[s]
         \/ /\ sites[s].at = "unborn" /\ sites'[s].last = Never
            /\ sites'[s].at = "live" /\ sites'[s].url # NoUrl
         \/ /\ sites'[s].at = "gone" /\ sites[s].at # "unborn"
            /\ \E q \in Requests : DeleteSite(q) /\ req[q].site = s
         \/ /\ sites[s].at = "live" /\ sites'[s].at = "live"
            /\ sites'[s].url = sites[s].url
            /\ \E w \in Workers : /\ TouchSite(w) /\ worker[w].site = s
                                  /\ sites'[s].last = worker[w].created
<1> DEFINE Moves ==
         \/ sites'[s] = sites[s]
         \/ /\ sites[s].at = "unborn" /\ sites'[s].last = Never
            /\ sites'[s].at = "live" /\ sites'[s].url # NoUrl
         \/ /\ sites'[s].at = "gone" /\ sites[s].at # "unborn"
            /\ \E q \in Requests : DeleteSite(q) /\ req[q].site = s
         \/ /\ sites[s].at = "live" /\ sites'[s].at = "live"
            /\ sites'[s].url = sites[s].url
            /\ \E w \in Workers : /\ TouchSite(w) /\ worker[w].site = s
                                  /\ sites'[s].last = worker[w].created
<1>0. sites \in [SiteIds -> SiteRow]
  BY DEF RowsInv, IInv, JobInv, TypeOK, TablesTypeOK
<1>1. CASE UNCHANGED sites
  BY <1>1
<1>2. ASSUME NEW u, NEW url, url # NoUrl, Fresh(sites) # {},
             sites' = [sites EXCEPT ![NextId(sites)] = SiteOf(u, url)]
      PROVE  Moves
  <2>1. NextId(sites) \in SiteIds /\ sites[NextId(sites)].at = "unborn"
    BY <1>0, <1>2, NextIdIsFresh
  <2> QED BY <1>0, <1>2, <2>1 DEF SiteOf, Never
<1>3. ASSUME NEW q \in Requests, InsertSite(q) PROVE Moves
  BY <1>1, <1>2, <1>3 DEF InsertSite, RowsInv, RequestSites
<1>4. ASSUME NEW q \in Requests, DeleteSite(q) PROVE Moves
  <2>1. req[q].site \in SiteIds /\ sites[req[q].site].at # "unborn"
    BY <1>4, TablesAssumption
       DEF DeleteSite, RowsInv, RequestSites, IInv, KnownSites, Known
  <2> QED BY <1>0, <1>4, <2>1 DEF DeleteSite, SiteRow
<1>5. ASSUME NEW w \in Workers, StartScan(w) PROVE Moves
  BY <1>1, <1>2, <1>5 DEF StartScan
<1>6. ASSUME NEW w \in Workers, TouchSite(w) PROVE Moves
  <2> DEFINE t == worker[w].site
  <2>1. CASE LiveSite(t)
    <3>1. t \in SiteIds /\ sites[t].at = "live"
          /\ sites' = [sites EXCEPT ![t].last = worker[w].created]
      BY <1>6, <2>1 DEF TouchSite, LiveSite
    <3> QED BY <1>0, <1>6, <3>1 DEF SiteRow
  <2>2. CASE ~LiveSite(t)
    BY <1>1, <1>6, <2>2 DEF TouchSite
  <2> QED BY <2>1, <2>2
<1>7. CASE ServerStep
  BY <1>1, <1>3, <1>4, <1>7
     DEF ServerStep, RoutesNext, BeginCreate, PushScan, BeginTrigger,
         BeginDelete, PurgeScans
<1>8. CASE PoolStep
  BY <1>1, <1>5, <1>6, <1>8
     DEF PoolStep, EngineNext, WorkerStep, Retry, Reap, Fetch, Execute,
         FetchFails, Handled, SaveRow, Ack, Fail
<1>9. CASE PlannerStep \/ ServerCrash \/ WorkerCrash \/ Tick \/ UNCHANGED vars
  BY <1>1, <1>9
     DEF PlannerStep, SchedNext, SchedStep, StartCreateWork, QueryDue, PushDue,
         ServerCrash, WorkerCrash, Tick, vars
<1> QED
  BY <1>7, <1>8, <1>9 DEF Next

(* To one row: nothing; it is opened, without a scanner, for a site that is not
   new or that the same step inserts; it is purged with the others of its site;
   or the goroutine that holds it saves it. *)
LEMMA RowMoves ==
  ASSUME RowsInv, [Next]_vars, NEW r \in ScanIds
  PROVE  \/ scans'[r] = scans[r]
         \/ scans[r].at = "unborn" /\ scans'[r].scanner = NoScanner
         \/ /\ scans'[r] = [scans[r] EXCEPT !.at = "gone"]
            /\ \E q \in Requests : PurgeScans(q) /\ scans[r].site = req[q].site
         \/ \E w \in Workers :
              /\ SaveRow(w) /\ worker[w].scan = r /\ scans'[r].at = "live"
              /\ scans'[r].site = worker[w].site
              /\ scans'[r].created = worker[w].created
              /\ scans'[r].scanner = JobOf(w).scanner
<1> DEFINE Moves ==
         \/ scans'[r] = scans[r]
         \/ scans[r].at = "unborn" /\ scans'[r].scanner = NoScanner
         \/ /\ scans'[r] = [scans[r] EXCEPT !.at = "gone"]
            /\ \E q \in Requests : PurgeScans(q) /\ scans[r].site = req[q].site
         \/ \E w \in Workers :
              /\ SaveRow(w) /\ worker[w].scan = r /\ scans'[r].at = "live"
              /\ scans'[r].site = worker[w].site
              /\ scans'[r].created = worker[w].created
              /\ scans'[r].scanner = JobOf(w).scanner
<1>0. scans \in [ScanIds -> ScanRow]
  BY DEF RowsInv, IInv, JobInv, TypeOK, TablesTypeOK
<1>1. CASE UNCHANGED scans
  BY <1>1
<1>2. ASSUME NEW q \in Requests, PurgeScans(q) PROVE Moves
  BY <1>0, <1>2 DEF PurgeScans
<1>3. ASSUME NEW w, NEW s, OpenRow(w, s) PROVE Moves
  <2>1. NextId(scans) \in ScanIds /\ scans[NextId(scans)].at = "unborn"
    BY <1>0, <1>3, NextIdIsFresh DEF OpenRow
  <2> QED BY <1>0, <1>3, <2>1 DEF OpenRow, UnbornScan, NoScanner
<1>4. ASSUME NEW w \in Workers, StartScan(w) PROVE Moves
  BY <1>1, <1>3, <1>4 DEF StartScan
<1>5. ASSUME NEW w \in Workers, SaveRow(w) PROVE Moves
  BY <1>0, <1>5 DEF SaveRow
<1>6. CASE ServerStep
  BY <1>1, <1>2, <1>6
     DEF ServerStep, RoutesNext, BeginCreate, InsertSite, PushScan,
         BeginTrigger, BeginDelete, DeleteSite
<1>7. CASE PoolStep
  BY <1>1, <1>4, <1>5, <1>7
     DEF PoolStep, EngineNext, WorkerStep, Retry, Reap, Fetch, Execute,
         FetchFails, Handled, TouchSite, Ack, Fail
<1>8. CASE PlannerStep \/ ServerCrash \/ WorkerCrash \/ Tick \/ UNCHANGED vars
  BY <1>1, <1>8
     DEF PlannerStep, SchedNext, SchedStep, StartCreateWork, QueryDue, PushDue,
         ServerCrash, WorkerCrash, Tick, vars
<1> QED
  BY <1>6, <1>7, <1>8 DEF Next

(* To the goroutine that holds a row after the step: it held it before, for
   the same site and time, or it has just opened it. *)
LEMMA HolderMoves ==
  ASSUME RowsInv, [Next]_vars, NEW w \in Workers,
         worker'[w].pc \in Holding, worker'[w].scan # NoScan
  PROVE  \/ /\ worker[w].pc \in Holding /\ worker'[w].scan = worker[w].scan
            /\ worker'[w].site = worker[w].site
            /\ worker'[w].created = worker[w].created
         \/ /\ scans'[worker'[w].scan].at = "live"
            /\ scans'[worker'[w].scan].site = worker'[w].site
            /\ scans'[worker'[w].scan].created = worker'[w].created
<1> DEFINE Moves ==
         \/ /\ worker[w].pc \in Holding /\ worker'[w].scan = worker[w].scan
            /\ worker'[w].site = worker[w].site
            /\ worker'[w].created = worker[w].created
         \/ /\ scans'[worker'[w].scan].at = "live"
            /\ scans'[worker'[w].scan].site = worker'[w].site
            /\ scans'[worker'[w].scan].created = worker'[w].created
<1>0. worker \in [Workers -> WorkerRow] /\ scans \in [ScanIds -> ScanRow]
  BY DEF RowsInv, IInv, JobInv, TypeOK, EngineTypeOK, TablesTypeOK
<1>1. CASE worker'[w] = worker[w]
  BY <1>1
<1>2. ASSUME NEW v \in Workers, NEW j, Fetch(v, j) PROVE Moves
  BY <1>0, <1>1, <1>2 DEF Fetch, Holding
<1>3. ASSUME NEW v \in Workers, NEW s, OpenRow(v, s) PROVE Moves
  <2>1. CASE v # w
    BY <1>0, <1>1, <1>3, <2>1 DEF OpenRow
  <2>2. CASE v = w
    <3>1. NextId(scans) \in ScanIds
      BY <1>0, <1>3, NextIdIsFresh DEF OpenRow
    <3>2. /\ worker'[w].scan = NextId(scans) /\ worker'[w].site = s
          /\ worker'[w].created = now
      BY <1>0, <1>3, <2>2 DEF OpenRow, WorkerRow
    <3>3. /\ scans'[NextId(scans)].at = "live" /\ scans'[NextId(scans)].site = s
          /\ scans'[NextId(scans)].created = now
      BY <1>0, <1>3, <3>1 DEF OpenRow, UnbornScan
    <3> QED BY <3>2, <3>3
  <2> QED BY <2>1, <2>2
<1>4. ASSUME NEW v \in Workers, StartScan(v) PROVE Moves
  <2>1. CASE worker' = [worker EXCEPT ![v].pc = "execute", ![v].created = now]
    <3>1. v = w => worker[w].scan = NoScan
      BY <1>4 DEF StartScan, RowsInv, IInv, HeldRows
    <3> QED BY <1>0, <1>1, <2>1, <3>1 DEF WorkerRow
  <2> QED BY <1>3, <1>4, <2>1 DEF StartScan
<1>5. ASSUME NEW v \in Workers, NEW x \in {0, 1, 3},
             \/ Execute(v) \/ FetchFails(v) \/ Handled(v, x)
             \/ TouchSite(v) \/ SaveRow(v)
      PROVE  Moves
  BY <1>0, <1>1, <1>5
     DEF Execute, FetchFails, Handled, TouchSite, SaveRow, WorkerRow, Holding
<1>6. ASSUME NEW v \in Workers, Ack(v) \/ Fail(v) PROVE Moves
  BY <1>0, <1>1, <1>6 DEF Ack, Fail, IdleWorker, Holding
<1>7. CASE WorkerCrash
  BY <1>7 DEF WorkerCrash, EngineDies, IdleWorker, Holding
<1>8. CASE PoolStep
  BY <1>1, <1>2, <1>4, <1>5, <1>6, <1>8
     DEF PoolStep, EngineNext, WorkerStep, Retry, Reap
<1>9. CASE ServerStep \/ PlannerStep \/ ServerCrash \/ Tick \/ UNCHANGED vars
  BY <1>1, <1>9 DEF ServerStep, PlannerStep, ServerCrash, Tick, vars
<1> QED
  BY <1>7, <1>8, <1>9 DEF Next

(* A site that is there after a step and was registered was there before. *)
LEMMA LiveWasLive ==
  ASSUME RowsInv, [Next]_vars, NEW s \in SiteIds \cup {NoSite}, Known(s),
         LiveSite(s)'
  PROVE  LiveSite(s)
<1>1. s \in SiteIds /\ sites[s].at \in {"unborn", "live", "gone"}
  BY DEF LiveSite, RowsInv, IInv, JobInv, TypeOK, TablesTypeOK, SiteRow, Lifetime
<1>2. sites[s].at # "unborn" /\ sites[s].at # "gone"
  BY <1>1, SitesMoveOn, TablesAssumption
     DEF Known, Gone, LiveSite, RowsInv, IInv
<1> QED
  BY <1>1, <1>2 DEF LiveSite

(* The rows of a site that is there after a step stay, and what they say of
   the site stays too. *)
LEMMA RowsStay ==
  ASSUME RowsInv, [Next]_vars, NEW r \in ScanIds, NEW s \in SiteIds,
         scans[r].at = "live", scans[r].site = s, LiveSite(s)'
  PROVE  /\ scans'[r].at = "live" /\ scans'[r].site = s
         /\ scans'[r].created = scans[r].created
         /\ scans[r].scanner # NoScanner => scans'[r].scanner = scans[r].scanner
<1>1. ASSUME NEW q \in Requests, PurgeScans(q), s = req[q].site
      PROVE  FALSE
  <2>1. Gone(s)
    BY <1>1 DEF PurgeScans, RowsInv, RequestSites
  <2>2. UNCHANGED sites
    BY <1>1 DEF PurgeScans
  <2> QED BY <2>1, <2>2 DEF Gone, LiveSite
<1>2. ASSUME NEW w \in Workers, SaveRow(w), worker[w].scan = r,
             scans'[r].site = worker[w].site, scans'[r].created = worker[w].created
      PROVE  /\ scans'[r].site = s
             /\ scans'[r].created = scans[r].created
             /\ scans[r].scanner = NoScanner
  <2>1. worker[w].pc \in Holding /\ worker[w].scan # NoScan
    BY <1>2, TablesAssumption DEF SaveRow, Holding
  <2>2. worker[w].pc = "save"
    BY <1>2 DEF SaveRow
  <2> QED BY <1>2, <2>1, <2>2 DEF RowsInv, HeldScans, IInv, HeldRows
<1> QED
  BY <1>1, <1>2, RowMoves

(* A pair that was scanned stays so while its site is there. *)
LEMMA ScannedStays ==
  ASSUME RowsInv, [Next]_vars, NEW s \in SiteIds, NEW c, ScannedBy(s, c),
         LiveSite(s)'
  PROVE  ScannedBy(s, c)'
<1>1. PICK r \in ScanIds : /\ Finished(r) /\ scans[r].site = s
                           /\ scans[r].scanner = c
  BY DEF ScannedBy
<1>2. /\ scans'[r].at = "live" /\ scans'[r].site = s /\ scans'[r].scanner = c
      /\ c # NoScanner
  BY <1>1, RowsStay DEF Finished
<1> QED
  BY <1>2 DEF ScannedBy, Finished

-----------------------------------------------------------------------------
(* The invariant about sites and rows. *)

(* No site and no row is there at first. *)
LEMMA RowsInvInit == Init => RowsInv
<1> SUFFICES ASSUME Init PROVE RowsInv
  OBVIOUS
<1>1. IInv
  BY JobInvInit, HeldRowsInit, KnownSitesInit DEF IInv
<1>2. RequestSites
  BY DEF Init, RoutesInit, RequestSites, IdleRequest
<1>3. SitesHaveUrls
  BY DEF Init, TablesInit, SitesHaveUrls, LiveSite, UnbornSite
<1>4. HeldScans
  BY DEF Init, EngineInit, IdleWorker, HeldScans
<1> QED
  BY <1>1, <1>2, <1>3, <1>4 DEF RowsInv

(* A request keeps what it knows: a site that it purges stays deleted. *)
LEMMA RequestSitesStep ==
  RowsInv /\ [Next]_vars => RequestSites' /\ SitesHaveUrls'
<1> SUFFICES ASSUME RowsInv, [Next]_vars PROVE RequestSites' /\ SitesHaveUrls'
  OBVIOUS
<1>0. /\ req \in [Requests -> RequestRow] /\ sites \in [SiteIds -> SiteRow]
      /\ RequestSites /\ SitesHaveUrls /\ JobInv
  BY DEF RowsInv, IInv, JobInv, TypeOK, RoutesTypeOK, TablesTypeOK
<1>1. SitesHaveUrls'
  BY <1>0, SiteMoves DEF SitesHaveUrls, LiveSite
<1>2. ASSUME NEW q \in Requests
      PROVE  /\ req'[q].pc \in {"insert", "push"} => req'[q].url # NoUrl
             /\ req'[q].pc \in {"delete", "purge"} => req'[q].site \in SiteIds
             /\ req'[q].pc = "purge" => sites'[req'[q].site].at = "gone"
  <2> DEFINE Knows ==
        /\ req'[q].pc \in {"insert", "push"} => req'[q].url # NoUrl
        /\ req'[q].pc \in {"delete", "purge"} => req'[q].site \in SiteIds
        /\ req'[q].pc = "purge" => sites'[req'[q].site].at = "gone"
  <2>1. CASE req'[q] = req[q]
    <3>1. \A s \in SiteIds : Gone(s) => sites'[s].at = "gone"
      BY <1>0, SitesMoveOn DEF Gone
    <3> QED BY <1>0, <2>1, <3>1 DEF RequestSites
  <2>2. ASSUME NEW p \in Requests, NEW u \in Users, NEW url \in Urls,
               BeginCreate(p, u, url)
        PROVE  Knows
    BY <1>0, <2>1, <2>2, TablesAssumption DEF BeginCreate, IdleRequest
  <2>3. ASSUME NEW p \in Requests, InsertSite(p) \/ PushScan(p) \/ PurgeScans(p)
        PROVE  Knows
    BY <1>0, <2>1, <2>3
       DEF InsertSite, PushScan, PurgeScans, RequestSites, RequestRow, IdleRequest
  <2>4. ASSUME NEW p \in Requests, NEW s \in SiteIds,
               BeginTrigger(p, s) \/ BeginDelete(p, s)
        PROVE  Knows
    BY <1>0, <2>1, <2>4
       DEF BeginTrigger, BeginDelete, IdleRequest, SitesHaveUrls
  <2>5. ASSUME NEW p \in Requests, DeleteSite(p) PROVE Knows
    <3>1. CASE p # q
      BY <1>0, <2>1, <2>5, <3>1 DEF DeleteSite
    <3>2. CASE p = q
      <4>1. req[q].site \in SiteIds /\ sites' = [sites EXCEPT ![req[q].site].at = "gone"]
        BY <1>0, <2>5, <3>2 DEF DeleteSite, RequestSites
      <4>2. req'[q].pc = "purge" /\ req'[q].site = req[q].site
        BY <1>0, <2>5, <3>2 DEF DeleteSite, RequestRow
      <4>3. sites'[req[q].site].at = "gone"
        BY <1>0, <4>1 DEF SiteRow
      <4> QED BY <4>1, <4>2, <4>3
    <3> QED BY <3>1, <3>2
  <2>6. CASE ServerCrash
    BY <2>6 DEF ServerCrash, ServerDies, IdleRequest
  <2>7. CASE ServerStep
    BY <2>2, <2>3, <2>4, <2>5, <2>7 DEF ServerStep, RoutesNext
  <2>8. CASE PoolStep \/ PlannerStep \/ WorkerCrash \/ Tick \/ UNCHANGED vars
    BY <2>1, <2>8 DEF PoolStep, PlannerStep, WorkerCrash, Tick, vars
  <2> QED BY <2>6, <2>7, <2>8 DEF Next
<1> QED
  BY <1>1, <1>2 DEF RequestSites, Gone

(* A goroutine keeps the row it holds while its site is there. *)
LEMMA HeldScansStep == RowsInv /\ [Next]_vars => HeldScans'
<1> SUFFICES ASSUME RowsInv, [Next]_vars, NEW w \in Workers,
                    worker'[w].pc \in Holding, worker'[w].scan # NoScan
             PROVE  /\ scans'[worker'[w].scan].site = worker'[w].site
                    /\ scans'[worker'[w].scan].created = worker'[w].created
                    /\ LiveSite(worker[w].site)' => scans'[worker'[w].scan].at = "live"
  BY DEF HeldScans
<1>0. /\ worker \in [Workers -> WorkerRow] /\ JobInv /\ HeldRows /\ KnownSites
      /\ scans \in [ScanIds -> ScanRow]
  BY DEF RowsInv, IInv, JobInv, TypeOK, EngineTypeOK, TablesTypeOK
<1>1. CASE /\ scans'[worker'[w].scan].at = "live"
           /\ scans'[worker'[w].scan].site = worker'[w].site
           /\ scans'[worker'[w].scan].created = worker'[w].created
  BY <1>1
<1>2. CASE /\ worker[w].pc \in Holding /\ worker'[w].scan = worker[w].scan
           /\ worker'[w].site = worker[w].site
           /\ worker'[w].created = worker[w].created
  <2>0. PICK r \in ScanIds, s \in SiteIds \cup {NoSite} :
          worker[w].scan = r /\ worker[w].site = s
    BY <1>0, <1>2 DEF WorkerRow
  <2>1. /\ scans[r].site = s /\ scans[r].created = worker[w].created
        /\ LiveSite(s) => scans[r].at = "live"
        /\ scans[r].at # "unborn" /\ Known(s)
    BY <1>0, <1>2, <2>0 DEF RowsInv, HeldScans, HeldRows, KnownSites
  <2>2. scans'[r].site = s /\ scans'[r].created = worker[w].created
    <3>1. ASSUME NEW v \in Workers, SaveRow(v), worker[v].scan = r PROVE FALSE
      <4>1. v = w
        BY <1>0, <1>2, <2>0, <3>1 DEF HeldRows
      <4>2. worker'[w].pc = "ack"
        BY <1>0, <3>1, <4>1 DEF SaveRow, WorkerRow
      <4> QED BY <4>2 DEF Holding
    <3>2. scans'[r] = scans[r] \/ scans'[r] = [scans[r] EXCEPT !.at = "gone"]
      BY <2>1, <3>1, RowMoves
    <3> QED BY <1>0, <2>1, <3>2 DEF ScanRow
  <2>3. LiveSite(s)' => scans'[r].at = "live"
    <3> SUFFICES ASSUME LiveSite(s)' PROVE scans'[r].at = "live"
      OBVIOUS
    <3>1. LiveSite(s) /\ s \in SiteIds
      BY <2>1, LiveWasLive DEF LiveSite
    <3> QED BY <2>1, <3>1, RowsStay
  <2>4. LiveSite(worker[w].site)' => LiveSite(s)'
    BY <1>2, <2>0 DEF LiveSite
  <2> QED BY <1>2, <2>0, <2>2, <2>3, <2>4
<1> QED
  BY <1>1, <1>2, HolderMoves

(* Every step keeps the invariant of ScanPipelineProofs. *)
LEMMA IInvStep == IInv /\ [Next]_vars => IInv'
BY JobInvStep, HeldRowsStep, KnownSitesStep, HeldSitesStep,
   LiveSitesNeverRetryStep DEF IInv

(* Every step keeps what the requests and goroutines know of sites and rows. *)
LEMMA RowsInvStep == RowsInv /\ [Next]_vars => RowsInv'
BY IInvStep, RequestSitesStep, HeldScansStep DEF RowsInv

-----------------------------------------------------------------------------
(* What the scheduler and the users read. *)

(* last_scanned_at is the start of a row of the site: the goroutine that wrote
   it holds that row. *)
LEMMA LastScannedStep ==
  RowsInv /\ LastScannedIsAScan /\ [Next]_vars => LastScannedIsAScan'
<1> SUFFICES ASSUME RowsInv, LastScannedIsAScan, [Next]_vars, NEW s \in SiteIds,
                    sites'[s].at = "live", sites'[s].last # Never
             PROVE  \E r \in ScanIds : /\ scans'[r].at = "live" /\ scans'[r].site = s
                                       /\ scans'[r].created = sites'[s].last
  BY DEF LastScannedIsAScan
<1>0. /\ worker \in [Workers -> WorkerRow] /\ JobInv /\ HeldRows
      /\ LiveSite(s)'
  BY DEF RowsInv, IInv, JobInv, TypeOK, EngineTypeOK, LiveSite
<1>1. CASE sites'[s] = sites[s]
  <2>1. PICK r \in ScanIds : /\ scans[r].at = "live" /\ scans[r].site = s
                             /\ scans[r].created = sites[s].last
    BY <1>1 DEF LastScannedIsAScan
  <2> QED BY <1>0, <1>1, <2>1, RowsStay
<1>2. ASSUME NEW w \in Workers, TouchSite(w), worker[w].site = s,
             sites'[s].last = worker[w].created, sites[s].at = "live"
      PROVE  \E r \in ScanIds : /\ scans'[r].at = "live" /\ scans'[r].site = s
                                /\ scans'[r].created = sites'[s].last
  <2>1. worker[w].pc = "touch" /\ worker[w].scan \in ScanIds /\ UNCHANGED scans
    BY <1>0, <1>2 DEF TouchSite, HeldRows, WorkerRow
  <2>2. worker[w].scan # NoScan
    BY <2>1, TablesAssumption
  <2> QED BY <1>2, <2>1, <2>2 DEF RowsInv, HeldScans, Holding, LiveSite
<1> QED
  BY <1>1, <1>2, SiteMoves

(* A job that is outstanding after a step was so before, with the same
   arguments; or a request pushed it, with a url; or the scheduler did. *)
LEMMA OutstandingMoves ==
  ASSUME RowsInv, [Next]_vars, NEW j \in JobIds, Outstanding(j)'
  PROVE  \/ /\ Outstanding(j) /\ jobs'[j].site = jobs[j].site
            /\ jobs'[j].url = jobs[j].url /\ jobs'[j].scanner = jobs[j].scanner
         \/ jobs'[j].url # NoUrl
         \/ /\ UNCHANGED <<sites, scans>>
            /\ <<jobs'[j].site, jobs'[j].scanner>> \in sched.due
<1> DEFINE Moves ==
         \/ /\ Outstanding(j) /\ jobs'[j].site = jobs[j].site
            /\ jobs'[j].url = jobs[j].url /\ jobs'[j].scanner = jobs[j].scanner
         \/ jobs'[j].url # NoUrl
         \/ /\ UNCHANGED <<sites, scans>>
            /\ <<jobs'[j].site, jobs'[j].scanner>> \in sched.due
<1>0. jobs \in [JobIds -> JobRow] /\ req \in [Requests -> RequestRow]
      /\ QueueTypeOK /\ jobs'[j].at \in {"queued", "running", "retry"}
  BY DEF RowsInv, IInv, JobInv, TypeOK, QueueTypeOK, RoutesTypeOK, Outstanding
<1>1. CASE jobs'[j] = jobs[j]
  BY <1>0, <1>1 DEF Outstanding
<1>2. ASSUME NEW q \in Requests, PushScan(q) PROVE Moves
  <2> DEFINE load == ScanJob(req[q].site, req[q].url, req[q].next)
  <2>1. load \in JobRow /\ load.url # NoUrl
    <3>1. /\ req[q].site \in SiteIds \cup {NoSite}
          /\ req[q].url \in Urls \cup {NoUrl} /\ req[q].next \in ScannerIds
      BY <1>0 DEF RequestRow
    <3>2. load.url # NoUrl
      BY <1>2 DEF PushScan, RowsInv, RequestSites, ScanJob
    <3> QED BY <3>1, <3>2, ScanJobFacts
  <2>2. Push(load)
    BY <1>2 DEF PushScan
  <2> HIDE DEF load
  <2> QED BY <1>0, <1>1, <2>1, <2>2, PushFacts
<1>3. ASSUME NEW s \in SiteIds, NEW c \in ScannerIds, PushDue(s, c) PROVE Moves
  <2> DEFINE load == ScanJob(s, NoUrl, c)
  <2>1. load \in JobRow /\ load.site = s /\ load.scanner = c
    BY ScanJobFacts DEF ScanJob
  <2>2. Push(load) /\ <<s, c>> \in sched.due /\ UNCHANGED <<sites, scans>>
    BY <1>3 DEF PushDue
  <2> HIDE DEF load
  <2> QED BY <1>0, <1>1, <2>1, <2>2, PushFacts
<1>4. ASSUME NEW w \in Workers, NEW i \in JobIds, Fetch(w, i) PROVE Moves
  BY <1>0, <1>1, <1>4 DEF Fetch, Take, JobRow, Outstanding
<1>5. ASSUME NEW i \in JobIds, Retry(i) \/ Reap(i) PROVE Moves
  BY <1>0, <1>1, <1>5 DEF Retry, Reap, Requeue, PutBack, JobRow, Outstanding
<1>6. ASSUME NEW w \in Workers, Ack(w) \/ Fail(w) PROVE Moves
  <2> DEFINE i == worker[w].job
  <2>0. i \in JobIds /\ jobs[i].at = "running"
    BY <1>6, WorkQueueAssumption
       DEF Ack, Fail, RowsInv, IInv, JobInv, HeldJobs, TypeOK, EngineTypeOK, WorkerRow
  <2>1. CASE Ack(w)
    <3>1. i = j => jobs'[j].at = "done"
      BY <1>0, <2>0, <2>1 DEF Ack, Settle, UnbornJob
    <3> QED BY <1>0, <1>1, <2>0, <2>1, <3>1 DEF Ack, Settle
  <2>2. CASE Fail(w)
    BY <1>0, <1>1, <2>0, <2>2 DEF Fail, Reject, JobRow, Outstanding
  <2> QED BY <1>6, <2>1, <2>2
<1>7. CASE ServerStep
  BY <1>1, <1>2, <1>7
     DEF ServerStep, RoutesNext, BeginCreate, InsertSite, BeginTrigger,
         BeginDelete, DeleteSite, PurgeScans
<1>8. CASE PoolStep
  BY <1>1, <1>4, <1>5, <1>6, <1>8
     DEF PoolStep, EngineNext, WorkerStep, StartScan, Execute, FetchFails,
         Handled, TouchSite, SaveRow
<1>9. CASE PlannerStep
  BY <1>1, <1>3, <1>9
     DEF PlannerStep, SchedNext, SchedStep, StartCreateWork, QueryDue
<1>10. CASE ServerCrash \/ WorkerCrash \/ Tick \/ UNCHANGED vars
  BY <1>1, <1>10 DEF ServerCrash, WorkerCrash, Tick, vars
<1> QED
  BY <1>7, <1>8, <1>9, <1>10 DEF Next

(* A pair that is due after a step was so before, or a query has just read a
   saved scan of it. *)
LEMMA DueMoves ==
  ASSUME RowsInv, [Next]_vars, NEW p \in sched'.due
  PROVE  \/ p \in sched.due
         \/ p \in Pairs /\ UNCHANGED <<sites, scans>> /\ ScannedBy(p[1], p[2])
<1> DEFINE Moves ==
         \/ p \in sched.due
         \/ p \in Pairs /\ UNCHANGED <<sites, scans>> /\ ScannedBy(p[1], p[2])
<1>1. CASE UNCHANGED sched
  BY <1>1
<1>2. ASSUME NEW todo, NEW due, Proceed(todo, due) PROVE sched'.due \subseteq due
  BY <1>2 DEF Proceed, IdleSched
<1>3. CASE StartCreateWork
  BY <1>3 DEF StartCreateWork
<1>4. ASSUME NEW c \in ScannerIds, QueryDue(c) PROVE Moves
  <2>1. PICK P \in Page(DueSites(c, sched.at - Interval[c])) :
          Proceed(sched.todo \ {c}, sched.due \cup (P \X {c}))
    BY <1>4 DEF QueryDue
  <2>2. p \in sched.due \/ p \in P \X {c}
    BY <1>2, <2>1
  <2>3. P \subseteq SiteIds /\ \A s \in P : ScannedBy(s, c)
    BY <2>1 DEF Page, DueSites, ScannedBy
  <2> QED BY <1>4, <2>2, <2>3 DEF QueryDue, Pairs
<1>5. ASSUME NEW s \in SiteIds, NEW c \in ScannerIds, PushDue(s, c) PROVE Moves
  BY <1>2, <1>5 DEF PushDue
<1>6. CASE WorkerCrash
  BY <1>6 DEF WorkerCrash, SchedDies, IdleSched
<1>7. CASE PlannerStep
  BY <1>3, <1>4, <1>5, <1>7 DEF PlannerStep, SchedNext, SchedStep
<1>8. CASE ServerStep \/ PoolStep \/ ServerCrash \/ Tick \/ UNCHANGED vars
  BY <1>1, <1>8 DEF ServerStep, PoolStep, ServerCrash, Tick, vars
<1> QED
  BY <1>6, <1>7, <1>8 DEF Next

(* What the scheduler has read of a live site is true until it is pushed, *)
LEMMA DueAreScannedStep ==
  RowsInv /\ DueAreScanned /\ [Next]_vars => DueAreScanned'
<1> SUFFICES ASSUME RowsInv, DueAreScanned, [Next]_vars, NEW p \in sched'.due,
                    LiveSite(p[1])'
             PROVE  ScannedBy(p[1], p[2])'
  BY DEF DueAreScanned
<1>1. CASE p \in sched.due
  <2>1. p[1] \in SiteIds /\ Known(p[1])
    BY <1>1 DEF RowsInv, IInv, JobInv, TypeOK, SchedTypeOK, SchedRow, Pairs,
                KnownSites
  <2> QED BY <1>1, <2>1, LiveWasLive, ScannedStays DEF DueAreScanned
<1>2. CASE p \in Pairs /\ UNCHANGED <<sites, scans>> /\ ScannedBy(p[1], p[2])
  BY <1>2 DEF ScannedBy, Finished
<1> QED
  BY <1>1, <1>2, DueMoves

(* and from then on until the job is done. *)
LEMMA OnlyRepeatsStep ==
  RowsInv /\ DueAreScanned /\ OnlyRepeats /\ [Next]_vars => OnlyRepeats'
<1> SUFFICES ASSUME RowsInv, DueAreScanned, OnlyRepeats, [Next]_vars,
                    NEW j \in JobIds, Outstanding(j)', jobs'[j].url = NoUrl,
                    LiveSite(jobs[j].site)'
             PROVE  ScannedBy(jobs[j].site, jobs[j].scanner)'
  BY DEF OnlyRepeats
<1>0. PICK s \in SiteIds, c \in ScannerIds \cup {NoScanner} :
        jobs'[j].site = s /\ jobs'[j].scanner = c
  BY RowsInvStep
     DEF RowsInv, IInv, JobInv, TypeOK, QueueTypeOK, JobRow, LiveSite
<1>1. LiveSite(s)'
  BY <1>0 DEF LiveSite
<1>2. CASE /\ Outstanding(j) /\ jobs'[j].site = jobs[j].site
           /\ jobs'[j].url = jobs[j].url /\ jobs'[j].scanner = jobs[j].scanner
  <2>1. Known(s)
    BY <1>0, <1>2 DEF RowsInv, IInv, KnownSites
  <2>2. LiveSite(s)
    BY <1>1, <2>1, LiveWasLive
  <2>3. ScannedBy(s, c)
    BY <1>0, <1>2, <2>2 DEF OnlyRepeats
  <2>4. ScannedBy(s, c)'
    BY <1>1, <2>3, ScannedStays
  <2> QED BY <1>0, <2>4 DEF ScannedBy
<1>3. CASE /\ UNCHANGED <<sites, scans>>
           /\ <<jobs'[j].site, jobs'[j].scanner>> \in sched.due
  <2>1. LiveSite(s) /\ <<s, c>> \in sched.due
    BY <1>0, <1>1, <1>3 DEF LiveSite
  <2>2. ScannedBy(s, c)
    BY <2>1 DEF DueAreScanned
  <2> QED BY <1>0, <1>3, <2>2 DEF ScannedBy, Finished
<1> QED
  BY <1>2, <1>3, OutstandingMoves

(* ScheduleInv holds of every behaviour. *)
LEMMA ScheduleInvariant == Spec => []ScheduleInv
<1>1. Init => ScheduleInv
  <2> SUFFICES ASSUME Init PROVE ScheduleInv
    OBVIOUS
  <2>1. LastScannedIsAScan /\ DueAreScanned /\ OnlyRepeats
    BY DEF Init, TablesInit, QueueInit, SchedInit, UnbornSite, UnbornJob,
           IdleSched, LastScannedIsAScan, DueAreScanned, OnlyRepeats, Outstanding
  <2> QED BY <2>1, RowsInvInit DEF ScheduleInv
<1>2. ScheduleInv /\ [Next]_vars => ScheduleInv'
  BY RowsInvStep, LastScannedStep, DueAreScannedStep, OnlyRepeatsStep
     DEF ScheduleInv
<1> QED
  BY <1>1, <1>2, PTL DEF Spec

(* The scheduler repeats scans, it starts none: a job of it that reaches a
   worker while its site is there follows a saved scan of the pair, however old
   the answer of the query is by then (ScanEngine.ScansDue). *)
THEOREM TheSchedulerRepeats == Spec => []OnlyRepeats
<1>1. ScheduleInv => OnlyRepeats
  BY DEF ScheduleInv
<1> QED
  BY <1>1, ScheduleInvariant, PTL

(* The last_scanned_at of a site is the start of a scan whose row is in the
   table, whatever scans, deletions and crashes overlap (Scans.Save). *)
THEOREM LastScannedStaysAScan == Spec => []LastScannedIsAScan
<1>1. ScheduleInv => LastScannedIsAScan
  BY DEF ScheduleInv
<1> QED
  BY <1>1, ScheduleInvariant, PTL

-----------------------------------------------------------------------------
(* The refinement: the pipeline implements Monitoring for every pair. *)

(* A scan of a pair is saved by a goroutine that the pair was awaiting. *)
LEMMA SavedWasAwaited ==
  ASSUME RowsInv, [Next]_vars, NEW s \in SiteIds, NEW c \in ScannerIds,
         ScannedBy(s, c)', ~ScannedBy(s, c), sites[s].at # "unborn"
  PROVE  Awaited(s, c)
<1>1. PICK r \in ScanIds : /\ scans'[r].at = "live" /\ scans'[r].site = s
                           /\ scans'[r].scanner = c /\ c # NoScanner
  BY DEF ScannedBy, Finished
<1>2. scans'[r] # scans[r]
  BY <1>1 DEF ScannedBy, Finished
<1>3. scans \in [ScanIds -> ScanRow]
  BY DEF RowsInv, IInv, JobInv, TypeOK, TablesTypeOK
<1>4. PICK w \in Workers : /\ SaveRow(w) /\ scans'[r].site = worker[w].site
                           /\ scans'[r].scanner = JobOf(w).scanner
  <2>1. scans'[r] # [scans[r] EXCEPT !.at = "gone"]
    BY <1>1, <1>3 DEF ScanRow
  <2>2. scans'[r].scanner # NoScanner
    BY <1>1
  <2> QED BY <1>2, <2>1, <2>2, RowMoves
<1> QED
  BY <1>1, <1>4 DEF Awaited, SaveRow

(* A site that is new has no saved scan. *)
LEMMA NewIsUnscanned ==
  ASSUME RowsInv, [Next]_vars, NEW s \in SiteIds, sites[s].at = "unborn",
         NEW c \in ScannerIds
  PROVE  ~ScannedBy(s, c)'
<1> SUFFICES ASSUME NEW r \in ScanIds, scans'[r].site = s, scans'[r].scanner = c
             PROVE  FALSE
  BY DEF ScannedBy
<1>0. /\ s # NoSite /\ c # NoScanner /\ scans \in [ScanIds -> ScanRow]
      /\ KnownSites
  BY TablesAssumption DEF RowsInv, IInv, JobInv, TypeOK, TablesTypeOK,
     ScannerIds, NoScanner, IsAlive, GitScan
<1>1. scans[r].site # s
  BY <1>0 DEF KnownSites, Known
<1>2. \A w \in Workers : worker[w].site # s
  BY <1>0 DEF KnownSites, Known
<1>3. /\ scans'[r] # scans[r] /\ scans'[r].scanner # NoScanner
      /\ scans'[r] # [scans[r] EXCEPT !.at = "gone"]
  BY <1>0, <1>1 DEF ScanRow
<1> QED
  BY <1>2, <1>3, RowMoves

(* Every step of the pipeline is, for every pair, a step of Monitoring. *)
LEMMA PhaseMoves ==
  ASSUME RowsInv, [Next]_vars, NEW s \in SiteIds, NEW c \in ScannerIds
  PROVE  \/ Phase(s, c)' = Phase(s, c)
         \/ Phase(s, c) = "unborn" /\ Phase(s, c)' \in {"pending", "out"}
         \/ Phase(s, c) = "out" /\ Phase(s, c)' = "pending"
         \/ Phase(s, c) = "pending" /\ Phase(s, c)' \in {"out", "in"}
         \/ Phase(s, c) \in {"pending", "out", "in"} /\ Phase(s, c)' = "gone"
<1> DEFINE Open == IF Awaited(s, c) THEN "pending" ELSE "out"
<1>0. /\ sites[s].at \in {"unborn", "live", "gone"}
      /\ sites'[s].at \in {"unborn", "live", "gone"}
      /\ JobInv
  BY RowsInvStep
     DEF RowsInv, IInv, JobInv, TypeOK, TablesTypeOK, SiteRow, Lifetime
<1>1. /\ sites[s].at # "live" => Phase(s, c) = sites[s].at
      /\ sites[s].at = "live" =>
           Phase(s, c) = IF ScannedBy(s, c) THEN "in" ELSE Open
  BY DEF Phase
<1>2. /\ sites'[s].at # "live" => Phase(s, c)' = sites'[s].at
      /\ sites'[s].at = "live" =>
           Phase(s, c)' = IF ScannedBy(s, c)' THEN "in" ELSE Open'
  BY DEF Phase
<1>3. Open \in {"pending", "out"} /\ Open' \in {"pending", "out"}
  OBVIOUS
<1>4. CASE sites'[s].at = "unborn"
  <2>1. sites[s].at = "unborn"
    BY <1>0, <1>4, SitesMoveOn
  <2> QED BY <1>1, <1>2, <1>4, <2>1
<1>5. CASE sites'[s].at = "gone"
  <2>1. sites[s].at # "unborn"
    BY <1>0, <1>5, SiteMoves
  <2> QED BY <1>0, <1>1, <1>2, <1>3, <1>5, <2>1
<1>6. CASE sites'[s].at = "live"
  <2>1. CASE sites[s].at = "unborn"
    BY <1>1, <1>2, <1>3, <1>6, <2>1, NewIsUnscanned
  <2>2. CASE sites[s].at = "gone"
    BY <1>0, <1>6, <2>2, SitesMoveOn DEF Gone
  <2>3. CASE sites[s].at = "live"
    <3>1. ScannedBy(s, c) => ScannedBy(s, c)'
      BY <1>6, ScannedStays DEF LiveSite
    <3>2. ScannedBy(s, c)' /\ ~ScannedBy(s, c) => Open = "pending"
      BY <2>3, SavedWasAwaited
    <3> QED BY <1>1, <1>2, <1>3, <1>6, <2>3, <3>1, <3>2
  <2> QED BY <1>0, <2>1, <2>2, <2>3
<1> QED
  BY <1>0, <1>4, <1>5, <1>6

(* The pipeline implements Monitoring: a pair enters the schedule by its first
   saved scan and leaves it with its site only, and one whose scans came to
   nothing is scanned again only when a user asks (ScansDue, Scans.Save). *)
THEOREM MonitoringIsKept == Spec => KeepsMonitoring
<1>1. Init => \A s \in SiteIds, c \in ScannerIds : Monitored(s, c)!Init
  <2> SUFFICES ASSUME Init, NEW s \in SiteIds, NEW c \in ScannerIds
               PROVE  Phase(s, c) = "unborn"
    BY DEF Monitored!Init
  <2> QED BY DEF Init, TablesInit, UnbornSite, Phase
<1>2. ScheduleInv /\ [Next]_vars =>
        \A s \in SiteIds, c \in ScannerIds :
          [Monitored(s, c)!Next]_(Phase(s, c))
  <2> SUFFICES ASSUME ScheduleInv, [Next]_vars,
                      NEW s \in SiteIds, NEW c \in ScannerIds
               PROVE  [Monitored(s, c)!Next]_(Phase(s, c))
    OBVIOUS
  <2> QED
    BY PhaseMoves DEF ScheduleInv, Monitored!Next, Monitored!Register,
       Monitored!Request, Monitored!Miss, Monitored!Establish, Monitored!Remove
<1> QED
  BY <1>1, <1>2, ScheduleInvariant, PTL DEF Spec, KeepsMonitoring

=============================================================================
