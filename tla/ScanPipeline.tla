---------------------------- MODULE ScanPipeline ----------------------------
(***************************************************************************)
(* The scan pipeline of gitmon: the server's site routes (SiteRoutes), the *)
(* pool of the worker process (ScanEngine) and its scheduler (CreateWork)  *)
(* around the two tables and the job queue.  Either process may die and is *)
(* started again at once; the worker takes its pool and its scheduler with *)
(* it.                                                                     *)
(***************************************************************************)
EXTENDS SiteRoutes, ScanEngine, CreateWork

CONSTANT MaxCrashes   \* bound of the crashes of a behaviour

ASSUME ScanPipelineAssumption == MaxCrashes \in Nat

VARIABLE crashes      \* how often a process has died

vars == <<sites, scans, now, jobs, req, worker, sched, crashes>>

-----------------------------------------------------------------------------
Init ==
  /\ TablesInit /\ QueueInit
  /\ RoutesInit /\ EngineInit /\ SchedInit
  /\ crashes = 0

ServerStep  == RoutesNext /\ UNCHANGED <<worker, sched, crashes>>
PoolStep    == EngineNext /\ UNCHANGED <<req, sched, crashes>>
PlannerStep == SchedNext  /\ UNCHANGED <<req, worker, crashes>>

ServerCrash ==
  /\ crashes < MaxCrashes /\ crashes' = crashes + 1
  /\ ServerDies
  /\ UNCHANGED <<sites, scans, now, jobs, worker, sched>>

WorkerCrash ==
  /\ crashes < MaxCrashes /\ crashes' = crashes + 1
  /\ EngineDies /\ SchedDies
  /\ UNCHANGED <<sites, scans, now, jobs, req>>

Tick ==
  /\ now < MaxNow /\ now' = now + 1
  /\ UNCHANGED <<sites, scans, jobs, req, worker, sched, crashes>>

Next == ServerStep \/ PoolStep \/ PlannerStep
        \/ ServerCrash \/ WorkerCrash \/ Tick

Spec == Init /\ [][Next]_vars

-----------------------------------------------------------------------------
(* Every variable has its type. *)
TypeOK ==
  /\ TablesTypeOK /\ QueueTypeOK
  /\ RoutesTypeOK /\ EngineTypeOK /\ SchedTypeOK
  /\ crashes \in 0..MaxCrashes

Gone(s) == sites[s].at = "gone"

(* Only a job that names no site, or names one that was deleted, ever uses up
   an attempt: retries and the dead list never hold a job whose site is there
   (ScanEngine.Execute returns nil whatever the fetch and the scanner do). *)
LiveSitesNeverRetry ==
  \A j \in JobIds :
    jobs[j].fails > 0 => jobs[j].site = NoSite \/ Gone(jobs[j].site)

(* Two goroutines never hold the same row or the same job, also after a crash
   hands a job to a second goroutine, and a row in the hands of a goroutine is
   not a saved one (Scans.Start, Scans.Save). *)
OneHolder ==
  \A w \in Workers :
    /\ \A v \in Workers \ {w} :
         /\ worker[w].job # NoJob => worker[v].job # worker[w].job
         /\ worker[w].scan # NoScan => worker[v].scan # worker[w].scan
    /\ worker[w].pc \in {"execute", "handle", "touch", "save"}
         /\ worker[w].scan # NoScan
         => scans[worker[w].scan].scanner = NoScanner

(* The scheduler's jobs are repetitions: when one without a url reaches a
   worker and its site is still there, an earlier scan of the site by the same
   scanner was saved (ScanEngine.ScansDue). *)
OnlyRepeats ==
  \A j \in JobIds :
    Outstanding(j) /\ jobs[j].url = NoUrl /\ LiveSite(jobs[j].site)
      => ScannedBy(jobs[j].site, jobs[j].scanner)

(* The last_scanned_at of a site is the start of a scan of this site that is
   in the table, saved or about to be, or cut off by a crash (Scans.Save
   writes it before the row). *)
LastScannedIsAScan ==
  \A s \in SiteIds :
    sites[s].at = "live" /\ sites[s].last # Never =>
      \E r \in ScanIds : /\ scans[r].at = "live" /\ scans[r].site = s
                         /\ scans[r].created = sites[s].last

(* A saved row is final: no later scan, retry or crash changes it, and once
   deleted it never comes back (Scans.Save, DELETE /admin/sites/:id). *)
SavedRowsAreFinal ==
  [][\A r \in ScanIds : scans[r].scanner # NoScanner =>
       \/ scans'[r] = scans[r]
       \/ scans'[r] = [scans[r] EXCEPT !.at = "gone"]]_vars

-----------------------------------------------------------------------------
(* The inductive invariant behind the properties above. *)

(* A job that may be tried again has an attempt left. *)
AttemptLeft == \A j \in JobIds : jobs[j].at = "dead" \/ jobs[j].fails < MaxFails

(* A busy goroutine holds a job that is running, and alone. *)
HeldJobs ==
  \A w \in Workers :
    /\ worker[w].pc = "idle" <=> worker[w].job = NoJob
    /\ worker[w].pc # "idle" => jobs[worker[w].job].at = "running"
    /\ \A v \in Workers \ {w} :
         worker[w].pc # "idle" => worker[v].job # worker[w].job

(* A goroutine that has started a scan holds its row, alone; the row has no
   scanner until it is saved; a scan gets to the scanner only with a row. *)
HeldRows ==
  /\ \A r \in ScanIds : scans[r].at = "unborn" => scans[r].scanner = NoScanner
  /\ \A w \in Workers :
       /\ worker[w].pc \in {"idle", "start"} =>
            worker[w].scan = NoScan /\ worker[w].site = NoSite
       /\ worker[w].pc = "execute" /\ worker[w].scan = NoScan
            => worker[w].site = NoSite
       /\ worker[w].pc \in {"handle", "touch", "save"} => worker[w].scan # NoScan
       /\ worker[w].scan # NoScan =>
            /\ scans[worker[w].scan].at # "unborn"
            /\ \A v \in Workers \ {w} : worker[v].scan # worker[w].scan
            /\ worker[w].pc \in {"execute", "handle", "touch", "save"}
                 => scans[worker[w].scan].scanner = NoScanner

(* Whatever names a site names one that was registered. *)
Known(s) == s # NoSite => sites[s].at # "unborn"

KnownSites ==
  /\ \A j \in JobIds : Known(jobs[j].site)
  /\ \A q \in Requests : Known(req[q].site)
  /\ \A w \in Workers : Known(worker[w].site)
  /\ \A r \in ScanIds : Known(scans[r].site)
  /\ \A p \in sched.due : Known(p[1])

(* A goroutine works on the site of its job, if the job has one, and fails
   only a job without a site or with a deleted one. *)
HeldSites ==
  \A w \in Workers :
    /\ worker[w].pc \notin {"idle", "start"} /\ JobOf(w).site # NoSite
         => worker[w].site = JobOf(w).site
    /\ worker[w].pc = "fail" => JobOf(w).site = NoSite \/ Gone(JobOf(w).site)

JobInv == TypeOK /\ AttemptLeft /\ HeldJobs

IInv ==
  /\ JobInv /\ HeldRows
  /\ KnownSites /\ HeldSites /\ LiveSitesNeverRetry

-----------------------------------------------------------------------------
(* Refinement: where a pair stands. *)

(* A request is about to push it, a job for it is outstanding, or a goroutine
   is scanning the site (which its job does not name when StartScan inserted
   the site). *)
Awaited(s, c) ==
  \/ \E q \in Requests : req[q].pc = "push" /\ req[q].site = s /\ req[q].next <= c
  \/ \E j \in JobIds : Outstanding(j) /\ jobs[j].site = s /\ jobs[j].scanner = c
  \/ \E w \in Workers : /\ worker[w].pc # "idle" /\ worker[w].site = s
                        /\ JobOf(w).scanner = c

Phase(s, c) ==
  IF sites[s].at # "live" THEN sites[s].at
  ELSE IF ScannedBy(s, c) THEN "in"
  ELSE IF Awaited(s, c)   THEN "pending" ELSE "out"

Monitored(s, c) == INSTANCE Monitoring WITH phase <- Phase(s, c)

(* Monitored(s, c)!Spec for every pair, with one box outside.
   The pipeline keeps the promise of Monitoring: a pair enters the schedule by
   its first saved scan and stays in it until its site is deleted, and a pair
   whose scans came to nothing is not scanned again unless a user asks. *)
KeepsMonitoring ==
  /\ \A s \in SiteIds, c \in ScannerIds : Monitored(s, c)!Init
  /\ [][\A s \in SiteIds, c \in ScannerIds :
          [Monitored(s, c)!Next]_(Phase(s, c))]_vars

-----------------------------------------------------------------------------
(* What the code does not keep. *)

(* scanner.go:127 refuses a scan whose site has the id 0: the handler of a
   job for no site never gets as far as the scanner. *)
InvalidSiteRefused ==
  \A w \in Workers :
    worker[w].pc \in {"handle", "touch", "save"} => JobOf(w).site # NoSite

(* scan.go:69-72 and scanner.go:111-112 compare the latest scan of a pair:
   the scheduler asks for a pair only when its latest saved scan, too, is
   older than the interval of the scanner. *)
LatestIsOld(s, c) ==
  \A r \in ScanIds :
    Finished(r) /\ scans[r].site = s /\ scans[r].scanner = c
      => scans[r].created < sched.at - Interval[c]

OnlyOverdueIsDue ==
  [][\A s \in SiteIds, c \in ScannerIds :
       <<s, c>> \in sched'.due \ sched.due => LatestIsOld(s, c)]_vars

=============================================================================
