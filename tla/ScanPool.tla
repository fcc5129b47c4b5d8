------------------------------ MODULE ScanPool ------------------------------
(***************************************************************************)
(* The worker pool on its own: a queue of jobs already pushed, the         *)
(* goroutines of ScanEngine, deletions of sites and crashes of the worker. *)
(* ScanPipeline is about what may happen; this module is about what must:  *)
(* it leaves the server and the scheduler out, so that a behaviour settles *)
(* with ids to spare and fairness can be checked.                          *)
(***************************************************************************)
EXTENDS ScanEngine

CONSTANT MaxCrashes   \* bound of the crashes of a behaviour

ASSUME ScanPoolAssumption == MaxCrashes \in Nat

VARIABLE crashes      \* how often the worker process has died

vars == <<sites, scans, now, jobs, worker, crashes>>

-----------------------------------------------------------------------------
(* The jobs Push is called with: for a site that is there, with its url from
   the server or without from the scheduler, and for the site a lost race of
   Sites.Create left without an id. *)
PushedJobs ==
  {ScanJob(s, url, c) :
     s \in {t \in SiteIds : LiveSite(t)}, url \in Urls \cup {NoUrl},
     c \in ScannerIds}
  \cup {ScanJob(NoSite, url, c) : url \in Urls, c \in ScannerIds}

(* One site is registered, and every job is pushed already: several that
   compete, and then no crash happens, or a single one. *)
Init ==
  /\ \E s \in SiteIds, u \in Users, url \in Urls :
       sites = [t \in SiteIds |-> IF t = s THEN SiteOf(u, url) ELSE UnbornSite]
  /\ scans = [r \in ScanIds |-> UnbornScan]
  /\ now = 0
  /\ \/ /\ jobs \in [JobIds -> PushedJobs]
        /\ crashes = MaxCrashes
     \/ /\ \E j \in JobIds, job \in PushedJobs :
             jobs = [k \in JobIds |-> IF k = j THEN job ELSE UnbornJob]
        /\ crashes = 0
  /\ EngineInit

PoolStep == EngineNext /\ UNCHANGED crashes

SiteDeleted(s) ==
  /\ LiveSite(s) /\ sites[s].user # Nobody
  /\ sites' = [sites EXCEPT ![s].at = "gone"]
  /\ UNCHANGED <<scans, now, jobs, worker, crashes>>

WorkerCrash ==
  /\ crashes < MaxCrashes /\ crashes' = crashes + 1
  /\ EngineDies
  /\ UNCHANGED <<sites, scans, now, jobs>>

Next == PoolStep \/ WorkerCrash \/ \E s \in SiteIds : SiteDeleted(s)

Spec == Init /\ [][Next]_vars

(* Go runs every goroutine that is ready, a fetch ends within its 10 second
   timeout (fetch.go), and the library requeues retries and reaps dead pools.
   The Redis list is first in, first out, so a queued job is not passed over
   for ever.  Nothing is assumed of deletions and crashes. *)
Fairness ==
  /\ \A w \in Workers : WF_vars(WorkerStep(w) /\ UNCHANGED crashes)
  /\ \A j \in JobIds :
       /\ SF_vars(\E w \in Workers : Fetch(w, j) /\ UNCHANGED crashes)
       /\ WF_vars((Retry(j) \/ Reap(j)) /\ UNCHANGED crashes)

FairSpec == Spec /\ Fairness

-----------------------------------------------------------------------------
(* Every job is settled, scanned or dead: no sequence of refusals, retries and
   crashes keeps one in the queue for ever (worker.go, ScanEngine.Execute). *)
JobsSettle == \A j \in JobIds : Outstanding(j) ~> ~Outstanding(j)

(* A job without a url that is queued when its site is deleted is never taken
   for done: it uses up its attempts and ends in the dead list, also when a
   crash hands it back in between (ScanEngine.Execute, "Invalid site"). *)
Doomed(j) ==
  /\ jobs[j].at = "queued" /\ jobs[j].url = NoUrl
  /\ jobs[j].site \in SiteIds /\ sites[jobs[j].site].at = "gone"

DoomedJobsDie == \A j \in JobIds : Doomed(j) ~> jobs[j].at = "dead"

=============================================================================
