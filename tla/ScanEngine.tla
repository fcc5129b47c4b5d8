----------------------------- MODULE ScanEngine -----------------------------
(***************************************************************************)
(* A goroutine of the worker pool handling one ExecuteScanJob at a time:   *)
(* ExecuteScanJob.Handle, ScanEngine.Scan, Scans.Start, ScanEngine.Execute,*)
(* the scanner's own Handle and Scans.Save.  The copies of the site and of *)
(* the scan live in the goroutine; every statement it sends to MySQL is a  *)
(* step of its own.                                                        *)
(***************************************************************************)
EXTENDS WorkQueue

CONSTANT Workers    \* goroutines of the pool (200 in worker.go)

VARIABLE worker     \* what each goroutine is doing

WorkerSteps == {"idle", "start", "execute", "handle", "touch", "save",
                "ack", "fail"}

WorkerRow == [pc : WorkerSteps, job : JobIds \cup {NoJob},
              scan : ScanIds \cup {NoScan}, site : SiteIds \cup {NoSite},
              created : Nat, result : {0, 1, 3}]

IdleWorker == [pc |-> "idle", job |-> NoJob, scan |-> NoScan,
               site |-> NoSite, created |-> 0, result |-> 0]

EngineInit == worker = [w \in Workers |-> IdleWorker]

EngineTypeOK == worker \in [Workers -> WorkerRow]

(* The job in the hands of w. *)
JobOf(w) == jobs[worker[w].job]

(* The Result each scanner may return once its fetch was answered: is_alive
   always 1; git_scan 3 when the site serves its .git/HEAD, 0 otherwise. *)
Verdicts(c) == IF c = IsAlive THEN {1} ELSE {0, 3}

-----------------------------------------------------------------------------
Fetch(w, j) ==
  /\ worker[w].pc = "idle"
  /\ Take(j)
  /\ worker' = [worker EXCEPT ![w].pc = "start", ![w].job = j]
  /\ UNCHANGED <<sites, scans, now>>

(* Mutant of OpenRow: a FirstOrCreate, which takes up a row of the site. *)
OpenRowOrReuse(w, s) ==
  LET old == {r \in ScanIds : scans[r].at = "live" /\ scans[r].site = s}
      row == IF old = {} THEN NextId(scans) ELSE CHOOSE r \in old : TRUE
  IN /\ old # {} \/ Fresh(scans) # {}
     /\ scans' = [scans EXCEPT ![row] = [UnbornScan EXCEPT
                    !.at = "live", !.site = s, !.created = now]]
     /\ worker' = [worker EXCEPT ![w].pc = "execute", ![w].scan = row,
                     ![w].site = s, ![w].created = now]

(* Mutant of OpenRow: the row gets its scanner id at once. *)
OpenRowNamed(w, s) ==
  /\ Fresh(scans) # {}
  /\ scans' = [scans EXCEPT ![NextId(scans)] = [UnbornScan EXCEPT
                 !.at = "live", !.site = s, !.created = now,
                 !.scanner = JobOf(w).scanner]]
  /\ worker' = [worker EXCEPT ![w].pc = "execute", ![w].scan = NextId(scans),
                  ![w].site = s, ![w].created = now]

(* Scans.Start: a new row of the site, without its scanner id. *)
OpenRow(w, s) ==
  /\ Fresh(scans) # {}
  /\ scans' = [scans EXCEPT ![NextId(scans)] = [UnbornScan EXCEPT
                 !.at = "live", !.site = s, !.created = now]]
  /\ worker' = [worker EXCEPT ![w].pc = "execute", ![w].scan = NextId(scans),
                  ![w].site = s, ![w].created = now]

(* Save(&scan) turns association_autoupdate off but not autocreate: for a
   Site with a url and the id 0, gorm first inserts that site, owned by
   nobody, in the transaction of the scan.  When the unique index refuses it
   the transaction is rolled back, its error is dropped and scan and site
   keep the id 0. *)
StartScan(w) ==
  /\ worker[w].pc = "start"
  /\ \/ /\ JobOf(w).site # NoSite \/ JobOf(w).url = NoUrl
        /\ OpenRow(w, JobOf(w).site)
        /\ UNCHANGED sites
     \/ /\ JobOf(w).site = NoSite /\ JobOf(w).url # NoUrl
        /\ ~Taken(Nobody, JobOf(w).url)
        /\ Fresh(sites) # {}
        /\ sites' = [sites EXCEPT ![NextId(sites)] =
                        SiteOf(Nobody, JobOf(w).url)]
        /\ OpenRow(w, NextId(sites))
     \/ /\ JobOf(w).site = NoSite /\ JobOf(w).url # NoUrl
        /\ Taken(Nobody, JobOf(w).url)
        /\ worker' = [worker EXCEPT ![w].pc = "execute", ![w].created = now]
        /\ UNCHANGED <<sites, scans>>
  /\ UNCHANGED <<now, jobs>>

(* Mutant of Execute: the site is not loaded again. *)
ExecuteUnchecked(w) ==
  /\ worker[w].pc = "execute"
  /\ worker' = [worker EXCEPT
       ![w].pc = IF worker[w].site # NoSite THEN "handle" ELSE "fail"]
  /\ UNCHANGED <<sites, scans, now, jobs>>

(* Execute up to the call of the scanner: a job of the scheduler carries no
   url, so the site is loaded again, and may be gone. *)
Execute(w) ==
  LET valid == /\ worker[w].site # NoSite
               /\ JobOf(w).url = NoUrl => LiveSite(worker[w].site)
  IN /\ worker[w].pc = "execute"
     /\ worker' = [worker EXCEPT ![w].pc = IF valid THEN "handle" ELSE "fail"]
     /\ UNCHANGED <<sites, scans, now, jobs>>

(* Mutant of FetchFails: the recovered panic becomes the job's error. *)
FetchFailsJob(w) ==
  /\ worker[w].pc = "handle"
  /\ worker' = [worker EXCEPT ![w].pc = "fail"]
  /\ UNCHANGED <<sites, scans, now, jobs>>

(* Mutant of FetchFails: the handler tries again itself, without a limit. *)
FetchRetries(w) ==
  /\ worker[w].pc = "handle"
  /\ worker' = [worker EXCEPT ![w].pc = "execute"]
  /\ UNCHANGED <<sites, scans, now, jobs>>

(* The scanner's fetch fails and DoRequest panics; Execute recovers and
   returns nil. *)
FetchFails(w) ==
  /\ worker[w].pc = "handle"
  /\ worker' = [worker EXCEPT ![w].pc = "ack"]
  /\ UNCHANGED <<sites, scans, now, jobs>>

(* The scanner's fetch is answered. *)
Handled(w, v) ==
  /\ worker[w].pc = "handle"
  /\ v \in Verdicts(JobOf(w).scanner)
  /\ worker' = [worker EXCEPT ![w].pc = "touch", ![w].result = v]
  /\ UNCHANGED <<sites, scans, now, jobs>>

(* Mutant of TouchSite: the time of the statement, not of the scan. *)
TouchSiteNow(w) ==
  LET s == worker[w].site
  IN /\ worker[w].pc = "touch"
     /\ IF LiveSite(s)
          THEN sites' = [sites EXCEPT ![s].last = now]
          ELSE UNCHANGED sites
     /\ worker' = [worker EXCEPT ![w].pc = "save"]
     /\ UNCHANGED <<scans, now, jobs>>

(* Scans.Save, the UPDATE of last_scanned_at: of no row if the site is gone. *)
TouchSite(w) ==
  LET s == worker[w].site
  IN /\ worker[w].pc = "touch"
     /\ IF LiveSite(s)
          THEN sites' = [sites EXCEPT ![s].last = worker[w].created]
          ELSE UNCHANGED sites
     /\ worker' = [worker EXCEPT ![w].pc = "save"]
     /\ UNCHANGED <<scans, now, jobs>>

(* Scans.Save, the row itself.  gorm's Save inserts what its UPDATE does not
   find: a row purged in the meantime comes back. *)
SaveRow(w) ==
  /\ worker[w].pc = "save"
  /\ scans' = [scans EXCEPT ![worker[w].scan] =
       [at |-> "live", site |-> worker[w].site, scanner |-> JobOf(w).scanner,
        status |-> 1, result |-> worker[w].result,
        created |-> worker[w].created]]
  /\ worker' = [worker EXCEPT ![w].pc = "ack"]
  /\ UNCHANGED <<sites, now, jobs>>

(* The handler returned nil; the handler returned "Invalid site". *)
Ack(w) ==
  /\ worker[w].pc = "ack"
  /\ Settle(worker[w].job)
  /\ worker' = [worker EXCEPT ![w] = IdleWorker]
  /\ UNCHANGED <<sites, scans, now>>

Fail(w) ==
  /\ worker[w].pc = "fail"
  /\ Reject(worker[w].job)
  /\ worker' = [worker EXCEPT ![w] = IdleWorker]
  /\ UNCHANGED <<sites, scans, now>>

(* The worker process dies, and every goroutine with it. *)
EngineDies == worker' = [w \in Workers |-> IdleWorker]

WorkerStep(w) ==
  \/ StartScan(w) \/ Execute(w)
  \/ FetchFails(w) \/ \E v \in {0, 1, 3} : Handled(w, v)
  \/ TouchSite(w) \/ SaveRow(w) \/ Ack(w) \/ Fail(w)

-----------------------------------------------------------------------------
(* The pool's requeuer and its reaper of dead pools. *)
Retry(j) == Requeue(j) /\ UNCHANGED <<sites, scans, now, worker>>

Reap(j) ==
  /\ \A w \in Workers : worker[w].job # j
  /\ PutBack(j)
  /\ UNCHANGED <<sites, scans, now, worker>>

EngineNext ==
  \/ \E w \in Workers : WorkerStep(w) \/ \E j \in JobIds : Fetch(w, j)
  \/ \E j \in JobIds : Retry(j) \/ Reap(j)

=============================================================================
