----------------------------- MODULE WorkQueue ------------------------------
(***************************************************************************)
(* The Redis job queue (gocraft/work) as gitmon uses it: Queue.Push        *)
(* enqueues an ExecuteScanJob, a goroutine of the worker pool takes it,    *)
(* and its fate is decided by the error the handler returns.  The library  *)
(* is not part of the repository, so everything but Push is modelled from  *)
(* its use: pool.Job registers every handler with the default options,     *)
(* MaxFails attempts with a retry in between and the dead list after the   *)
(* last one; a job whose process died stays in the in-progress list of the *)
(* dead pool until a live pool puts it back.                               *)
(*                                                                         *)
(* A job is one record from its push on: its identity is never used again, *)
(* so JobIds bounds the pushes of a behaviour.  The order of the Redis     *)
(* list is left out: any queued job may be taken next.                     *)
(***************************************************************************)
EXTENDS Tables

CONSTANTS
  JobIds,     \* identities of jobs; bounds how many are pushed
  NoJob,      \* no job at all
  MaxFails    \* attempts before a job is dead (4 unless told otherwise)

ASSUME WorkQueueAssumption ==
  /\ NoJob \notin JobIds
  /\ MaxFails \in Nat \ {0}

VARIABLE jobs  \* every job, by identity

JobPlaces == {"unborn", "queued", "running", "retry", "dead", "done"}

JobRow == [at : JobPlaces, site : SiteIds \cup {NoSite},
           url : Urls \cup {NoUrl},
           scanner : ScannerIds \cup {NoScanner}, fails : 0..MaxFails]

UnbornJob == [at |-> "unborn", site |-> NoSite, url |-> NoUrl,
            scanner |-> NoScanner, fails |-> 0]

QueueInit == jobs = [j \in JobIds |-> UnbornJob]

QueueTypeOK == jobs \in [JobIds -> JobRow]

(* The job still has to be handled. *)
Outstanding(j) == jobs[j].at \in {"queued", "running", "retry"}

-----------------------------------------------------------------------------
(* The arguments of an ExecuteScanJob (ToArgs), as a fresh queued job. *)
ScanJob(s, url, c) ==
  [at |-> "queued", site |-> s, url |-> url, scanner |-> c, fails |-> 0]

(* Queue.Push.  The error of Enqueue is printed and dropped: when Redis
   does not answer, the job is lost and the caller goes on. *)
Push(load) ==
  \/ Fresh(jobs) # {} /\ jobs' = [jobs EXCEPT ![NextId(jobs)] = load]
  \/ UNCHANGED jobs

(* A worker of the pool moves a queued job to its in-progress list. *)
Take(j) ==
  /\ jobs[j].at = "queued"
  /\ jobs' = [jobs EXCEPT ![j].at = "running"]

(* The handler returned nil: the job is forgotten. *)
Settle(j) == jobs' = [jobs EXCEPT ![j] = [UnbornJob EXCEPT !.at = "done"]]

(* The handler returned an error: one more fail, then retry or dead list. *)
Fate(fails) == IF fails < MaxFails THEN "retry" ELSE "dead"

Reject(j) ==
  LET fails == jobs[j].fails + 1
  IN jobs' = [jobs EXCEPT ![j].fails = fails, ![j].at = Fate(fails)]

(* The backoff of a failed job is over. *)
Requeue(j) ==
  /\ jobs[j].at = "retry"
  /\ jobs' = [jobs EXCEPT ![j].at = "queued"]

(* A live pool finds a job in the in-progress list of a dead one. *)
PutBack(j) ==
  /\ jobs[j].at = "running"
  /\ jobs' = [jobs EXCEPT ![j].at = "queued"]

=============================================================================
