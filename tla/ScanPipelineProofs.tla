------------------------- MODULE ScanPipelineProofs -------------------------
(***************************************************************************)
(* Proofs about ScanPipeline for all values of its constants.              *)
(***************************************************************************)
EXTENDS ScanPipeline, TLAPS

USE DEF IsAlive, GitScan, ScannerIds, NoScanner, Lifetime, Never

-----------------------------------------------------------------------------
(* The library and the tables. *)

(* The next id of a table with unborn rows is the id of one of them. *)
LEMMA NextIdIsFresh ==
  ASSUME NEW table, Fresh(table) # {}
  PROVE  /\ NextId(table) \in DOMAIN table
         /\ table[NextId(table)].at = "unborn"
<1>1. NextId(table) \in Fresh(table)
  BY DEF NextId
<1> QED
  BY <1>1 DEF Fresh

(* Push keeps every job but an unborn one, which becomes the load. *)
LEMMA PushFacts ==
  ASSUME QueueTypeOK, NEW load \in JobRow, Push(load)
  PROVE  /\ QueueTypeOK'
         /\ \A j \in JobIds :
              \/ jobs'[j] = jobs[j]
              \/ jobs[j].at = "unborn" /\ jobs'[j] = load
<1>1. CASE UNCHANGED jobs
  BY <1>1 DEF QueueTypeOK
<1>2. CASE Fresh(jobs) # {} /\ jobs' = [jobs EXCEPT ![NextId(jobs)] = load]
  <2>1. NextId(jobs) \in JobIds /\ jobs[NextId(jobs)].at = "unborn"
    BY <1>2, NextIdIsFresh DEF QueueTypeOK
  <2> QED
    BY <1>2, <2>1 DEF QueueTypeOK
<1> QED
  BY <1>1, <1>2 DEF Push

(* The job a pusher makes is well formed, and has not failed. *)
LEMMA ScanJobFacts ==
  ASSUME NEW s \in SiteIds \cup {NoSite}, NEW url \in Urls \cup {NoUrl},
         NEW c \in ScannerIds
  PROVE  /\ ScanJob(s, url, c) \in JobRow
         /\ ScanJob(s, url, c).fails = 0
         /\ ScanJob(s, url, c).at = "queued"
BY WorkQueueAssumption DEF ScanJob, JobRow, JobPlaces

-----------------------------------------------------------------------------
(* Types, attempts and the jobs goroutines hold. *)

USE DEF JobInv

(* No goroutine holds a job at first, and no job was tried. *)
LEMMA JobInvInit == Init => JobInv
<1> SUFFICES ASSUME Init PROVE JobInv
  OBVIOUS
<1> USE TablesAssumption, WorkQueueAssumption, ScanPipelineAssumption
    DEF Init
<1>1. TablesTypeOK
  BY DEF TablesInit, TablesTypeOK, UnbornSite, UnbornScan, SiteRow, ScanRow
<1>2. QueueTypeOK /\ AttemptLeft
  BY DEF QueueInit, QueueTypeOK, AttemptLeft, UnbornJob, JobRow, JobPlaces
<1>3. RoutesTypeOK
  BY DEF RoutesInit, RoutesTypeOK, IdleRequest, RequestRow, RequestSteps
<1>4. EngineTypeOK /\ HeldJobs
  BY DEF EngineInit, EngineTypeOK, HeldJobs, IdleWorker, WorkerRow, WorkerSteps
<1>5. SchedTypeOK
  BY DEF SchedInit, SchedTypeOK, IdleSched, SchedRow
<1> QED
  BY <1>1, <1>2, <1>3, <1>4, <1>5 DEF TypeOK

(* A step that leaves jobs, goroutines and scheduler alone keeps JobInv when
   what it writes has the right type. *)
LEMMA JobInvFrame ==
  ASSUME JobInv, UNCHANGED <<jobs, worker, sched, crashes>>,
         TablesTypeOK', RoutesTypeOK'
  PROVE  JobInv'
BY DEF TypeOK, QueueTypeOK, EngineTypeOK, SchedTypeOK, AttemptLeft, HeldJobs

(* A step of the server keeps types, attempts and held jobs. *)
LEMMA JobInvServer == JobInv /\ ServerStep => JobInv'
<1> SUFFICES ASSUME JobInv, ServerStep PROVE JobInv'
  OBVIOUS
<1> USE TablesAssumption, WorkQueueAssumption DEF ServerStep
<1>0. /\ TypeOK /\ AttemptLeft /\ HeldJobs
      /\ TablesTypeOK /\ RoutesTypeOK
      /\ UNCHANGED <<worker, sched, crashes>>
  BY DEF TypeOK
<1>1. ASSUME NEW q \in Requests, NEW u \in Users, NEW url \in Urls,
             BeginCreate(q, u, url)
      PROVE  JobInv'
  <2>1. TablesTypeOK' /\ UNCHANGED jobs
    BY <1>0, <1>1 DEF BeginCreate, TablesTypeOK
  <2>2. RoutesTypeOK'
    BY <1>0, <1>1
    DEF BeginCreate, RoutesTypeOK, RequestRow, RequestSteps, IdleRequest
  <2> QED
    BY <1>0, <2>1, <2>2, JobInvFrame
<1>2. ASSUME NEW q \in Requests, InsertSite(q)
      PROVE  JobInv'
  <2>1. TablesTypeOK' /\ UNCHANGED jobs
    <3>1. CASE UNCHANGED sites
      BY <1>0, <1>2, <3>1 DEF InsertSite, TablesTypeOK
    <3>2. CASE Fresh(sites) # {} /\ sites' = [sites EXCEPT ![NextId(sites)] =
                                  SiteOf(req[q].user, req[q].url)]
      <4>1. SiteOf(req[q].user, req[q].url) \in SiteRow
        BY <1>0 DEF RoutesTypeOK, RequestRow, SiteOf, SiteRow
      <4> QED
        BY <1>0, <1>2, <3>2, <4>1 DEF InsertSite, TablesTypeOK
    <3> QED
      BY <1>2, <3>1, <3>2 DEF InsertSite
  <2>2. RoutesTypeOK'
    BY <1>0, <1>2, NextIdIsFresh
    DEF InsertSite, TablesTypeOK, RoutesTypeOK, RequestRow, RequestSteps
  <2> QED
    BY <1>0, <2>1, <2>2, JobInvFrame
<1>3. ASSUME NEW q \in Requests, PushScan(q)
      PROVE  JobInv'
  <2> DEFINE load == ScanJob(req[q].site, req[q].url, req[q].next)
  <2>1. /\ req[q].site \in SiteIds \cup {NoSite}
        /\ req[q].url \in Urls \cup {NoUrl}
        /\ req[q].next \in ScannerIds
    BY <1>0 DEF TypeOK, RoutesTypeOK, RequestRow
  <2>2. load \in JobRow /\ load.fails = 0
    BY <2>1, ScanJobFacts
  <2>3. /\ QueueTypeOK'
        /\ \A j \in JobIds : \/ jobs'[j] = jobs[j]
                             \/ jobs[j].at = "unborn" /\ jobs'[j] = load
    <3> HIDE DEF load
    <3>1. Push(load)
      BY <1>3 DEF PushScan, load
    <3> QED
      BY <1>0, <2>2, <3>1, PushFacts DEF TypeOK
  <2> HIDE DEF load
  <2>4. AttemptLeft'
    BY <1>0, <2>2, <2>3 DEF AttemptLeft
  <2>5. HeldJobs'
    BY <1>0, <2>3 DEF HeldJobs, TypeOK, EngineTypeOK, WorkerRow
  <2>6. RoutesTypeOK'
    BY <1>0, <1>3 DEF PushScan, TypeOK, RoutesTypeOK, RequestRow,
                      RequestSteps, IdleRequest
  <2> QED
    BY <1>0, <1>3, <2>3, <2>4, <2>5, <2>6
    DEF PushScan, TypeOK, TablesTypeOK, EngineTypeOK, SchedTypeOK
<1>4. ASSUME NEW q \in Requests, DeleteSite(q)
      PROVE  JobInv'
  <2>1. TablesTypeOK' /\ UNCHANGED jobs
    BY <1>0, <1>4 DEF DeleteSite, TablesTypeOK, SiteRow
  <2>2. RoutesTypeOK'
    BY <1>0, <1>4 DEF DeleteSite, RoutesTypeOK, RequestRow, RequestSteps
  <2> QED
    BY <1>0, <2>1, <2>2, JobInvFrame
<1>5. ASSUME NEW q \in Requests, PurgeScans(q)
      PROVE  JobInv'
  <2>1. TablesTypeOK' /\ UNCHANGED jobs
    BY <1>0, <1>5 DEF PurgeScans, TablesTypeOK, ScanRow
  <2>2. RoutesTypeOK'
    BY <1>0, <1>5
    DEF PurgeScans, RoutesTypeOK, RequestRow, RequestSteps, IdleRequest
  <2> QED
    BY <1>0, <2>1, <2>2, JobInvFrame
<1>6. ASSUME NEW q \in Requests, NEW s \in SiteIds,
             BeginTrigger(q, s) \/ BeginDelete(q, s)
      PROVE  JobInv'
  <2>1. TablesTypeOK' /\ UNCHANGED jobs
    BY <1>0, <1>6 DEF BeginTrigger, BeginDelete, TablesTypeOK
  <2>2. sites[s] \in SiteRow
    BY <1>0 DEF TablesTypeOK
  <2>3. \E row \in RequestRow : req' = [req EXCEPT ![q] = row]
    <3>1. CASE BeginTrigger(q, s)
      <4> DEFINE row == [IdleRequest EXCEPT !.pc = "push", !.site = s,
                           !.user = sites[s].user, !.url = sites[s].url]
      <4>1. row \in RequestRow
        BY <2>2 DEF RequestRow, RequestSteps, IdleRequest, SiteRow
      <4> QED
        BY <3>1, <4>1 DEF BeginTrigger
    <3>2. CASE BeginDelete(q, s)
      <4> DEFINE row == [IdleRequest EXCEPT !.pc = "delete", !.site = s,
                           !.user = sites[s].user]
      <4>1. row \in RequestRow
        BY <2>2 DEF RequestRow, RequestSteps, IdleRequest, SiteRow
      <4> QED
        BY <3>2, <4>1 DEF BeginDelete
    <3> QED
      BY <1>6, <3>1, <3>2
  <2>4. RoutesTypeOK'
    BY <1>0, <2>3 DEF RoutesTypeOK
  <2> QED
    BY <1>0, <2>1, <2>4, JobInvFrame
<1> QED
  BY <1>1, <1>2, <1>3, <1>4, <1>5, <1>6 DEF RoutesNext

(* A step of a goroutine, of the requeuer or of the reaper does. *)
LEMMA JobInvPool == JobInv /\ PoolStep => JobInv'
<1> SUFFICES ASSUME JobInv, PoolStep PROVE JobInv'
  OBVIOUS
<1> USE TablesAssumption, WorkQueueAssumption DEF PoolStep
<1>0. /\ TypeOK /\ AttemptLeft /\ HeldJobs
      /\ TablesTypeOK /\ QueueTypeOK /\ EngineTypeOK
      /\ RoutesTypeOK' /\ SchedTypeOK' /\ crashes' \in 0..MaxCrashes
  BY DEF TypeOK, RoutesTypeOK, SchedTypeOK
<1>1. \A w \in Workers : worker[w].pc # "idle" =>
        /\ worker[w].job \in JobIds /\ JobOf(w) \in JobRow
        /\ JobOf(w).at = "running" /\ JobOf(w).fails < MaxFails
  BY <1>0 DEF HeldJobs, AttemptLeft, EngineTypeOK, QueueTypeOK, WorkerRow, JobOf
<1>5. ASSUME NEW w \in Workers PROVE worker[w] \in WorkerRow
  BY <1>0 DEF EngineTypeOK
<1>2. ASSUME NEW w \in Workers, NEW j \in JobIds, Fetch(w, j)
      PROVE  JobInv'
  <2>1. TablesTypeOK' /\ QueueTypeOK'
    BY <1>0, <1>2
    DEF Fetch, Take, TablesTypeOK, QueueTypeOK, JobRow, JobPlaces
  <2>2. EngineTypeOK'
    <3>1. [worker[w] EXCEPT !.pc = "start", !.job = j] \in WorkerRow
      <4>1. ASSUME NEW row \in WorkerRow
            PROVE  [row EXCEPT !.pc = "start", !.job = j] \in WorkerRow
        BY DEF WorkerRow, WorkerSteps
      <4> QED
        BY <1>5, <4>1
    <3>2. worker' = [worker EXCEPT ![w] =
                       [worker[w] EXCEPT !.pc = "start", !.job = j]]
      BY <1>0, <1>2 DEF Fetch, EngineTypeOK
    <3> QED
      BY <1>0, <3>1, <3>2 DEF EngineTypeOK
  <2>3. AttemptLeft'
    BY <1>0, <1>2 DEF Fetch, Take, AttemptLeft, QueueTypeOK, JobRow
  <2>4. HeldJobs'
    BY <1>0, <1>1, <1>2
    DEF Fetch, Take, HeldJobs, QueueTypeOK, EngineTypeOK, WorkerRow, JobRow, JobOf
  <2> QED
    BY <1>0, <2>1, <2>2, <2>3, <2>4 DEF TypeOK
(* A goroutine that stays busy with the job it has. *)
<1>3. ASSUME NEW w \in Workers, worker[w].pc # "idle",
             NEW row \in WorkerRow, row.pc # "idle", row.job = worker[w].job,
             worker' = [worker EXCEPT ![w] = row], UNCHANGED jobs,
             TablesTypeOK'
      PROVE  JobInv'
  <2>1. QueueTypeOK' /\ EngineTypeOK' /\ AttemptLeft'
    BY <1>0, <1>3 DEF QueueTypeOK, EngineTypeOK, AttemptLeft
  <2>2. HeldJobs'
    BY <1>0, <1>1, <1>3 DEF HeldJobs, EngineTypeOK, WorkerRow
  <2> QED
    BY <1>0, <1>3, <2>1, <2>2 DEF TypeOK
(* A goroutine that is done with its job. *)
<1>4. ASSUME NEW w \in Workers, worker[w].pc # "idle",
             worker' = [worker EXCEPT ![w] = IdleWorker],
             NEW job \in JobRow, job.at = "dead" \/ job.fails < MaxFails,
             jobs' = [jobs EXCEPT ![worker[w].job] = job],
             TablesTypeOK'
      PROVE  JobInv'
  <2>1. IdleWorker \in WorkerRow /\ IdleWorker.pc = "idle" /\ IdleWorker.job = NoJob
    BY DEF IdleWorker, WorkerRow, WorkerSteps
  <2>2. QueueTypeOK' /\ EngineTypeOK' /\ AttemptLeft'
    BY <1>0, <1>1, <1>4, <2>1 DEF QueueTypeOK, EngineTypeOK, AttemptLeft
  <2> HIDE DEF IdleWorker
  <2>3. HeldJobs'
    BY <1>0, <1>1, <1>4, <2>1
    DEF HeldJobs, EngineTypeOK, QueueTypeOK, WorkerRow
  <2> QED
    BY <1>0, <1>4, <2>2, <2>3 DEF TypeOK
<1>6. ASSUME NEW w \in Workers, StartScan(w)
      PROVE  JobInv'
  <2>1. /\ worker[w].pc = "start" /\ UNCHANGED <<now, jobs>>
        /\ now \in Nat /\ JobOf(w) \in JobRow
    BY <1>0, <1>1, <1>6 DEF StartScan, TablesTypeOK
  <2>2. ASSUME NEW s \in SiteIds \cup {NoSite}, OpenRow(w, s)
        PROVE  /\ scans' \in [ScanIds -> ScanRow]
               /\ \E row \in WorkerRow :
                    /\ row.pc # "idle" /\ row.job = worker[w].job
                    /\ worker' = [worker EXCEPT ![w] = row]
    <3> DEFINE r == NextId(scans)
               open == [UnbornScan EXCEPT !.at = "live", !.site = s,
                                          !.created = now]
               row == [worker[w] EXCEPT !.pc = "execute", !.scan = r,
                                        !.site = s, !.created = now]
    <3>1. r \in ScanIds
      BY <1>0, <2>2, NextIdIsFresh DEF OpenRow, TablesTypeOK
    <3>2. open \in ScanRow
      BY <2>1 DEF UnbornScan, ScanRow
    <3>3. row \in WorkerRow /\ row.pc # "idle" /\ row.job = worker[w].job
      BY <1>5, <2>1, <3>1 DEF WorkerRow, WorkerSteps
    <3>4. scans' = [scans EXCEPT ![r] = open]
      BY <2>2 DEF OpenRow
    <3>5. worker' = [worker EXCEPT ![w] = row]
      BY <1>0, <2>2 DEF OpenRow, EngineTypeOK
    <3> HIDE DEF open, row, r
    <3> QED
      BY <1>0, <3>1, <3>2, <3>3, <3>4, <3>5 DEF TablesTypeOK
  <2>3. CASE OpenRow(w, JobOf(w).site) /\ UNCHANGED sites
    <3>1. JobOf(w).site \in SiteIds \cup {NoSite}
      BY <2>1 DEF JobRow
    <3> QED
      BY <1>0, <1>3, <2>1, <2>2, <2>3, <3>1 DEF TablesTypeOK
  <2>4. CASE /\ JobOf(w).url # NoUrl /\ Fresh(sites) # {}
             /\ sites' = [sites EXCEPT ![NextId(sites)] =
                            SiteOf(Nobody, JobOf(w).url)]
             /\ OpenRow(w, NextId(sites))
    <3>1. NextId(sites) \in SiteIds
      BY <1>0, <2>4, NextIdIsFresh DEF TablesTypeOK
    <3>2. SiteOf(Nobody, JobOf(w).url) \in SiteRow
      BY <2>1, <2>4 DEF JobRow, SiteOf, SiteRow
    <3>3. sites' \in [SiteIds -> SiteRow]
      BY <1>0, <2>4, <3>2 DEF TablesTypeOK
    <3> QED
      BY <1>0, <1>3, <2>1, <2>2, <2>4, <3>1, <3>3 DEF TablesTypeOK
  <2>5. CASE /\ worker' = [worker EXCEPT ![w].pc = "execute", ![w].created = now]
             /\ UNCHANGED <<sites, scans>>
    <3>1. [worker[w] EXCEPT !.pc = "execute", !.created = now] \in WorkerRow
      BY <1>5, <2>1 DEF WorkerRow, WorkerSteps
    <3>2. worker' = [worker EXCEPT ![w] =
                       [worker[w] EXCEPT !.pc = "execute", !.created = now]]
      BY <1>0, <2>5 DEF EngineTypeOK
    <3> QED
      BY <1>0, <1>3, <1>5, <2>1, <2>5, <3>1, <3>2 DEF TablesTypeOK, WorkerRow
  <2> QED
    BY <1>6, <2>3, <2>4, <2>5 DEF StartScan
(* The steps that only move on and write no table. *)
<1>7. ASSUME NEW w \in Workers, NEW v \in {0, 1, 3},
             Execute(w) \/ FetchFails(w) \/ Handled(w, v)
      PROVE  JobInv'
  <2>1. /\ UNCHANGED <<sites, scans, now, jobs>> /\ TablesTypeOK'
        /\ worker[w].pc \in {"execute", "handle"}
    BY <1>0, <1>7 DEF Execute, FetchFails, Handled, TablesTypeOK
  <2>2. ASSUME NEW row \in WorkerRow, row.pc # "idle", row.job = worker[w].job,
               worker' = [worker EXCEPT ![w] = row]
        PROVE  JobInv'
    BY <1>3, <2>1, <2>2
  <2>3. CASE Handled(w, v)
    <3> DEFINE row == [worker[w] EXCEPT !.pc = "touch", !.result = v]
    <3>1. row \in WorkerRow /\ row.pc # "idle" /\ row.job = worker[w].job
      BY <1>5 DEF WorkerRow, WorkerSteps
    <3>2. worker' = [worker EXCEPT ![w] = row]
      BY <1>0, <2>3 DEF Handled, EngineTypeOK
    <3> HIDE DEF row
    <3> QED
      BY <2>2, <3>1, <3>2
  <2>4. CASE Execute(w) \/ FetchFails(w)
    <3>1. PICK pc \in {"handle", "fail", "ack"} :
            worker' = [worker EXCEPT ![w] = [worker[w] EXCEPT !.pc = pc]]
      BY <1>0, <2>4 DEF Execute, FetchFails, EngineTypeOK
    <3> DEFINE row == [worker[w] EXCEPT !.pc = pc]
    <3>2. row \in WorkerRow /\ row.pc # "idle" /\ row.job = worker[w].job
      BY <1>5 DEF WorkerRow, WorkerSteps
    <3> HIDE DEF row
    <3> QED
      BY <2>2, <3>1, <3>2 DEF row
  <2> QED
    BY <1>7, <2>3, <2>4
<1>8. ASSUME NEW w \in Workers, TouchSite(w) \/ SaveRow(w)
      PROVE  JobInv'
  <2>1. /\ UNCHANGED <<now, jobs>> /\ worker[w].pc \in {"touch", "save"}
        /\ JobOf(w) \in JobRow
    BY <1>1, <1>8 DEF TouchSite, SaveRow
  <2>2. TablesTypeOK'
    <3>1. CASE TouchSite(w)
      BY <1>0, <1>5, <3>1 DEF TouchSite, TablesTypeOK, SiteRow, WorkerRow
    <3>2. CASE SaveRow(w)
      <4>1. [at |-> "live", site |-> worker[w].site, scanner |-> JobOf(w).scanner,
             status |-> 1, result |-> worker[w].result,
             created |-> worker[w].created] \in ScanRow
        BY <1>5, <2>1 DEF ScanRow, WorkerRow, JobRow
      <4> QED
        BY <1>0, <3>2, <4>1 DEF SaveRow, TablesTypeOK
    <3> QED
      BY <1>8, <3>1, <3>2
  <2>3. PICK pc \in {"save", "ack"} :
          worker' = [worker EXCEPT ![w] = [worker[w] EXCEPT !.pc = pc]]
    BY <1>0, <1>8 DEF TouchSite, SaveRow, EngineTypeOK
  <2> DEFINE row == [worker[w] EXCEPT !.pc = pc]
  <2>4. row \in WorkerRow /\ row.pc # "idle" /\ row.job = worker[w].job
    BY <1>5 DEF WorkerRow, WorkerSteps
  <2>5. worker' = [worker EXCEPT ![w] = row]
    BY <2>3
  <2> HIDE DEF row
  <2> QED
    BY <1>3, <2>1, <2>2, <2>4, <2>5
<1>9. ASSUME NEW w \in Workers, Ack(w) \/ Fail(w)
      PROVE  JobInv'
  <2>1. /\ UNCHANGED <<sites, scans, now>> /\ TablesTypeOK'
        /\ worker[w].pc # "idle" /\ worker' = [worker EXCEPT ![w] = IdleWorker]
    BY <1>0, <1>9 DEF Ack, Fail, TablesTypeOK
  <2>2. CASE Ack(w)
    <3>1. [UnbornJob EXCEPT !.at = "done"] \in JobRow
      BY DEF UnbornJob, JobRow, JobPlaces
    <3>2. [UnbornJob EXCEPT !.at = "done"].fails < MaxFails
      BY DEF UnbornJob
    <3>3. jobs' = [jobs EXCEPT ![worker[w].job] = [UnbornJob EXCEPT !.at = "done"]]
      BY <2>2 DEF Ack, Settle
    <3> QED
      BY <1>4, <2>1, <3>1, <3>2, <3>3
  <2>3. CASE Fail(w)
    <3> DEFINE j == worker[w].job
               fails == jobs[j].fails + 1
               job == [jobs[j] EXCEPT !.fails = fails, !.at = Fate(fails)]
    <3>1. fails \in 1..MaxFails /\ j \in JobIds /\ jobs[j] \in JobRow
      BY <1>0, <1>1, <2>1 DEF JobRow, JobOf
    <3>2. job \in JobRow
      <4>1. ASSUME NEW row \in JobRow, NEW f \in 0..MaxFails, NEW at \in JobPlaces
            PROVE  [row EXCEPT !.fails = f, !.at = at] \in JobRow
        BY DEF JobRow
      <4>2. Fate(fails) \in JobPlaces /\ fails \in 0..MaxFails
        BY <3>1 DEF Fate, JobPlaces
      <4> QED
        BY <3>1, <4>1, <4>2
    <3>3. job.at = "dead" \/ job.fails < MaxFails
      BY <3>1 DEF JobRow, Fate
    <3>4. jobs' = [jobs EXCEPT ![j] = job]
      BY <1>0, <2>3, <3>1 DEF Fail, Reject, QueueTypeOK
    <3> HIDE DEF job
    <3> QED
      BY <1>4, <2>1, <3>2, <3>3, <3>4
  <2> QED
    BY <1>9, <2>2, <2>3
<1>10. ASSUME NEW j \in JobIds, Retry(j) \/ Reap(j)
       PROVE  JobInv'
  <2>1. UNCHANGED <<sites, scans, now, worker>> /\ TablesTypeOK' /\ EngineTypeOK'
    BY <1>0, <1>10 DEF Retry, Reap, TablesTypeOK, EngineTypeOK
  <2>2. /\ jobs' = [jobs EXCEPT ![j].at = "queued"]
        /\ jobs[j].at \in {"retry", "running"}
    BY <1>10 DEF Retry, Reap, Requeue, PutBack
  <2>3. QueueTypeOK' /\ AttemptLeft'
    BY <1>0, <2>2 DEF QueueTypeOK, AttemptLeft, JobRow, JobPlaces
  <2>4. \A w \in Workers : worker[w].pc # "idle" => worker[w].job # j
    BY <1>0, <1>10, <2>2 DEF Retry, Reap, Requeue, HeldJobs
  <2>5. HeldJobs'
    BY <1>0, <1>1, <2>1, <2>2, <2>4 DEF HeldJobs, QueueTypeOK
  <2> QED
    BY <1>0, <2>1, <2>3, <2>5 DEF TypeOK
<1> QED
  BY <1>2, <1>6, <1>7, <1>8, <1>9, <1>10 DEF EngineNext, WorkerStep

(* A step of the scheduler does. *)
LEMMA JobInvPlanner == JobInv /\ PlannerStep => JobInv'
<1> SUFFICES ASSUME JobInv, PlannerStep PROVE JobInv'
  OBVIOUS
<1> USE TablesAssumption, WorkQueueAssumption DEF PlannerStep
<1>0. /\ TypeOK /\ AttemptLeft /\ HeldJobs
      /\ TablesTypeOK /\ QueueTypeOK /\ SchedTypeOK
      /\ RoutesTypeOK' /\ EngineTypeOK' /\ crashes' \in 0..MaxCrashes
      /\ UNCHANGED worker
  BY DEF TypeOK, RoutesTypeOK, EngineTypeOK
<1>1. sched \in SchedRow /\ IdleSched \in SchedRow
  BY <1>0 DEF SchedTypeOK, SchedRow, IdleSched
<1>2. ASSUME NEW todo \in SUBSET ScannerIds, NEW due \in SUBSET Pairs,
             Proceed(todo, due)
      PROVE  SchedTypeOK'
  <2>1. [pc |-> IF todo # {} THEN "query" ELSE "push", at |-> sched.at,
         todo |-> todo, due |-> due] \in SchedRow
    BY <1>1 DEF SchedRow
  <2> QED
    BY <1>1, <1>2, <2>1 DEF Proceed, SchedTypeOK
<1>3. CASE StartCreateWork
  <2>1. SchedTypeOK' /\ TablesTypeOK'
    BY <1>0, <1>3 DEF StartCreateWork, SchedTypeOK, SchedRow, TablesTypeOK
  <2> QED
    BY <1>0, <1>3, <2>1
    DEF StartCreateWork, TypeOK, QueueTypeOK, AttemptLeft, HeldJobs
<1>4. ASSUME NEW c \in ScannerIds, QueryDue(c) PROVE JobInv'
  <2>1. PICK P \in Page(DueSites(c, sched.at - Interval[c])) :
          Proceed(sched.todo \ {c}, sched.due \cup (P \X {c}))
    BY <1>4 DEF QueryDue
  <2>2. P \X {c} \subseteq Pairs
    BY <2>1 DEF Page, DueSites, Pairs
  <2>3. SchedTypeOK'
    <3>1. /\ sched.todo \ {c} \in SUBSET ScannerIds
          /\ sched.due \cup (P \X {c}) \in SUBSET Pairs
      BY <1>1, <2>2 DEF SchedRow
    <3> QED
      BY <1>2, <2>1, <3>1
  <2> QED
    BY <1>0, <1>4, <2>3
    DEF QueryDue, TypeOK, TablesTypeOK, QueueTypeOK, AttemptLeft, HeldJobs
<1>5. ASSUME NEW s \in SiteIds, NEW c \in ScannerIds, PushDue(s, c)
      PROVE  JobInv'
  <2> DEFINE load == ScanJob(s, NoUrl, c)
  <2>1. load \in JobRow /\ load.fails = 0
    BY ScanJobFacts
  <2>2. /\ QueueTypeOK'
        /\ \A j \in JobIds : \/ jobs'[j] = jobs[j]
                             \/ jobs[j].at = "unborn" /\ jobs'[j] = load
    <3> HIDE DEF load
    <3>1. Push(load)
      BY <1>5 DEF PushDue, load
    <3> QED
      BY <1>0, <2>1, <3>1, PushFacts
  <2> HIDE DEF load
  <2>3. AttemptLeft' /\ HeldJobs'
    BY <1>0, <2>1, <2>2
    DEF AttemptLeft, HeldJobs, TypeOK, EngineTypeOK, WorkerRow
  <2>4. SchedTypeOK' /\ TablesTypeOK'
    <3>1. sched.due \ {<<s, c>>} \in SUBSET Pairs
      BY <1>1 DEF SchedRow
    <3> QED
      BY <1>0, <1>2, <1>5, <3>1 DEF PushDue, TablesTypeOK
  <2> QED
    BY <1>0, <2>2, <2>3, <2>4 DEF TypeOK
<1> QED
  BY <1>3, <1>4, <1>5 DEF SchedNext, SchedStep

(* So do crashes and the clock. *)
LEMMA JobInvWorld ==
  JobInv /\ (ServerCrash \/ WorkerCrash \/ Tick \/ UNCHANGED vars) => JobInv'
<1> SUFFICES ASSUME JobInv, ServerCrash \/ WorkerCrash \/ Tick \/ UNCHANGED vars
             PROVE  JobInv'
  OBVIOUS
<1> USE TablesAssumption, WorkQueueAssumption, ScanPipelineAssumption
    DEF TypeOK, TablesTypeOK, QueueTypeOK, RoutesTypeOK, EngineTypeOK, SchedTypeOK
<1>1. CASE ServerCrash
  <2>1. RoutesTypeOK'
    BY <1>1
    DEF ServerCrash, ServerDies, IdleRequest, RequestRow, RequestSteps
  <2> QED
    BY <1>1, <2>1 DEF ServerCrash, AttemptLeft, HeldJobs
<1>2. CASE WorkerCrash
  <2>1. EngineTypeOK' /\ SchedTypeOK'
    BY <1>2 DEF WorkerCrash, EngineDies, SchedDies, IdleWorker, IdleSched,
                WorkerRow, WorkerSteps, SchedRow
  <2>2. HeldJobs'
    BY <1>2 DEF WorkerCrash, EngineDies, IdleWorker, HeldJobs
  <2> QED
    BY <1>2, <2>1, <2>2 DEF WorkerCrash, AttemptLeft
<1>3. CASE Tick
  BY <1>3 DEF Tick, AttemptLeft, HeldJobs
<1>4. CASE UNCHANGED vars
  BY <1>4 DEF vars, AttemptLeft, HeldJobs
<1> QED
  BY <1>1, <1>2, <1>3, <1>4

(* Every step of a server, goroutine or scheduler, and every crash, keeps the
   types and what the goroutines hold. *)
LEMMA JobInvStep == JobInv /\ [Next]_vars => JobInv'
BY JobInvServer, JobInvPool, JobInvPlanner, JobInvWorld DEF Next

(* Every job that is tried again has an attempt left, and no two goroutines
   have the same one. *)
THEOREM JobInvariant == Spec => []JobInv
<1> QED
  BY JobInvInit, JobInvStep, PTL DEF Spec

(* Every variable has its type in every state of every behaviour. *)
THEOREM TypeCorrect == Spec => []TypeOK
<1>1. JobInv => TypeOK
  OBVIOUS
<1> QED
  BY <1>1, JobInvariant, PTL

-----------------------------------------------------------------------------
(* The rows goroutines hold. *)

(* No goroutine holds a row at first. *)
LEMMA HeldRowsInit == Init => HeldRows
BY DEF Init, TablesInit, EngineInit, HeldRows, UnbornScan, IdleWorker

(* No step lets two goroutines hold a row, or one hold a saved row. *)
LEMMA HeldRowsStep == JobInv /\ HeldRows /\ [Next]_vars => HeldRows'
<1> SUFFICES ASSUME JobInv, HeldRows, [Next]_vars PROVE HeldRows'
  OBVIOUS
<1>0. /\ scans \in [ScanIds -> ScanRow] /\ worker \in [Workers -> WorkerRow]
      /\ NoScan \notin ScanIds /\ NoSite \notin SiteIds
  BY TablesAssumption DEF TypeOK, TablesTypeOK, EngineTypeOK
<1>1. CASE UNCHANGED <<scans, worker>>
  BY <1>1 DEF HeldRows
<1>2. ASSUME NEW q \in Requests, PurgeScans(q), UNCHANGED worker PROVE HeldRows'
  <2>1. \A r \in ScanIds : /\ scans'[r].scanner = scans[r].scanner
                           /\ scans'[r].at = "unborn" <=> scans[r].at = "unborn"
    BY <1>0, <1>2 DEF PurgeScans, ScanRow
  <2>2. \A w \in Workers : worker[w].scan \in ScanIds \cup {NoScan}
    BY <1>0 DEF WorkerRow
  <2> QED
    BY <1>2, <2>1, <2>2 DEF HeldRows
<1>3. ASSUME NEW w \in Workers, NEW s \in SiteIds \cup {NoSite},
             worker[w].pc = "start", OpenRow(w, s)
      PROVE  HeldRows'
  <2> DEFINE r == NextId(scans)
  <2>1. r \in ScanIds /\ scans[r].at = "unborn"
    BY <1>0, <1>3, NextIdIsFresh DEF OpenRow
  <2>2. /\ scans'[r].at = "live" /\ scans'[r].scanner = NoScanner
        /\ \A i \in ScanIds \ {r} : scans'[i] = scans[i]
    BY <1>0, <1>3, <2>1 DEF OpenRow, UnbornScan
  <2>3. /\ worker'[w].pc = "execute" /\ worker'[w].scan = r
        /\ \A v \in Workers \ {w} : worker'[v] = worker[v]
    BY <1>0, <1>3 DEF OpenRow, WorkerRow
  <2>4. \A v \in Workers : worker[v].scan # r /\ worker[v].scan \in ScanIds \cup {NoScan}
    BY <1>0, <2>1 DEF HeldRows, WorkerRow
  <2> HIDE DEF r
  <2> QED
    BY <1>0, <2>1, <2>2, <2>3, <2>4 DEF HeldRows
(* A goroutine that keeps its row, or lets it go, and writes none. *)
<1>4. ASSUME NEW w \in Workers, UNCHANGED scans,
             \A v \in Workers \ {w} : worker'[v] = worker[v],
             worker'[w].scan = NoScan \/ worker'[w].scan = worker[w].scan,
             worker'[w].pc \in {"idle", "start"} =>
               worker'[w].scan = NoScan /\ worker'[w].site = NoSite,
             worker'[w].pc = "execute" /\ worker'[w].scan = NoScan =>
               worker'[w].site = NoSite,
             worker'[w].pc \in {"handle", "touch", "save"} =>
               worker'[w].scan # NoScan,
             worker'[w].pc \in {"execute", "handle", "touch", "save"} =>
               \/ worker'[w].scan = NoScan
               \/ worker[w].pc \in {"execute", "handle", "touch"}
      PROVE  HeldRows'
  BY <1>4 DEF HeldRows
<1>5. ASSUME NEW w \in Workers, NEW j \in JobIds, Fetch(w, j) PROVE HeldRows'
  <2>1. /\ UNCHANGED scans /\ worker[w].pc = "idle"
        /\ worker'[w].pc = "start" /\ worker'[w].scan = worker[w].scan
        /\ worker'[w].site = worker[w].site
        /\ \A v \in Workers \ {w} : worker'[v] = worker[v]
    BY <1>0, <1>5 DEF Fetch, WorkerRow
  <2>2. worker[w].scan = NoScan /\ worker[w].site = NoSite
    BY <2>1 DEF HeldRows
  <2> QED
    BY <1>4, <2>1, <2>2
<1>6. ASSUME NEW w \in Workers, StartScan(w) PROVE HeldRows'
  <2>1. CASE \E s \in SiteIds \cup {NoSite} : OpenRow(w, s)
    BY <1>3, <1>6, <2>1 DEF StartScan
  <2>2. CASE /\ worker' = [worker EXCEPT ![w].pc = "execute", ![w].created = now]
             /\ UNCHANGED <<sites, scans>>
    <3>1. /\ worker'[w].pc = "execute" /\ worker'[w].scan = worker[w].scan
          /\ worker'[w].site = worker[w].site
          /\ \A v \in Workers \ {w} : worker'[v] = worker[v]
      BY <1>0, <2>2 DEF WorkerRow
    <3>2. worker[w].scan = NoScan /\ worker[w].site = NoSite
      BY <1>6 DEF HeldRows, StartScan
    <3> QED
      BY <1>4, <2>2, <3>1, <3>2
  <2>3. JobOf(w).site \in SiteIds \cup {NoSite}
    BY <1>0, <1>6
    DEF StartScan, JobOf, HeldJobs, TypeOK, QueueTypeOK, JobRow, WorkerRow
  <2>4. Fresh(sites) # {} => NextId(sites) \in SiteIds
    BY NextIdIsFresh DEF TypeOK, TablesTypeOK
  <2> QED
    BY <1>6, <2>1, <2>2, <2>3, <2>4 DEF StartScan
<1>7. ASSUME NEW w \in Workers, NEW v \in {0, 1, 3},
             Execute(w) \/ FetchFails(w) \/ Handled(w, v) \/ TouchSite(w)
      PROVE  HeldRows'
  <2>1. /\ UNCHANGED scans
        /\ worker'[w].scan = worker[w].scan /\ worker'[w].site = worker[w].site
        /\ \A u \in Workers \ {w} : worker'[u] = worker[u]
        /\ worker[w].pc \in {"execute", "handle", "touch"}
        /\ worker'[w].pc \in {"handle", "fail", "ack", "touch", "save"}
        /\ worker[w].pc = "execute" /\ worker'[w].pc = "handle" =>
             worker[w].site # NoSite
        /\ worker[w].pc = "execute" => worker'[w].pc \in {"handle", "fail"}
    BY <1>0, <1>7 DEF Execute, FetchFails, Handled, TouchSite, WorkerRow
  <2>2. worker'[w].pc \in {"handle", "touch", "save"} => worker'[w].scan # NoScan
    BY <2>1 DEF HeldRows
  <2> QED
    BY <1>4, <2>1, <2>2
<1>8. ASSUME NEW w \in Workers, SaveRow(w) PROVE HeldRows'
  <2> DEFINE r == worker[w].scan
  <2>1. worker[w].pc = "save" /\ r \in ScanIds
    BY <1>0, <1>8 DEF SaveRow, HeldRows, WorkerRow
  <2>2. /\ scans'[r].at = "live"
        /\ \A i \in ScanIds \ {r} : scans'[i] = scans[i]
    BY <1>0, <1>8, <2>1 DEF SaveRow
  <2>3. /\ worker'[w].pc = "ack" /\ worker'[w].scan = r
        /\ \A v \in Workers \ {w} : worker'[v] = worker[v]
    BY <1>0, <1>8 DEF SaveRow, WorkerRow
  <2>4. \A v \in Workers \ {w} :
          worker[v].scan # r /\ worker[v].scan \in ScanIds \cup {NoScan}
    BY <1>0, <2>1 DEF HeldRows, WorkerRow
  <2> HIDE DEF r
  <2> QED
    BY <1>0, <2>1, <2>2, <2>3, <2>4 DEF HeldRows
<1>9. ASSUME NEW w \in Workers, Ack(w) \/ Fail(w) PROVE HeldRows'
  <2>1. /\ UNCHANGED scans /\ worker'[w] = IdleWorker
        /\ \A v \in Workers \ {w} : worker'[v] = worker[v]
    BY <1>0, <1>9 DEF Ack, Fail
  <2> QED
    BY <1>4, <2>1 DEF IdleWorker
<1>10. CASE WorkerCrash
  BY <1>10 DEF WorkerCrash, EngineDies, IdleWorker, HeldRows
<1>11. CASE ServerStep
  BY <1>1, <1>2, <1>11
  DEF ServerStep, RoutesNext, BeginCreate, InsertSite, PushScan, BeginTrigger,
      BeginDelete, DeleteSite
<1>12. CASE PoolStep
  BY <1>1, <1>5, <1>6, <1>7, <1>8, <1>9, <1>12
  DEF PoolStep, EngineNext, WorkerStep, Retry, Reap
<1>13. CASE PlannerStep \/ ServerCrash \/ Tick \/ UNCHANGED vars
  BY <1>1, <1>13
  DEF PlannerStep, SchedNext, SchedStep, StartCreateWork, QueryDue, PushDue,
      ServerCrash, Tick, vars
<1> QED
  BY <1>10, <1>11, <1>12, <1>13 DEF Next

(* A goroutine holds its row of scans alone, and the row has no scanner until
   Scans.Save writes it. *)
THEOREM RowInvariant == Spec => [](JobInv /\ HeldRows)
<1> QED
  BY JobInvInit, JobInvStep, HeldRowsInit, HeldRowsStep, PTL DEF Spec

(* No two goroutines hold the same job or the same row, and none holds a saved
   row, whatever crashes and however the queue hands jobs out. *)
THEOREM OneHolderHolds == Spec => []OneHolder
<1>1. JobInv /\ HeldRows => OneHolder
  BY DEF HeldJobs, HeldRows, OneHolder
<1> QED
  BY <1>1, RowInvariant, PTL

(* A row that carries a scanner id is changed by no step but its deletion. *)
THEOREM SavedRowsStayFinal == Spec => SavedRowsAreFinal
<1> DEFINE Final == \A r \in ScanIds : scans[r].scanner # NoScanner =>
                      \/ scans'[r] = scans[r]
                      \/ scans'[r] = [scans[r] EXCEPT !.at = "gone"]
<1>1. JobInv /\ HeldRows /\ [Next]_vars => Final
  <2> SUFFICES ASSUME JobInv, HeldRows, [Next]_vars,
                      NEW r \in ScanIds, scans[r].scanner # NoScanner
               PROVE  \/ scans'[r] = scans[r]
                      \/ scans'[r] = [scans[r] EXCEPT !.at = "gone"]
    OBVIOUS
  <2>0. scans \in [ScanIds -> ScanRow] /\ worker \in [Workers -> WorkerRow]
    BY DEF TypeOK, TablesTypeOK, EngineTypeOK
  <2>1. CASE UNCHANGED scans
    BY <2>1
  <2>2. ASSUME NEW q \in Requests, PurgeScans(q)
        PROVE  \/ scans'[r] = scans[r]
               \/ scans'[r] = [scans[r] EXCEPT !.at = "gone"]
    BY <2>0, <2>2 DEF PurgeScans
  <2>3. ASSUME NEW w \in Workers, NEW s, OpenRow(w, s)
        PROVE  scans'[r] = scans[r]
    <3>1. NextId(scans) \in ScanIds /\ NextId(scans) # r
      BY <2>0, <2>3, NextIdIsFresh DEF OpenRow, HeldRows
    <3> QED
      BY <2>0, <2>3, <3>1 DEF OpenRow
  <2>4. ASSUME NEW w \in Workers, SaveRow(w)
        PROVE  scans'[r] = scans[r]
    <3>1. worker[w].scan # r
      BY <2>0, <2>4 DEF SaveRow, HeldRows
    <3> QED
      BY <2>0, <2>4, <3>1 DEF SaveRow
  <2>5. CASE ServerStep
    BY <2>1, <2>2, <2>5
    DEF ServerStep, RoutesNext, BeginCreate, InsertSite, PushScan,
        BeginTrigger, BeginDelete, DeleteSite
  <2>6. CASE PoolStep
    BY <2>1, <2>3, <2>4, <2>6
    DEF PoolStep, EngineNext, WorkerStep, Retry, Reap, Fetch, StartScan,
        Execute, FetchFails, Handled, TouchSite, Ack, Fail
  <2>7. CASE PlannerStep \/ ServerCrash \/ WorkerCrash \/ Tick \/ UNCHANGED vars
    BY <2>1, <2>7
    DEF PlannerStep, SchedNext, SchedStep, StartCreateWork, QueryDue, PushDue,
        ServerCrash, WorkerCrash, Tick, vars
  <2> QED
    BY <2>5, <2>6, <2>7 DEF Next
<1> QED
  BY <1>1, RowInvariant, PTL DEF SavedRowsAreFinal, Spec

-----------------------------------------------------------------------------
(* The sites that jobs, requests, goroutines, rows and the scheduler name. *)

(* A registered site stays registered, a deleted one deleted. *)
LEMMA SitesMoveOn ==
  ASSUME JobInv, [Next]_vars, NEW s \in SiteIds
  PROVE  /\ sites[s].at # "unborn" => sites'[s].at # "unborn"
         /\ Gone(s) => Gone(s)'
<1>0. sites \in [SiteIds -> SiteRow]
  BY DEF TypeOK, TablesTypeOK
<1>1. CASE UNCHANGED sites
  BY <1>1 DEF Gone
<1>2. ASSUME NEW u, NEW url, Fresh(sites) # {},
             sites' = [sites EXCEPT ![NextId(sites)] = SiteOf(u, url)]
      PROVE  /\ sites[s].at # "unborn" => sites'[s].at # "unborn"
             /\ Gone(s) => Gone(s)'
  BY <1>0, <1>2, NextIdIsFresh DEF Gone
<1>3. ASSUME NEW q \in Requests, DeleteSite(q)
      PROVE  /\ sites[s].at # "unborn" => sites'[s].at # "unborn"
             /\ Gone(s) => Gone(s)'
  BY <1>0, <1>3 DEF DeleteSite, Gone, SiteRow
<1>4. ASSUME NEW w \in Workers, TouchSite(w)
      PROVE  /\ sites[s].at # "unborn" => sites'[s].at # "unborn"
             /\ Gone(s) => Gone(s)'
  BY <1>0, <1>4 DEF TouchSite, Gone, SiteRow
<1>5. CASE ServerStep
  BY <1>1, <1>2, <1>3, <1>5
  DEF ServerStep, RoutesNext, BeginCreate, InsertSite, PushScan, BeginTrigger,
      BeginDelete, PurgeScans
<1>6. CASE PoolStep
  BY <1>1, <1>2, <1>4, <1>6
  DEF PoolStep, EngineNext, WorkerStep, Retry, Reap, Fetch, StartScan,
      Execute, FetchFails, Handled, SaveRow, Ack, Fail
<1>7. CASE PlannerStep \/ ServerCrash \/ WorkerCrash \/ Tick \/ UNCHANGED vars
  BY <1>1, <1>7
  DEF PlannerStep, SchedNext, SchedStep, StartCreateWork, QueryDue, PushDue,
      ServerCrash, WorkerCrash, Tick, vars
<1> QED
  BY <1>5, <1>6, <1>7 DEF Next

(* A site that was registered stays one, deleted or not. *)
LEMMA KnownStaysKnown ==
  ASSUME JobInv, [Next]_vars, NEW s \in SiteIds \cup {NoSite}, Known(s)
  PROVE  Known(s)'
BY SitesMoveOn DEF Known

(* What a step does to one job: nothing; it is pushed, with a known site; it
   is handled but keeps its site; or it is settled. *)
LEMMA JobMoves ==
  ASSUME JobInv, KnownSites, [Next]_vars, NEW j \in JobIds
  PROVE  \/ jobs'[j] = jobs[j]
         \/ /\ jobs[j].at = "unborn" /\ Known(jobs'[j].site)
            /\ jobs'[j].fails = 0
         \/ jobs'[j].site = jobs[j].site /\ jobs'[j].fails = jobs[j].fails
         \/ /\ jobs'[j].site = jobs[j].site
            /\ \E w \in Workers : Fail(w) /\ worker[w].job = j
         \/ /\ jobs'[j].site = NoSite /\ jobs'[j].fails = 0
            /\ \E w \in Workers : Ack(w) /\ worker[w].job = j
<1> DEFINE Moves ==
         \/ jobs'[j] = jobs[j]
         \/ /\ jobs[j].at = "unborn" /\ Known(jobs'[j].site)
            /\ jobs'[j].fails = 0
         \/ jobs'[j].site = jobs[j].site /\ jobs'[j].fails = jobs[j].fails
         \/ /\ jobs'[j].site = jobs[j].site
            /\ \E w \in Workers : Fail(w) /\ worker[w].job = j
         \/ /\ jobs'[j].site = NoSite /\ jobs'[j].fails = 0
            /\ \E w \in Workers : Ack(w) /\ worker[w].job = j
<1>0. jobs \in [JobIds -> JobRow] /\ QueueTypeOK
  BY DEF TypeOK, QueueTypeOK
<1>1. CASE UNCHANGED jobs
  BY <1>1
<1>2. ASSUME NEW s \in SiteIds \cup {NoSite}, NEW url \in Urls \cup {NoUrl},
             NEW c \in ScannerIds, Known(s), Push(ScanJob(s, url, c))
      PROVE  Moves
  <2> DEFINE load == ScanJob(s, url, c)
  <2>1. load \in JobRow /\ load.fails = 0 /\ load.site = s
    BY ScanJobFacts DEF ScanJob
  <2>2. jobs'[j] = jobs[j] \/ (jobs[j].at = "unborn" /\ jobs'[j] = load)
    <3>1. Push(load)
      BY <1>2
    <3> HIDE DEF load
    <3>2. \A i \in JobIds : \/ jobs'[i] = jobs[i]
                            \/ jobs[i].at = "unborn" /\ jobs'[i] = load
      BY ONLY <1>0, <2>1, <3>1, PushFacts
    <3> QED
      BY <3>2
  <2> HIDE DEF load
  <2> QED
    BY <1>2, <2>1, <2>2
<1>3. ASSUME NEW q \in Requests, PushScan(q) PROVE Moves
  <2>1. /\ req[q].site \in SiteIds \cup {NoSite}
        /\ req[q].url \in Urls \cup {NoUrl} /\ req[q].next \in ScannerIds
    BY DEF TypeOK, RoutesTypeOK, RequestRow
  <2> QED
    BY <1>2, <1>3, <2>1 DEF PushScan, KnownSites
<1>4. ASSUME NEW s \in SiteIds, NEW c \in ScannerIds, PushDue(s, c) PROVE Moves
  <2>1. Known(s)
    BY <1>4 DEF PushDue, KnownSites
  <2> QED
    BY <1>2, <1>4, <2>1 DEF PushDue
<1>5. ASSUME NEW w \in Workers, NEW i \in JobIds,
             Fetch(w, i) \/ Retry(i) \/ Reap(i)
      PROVE  Moves
  BY <1>0, <1>5 DEF Fetch, Retry, Reap, Take, Requeue, PutBack, JobRow
<1>6. ASSUME NEW w \in Workers, Ack(w) PROVE Moves
  BY <1>0, <1>6 DEF Ack, Settle, UnbornJob
<1>7. ASSUME NEW w \in Workers, Fail(w) PROVE Moves
  BY <1>0, <1>7 DEF Fail, Reject, JobRow
<1>8. CASE ServerStep
  BY <1>1, <1>3, <1>8
  DEF ServerStep, RoutesNext, BeginCreate, InsertSite, BeginTrigger,
      BeginDelete, DeleteSite, PurgeScans
<1>9. CASE PoolStep
  <2>1. CASE \E i \in JobIds : Retry(i) \/ Reap(i)
    BY <1>0, <2>1 DEF Retry, Reap, Requeue, PutBack, JobRow
  <2> QED
    BY <1>1, <1>5, <1>6, <1>7, <1>9, <2>1
    DEF PoolStep, EngineNext, WorkerStep, StartScan, Execute, FetchFails,
        Handled, TouchSite, SaveRow
<1>10. CASE PlannerStep
  BY <1>1, <1>4, <1>10
  DEF PlannerStep, SchedNext, SchedStep, StartCreateWork, QueryDue
<1>11. CASE ServerCrash \/ WorkerCrash \/ Tick \/ UNCHANGED vars
  BY <1>1, <1>11 DEF ServerCrash, WorkerCrash, Tick, vars
<1> QED
  BY <1>8, <1>9, <1>10, <1>11 DEF Next

(* What a step does to one goroutine: nothing; it dies or is done; it takes a
   job; it starts the scan of its job; or it goes on with the site it has, and
   if it is about to fail its job, because the site is missing. *)
LEMMA WorkerMoves ==
  ASSUME JobInv, [Next]_vars, NEW w \in Workers
  PROVE  \/ worker'[w] = worker[w]
         \/ worker'[w].pc \in {"idle", "start"} /\ worker'[w].site \in {NoSite, worker[w].site}
         \/ /\ worker[w].pc = "start" /\ worker'[w].pc = "execute"
            /\ worker'[w].job = worker[w].job
            /\ \/ worker'[w].site = JobOf(w).site
               \/ /\ JobOf(w).site = NoSite /\ worker'[w].site \in SiteIds
                  /\ sites'[worker'[w].site].at = "live"
               \/ JobOf(w).site = NoSite /\ worker'[w].site = worker[w].site
         \/ /\ worker[w].pc \notin {"idle", "start"}
            /\ worker'[w].job = worker[w].job
            /\ worker'[w].site = worker[w].site
            /\ worker'[w].pc = "fail" =>
                 \/ worker[w].site = NoSite
                 \/ ~LiveSite(worker[w].site)
<1> DEFINE Moves ==
         \/ worker'[w] = worker[w]
         \/ worker'[w].pc \in {"idle", "start"} /\ worker'[w].site \in {NoSite, worker[w].site}
         \/ /\ worker[w].pc = "start" /\ worker'[w].pc = "execute"
            /\ worker'[w].job = worker[w].job
            /\ \/ worker'[w].site = JobOf(w).site
               \/ /\ JobOf(w).site = NoSite /\ worker'[w].site \in SiteIds
                  /\ sites'[worker'[w].site].at = "live"
               \/ JobOf(w).site = NoSite /\ worker'[w].site = worker[w].site
         \/ /\ worker[w].pc \notin {"idle", "start"}
            /\ worker'[w].job = worker[w].job
            /\ worker'[w].site = worker[w].site
            /\ worker'[w].pc = "fail" =>
                 \/ worker[w].site = NoSite
                 \/ ~LiveSite(worker[w].site)
<1>0. worker \in [Workers -> WorkerRow] /\ sites \in [SiteIds -> SiteRow]
  BY DEF TypeOK, EngineTypeOK, TablesTypeOK
<1>1. CASE UNCHANGED worker
  BY <1>1
<1>2. ASSUME NEW v \in Workers, NEW j \in JobIds, Fetch(v, j) PROVE Moves
  BY <1>0, <1>2 DEF Fetch, WorkerRow
<1>3. ASSUME NEW v \in Workers, StartScan(v) PROVE Moves
  <2>1. CASE v # w
    BY <1>0, <1>3, <2>1 DEF StartScan, OpenRow
  <2>2. CASE v = w
    <3>1. Fresh(sites) # {} => NextId(sites) \in SiteIds
      BY <1>0, NextIdIsFresh
    <3> QED
      BY <1>0, <1>3, <2>2, <3>1 DEF StartScan, OpenRow, SiteOf, WorkerRow
  <2> QED
    BY <2>1, <2>2
<1>4. ASSUME NEW v \in Workers, NEW x \in {0, 1, 3},
             Execute(v) \/ FetchFails(v) \/ Handled(v, x) \/ TouchSite(v) \/ SaveRow(v)
      PROVE  Moves
  BY <1>0, <1>4
  DEF Execute, FetchFails, Handled, TouchSite, SaveRow, WorkerRow
<1>5. ASSUME NEW v \in Workers, Ack(v) \/ Fail(v) PROVE Moves
  BY <1>0, <1>5 DEF Ack, Fail, IdleWorker
<1>6. CASE WorkerCrash
  BY <1>6 DEF WorkerCrash, EngineDies, IdleWorker
<1>7. CASE PoolStep
  BY <1>1, <1>2, <1>3, <1>4, <1>5, <1>7
  DEF PoolStep, EngineNext, WorkerStep, Retry, Reap
<1>8. CASE ServerStep \/ PlannerStep \/ ServerCrash \/ Tick \/ UNCHANGED vars
  BY <1>1, <1>8 DEF ServerStep, PlannerStep, ServerCrash, Tick, vars
<1> QED
  BY <1>6, <1>7, <1>8 DEF Next

(* Nothing names a site at first. *)
LEMMA KnownSitesInit == Init => KnownSites /\ HeldSites /\ LiveSitesNeverRetry
BY DEF Init, TablesInit, QueueInit, RoutesInit, EngineInit, SchedInit,
       KnownSites, Known, HeldSites, LiveSitesNeverRetry, UnbornScan,
       UnbornJob, IdleRequest, IdleWorker, IdleSched

(* Every step keeps the sites named known. *)
LEMMA KnownSitesStep ==
  JobInv /\ HeldRows /\ KnownSites /\ [Next]_vars => KnownSites'
<1> SUFFICES ASSUME JobInv, HeldRows, KnownSites, [Next]_vars PROVE KnownSites'
  OBVIOUS
<1> USE TablesAssumption
<1>0. /\ sites \in [SiteIds -> SiteRow] /\ scans \in [ScanIds -> ScanRow]
      /\ jobs \in [JobIds -> JobRow] /\ req \in [Requests -> RequestRow]
      /\ worker \in [Workers -> WorkerRow] /\ sched \in SchedRow
  BY DEF TypeOK, TablesTypeOK, QueueTypeOK, RoutesTypeOK, EngineTypeOK,
         SchedTypeOK
<1>1. ASSUME NEW s \in SiteIds \cup {NoSite}, Known(s)
      PROVE  s # NoSite => sites'[s].at # "unborn"
  BY <1>1, SitesMoveOn DEF Known
<1>2. \A w \in Workers : worker[w].pc # "idle" =>
        /\ worker[w].job \in JobIds
        /\ JobOf(w).site \in SiteIds \cup {NoSite} /\ Known(JobOf(w).site)
  BY <1>0 DEF HeldJobs, WorkerRow, JobRow, JobOf, KnownSites
<1>3. Fresh(sites) # {} => NextId(sites) \in SiteIds
  BY <1>0, NextIdIsFresh
<1>4. ASSUME NEW j \in JobIds PROVE Known(jobs[j].site)'
  <2>1. jobs[j].site \in SiteIds \cup {NoSite} /\ Known(jobs[j].site)
    BY <1>0 DEF JobRow, KnownSites
  <2>2. jobs'[j].site \in SiteIds \cup {NoSite} /\ Known(jobs'[j].site)
    <3>1. JobInv'
      BY JobInvStep
    <3>2. jobs'[j].site \in SiteIds \cup {NoSite}
      BY <3>1 DEF TypeOK, QueueTypeOK, JobRow
    <3>3. Known(NoSite)
      BY DEF Known
    <3> QED
      BY <2>1, <3>2, <3>3, JobMoves
  <2> QED
    BY <1>1, <2>2 DEF Known
<1>5. ASSUME NEW q \in Requests PROVE Known(req[q].site)'
  <2>1. req[q].site \in SiteIds \cup {NoSite} /\ Known(req[q].site)
    BY <1>0 DEF RequestRow, KnownSites
  <2>2. \/ req'[q].site \in {req[q].site, NoSite}
        \/ req'[q].site \in SiteIds /\ LiveSite(req'[q].site)
        \/ req'[q].site \in SiteIds /\ sites'[req'[q].site].at = "live"
    <3>1. CASE UNCHANGED req
      BY <3>1
    <3>2. ASSUME NEW p \in Requests, NEW u \in Users, NEW url \in Urls,
                 BeginCreate(p, u, url)
          PROVE  req'[q].site \in {req[q].site, NoSite}
      BY <1>0, <3>2 DEF BeginCreate, IdleRequest
    <3>3. ASSUME NEW p \in Requests, InsertSite(p)
          PROVE  \/ req'[q].site \in {req[q].site, NoSite}
                 \/ req'[q].site \in SiteIds /\ sites'[req'[q].site].at = "live"
      BY <1>0, <1>3, <3>3 DEF InsertSite, SiteOf, RequestRow
    <3>4. ASSUME NEW p \in Requests, PushScan(p) \/ DeleteSite(p) \/ PurgeScans(p)
          PROVE  req'[q].site \in {req[q].site, NoSite}
      BY <1>0, <3>4 DEF PushScan, DeleteSite, PurgeScans, IdleRequest, RequestRow
    <3>5. ASSUME NEW p \in Requests, NEW s \in SiteIds,
                 BeginTrigger(p, s) \/ BeginDelete(p, s)
          PROVE  \/ req'[q].site = req[q].site
                 \/ req'[q].site \in SiteIds /\ LiveSite(req'[q].site)
      BY <1>0, <3>5 DEF BeginTrigger, BeginDelete, IdleRequest
    <3>6. CASE ServerCrash
      BY <3>6 DEF ServerCrash, ServerDies, IdleRequest
    <3>7. CASE ServerStep
      BY <3>2, <3>3, <3>4, <3>5, <3>7 DEF ServerStep, RoutesNext
    <3>8. CASE PoolStep \/ PlannerStep \/ WorkerCrash \/ Tick \/ UNCHANGED vars
      BY <3>1, <3>8 DEF PoolStep, PlannerStep, WorkerCrash, Tick, vars
    <3> QED
      BY <3>6, <3>7, <3>8 DEF Next
  <2>3. LiveSite(req'[q].site) => Known(req'[q].site)
    BY DEF LiveSite, Known
  <2> QED
    BY <1>1, <2>1, <2>2, <2>3 DEF Known
<1>6. ASSUME NEW w \in Workers PROVE Known(worker[w].site)'
  <2>1. worker[w].site \in SiteIds \cup {NoSite} /\ Known(worker[w].site)
    BY <1>0 DEF WorkerRow, KnownSites
  <2> QED
    BY <1>1, <1>2, <2>1, WorkerMoves DEF Known
<1>7. ASSUME NEW r \in ScanIds PROVE Known(scans[r].site)'
  <2>1. scans[r].site \in SiteIds \cup {NoSite} /\ Known(scans[r].site)
    BY <1>0 DEF ScanRow, KnownSites
  <2>2. \/ scans'[r].site = scans[r].site
        \/ \E w \in Workers : worker[w].pc # "idle" /\
             scans'[r].site \in {worker[w].site, JobOf(w).site}
        \/ scans'[r].site \in SiteIds /\ sites'[scans'[r].site].at = "live"
    <3>1. CASE UNCHANGED scans
      BY <3>1
    <3>2. ASSUME NEW q \in Requests, PurgeScans(q)
          PROVE  scans'[r].site = scans[r].site
      BY <1>0, <3>2 DEF PurgeScans, ScanRow
    <3>3. ASSUME NEW w \in Workers, StartScan(w)
          PROVE  \/ scans'[r].site = scans[r].site
                 \/ scans'[r].site = JobOf(w).site
                 \/ scans'[r].site \in SiteIds /\ sites'[scans'[r].site].at = "live"
      <4>1. ASSUME NEW s, OpenRow(w, s)
            PROVE  scans'[r].site = scans[r].site \/ scans'[r].site = s
        BY <1>0, <4>1 DEF OpenRow, UnbornScan
      <4>2. CASE OpenRow(w, JobOf(w).site)
        BY <4>1, <4>2
      <4>3. CASE /\ Fresh(sites) # {}
                 /\ sites' = [sites EXCEPT ![NextId(sites)] =
                                SiteOf(Nobody, JobOf(w).url)]
                 /\ OpenRow(w, NextId(sites))
        <5>1. sites'[NextId(sites)].at = "live"
          BY <1>0, <1>3, <4>3 DEF SiteOf
        <5> QED
          BY <1>3, <4>1, <4>3, <5>1
      <4> QED
        BY <3>1, <3>3, <4>2, <4>3 DEF StartScan
    <3>4. ASSUME NEW w \in Workers, SaveRow(w)
          PROVE  scans'[r].site \in {scans[r].site, worker[w].site}
      BY <1>0, <3>4 DEF SaveRow
    <3>5. ASSUME NEW w \in Workers, StartScan(w) \/ SaveRow(w)
          PROVE  worker[w].pc # "idle"
      BY <3>5 DEF StartScan, SaveRow
    <3>6. CASE ServerStep
      BY <3>1, <3>2, <3>6
      DEF ServerStep, RoutesNext, BeginCreate, InsertSite, PushScan,
          BeginTrigger, BeginDelete, DeleteSite
    <3>7. CASE PoolStep
      BY <3>1, <3>3, <3>4, <3>5, <3>7
      DEF PoolStep, EngineNext, WorkerStep, Retry, Reap, Fetch, Execute,
          FetchFails, Handled, TouchSite, Ack, Fail
    <3>8. CASE PlannerStep \/ ServerCrash \/ WorkerCrash \/ Tick \/ UNCHANGED vars
      BY <3>1, <3>8
      DEF PlannerStep, SchedNext, SchedStep, StartCreateWork, QueryDue,
          PushDue, ServerCrash, WorkerCrash, Tick, vars
    <3> QED
      BY <3>6, <3>7, <3>8 DEF Next
  <2>3. \A w \in Workers :
          worker[w].site \in SiteIds \cup {NoSite} /\ Known(worker[w].site)
    BY <1>0 DEF WorkerRow, KnownSites
  <2> QED
    BY <1>1, <1>2, <2>1, <2>2, <2>3 DEF Known
<1>8. ASSUME NEW p \in sched'.due PROVE Known(p[1])'
  <2>1. sched'.due \subseteq sched.due \cup
          {x \in Pairs : \E r \in ScanIds : scans[r].site = x[1]}
    <3>1. CASE UNCHANGED sched
      BY <3>1
    <3>2. ASSUME NEW todo, NEW due, Proceed(todo, due) PROVE sched'.due \subseteq due
      BY <3>2 DEF Proceed, IdleSched
    <3>3. CASE StartCreateWork
      BY <3>3 DEF StartCreateWork
    <3>4. ASSUME NEW c \in ScannerIds, QueryDue(c)
          PROVE  sched'.due \subseteq sched.due \cup
                   {x \in Pairs : \E r \in ScanIds : scans[r].site = x[1]}
      <4>1. PICK P \in Page(DueSites(c, sched.at - Interval[c])) :
              Proceed(sched.todo \ {c}, sched.due \cup (P \X {c}))
        BY <3>4 DEF QueryDue
      <4>2. P \X {c} \subseteq
              {x \in Pairs : \E r \in ScanIds : scans[r].site = x[1]}
        BY <4>1 DEF Page, DueSites, Pairs
      <4> QED
        BY <3>2, <4>1, <4>2
    <3>5. ASSUME NEW s \in SiteIds, NEW c \in ScannerIds, PushDue(s, c)
          PROVE  sched'.due \subseteq sched.due
      BY <3>2, <3>5 DEF PushDue
    <3>6. CASE WorkerCrash
      BY <3>6 DEF WorkerCrash, SchedDies, IdleSched
    <3>7. CASE PlannerStep
      BY <3>3, <3>4, <3>5, <3>7 DEF PlannerStep, SchedNext, SchedStep
    <3>8. CASE ServerStep \/ PoolStep \/ ServerCrash \/ Tick \/ UNCHANGED vars
      BY <3>1, <3>8 DEF ServerStep, PoolStep, ServerCrash, Tick, vars
    <3> QED
      BY <3>6, <3>7, <3>8 DEF Next
  <2>2. CASE p \in sched.due
    <3>1. p[1] \in SiteIds /\ Known(p[1])
      BY <1>0, <2>2 DEF SchedRow, Pairs, KnownSites
    <3> QED
      BY <1>1, <3>1 DEF Known
  <2>3. CASE p \in Pairs /\ \E r \in ScanIds : scans[r].site = p[1]
    <3>1. p[1] \in SiteIds /\ Known(p[1])
      BY <2>3 DEF Pairs, KnownSites
    <3> QED
      BY <1>1, <3>1 DEF Known
  <2> QED
    BY <2>1, <2>2, <2>3
<1> QED
  BY <1>4, <1>5, <1>6, <1>7, <1>8 DEF KnownSites

(* Every step keeps a goroutine at the site of its job, and lets it fail only
   a job whose site is missing. *)
LEMMA HeldSitesStep ==
  JobInv /\ KnownSites /\ HeldSites /\ [Next]_vars => HeldSites'
<1> SUFFICES ASSUME JobInv, KnownSites, HeldSites, [Next]_vars,
                    NEW w \in Workers, worker'[w].pc \notin {"idle", "start"}
             PROVE  /\ JobOf(w)'.site # NoSite =>
                         worker'[w].site = JobOf(w)'.site
                    /\ worker'[w].pc = "fail" =>
                         JobOf(w)'.site = NoSite \/ Gone(JobOf(w).site)'
  BY DEF HeldSites
<1>0. /\ worker \in [Workers -> WorkerRow] /\ jobs \in [JobIds -> JobRow]
      /\ sites \in [SiteIds -> SiteRow] /\ NoSite \notin SiteIds
  BY TablesAssumption
  DEF TypeOK, EngineTypeOK, QueueTypeOK, TablesTypeOK
<1>1. PICK j \in JobIds :
        /\ worker[w].pc # "idle" /\ worker[w].job = j /\ worker'[w].job = j
        /\ jobs[j].at = "running"
  BY <1>0, WorkerMoves DEF HeldJobs, WorkerRow
<1>2. jobs'[j].site \in {NoSite, jobs[j].site}
  BY <1>1, JobMoves
<1>3. JobOf(w) = jobs[j] /\ JobOf(w)' = jobs'[j]
  BY <1>1 DEF JobOf
<1>4. jobs[j].site \in SiteIds \cup {NoSite}
  BY <1>0, <1>1 DEF JobRow
<1>5. jobs'[j].site # NoSite => worker'[w].site = jobs'[j].site
  BY <1>1, <1>2, <1>3, WorkerMoves DEF HeldSites
<1>6. worker'[w].pc = "fail" => jobs'[j].site = NoSite \/ Gone(jobs[j].site)'
  <2> SUFFICES ASSUME worker'[w].pc = "fail", jobs'[j].site # NoSite
               PROVE  Gone(jobs[j].site)'
    OBVIOUS
  <2>1. jobs'[j].site = jobs[j].site /\ jobs[j].site \in SiteIds
    BY <1>2, <1>4
  <2>2. Gone(jobs[j].site)
    <3>1. CASE worker'[w] = worker[w]
      BY <1>3, <2>1, <3>1, <1>0 DEF HeldSites
    <3>2. CASE /\ worker[w].pc \notin {"idle", "start"}
               /\ worker[w].site = NoSite \/ ~LiveSite(worker[w].site)
      <4>1. worker[w].site = jobs[j].site
        BY <1>0, <1>3, <2>1, <3>2 DEF HeldSites
      <4>2. sites[jobs[j].site].at \notin {"unborn", "live"}
        BY <1>0, <1>1, <2>1, <3>2, <4>1 DEF KnownSites, Known, LiveSite
      <4> QED
        BY <1>0, <2>1, <4>2 DEF SiteRow, Gone
    <3> QED
      BY <3>1, <3>2, WorkerMoves
  <2> QED
    BY <2>1, <2>2, SitesMoveOn DEF Gone
<1> QED
  BY <1>3, <1>5, <1>6 DEF Gone

(* Every step spends attempts only on jobs whose site is missing. *)
LEMMA LiveSitesNeverRetryStep ==
  JobInv /\ KnownSites /\ HeldSites /\ LiveSitesNeverRetry /\ [Next]_vars
    => LiveSitesNeverRetry'
<1> SUFFICES ASSUME JobInv, KnownSites, HeldSites, LiveSitesNeverRetry,
                    [Next]_vars, NEW j \in JobIds, jobs'[j].fails > 0,
                    jobs'[j].site # NoSite
             PROVE  Gone(jobs[j].site)'
  BY DEF LiveSitesNeverRetry
<1>0. jobs[j] \in JobRow
  BY DEF TypeOK, QueueTypeOK
<1>1. jobs'[j].site = jobs[j].site /\ jobs[j].site \in SiteIds
  BY <1>0, JobMoves DEF JobRow
<1>2. Gone(jobs[j].site)
  <2>1. CASE jobs'[j].fails = jobs[j].fails
    BY <1>1, <2>1 DEF LiveSitesNeverRetry
  <2>2. ASSUME NEW w \in Workers, Fail(w), worker[w].job = j
        PROVE  Gone(jobs[j].site)
    BY <1>1, <2>2 DEF Fail, HeldSites, JobOf
  <2> QED
    BY <1>1, <2>1, <2>2, JobMoves
<1> QED
  BY <1>1, <1>2, SitesMoveOn

(* The inductive invariant holds in every state of every behaviour. *)
THEOREM Inductive == Spec => []IInv
<1>1. Init => IInv
  BY JobInvInit, HeldRowsInit, KnownSitesInit DEF IInv
<1>2. IInv /\ [Next]_vars => IInv'
  BY JobInvStep, HeldRowsStep, KnownSitesStep, HeldSitesStep,
     LiveSitesNeverRetryStep DEF IInv
<1> QED
  BY <1>1, <1>2, PTL DEF Spec

(* No attempt is ever spent on a job whose site is there: whatever its fetch,
   its scanner or a crash does, such a job is never retried nor dead. *)
THEOREM LiveSitesAreNeverRetried == Spec => []LiveSitesNeverRetry
<1>1. IInv => LiveSitesNeverRetry
  BY DEF IInv
<1> QED
  BY <1>1, Inductive, PTL

=============================================================================
