------------------------------ MODULE JobTable ------------------------------
(***************************************************************************)
(* The table `jobs` of the program's former job queue (deprecated/         *)
(* queue.go, kept in the repository for reference and not compiled):       *)
(* pushing a job, with the check that keeps named jobs unique, and what    *)
(* handling one writes.                                                    *)
(*                                                                         *)
(* A name stands for a class and a name; a job without a name is never     *)
(* refused.  A job fails when its data cannot be decoded or its handler    *)
(* returns an error: one outcome here.                                     *)
(***************************************************************************)
EXTENDS Integers, FiniteSets

CONSTANTS
  Jobs,       \* rows; bounds how many jobs are saved
  JobNames,
  NoName,     \* of a job that need not be unique
  Pushers     \* goroutines that push jobs

ASSUME JobTableAssumption == NoName \notin JobNames

VARIABLES
  jobs,       \* table jobs
  push        \* what each pusher is doing

tableVars == <<jobs, push>>

PushNames == JobNames \cup {NoName}

Queued   == 0
Started  == 1
Failed   == 3
Handled  == 9
Statuses == {Queued, Started, Failed, Handled}

(* known: its class has a handler. *)
JobRow == [at : {"unborn", "live", "gone"}, name : PushNames, known : BOOLEAN,
           status : Statuses]

UnbornJob == [at |-> "unborn", name |-> NoName, known |-> FALSE,
              status |-> Queued]

PushRow == [pc : {"idle", "count", "save"}, name : PushNames, known : BOOLEAN]

NoPush == [pc |-> "idle", name |-> NoName, known |-> FALSE]

TableInit ==
  /\ jobs = [j \in Jobs |-> UnbornJob]
  /\ push = [p \in Pushers |-> NoPush]

TableTypeOK ==
  /\ jobs \in [Jobs -> JobRow]
  /\ push \in [Pushers -> PushRow]

LiveJobs == {j \in Jobs : jobs[j].at = "live"}

(* Jobs that are queued or started, as Push counts them. *)
Pending(n) == {j \in LiveJobs : jobs[j].name = n /\ jobs[j].status <= Started}

-----------------------------------------------------------------------------
(* Queue.Push. *)
BeginPush(p, n, known) ==
  /\ push[p].pc = "idle" /\ \E j \in Jobs : jobs[j].at = "unborn"
  /\ push' = [push EXCEPT ![p] =
       [pc |-> IF n = NoName THEN "save" ELSE "count", name |-> n,
        known |-> known]]
  /\ UNCHANGED jobs

(* A job of that name that is still pending: job.already_queued. *)
CountNamed(p) ==
  /\ push[p].pc = "count"
  /\ push' = [push EXCEPT ![p] =
       IF Pending(@.name) # {} THEN NoPush ELSE [@ EXCEPT !.pc = "save"]]
  /\ UNCHANGED jobs

SaveJob(p) ==
  /\ push[p].pc = "save"
  /\ \E j \in Jobs :
       /\ jobs[j].at = "unborn"
       /\ jobs' = [jobs EXCEPT ![j] = [UnbornJob EXCEPT
            !.at = "live", !.name = push[p].name, !.known = push[p].known]]
  /\ push' = [push EXCEPT ![p] = NoPush]

PushStep(p) == CountNamed(p) \/ SaveJob(p)

-----------------------------------------------------------------------------
(* An UPDATE of a job's status, by its id: nothing when the row is gone. *)
SetStatus(j, status) ==
  IF jobs[j].at = "live" THEN [jobs EXCEPT ![j].status = status] ELSE jobs

(* Queue.Read. *)
ReadQueued == {j \in LiveJobs : jobs[j].status = Queued}

(* The cleanup loop: one DELETE of handled jobs, those that were created more
   than five minutes ago. *)
Cleanup ==
  /\ \E old \in SUBSET {j \in LiveJobs : jobs[j].status = Handled} :
       jobs' = [j \in Jobs |->
         IF j \in old THEN [UnbornJob EXCEPT !.at = "gone"] ELSE jobs[j]]
  /\ UNCHANGED push

=============================================================================
