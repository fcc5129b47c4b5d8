----------------------------- MODULE JobFactory -----------------------------
(***************************************************************************)
(* The worker of the former job queue (deprecated/work.go, not compiled):  *)
(* a goroutine that feeds queued rows into a channel, a pool of workers    *)
(* that handle them, one that takes their reports, four DoEvery loops, and *)
(* the shutdown, of a single process that runs once.  Only `jobs` is a     *)
(* buffered channel: elsewhere a send and its receive are one step.        *)
(***************************************************************************)
EXTENDS JobTable, Sequences

CONSTANTS
  NoJob,      \* of a goroutine that has none
  Workers,    \* Workit goroutines; their numbers are 1..Workers
  ChanCap     \* capacity of the channel `jobs`

ASSUME JobFactoryAssumption ==
  /\ Workers \in Nat \ {0} /\ ChanCap \in Nat \ {0}
  /\ "heartbeat" \in Pushers /\ NoJob \notin Jobs

VARIABLES
  chan,       \* the channel `jobs`
  worker,     \* what each worker is doing
  feeder,     \* the goroutine that feeds the workers
  consumer,   \* RunInBackgroundLoop, which takes the reports
  loop,       \* the DoEvery loops
  sig,        \* the goroutine that waits for a signal
  main,       \* the main goroutine
  left,       \* goroutines of Factory.Stop that have not run
  told,       \* workers whose Stop was called
  orphans     \* history: jobs in a worker's hands when the process ended

goVars ==
  <<chan, worker, feeder, consumer, loop, sig, main, left, told, orphans>>

ending == <<main, left, told, orphans>>

vars == <<tableVars, goVars>>

Pool == 1..Workers

Loops == {"heartbeat", "stats", "create_work", "cleanup"}

WorkerRow == [pc : {"idle", "start", "run", "report", "off"},
              job : Jobs \cup {NoJob}]

FeederRow == [pc : {"select", "send", "off"}, todo : SUBSET Jobs,
              job : Jobs \cup {NoJob}]

IdleWorker == [pc |-> "idle", job |-> NoJob]

Feeder(at) == [pc |-> at, todo |-> {}, job |-> NoJob]

Init ==
  /\ TableInit
  /\ chan = <<>>
  /\ worker = [w \in Pool |-> IdleWorker]
  /\ feeder = Feeder("select")
  /\ consumer = "outer"
  /\ loop = [l \in Loops |-> "select"]
  /\ sig = "wait" /\ main = "wait" /\ left = Workers
  /\ told = [w \in Pool |-> FALSE]
  /\ orphans = {}

GoTypeOK ==
  /\ chan \in Seq(Jobs) /\ Len(chan) <= ChanCap
  /\ worker \in [Pool -> WorkerRow] /\ feeder \in FeederRow
  /\ consumer \in {"outer", "inner", "off"}
  /\ loop \in [Loops -> {"select", "stopped"}]
  /\ sig \in {"wait", "quit", "quit2", "done", "off"} \cup Loops
  /\ main \in {"wait", "stop", "ended"} /\ left \in 0..Workers
  /\ told \in [Pool -> BOOLEAN]
  /\ orphans \subseteq Jobs

TypeOK == TableTypeOK /\ GoTypeOK

Running == main # "ended"

Holding == {w \in Pool : worker[w].pc \in {"start", "run"}}

-----------------------------------------------------------------------------
(* Workit.Work. *)
Take(w) ==
  /\ Running /\ worker[w].pc = "idle" /\ chan # <<>>
  /\ worker' = [worker EXCEPT ![w] = [pc |-> "start", job |-> Head(chan)]]
  /\ chan' = Tail(chan)
  /\ UNCHANGED <<tableVars, feeder, consumer, loop, sig, ending>>

(* Queue.Handle: the status, then the look-up of the handler. *)
Start(w) ==
  LET j == worker[w].job
  IN /\ Running /\ worker[w].pc = "start"
     /\ jobs' = SetStatus(j, Started)
     /\ worker' = [worker EXCEPT ![w] =
          IF jobs[j].known THEN [@ EXCEPT !.pc = "run"]
          ELSE [IdleWorker EXCEPT !.pc = "report"]]
     /\ UNCHANGED <<push, chan, feeder, consumer, loop, sig, ending>>

(* Mutant of Run: only an error is written. *)
RunUnmarked(w) ==
  /\ Running /\ worker[w].pc = "run"
  /\ jobs' \in {jobs, SetStatus(worker[w].job, Failed)}
  /\ worker' = [worker EXCEPT ![w] = [IdleWorker EXCEPT !.pc = "report"]]
  /\ UNCHANGED <<push, chan, feeder, consumer, loop, sig, ending>>

(* The handler runs, and its outcome is written. *)
Run(w) ==
  /\ Running /\ worker[w].pc = "run"
  /\ \E status \in {Failed, Handled} : jobs' = SetStatus(worker[w].job, status)
  /\ worker' = [worker EXCEPT ![w] = [IdleWorker EXCEPT !.pc = "report"]]
  /\ UNCHANGED <<push, chan, feeder, consumer, loop, sig, ending>>

(* Mutant of Report: the goroutine that takes the reports takes one. *)
ReportOnce(w) ==
  /\ Running /\ worker[w].pc = "report" /\ consumer = "inner"
  /\ worker' = [worker EXCEPT ![w].pc = "idle"]
  /\ consumer' = "off"
  /\ UNCHANGED <<tableVars, chan, feeder, loop, sig, ending>>

(* w.Done <- WorkDone{...}, received in the inner select. *)
Report(w) ==
  /\ Running /\ worker[w].pc = "report" /\ consumer = "inner"
  /\ worker' = [worker EXCEPT ![w].pc = "idle"]
  /\ consumer' = "outer"
  /\ UNCHANGED <<tableVars, chan, feeder, loop, sig, ending>>

(* <-w.Quit. *)
QuitWorker(w) ==
  /\ Running /\ worker[w].pc = "idle" /\ told[w]
  /\ worker' = [worker EXCEPT ![w].pc = "off"]
  /\ UNCHANGED <<tableVars, chan, feeder, consumer, loop, sig, ending>>

-----------------------------------------------------------------------------
(* The feeder, whose selects take a quit that is being sent, and else go on.
   A job that was read is fed again as long as it is queued. *)
ReadJobs ==
  /\ Running /\ feeder.pc = "select" /\ feeder.todo = {} /\ sig # "quit"
  /\ feeder' = [feeder EXCEPT !.todo = ReadQueued]
  /\ UNCHANGED <<tableVars, chan, worker, consumer, loop, sig, ending>>

NextJob ==
  /\ Running /\ feeder.pc = "select" /\ sig # "quit"
  /\ \E j \in feeder.todo :
       feeder' = [pc |-> "send", todo |-> feeder.todo \ {j}, job |-> j]
  /\ UNCHANGED <<tableVars, chan, worker, consumer, loop, sig, ending>>

(* jobs <- job. *)
Feed ==
  /\ Running /\ feeder.pc = "send" /\ Len(chan) < ChanCap
  /\ chan' = Append(chan, feeder.job)
  /\ feeder' = [feeder EXCEPT !.pc = "select", !.job = NoJob]
  /\ UNCHANGED <<tableVars, worker, consumer, loop, sig, ending>>

QuitFeeder ==
  /\ Running /\ sig = "quit" /\ feeder.pc = "select"
  /\ feeder' = Feeder("off")
  /\ sig' = "quit2"
  /\ UNCHANGED <<tableVars, chan, worker, consumer, loop, ending>>

FeederStep == ReadJobs \/ NextJob \/ Feed \/ QuitFeeder

-----------------------------------------------------------------------------
(* RunInBackgroundLoop: its select falls through to run(q), which waits for a
   report or for q, so that a quit is usually taken by the inner select and
   the loop goes on. *)
EnterRun ==
  /\ Running /\ consumer = "outer" /\ sig # "quit2"
  /\ consumer' = "inner"
  /\ UNCHANGED <<tableVars, chan, worker, feeder, loop, sig, ending>>

QuitConsumer ==
  /\ Running /\ sig = "quit2" /\ consumer # "off"
  /\ consumer' = IF consumer = "outer" THEN "off" ELSE "outer"
  /\ sig' = "done"
  /\ UNCHANGED <<tableVars, chan, worker, feeder, loop, ending>>

ConsumerStep == EnterRun \/ QuitConsumer

-----------------------------------------------------------------------------
(* The loops: a run of the heartbeat pushes jobs, one after the other, and one
   of cleanup is its DELETE; those of stats and create_work write nothing. *)
Heartbeat ==
  /\ Running /\ loop["heartbeat"] = "select"
  /\ \E n \in PushNames, known \in BOOLEAN : BeginPush("heartbeat", n, known)
  /\ UNCHANGED goVars

CleanupHeartbeat ==
  /\ Running /\ loop["cleanup"] = "select"
  /\ Cleanup
  /\ UNCHANGED goVars

-----------------------------------------------------------------------------
(* SIGINT, SIGTERM, or the loop that sends os.Interrupt after 400 seconds. *)
Signal ==
  /\ Running /\ sig = "wait" /\ sig' = "heartbeat"
  /\ UNCHANGED <<tableVars, chan, worker, feeder, consumer, loop, ending>>

(* Mutant of After: quitHeartbeat is sent in the place of cleanupHeartbeat. *)
AfterTwice(l) == CASE l = "heartbeat"   -> "stats"
                   [] l = "stats"       -> "create_work"
                   [] l = "create_work" -> "heartbeat"
                   [] l = "cleanup"     -> "quit"

After(l) == CASE l = "heartbeat"   -> "stats"
              [] l = "stats"       -> "create_work"
              [] l = "create_work" -> "cleanup"
              [] l = "cleanup"     -> "quit"

QuitLoop(l) ==
  /\ Running /\ sig = l /\ loop[l] = "select"
  /\ l = "heartbeat" => push["heartbeat"].pc = "idle"
  /\ sig' = After(l)
  /\ loop' = [loop EXCEPT ![l] = "stopped"]
  /\ UNCHANGED <<tableVars, chan, worker, feeder, consumer, ending>>

(* allDone <- true; main calls Factory.Stop. *)
AllDone ==
  /\ Running /\ sig = "done" /\ main = "wait"
  /\ sig' = "off" /\ main' = "stop"
  /\ UNCHANGED <<tableVars, chan, worker, feeder, consumer, loop, left, told>>
  /\ UNCHANGED orphans

(* The closure of Factory.Stop reads the loop's variable when it runs: it stops
   the worker of its own turn or of any later one. *)
StopOne ==
  /\ main = "stop" /\ left > 0
  /\ left' = left - 1
  /\ \E w \in Workers - left + 1..Workers : told' = [told EXCEPT ![w] = TRUE]
  /\ UNCHANGED <<tableVars, chan, worker, feeder, consumer, loop, sig>>
  /\ UNCHANGED <<main, orphans>>

(* The process ends, whatever its goroutines are doing. *)
End ==
  /\ main' = "ended" /\ left' = 0 /\ told' = [w \in Pool |-> FALSE]
  /\ orphans' = orphans \cup {worker[w].job : w \in Holding}
  /\ push' = [push EXCEPT !["heartbeat"] = NoPush]
  /\ chan' = <<>> /\ worker' = [w \in Pool |-> IdleWorker]
  /\ feeder' = Feeder("off") /\ consumer' = "off"
  /\ loop' = [l \in Loops |-> "stopped"] /\ sig' = "off"
  /\ UNCHANGED jobs

(* Worker returns. *)
Exit == main = "stop" /\ left = 0 /\ End

MainStep == AllDone \/ StopOne \/ Exit

(* The process dies without a word. *)
Die == Running /\ End

-----------------------------------------------------------------------------
WorkerStep(w) == Take(w) \/ Start(w) \/ Run(w) \/ Report(w) \/ QuitWorker(w)

Pushes ==
  /\ \/ \E p \in Pushers : PushStep(p)
     \/ \E p \in Pushers \ {"heartbeat"}, n \in PushNames, known \in BOOLEAN :
          BeginPush(p, n, known)
  /\ UNCHANGED goVars

Next ==
  \/ \E w \in Pool : WorkerStep(w)
  \/ FeederStep \/ ConsumerStep
  \/ Heartbeat \/ CleanupHeartbeat \/ \E l \in Loops : QuitLoop(l)
  \/ Signal \/ MainStep \/ Die
  \/ Pushes

Spec == Init /\ [][Next]_vars

(* Go runs a goroutine that is ready, and a select picks one of its ready cases
   at random, so a quit is not passed over for ever.  Handlers return.
   Nothing is assumed of tickers, signals and crashes. *)
Fairness ==
  /\ \A w \in Pool : WF_vars(WorkerStep(w))
  /\ WF_vars(FeederStep) /\ WF_vars(ConsumerStep) /\ WF_vars(MainStep)
  /\ WF_vars(PushStep("heartbeat") /\ UNCHANGED goVars)
  /\ SF_vars(\E l \in Loops : QuitLoop(l))

FairSpec == Spec /\ Fairness

-----------------------------------------------------------------------------
(* A job that is marked as started is in the hands of a worker, unless its
   class has no handler or the process ended while a worker had it.  The
   feeder hands the same row out more than once, so that several workers may
   have it and write its status over each other's (Queue.Handle). *)
StartedAreHeld ==
  \A j \in LiveJobs :
    jobs[j].status = Started =>
      \/ ~jobs[j].known \/ j \in orphans
      \/ \E w \in Holding : worker[w].job = j

(* A queued job that has a handler is handled or fails, unless the process
   ends first: not lost between the table, the feeder's list, a full channel
   and the pool (Worker, Workit.Work). *)
QueuedAreHandled ==
  \A j \in Jobs :
    jobs[j].at = "live" /\ jobs[j].known /\ jobs[j].status = Queued
      ~> jobs[j].at = "gone" \/ jobs[j].status \in {Failed, Handled} \/ ~Running

(* A signal ends the process, although the feeder may be blocked on a full
   channel and only one of two selects ends the goroutine that takes the
   reports (Worker, after <-c). *)
SignalStops == sig # "wait" ~> ~Running

=============================================================================
