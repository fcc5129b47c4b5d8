--------------------------- MODULE WorkerProcess ----------------------------
(***************************************************************************)
(* The life of a worker process (worker.go): the loops DoEvery starts, the *)
(* goroutine that waits for a signal, the main goroutine, and the two rows *)
(* of the state table by which GET /admin/jobs shows the process.  All its *)
(* channels are unbuffered, so a send and its receive are one step.        *)
(*                                                                         *)
(* A process is started once and never again: Procs are the incarnations   *)
(* of the worker, and MaxAlive says how many the operator lets run at once *)
(* ("@todo get lock to see if only worker").                               *)
(***************************************************************************)
EXTENDS StateStore, Integers, FiniteSets

CONSTANTS
  Procs,      \* incarnations of the worker; bounds the restarts
  MaxAlive,   \* processes that may run at once
  MaxKills    \* bound of the processes that die without a word

ASSUME WorkerProcessAssumption ==
  /\ Names = {"worker_process", "worker_heartbeat"}
  /\ Values = Procs
  /\ MaxAlive \in Nat \ {0}
  /\ MaxKills \in Nat

VARIABLES
  proc,       \* the goroutines of each process
  kills       \* how many processes have died without a word

vars == <<state, proc, kills>>

Loops == {"heartbeat", "stats", "create_work"}

(* main:   off, boot, has, write, wait, drain, ended
   sig:    the signal goroutine, off before signal.Notify, armed from there to
           its receive, then listening; the rest is its shutdown sequence
   loop:   what each loop does; the heartbeat's run is a Put of two steps
   found:  what the Has of main's Put said
   beat:   what the Has of the heartbeat's Put said *)
ProcRow ==
  [main  : {"off", "boot", "has", "write", "wait", "drain", "ended"},
   sig   : {"off", "armed", "listening", "delete", "done", "ended"} \cup Loops,
   loop  : [Loops -> {"off", "select", "run", "write", "stopped"}],
   found : BOOLEAN, beat : BOOLEAN]

(* A process that is not running; at says if it has run. *)
NoProcess(at) ==
  [main |-> at, sig |-> "off", loop |-> [l \in Loops |-> "off"],
   found |-> FALSE, beat |-> FALSE]

Init ==
  /\ StoreInit
  /\ proc = [p \in Procs |-> NoProcess("off")]
  /\ kills = 0

TypeOK ==
  /\ StoreTypeOK
  /\ proc \in [Procs -> ProcRow]
  /\ kills \in 0..MaxKills

Alive == {p \in Procs : proc[p].main \notin {"off", "ended"}}

-----------------------------------------------------------------------------
(* The main goroutine. *)

Boot(p) ==
  /\ proc[p].main = "off" /\ Cardinality(Alive) < MaxAlive
  /\ proc' = [proc EXCEPT ![p].main = "boot",
                ![p].loop = [l \in Loops |-> "select"]]
  /\ UNCHANGED <<state, kills>>

(* signal.Notify, and the go statement after it. *)
Listen(p) ==
  /\ proc[p].main = "boot"
  /\ proc' = [proc EXCEPT ![p].main = "has", ![p].sig = "armed"]
  /\ UNCHANGED <<state, kills>>

(* app.State.Put("worker_process", ...). *)
LookUpSelf(p) ==
  /\ proc[p].main = "has"
  /\ proc' = [proc EXCEPT ![p].main = "write",
                ![p].found = Has("worker_process")]
  /\ UNCHANGED <<state, kills>>

ReportSelf(p) ==
  /\ proc[p].main = "write"
  /\ PutWrite("worker_process", p, proc[p].found)
  /\ proc' = [proc EXCEPT ![p].main = "wait"]
  /\ UNCHANGED kills

(* pool.Stop waits for the jobs in hand; then the process ends. *)
StopPool(p) ==
  /\ proc[p].main = "drain"
  /\ proc' = [proc EXCEPT ![p] = NoProcess("ended")]
  /\ UNCHANGED <<state, kills>>

-----------------------------------------------------------------------------
(* A loop of DoEvery: its select, and one run. *)

Tick(p, l) ==
  /\ proc[p].loop[l] = "select"
  /\ proc' = [proc EXCEPT ![p].loop[l] = "run"]
  /\ UNCHANGED <<state, kills>>

EndRun(p, l) ==
  /\ l # "heartbeat" /\ proc[p].loop[l] = "run"
  /\ proc' = [proc EXCEPT ![p].loop[l] = "select"]
  /\ UNCHANGED <<state, kills>>

(* app.State.Put("worker_heartbeat", ...). *)
LookUpBeat(p) ==
  /\ proc[p].loop["heartbeat"] = "run"
  /\ proc' = [proc EXCEPT ![p].loop["heartbeat"] = "write",
                ![p].beat = Has("worker_heartbeat")]
  /\ UNCHANGED <<state, kills>>

Beat(p) ==
  /\ proc[p].loop["heartbeat"] = "write"
  /\ PutWrite("worker_heartbeat", p, proc[p].beat)
  /\ proc' = [proc EXCEPT ![p].loop["heartbeat"] = "select"]
  /\ UNCHANGED kills

-----------------------------------------------------------------------------
(* The signal goroutine. *)

(* The goroutine is scheduled for the first time and receives from c. *)
AwaitSignal(p) ==
  /\ proc[p].sig = "armed"
  /\ proc' = [proc EXCEPT ![p].sig = "listening"]
  /\ UNCHANGED <<state, kills>>

(* SIGINT or SIGTERM.  Before signal.Notify it kills the process.  After it,
   the runtime offers it to c without waiting: an armed goroutine does not
   receive yet, one past its receive never will again, and the signal is
   dropped, which is no step. *)
Signal(p) ==
  /\ \/ /\ proc[p].main = "boot"
        /\ proc' = [proc EXCEPT ![p] = NoProcess("ended")]
     \/ /\ proc[p].sig = "listening"
        /\ proc' = [proc EXCEPT ![p].sig = "delete"]
  /\ UNCHANGED <<state, kills>>

DeleteSelf(p) ==
  /\ proc[p].sig = "delete"
  /\ Delete("worker_process")
  /\ proc' = [proc EXCEPT ![p].sig = "heartbeat"]
  /\ UNCHANGED kills

(* Mutant of After: quitHeartbeat is sent in the place of quitCreateWork. *)
AfterTwice(l) == CASE l = "heartbeat"   -> "stats"
                   [] l = "stats"       -> "heartbeat"
                   [] l = "create_work" -> "done"

(* quitHeartbeat, quitStats, quitCreateWork, in this order: each send waits
   for the loop's select. *)
After(l) == CASE l = "heartbeat"   -> "stats"
              [] l = "stats"       -> "create_work"
              [] l = "create_work" -> "done"

(* Mutant of Quit: the send gives up when the loop is busy. *)
QuitOrGiveUp(p, l) ==
  /\ proc[p].sig = l
  /\ proc' = [proc EXCEPT ![p].sig = After(l),
       ![p].loop[l] = IF @ = "select" THEN "stopped" ELSE @]
  /\ UNCHANGED <<state, kills>>

Quit(p, l) ==
  /\ proc[p].sig = l /\ proc[p].loop[l] = "select"
  /\ proc' = [proc EXCEPT ![p].sig = After(l), ![p].loop[l] = "stopped"]
  /\ UNCHANGED <<state, kills>>

(* allDone <- true, received by main. *)
TellMain(p) ==
  /\ proc[p].sig = "done" /\ proc[p].main = "wait"
  /\ proc' = [proc EXCEPT ![p].sig = "ended", ![p].main = "drain"]
  /\ UNCHANGED <<state, kills>>

(* A process dies without a word: SIGKILL, a panic, a lost machine. *)
Die(p) ==
  /\ p \in Alive
  /\ kills < MaxKills /\ kills' = kills + 1
  /\ proc' = [proc EXCEPT ![p] = NoProcess("ended")]
  /\ UNCHANGED state

-----------------------------------------------------------------------------
MainStep(p) == Listen(p) \/ LookUpSelf(p) \/ ReportSelf(p) \/ StopPool(p)

LoopRuns(p, l) ==
  \/ EndRun(p, l)
  \/ l = "heartbeat" /\ (LookUpBeat(p) \/ Beat(p))

Next ==
  \E p \in Procs :
    \/ Boot(p) \/ MainStep(p)
    \/ \E l \in Loops : Tick(p, l) \/ LoopRuns(p, l) \/ Quit(p, l)
    \/ AwaitSignal(p) \/ Signal(p) \/ DeleteSelf(p) \/ TellMain(p)
    \/ Die(p)

Spec == Init /\ [][Next]_vars

(* Go runs a goroutine that is ready and pool.Stop ends with the jobs in hand.
   A select with both its channels ready picks one at random, so a quit that
   is ready again and again is not passed over for ever.  Nothing is assumed
   of tickers, signals and crashes. *)
Fairness ==
  \A p \in Procs :
    /\ WF_vars(MainStep(p))
    /\ WF_vars(AwaitSignal(p)) /\ WF_vars(DeleteSelf(p)) /\ WF_vars(TellMain(p))
    /\ SF_vars(\E l \in Loops : Quit(p, l))
    /\ \A l \in Loops : WF_vars(LoopRuns(p, l))

FairSpec == Spec /\ Fairness

-----------------------------------------------------------------------------
(* While the pool drains every loop of the process has stopped: nothing
   schedules work, writes the heartbeat or is half way through a run
   (Worker, after <-allDone). *)
QuietDrain ==
  \A p \in Procs :
    proc[p].main = "drain" => \A l \in Loops : proc[p].loop[l] = "stopped"

(* Where only one worker runs at a time, its row says so from the end of its
   Put until it is told to stop, whatever row an earlier process left behind
   (Worker, State.Put, State.Delete). *)
ShowsItself ==
  MaxAlive = 1 =>
    \A p \in Procs :
      proc[p].main = "wait" /\ proc[p].sig \in {"armed", "listening"}
        => state["worker_process"] = p

(* A signal that reached the goroutine ends the process, in whatever state the
   loops and the main goroutine were then (Worker). *)
SignalEnds ==
  \A p \in Procs : proc[p].sig = "delete" ~> proc[p].main = "ended"

(* What the code does not keep.  GET /admin/jobs calls State.Has of
   "worker_process" worker_is_alive (server.go:255): the row is there only
   while a worker is alive. *)
WorkerIsAlive == Has("worker_process") => Alive # {}

=============================================================================
