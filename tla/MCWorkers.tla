----------------------------- MODULE MCWorkers ------------------------------
(***************************************************************************)
(* How a worker ends, in one run of TLC: the process of today, and that of *)
(* the former queue.  They share no state, so a behaviour is about one of  *)
(* them, and the other has ended.                                          *)
(***************************************************************************)
EXTENDS WorkerProcess, TLC

CONSTANTS Jobs, JobNames, NoName, NoJob, Pushers, Workers, ChanCap

VARIABLES
  jobs, push, chan, worker, feeder, consumer, loop, sig, main, left, told,
  orphans

Former == INSTANCE JobFactory

formerVars ==
  <<jobs, push, chan, worker, feeder, consumer, loop, sig, main, left, told,
    orphans>>

mcVars == <<vars, formerVars>>

NoFormer ==
  /\ Former!TableInit
  /\ chan = <<>> /\ worker = [w \in Former!Pool |-> Former!IdleWorker]
  /\ feeder = Former!Feeder("off") /\ consumer = "off"
  /\ loop = [l \in Former!Loops |-> "stopped"]
  /\ sig = "off" /\ main = "ended" /\ left = 0
  /\ told = [w \in Former!Pool |-> FALSE] /\ orphans = {}

Ended ==
  /\ StoreInit
  /\ proc = [p \in Procs |-> NoProcess("ended")] /\ kills = 0

MCInit == (Init /\ NoFormer) \/ (Ended /\ Former!Init)

MCNext ==
  \/ Next /\ UNCHANGED formerVars
  \/ Former!Next /\ UNCHANGED vars

MCSpec == MCInit /\ [][MCNext]_mcVars /\ Fairness /\ Former!Fairness

(* The properties of the former worker, under their own names. *)
QueuedAreHandled == Former!QueuedAreHandled
SignalStops      == Former!SignalStops

=============================================================================
