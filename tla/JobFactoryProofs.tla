-------------------------- MODULE JobFactoryProofs --------------------------
(***************************************************************************)
(* Proofs about JobFactory: a started job is in the hands of a worker, for *)
(* any number of jobs, pushers, workers and places of the channel.         *)
(***************************************************************************)
EXTENDS JobFactory, TLAPS

(* A worker that handles a job and a feeder that sends one have one. *)
HandsAreFull ==
  /\ \A w \in Holding : worker[w].job \in Jobs
  /\ feeder.pc = "send" => feeder.job \in Jobs

FactoryInv == TypeOK /\ HandsAreFull /\ StartedAreHeld

-----------------------------------------------------------------------------
(* What a step may do to the table jobs without starting a job: rows keep
   their types, and a job that is live and started was so before. *)
StartsNone ==
  /\ TableTypeOK'
  /\ \A j \in Jobs :
       jobs'[j].at = "live" /\ jobs'[j].status = Started =>
         /\ jobs[j].at = "live" /\ jobs[j].status = Started
         /\ jobs'[j].known = jobs[j].known

(* Pushing and cleaning up start no job; nor does an outcome that is written,
   and it ends the job it is written for. *)
LEMMA TableFacts ==
  ASSUME TableTypeOK
  PROVE  /\ UNCHANGED tableVars => StartsNone
         /\ \A p \in Pushers, n \in PushNames, known \in BOOLEAN :
              BeginPush(p, n, known) => StartsNone
         /\ \A p \in Pushers : PushStep(p) => StartsNone
         /\ Cleanup => StartsNone
         /\ \A j \in Jobs, status \in {Failed, Handled} :
              jobs' = SetStatus(j, status) /\ UNCHANGED push =>
                StartsNone /\ (jobs'[j].at = "live" => jobs'[j].status # Started)
<1> USE DEF TableTypeOK, StartsNone, Started
<1>0. /\ jobs \in [Jobs -> JobRow] /\ push \in [Pushers -> PushRow]
      /\ NoPush \in PushRow
  BY DEF PushRow, NoPush, PushNames
<1>1. UNCHANGED tableVars => StartsNone
  BY DEF tableVars
<1>2. ASSUME NEW p \in Pushers, NEW n \in PushNames, NEW known \in BOOLEAN,
             BeginPush(p, n, known)
      PROVE  StartsNone
  <2>1. [pc |-> IF n = NoName THEN "save" ELSE "count", name |-> n,
         known |-> known] \in PushRow
    BY DEF PushRow
  <2> QED BY <1>0, <1>2, <2>1 DEF BeginPush
<1>3. ASSUME NEW p \in Pushers, CountNamed(p) PROVE StartsNone
  <2>1. [push[p] EXCEPT !.pc = "save"] \in PushRow
    BY <1>0 DEF PushRow
  <2> QED BY <1>0, <1>3, <2>1 DEF CountNamed
<1>4. ASSUME NEW p \in Pushers, SaveJob(p) PROVE StartsNone
  <2> DEFINE Saved(n, k) == [UnbornJob EXCEPT !.at = "live", !.name = n, !.known = k]
             row == Saved(push[p].name, push[p].known)
  <2>1. row \in JobRow /\ row.status # Started
    <3>1. push[p].name \in PushNames /\ push[p].known \in BOOLEAN
      BY <1>0 DEF PushRow
    <3>2. \A n \in PushNames, k \in BOOLEAN :
            Saved(n, k) \in JobRow /\ Saved(n, k).status = Queued
      BY DEF UnbornJob, JobRow, Statuses
    <3> HIDE DEF Saved
    <3> QED BY <3>1, <3>2 DEF Queued
  <2>2. PICK j \in Jobs : jobs' = [jobs EXCEPT ![j] = row]
    BY <1>4 DEF SaveJob
  <2> HIDE DEF row
  <2> QED BY <1>0, <1>4, <2>1, <2>2 DEF SaveJob
<1>5. ASSUME Cleanup PROVE StartsNone
  <2>1. [UnbornJob EXCEPT !.at = "gone"] \in JobRow
        /\ [UnbornJob EXCEPT !.at = "gone"].at = "gone"
    BY DEF UnbornJob, JobRow, Statuses, PushNames
  <2>2. jobs' \in [Jobs -> JobRow]
        /\ \A j \in Jobs : jobs'[j].at = "live" => jobs'[j] = jobs[j]
    BY <1>0, <1>5, <2>1 DEF Cleanup
  <2> QED BY <1>0, <1>5, <2>2 DEF Cleanup
<1>6. ASSUME NEW j \in Jobs, NEW status \in {Failed, Handled},
             jobs' = SetStatus(j, status), UNCHANGED push
      PROVE  StartsNone /\ (jobs'[j].at = "live" => jobs'[j].status # Started)
  <2> DEFINE row == [jobs[j] EXCEPT !.status = status]
  <2>1. row \in JobRow /\ row.status # Started
    BY <1>0 DEF JobRow, Statuses, Failed, Handled
  <2>2. \/ jobs' = jobs /\ jobs[j].at # "live"
        \/ jobs' = [jobs EXCEPT ![j] = row]
    BY <1>0, <1>6 DEF SetStatus
  <2> HIDE DEF row
  <2> QED BY <1>0, <1>6, <2>1, <2>2
<1> QED
  BY <1>1, <1>2, <1>3, <1>4, <1>5, <1>6 DEF PushStep

(* A step that starts no job keeps StartedAreHeld when whoever held a job still
   does, has ended it, or died with it in hand. *)
LEMMA HeldStay ==
  ASSUME FactoryInv, StartsNone, orphans \subseteq orphans',
         \A w \in Holding :
           \/ w \in Holding' /\ worker'[w].job = worker[w].job
           \/ LET j == worker[w].job
              IN jobs'[j].at = "live" => jobs'[j].status # Started
           \/ worker[w].job \in orphans'
  PROVE  StartedAreHeld'
<1> SUFFICES ASSUME NEW j \in Jobs, jobs'[j].at = "live",
                    jobs'[j].status = Started, jobs'[j].known, j \notin orphans'
             PROVE  \E w \in Holding' : worker'[w].job = j
  BY DEF StartedAreHeld, LiveJobs
<1>1. jobs[j].at = "live" /\ jobs[j].status = Started /\ jobs[j].known
  BY DEF StartsNone
<1>2. PICK w \in Holding : worker[w].job = j
  BY <1>1 DEF FactoryInv, StartedAreHeld, LiveJobs
<1> QED BY <1>2

(* A worker's step keeps FactoryInv. *)
LEMMA WorkersStep ==
  ASSUME FactoryInv, NEW w \in Pool, WorkerStep(w)
  PROVE  FactoryInv'
<1>0. /\ TableTypeOK /\ GoTypeOK /\ HandsAreFull /\ StartedAreHeld
      /\ worker \in [Pool -> WorkerRow] /\ chan \in Seq(Jobs)
      /\ IdleWorker \in WorkerRow
  BY DEF FactoryInv, TypeOK, GoTypeOK, IdleWorker, WorkerRow
<1>a. ASSUME TableTypeOK', GoTypeOK' PROVE TypeOK'
  BY <1>a DEF TypeOK
<1>1. CASE Take(w)
  <2> DEFINE row == [pc |-> "start", job |-> Head(chan)]
  <2>1. Head(chan) \in Jobs /\ Tail(chan) \in Seq(Jobs)
        /\ Len(Tail(chan)) <= ChanCap
    BY <1>0, <1>1, JobFactoryAssumption DEF Take, GoTypeOK
  <2>2. row \in WorkerRow
    BY <2>1 DEF WorkerRow
  <2>3. worker' = [worker EXCEPT ![w] = row] /\ w \notin Holding
    BY <1>1 DEF Take, Holding
  <2>4. GoTypeOK'
    BY <1>0, <1>1, <2>1, <2>2, <2>3 DEF Take, GoTypeOK, ending
  <2>5. StartsNone
    BY <1>0, <1>1, TableFacts DEF Take
  <2>6. HandsAreFull'
    BY <1>0, <1>1, <2>1, <2>3 DEF Take, HandsAreFull, Holding
  <2>7. StartedAreHeld'
    BY <1>0, <1>1, <2>3, <2>5, HeldStay DEF Take, Holding, ending
  <2> QED BY <1>a, <2>4, <2>5, <2>6, <2>7 DEF FactoryInv, StartsNone
<1>2. CASE Start(w)
  <2> DEFINE j == worker[w].job
             row == [jobs[j] EXCEPT !.status = Started]
  <2>1. w \in Holding /\ j \in Jobs
    BY <1>0, <1>2 DEF Start, Holding, HandsAreFull
  <2>2. row \in JobRow /\ row.at = jobs[j].at /\ row.known = jobs[j].known
    BY <1>0, <2>1 DEF TableTypeOK, JobRow, Statuses
  <2>3. \/ jobs' = jobs /\ jobs[j].at # "live"
        \/ jobs' = [jobs EXCEPT ![j] = row]
    BY <1>0, <1>2 DEF Start, SetStatus
  <2>4. \/ jobs[j].known /\ worker' = [worker EXCEPT ![w] = [worker[w] EXCEPT !.pc = "run"]]
        \/ ~jobs[j].known
           /\ worker' = [worker EXCEPT ![w] = [IdleWorker EXCEPT !.pc = "report"]]
    BY <1>0, <1>2 DEF Start
  <2>5. /\ [worker[w] EXCEPT !.pc = "run"] \in WorkerRow
        /\ [worker[w] EXCEPT !.pc = "run"].pc = "run"
        /\ [worker[w] EXCEPT !.pc = "run"].job = j
        /\ [IdleWorker EXCEPT !.pc = "report"] \in WorkerRow
        /\ [IdleWorker EXCEPT !.pc = "report"].pc = "report"
    BY <1>0 DEF WorkerRow, IdleWorker
  <2>6. UNCHANGED <<push, chan, feeder, consumer, loop, sig, ending>>
    BY <1>2 DEF Start
  <2> HIDE DEF row, j
  <2>7. TypeOK'
    <3>1. TableTypeOK'
      BY <1>0, <2>2, <2>3, <2>6 DEF TableTypeOK
    <3>2. GoTypeOK'
      BY <1>0, <2>4, <2>5, <2>6 DEF GoTypeOK, ending
    <3> QED BY <1>a, <3>1, <3>2
  <2>8. HandsAreFull'
    BY <1>0, <2>1, <2>4, <2>5, <2>6 DEF HandsAreFull, Holding
  <2>9. StartedAreHeld'
    <3> SUFFICES ASSUME NEW i \in Jobs, jobs'[i].at = "live",
                        jobs'[i].status = Started, jobs'[i].known, i \notin orphans
                 PROVE  \E v \in Holding' : worker'[v].job = i
      BY <2>6 DEF StartedAreHeld, LiveJobs, ending
    <3>1. CASE i = j
      <4>1. jobs[j].known
        BY <1>0, <2>2, <2>3, <3>1 DEF TableTypeOK
      <4>2. worker' = [worker EXCEPT ![w] = [worker[w] EXCEPT !.pc = "run"]]
        BY <2>4, <4>1
      <4>3. worker'[w].pc = "run" /\ worker'[w].job = j
        BY <1>0, <2>5, <4>2
      <4> QED BY <3>1, <4>3 DEF Holding
    <3>2. CASE i # j
      <4>1. jobs[i].at = "live" /\ jobs[i].status = Started /\ jobs[i].known
        BY <1>0, <2>3, <3>2 DEF TableTypeOK
      <4>2. PICK v \in Holding : worker[v].job = i
        BY <1>0, <4>1 DEF StartedAreHeld, LiveJobs
      <4>3. v # w
        BY <3>2, <4>2 DEF j
      <4> QED BY <1>0, <2>4, <4>2, <4>3 DEF Holding
    <3> QED BY <3>1, <3>2
  <2> QED BY <2>7, <2>8, <2>9 DEF FactoryInv
<1>3. CASE Run(w)
  <2>1. w \in Holding /\ worker[w].job \in Jobs
    BY <1>0, <1>3 DEF Run, Holding, HandsAreFull
  <2>2. StartsNone /\ (jobs'[worker[w].job].at = "live" =>
                         jobs'[worker[w].job].status # Started)
    BY <1>0, <1>3, <2>1, TableFacts DEF Run
  <2>3. /\ worker' = [worker EXCEPT ![w] = [IdleWorker EXCEPT !.pc = "report"]]
        /\ [IdleWorker EXCEPT !.pc = "report"] \in WorkerRow
        /\ [IdleWorker EXCEPT !.pc = "report"].pc = "report"
        /\ UNCHANGED <<chan, feeder, consumer, loop, sig, ending>>
    BY <1>0, <1>3 DEF Run, WorkerRow, IdleWorker
  <2>4. GoTypeOK'
    BY <1>0, <2>3 DEF GoTypeOK, ending
  <2>5. HandsAreFull'
    BY <1>0, <2>3 DEF HandsAreFull, Holding
  <2>6. StartedAreHeld'
    BY <1>0, <2>2, <2>3, HeldStay DEF Holding, ending
  <2> QED BY <1>a, <2>2, <2>4, <2>5, <2>6 DEF FactoryInv, StartsNone
<1>4. CASE Report(w) \/ QuitWorker(w)
  <2>1. /\ [worker[w] EXCEPT !.pc = "idle"] \in WorkerRow
        /\ [worker[w] EXCEPT !.pc = "idle"].pc = "idle"
        /\ [worker[w] EXCEPT !.pc = "off"] \in WorkerRow
        /\ [worker[w] EXCEPT !.pc = "off"].pc = "off"
    BY <1>0 DEF WorkerRow
  <2>2. PICK row \in WorkerRow : /\ row.pc \in {"idle", "off"}
                                 /\ worker' = [worker EXCEPT ![w] = row]
    BY <1>0, <1>4, <2>1 DEF Report, QuitWorker
  <2>3. /\ consumer' \in {"outer", "inner", "off"} /\ w \notin Holding
        /\ UNCHANGED <<tableVars, chan, feeder, loop, sig, ending>>
    BY <1>0, <1>4 DEF Report, QuitWorker, Holding, GoTypeOK
  <2>4. StartsNone
    BY <1>0, <2>3, TableFacts
  <2>5. GoTypeOK'
    BY <1>0, <2>2, <2>3 DEF GoTypeOK, ending
  <2>6. HandsAreFull'
    BY <1>0, <2>2, <2>3 DEF HandsAreFull, Holding
  <2>7. StartedAreHeld'
    BY <1>0, <2>2, <2>3, <2>4, HeldStay DEF Holding, ending
  <2> QED BY <1>a, <2>4, <2>5, <2>6, <2>7 DEF FactoryInv, StartsNone
<1> QED
  BY <1>1, <1>2, <1>3, <1>4 DEF WorkerStep

(* A step of any other goroutine keeps FactoryInv: it starts no job and takes
   none from a worker, unless the process ends with it. *)
LEMMA OthersStep ==
  ASSUME FactoryInv, StartsNone, GoTypeOK', feeder'.pc = "send" => feeder'.job \in Jobs,
         orphans \subseteq orphans',
         \/ UNCHANGED worker
         \/ worker' = [w \in Pool |-> IdleWorker]
            /\ orphans' = orphans \cup {worker[w].job : w \in Holding}
  PROVE  FactoryInv'
<1>1. TypeOK'
  BY DEF TypeOK, StartsNone
<1>2. HandsAreFull'
  BY DEF FactoryInv, HandsAreFull, Holding, IdleWorker
<1>3. StartedAreHeld'
  BY HeldStay DEF Holding
<1> QED BY <1>1, <1>2, <1>3 DEF FactoryInv

(* Every step keeps FactoryInv. *)
LEMMA FactoryStep == FactoryInv /\ [Next]_vars => FactoryInv'
<1> SUFFICES ASSUME FactoryInv, [Next]_vars PROVE FactoryInv'
  OBVIOUS
<1>0. /\ TableTypeOK /\ GoTypeOK
      /\ feeder.pc = "send" => feeder.job \in Jobs
      /\ feeder \in FeederRow /\ feeder.todo \subseteq Jobs
      /\ chan \in Seq(Jobs)
  BY DEF FactoryInv, TypeOK, HandsAreFull, GoTypeOK, FeederRow
<1>a. UNCHANGED tableVars => StartsNone
  BY <1>0, TableFacts
<1>b. Feeder("off") \in FeederRow /\ Feeder("off").pc = "off"
  BY DEF Feeder, FeederRow
<1>1. ASSUME NEW w \in Pool, WorkerStep(w) PROVE FactoryInv'
  BY <1>1, WorkersStep
<1>2. CASE ReadJobs \/ NextJob \/ Feed \/ QuitFeeder
  <2>1. UNCHANGED <<tableVars, worker, consumer, loop, ending>>
    BY <1>2 DEF ReadJobs, NextJob, Feed, QuitFeeder
  <2>2. CASE ReadJobs
    <3>1. /\ [feeder EXCEPT !.todo = ReadQueued] \in FeederRow
          /\ [feeder EXCEPT !.todo = ReadQueued].pc = feeder.pc
      BY <1>0 DEF FeederRow, ReadQueued, LiveJobs
    <3>2. GoTypeOK' /\ feeder'.pc # "send"
      BY <1>0, <2>1, <2>2, <3>1 DEF ReadJobs, GoTypeOK, ending
    <3> QED BY <1>a, <2>1, <3>2, OthersStep DEF ending
  <2>3. CASE NextJob
    <3>1. PICK j \in feeder.todo :
            feeder' = [pc |-> "send", todo |-> feeder.todo \ {j}, job |-> j]
      BY <2>3 DEF NextJob
    <3>2. feeder' \in FeederRow /\ feeder'.job \in Jobs
      BY <1>0, <3>1 DEF FeederRow
    <3>3. GoTypeOK'
      BY <1>0, <2>1, <2>3, <3>2 DEF NextJob, GoTypeOK, ending
    <3> QED BY <1>a, <2>1, <3>2, <3>3, OthersStep DEF ending
  <2>4. CASE Feed
    <3>1. chan' \in Seq(Jobs) /\ Len(chan') <= ChanCap
      BY <1>0, <2>4, JobFactoryAssumption DEF Feed
    <3>2. /\ [feeder EXCEPT !.pc = "select", !.job = NoJob] \in FeederRow
          /\ [feeder EXCEPT !.pc = "select", !.job = NoJob].pc = "select"
      BY <1>0 DEF FeederRow
    <3>3. GoTypeOK' /\ feeder'.pc # "send"
      BY <1>0, <2>1, <2>4, <3>1, <3>2 DEF Feed, GoTypeOK, ending
    <3> QED BY <1>a, <2>1, <3>3, OthersStep DEF ending
  <2>5. CASE QuitFeeder
    <3>1. GoTypeOK' /\ feeder'.pc # "send"
      BY <1>0, <1>b, <2>1, <2>5 DEF QuitFeeder, GoTypeOK, ending
    <3> QED BY <1>a, <2>1, <3>1, OthersStep DEF ending
  <2> QED BY <1>2, <2>2, <2>3, <2>4, <2>5
<1>3. CASE EnterRun \/ QuitConsumer \/ Signal \/ \E l \in Loops : QuitLoop(l)
  <2>1. UNCHANGED <<tableVars, chan, worker, feeder, ending>>
    BY <1>3 DEF EnterRun, QuitConsumer, Signal, QuitLoop
  <2>2. GoTypeOK'
    BY <1>0, <1>3, <2>1 DEF EnterRun, QuitConsumer, Signal, QuitLoop, GoTypeOK,
                            ending, After, Loops
  <2> QED BY <1>0, <1>a, <2>1, <2>2, OthersStep DEF ending
<1>4. CASE Heartbeat \/ CleanupHeartbeat \/ Pushes
  <2>1. StartsNone
    BY <1>0, <1>4, TableFacts, JobFactoryAssumption
    DEF Heartbeat, CleanupHeartbeat, Pushes
  <2>2. UNCHANGED goVars
    BY <1>4 DEF Heartbeat, CleanupHeartbeat, Pushes
  <2>3. GoTypeOK'
    BY <1>0, <2>2 DEF goVars, GoTypeOK
  <2> QED BY <1>0, <2>1, <2>2, <2>3, OthersStep DEF goVars
<1>5. CASE AllDone \/ StopOne
  <2>1. UNCHANGED <<tableVars, chan, worker, feeder, consumer, loop, orphans>>
    BY <1>5 DEF AllDone, StopOne
  <2>2. GoTypeOK'
    <3>1. CASE AllDone
      BY <1>0, <2>1, <3>1 DEF AllDone, GoTypeOK
    <3>2. CASE StopOne
      <4>1. left' \in 0..Workers
        BY <1>0, <3>2, JobFactoryAssumption DEF StopOne, GoTypeOK
      <4>2. told' \in [Pool -> BOOLEAN]
        BY <1>0, <3>2 DEF StopOne, GoTypeOK
      <4>3. UNCHANGED <<sig, main>>
        BY <3>2 DEF StopOne
      <4> QED BY <1>0, <2>1, <4>1, <4>2, <4>3 DEF GoTypeOK
    <3> QED BY <1>5, <3>1, <3>2
  <2> QED BY <1>0, <1>a, <2>1, <2>2, OthersStep
<1>6. CASE End
  <2>1. StartsNone
    <3>1. NoPush \in PushRow
      BY DEF NoPush, PushRow, PushNames
    <3> QED BY <1>0, <1>6, <3>1 DEF End, StartsNone, TableTypeOK
  <2>2. {worker[w].job : w \in Holding} \subseteq Jobs
    BY DEF FactoryInv, HandsAreFull
  <2>3. GoTypeOK'
    <3>1. IdleWorker \in WorkerRow
      BY DEF IdleWorker, WorkerRow
    <3>2. chan' \in Seq(Jobs) /\ Len(chan') <= ChanCap
      BY <1>6, JobFactoryAssumption DEF End
    <3> QED
      BY <1>0, <1>6, <1>b, <2>2, <3>1, <3>2, JobFactoryAssumption
      DEF End, GoTypeOK, Pool
  <2> QED BY <1>b, <1>6, <2>1, <2>3, OthersStep DEF End
<1>7. CASE UNCHANGED vars
  <2>1. UNCHANGED tableVars /\ UNCHANGED goVars
    BY <1>7 DEF vars
  <2>2. GoTypeOK'
    BY <1>0, <2>1 DEF goVars, GoTypeOK
  <2> QED BY <1>0, <1>a, <2>1, <2>2, OthersStep DEF goVars
<1> QED
  BY <1>1, <1>2, <1>3, <1>4, <1>5, <1>6, <1>7
  DEF Next, FeederStep, ConsumerStep, MainStep, Exit, Die

(* FactoryInv holds of every behaviour. *)
LEMMA FactoryInvariant == Spec => []FactoryInv
<1>1. Init => FactoryInv
  <2> SUFFICES ASSUME Init PROVE FactoryInv
    OBVIOUS
  <2>1. TableTypeOK /\ \A j \in Jobs : jobs[j].at = "unborn"
    BY DEF Init, TableInit, TableTypeOK, UnbornJob, JobRow, NoPush, PushRow,
           PushNames, Statuses
  <2>2. GoTypeOK /\ feeder.pc = "select"
    BY JobFactoryAssumption
    DEF Init, GoTypeOK, IdleWorker, WorkerRow, Feeder, FeederRow
  <2>3. Holding = {}
    BY DEF Init, Holding, IdleWorker
  <2> QED
    BY <2>1, <2>2, <2>3
    DEF FactoryInv, TypeOK, HandsAreFull, StartedAreHeld, LiveJobs
<1> QED
  BY <1>1, FactoryStep, PTL DEF Spec

-----------------------------------------------------------------------------
(* The table, the channel and every goroutine keep their types; the channel
   never holds more than its capacity. *)
THEOREM FactoryTypeCorrect == Spec => []TypeOK
BY FactoryInvariant, PTL DEF FactoryInv

(* A job that is marked as started is in the hands of a worker, has no handler,
   or was in hand when the process ended, although the feeder hands the same
   row out more than once (Queue.Handle). *)
THEOREM StartedStayHeld == Spec => []StartedAreHeld
BY FactoryInvariant, PTL DEF FactoryInv

=============================================================================
