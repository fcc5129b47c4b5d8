---------------------------- MODULE WorkerProofs ----------------------------
(***************************************************************************)
(* Proofs about WorkerProcess: how a worker shuts down and when its row of *)
(* the state table shows it, for any number of incarnations and kills.     *)
(***************************************************************************)
EXTENDS WorkerProcess, FiniteSetTheorems, TLAPS

Self == "worker_process"

Waits == {"armed", "listening"}   \* the signal goroutine waits for a signal

(* The goroutines of a process keep step: the signal goroutine runs only with
   the main one, and is past a loop only when the loop has stopped. *)
GoroutinesOK(row) ==
  /\ row \in ProcRow
  /\ row.main \in {"off", "ended"} => row = NoProcess(row.main)
  /\ row.main = "boot" => row.sig = "off"
  /\ row.main \in {"has", "write", "wait"} => row.sig \notin {"off", "ended"}
  /\ row.main = "drain" => row.sig = "ended"
  /\ row.sig \in {"stats", "create_work", "done", "ended"} =>
       row.loop["heartbeat"] = "stopped"
  /\ row.sig \in {"create_work", "done", "ended"} => row.loop["stats"] = "stopped"
  /\ row.sig \in {"done", "ended"} => row.loop["create_work"] = "stopped"

(* What the row of a process that runs alone says until it is told to stop;
   shown is the value of the row. *)
ShownBy(p, row, shown) ==
  MaxAlive = 1 /\ row.sig \in Waits =>
    /\ row.main = "write" => row.found = (shown # Absent)
    /\ row.main = "wait" => shown = p

FewAlive == IsFiniteSet(Alive) /\ Cardinality(Alive) <= MaxAlive

WorkerInv ==
  /\ TypeOK
  /\ \A p \in Procs : GoroutinesOK(proc[p]) /\ ShownBy(p, proc[p], state[Self])
  /\ FewAlive

-----------------------------------------------------------------------------
(* Where one worker may run at a time, any two that are alive are the same. *)
LEMMA AloneIsAlone ==
  ASSUME FewAlive, MaxAlive = 1, NEW p \in Alive, NEW r \in Alive
  PROVE  p = r
<1>1. Cardinality(Alive) \in Nat /\ Cardinality(Alive) # 0
  BY FS_CardinalityType, FS_EmptySet DEF FewAlive
<1>2. Cardinality(Alive) = 1
  BY <1>1 DEF FewAlive
<1>3. PICK x : Alive = {x}
  BY <1>2, FS_Singleton DEF FewAlive
<1> QED
  BY <1>3

(* A process that runs moves to row; the row of the state table changes only
   in its hands: WorkerInv stays. *)
LEMMA ProcMoves ==
  ASSUME WorkerInv, NEW p \in Procs, NEW row, GoroutinesOK(row),
         p \in Alive, proc' = [proc EXCEPT ![p] = row],
         ShownBy(p, row, state'[Self]), StoreTypeOK', kills' \in 0..MaxKills
  PROVE  WorkerInv'
<1>0. proc \in [Procs -> ProcRow] /\ row \in ProcRow
  BY DEF WorkerInv, TypeOK, GoroutinesOK
<1>1. TypeOK'
  BY <1>0 DEF TypeOK
<1>2. FewAlive'
  <2>1. Alive' \in SUBSET Alive
    BY <1>0 DEF Alive
  <2>2. IsFiniteSet(Alive') /\ Cardinality(Alive') <= Cardinality(Alive)
    BY <2>1, FS_Subset DEF WorkerInv, FewAlive
  <2>3. Cardinality(Alive') \in Nat /\ Cardinality(Alive) \in Nat
    BY <2>2, FS_CardinalityType DEF WorkerInv, FewAlive
  <2> QED BY <2>2, <2>3, WorkerProcessAssumption DEF WorkerInv, FewAlive
<1>3. ASSUME NEW r \in Procs
      PROVE  GoroutinesOK(proc'[r]) /\ ShownBy(r, proc'[r], state'[Self])
  <2>1. CASE r = p
    BY <1>0, <2>1
  <2>2. CASE r # p /\ r \notin Alive
    <3>1. proc'[r] = proc[r] /\ GoroutinesOK(proc[r])
      BY <1>0, <2>2 DEF WorkerInv
    <3>2. proc[r].sig = "off"
      BY <2>2, <3>1 DEF Alive, GoroutinesOK, NoProcess
    <3> QED BY <3>1, <3>2 DEF ShownBy, Waits
  <2>3. CASE r # p /\ r \in Alive
    <3>1. proc'[r] = proc[r] /\ GoroutinesOK(proc[r])
      BY <1>0, <2>3 DEF WorkerInv
    <3>2. MaxAlive # 1
      BY <2>3, AloneIsAlone DEF WorkerInv
    <3> QED BY <3>1, <3>2 DEF ShownBy
  <2> QED BY <2>1, <2>2, <2>3
<1> QED
  BY <1>1, <1>2, <1>3 DEF WorkerInv

(* A process that has ended and one that has not begun are in order. *)
LEMMA NoProcessFacts ==
  \A at \in {"off", "ended"} :
    /\ GoroutinesOK(NoProcess(at)) /\ NoProcess(at).main = at
    /\ NoProcess(at).sig = "off"
BY DEF NoProcess, GoroutinesOK, ProcRow, Loops

(* A process ends: its row stays. *)
LEMMA EndStep ==
  ASSUME WorkerInv, NEW p \in Procs, p \in Alive, UNCHANGED state,
         proc' = [proc EXCEPT ![p] = NoProcess("ended")], kills' \in 0..MaxKills
  PROVE  WorkerInv'
<1>1. ShownBy(p, NoProcess("ended"), state'[Self])
  BY NoProcessFacts DEF ShownBy, Waits
<1>2. StoreTypeOK'
  BY DEF WorkerInv, TypeOK, StoreTypeOK
<1> QED
  BY <1>1, <1>2, NoProcessFacts, ProcMoves

(* A worker starts when fewer than MaxAlive run. *)
LEMMA BootStep ==
  ASSUME WorkerInv, NEW p \in Procs, Boot(p) PROVE WorkerInv'
<1> DEFINE row == [NoProcess("off") EXCEPT !.main = "boot",
                     !.loop = [l \in Loops |-> "select"]]
<1>1. /\ proc \in [Procs -> ProcRow] /\ proc[p] = NoProcess("off")
      /\ proc[p].main = "off" /\ Cardinality(Alive) < MaxAlive
  BY DEF WorkerInv, TypeOK, GoroutinesOK, Boot
<1>2. proc' = [proc EXCEPT ![p] = row] /\ UNCHANGED <<state, kills>>
  BY <1>1 DEF Boot
<1>3. GoroutinesOK(row) /\ row.main = "boot" /\ row.sig = "off"
  BY DEF NoProcess, GoroutinesOK, ProcRow
<1> HIDE DEF row
<1>4. TypeOK'
  BY <1>1, <1>2, <1>3 DEF WorkerInv, TypeOK, StoreTypeOK, GoroutinesOK
<1>5. \A r \in Procs : GoroutinesOK(proc'[r]) /\ ShownBy(r, proc'[r], state'[Self])
  BY <1>1, <1>2, <1>3 DEF WorkerInv, ShownBy, Waits
<1>6. FewAlive'
  <2>1. Alive' = Alive \cup {p} /\ p \notin Alive
    BY <1>1, <1>2, <1>3 DEF Alive
  <2>2. IsFiniteSet(Alive) /\ Cardinality(Alive) \in Nat
    BY FS_CardinalityType DEF WorkerInv, FewAlive
  <2>3. IsFiniteSet(Alive \cup {p}) /\ Cardinality(Alive \cup {p}) = Cardinality(Alive) + 1
    BY <2>1, <2>2, FS_AddElement
  <2> QED BY <1>1, <2>1, <2>2, <2>3, WorkerProcessAssumption DEF FewAlive
<1> QED
  BY <1>4, <1>5, <1>6 DEF WorkerInv

(* The main goroutine.  Nobody touches the row between the two statements of
   its Put while it runs alone and has not been told to stop. *)
LEMMA MainKeepsWorkerInv ==
  ASSUME WorkerInv, NEW p \in Procs, MainStep(p) PROVE WorkerInv'
<1> DEFINE old == proc[p]
<1>0. /\ proc \in [Procs -> ProcRow] /\ old \in ProcRow /\ GoroutinesOK(old)
      /\ ShownBy(p, old, state[Self]) /\ StoreTypeOK /\ kills \in 0..MaxKills
      /\ Self \in Names
  BY WorkerProcessAssumption DEF WorkerInv, TypeOK, Self
<1>1. CASE Listen(p)
  <2> DEFINE row == [old EXCEPT !.main = "has", !.sig = "armed"]
  <2>1. /\ proc' = [proc EXCEPT ![p] = row] /\ old.main = "boot" /\ p \in Alive
        /\ UNCHANGED <<state, kills>>
    BY <1>0, <1>1 DEF Listen, Alive
  <2>2. GoroutinesOK(row) /\ ShownBy(p, row, state[Self])
    BY <1>0, <2>1 DEF GoroutinesOK, ProcRow, ShownBy
  <2> HIDE DEF row
  <2> QED BY <1>0, <2>1, <2>2, ProcMoves DEF StoreTypeOK
<1>2. CASE LookUpSelf(p)
  <2> DEFINE Looked(found) == [old EXCEPT !.main = "write", !.found = found]
             row == Looked(Has(Self))
  <2>1. /\ proc' = [proc EXCEPT ![p] = row] /\ old.main = "has" /\ p \in Alive
        /\ UNCHANGED <<state, kills>>
    BY <1>0, <1>2 DEF LookUpSelf, Alive, Self
  <2>2. \A found \in BOOLEAN :
          /\ GoroutinesOK(Looked(found)) /\ Looked(found).main = "write"
          /\ Looked(found).found = found
    BY <1>0, <2>1 DEF GoroutinesOK, ProcRow
  <2> HIDE DEF Looked
  <2>3. GoroutinesOK(row) /\ ShownBy(p, row, state[Self])
    BY <2>2 DEF ShownBy, Has
  <2> QED BY <1>0, <2>1, <2>3, ProcMoves DEF StoreTypeOK
<1>3. CASE ReportSelf(p)
  <2> DEFINE row == [old EXCEPT !.main = "wait"]
  <2>1. /\ proc' = [proc EXCEPT ![p] = row] /\ old.main = "write" /\ p \in Alive
        /\ UNCHANGED kills /\ PutWrite(Self, p, old.found)
    BY <1>0, <1>3 DEF ReportSelf, Alive, Self
  <2>2. GoroutinesOK(row) /\ row.sig = old.sig /\ row.main = "wait"
    BY <1>0, <2>1 DEF GoroutinesOK, ProcRow
  <2> HIDE DEF row
  <2>3. StoreTypeOK'
    BY <1>0, <2>1, WorkerProcessAssumption DEF PutWrite, StoreTypeOK
  <2>4. ShownBy(p, row, state'[Self])
    <3> SUFFICES ASSUME MaxAlive = 1, row.sig \in Waits
                 PROVE  state'[Self] = p
      BY <2>2 DEF ShownBy
    <3>1. old.found = Has(Self)
      BY <1>0, <2>1, <2>2 DEF ShownBy, Has
    <3> QED BY <1>0, <2>1, <3>1 DEF PutWrite, StoreTypeOK
  <2> QED BY <2>1, <2>2, <2>3, <2>4, <1>0, ProcMoves
<1>4. CASE StopPool(p)
  <2>1. /\ proc' = [proc EXCEPT ![p] = NoProcess("ended")]
        /\ p \in Alive /\ UNCHANGED <<state, kills>>
    BY <1>4 DEF StopPool, Alive
  <2> QED BY <1>0, <2>1, EndStep
<1> QED
  BY <1>1, <1>2, <1>3, <1>4 DEF MainStep

(* A loop runs; it touches no row but the heartbeat's. *)
LEMMA LoopKeepsWorkerInv ==
  ASSUME WorkerInv, NEW p \in Procs, NEW l \in Loops,
         Tick(p, l) \/ LoopRuns(p, l)
  PROVE  WorkerInv'
<1> DEFINE old == proc[p]
           Turned(to, beat) ==
             [old EXCEPT !.loop = [old.loop EXCEPT ![l] = to], !.beat = beat]
<1>0. /\ proc \in [Procs -> ProcRow] /\ old \in ProcRow /\ GoroutinesOK(old)
      /\ ShownBy(p, old, state[Self]) /\ StoreTypeOK /\ kills \in 0..MaxKills
      /\ Self \in Names /\ old.beat \in BOOLEAN
  BY WorkerProcessAssumption DEF WorkerInv, TypeOK, Self, ProcRow
<1>1. /\ old.loop[l] \in {"select", "run", "write"} /\ UNCHANGED kills
      /\ StoreTypeOK' /\ state'[Self] = state[Self]
      /\ \E to \in {"select", "run", "write"}, beat \in BOOLEAN :
           proc' = [proc EXCEPT ![p] = Turned(to, beat)]
  <2> USE <1>0
  <2>1. CASE Tick(p, l) \/ EndRun(p, l)
    <3>1. proc' = [proc EXCEPT ![p] = Turned("run", old.beat)] \/
          proc' = [proc EXCEPT ![p] = Turned("select", old.beat)]
      BY <2>1 DEF Tick, EndRun, ProcRow
    <3>2. /\ old.loop[l] \in {"select", "run"}
          /\ UNCHANGED <<state, kills>>
      BY <2>1 DEF Tick, EndRun
    <3> HIDE DEF Turned
    <3> QED BY <3>1, <3>2 DEF StoreTypeOK
  <2>2. CASE l = "heartbeat" /\ LookUpBeat(p)
    <3>1. /\ proc' = [proc EXCEPT ![p] = Turned("write", Has("worker_heartbeat"))]
          /\ old.loop[l] = "run" /\ UNCHANGED <<state, kills>>
      BY <2>2 DEF LookUpBeat, ProcRow
    <3>2. Has("worker_heartbeat") \in BOOLEAN
      BY DEF Has
    <3> HIDE DEF Turned
    <3> QED BY <3>1, <3>2 DEF StoreTypeOK
  <2>3. CASE l = "heartbeat" /\ Beat(p)
    <3>1. /\ proc' = [proc EXCEPT ![p] = Turned("select", old.beat)]
          /\ old.loop[l] = "write" /\ UNCHANGED kills
      BY <2>3 DEF Beat, ProcRow
    <3>2. StoreTypeOK' /\ state'[Self] = state[Self]
      BY <2>3, WorkerProcessAssumption DEF Beat, PutWrite, StoreTypeOK, Self
    <3> HIDE DEF Turned
    <3> QED BY <3>1, <3>2
  <2> QED BY <2>1, <2>2, <2>3 DEF LoopRuns
<1>2. PICK to \in {"select", "run", "write"}, beat \in BOOLEAN :
        proc' = [proc EXCEPT ![p] = Turned(to, beat)]
  BY <1>1
<1> DEFINE row == Turned(to, beat)
           loop == [old.loop EXCEPT ![l] = to]
<1>3. /\ loop \in [Loops -> {"off", "select", "run", "write", "stopped"}]
      /\ \A m \in Loops : old.loop[m] = "stopped" => loop[m] = "stopped"
  BY <1>0, <1>1 DEF ProcRow
<1>4. /\ row \in ProcRow /\ row.main = old.main /\ row.sig = old.sig
      /\ row.found = old.found /\ row.loop = loop
  <2> HIDE DEF loop
  <2>1. row = [old EXCEPT !.loop = loop, !.beat = beat]
    BY DEF loop
  <2> QED BY <1>0, <1>3, <2>1 DEF ProcRow
<1>5. old.main \notin {"off", "ended"}
  BY <1>0, <1>1 DEF GoroutinesOK, NoProcess
<1> HIDE DEF row, loop
<1>6. GoroutinesOK(row)
  BY <1>0, <1>3, <1>4, <1>5 DEF GoroutinesOK, Loops
<1>7. ShownBy(p, row, state'[Self])
  BY <1>0, <1>1, <1>4 DEF ShownBy
<1>8. proc' = [proc EXCEPT ![p] = row] /\ p \in Alive
  BY <1>2, <1>5 DEF row, Alive
<1> QED
  BY <1>0, <1>1, <1>6, <1>7, <1>8, ProcMoves

(* The signal goroutine: it stops the loops one after the other. *)
LEMMA SignalKeepsWorkerInv ==
  ASSUME WorkerInv, NEW p \in Procs,
         \/ AwaitSignal(p) \/ Signal(p) \/ DeleteSelf(p) \/ TellMain(p)
         \/ \E l \in Loops : Quit(p, l)
  PROVE  WorkerInv'
<1> DEFINE old == proc[p]
<1>0. /\ proc \in [Procs -> ProcRow] /\ old \in ProcRow /\ GoroutinesOK(old)
      /\ ShownBy(p, old, state[Self]) /\ StoreTypeOK /\ kills \in 0..MaxKills
      /\ Self \in Names
  BY WorkerProcessAssumption DEF WorkerInv, TypeOK, Self
<1>1. old.sig # "off" => p \in Alive
  BY <1>0 DEF GoroutinesOK, NoProcess, Alive
<1>2. CASE AwaitSignal(p) \/ (Signal(p) /\ old.main # "boot") \/ DeleteSelf(p)
  <2>1. ASSUME NEW to \in {"listening", "delete", "heartbeat"},
               proc' = [proc EXCEPT ![p].sig = to], UNCHANGED kills, StoreTypeOK',
               old.sig \in {"armed", "listening", "delete"},
               to = "listening" => old.sig = "armed" /\ UNCHANGED state
        PROVE  WorkerInv'
    <3> DEFINE row == [old EXCEPT !.sig = to]
    <3>0. proc' = [proc EXCEPT ![p] = row]
      BY <1>0, <2>1
    <3>1. /\ row \in ProcRow /\ row.sig = to /\ row.main = old.main
          /\ row.loop = old.loop /\ row.found = old.found
      BY <1>0, <2>1 DEF ProcRow, Loops
    <3> HIDE DEF row
    <3>2. old.main \in {"has", "write", "wait"}
      BY <1>0, <2>1 DEF GoroutinesOK, NoProcess, ProcRow
    <3>3. GoroutinesOK(row)
      BY <2>1, <3>1, <3>2 DEF GoroutinesOK
    <3>4. ShownBy(p, row, state'[Self])
      BY <1>0, <2>1, <3>1 DEF ShownBy, Waits
    <3> QED BY <1>0, <1>1, <2>1, <3>0, <3>3, <3>4, ProcMoves
  <2>2. CASE AwaitSignal(p)
    BY <1>0, <2>1, <2>2 DEF AwaitSignal, StoreTypeOK
  <2>3. CASE Signal(p) /\ old.main # "boot"
    BY <1>0, <2>1, <2>3 DEF Signal, StoreTypeOK
  <2>4. CASE DeleteSelf(p)
    <3>1. StoreTypeOK'
      BY <1>0, <2>4 DEF DeleteSelf, Delete, StoreTypeOK
    <3> QED BY <2>1, <2>4, <3>1 DEF DeleteSelf
  <2> QED BY <1>2, <2>2, <2>3, <2>4
<1>3. CASE Signal(p) /\ old.main = "boot"
  <2>1. old.sig = "off"
    BY <1>0, <1>3 DEF GoroutinesOK
  <2>2. /\ proc' = [proc EXCEPT ![p] = NoProcess("ended")]
        /\ UNCHANGED <<state, kills>> /\ p \in Alive
    BY <1>3, <2>1 DEF Signal, Alive
  <2> QED BY <1>0, <2>2, EndStep
<1>4. CASE TellMain(p)
  <2> DEFINE row == [old EXCEPT !.sig = "ended", !.main = "drain"]
  <2>1. /\ proc' = [proc EXCEPT ![p] = row] /\ old.sig = "done"
        /\ old.main = "wait" /\ UNCHANGED <<state, kills>>
    BY <1>0, <1>4 DEF TellMain
  <2>2. GoroutinesOK(row) /\ row.sig = "ended"
    BY <1>0, <2>1 DEF GoroutinesOK, ProcRow
  <2> HIDE DEF row
  <2>3. ShownBy(p, row, state'[Self])
    BY <2>2 DEF ShownBy, Waits
  <2> QED BY <1>0, <1>1, <2>1, <2>2, <2>3, ProcMoves DEF StoreTypeOK
<1>5. ASSUME NEW l \in Loops, Quit(p, l) PROVE WorkerInv'
  <2> DEFINE loop == [old.loop EXCEPT ![l] = "stopped"]
             row == [old EXCEPT !.sig = After(l), !.loop = loop]
  <2>1. /\ proc' = [proc EXCEPT ![p] = row] /\ old.sig = l
        /\ UNCHANGED <<state, kills>>
    BY <1>0, <1>5 DEF Quit, ProcRow
  <2>2. /\ loop \in [Loops -> {"off", "select", "run", "write", "stopped"}]
        /\ \A m \in Loops : old.loop[m] = "stopped" \/ m = l => loop[m] = "stopped"
    BY <1>0 DEF ProcRow
  <2>3. /\ After(l) \in {"stats", "create_work", "done"}
        /\ l = "heartbeat" => After(l) = "stats"
        /\ l = "stats" => After(l) = "create_work"
        /\ l = "create_work" => After(l) = "done"
    BY DEF After, Loops
  <2>4. /\ row \in ProcRow /\ row.sig = After(l) /\ row.main = old.main
        /\ row.loop = loop
    <3> HIDE DEF loop
    <3> QED BY <1>0, <2>2, <2>3 DEF ProcRow, Loops
  <2> HIDE DEF row, loop
  <2>5. old.main \in {"has", "write", "wait"}
    BY <1>0, <2>1 DEF GoroutinesOK, NoProcess, ProcRow, Loops
  <2>6. GoroutinesOK(row)
    BY <1>0, <2>1, <2>2, <2>3, <2>4, <2>5 DEF GoroutinesOK, Loops
  <2>7. ShownBy(p, row, state'[Self])
    BY <2>3, <2>4 DEF ShownBy, Waits
  <2>8. old.sig # "off"
    BY <2>1 DEF Loops
  <2> QED BY <1>0, <1>1, <2>1, <2>6, <2>7, <2>8, ProcMoves DEF StoreTypeOK
<1> QED
  BY <1>2, <1>3, <1>4, <1>5

(* WorkerInv holds of every behaviour. *)
LEMMA WorkerInvariant == Spec => []WorkerInv
<1>1. Init => WorkerInv
  <2> SUFFICES ASSUME Init PROVE WorkerInv
    OBVIOUS
  <2>1. \A p \in Procs : proc[p] = NoProcess("off") /\ GoroutinesOK(proc[p])
                         /\ ShownBy(p, proc[p], state[Self])
    BY NoProcessFacts DEF Init, ShownBy, Waits
  <2>2. Alive = {}
    BY <2>1, NoProcessFacts DEF Alive
  <2>3. FewAlive
    BY <2>2, FS_EmptySet, WorkerProcessAssumption DEF FewAlive
  <2>4. TypeOK
    BY <2>1, WorkerProcessAssumption
       DEF Init, TypeOK, StoreInit, StoreTypeOK, GoroutinesOK
  <2> QED BY <2>1, <2>3, <2>4 DEF WorkerInv
<1>2. WorkerInv /\ [Next]_vars => WorkerInv'
  <2> SUFFICES ASSUME WorkerInv, [Next]_vars PROVE WorkerInv'
    OBVIOUS
  <2>1. ASSUME NEW p \in Procs, Die(p) PROVE WorkerInv'
    <3>1. kills' \in 0..MaxKills
      BY <2>1, WorkerProcessAssumption DEF Die, WorkerInv, TypeOK
    <3> QED BY <2>1, <3>1, EndStep DEF Die
  <2>2. CASE UNCHANGED vars
    BY <2>2 DEF vars, WorkerInv, TypeOK, StoreTypeOK, FewAlive, Alive
  <2> QED BY <2>1, <2>2, BootStep, MainKeepsWorkerInv, LoopKeepsWorkerInv,
             SignalKeepsWorkerInv DEF Next
<1> QED
  BY <1>1, <1>2, PTL DEF Spec

-----------------------------------------------------------------------------
(* The table and the goroutines keep their types. *)
THEOREM WorkerTypeCorrect == Spec => []TypeOK
<1>1. WorkerInv => TypeOK
  BY DEF WorkerInv
<1> QED
  BY <1>1, WorkerInvariant, PTL

(* While the pool drains, every loop of the process has stopped, in whatever
   state the loops and the main goroutine were when the signal came (Worker,
   after <-allDone). *)
THEOREM DrainsQuietly == Spec => []QuietDrain
<1>1. WorkerInv => QuietDrain
  BY DEF WorkerInv, GoroutinesOK, QuietDrain, Loops
<1> QED
  BY <1>1, WorkerInvariant, PTL

(* A worker that runs alone is shown from the end of its Put until it is told
   to stop, whatever row an earlier one left (Worker, State.Put). *)
THEOREM AloneItShows == Spec => []ShowsItself
<1>1. WorkerInv => ShowsItself
  BY DEF WorkerInv, ShownBy, ShowsItself, Self, Waits
<1> QED
  BY <1>1, WorkerInvariant, PTL

=============================================================================
