\* A worker, stopped, killed or restarted; or the former one, with a channel of
\* one, which fills.  A behaviour ends with the last process.
CONSTANTS
  Procs = {p1, p2}
  MaxAlive = 1
  MaxKills = 1
  Names = {"worker_process", "worker_heartbeat"}
  Values = {p1, p2}
  Absent = Absent
  Jobs = {j1, j2}
  JobNames = {n1}
  NoName = NoName
  NoJob = NoJob
  Pushers = {"heartbeat"}
  Workers = 1
  ChanCap = 1
SPECIFICATION MCSpec
CHECK_DEADLOCK FALSE
INVARIANTS QuietDrain ShowsItself
PROPERTIES SignalEnds QueuedAreHandled SignalStops
