\* No crash: an orderly shutdown, against server.go:255.
CONSTANTS
  Procs = {p1}
  MaxAlive = 1
  MaxKills = 0
  Names = {"worker_process", "worker_heartbeat"}
  Values = {p1}
  Absent = Absent
CHECK_DEADLOCK FALSE
SPECIFICATION Spec
INVARIANT WorkerIsAlive
