\* A delete and a start of the same task.
SPECIFICATION Spec
CONSTANTS
  Tasks = {t1}
  SshTasks = {t1}
  Hosts = {h1}
  Procs = {p1}
  Clients = {c1, c2}
  Runs = {r1, r2}
  Steps = 1
  AttemptMax = 2
  MaxParallel = 1
  Continue = {}
  Events = {"start", "delete"}
  MaxEvents = 2
  MaxAttempts = 4
  NoTask = NoTask
SYMMETRY Symmetry
INVARIANTS DeletedIsIdle
CHECK_DEADLOCK FALSE
