\* Two processes, one of which may crash; an execution may outlive its claim.
SPECIFICATION Spec
CONSTANTS
  Tasks = {t1}
  SshTasks = {t1}
  Hosts = {h1}
  Procs = {p1, p2}
  Clients = {c1}
  Runs = {r1, r2}
  Steps = 2
  AttemptMax = 2
  MaxParallel = 1
  Continue = {}
  Events = {"start", "pause", "resume", "retry", "script", "crash", "attemptExpiry"}
  MaxEvents = 3
  MaxAttempts = 4
  NoTask = NoTask
SYMMETRY Symmetry
INVARIANTS OneWorkerPerHost
CHECK_DEADLOCK FALSE
