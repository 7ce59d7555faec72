\* Liveness without crashes, on two hosts with the continue policy.
SPECIFICATION FairSpec
CONSTANTS
  Tasks = {t1}
  SshTasks = {t1}
  Hosts = {h1, h2}
  Procs = {p1}
  Clients = {c1}
  Runs = {r1, r2}
  Steps = 2
  AttemptMax = 2
  MaxParallel = 2
  Continue = {t1}
  Events = {"start", "cancel", "script", "connect", "cmdb"}
  MaxEvents = 5
  MaxAttempts = 4
  NoTask = NoTask
INVARIANTS NoStepRepeated
PROPERTIES CheckpointKept TaskEnds CancelEnds
CHECK_DEADLOCK FALSE
