\* A retry of a host that has used up its attempts.
SPECIFICATION FairSpec
CONSTANTS
  Tasks = {t1}
  SshTasks = {t1}
  Hosts = {h1}
  Procs = {p1}
  Clients = {c1}
  Runs = {r1, r2}
  Steps = 1
  AttemptMax = 2
  MaxParallel = 1
  Continue = {}
  Events = {"start", "script", "retry"}
  MaxEvents = 4
  MaxAttempts = 4
  NoTask = NoTask
PROPERTIES RetryReschedules
CHECK_DEADLOCK FALSE
