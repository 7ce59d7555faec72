\* Every request and every fault: one task on one host, two clients, two processes.
SPECIFICATION Spec
CONSTANTS
  Tasks = {t1}
  SshTasks = {t1}
  Hosts = {h1}
  Procs = {p1, p2}
  Clients = {c1, c2}
  Runs = {r1, r2}
  Steps = 1
  AttemptMax = 2
  MaxParallel = 1
  Continue = {}
  Events = {"start", "pause", "resume", "retry", "cancel", "report", "delete", "stale", "crash", "attemptExpiry", "leaseExpiry", "credential", "orphanExpiry", "service", "cmdb", "script", "connect"}
  MaxEvents = 4
  MaxAttempts = 4
  NoTask = NoTask
SYMMETRY Symmetry
INVARIANTS TypeOK OneLiveAttempt AttemptBudget AttemptOwned OneClaimedWorkerPerHost
PROPERTIES AttemptVerdictKept LifecycleSpec
CHECK_DEADLOCK FALSE
