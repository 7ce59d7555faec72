\* Two tasks compete for two hosts; a failing host ends its task; no pause.
SPECIFICATION Spec
CONSTANTS
  Tasks = {t1, t2}
  SshTasks = {t1, t2}
  Hosts = {h1, h2}
  Procs = {p1}
  Clients = {c1}
  Runs = {r1, r2, r3}
  Steps = 1
  AttemptMax = 2
  MaxParallel = 2
  Continue = {}
  Events = {"start", "cancel", "retry", "delete", "script", "cmdb"}
  MaxEvents = 5
  MaxAttempts = 4
  NoTask = NoTask
SYMMETRY FullSymmetry
INVARIANTS OneTaskPerHost ScriptHoldsLease SuccessIsComplete FinalMeansSettled
PROPERTIES FinalIsKept
CHECK_DEADLOCK FALSE
