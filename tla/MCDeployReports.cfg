\* A manual task: two concurrent requests report its two hosts.
SPECIFICATION Spec
CONSTANTS
  Tasks = {t1}
  SshTasks = {}
  Hosts = {h1, h2}
  Procs = {p1}
  Clients = {c1, c2}
  Runs = {r1, r2}
  Steps = 1
  AttemptMax = 2
  MaxParallel = 1
  Continue = {t1}
  Events = {"start", "report", "pause", "delete", "retry"}
  MaxEvents = 5
  MaxAttempts = 4
  NoTask = NoTask
SYMMETRY Symmetry
INVARIANTS SettledIsFinal
CHECK_DEADLOCK FALSE
