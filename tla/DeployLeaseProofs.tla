--------------------------- MODULE DeployLeaseProofs ---------------------------
(***************************************************************************)
(* The host leases, for every number of tasks, hosts, processes, steps,    *)
(* requests and goroutines: while neither leases nor claims expire and     *)
(* nothing disturbs the engine, a script runs under the lease of its host, *)
(* so two tasks never run scripts on one host together.                    *)
(*                                                                         *)
(* The lease is taken once, before the host goroutines start, and is given *)
(* back by whoever settles the host row.  LeaseInv shows that a goroutine  *)
(* has the lease of its host, or nothing left to execute there, or will    *)
(* find the task canceled or gone before it claims an attempt (Leases).    *)
(* Its other parts say how rows settle: as failed when the attempts are    *)
(* used up (Rounds, GaveUp), which a run that is yet to take its leases    *)
(* never meets (ReadyRows, NotFailed), and as skipped by a CancelTask that *)
(* may come late, to a task that has settled and been retried meanwhile    *)
(* (SkipInv).                                                              *)
(*                                                                         *)
(* The actions are first reduced to what each may do to one table (RowStep *)
(* to WorkerTurn), and each part is then shown once per kind of change.    *)
(***************************************************************************)
EXTENDS DeploySettleProofs

(* The undisturbed engines in which leases do not expire and no start fails  *)
(* between the statements of StartTask (failStartedTask opens the task to a  *)
(* retry while a CancelTask may still have hosts to skip).                   *)
LeasesLast == Undisturbed /\ Events \cap {"leaseExpiry", "service"} = {}

(* What the steps that are left do, table by table.                          *)
RowStep(t) ==
    \/ row'[t] = row[t]
    \/ (\A h \in Hosts : row'[t][h] = "running") /\ status'[t] = "running"
    \/ (\A h \in Hosts : row'[t][h] = "none") /\ status'[t] = "deleted"
    \/ \E c \in Clients : RetryResetsHosts(c) /\ call[c].task = t
    \/ \E c \in Clients : CancelSkipsHosts(c) /\ call[c].task = t
    \/ \E r \in Runs : FailQueuedTask(r) /\ run[r].pc = "boot" /\ run[r].task = t
    \/ \E r \in Runs, h \in Hosts : (WorkerReport(r, h) \/ Requeue(r, h)) /\ run[r].task = t

StatusStep(t) ==
    \/ status'[t] = status[t]
    \/ status'[t] = "deleted"
    \/ /\ status[t] \in {"draft", "failed"} /\ status'[t] = "running"
       /\ \/ \A h \in Hosts : row'[t][h] = "running"
          \/ \E c \in Clients : call'[c].pc = "reset" /\ call'[c].task = t
    \/ status[t] = "running" /\ status'[t] = "cancel_requested"
    \/ \E r \in Runs : /\ run[r].pc = "failtask" /\ run[r].task = t
                       /\ status[t] = "running" /\ status'[t] = "failed"
    \/ \E r \in Runs : /\ run[r].pc = "cancel" /\ run[r].task = t
                       /\ status[t] = "cancel_requested" /\ status'[t] = "canceled"
    \/ \E r \in Runs : /\ run[r].pc = "settle" /\ run[r].task = t
                       /\ status[t] # "deleted" /\ status'[t] = run[r].res /\ row'[t] = row[t]

CallStep(c) ==
    \/ call'[c] = call[c]
    \/ call[c].pc # "reset" /\ call'[c].pc \in {"idle", "kill", "delete"}
    \/ /\ call[c].pc = "idle" /\ call'[c].pc = "open"
       /\ \E p \in Procs, t \in Tasks : StartTask(c, p, t) /\ call'[c].task = t
    \/ /\ call[c].pc = "idle" /\ call'[c].pc = "reset"
       /\ \E p \in Procs, t \in Tasks : RetryTask(c, p, t) /\ call'[c].task = t
    \/ /\ call[c].pc = "idle" /\ call'[c].pc = "skip"
       /\ \E p \in Procs, t \in Tasks : CancelTask(c, p, t) /\ call'[c].task = t
    \/ call[c].pc = "open" /\ call'[c].pc = "spawn" /\ call'[c].task = call[c].task
    \/ RetryResetsHosts(c) /\ call'[c].pc = "spawn" /\ call'[c].task = call[c].task

RunMove(r) ==
    \/ run'[r].pc = run[r].pc /\ run'[r].task = run[r].task
    \/ run'[r].pc \in {"idle", "exit", "cancel"}
    \/ run'[r].pc = "failtask" /\ FailQueuedTask(r)
    \/ /\ run'[r].pc = "spawned"
       /\ \E c \in Clients : call[c].pc = "spawn" /\ call[c].task = run'[r].task
    \/ run[r].pc = "spawned" /\ run'[r].pc = "boot" /\ run'[r].task = run[r].task
    \/ RunBoot(r) /\ run'[r].pc = "hosts" /\ run'[r].task = run[r].task
    \/ RunSettle(r) /\ run'[r].pc = "recompute" /\ run'[r].task = run[r].task
    \/ /\ run[r].pc \in {"recompute", "active"} /\ run'[r].pc \in {"active", "settle"}
       /\ run'[r].task = run[r].task /\ UNCHANGED <<row, worker>>

WorkerOwn(r, h) == WorkerStep(r, h) \/ WorkerFault(r, h)
WorkerTurn(r, h) ==
    \/ worker'[r][h] = worker[r][h] /\ (worker[r][h].pc # "idle" => run'[r].task = run[r].task)
    \/ RunBoot(r)
    \/ WorkerOwn(r, h)

LeaseStep(h) ==
    \/ lease'[h] = lease[h]
    \/ \E t \in Tasks : lease'[h] = Leased(t) /\ ~HeldByOther(h, t)
    \/ \E r \in Runs : RunSettle(r) /\ lease[h].task = run[r].task

(* No start fails, so no handler has leases to give back for it.             *)
NoFailing == \A c \in Clients : call[c].pc \notin {"failhosts", "faillease"}

Stepped ==
    /\ \A t \in Tasks : RowStep(t) /\ StatusStep(t)
    /\ \A c \in Clients : CallStep(c)
    /\ \A r \in Runs : RunMove(r)
    /\ \A h \in Hosts : LeaseStep(h)
    /\ \A r \in Runs, h \in Hosts : WorkerTurn(r, h)

(* What a request leaves behind.                                            *)
LEMMA RequestSteps ==
    ASSUME TypeInv, DriverInv, AllRows, LeasesLast, NEW c \in Clients, NEW p \in Procs, NEW t \in Tasks,
           ControlRequest(c, p, t)
    PROVE  Stepped
<1>0. /\ "pause" \notin Events /\ "report" \notin Events /\ "stale" \notin Events
      /\ status[t] \notin {"pause_requested", "paused", "pending"}
  BY DEF LeasesLast, Undisturbed, DriverInv, Calm, AllRows
<1>1. UNCHANGED <<run, worker>>
  BY DEF ControlRequest, StartTask, PauseTask, ResumeTask, RetryTask, CancelTask, DeleteTask, MarkHostResult
<1>2. \A u \in Tasks : RowStep(u) /\ StatusStep(u)
  <2>1. CASE StartTask(c, p, t)
    <3>1. \A u \in Tasks \ {t} : row'[u] = row[u] /\ status'[u] = status[u]
      BY <2>1 DEF StartTask, TypeInv, TablesTyped
    <3>2. /\ \A h \in Hosts : row'[t][h] = "running"
          /\ status'[t] = "running" /\ status[t] = "draft"
      BY <1>0, <2>1 DEF StartTask, TypeInv, TablesTyped
    <3> QED BY <3>1, <3>2 DEF RowStep, StatusStep
  <2>2. CASE RetryTask(c, p, t)
    <3>1. /\ UNCHANGED row /\ \A u \in Tasks \ {t} : status'[u] = status[u]
          /\ status[t] = "failed" /\ status'[t] = "running"
      BY <2>2 DEF RetryTask, SetStatus, TypeInv, TablesTyped
    <3>2. call'[c].pc = "reset" /\ call'[c].task = t
      BY <2>2 DEF RetryTask, Request, NoCall, TypeInv, CallsTyped
    <3> QED BY <3>1, <3>2 DEF RowStep, StatusStep
  <2>3. CASE CancelTask(c, p, t)
    BY <1>0, <2>3 DEF CancelTask, RowStep, StatusStep, TypeInv, TablesTyped
  <2>4. CASE DeleteTask(c, p, t)
    BY <1>0, <2>4 DEF DeleteTask, SetStatus, FinalStatuses, RowStep, StatusStep
  <2> QED BY <1>0, <2>1, <2>2, <2>3, <2>4 DEF ControlRequest, PauseTask, ResumeTask, MarkHostResult, Request, Event
<1>3. ASSUME NEW b \in Clients
      PROVE  CallStep(b)
  <2>1. CASE b # c
    BY <2>1 DEF CallStep, ControlRequest, StartTask, PauseTask, ResumeTask, RetryTask, CancelTask, DeleteTask,
       MarkHostResult, Request, NoCall, TypeInv, CallsTyped
  <2>2. CASE b = c
    <3>1. CASE StartTask(c, p, t)
      BY <2>2, <3>1 DEF StartTask, CallStep, Request, NoCall, TypeInv, CallsTyped
    <3>2. CASE RetryTask(c, p, t)
      <4>1. call[c].pc = "idle" /\ call'[c].pc = "reset" /\ call'[c].task = t
        BY <3>2 DEF RetryTask, Request, NoCall, TypeInv, CallsTyped
      <4> QED BY <2>2, <3>2, <4>1 DEF CallStep
    <3>3. CASE CancelTask(c, p, t)
      <4>1. call[c].pc = "idle" /\ call'[c].pc = "skip" /\ call'[c].task = t
        BY <3>3 DEF CancelTask, Request, NoCall, TypeInv, CallsTyped
      <4> QED BY <2>2, <3>3, <4>1 DEF CallStep
    <3>4. CASE DeleteTask(c, p, t)
      <4>1. call[c].pc = "idle" /\ call'[c].pc = "delete"
        BY <3>4 DEF DeleteTask, Request, NoCall, TypeInv, CallsTyped
      <4> QED BY <2>2, <4>1 DEF CallStep
    <3> QED BY <1>0, <3>1, <3>2, <3>3, <3>4 DEF ControlRequest, PauseTask, ResumeTask, MarkHostResult, Request, Event
  <2> QED BY <2>1, <2>2
<1>4. \A h \in Hosts : LeaseStep(h)
  <2>1. CASE StartTask(c, p, t)
    <3>1. \A h \in Hosts : lease'[h] = Leased(t) /\ ~HeldByOther(h, t)
      BY <2>1 DEF StartTask, AcquireLeases
    <3> QED BY <3>1 DEF LeaseStep
  <2>2. CASE ~StartTask(c, p, t)
    <3>1. UNCHANGED lease
      BY <2>2 DEF ControlRequest, PauseTask, ResumeTask, RetryTask, CancelTask, DeleteTask, MarkHostResult
    <3> QED BY <3>1 DEF LeaseStep
  <2> QED BY <2>1, <2>2
<1> QED BY <1>1, <1>2, <1>3, <1>4 DEF Stepped, RunMove, WorkerTurn

LEMMA ControlStepSteps ==
    ASSUME TypeInv, DriverInv, AllRows, NoFailing, LeasesLast, NEW c \in Clients, ControlStep(c) \/ ControlFault(c)
    PROVE  Stepped
<1>1. PICK t : t = call[c].task
  OBVIOUS
<1>2. "service" \notin Events /\ call[c].pc \notin {"failhosts", "faillease"} \cup Reporting
  BY DEF LeasesLast, DriverInv, Calm, NoFailing
<1>3. \/ StartDispatch(c) \/ Spawn(c) \/ Kill(c) \/ RetryResetsHosts(c) \/ CancelSkipsHosts(c) \/ DeleteCommit(c)
  BY <1>2 DEF ControlStep, ControlFault, StartFails, StartFailsHosts, StartFailsLeases, MarkReadsHosts,
     MarkReadsAttempts, MarkSettles, MarkFinalize, MarkWritebackFails, MarkStateFails, At, Event, Reporting
<1>4. t \in Tasks /\ call[c].pc # "idle"
  BY <1>1, <1>3, CallTask DEF StartDispatch, Spawn, Kill, RetryResetsHosts, CancelSkipsHosts, DeleteCommit, TypeInv
<1>5. UNCHANGED <<worker, lease>> /\ \A b \in Clients : b # c => call'[b] = call[b]
  BY <1>3 DEF StartDispatch, Spawn, Kill, RetryResetsHosts, CancelSkipsHosts, DeleteCommit, Goto, Return,
     TypeInv, CallsTyped
<1>6. CallStep(c)
  <2>1. CASE StartDispatch(c) \/ Spawn(c) \/ Kill(c) \/ CancelSkipsHosts(c) \/ DeleteCommit(c)
    <3>1. \/ call[c].pc # "reset" /\ call'[c].pc \in {"idle", "kill"}
          \/ call[c].pc = "open" /\ call'[c].pc = "spawn" /\ call'[c].task = call[c].task
      BY <2>1 DEF StartDispatch, Spawn, Kill, CancelSkipsHosts, DeleteCommit, Goto, Return, At, NoCall,
         TypeInv, CallsTyped, Call
    <3> QED BY <3>1 DEF CallStep
  <2>2. CASE RetryResetsHosts(c)
    <3>1. call'[c].pc = "spawn" /\ call'[c].task = call[c].task
      BY <2>2 DEF RetryResetsHosts, Goto, At, TypeInv, CallsTyped, Call
    <3> QED BY <2>2, <3>1 DEF CallStep
  <2> QED BY <1>3, <2>1, <2>2
<1>7. \A u \in Tasks : RowStep(u) /\ StatusStep(u)
  <2>1. CASE StartDispatch(c) \/ Spawn(c) \/ Kill(c)
    BY <2>1 DEF StartDispatch, Spawn, Kill, RowStep, StatusStep
  <2>2. CASE RetryResetsHosts(c) \/ CancelSkipsHosts(c)
    <3>1. UNCHANGED status /\ \A u \in Tasks \ {t} : row'[u] = row[u]
      BY <1>1, <1>4, <2>2 DEF RetryResetsHosts, CancelSkipsHosts, SetHosts, TypeInv, TablesTyped
    <3> QED BY <1>1, <2>2, <3>1 DEF RowStep, StatusStep
  <2>3. CASE DeleteCommit(c)
    <3>1. /\ \A u \in Tasks \ {t} : row'[u] = row[u] /\ status'[u] = status[u]
          /\ status'[t] = "deleted" /\ \A h \in Hosts : row'[t][h] = "none"
      BY <1>1, <1>4, <2>3 DEF DeleteCommit, TypeInv, TablesTyped
    <3> QED BY <3>1 DEF RowStep, StatusStep
  <2> QED BY <1>3, <2>1, <2>2, <2>3
<1>8. \A r \in Runs : RunMove(r) /\ (run[r].pc # "idle" => run'[r].task = run[r].task)
  <2>1. CASE Spawn(c)
    <3>1. PICK r \in IdleRuns : run' = [run EXCEPT ![r] = Spawned(call[c].proc, t)]
      BY <1>1, <2>1 DEF Spawn
    <3>2. /\ \A q \in Runs : q # r => run'[q] = run[q]
          /\ run'[r].pc = "spawned" /\ run'[r].task = t /\ run[r].pc = "idle"
      BY <3>1 DEF IdleRuns, Spawned, TypeInv, RunsTyped
    <3>3. call[c].pc = "spawn"
      BY <2>1 DEF Spawn, At
    <3> QED BY <1>1, <3>2, <3>3 DEF RunMove
  <2>2. CASE ~Spawn(c)
    <3>1. \A q \in Runs : run'[q].pc = run[q].pc /\ run'[q].task = run[q].task
      BY <1>3, <2>2 DEF StartDispatch, Kill, RetryResetsHosts, CancelSkipsHosts, DeleteCommit, TypeInv, RunsTyped, Run
    <3> QED BY <3>1 DEF RunMove
  <2> QED BY <2>1, <2>2
<1>9. \A b \in Clients : CallStep(b)
  BY <1>5, <1>6 DEF CallStep
<1>10. \A r \in Runs, h \in Hosts : WorkerTurn(r, h)
  BY <1>5, <1>8 DEF WorkerTurn, TypeInv, WorkersTyped
<1> QED BY <1>5, <1>7, <1>8, <1>9, <1>10 DEF Stepped, LeaseStep

LEMMA RunStepSteps ==
    ASSUME TypeInv, DriverInv, NEW r \in Runs, RunStep(r) \/ RunCredentialFails(r)
    PROVE  Stepped
<1>1. PICK t : t = run[r].task
  OBVIOUS
<1>2. t \in Tasks /\ run[r].pc # "idle" /\ UNCHANGED call
  BY <1>1 DEF RunStep, RunCredentialFails, RunDropped, RunBegin, RunLeaseConflict, RunTaskGone, RunBoot,
     RunSettle, RunFailsTask, RunCancel, RunReadsHosts, RunReadsAttempts, RunSettles, RunExit, FailQueuedTask, TypeInv, RunsTyped
<1>3. (\A q \in Runs : q # r => run'[q] = run[q]) /\ RunMove(r)
  <2>1. \/ run' = [run EXCEPT ![r] = IdleRun]
        \/ \E pc \in {"exit", "cancel"} : RunGoto(r, pc)
        \/ RunGoto(r, "boot") /\ run[r].pc = "spawned"
        \/ RunBoot(r) /\ RunGoto(r, "hosts")
        \/ RunSettle(r) /\ RunGoto(r, "recompute")
        \/ RunGoto(r, "failtask") /\ FailQueuedTask(r)
        \/ run' = [run EXCEPT ![r].pc = "active", ![r].res = TerminalTaskStatus(t)] /\ RunReadsHosts(r)
        \/ run' = [run EXCEPT ![r].pc = "exit", ![r].res = TerminalTaskStatus(t)]
        \/ RunGoto(r, "settle") /\ RunReadsAttempts(r)
    BY <1>1 DEF AfterHosts, AfterAttempts, RunStep, RunCredentialFails, RunDropped, RunBegin, RunLeaseConflict, RunTaskGone, RunBoot,
       RunSettle, RunFailsTask, RunCancel, RunReadsHosts, RunReadsAttempts, RunSettles, RunExit, FailQueuedTask
  <2>2. CASE run' = [run EXCEPT ![r] = IdleRun]
    BY <2>2 DEF RunMove, IdleRun, TypeInv, RunsTyped
  <2>3. ASSUME NEW pc \in RunPoints, RunGoto(r, pc)
        PROVE  /\ \A q \in Runs : q # r => run'[q] = run[q]
               /\ run'[r].pc = pc /\ run'[r].task = run[r].task
    BY <2>3 DEF RunGoto, TypeInv, RunsTyped, Run
  <2>4. ASSUME NEW pc \in RunPoints, run' = [run EXCEPT ![r].pc = pc, ![r].res = TerminalTaskStatus(t)]
        PROVE  /\ \A q \in Runs : q # r => run'[q] = run[q]
               /\ run'[r].pc = pc /\ run'[r].task = run[r].task
    BY <2>4 DEF TypeInv, RunsTyped, Run
  <2>5. CASE RunReadsHosts(r) \/ RunReadsAttempts(r)
    <3>1. run[r].pc \in {"recompute", "active"} /\ UNCHANGED <<row, worker>>
      BY <2>5 DEF RunReadsHosts, RunReadsAttempts
    <3> QED BY <2>1, <2>2, <2>3, <2>4, <3>1 DEF RunMove, RunPoints
  <2>6. CASE ~RunReadsHosts(r) /\ ~RunReadsAttempts(r)
    BY <2>1, <2>2, <2>3, <2>4, <2>6 DEF RunMove, RunPoints
  <2> QED BY <2>5, <2>6
<1>4. \A q \in Runs : RunMove(q)
  BY <1>3 DEF RunMove
<1>5. \A u \in Tasks : RowStep(u) /\ StatusStep(u)
  <2>1. CASE UNCHANGED <<status, row>>
    BY <2>1 DEF RowStep, StatusStep
  <2>2. CASE FailQueuedTask(r) /\ run[r].pc = "boot"
    <3>1. UNCHANGED status /\ \A u \in Tasks \ {t} : row'[u] = row[u]
      BY <1>1, <1>2, <2>2 DEF FailQueuedTask, SetHosts, TypeInv, TablesTyped
    <3> QED BY <1>1, <2>2, <3>1 DEF RowStep, StatusStep
  <2>3. CASE RunCancel(r)
    <3>1. /\ \A u \in Tasks \ {t} : status'[u] = status[u]
          /\ (status'[t] = status[t] \/ (status[t] = "cancel_requested" /\ status'[t] = "canceled"))
          /\ UNCHANGED row /\ run[r].pc = "cancel"
      BY <1>1, <1>2, <2>3 DEF RunCancel, SetStatus, TypeInv, TablesTyped
    <3> QED BY <1>1, <3>1 DEF RowStep, StatusStep
  <2>4. CASE RunSettles(r)
    <3>1. /\ \A u \in Tasks \ {t} : status'[u] = status[u]
          /\ (status'[t] = status[t] \/ (status[t] # "deleted" /\ status'[t] = run[r].res))
          /\ UNCHANGED row /\ run[r].pc = "settle"
      BY <1>1, <1>2, <2>4 DEF RunSettles, Overwrite, TypeInv, TablesTyped
    <3> QED BY <1>1, <3>1 DEF RowStep, StatusStep
  <2>5. CASE RunFailsTask(r)
    <3>1. /\ \A u \in Tasks \ {t} : status'[u] = status[u]
          /\ (status'[t] = status[t] \/ (status[t] = "running" /\ status'[t] = "failed"))
          /\ UNCHANGED row /\ run[r].pc = "failtask"
      BY <1>1, <1>2, <2>5 DEF RunFailsTask, SetStatus, TypeInv, TablesTyped
    <3> QED BY <1>1, <3>1 DEF RowStep, StatusStep
  <2> QED BY <2>1, <2>2, <2>3, <2>4, <2>5 DEF RunStep, RunCredentialFails, RunDropped, RunBegin, RunLeaseConflict,
          RunTaskGone, RunBoot, RunSettle, RunReadsHosts, RunReadsAttempts, RunExit
<1>6. \A h \in Hosts : LeaseStep(h)
  <2>1. CASE UNCHANGED lease
    BY <2>1 DEF LeaseStep
  <2>2. CASE RunBoot(r)
    <3>1. \A h \in Hosts : lease'[h] = lease[h] \/ (lease'[h] = Leased(t) /\ ~HeldByOther(h, t))
      BY <1>1, <2>2 DEF RunBoot, AcquireLeases, TypeInv, TablesTyped
    <3> QED BY <1>2, <3>1 DEF LeaseStep
  <2>3. CASE RunSettle(r)
    <3>1. \A h \in Hosts : lease'[h] = lease[h] \/ lease[h].task = t
      BY <1>1, <2>3 DEF RunSettle, ReleaseLeases, TypeInv, TablesTyped
    <3> QED BY <1>1, <2>3, <3>1 DEF LeaseStep
  <2> QED BY <2>1, <2>2, <2>3 DEF RunStep, RunCredentialFails, RunDropped, RunBegin, RunLeaseConflict,
          RunTaskGone, RunFailsTask, RunCancel, RunReadsHosts, RunReadsAttempts, RunSettles, RunExit, FailQueuedTask
<1>7. \A q \in Runs, h \in Hosts : WorkerTurn(q, h)
  <2>1. CASE RunBoot(r)
    <3>1. \A q \in Runs, h \in Hosts : q # r => worker'[q][h] = worker[q][h]
      BY <2>1 DEF RunBoot, TypeInv, WorkersTyped
    <3> QED BY <1>3, <2>1, <3>1 DEF WorkerTurn
  <2>2. CASE ~RunBoot(r)
    <3>1. UNCHANGED worker
      BY <2>2 DEF RunStep, RunCredentialFails, RunDropped, RunBegin, RunLeaseConflict,
          RunTaskGone, RunSettle, RunFailsTask, RunCancel, RunReadsHosts, RunReadsAttempts, RunSettles, RunExit, FailQueuedTask
    <3>2. run'[r].task = run[r].task \/ run[r].pc # "hosts"
      BY <2>2 DEF RunStep, RunCredentialFails, RunDropped, RunBegin, RunLeaseConflict,
          RunTaskGone, RunSettle, RunFailsTask, RunCancel, RunReadsHosts, RunReadsAttempts, RunSettles, RunExit, FailQueuedTask, RunGoto, TypeInv, RunsTyped, Run
    <3> QED BY <1>3, <3>1, <3>2 DEF WorkerTurn, TypeInv, WorkersTyped
  <2> QED BY <2>1, <2>2
<1> QED BY <1>2, <1>4, <1>5, <1>6, <1>7 DEF Stepped, CallStep

(* A finalizing goroutine holds its claim, so the lease is not released.    *)
LEMMA WorkerStepSteps ==
    ASSUME TypeInv, LedgerInv, NoWorkerSettles, DriverInv, LeasesLast, NEW r \in Runs, NEW h \in Hosts, WorkerOwn(r, h)
    PROVE  Stepped /\ \A q \in Runs, g \in Hosts : (q # r \/ g # h) => worker'[q][g] = worker[q][g]
<1>0. "attemptExpiry" \notin Events
  BY DEF LeasesLast, Undisturbed
<1>1. /\ UNCHANGED <<status, call>>
      /\ \A q \in Runs : run'[q].pc = run[q].pc /\ run'[q].task = run[q].task
  BY WorkerKeepsStatus DEF WorkerOwn, DriverInv
<1>2. PICK t \in Tasks : t = run[r].task /\ run[r].pc = "hosts"
  BY DEF TypeInv, RunsTyped, WorkerOwn, WorkerStep, WorkerFault, WorkerCheck, WorkerSkip, WorkerClaim,
     WorkerClaimRefused, ConnectFails, NextStep, StepSucceeds, StepStops, Interrupt, WorkerReport,
     WorkerReadsHosts, WorkerReadsAttempts, WorkerSettles, WorkerFinalize, FinishInterrupted, FinishSuccess, FinishFailed, Requeue, GiveUp,
     WorkerWritebackFails, WorkerStateFails, WorkerAt
<1>3. \E w : SetWorker(r, h, w)
  BY DEF WorkerOwn, WorkerStep, WorkerFault, WorkerCheck, WorkerSkip, WorkerClaim,
     WorkerClaimRefused, ConnectFails, NextStep, StepSucceeds, StepStops, Interrupt, WorkerReport,
     WorkerReadsHosts, WorkerReadsAttempts, WorkerSettles, WorkerFinalize, FinishInterrupted, FinishSuccess, FinishFailed, Requeue, GiveUp,
     WorkerWritebackFails, WorkerStateFails, WorkerExit, WorkerGoto, Outcome
<1>4. \A q \in Runs, g \in Hosts : (q # r \/ g # h) => worker'[q][g] = worker[q][g]
  BY <1>3 DEF SetWorker, TypeInv, WorkersTyped
<1>5. \A u \in Tasks : RowStep(u)
  <2>1. CASE WorkerReport(r, h) \/ Requeue(r, h)
    <3>1. \A u \in Tasks \ {t} : row'[u] = row[u]
      BY <1>2, <2>1 DEF WorkerReport, Requeue, TypeInv, TablesTyped
    <3> QED BY <1>2, <2>1, <3>1 DEF RowStep
  <2>2. CASE ~WorkerReport(r, h) /\ ~Requeue(r, h)
    <3>1. UNCHANGED row
      BY <2>2 DEF WorkerOwn, WorkerStep, WorkerFault, WorkerCheck, WorkerSkip, WorkerClaim,
         WorkerClaimRefused, ConnectFails, NextStep, StepSucceeds, StepStops, Interrupt,
         WorkerReadsHosts, WorkerReadsAttempts, WorkerSettles, WorkerFinalize, FinishInterrupted, FinishSuccess, FinishFailed, GiveUp,
         WorkerWritebackFails, WorkerStateFails
    <3> QED BY <3>1 DEF RowStep
  <2> QED BY <2>1, <2>2
<1>6. UNCHANGED lease
  <2>1. CASE WorkerFinalize(r, h)
    <3>1. Holding(r, h) /\ (UNCHANGED lease \/ ReleaseLeases(t, Unclaimed(t, {h})))
      BY <1>2, <2>1 DEF WorkerFinalize, WorkerAt, Holding
    <3>2. Unclaimed(t, {h}) = {}
      BY <1>0, <1>2, <3>1, HeldIsLive DEF Unclaimed
    <3> QED BY <3>1, <3>2 DEF ReleaseLeases, TypeInv, TablesTyped
  <2>2. CASE ~WorkerFinalize(r, h)
    BY <2>2 DEF WorkerOwn, WorkerStep, WorkerFault, WorkerCheck, WorkerSkip, WorkerClaim,
       WorkerClaimRefused, ConnectFails, NextStep, StepSucceeds, StepStops, Interrupt, WorkerReport,
       WorkerReadsHosts, WorkerReadsAttempts, WorkerSettles, FinishInterrupted, FinishSuccess, FinishFailed, Requeue, GiveUp,
       WorkerWritebackFails, WorkerStateFails
  <2> QED BY <2>1, <2>2
<1>7. \A q \in Runs, g \in Hosts : WorkerTurn(q, g)
  BY <1>1, <1>4 DEF WorkerTurn
<1> QED BY <1>1, <1>4, <1>5, <1>6, <1>7 DEF Stepped, StatusStep, CallStep, RunMove, LeaseStep

LEMMA NextSteps ==
    ASSUME TypeInv, LedgerInv, NoWorkerSettles, DriverInv, AllRows, NoFailing, LeasesLast, [Next]_vars
    PROVE  Stepped
<1>1. ASSUME UNCHANGED <<status, row, lease, call, run, worker>>
      PROVE  Stepped
  BY <1>1 DEF Stepped, RowStep, StatusStep, CallStep, RunMove, LeaseStep, WorkerTurn
<1>2. CASE UNCHANGED vars
  BY <1>1, <1>2 DEF vars
<1>3. CASE Environment
  <2>1. \A p \in Procs : ~Crash(p) /\ ~Restart(p)
    BY DEF LeasesLast, Undisturbed, Crash, Restart, Event, DriverInv, Calm
  <2>2. \A h \in Hosts : ~LeaseExpires(h)
    BY DEF LeasesLast, LeaseExpires, Event
  <2>3. ASSUME NEW h \in Hosts, NEW t \in Tasks, AttemptExpires(t, h)
        PROVE  Stepped
    BY <1>1, <2>3 DEF AttemptExpires
  <2> QED BY <1>3, <2>1, <2>2, <2>3, ControlStepSteps, RunStepSteps, WorkerStepSteps DEF Environment, WorkerOwn
<1>4. CASE Next /\ ~Environment
  BY <1>4, RequestSteps, ControlStepSteps, RunStepSteps, WorkerStepSteps DEF Next, WorkerOwn
<1> QED BY <1>2, <1>3, <1>4
-----------------------------------------------------------------------------
(* A host has no work left when its steps are checkpointed or its attempts  *)
(* used up.                                                                 *)
Full(t, h) == ckpt[t][h] = 1..Steps
Exhausted(t, h) == Cardinality(ChargedAttempts(t, h)) >= AttemptMax
Spent(t, h) == Full(t, h) \/ Exhausted(t, h)
Charged(t, h) == Cardinality(ChargedAttempts(t, h))

ChargedKept == \A t \in Tasks, h \in Hosts : ChargedAttempts(t, h) \subseteq ChargedAttempts(t, h)'

LEMMA FinishCharges ==
    ASSUME TypeInv, NEW u \in Tasks, NEW g \in Hosts, NEW k, NEW s, s # "paused",
           FinishAttempt(u, g, k, s)
    PROVE  ChargedKept
<1> DEFINE over == [attempts[u][g] EXCEPT ![k] = [status |-> s, live |-> FALSE]]
<1>1. \A v \in Tasks, f \in Hosts : attempts'[v][f] = IF v = u /\ f = g THEN over ELSE attempts[v][f]
  BY DEF FinishAttempt, TypeInv, TablesTyped
<1>2. /\ DOMAIN over = DOMAIN attempts[u][g]
      /\ \A i \in DOMAIN attempts[u][g] :
            over[i] = IF i = k THEN [status |-> s, live |-> FALSE] ELSE attempts[u][g][i]
  OBVIOUS
<1> HIDE DEF over
<1>3. ASSUME NEW v \in Tasks, NEW f \in Hosts, NEW i \in ChargedAttempts(v, f)
      PROVE  i \in ChargedAttempts(v, f)'
  <2>1. i \in DOMAIN attempts[v][f] /\ attempts[v][f][i].status # "paused"
    BY DEF ChargedAttempts
  <2>2. i \in DOMAIN attempts'[v][f] /\ attempts'[v][f][i].status # "paused"
    BY <1>1, <1>2, <2>1
  <2> QED BY <2>2 DEF ChargedAttempts
<1> QED BY <1>3 DEF ChargedKept

LEMMA ChargedGrows ==
    ASSUME TypeInv, DriverInv, LeasesLast, [Next]_vars
    PROVE  ChargedKept
<1>1. ASSUME UNCHANGED attempts
      PROVE  ChargedKept
  BY <1>1 DEF ChargedKept, ChargedAttempts
<1>2. ASSUME ReapAttempts
      PROVE  ChargedKept
  <2>1. ASSUME NEW t \in Tasks, NEW h \in Hosts, NEW i \in ChargedAttempts(t, h)
        PROVE  i \in ChargedAttempts(t, h)'
    <3>1. i \in DOMAIN attempts[t][h] /\ attempts[t][h][i].status # "paused"
      BY DEF ChargedAttempts
    <3>2. i \in DOMAIN attempts'[t][h] /\ attempts'[t][h][i] = Reaped(attempts[t][h][i])
      BY <1>2, <3>1, ReapEffect
    <3>3. attempts[t][h][i] \in Attempt
      BY <3>1 DEF TypeInv, TablesTyped
    <3>4. Reaped(attempts[t][h][i]).status # "paused"
      BY <3>1, <3>3 DEF Reaped, Attempt
    <3> QED BY <3>2, <3>4 DEF ChargedAttempts
  <2> QED BY <2>1 DEF ChargedKept
<1>3. ASSUME NEW r \in Runs, NEW h \in Hosts, WorkerStep(r, h) \/ WorkerFault(r, h)
      PROVE  ChargedKept
  <2>1. CASE FinishInterrupted(r, h) \/ FinishSuccess(r, h) \/ FinishFailed(r, h)
    <3>1. PICK t \in Tasks : t = run[r].task
      BY <2>1 DEF FinishInterrupted, FinishSuccess, FinishFailed, WorkerAt, TypeInv, RunsTyped
    <3>2. ~Suspended(t)
      BY DEF DriverInv, Calm, Suspended
    <3>3. \E s \in {"canceled", "success", "failed"} : FinishAttempt(t, h, worker[r][h].att, s)
      BY <2>1, <3>1, <3>2 DEF FinishInterrupted, FinishSuccess, FinishFailed
    <3> QED BY <3>3, FinishCharges
  <2>2. CASE WorkerClaim(r, h)
    <3>1. PICK q \in Runs, g \in Hosts, u \in Tasks : \E n : NewClaim(q, g, u, n)
      BY <2>2, ClaimMoves DEF ClaimMove
    <3> QED BY <3>1 DEF NewClaim, ChargedKept, ChargedAttempts
  <2>3. CASE ~(FinishInterrupted(r, h) \/ FinishSuccess(r, h) \/ FinishFailed(r, h)) /\ ~WorkerClaim(r, h)
    BY <1>1, <1>3, <2>3 DEF WorkerStep, WorkerFault, WorkerCheck, WorkerSkip, WorkerClaimRefused,
       ConnectFails, NextStep, StepSucceeds, StepStops, Interrupt, WorkerReport, WorkerReadsHosts, WorkerReadsAttempts,
       WorkerSettles, WorkerFinalize, Requeue, GiveUp, WorkerWritebackFails, WorkerStateFails
  <2> QED BY <2>1, <2>2, <2>3
<1>4. CASE \A r \in Runs, h \in Hosts : ~WorkerStep(r, h) /\ ~WorkerFault(r, h)
  <2>1. ASSUME NEW u \in Tasks, NEW g \in Hosts, AttemptExpires(u, g)
        PROVE  ChargedKept
    BY <2>1, ExpireEffect DEF ChargedKept, ChargedAttempts
  <2> QED BY <1>1, <1>2, <1>4, <2>1, OtherMoves
<1> QED BY <1>3, <1>4

LEMMA SpentStays ==
    ASSUME TypeInv, TypeInv', CkptInv, DriverInv, LeasesLast, [Next]_vars,
           NEW t \in Tasks, NEW h \in Hosts
    PROVE  /\ Charged(t, h) \in Nat /\ Charged(t, h)' \in Nat /\ Charged(t, h) <= Charged(t, h)'
           /\ Full(t, h) => Full(t, h)'
           /\ Exhausted(t, h) => Exhausted(t, h)'
<1>1. ChargedAttempts(t, h) \subseteq ChargedAttempts(t, h)'
  BY ChargedGrows DEF ChargedKept
<1>2. IsFiniteSet(ChargedAttempts(t, h)') /\ Cardinality(ChargedAttempts(t, h)') \in Nat
  <2>1. DOMAIN attempts'[t][h] = 1..Len(attempts'[t][h]) /\ Len(attempts'[t][h]) \in Nat
    BY DEF TypeInv, TablesTyped
  <2>2. IsFiniteSet(DOMAIN attempts'[t][h])
    BY <2>1, FS_Interval
  <2>3. ChargedAttempts(t, h)' \subseteq DOMAIN attempts'[t][h]
    BY DEF ChargedAttempts
  <2> QED BY <2>2, <2>3, FS_Subset, FS_CardinalityType
<1>3. Charged(t, h) \in Nat /\ Charged(t, h)' \in Nat /\ (Charged(t, h) <= Charged(t, h)')
  BY <1>1, <1>2, ChargedFinite, FS_Subset DEF Charged
<1>4. ckpt[t][h] \subseteq ckpt'[t][h] /\ ckpt'[t][h] \in SUBSET (1..Steps)
  BY NoStepRepeatedKept DEF TypeInv, TablesTyped
<1>5. Full(t, h) => Full(t, h)'
  BY <1>4 DEF Full
<1>6. Exhausted(t, h) <=> Charged(t, h) >= AttemptMax
  BY DEF Exhausted, Charged
<1>7. Exhausted(t, h)' <=> Charged(t, h)' >= AttemptMax
  BY DEF Exhausted, Charged
<1> QED BY <1>3, <1>5, <1>6, <1>7, DeployAssumption
-----------------------------------------------------------------------------
(* The steps of a host goroutine, by what they mean for its lease.          *)
Leaves(r, h) ==
    LET w == worker[r][h] IN
    /\ worker'[r][h].pc = "idle" /\ UNCHANGED row
    /\ \/ w.pc \in {"queued", "check", "claim"}
       \/ w.pc = "finish" /\ (CancelSought(run[r].task) \/ row[run[r].task][h] # "failed")
       \/ w.pc = "retry" /\ (CancelSought(run[r].task) \/ ~RetriesLeft(r, h))
Enters(r, h) ==
    /\ worker[r][h].pc \in {"queued", "check"} /\ worker'[r][h].pc = "claim"
    /\ worker'[r][h].round = worker[r][h].round /\ ~Interrupted(run[r].task) /\ UNCHANGED row
Claims(r, h) ==
    /\ WorkerClaim(r, h) /\ worker[r][h].pc = "claim" /\ Holding(r, h)' /\ UNCHANGED row
    /\ worker'[r][h].round = worker[r][h].round
Holds(r, h) ==
    /\ Holding(r, h) /\ (Holding(r, h)' \/ worker'[r][h].pc = "retry")
    /\ worker'[r][h].round = worker[r][h].round
Again(r, h) ==
    /\ worker[r][h].pc = "retry" /\ worker'[r][h].pc = "check" /\ Requeue(r, h)
    /\ worker'[r][h].round = worker[r][h].round + 1

LEMMA WorkerPhases ==
    ASSUME TypeInv, DriverInv, NEW r \in Runs, NEW h \in Hosts, WorkerOwn(r, h)
    PROVE  Leaves(r, h) \/ Enters(r, h) \/ Claims(r, h) \/ Holds(r, h) \/ Again(r, h)
<1> DEFINE w == worker[r][h]
           v == worker'[r][h]
<1>1. w \in Worker
  BY DEF TypeInv, WorkersTyped
<1>2. \A u : SetWorker(r, h, u) => v = u
  BY OwnWorkerOnly
<1>a. WorkerExit(r, h) => v.pc = "idle"
  BY <1>2 DEF WorkerExit, IdleWorker, Fresh
<1>b. ASSUME NEW pc \in WorkerPoints, WorkerGoto(r, h, pc)
      PROVE  v.pc = pc /\ v.round = w.round
  BY <1>1, <1>2, <1>b DEF WorkerGoto, Worker
<1>c. ASSUME NEW pc \in WorkerPoints, NEW res, Outcome(r, h, pc, res)
      PROVE  v.pc = pc /\ v.round = w.round
  BY <1>1, <1>2, <1>c DEF Outcome, Worker
<1>d. {"claim", "exec", "script", "interrupt", "report", "finalize", "active", "settle", "refresh", "finish",
       "retry"} \subseteq WorkerPoints
  BY DEF WorkerPoints
<1>3. CASE WorkerCheck(r, h) \/ WorkerSkip(r, h) \/ WorkerClaimRefused(r, h)
  <2>1. UNCHANGED row /\ w.pc \in {"queued", "check", "claim"}
    BY <1>3 DEF WorkerCheck, WorkerSkip, WorkerClaimRefused, WorkerAt
  <2>2. CASE WorkerExit(r, h)
    BY <1>a, <2>1, <2>2 DEF Leaves
  <2>3. CASE ~WorkerExit(r, h)
    BY <1>3, <1>b, <1>d, <2>1, <2>3 DEF WorkerCheck, WorkerSkip, WorkerClaimRefused, WorkerAt, Enters
  <2> QED BY <2>2, <2>3
<1>4. CASE WorkerClaim(r, h)
  <2>1. v.pc = "exec" /\ v.round = w.round
    BY <1>2, <1>4 DEF WorkerClaim, Claimed
  <2> QED BY <1>4, <2>1 DEF Claims, WorkerClaim, WorkerAt, Holding
<1>5. CASE ConnectFails(r, h) \/ Interrupt(r, h) \/ WorkerReport(r, h) \/ WorkerReadsHosts(r, h)
           \/ WorkerReadsAttempts(r, h) \/ WorkerSettles(r, h) \/ WorkerFinalize(r, h) \/ WorkerFault(r, h)
  <2>1. Holding(r, h)
    BY <1>5 DEF ConnectFails, Interrupt, WorkerReport, WorkerReadsHosts, WorkerReadsAttempts, WorkerSettles,
       WorkerFinalize, WorkerFault, WorkerWritebackFails, WorkerStateFails, WorkerAt, Holding
  <2>2. \E pc \in {"report", "finalize", "active", "settle", "refresh", "finish"} :
            WorkerGoto(r, h, pc) \/ \E res : Outcome(r, h, pc, res)
    BY <1>5 DEF ConnectFails, Interrupt, WorkerReport, WorkerReadsHosts, WorkerReadsAttempts, WorkerSettles,
       WorkerFinalize, WorkerFault, WorkerWritebackFails, WorkerStateFails, AfterHosts, AfterAttempts
  <2>3. v.pc \in {"report", "finalize", "active", "settle", "refresh", "finish"} /\ v.round = w.round
    BY <1>b, <1>c, <1>d, <2>2
  <2> QED BY <2>1, <2>3 DEF Holds, Holding
<1>6. CASE NextStep(r, h) \/ StepSucceeds(r, h) \/ StepStops(r, h)
  <2>1. w.pc \in {"exec", "script"}
    BY <1>6 DEF NextStep, StepSucceeds, StepStops, WorkerAt
  <2>2. \/ \E pc \in {"interrupt", "script"} : WorkerGoto(r, h, pc)
        \/ Outcome(r, h, "report", "success")
        \/ SetWorker(r, h, [w EXCEPT !.step = @ + 1])
        \/ SetWorker(r, h, [w EXCEPT !.pc = "exec", !.step = @ + 1])
        \/ SetWorker(r, h, [w EXCEPT !.pc = "exec", !.step = @ + 1, !.res = "canceled"])
        \/ SetWorker(r, h, [w EXCEPT !.pc = "report", !.res = "failed"])
    BY <1>6 DEF NextStep, StepSucceeds, StepStops
  <2>3. v.pc \in {"interrupt", "script", "report", "exec"} /\ v.round = w.round
    <3>1. CASE (\E pc \in {"interrupt", "script"} : WorkerGoto(r, h, pc)) \/ Outcome(r, h, "report", "success")
      BY <1>b, <1>c, <1>d, <3>1
    <3>2. CASE ~((\E pc \in {"interrupt", "script"} : WorkerGoto(r, h, pc)) \/ Outcome(r, h, "report", "success"))
      BY <1>1, <1>2, <2>1, <2>2, <3>2 DEF Worker
    <3> QED BY <3>1, <3>2
  <2> QED BY <2>1, <2>3 DEF Holds, Holding
<1>7. CASE FinishInterrupted(r, h) \/ FinishSuccess(r, h)
  <2>1. run[r].task \in Tasks
    BY <1>7 DEF FinishInterrupted, FinishSuccess, WorkerAt, TypeInv, RunsTyped
  <2>2. /\ w.pc = "finish" /\ WorkerExit(r, h) /\ UNCHANGED row
        /\ Interrupted(run[r].task) \/ row[run[r].task][h] # "failed"
    BY <1>7 DEF FinishInterrupted, FinishSuccess, WorkerAt, HostFailed
  <2>3. Interrupted(run[r].task) => CancelSought(run[r].task)
    BY <2>1 DEF Interrupted, Suspended, DriverInv, Calm
  <2> QED BY <1>a, <2>2, <2>3 DEF Leaves
<1>8. CASE FinishFailed(r, h)
  BY <1>8, <1>b, <1>d DEF FinishFailed, WorkerAt, Holds, Holding
<1>9. CASE Requeue(r, h)
  <2>1. v.pc = "check" /\ v.round = w.round + 1
    BY <1>2, <1>9 DEF Requeue, Fresh
  <2> QED BY <1>9, <2>1 DEF Again, Requeue, WorkerAt
<1>10. CASE GiveUp(r, h)
  <2>1. run[r].task \in Tasks
    BY <1>10 DEF GiveUp, WorkerAt, TypeInv, RunsTyped
  <2>2. /\ w.pc = "retry" /\ WorkerExit(r, h) /\ UNCHANGED row
        /\ Interrupted(run[r].task) \/ ~RetriesLeft(r, h)
    BY <1>10 DEF GiveUp, WorkerAt
  <2>3. Interrupted(run[r].task) => CancelSought(run[r].task)
    BY <2>1 DEF Interrupted, Suspended, DriverInv, Calm
  <2> QED BY <1>a, <2>2, <2>3 DEF Leaves
<1> QED BY <1>3, <1>4, <1>5, <1>6, <1>7, <1>8, <1>9, <1>10 DEF WorkerOwn, WorkerStep

(* A goroutine charges the host once per round it has begun.                *)
RoundFits(w, n) ==
    /\ w.pc # "idle" => w.round <= n
    /\ w.pc \in {"exec", "script", "interrupt", "report", "finalize", "active", "settle", "refresh", "finish",
                  "retry"} => w.round + 1 <= n
Rounds == \A r \in Runs, h \in Hosts : RoundFits(worker[r][h], Charged(run[r].task, h))

LEMMA RoundsKept ==
    ASSUME TypeInv, TypeInv', LedgerInv, NoWorkerSettles, CkptInv, DriverInv, AllRows, NoFailing, LeasesLast,
           Rounds, [Next]_vars
    PROVE  Rounds'
<1> SUFFICES ASSUME NEW r \in Runs, NEW h \in Hosts, worker'[r][h].pc # "idle"
             PROVE  RoundFits(worker'[r][h], Charged(run[r].task, h)')
  BY DEF Rounds, RoundFits, Holding
<1>1. PICK t \in Tasks : t = run'[r].task
  BY DEF TypeInv, WorkersTyped, RunsTyped
<1>2. worker'[r][h] \in Worker /\ worker[r][h] \in Worker
  BY DEF TypeInv, WorkersTyped
<1>3. Charged(t, h) \in Nat /\ Charged(t, h)' \in Nat /\ (Charged(t, h) <= Charged(t, h)')
  BY SpentStays
<1>4. Charged(run[r].task, h)' = Charged(t, h)'
  BY <1>1 DEF Charged, ChargedAttempts
<1>5. CASE worker'[r][h] = worker[r][h] /\ run'[r].task = run[r].task
  <2>1. RoundFits(worker[r][h], Charged(t, h))
    BY <1>1, <1>5 DEF Rounds
  <2>2. worker[r][h].round \in Nat
    BY <1>2 DEF Worker
  <2> QED BY <1>3, <1>4, <1>5, <2>1, <2>2 DEF RoundFits
<1>6. CASE RunBoot(r)
  <2>1. worker'[r][h].pc = "queued" /\ worker'[r][h].round = 0
    BY <1>6 DEF RunBoot, QueuedWorker, IdleWorker, Fresh, TypeInv, WorkersTyped
  <2> QED BY <1>3, <1>4, <2>1 DEF RoundFits
<1>7. CASE WorkerOwn(r, h)
  <2>1. run'[r].task = run[r].task
    BY <1>7, WorkerKeepsStatus DEF WorkerOwn, DriverInv
  <2>2. RoundFits(worker[r][h], Charged(t, h)) /\ worker[r][h].round \in Nat
    BY <1>1, <1>2, <2>1 DEF Rounds, Worker
  <2>3. CASE Enters(r, h) \/ Holds(r, h) \/ Again(r, h)
    BY <1>3, <1>4, <2>2, <2>3 DEF RoundFits, Enters, Holds, Again, Holding
  <2>4. CASE Claims(r, h)
    <3>1. PICK n : NewClaim(r, h, t, n)
      BY <1>1, <2>1, <2>4, ClaimEffect DEF Claims
    <3>2. ChargedAttempts(t, h)' = ChargedAttempts(t, h) \cup {n} /\ n \notin ChargedAttempts(t, h)
      BY <3>1 DEF NewClaim, ChargedAttempts
    <3>3. Charged(t, h)' = Charged(t, h) + 1
      BY <3>2, ChargedFinite, FS_AddElement DEF Charged
    <3> QED BY <1>3, <1>4, <2>2, <2>4, <3>3 DEF RoundFits, Claims
  <2>5. ~Leaves(r, h)
    BY DEF Leaves
  <2> QED BY <1>7, <2>3, <2>4, <2>5, WorkerPhases
<1> QED BY <1>5, <1>6, <1>7, NextSteps DEF Stepped, WorkerTurn
-----------------------------------------------------------------------------
(* Who fails a host row: a run that could not begin, or the host's worker.  *)
LEMMA RowFails ==
    ASSUME TypeInv, Stepped, NEW t \in Tasks, NEW h \in Hosts, row'[t][h] = "failed", row[t][h] # "failed"
    PROVE  \/ \E r \in Runs : FailQueuedTask(r) /\ run[r].pc = "boot" /\ run[r].task = t
           \/ \E r \in Runs : WorkerReport(r, h) /\ run[r].task = t
<1>1. RowStep(t)
  BY DEF Stepped
<1>2. ASSUME NEW c \in Clients, RetryResetsHosts(c) \/ CancelSkipsHosts(c), call[c].task = t
      PROVE  row'[t][h] # "failed"
  BY <1>2 DEF RetryResetsHosts, CancelSkipsHosts, SetHosts, TypeInv, TablesTyped
<1>3. ASSUME NEW r \in Runs, NEW g \in Hosts, WorkerReport(r, g), run[r].task = t, g # h
      PROVE  row'[t][h] = row[t][h]
  BY <1>3 DEF WorkerReport, TypeInv, TablesTyped
<1>4. ASSUME NEW r \in Runs, NEW g \in Hosts, Requeue(r, g), run[r].task = t
      PROVE  row'[t][h] = row[t][h] \/ row'[t][h] \in {"none", "running"}
  BY <1>4 DEF Requeue, TypeInv, TablesTyped
<1>5. ASSUME NEW r \in Runs, NEW g \in Hosts, WorkerReport(r, g) \/ Requeue(r, g), run[r].task = t
      PROVE  WorkerReport(r, h)
  BY <1>3, <1>4, <1>5
<1> QED BY <1>1, <1>2, <1>5 DEF RowStep

LEMMA DeletedStays ==
    ASSUME Stepped, NEW t \in Tasks, status[t] = "deleted"
    PROVE  status'[t] = "deleted"
BY DEF Stepped, StatusStep

(* Nothing but the driver of a task settles its rows.                       *)
LEMMA OnlyDriverFails ==
    ASSUME TypeInv, DriverInv, Stepped, NEW t \in Tasks, NEW h \in Hosts,
           row'[t][h] = "failed", row[t][h] # "failed"
    PROVE  \E r \in Runs :
              /\ run[r].task = t /\ UNCHANGED call
              /\ \A q \in Runs : RunDrives(q, t) => q = r
              /\ \A c \in Clients : ~CallDrives(c, t)
              /\ \/ run[r].pc = "boot" /\ run' = [run EXCEPT ![r].pc = "failtask"]
                 \/ run[r].pc = "hosts" /\ worker[r][h].pc = "report" /\ UNCHANGED run
<1>1. PICK r \in Runs : /\ run[r].task = t
                        /\ (FailQueuedTask(r) /\ run[r].pc = "boot") \/ WorkerReport(r, h)
  BY RowFails
<1>2. \/ run[r].pc = "boot" /\ run' = [run EXCEPT ![r].pc = "failtask"] /\ UNCHANGED call
      \/ run[r].pc = "hosts" /\ worker[r][h].pc = "report" /\ UNCHANGED <<run, call>>
  BY <1>1 DEF FailQueuedTask, RunGoto, WorkerReport, WorkerAt
<1>3. RunDrives(r, t)
  BY <1>1, <1>2 DEF RunDrives
<1> QED BY <1>1, <1>2, <1>3 DEF DriverInv, OneDriver

(* A host that is about to be executed has not failed.                      *)
Ready(t) ==
    \/ \E c \in Clients : call[c].task = t /\ call[c].pc \in {"open", "spawn"}
    \/ \E r \in Runs : run[r].task = t /\ run[r].pc \in {"spawned", "boot"}
ReadyRows == \A t \in Tasks : Ready(t) => \A h \in Hosts : row[t][h] # "failed"
NotFailed ==
    \A r \in Runs, h \in Hosts :
        worker[r][h].pc \in {"queued", "check", "claim"} => row[run[r].task][h] # "failed"

LEMMA ReadyRowsKept ==
    ASSUME TypeInv, DriverInv, Stepped, ReadyRows
    PROVE  ReadyRows'
<1> SUFFICES ASSUME NEW t \in Tasks, Ready(t)', NEW h \in Hosts, row'[t][h] = "failed"
             PROVE  FALSE
  BY DEF ReadyRows
<1>1. \A c \in Clients, p \in Procs : ~StartTask(c, p, t)
  BY DEF StartTask, TypeInv, TablesTyped
<1>2. ASSUME NEW c \in Clients, RetryResetsHosts(c), call[c].task = t
      PROVE  FALSE
  BY <1>2 DEF RetryResetsHosts, SetHosts, TypeInv, TablesTyped
<1>3. Ready(t)
  <2>1. ASSUME NEW c \in Clients, call'[c].task = t, call'[c].pc \in {"open", "spawn"}
        PROVE  Ready(t)
    <3>1. CallStep(c)
      BY DEF Stepped
    <3>2. ~(call[c].pc = "idle" /\ call'[c].pc = "open")
      BY <1>1, <2>1, <3>1 DEF CallStep
    <3>3. ~(RetryResetsHosts(c) /\ call'[c].task = call[c].task)
      BY <1>2, <2>1
    <3> QED BY <2>1, <3>1, <3>2, <3>3 DEF CallStep, Ready
  <2>2. ASSUME NEW r \in Runs, run'[r].task = t, run'[r].pc \in {"spawned", "boot"}
        PROVE  Ready(t)
    BY <2>2 DEF Stepped, RunMove, Ready
  <2> QED BY <2>1, <2>2 DEF Ready
<1>4. row[t][h] # "failed"
  BY <1>3 DEF ReadyRows
<1>5. PICK r \in Runs :
              /\ run[r].task = t /\ UNCHANGED call
              /\ \A q \in Runs : RunDrives(q, t) => q = r
              /\ \A c \in Clients : ~CallDrives(c, t)
              /\ \/ run[r].pc = "boot" /\ run' = [run EXCEPT ![r].pc = "failtask"]
                 \/ run[r].pc = "hosts" /\ worker[r][h].pc = "report" /\ UNCHANGED run
  BY <1>4, OnlyDriverFails
<1>6. PICK q \in Runs : run'[q].task = t /\ run'[q].pc \in {"spawned", "boot"}
  BY <1>5 DEF Ready, CallDrives
<1>7. run'[q] = run[q]
  BY <1>5, <1>6 DEF TypeInv, RunsTyped, Run
<1> QED BY <1>5, <1>6, <1>7 DEF RunDrives, TypeInv, RunsTyped, Run

LEMMA NotFailedKept ==
    ASSUME TypeInv, TypeInv', DriverInv, Stepped, ReadyRows, NotFailed, NoWorkerSettles, LeasesLast
    PROVE  NotFailed'
<1> SUFFICES ASSUME NEW r \in Runs, NEW h \in Hosts, worker'[r][h].pc \in {"queued", "check", "claim"},
                    row'[run'[r].task][h] = "failed"
             PROVE  FALSE
  BY DEF NotFailed
<1>1. PICK t \in Tasks : t = run'[r].task
  BY DEF TypeInv, WorkersTyped, RunsTyped
<1>2. CASE worker'[r][h] = worker[r][h] /\ (worker[r][h].pc # "idle" => run'[r].task = run[r].task)
  <2>1. run[r].task = t /\ run[r].pc = "hosts" /\ row[t][h] # "failed"
    BY <1>1, <1>2 DEF NotFailed, TypeInv, WorkersTyped
  <2>2. RunDrives(r, t) /\ worker[r][h].pc # "report"
    BY <1>2, <2>1 DEF RunDrives
  <2> QED BY <1>1, <2>1, <2>2, OnlyDriverFails
<1>3. CASE RunBoot(r)
  <2>1. Ready(t) /\ UNCHANGED row
    BY <1>1, <1>3 DEF RunBoot, RunGoto, Ready, TypeInv, RunsTyped, Run
  <2> QED BY <1>1, <2>1 DEF ReadyRows
<1>4. CASE WorkerOwn(r, h)
  <2>1. run[r].task = t
    BY <1>1, <1>4, WorkerKeepsStatus DEF WorkerOwn, DriverInv
  <2>2. CASE Enters(r, h)
    BY <1>1, <2>1, <2>2 DEF Enters, NotFailed
  <2>3. CASE Again(r, h)
    BY <1>1, <2>1, <2>3 DEF Again, Requeue, TypeInv, TablesTyped
  <2> QED BY <1>4, <2>2, <2>3, WorkerPhases DEF Leaves, Claims, Holds, Holding
<1> QED BY <1>2, <1>3, <1>4 DEF Stepped, WorkerTurn

(* A goroutine leaves a failed host behind when its attempts are used up or  *)
(* the task is canceled; a run that recomputes was not canceled.            *)
GaveUpAt(pc, t, h) ==
    \/ Exhausted(t, h) \/ status[t] = "deleted"
    \/ pc = "hosts" /\ status[t] = "cancel_requested"
Gone == {"hosts", "recompute", "active", "settle"}
GaveUp ==
    \A r \in Runs, h \in Hosts :
        /\ run[r].pc \in Gone /\ worker[r][h].pc = "idle"
        /\ row[run[r].task][h] = "failed"
        => GaveUpAt(run[r].pc, run[r].task, h)

LEMMA GaveUpKept ==
    ASSUME TypeInv, TypeInv', CkptInv, LedgerInv, NoWorkerSettles, DriverInv, AllRows, NoFailing, LeasesLast,
           [Next]_vars, Rounds, NotFailed, GaveUp
    PROVE  GaveUp'
<1> SUFFICES ASSUME NEW r \in Runs, NEW h \in Hosts, NEW t \in Tasks, t = run'[r].task,
                    run'[r].pc \in Gone, worker'[r][h].pc = "idle",
                    row'[t][h] = "failed"
             PROVE  Exhausted(t, h)' \/ status'[t] = "deleted"
                    \/ (run'[r].pc = "hosts" /\ status'[t] = "cancel_requested")
  BY DEF GaveUp, GaveUpAt, Gone, TypeInv, RunsTyped, Exhausted, ChargedAttempts
<1>1. Stepped
  BY NextSteps
<1>2. /\ Exhausted(t, h) => Exhausted(t, h)'
      /\ status[t] = "deleted" => status'[t] = "deleted"
  BY <1>1, SpentStays, DeletedStays
<1>3. CASE RunBoot(r)
  <2>1. run[r].task = t /\ UNCHANGED row
    BY <1>3 DEF RunBoot, RunGoto, TypeInv, RunsTyped, Run
  <2>2. h \notin TaskHosts(t)
    BY <1>3, <2>1 DEF RunBoot, QueuedWorker, Fresh, TypeInv, WorkersTyped
  <2> QED BY <2>1, <2>2 DEF TaskHosts
<1>4. CASE RunSettle(r) /\ run'[r].pc = "recompute"
  <2>1. run[r].task = t /\ run[r].pc = "hosts" /\ worker[r][h].pc = "idle" /\ UNCHANGED row
    BY <1>4 DEF RunSettle, RunGoto, TypeInv, RunsTyped, Run
  <2>2. status[t] # "cancel_requested"
    BY <1>4, <2>1 DEF RunSettle, RunGoto, CancelSought, TypeInv, RunsTyped, Run
  <2> QED BY <1>2, <2>1, <2>2 DEF GaveUp, GaveUpAt, Gone
<1>7. CASE /\ run[r].pc \in {"recompute", "active"} /\ run'[r].pc \in {"active", "settle"}
           /\ run'[r].task = run[r].task /\ UNCHANGED <<row, worker>>
  BY <1>2, <1>7 DEF GaveUp, GaveUpAt, Gone
<1>5. CASE run'[r].pc = run[r].pc /\ run'[r].task = run[r].task
  <2>1. RunDrives(r, t) /\ status[t] \in UnderWay /\ run[r].task = t
    BY <1>5 DEF Gone, RunDrives, DriverInv, Driven
  <2>2. \A q \in Runs : RunDrives(q, t) => q = r
    BY <2>1 DEF DriverInv, OneDriver
  <2>3. CASE worker[r][h].pc = "idle"
    <3>1. row[t][h] = "failed"
      <4>1. CASE row[t][h] # "failed"
        <5>1. \A q \in Runs : run' = [run EXCEPT ![q].pc = "failtask"] /\ q = r => run'[r].pc = "failtask"
          BY DEF TypeInv, RunsTyped, Run
        <5> QED BY <1>1, <1>5, <2>1, <2>2, <2>3, <4>1, <5>1, OnlyDriverFails DEF Gone
      <4> QED BY <4>1
    <3>2. GaveUpAt(run[r].pc, t, h)
      BY <1>5, <2>1, <2>3, <3>1 DEF GaveUp
    <3>3. CASE run[r].pc = "hosts" /\ status[t] = "cancel_requested"
      <4>1. StatusStep(t)
        BY <1>1 DEF Stepped
      <4>2. \A q \in Runs : run[q].task = t /\ run[q].pc \in {"failtask", "cancel", "settle"} => FALSE
        BY <2>2, <3>3 DEF RunDrives
      <4>3. status'[t] \in {"cancel_requested", "deleted"}
        BY <3>3, <4>1, <4>2 DEF StatusStep
      <4> QED BY <1>5, <3>3, <4>3
    <3> QED BY <1>2, <3>2, <3>3 DEF GaveUpAt
  <2>4. CASE worker[r][h].pc # "idle"
    <3>1. WorkerOwn(r, h) /\ run[r].pc = "hosts"
      BY <1>1, <1>5, <2>4 DEF Stepped, WorkerTurn, RunBoot, TypeInv, WorkersTyped
    <3>2. Leaves(r, h) /\ UNCHANGED status
      BY <3>1, WorkerPhases, WorkerKeepsStatus DEF Enters, Claims, Holds, Again, Holding, WorkerOwn, DriverInv
    <3>3. UNCHANGED row
      BY <3>2 DEF Leaves
    <3>4. CASE CancelSought(t)
      BY <1>5, <2>1, <3>1, <3>2, <3>4 DEF CancelSought, UnderWay
    <3>5. CASE worker[r][h].pc = "retry" /\ ~RetriesLeft(r, h)
      <4>1. RoundFits(worker[r][h], Charged(t, h)) /\ worker[r][h].round \in Nat
        BY <2>1 DEF Rounds, TypeInv, WorkersTyped, Worker
      <4>2. worker[r][h].round + 1 <= Charged(t, h) /\ worker[r][h].round + 1 >= AttemptMax
        BY <3>5, <4>1, DeployAssumption DEF RoundFits, RetriesLeft
      <4>3. Charged(t, h) \in Nat
        BY SpentStays
      <4>4. Exhausted(t, h)
        BY <4>1, <4>2, <4>3, DeployAssumption DEF Exhausted, Charged
      <4> QED BY <1>2, <4>4
    <3>6. CASE worker[r][h].pc \in {"queued", "check", "claim"}
      BY <2>1, <3>3, <3>6 DEF NotFailed
    <3> QED BY <2>1, <3>2, <3>3, <3>4, <3>5, <3>6 DEF Leaves
  <2> QED BY <2>3, <2>4
<1>6. RunMove(r)
  BY <1>1 DEF Stepped
<1> QED BY <1>3, <1>4, <1>5, <1>6, <1>7 DEF RunMove, Gone
-----------------------------------------------------------------------------
(* A cancellation that has still to skip its hosts.                         *)
SkipAt(c, t) == call[c].task = t /\ call[c].pc = "skip"
ResetAt(c, t) == call[c].task = t /\ call[c].pc = "reset"
AllSpent(t) == \A h \in Hosts : Spent(t, h)

SkipStatus ==
    \A t \in Tasks, c \in Clients : SkipAt(c, t) =>
        AllSpent(t) \/ status[t] \in {"cancel_requested", "canceled", "deleted"}
SkipOnce ==
    \A t \in Tasks, c, d \in Clients : SkipAt(c, t) /\ SkipAt(d, t) /\ c # d => AllSpent(t)
Skipped == {"cancel_requested", "canceled", "failed", "success"}
SkipRows ==
    \A t \in Tasks, h \in Hosts : row[t][h] = "skipped" =>
        \/ Spent(t, h)
        \/ status[t] \in Skipped /\ \A c \in Clients : ~SkipAt(c, t)
        \/ \E c \in Clients : ResetAt(c, t)
SkipInv == SkipStatus /\ SkipOnce /\ SkipRows

LEMMA NewSkip ==
    ASSUME TypeInv, DriverInv, AllRows, Stepped,
           NEW c \in Clients, NEW t \in Tasks, SkipAt(c, t)', ~SkipAt(c, t)
    PROVE  /\ status[t] = "running" /\ status'[t] = "cancel_requested"
           /\ \A d \in Clients : d # c => call'[d] = call[d]
<1>1. CallStep(c)
  BY DEF Stepped
<1>2. PICK p \in Procs : CancelTask(c, p, t)
  BY <1>1 DEF CallStep, SkipAt
<1>3. status[t] = "running"
  BY <1>2 DEF CancelTask, DriverInv, Calm, AllRows
<1> QED BY <1>2, <1>3 DEF CancelTask, Request, TypeInv, TablesTyped, CallsTyped

LEMMA SpentKept ==
    ASSUME TypeInv, TypeInv', CkptInv, DriverInv, LeasesLast, [Next]_vars, NEW t \in Tasks
    PROVE  /\ \A h \in Hosts : Spent(t, h) => Spent(t, h)'
           /\ AllSpent(t) => AllSpent(t)'
<1>1. \A h \in Hosts : Spent(t, h) => Spent(t, h)'
  BY SpentStays DEF Spent
<1> QED BY <1>1 DEF AllSpent

(* A run settles a task that is being canceled: what it counts is spent.    *)
LEMMA SettledIsSpent ==
    ASSUME TypeInv, DriverInv, AllRows, VerdictInv, RowFull, GaveUp, SkipRows, NEW t \in Tasks,
           status[t] # "deleted", NEW r \in Runs, run[r].pc = "settle", run[r].task = t,
           NEW c \in Clients, SkipAt(c, t)
    PROVE  AllSpent(t)
<1>1. RunDrives(r, t) /\ \A d \in Clients : ~ResetAt(d, t)
  BY DEF DriverInv, OneDriver, RunDrives, CallDrives, ResetAt
<1>2. status[t] \notin Bare
  BY <1>1 DEF DriverInv, Driven, UnderWay, Bare
<1>3. ASSUME NEW h \in Hosts
      PROVE  Spent(t, h)
  <2>1. row[t][h] \in DoneHosts
    <3>1. row[t][h] \notin {"none", "running"}
      BY <1>2 DEF AllRows, VerdictInv, Judging
    <3> QED BY <3>1 DEF TypeInv, TablesTyped, HostStatuses, DoneHosts
  <2>2. CASE row[t][h] = "success"
    BY <2>2 DEF RowFull, Spent, Full
  <2>3. CASE row[t][h] = "failed"
    <3>1. worker[r][h].pc = "idle"
      BY DEF TypeInv, WorkersTyped
    <3> QED BY <2>3, <3>1 DEF GaveUp, GaveUpAt, Gone, Spent
  <2>4. CASE row[t][h] = "skipped"
    BY <1>1, <2>4 DEF SkipRows
  <2> QED BY <2>1, <2>2, <2>3, <2>4 DEF DoneHosts
<1> QED BY <1>3 DEF AllSpent

LEMMA SkipStatusKept ==
    ASSUME TypeInv, TypeInv', CkptInv, DriverInv, AllRows, VerdictInv, RowFull, GaveUp, SkipInv, LeasesLast,
           Stepped, [Next]_vars
    PROVE  SkipStatus' /\ SkipOnce'
<1>1. ASSUME NEW t \in Tasks, NEW c \in Clients, SkipAt(c, t)'
      PROVE  AllSpent(t)' \/ status'[t] \in {"cancel_requested", "canceled", "deleted"}
  <2>1. CASE ~SkipAt(c, t)
    BY <1>1, <2>1, NewSkip
  <2>2. CASE AllSpent(t)
    BY <2>2, SpentKept
  <2>3. CASE SkipAt(c, t) /\ status[t] \in {"cancel_requested", "canceled", "deleted"}
    <3>1. StatusStep(t)
      BY DEF Stepped
    <3>2. CASE \E r \in Runs : run[r].pc = "settle" /\ run[r].task = t /\ status[t] # "deleted"
      BY <2>3, <3>2, SettledIsSpent, SpentKept DEF SkipInv
    <3> QED BY <2>3, <3>1, <3>2 DEF StatusStep
  <2> QED BY <2>1, <2>2, <2>3 DEF SkipInv, SkipStatus
<1>2. ASSUME NEW t \in Tasks, NEW c \in Clients, NEW d \in Clients, SkipAt(c, t)', SkipAt(d, t)', c # d
      PROVE  AllSpent(t)'
  <2>1. CASE SkipAt(c, t) /\ SkipAt(d, t)
    BY <1>2, <2>1, SpentKept DEF SkipInv, SkipOnce
  <2>2. ASSUME NEW a \in Clients, NEW b \in Clients, a # b, SkipAt(a, t)', SkipAt(b, t)', ~SkipAt(a, t)
        PROVE  AllSpent(t)'
    <3>1. status[t] = "running" /\ call'[b] = call[b]
      BY <2>2, NewSkip
    <3>2. AllSpent(t)
      BY <2>2, <3>1 DEF SkipInv, SkipStatus, SkipAt
    <3> QED BY <3>2, SpentKept
  <2> QED BY <1>2, <2>1, <2>2
<1>3. SkipStatus'
  BY <1>1 DEF SkipStatus
<1>4. SkipOnce'
  BY <1>2 DEF SkipOnce
<1> QED BY <1>3, <1>4

LEMMA RowSkips ==
    ASSUME TypeInv, Stepped, NEW t \in Tasks, NEW h \in Hosts, row'[t][h] = "skipped", row[t][h] # "skipped"
    PROVE  \E c \in Clients : CancelSkipsHosts(c) /\ call[c].task = t /\ row[t][h] = "running"
<1>1. RowStep(t)
  BY DEF Stepped
<1>2. ASSUME NEW c \in Clients, RetryResetsHosts(c), call[c].task = t
      PROVE  FALSE
  BY <1>2 DEF RetryResetsHosts, SetHosts, TypeInv, TablesTyped
<1>3. ASSUME NEW r \in Runs, FailQueuedTask(r), run[r].task = t
      PROVE  FALSE
  BY <1>3 DEF FailQueuedTask, SetHosts, TypeInv, TablesTyped
<1>4. ASSUME NEW r \in Runs, NEW g \in Hosts, WorkerReport(r, g) \/ Requeue(r, g), run[r].task = t
      PROVE  FALSE
  <2>1. CASE WorkerReport(r, g)
    <3>1. worker[r][g].res # "skipped"
      BY DEF TypeInv, WorkersTyped, Worker, Outcomes
    <3> QED BY <1>4, <2>1, <3>1 DEF WorkerReport, TypeInv, TablesTyped
  <2>2. CASE Requeue(r, g)
    BY <1>4, <2>2 DEF Requeue, TypeInv, TablesTyped
  <2> QED BY <1>4, <2>1, <2>2
<1>5. ASSUME NEW c \in Clients, CancelSkipsHosts(c), call[c].task = t
      PROVE  row[t][h] = "running"
  BY <1>5 DEF CancelSkipsHosts, SetHosts, TypeInv, TablesTyped
<1> QED BY <1>1, <1>2, <1>3, <1>4, <1>5 DEF RowStep

LEMMA SkipRowsKept ==
    ASSUME TypeInv, TypeInv', CkptInv, DriverInv, RowsFit, RowsFit', AllRows, SkipInv, LeasesLast,
           Stepped, [Next]_vars
    PROVE  SkipRows'
<1> SUFFICES ASSUME NEW t \in Tasks, NEW h \in Hosts, row'[t][h] = "skipped"
             PROVE  \/ Spent(t, h)'
                    \/ status'[t] \in Skipped /\ \A c \in Clients : ~SkipAt(c, t)'
                    \/ \E c \in Clients : ResetAt(c, t)'
  BY DEF SkipRows
<1>1. CASE row[t][h] # "skipped"
  <2>1. PICK c \in Clients : CancelSkipsHosts(c) /\ call[c].task = t /\ row[t][h] = "running"
    BY <1>1, RowSkips
  <2>2. SkipAt(c, t) /\ UNCHANGED status
    BY <2>1 DEF CancelSkipsHosts, SkipAt, At
  <2>3. CASE AllSpent(t)
    BY <2>3, SpentKept DEF AllSpent
  <2>4. CASE ~AllSpent(t)
    <3>1. status[t] \in {"cancel_requested", "canceled"}
      BY <2>1, <2>2, <2>4 DEF SkipInv, SkipStatus, RowsFit, Bare
    <3>2. \A d \in Clients : d # c => ~SkipAt(d, t)
      BY <2>2, <2>4 DEF SkipInv, SkipOnce
    <3>3. \A d \in Clients : ~SkipAt(d, t)'
      BY <2>1, <3>2 DEF CancelSkipsHosts, Goto, SkipAt, TypeInv, CallsTyped
    <3> QED BY <2>2, <3>1, <3>3 DEF Skipped
  <2> QED BY <2>3, <2>4
<1>2. CASE row[t][h] = "skipped"
  <2>1. CASE Spent(t, h)
    BY <2>1, SpentKept
  <2>2. ASSUME NEW c \in Clients, ResetAt(c, t)
        PROVE  ResetAt(c, t)'
    <3>1. CallStep(c)
      BY DEF Stepped
    <3>2. ASSUME RetryResetsHosts(c)
          PROVE  FALSE
      <4>1. call[c].task = t
        BY <2>2 DEF ResetAt
      <4> QED BY <1>2, <3>2, <4>1 DEF RetryResetsHosts, SetHosts, TypeInv, TablesTyped
    <3> QED BY <2>2, <3>1, <3>2 DEF CallStep, ResetAt
  <2>3. CASE status[t] \in Skipped /\ \A c \in Clients : ~SkipAt(c, t)
    <3>1. \A c \in Clients : ~SkipAt(c, t)'
      BY <2>3, NewSkip DEF Skipped
    <3>2. status'[t] # "deleted"
      BY DEF RowsFit, Bare
    <3>3. ~\A g \in Hosts : row'[t][g] = "running"
      OBVIOUS
    <3>4. StatusStep(t)
      BY DEF Stepped
    <3>5. CASE \E c \in Clients : call'[c].pc = "reset" /\ call'[c].task = t
      BY <3>5 DEF ResetAt
    <3>6. \A r \in Runs : run[r].pc = "settle" => run[r].res \in Skipped
      BY DEF TypeInv, RunsTyped, Judging, FinalStatuses, Skipped
    <3>7. status'[t] \in Skipped \/ \E c \in Clients : call'[c].pc = "reset" /\ call'[c].task = t
      BY <2>3, <3>2, <3>3, <3>4, <3>6 DEF StatusStep, Skipped
    <3> QED BY <3>1, <3>5, <3>7
  <2> QED BY <1>2, <2>1, <2>2, <2>3 DEF SkipInv, SkipRows
<1> QED BY <1>1, <1>2
-----------------------------------------------------------------------------
(* A host goroutine has the lease of its host, or no work left there, or    *)
(* will find that the task is canceled or gone before it claims an attempt. *)
LeaseFits(w, t, h) ==
    \/ lease[h] = Leased(t)
    \/ Full(t, h)
    \/ w.pc \in {"queued", "check", "claim", "retry"} /\ Exhausted(t, h)
    \/ w.pc \in {"queued", "claim"} /\ status[t] = "deleted"
    \/ w.pc = "queued" /\ status[t] = "cancel_requested"
Leases ==
    \A r \in Runs, h \in Hosts :
        worker[r][h].pc # "idle" => LeaseFits(worker[r][h], run[r].task, h)

LEMMA LeaseStays ==
    ASSUME TypeInv, DriverInv, Stepped, NEW r \in Runs, NEW h \in Hosts, NEW t \in Tasks,
           t = run[r].task, worker[r][h].pc # "idle", lease[h] = Leased(t)
    PROVE  lease'[h] = Leased(t)
<1>1. RunDrives(r, t) /\ \A q \in Runs : RunDrives(q, t) => q = r
  BY DEF TypeInv, WorkersTyped, RunDrives, DriverInv, OneDriver
<1>2. LeaseStep(h) /\ lease[h].task = t /\ lease[h].live
  BY DEF Stepped, Leased
<1>3. ASSUME NEW q \in Runs, RunSettle(q), lease[h].task = run[q].task
      PROVE  FALSE
  <2>1. RunDrives(q, t) /\ worker[q][h].pc = "idle"
    BY <1>2, <1>3 DEF RunSettle, RunDrives
  <2> QED BY <1>1, <2>1
<1> QED BY <1>2, <1>3 DEF LeaseStep, HeldByOther

LEMMA LeasesKept ==
    ASSUME TypeInv, TypeInv', CkptInv, NoWorkerSettles, DriverInv, RowsFit, AllRows, RowFull, LeasesLast,
           ReadyRows, SkipInv, Leases, Stepped, [Next]_vars
    PROVE  Leases'
<1> SUFFICES ASSUME NEW r \in Runs, NEW h \in Hosts, worker'[r][h].pc # "idle"
             PROVE  LeaseFits(worker[r][h], run[r].task, h)'
  BY DEF Leases
<1> PICK t \in Tasks : t = run'[r].task
  BY DEF TypeInv, RunsTyped, WorkersTyped
<1> DEFINE Fits == \/ lease'[h] = Leased(t)
                   \/ Full(t, h)'
                   \/ worker'[r][h].pc \in {"queued", "check", "claim", "retry"} /\ Exhausted(t, h)'
                   \/ worker'[r][h].pc \in {"queued", "claim"} /\ status'[t] = "deleted"
                   \/ worker'[r][h].pc = "queued" /\ status'[t] = "cancel_requested"
<1> SUFFICES Fits
  BY DEF LeaseFits, Full, Exhausted, ChargedAttempts
<1>1. /\ Full(t, h) => Full(t, h)'
      /\ Exhausted(t, h) => Exhausted(t, h)'
      /\ status[t] = "deleted" => status'[t] = "deleted"
  BY SpentStays, DeletedStays
<1>2. CASE worker'[r][h] = worker[r][h] /\ (worker[r][h].pc # "idle" => run'[r].task = run[r].task)
  <2>1. run[r].task = t /\ LeaseFits(worker[r][h], t, h)
    BY <1>2 DEF Leases
  <2>2. RunDrives(r, t) /\ run[r].pc = "hosts" /\ \A q \in Runs : RunDrives(q, t) => q = r
    BY <1>2, <2>1 DEF TypeInv, WorkersTyped, RunDrives, DriverInv, OneDriver
  <2>3. status[t] = "cancel_requested" => status'[t] \in {"cancel_requested", "deleted"}
    <3>1. StatusStep(t)
      BY DEF Stepped
    <3>2. \A q \in Runs : ~(run[q].task = t /\ run[q].pc \in {"failtask", "cancel", "settle"})
      BY <2>2 DEF RunDrives
    <3> QED BY <3>1, <3>2 DEF StatusStep
  <2> QED BY <1>1, <1>2, <2>1, <2>3, LeaseStays DEF LeaseFits
<1>3. CASE RunBoot(r)
  <2>1. run[r].task = t /\ run[r].pc = "boot" /\ status[t] # "deleted" /\ UNCHANGED <<row, status>>
    BY <1>3 DEF RunBoot, RunGoto, TypeInv, RunsTyped, Run
  <2>2. worker'[r][h].pc = "queued" /\ row[t][h] # "none"
    BY <1>3, <2>1 DEF RunBoot, QueuedWorker, IdleWorker, Fresh, TaskHosts, TypeInv, WorkersTyped
  <2>3. RunDrives(r, t) /\ status[t] \in {"running", "cancel_requested"}
    BY <2>1 DEF RunDrives, DriverInv, Driven, UnderWay
  <2>4. row[t][h] # "failed"
    BY <2>1 DEF Ready, ReadyRows
  <2>5. CASE row[t][h] = "running"
    BY <1>3, <2>1, <2>5 DEF RunBoot, AcquireLeases, OpenHosts
  <2>6. CASE row[t][h] = "success"
    BY <1>1, <2>6 DEF RowFull, Full
  <2>7. CASE row[t][h] = "skipped"
    <3>1. \A c \in Clients : ~ResetAt(c, t)
      BY <2>3 DEF DriverInv, OneDriver, CallDrives, ResetAt
    <3>2. Spent(t, h) \/ status[t] = "cancel_requested"
      BY <2>3, <2>7, <3>1 DEF SkipInv, SkipRows, Skipped
    <3> QED BY <1>1, <2>1, <2>2, <3>2 DEF Spent
  <2> QED BY <2>2, <2>4, <2>5, <2>6, <2>7 DEF TypeInv, TablesTyped, HostStatuses
<1>4. CASE WorkerOwn(r, h)
  <2>1. run[r].task = t /\ UNCHANGED status
    BY <1>4, WorkerKeepsStatus DEF WorkerOwn, DriverInv
  <2>2. worker[r][h].pc # "idle"
    BY <1>4, WorkerPhases DEF Leaves, Enters, Claims, Holds, Again, Holding
  <2>3. LeaseFits(worker[r][h], t, h) /\ (lease[h] = Leased(t) => lease'[h] = Leased(t))
    BY <2>1, <2>2, LeaseStays DEF Leases
  <2>4. CASE Enters(r, h)
    BY <1>1, <2>1, <2>3, <2>4 DEF Enters, LeaseFits, Interrupted, CancelSought
  <2>5. CASE Claims(r, h)
    <3>1. row[t][h] # "none" /\ Cardinality(ChargedAttempts(t, h)) < AttemptMax
      BY <2>1, <2>5 DEF Claims, WorkerClaim, Claimable
    <3>2. status[t] # "deleted" /\ ~Exhausted(t, h)
      BY <3>1, ChargedFinite, DeployAssumption DEF RowsFit, Bare, Exhausted
    <3> QED BY <1>1, <2>3, <2>5, <3>2 DEF Claims, LeaseFits
  <2>6. CASE Holds(r, h)
    BY <1>1, <2>3, <2>6 DEF Holds, Holding, LeaseFits
  <2>7. CASE Again(r, h)
    BY <1>1, <2>3, <2>7 DEF Again, LeaseFits
  <2> QED BY <1>4, <2>4, <2>5, <2>6, <2>7, WorkerPhases DEF Leaves
<1> QED BY <1>2, <1>3, <1>4 DEF Stepped, WorkerTurn
-----------------------------------------------------------------------------
LeaseInv == NoFailing /\ Rounds /\ ReadyRows /\ NotFailed /\ GaveUp /\ SkipInv /\ Leases

LEMMA LeaseInvHolds ==
    ASSUME LeasesLast
    PROVE  Spec => []LeaseInv
<1>0. Undisturbed /\ "attemptExpiry" \notin Events /\ "report" \notin Events
  BY DEF LeasesLast, Undisturbed
<1>1. Init => LeaseInv
  <2> SUFFICES ASSUME Init
               PROVE  LeaseInv
    OBVIOUS
  <2>1. \A r \in Runs, h \in Hosts : run[r].pc = "idle" /\ worker[r][h].pc = "idle"
    BY DEF Init, IdleRun, IdleWorker, Fresh
  <2>2. \A c \in Clients : call[c].pc = "idle"
    BY DEF Init, NoCall
  <2>3. \A t \in Tasks, h \in Hosts : row[t][h] = "none"
    BY DEF Init
  <2> QED BY <2>1, <2>2, <2>3 DEF LeaseInv, NoFailing, Rounds, RoundFits, ReadyRows, Ready, NotFailed, GaveUp, Gone,
          SkipInv, SkipStatus, SkipOnce, SkipRows, SkipAt, Leases
<1>2. /\ TypeInv /\ TypeInv' /\ LedgerInv /\ NoWorkerSettles /\ OneWorkerPerHost /\ NoStepRepeated
      /\ DriverInv /\ VerdictInv /\ RowsFit /\ RowsFit' /\ AllRows /\ RowFull /\ LeaseInv /\ [Next]_vars
      => LeaseInv'
  <2> SUFFICES ASSUME TypeInv, TypeInv', LedgerInv, CkptInv, DriverInv,
                      NoWorkerSettles, VerdictInv, RowsFit, RowsFit', AllRows, RowFull, LeaseInv, [Next]_vars
               PROVE  LeaseInv'
    BY DEF CkptInv
  <2>1. Stepped
    BY NextSteps DEF LeaseInv
  <2>6. NoFailing'
    BY <2>1 DEF Stepped, CallStep, NoFailing, LeaseInv
  <2>2. Rounds' /\ ReadyRows' /\ NotFailed'
    BY <2>1, RoundsKept, ReadyRowsKept, NotFailedKept DEF LeaseInv
  <2>3. GaveUp'
    BY GaveUpKept DEF LeaseInv
  <2>4. SkipStatus' /\ SkipOnce' /\ SkipRows'
    BY <2>1, SkipStatusKept, SkipRowsKept DEF LeaseInv
  <2>5. Leases'
    BY <2>1, LeasesKept DEF LeaseInv
  <2> QED BY <2>2, <2>3, <2>4, <2>5, <2>6 DEF LeaseInv, SkipInv
<1> QED BY <1>0, <1>1, <1>2, TypeCorrect, LedgerCorrect, OneWorkerPerHostHolds, NoStepRepeatedHolds,
        NoWorkerSettlesHolds, DriverHolds, VerdictHolds, RowsHold, RowFullHolds, PTL DEF Spec

(* ensureTaskHostLeases, releaseInactiveTaskHostLeases: a script runs only   *)
(* under the lease of its host.                                              *)
THEOREM ScriptHoldsLeaseHolds ==
    ASSUME LeasesLast
    PROVE  Spec => []ScriptHoldsLease
<1>0. "attemptExpiry" \notin Events
  BY DEF LeasesLast, Undisturbed
<1>1. TypeInv /\ NoStepRepeated /\ LeaseInv => ScriptHoldsLease
  <2> SUFFICES ASSUME TypeInv, NoStepRepeated, LeaseInv, NEW r \in Runs, NEW h \in Hosts, InScript(r, h)
               PROVE  lease[h] = Leased(run[r].task)
    BY DEF ScriptHoldsLease
  <2>1. worker[r][h].step \in 1..Steps
    BY DeployAssumption DEF TypeInv, WorkersTyped, WorkerFit, InScript
  <2>2. ~Full(run[r].task, h)
    BY <2>1 DEF NoStepRepeated, Full
  <2> QED BY <2>2 DEF LeaseInv, Leases, LeaseFits, InScript
<1> QED BY <1>0, <1>1, TypeCorrect, NoStepRepeatedHolds, LeaseInvHolds, PTL

(* biz_deploy_host_lease: two tasks never run scripts on one host at a time. *)
THEOREM OneTaskPerHostHolds ==
    ASSUME LeasesLast
    PROVE  Spec => []OneTaskPerHost
<1>1. ScriptHoldsLease => OneTaskPerHost
  <2>1. \A t, u : Leased(t) = Leased(u) => t = u
    BY DEF Leased
  <2> QED BY <2>1 DEF ScriptHoldsLease, OneTaskPerHost
<1> QED BY <1>1, ScriptHoldsLeaseHolds, PTL
=============================================================================
