---------------------------- MODULE DeployWorker -----------------------------
(***************************************************************************)
(* The asynchronous executor: runAsyncTask (one goroutine per task and     *)
(* process, guarded by taskWorkers), runAsyncTaskHost (one goroutine per   *)
(* host), the plan steps it runs over SSH, and the recovery of a process   *)
(* that restarts (ReconcileDeployQueue).                                   *)
(*                                                                         *)
(* A step is one action between two database statements that another       *)
(* goroutine's statement can come between and matter.                      *)
(***************************************************************************)
EXTENDS DeployState

RunGoto(r, pc) == run' = [run EXCEPT ![r].pc = pc]
SetWorker(r, h, w) == worker' = [worker EXCEPT ![r][h] = w]
WorkerGoto(r, h, pc) == SetWorker(r, h, [worker[r][h] EXCEPT !.pc = pc])
WorkerExit(r, h) == SetWorker(r, h, IdleWorker)
Outcome(r, h, pc, res) == SetWorker(r, h, [worker[r][h] EXCEPT !.pc = pc, !.res = res])
WorkerAt(r, h, pc) == run[r].pc = "hosts" /\ worker[r][h].pc = pc
-----------------------------------------------------------------------------
(* taskWorkers.LoadOrStore found another worker of this process.             *)
RunDropped(r) ==
    /\ run[r].pc = "spawned" /\ Loaded(run[r].proc, run[r].task) # {}
    /\ run' = [run EXCEPT ![r] = IdleRun]
    /\ UNCHANGED <<status, row, attempts, lease, ckpt, up, call, worker, events>>

RunBegin(r) ==
    /\ run[r].pc = "spawned" /\ Loaded(run[r].proc, run[r].task) = {}
    /\ RunGoto(r, "boot")
    /\ ReapAttempts
    /\ UNCHANGED <<status, row, lease, ckpt, up, call, worker, events>>

OpenHosts(t) == {h \in Hosts : row[t][h] = "running"}

(* failQueuedTask: the credential changed or a host is leased by another     *)
(* task.  The hosts fail first, then the task; the leases stay as they are.  *)
FailQueuedTask(r) ==
    /\ SetHosts(run[r].task, {"running"}, "failed")
    /\ RunGoto(r, "failtask")
    /\ UNCHANGED <<status, attempts, lease, ckpt, up, call, worker>>

RunFailsTask(r) ==
    /\ run[r].pc = "failtask"
    /\ SetStatus(run[r].task, {"running"}, "failed")
    /\ RunGoto(r, "exit")
    /\ UNCHANGED <<row, attempts, lease, ckpt, up, call, worker, events>>

RunCredentialFails(r) ==
    /\ run[r].pc = "boot" /\ status[run[r].task] # "deleted"
    /\ run[r].task \in SshTasks /\ Event("credential")
    /\ FailQueuedTask(r)

RunLeaseConflict(r) ==
    /\ run[r].pc = "boot" /\ status[run[r].task] # "deleted"
    /\ \E h \in OpenHosts(run[r].task) : HeldByOther(h, run[r].task)
    /\ FailQueuedTask(r)
    /\ UNCHANGED events

RunTaskGone(r) ==
    /\ run[r].pc = "boot" /\ status[run[r].task] = "deleted"
    /\ RunGoto(r, "exit")
    /\ UNCHANGED <<status, row, attempts, lease, ckpt, up, call, worker, events>>

(* ensureTaskHostLeases, then the host goroutines.                           *)
RunBoot(r) ==
    LET t == run[r].task IN
    /\ run[r].pc = "boot" /\ status[t] # "deleted"
    /\ \A h \in OpenHosts(t) : ~HeldByOther(h, t)
    /\ AcquireLeases(t, OpenHosts(t))
    /\ RunGoto(r, "hosts")
    /\ worker' = [worker EXCEPT ![r] =
                    [h \in Hosts |-> IF h \in TaskHosts(t) THEN QueuedWorker ELSE IdleWorker]]
    /\ UNCHANGED <<status, row, attempts, ckpt, up, call, events>>

(* Mutant: a canceled run ends as a suspended one does.                     *)
SettleWithoutCancel(r) ==
    LET t == run[r].task IN
    /\ run[r].pc = "hosts" /\ \A h \in Hosts : worker[r][h].pc = "idle"
    /\ ReleaseLeases(t, Unclaimed(t, Hosts))
    /\ RunGoto(r, IF Interrupted(t) THEN "exit" ELSE "recompute")
    /\ UNCHANGED <<status, row, attempts, ckpt, up, call, worker, events>>

(* Every host goroutine has returned: releaseInactiveTaskHostLeases, then    *)
(* the task row decides how the run ends.                                    *)
RunSettle(r) ==
    LET t == run[r].task IN
    /\ run[r].pc = "hosts" /\ \A h \in Hosts : worker[r][h].pc = "idle"
    /\ ReleaseLeases(t, Unclaimed(t, Hosts))
    /\ RunGoto(r, IF CancelSought(t) THEN "cancel"
                  ELSE IF Suspended(t) THEN "exit" ELSE "recompute")
    /\ UNCHANGED <<status, row, attempts, ckpt, up, call, worker, events>>

(* finalizeTaskCancellation.                                                 *)
RunCancel(r) ==
    /\ run[r].pc = "cancel"
    /\ SetStatus(run[r].task, {"cancel_requested"}, "canceled")
    /\ RunGoto(r, "exit")
    /\ UNCHANGED <<row, attempts, lease, ckpt, up, call, worker, events>>

(* recomputeTaskStatus in its three statements.                              *)
RunReadsHosts(r) ==
    LET t == run[r].task IN
    /\ run[r].pc = "recompute"
    /\ run' = [run EXCEPT ![r].pc = AfterHosts(t, "exit"), ![r].res = TerminalTaskStatus(t)]
    /\ UNCHANGED <<status, row, attempts, lease, ckpt, up, call, worker, events>>

RunReadsAttempts(r) ==
    /\ run[r].pc = "active"
    /\ RunGoto(r, AfterAttempts(run[r].task, "exit"))
    /\ UNCHANGED <<status, row, attempts, lease, ckpt, up, call, worker, events>>

RunSettles(r) ==
    /\ run[r].pc = "settle"
    /\ Overwrite(run[r].task, run[r].res)
    /\ RunGoto(r, "exit")
    /\ UNCHANGED <<row, attempts, lease, ckpt, up, call, worker, events>>

(* The deferred taskCancels.Delete and taskWorkers.Delete.                   *)
RunExit(r) ==
    /\ run[r].pc = "exit"
    /\ run' = [run EXCEPT ![r] = IdleRun]
    /\ UNCHANGED <<status, row, attempts, lease, ckpt, up, call, worker, events>>
-----------------------------------------------------------------------------
Busy(r) == {h \in Hosts : worker[r][h].pc \notin {"idle", "queued"}}

(* The head of the attempt loop, entered through the semaphore.              *)
WorkerCheck(r, h) ==
    /\ \/ WorkerAt(r, h, "check")
       \/ WorkerAt(r, h, "queued") /\ Cardinality(Busy(r)) < MaxParallel
    /\ IF Interrupted(run[r].task) THEN WorkerExit(r, h) ELSE WorkerGoto(r, h, "claim")
    /\ UNCHANGED <<status, row, attempts, lease, ckpt, up, call, run, events>>

(* The host loop breaks, or the context ends the wait for the semaphore.     *)
WorkerSkip(r, h) ==
    /\ WorkerAt(r, h, "queued")
    /\ run[r].killed \/ Interrupted(run[r].task)
    /\ WorkerExit(r, h)
    /\ UNCHANGED <<status, row, attempts, lease, ckpt, up, call, run, events>>

(* Mutants: a claim beside a live one; one attempt too many.                *)
ClaimableTwice(t, h) ==
    row[t][h] # "none" /\ Cardinality(ChargedAttempts(t, h)) < AttemptMax
ClaimableOnceMore(t, h) ==
    /\ row[t][h] # "none" /\ LiveAttempts(t, h) = {}
    /\ Cardinality(ChargedAttempts(t, h)) <= AttemptMax

(* claimAttempt, a transaction under a lock on the host row.                 *)
Claimable(t, h) ==
    /\ row[t][h] # "none"
    /\ LiveAttempts(t, h) = {}
    /\ Cardinality(ChargedAttempts(t, h)) < AttemptMax

(* Mutant: an expired claim is taken over in place of a new attempt.        *)
ClaimTakesOver(r, h) ==
    LET t == run[r].task
        n == Len(attempts[t][h])
        again == n > 0 /\ attempts[t][h][n].status = "running"
    IN  /\ WorkerAt(r, h, "claim") /\ Claimable(t, h) /\ n < MaxAttempts
        /\ attempts' = [attempts EXCEPT ![t][h] =
                          (IF again THEN SubSeq(@, 1, n - 1) ELSE @)
                             \o <<[status |-> "running", live |-> TRUE]>>]
        /\ SetWorker(r, h, Claimed(worker[r][h].round, IF again THEN n ELSE n + 1))
        /\ UNCHANGED <<status, row, lease, ckpt, up, call, run, events>>

WorkerClaim(r, h) ==
    LET t == run[r].task IN
    /\ WorkerAt(r, h, "claim") /\ Claimable(t, h)
    /\ Len(attempts[t][h]) < MaxAttempts
    /\ attempts' = [attempts EXCEPT ![t][h] = Append(@, [status |-> "running", live |-> TRUE])]
    /\ SetWorker(r, h, Claimed(worker[r][h].round, Len(attempts[t][h]) + 1))
    /\ UNCHANGED <<status, row, lease, ckpt, up, call, run, events>>

WorkerClaimRefused(r, h) ==
    /\ WorkerAt(r, h, "claim") /\ ~Claimable(run[r].task, h)
    /\ WorkerExit(r, h)
    /\ UNCHANGED <<status, row, attempts, lease, ckpt, up, call, run, events>>
-----------------------------------------------------------------------------
(* The SSH runner never came up; a task that is not SSH has no credential    *)
(* and can only end here.                                                    *)
ConnectFails(r, h) ==
    /\ WorkerAt(r, h, "exec") /\ worker[r][h].step = 1 /\ worker[r][h].res = "none"
    /\ \/ run[r].task \notin SshTasks /\ UNCHANGED events
       \/ Event("connect")
    /\ Outcome(r, h, "report", "failed")
    /\ UNCHANGED <<status, row, attempts, lease, ckpt, up, call, run>>

(* Mutant: the loop does not look at the checkpoints.                       *)
NextStepAfresh(r, h) ==
    LET w == worker[r][h] IN
    /\ WorkerAt(r, h, "exec") /\ run[r].task \in SshTasks
    /\ IF w.step > Steps
       THEN IF w.res = "canceled" THEN WorkerGoto(r, h, "interrupt")
                                  ELSE Outcome(r, h, "report", "success")
       ELSE WorkerGoto(r, h, IF run[r].killed THEN "interrupt" ELSE "script")
    /\ UNCHANGED <<status, row, attempts, lease, ckpt, up, call, run, events>>

(* One turn of the RunHostSteps loop up to the script of the next step.  The *)
(* steps form a chain here; conditions and policies are DeployPlan's.        *)
NextStep(r, h) ==
    LET w == worker[r][h] IN
    /\ WorkerAt(r, h, "exec") /\ run[r].task \in SshTasks
    /\ IF w.step > Steps
       THEN IF w.res = "canceled" THEN WorkerGoto(r, h, "interrupt")
                                  ELSE Outcome(r, h, "report", "success")
       ELSE IF run[r].killed THEN WorkerGoto(r, h, "interrupt")
       ELSE IF w.step \in ckpt[run[r].task][h]
       THEN SetWorker(r, h, [w EXCEPT !.step = @ + 1])
       ELSE WorkerGoto(r, h, "script")
    /\ UNCHANGED <<status, row, attempts, lease, ckpt, up, call, run, events>>

StepSucceeds(r, h) ==
    /\ WorkerAt(r, h, "script")
    /\ ckpt' = [ckpt EXCEPT ![run[r].task][h] = @ \cup {worker[r][h].step}]
    /\ SetWorker(r, h, [worker[r][h] EXCEPT !.pc = "exec", !.step = @ + 1])
    /\ UNCHANGED <<status, row, attempts, lease, up, call, run, events>>

(* Mutant: a stopped step clears the checkpoints of the whole host.         *)
StopClearsHost(r, h) ==
    /\ WorkerAt(r, h, "script") /\ Event("script")
    /\ ckpt' = [ckpt EXCEPT ![run[r].task][h] = {}]
    /\ Outcome(r, h, "report", "failed")
    /\ UNCHANGED <<status, row, attempts, lease, up, call, run>>

(* The script stopped: on its own, or because the context was canceled.  A   *)
(* canceled step does not end the loop, only the context does.               *)
StepStops(r, h) ==
    LET t == run[r].task
        w == worker[r][h]
        canceled == Suspended(t) \/ status[t] = "canceled" \/ run[r].killed
    IN  /\ WorkerAt(r, h, "script")
        /\ (run[r].killed /\ UNCHANGED events) \/ Event("script")
        /\ ckpt' = [ckpt EXCEPT ![t][h] = @ \ {w.step}]
        /\ SetWorker(r, h, IF canceled
                            THEN [w EXCEPT !.pc = "exec", !.step = @ + 1, !.res = "canceled"]
                            ELSE [w EXCEPT !.pc = "report", !.res = "failed"])
        /\ UNCHANGED <<status, row, attempts, lease, up, call, run>>

(* interruptOrchestratedHost and pauseTaskAfterSuspend.                      *)
Interrupt(r, h) ==
    LET t == run[r].task IN
    /\ WorkerAt(r, h, "interrupt")
    /\ SetStatus(t, {"pause_requested"}, "paused")
    /\ IF Interrupted(t) THEN Outcome(r, h, "finish", "none")
                         ELSE Outcome(r, h, "report", "failed")
    /\ UNCHANGED <<row, attempts, lease, ckpt, up, call, run, events>>
-----------------------------------------------------------------------------
(* finalizeTaskHostExecution calls MarkHostResult: the first result of the   *)
(* host wins, a different one later is an error.                             *)
WorkerReport(r, h) ==
    LET t == run[r].task
        res == worker[r][h].res
    IN  /\ WorkerAt(r, h, "report")
        /\ row' = IF row[t][h] = "running" THEN [row EXCEPT ![t][h] = res] ELSE row
        /\ IF row[t][h] = "running" THEN WorkerGoto(r, h, "finalize")
           ELSE Outcome(r, h, "finish",
                        IF row[t][h] = res THEN "none" ELSE "error")
        /\ UNCHANGED <<status, attempts, lease, ckpt, up, call, run, events>>

(* finalizeMarkedHostResult, called by the goroutine: recomputeTaskStatus in *)
(* its three statements, then the task is read again.                        *)
WorkerReadsHosts(r, h) ==
    LET t == run[r].task IN
    /\ WorkerAt(r, h, "finalize")
    /\ Outcome(r, h, AfterHosts(t, "refresh"), TerminalTaskStatus(t))
    /\ UNCHANGED <<status, row, attempts, lease, ckpt, up, call, run, events>>

WorkerReadsAttempts(r, h) ==
    /\ WorkerAt(r, h, "active")
    /\ WorkerGoto(r, h, AfterAttempts(run[r].task, "refresh"))
    /\ UNCHANGED <<status, row, attempts, lease, ckpt, up, call, run, events>>

WorkerSettles(r, h) ==
    /\ WorkerAt(r, h, "settle")
    /\ Overwrite(run[r].task, worker[r][h].res)
    /\ WorkerGoto(r, h, "refresh")
    /\ UNCHANGED <<row, attempts, lease, ckpt, up, call, run, events>>

(* A deleted task is an error; otherwise the lease is released unless the    *)
(* goroutine's own attempt, or another, is live.                             *)
WorkerFinalize(r, h) ==
    LET t == run[r].task IN
    /\ WorkerAt(r, h, "refresh")
    /\ IF status[t] = "deleted"
       THEN UNCHANGED lease /\ Outcome(r, h, "finish", "error")
       ELSE ReleaseLeases(t, Unclaimed(t, {h})) /\ Outcome(r, h, "finish", "none")
    /\ UNCHANGED <<status, row, attempts, ckpt, up, call, run, events>>

(* The CMDB writeback of a success failed.                                   *)
WorkerWritebackFails(r, h) ==
    /\ WorkerAt(r, h, "finalize") /\ worker[r][h].res = "success" /\ Event("cmdb")
    /\ Outcome(r, h, "finish", "error")
    /\ UNCHANGED <<status, row, attempts, lease, ckpt, up, call, run>>

(* The writeback of the service instance of a settled task failed.           *)
WorkerStateFails(r, h) ==
    /\ WorkerAt(r, h, "refresh") /\ Event("service")
    /\ status[run[r].task] \in FinalStatuses
    /\ Outcome(r, h, "finish", "error")
    /\ UNCHANGED <<status, row, attempts, lease, ckpt, up, call, run>>

(* resolveAsyncHostError: the persisted result decides.                      *)
HostFailed(r, h) ==
    row[run[r].task][h] \in {"failed", "skipped", "none"} \/ worker[r][h].res = "error"

(* The end of an attempt: interrupted, succeeded or failed.                  *)
FinishInterrupted(r, h) ==
    LET t == run[r].task IN
    /\ WorkerAt(r, h, "finish") /\ Interrupted(t)
    /\ FinishAttempt(t, h, worker[r][h].att, IF Suspended(t) THEN "paused" ELSE "canceled")
    /\ WorkerExit(r, h)
    /\ UNCHANGED <<status, row, lease, ckpt, up, call, run, events>>

FinishSuccess(r, h) ==
    LET t == run[r].task IN
    /\ WorkerAt(r, h, "finish") /\ ~Interrupted(t) /\ ~HostFailed(r, h)
    /\ FinishAttempt(t, h, worker[r][h].att, "success")
    /\ WorkerExit(r, h)
    /\ UNCHANGED <<status, row, lease, ckpt, up, call, run, events>>

FinishFailed(r, h) ==
    /\ WorkerAt(r, h, "finish") /\ ~Interrupted(run[r].task) /\ HostFailed(r, h)
    /\ FinishAttempt(run[r].task, h, worker[r][h].att, "failed")
    /\ WorkerGoto(r, h, "retry")
    /\ UNCHANGED <<status, row, lease, ckpt, up, call, run, events>>

(* requeueAsyncHostAttempt does not look at the status it overwrites.        *)
RetriesLeft(r, h) == worker[r][h].round + 1 < AttemptMax
Requeue(r, h) ==
    LET t == run[r].task IN
    /\ WorkerAt(r, h, "retry") /\ RetriesLeft(r, h)
    /\ row' = [row EXCEPT ![t][h] = IF @ = "none" THEN "none" ELSE "running"]
    /\ SetWorker(r, h, Fresh("check", worker[r][h].round + 1))
    /\ UNCHANGED <<status, attempts, lease, ckpt, up, call, run, events>>

(* Mutant: a host that is given up ends the other hosts under every policy. *)
GiveUpAll(r, h) ==
    /\ WorkerAt(r, h, "retry") /\ (Interrupted(run[r].task) \/ ~RetriesLeft(r, h))
    /\ WorkerExit(r, h)
    /\ run' = [run EXCEPT ![r].killed = TRUE]
    /\ UNCHANGED <<status, row, attempts, lease, ckpt, up, call, events>>

(* The host is given up, which cancels the task's other hosts unless their   *)
(* policy is to continue.                                                    *)
GiveUp(r, h) ==
    LET t == run[r].task IN
    /\ WorkerAt(r, h, "retry") /\ (Interrupted(t) \/ ~RetriesLeft(r, h))
    /\ WorkerExit(r, h)
    /\ run' = IF Interrupted(t) \/ t \in Continue THEN run ELSE [run EXCEPT ![r].killed = TRUE]
    /\ UNCHANGED <<status, row, attempts, lease, ckpt, up, call, events>>
-----------------------------------------------------------------------------
Crash(p) ==
    /\ up[p] /\ Event("crash")
    /\ up' = [up EXCEPT ![p] = FALSE]
    /\ call' = [c \in Clients |-> IF call[c].proc = p THEN NoCall ELSE call[c]]
    /\ run' = [r \in Runs |-> IF run[r].proc = p THEN IdleRun ELSE run[r]]
    /\ worker' = [r \in Runs |-> IF run[r].proc = p THEN [h \in Hosts |-> IdleWorker] ELSE worker[r]]
    /\ UNCHANGED <<status, row, attempts, lease, ckpt>>

(* A process starts: ReconcileDeployQueue reaps attempts, completes pauses   *)
(* and starts a goroutine for every running SSH task.                        *)
Restart(p) ==
    LET abandoned == {t \in SshTasks : status[t] = "running"} IN
    /\ ~up[p]
    /\ up' = [up EXCEPT ![p] = TRUE]
    /\ ReapAttempts
    /\ status' = [t \in Tasks |-> IF status[t] = "pause_requested" THEN "paused" ELSE status[t]]
    /\ \E runs \in [abandoned -> IdleRuns] :
         /\ \A t, u \in abandoned : runs[t] = runs[u] => t = u
         /\ run' = [r \in Runs |-> IF \E t \in abandoned : runs[t] = r
                                   THEN Spawned(p, CHOOSE t \in abandoned : runs[t] = r)
                                   ELSE run[r]]
    /\ UNCHANGED <<row, lease, ckpt, call, worker, events>>

(* Five minutes pass since the claim; nothing renews an attempt.  In an      *)
(* instance with "orphanExpiry" every execution ends within the five minutes, *)
(* so that only the claims of a process that crashed expire.                 *)
Orphan(t, h, i) ==
    \A r \in Runs : run[r].task = t => worker[r][h].pc = "idle" \/ worker[r][h].att # i
AttemptExpires(t, h) ==
    \E i \in LiveAttempts(t, h) :
        /\ Event("attemptExpiry") \/ (Event("orphanExpiry") /\ Orphan(t, h, i))
        /\ attempts' = [attempts EXCEPT ![t][h][i].live = FALSE]
        /\ UNCHANGED <<status, row, lease, ckpt, up, call, run, worker>>

(* Thirty minutes pass since the host lease was last extended.               *)
LeaseExpires(h) ==
    /\ lease[h].live /\ Event("leaseExpiry")
    /\ lease' = [lease EXCEPT ![h].live = FALSE]
    /\ UNCHANGED <<status, row, attempts, ckpt, up, call, run, worker>>
-----------------------------------------------------------------------------
RunStep(r) ==
    \/ RunDropped(r) \/ RunBegin(r) \/ RunLeaseConflict(r) \/ RunFailsTask(r) \/ RunTaskGone(r)
    \/ RunBoot(r) \/ RunSettle(r) \/ RunCancel(r)
    \/ RunReadsHosts(r) \/ RunReadsAttempts(r) \/ RunSettles(r) \/ RunExit(r)

WorkerStep(r, h) ==
    \/ WorkerCheck(r, h) \/ WorkerSkip(r, h) \/ WorkerClaim(r, h) \/ WorkerClaimRefused(r, h)
    \/ ConnectFails(r, h) \/ NextStep(r, h) \/ StepSucceeds(r, h) \/ StepStops(r, h)
    \/ Interrupt(r, h) \/ WorkerReport(r, h)
    \/ WorkerReadsHosts(r, h) \/ WorkerReadsAttempts(r, h) \/ WorkerSettles(r, h)
    \/ WorkerFinalize(r, h)
    \/ FinishInterrupted(r, h) \/ FinishSuccess(r, h) \/ FinishFailed(r, h)
    \/ Requeue(r, h) \/ GiveUp(r, h)

WorkerFault(r, h) == WorkerWritebackFails(r, h) \/ WorkerStateFails(r, h)
=============================================================================
