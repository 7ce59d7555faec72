----------------------------- MODULE DeployEngine ----------------------------
(***************************************************************************)
(* The deployment engine: API requests, asynchronous workers and the       *)
(* failures of their environment, over the tables of DeployState.          *)
(***************************************************************************)
EXTENDS DeployControl, DeployWorker

Environment ==
    \/ \E p \in Procs : Crash(p) \/ Restart(p)
    \/ \E t \in Tasks, h \in Hosts : AttemptExpires(t, h)
    \/ \E h \in Hosts : LeaseExpires(h)
    \/ \E c \in Clients : ControlFault(c)
    \/ \E r \in Runs : RunCredentialFails(r)
    \/ \E r \in Runs, h \in Hosts : WorkerFault(r, h)

Next ==
    \/ \E c \in Clients, p \in Procs, t \in Tasks : ControlRequest(c, p, t)
    \/ \E c \in Clients : ControlStep(c)
    \/ \E r \in Runs : RunStep(r)
    \/ \E r \in Runs, h \in Hosts : WorkerStep(r, h)
    \/ Environment

Spec == Init /\ [][Next]_vars

(***************************************************************************)
(* Goroutines and requests in progress are scheduled; scripts end, because *)
(* the executor bounds them with execution_timeout_seconds; a process that *)
(* crashed is started again.  Nothing makes an operator act, a lease       *)
(* expire or a process crash.                                              *)
(***************************************************************************)
Fairness ==
    /\ \A c \in Clients : WF_vars(ControlStep(c))
    /\ \A p \in Procs : WF_vars(Restart(p))
    /\ \A r \in Runs : WF_vars(RunStep(r))
    /\ \A r \in Runs, h \in Hosts : WF_vars(WorkerStep(r, h))
FairSpec == Spec /\ Fairness
-----------------------------------------------------------------------------
(* Every variable holds values of its table or of its goroutine's states.    *)
TypeOK ==
    /\ status \in [Tasks -> TaskStatuses]
    /\ row \in [Tasks -> [Hosts -> HostStatuses]]
    /\ attempts \in [Tasks -> [Hosts -> Seq(Attempt)]]
    /\ lease \in [Hosts -> Lease]
    /\ ckpt \in [Tasks -> [Hosts -> SUBSET (1..Steps)]]
    /\ up \in [Procs -> BOOLEAN]
    /\ call \in [Clients -> Call]
    /\ run \in [Runs -> Run]
    /\ worker \in [Runs -> [Hosts -> Worker]]
    /\ events \in Nat

(* At most one unexpired claim per task host: two workers that claim the     *)
(* same host in any interleaving, in one process or several, after crashes   *)
(* and expiries, never both hold a claim (claimAttempt).                     *)
OneLiveAttempt ==
    \A t \in Tasks, h \in Hosts : \A i, j \in LiveAttempts(t, h) : i = j

(* A host is charged for at most deployAttemptMax attempts over its whole    *)
(* life, whatever was paused, retried, reaped or restarted.                  *)
AttemptBudget ==
    \A t \in Tasks, h \in Hosts : Cardinality(ChargedAttempts(t, h)) <= AttemptMax

Holding(r, h) == worker[r][h].pc \in {"exec", "script", "interrupt", "report",
                                     "finalize", "active", "settle", "refresh", "finish"}
OnHost(r, h) == worker[r][h].pc \in {"exec", "script"}

(* Two goroutines never finish the same attempt: an attempt row belongs to   *)
(* the goroutine that created it (finishAttemptWithStatus has no guard on    *)
(* the status it overwrites).                                                *)
AttemptOwned ==
    \A r, q \in Runs, h \in Hosts :
        /\ Holding(r, h) /\ Holding(q, h) /\ run[r].task = run[q].task
        /\ worker[r][h].att = worker[q][h].att
        => r = q

(* The verdict of a finished attempt is history: no later step of any worker *)
(* rewrites it (finishAttemptWithStatus is guarded by the row id only).      *)
Unsettled == {"running", "retryable"}
AttemptVerdictKept ==
    [][\A t \in Tasks, h \in Hosts : \A i \in DOMAIN attempts[t][h] :
          attempts[t][h][i].status \notin Unsettled => attempts'[t][h][i] = attempts[t][h][i]]_vars

(* The engine implements the task lifecycle under every request and fault:   *)
(* whatever statements come between reading the hosts and writing the task,  *)
(* a task settles only with a verdict somebody formed on its hosts.          *)
Judging == {"active", "settle"}
CallForms(c, t, s) ==
    /\ call[c].task = t
    /\ \/ call[c].pc = "open" /\ s = "failed"
       \/ call[c].pc \in Judging /\ call[c].res = s
RunForms(r, t, s) == run[r].task = t /\ run[r].pc \in Judging /\ run[r].res = s
WorkerForms(r, h, t, s) ==
    run[r].task = t /\ worker[r][h].pc \in Judging /\ worker[r][h].res = s
Verdicts ==
    [t \in Tasks |-> {s \in FinalStatuses :
        \/ \E c \in Clients : CallForms(c, t, s)
        \/ \E r \in Runs : RunForms(r, t, s)
        \/ \E r \in Runs, h \in Hosts : WorkerForms(r, h, t, s)}]
Lifecycle == INSTANCE DeployLifecycle WITH result <- row, formed <- Verdicts
LifecycleSpec == Lifecycle!Spec
-----------------------------------------------------------------------------
(* ReconcileDeployQueue: "Claims remain protected by attempt leases, so       *)
(* concurrent process startup is safe and at most one worker can execute a    *)
(* task host at a time."  It fails when an execution outlives the five        *)
(* minutes of its claim.                                                      *)
OneWorkerPerHost ==
    \A r, q \in Runs, h \in Hosts :
        OnHost(r, h) /\ OnHost(q, h) /\ run[r].task = run[q].task => r = q

(* What holds whatever expires: of two workers on one task host at least one  *)
(* has outlived its claim.                                                   *)
ClaimLive(r, h) == worker[r][h].att \in LiveAttempts(run[r].task, h)
OneClaimedWorkerPerHost ==
    \A r, q \in Runs, h \in Hosts :
        /\ OnHost(r, h) /\ OnHost(q, h) /\ run[r].task = run[q].task
        /\ ClaimLive(r, h) /\ ClaimLive(q, h)
        => r = q

(* Two tasks never run scripts on the same host at the same time: this is    *)
(* what the host lease is for.                                               *)
InScript(r, h) == worker[r][h].pc = "script"
OneTaskPerHost ==
    \A r, q \in Runs, h \in Hosts : InScript(r, h) /\ InScript(q, h) => run[r].task = run[q].task

(* A script runs only under the host's lease: no other task can start there. *)
ScriptHoldsLease ==
    \A r \in Runs, h \in Hosts : InScript(r, h) => lease[h] = Leased(run[r].task)

(* A script runs only for a step that is not checkpointed: a resumed or      *)
(* retried host never repeats a step that succeeded.                         *)
NoStepRepeated ==
    \A r \in Runs, h \in Hosts :
        InScript(r, h) => worker[r][h].step \notin ckpt[run[r].task][h]

(* A checkpoint is never lost: an interrupted or failed script only resets   *)
(* its own step.                                                             *)
CheckpointKept ==
    [][\A t \in Tasks, h \in Hosts : ckpt[t][h] \subseteq ckpt'[t][h]]_vars

(* A host is reported as a success only when every plan step is              *)
(* checkpointed, and a task only when every host is a success or skipped.    *)
SuccessIsComplete ==
    \A t \in SshTasks :
        /\ \A h \in Hosts : row[t][h] = "success" => ckpt[t][h] = 1..Steps
        /\ status[t] = "success" => \A h \in Hosts : row[t][h] \in {"success", "skipped"}

(* A task that ended in success or failure has no open host row and no       *)
(* worker left in a script.                                                  *)
FinalMeansSettled ==
    \A t \in Tasks : status[t] \in {"success", "failed"} =>
        /\ \A h \in Hosts : row[t][h] # "running"
        /\ \A r \in Runs, h \in Hosts : run[r].task = t => ~InScript(r, h)

(* Success and cancellation are final: only a deletion follows them.         *)
FinalIsKept ==
    [][\A t \in Tasks : status[t] \in {"success", "canceled"} =>
          status'[t] \in {status[t], "deleted"}]_vars

(* When every host of a task has its result and no request or goroutine is   *)
(* left to act on it, the task is not running any more: whichever of two     *)
(* concurrent reports recomputes last sees both results.                     *)
Attended(t) ==
    \/ \E c \in Clients : call[c].task = t
    \/ \E r \in Runs : run[r].task = t
SettledIsFinal ==
    \A t \in Tasks : status[t] = "running" /\ ~Attended(t) => \E h \in Hosts : row[t][h] = "running"

(* DeleteTask: "a worker cannot race a soft delete".                         *)
DeletedIsIdle ==
    \A t \in Tasks, r \in Runs, h \in Hosts :
        status[t] = "deleted" /\ run[r].task = t => ~InScript(r, h)
-----------------------------------------------------------------------------
(* A task that is started and left alone ends.                               *)
TaskEnds == \A t \in SshTasks : status[t] = "running" ~> status[t] \in FinalStatuses

(* A cancellation that was accepted ends the task.                           *)
CancelEnds == \A t \in Tasks : status[t] = "cancel_requested" ~> status[t] \in FinalStatuses

Requested(t, pc) == \E c \in Clients : call[c].pc = pc /\ call[c].task = t
Executing(t, h) == \E r \in Runs : run[r].task = t /\ OnHost(r, h)

(* RetryTask: "failed, canceled, or not-started hosts are scheduled again".  *)
RetryReschedules ==
    \A t \in SshTasks, h \in Hosts :
        Requested(t, "reset") /\ row[t][h] = "failed" ~> Executing(t, h)
=============================================================================
