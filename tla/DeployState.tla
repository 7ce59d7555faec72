----------------------------- MODULE DeployState -----------------------------
(***************************************************************************)
(* The durable tables and the process-local state that the deployment      *)
(* engine works on (backend/modules/business/deploy), with the table       *)
(* operations that several handlers share.                                 *)
(*                                                                         *)
(* A table row is a value of a function: status[t] is the row of           *)
(* biz_deploy_task, row[t][h] of biz_deploy_task_host, attempts[t][h] the  *)
(* rows of biz_deploy_task_attempt by attempt_no, lease[h] the row of      *)
(* biz_deploy_host_lease, ckpt[t][h] the steps whose biz_deploy_task_step  *)
(* row is "success".  Time is abstracted to "has this lease expired yet".  *)
(***************************************************************************)
EXTENDS Integers, Sequences, FiniteSets

CONSTANTS
    Tasks,        \* deployment tasks
    SshTasks,     \* those with executor_type = "ssh"; the others wait for reports
    Hosts,        \* the CMDB hosts every task targets
    Procs,        \* server processes that share the database
    Clients,      \* concurrent API requests
    Runs,         \* goroutines running runAsyncTask
    Steps,        \* number of plan steps on each host
    AttemptMax,   \* deployAttemptMax (3 in the code)
    MaxParallel,  \* deployMaxParallelHosts
    Continue,     \* tasks with the continue_hosts failure policy
    Events,       \* what operators and the environment may do in this instance
    MaxEvents,    \* bound on the number of such events
    MaxAttempts,  \* bound on the attempt rows of a host
    NoTask        \* "no task" in a lease row

ASSUME DeployAssumption ==
    /\ SshTasks \subseteq Tasks
    /\ Continue \subseteq Tasks
    /\ NoTask \notin Tasks
    /\ Steps \in Nat \ {0}
    /\ AttemptMax \in Nat \ {0}
    /\ MaxParallel \in Nat \ {0}
    /\ MaxEvents \in Nat
    /\ MaxAttempts \in Nat

VARIABLES
    status,   \* task status
    row,      \* task-host status
    attempts, \* durable execution claims of a task host
    lease,    \* host leases
    ckpt,     \* steps checkpointed as success
    up,       \* processes that are alive
    call,     \* API requests between two of their statements
    run,      \* runAsyncTask goroutines, with taskWorkers and taskCancels
    worker,   \* runAsyncTaskHost goroutines of each run
    events    \* number of events so far (bounded by MaxEvents)

vars == <<status, row, attempts, lease, ckpt, up, call, run, worker, events>>
-----------------------------------------------------------------------------
TaskStatuses == {"draft", "pending", "running", "success", "failed", "canceled",
                 "pause_requested", "paused", "cancel_requested", "deleted"}
FinalStatuses == {"success", "failed", "canceled"}

HostStatuses == {"none", "running", "success", "failed", "skipped"}
DoneHosts == {"success", "failed", "skipped"}

AttemptStatuses == {"running", "success", "failed", "retryable", "paused", "canceled"}
Attempt == [status : AttemptStatuses, live : BOOLEAN]

Lease == [task : Tasks \cup {NoTask}, live : BOOLEAN]
NoLease == [task |-> NoTask, live |-> FALSE]
Leased(t) == [task |-> t, live |-> TRUE]

(* What a handler or goroutine carries in `res` from one statement to later *)
(* ones: the result it reports, then the verdict derived for the task.      *)
Results == {"none"} \cup DoneHosts \cup FinalStatuses

CallPoints == {"idle", "open", "failhosts", "faillease", "spawn", "kill", "skip", "reset",
               "report", "active", "settle", "refresh", "delete"}
Call == [pc : CallPoints, proc : Procs \cup {NoTask}, task : Tasks \cup {NoTask},
         host : Hosts \cup {NoTask}, res : Results]
NoCall == [pc |-> "idle", proc |-> NoTask, task |-> NoTask, host |-> NoTask, res |-> "none"]

RunPoints == {"idle", "spawned", "boot", "failtask", "hosts", "cancel",
              "recompute", "active", "settle", "exit"}
Run == [pc : RunPoints, proc : Procs \cup {NoTask}, task : Tasks \cup {NoTask},
        killed : BOOLEAN, res : Results]
IdleRun == [pc |-> "idle", proc |-> NoTask, task |-> NoTask, killed |-> FALSE, res |-> "none"]
Spawned(p, t) == [pc |-> "spawned", proc |-> p, task |-> t, killed |-> FALSE, res |-> "none"]

WorkerPoints == {"idle", "queued", "check", "claim", "exec", "script", "interrupt",
                 "report", "finalize", "active", "settle", "refresh", "finish", "retry"}
Outcomes == {"none", "success", "failed", "canceled", "error"}
Worker == [pc : WorkerPoints, round : Nat, att : Nat, step : Nat, res : Outcomes]
Fresh(pc, round) == [pc |-> pc, round |-> round, att |-> 0, step |-> 0, res |-> "none"]
IdleWorker == Fresh("idle", 0)
QueuedWorker == Fresh("queued", 0)
Claimed(round, att) == [pc |-> "exec", round |-> round, att |-> att, step |-> 1, res |-> "none"]
-----------------------------------------------------------------------------
Init ==
    /\ status = [t \in Tasks |-> "draft"]
    /\ row = [t \in Tasks |-> [h \in Hosts |-> "none"]]
    /\ attempts = [t \in Tasks |-> [h \in Hosts |-> <<>>]]
    /\ lease = [h \in Hosts |-> NoLease]
    /\ ckpt = [t \in Tasks |-> [h \in Hosts |-> {}]]
    /\ up = [p \in Procs |-> TRUE]
    /\ call = [c \in Clients |-> NoCall]
    /\ run = [r \in Runs |-> IdleRun]
    /\ worker = [r \in Runs |-> [h \in Hosts |-> IdleWorker]]
    /\ events = 0

Event(e) == e \in Events /\ events < MaxEvents /\ events' = events + 1
-----------------------------------------------------------------------------
(* taskExecutionSuspended and taskCancellationRequested read the task row.  *)
Suspended(t) == status[t] \in {"pause_requested", "paused"}
CancelSought(t) == status[t] \in {"cancel_requested", "canceled"}
Interrupted(t) == Suspended(t) \/ CancelSought(t)

SetStatus(t, from, to) ==
    status' = IF status[t] \in from THEN [status EXCEPT ![t] = to] ELSE status

(* UPDATE biz_deploy_task_host ... WHERE task_id = t AND status IN from.    *)
SetHosts(t, from, to) ==
    row' = [row EXCEPT ![t] = [h \in Hosts |-> IF row[t][h] \in from THEN to ELSE row[t][h]]]

LiveAttempts(t, h) ==
    {i \in DOMAIN attempts[t][h] : attempts[t][h][i].status = "running" /\ attempts[t][h][i].live}
ChargedAttempts(t, h) ==
    {i \in DOMAIN attempts[t][h] : attempts[t][h][i].status # "paused"}

FinishAttempt(t, h, i, s) ==
    attempts' = [attempts EXCEPT ![t][h][i] = [status |-> s, live |-> FALSE]]

(* Mutants: a reaped claim in a status no reader knows; reaping finished ones. *)
ReapedToUnknown(a) == IF a.status = "running" /\ ~a.live THEN [a EXCEPT !.status = "expired"] ELSE a
ReapedWhenFinished(a) == IF ~a.live THEN [a EXCEPT !.status = "retryable"] ELSE a

(* ReconcileDeployAttempts: a running attempt whose lease has expired.      *)
Reaped(a) == IF a.status = "running" /\ ~a.live THEN [a EXCEPT !.status = "retryable"] ELSE a
ReapAttempts ==
    attempts' = [t \in Tasks |-> [h \in Hosts |->
                    [i \in DOMAIN attempts[t][h] |-> Reaped(attempts[t][h][i])]]]

(* Mutant: the lease row is overwritten whoever holds it.                   *)
NeverHeld(h, t) == FALSE

HeldByOther(h, t) == lease[h].live /\ lease[h].task # t
AcquireLeases(t, hs) == lease' = [h \in Hosts |-> IF h \in hs THEN Leased(t) ELSE lease[h]]
ReleaseLeases(t, hs) ==
    lease' = [h \in Hosts |-> IF h \in hs /\ lease[h].task = t THEN NoLease ELSE lease[h]]
(* Mutant: a reported host gives its lease up although a worker holds it.   *)
AnyClaimed(t, hs) == hs

Unclaimed(t, hs) == {h \in hs : LiveAttempts(t, h) = {}}

TaskHosts(t) == {h \in Hosts : row[t][h] # "none"}
AllDone(t) == TaskHosts(t) # {} /\ \A h \in TaskHosts(t) : row[t][h] \in DoneHosts

(* Mutant: one successful host makes the task a success.                    *)
SuccessIfAnyHost(t) ==
    IF ~AllDone(t) THEN "none"
    ELSE IF \A h \in TaskHosts(t) : row[t][h] = "skipped" THEN "canceled"
    ELSE IF \E h \in TaskHosts(t) : row[t][h] = "success" THEN "success" ELSE "failed"

(* recomputeTaskStatus makes three statements: it reads the host rows and    *)
(* derives the task's status from them (terminalTaskStatus, "none" while a   *)
(* host is open) ...                                                         *)
TerminalTaskStatus(t) ==
    IF ~AllDone(t) THEN "none"
    ELSE IF \A h \in TaskHosts(t) : row[t][h] = "skipped" THEN "canceled"
    ELSE IF \E h \in TaskHosts(t) : row[t][h] = "failed" THEN "failed" ELSE "success"
AfterHosts(t, next) == IF TerminalTaskStatus(t) = "none" THEN next ELSE "active"

(* Mutant: the task is settled although a host may be retried.              *)
NeverActive(t) == FALSE

(* ... reads the attempts, and gives up while one is live ...                *)
HasActiveAttempt(t) == \E h \in Hosts : LiveAttempts(t, h) # {}
AfterAttempts(t, next) == IF HasActiveAttempt(t) THEN next ELSE "settle"

(* ... and overwrites the task row, unless it is deleted, whatever it says.  *)
Overwrite(t, s) == status' = IF status[t] = "deleted" THEN status ELSE [status EXCEPT ![t] = s]

(* The goroutines started for a task in a process.                          *)
IdleRuns == {r \in Runs : run[r].pc = "idle"}
Loaded(p, t) ==
    {r \in Runs : run[r].pc \notin {"idle", "spawned"} /\ run[r].proc = p /\ run[r].task = t}
=============================================================================
