---------------------------- MODULE DeployControl ----------------------------
(***************************************************************************)
(* The operator's requests of the deployment API (StartTask, PauseTask,    *)
(* ResumeTask, RetryTask, CancelTask, DeleteTask, MarkHostResult).         *)
(*                                                                         *)
(* A handler runs several statements outside any transaction, so each is   *)
(* an action that performs its first statement and leaves in call[c] what  *)
(* the handler has still to do; other requests and the workers run in      *)
(* between.  A handler that reads the task and then updates it WHERE       *)
(* status is what it read is one atomic step.                              *)
(***************************************************************************)
EXTENDS DeployState

Request(c, p, t, e, pc) ==
    /\ call[c].pc = "idle" /\ up[p]
    /\ Event(e)
    /\ call' = [call EXCEPT ![c] = [NoCall EXCEPT !.pc = pc, !.proc = p, !.task = t]]

At(c, pc) == call[c].pc = pc
Return(c) == call' = [call EXCEPT ![c] = NoCall]
Goto(c, pc) == call' = [call EXCEPT ![c].pc = pc]
Carry(c, pc, res) == call' = [call EXCEPT ![c].pc = pc, ![c].res = res]
-----------------------------------------------------------------------------
(* StartTask: the claim transaction; a lease conflict rolls it back whole.  *)
StartTask(c, p, t) ==
    /\ Request(c, p, t, "start", "open")
    /\ status[t] \in {"draft", "pending"}
    /\ \A h \in Hosts : ~HeldByOther(h, t)
    /\ status' = [status EXCEPT ![t] = "running"]
    /\ row' = [row EXCEPT ![t] = [h \in Hosts |-> "running"]]
    /\ AcquireLeases(t, Hosts)
    /\ UNCHANGED <<attempts, ckpt, up, run, worker>>

(* beginServiceInstanceState succeeded: dispatch to the worker or to nobody. *)
StartDispatch(c) ==
    /\ At(c, "open")
    /\ IF call[c].task \in SshTasks THEN Goto(c, "spawn") ELSE Return(c)
    /\ UNCHANGED <<status, row, attempts, lease, ckpt, up, run, worker, events>>

(* beginServiceInstanceState failed: failStartedTask fails the task whatever *)
(* its status is by now, then its open hosts, then gives the leases back.    *)
StartFails(c) ==
    /\ At(c, "open") /\ Event("service")
    /\ Overwrite(call[c].task, "failed")
    /\ Goto(c, "failhosts")
    /\ UNCHANGED <<row, attempts, lease, ckpt, up, run, worker>>

StartFailsHosts(c) ==
    /\ At(c, "failhosts")
    /\ SetHosts(call[c].task, {"running"}, "failed")
    /\ Goto(c, "faillease")
    /\ UNCHANGED <<status, attempts, lease, ckpt, up, run, worker, events>>

StartFailsLeases(c) ==
    /\ At(c, "faillease")
    /\ ReleaseLeases(call[c].task, Hosts)
    /\ Return(c)
    /\ UNCHANGED <<status, row, attempts, ckpt, up, run, worker, events>>

(* The "go s.runAsyncTask(...)" that Start, Resume and Retry end with.       *)
Spawn(c) ==
    /\ At(c, "spawn")
    /\ \E r \in IdleRuns : run' = [run EXCEPT ![r] = Spawned(call[c].proc, call[c].task)]
    /\ Return(c)
    /\ UNCHANGED <<status, row, attempts, lease, ckpt, up, worker, events>>
-----------------------------------------------------------------------------
(* Mutant: the pause does not look at the status it overwrites.             *)
PauseAnyTask(c, p, t) ==
    /\ Request(c, p, t, "pause", "kill")
    /\ status' = [status EXCEPT ![t] = "pause_requested"]
    /\ UNCHANGED <<row, attempts, lease, ckpt, up, run, worker>>

PauseTask(c, p, t) ==
    /\ Request(c, p, t, "pause", "kill")
    /\ status[t] = "running"
    /\ SetStatus(t, {"running"}, "pause_requested")
    /\ UNCHANGED <<row, attempts, lease, ckpt, up, run, worker>>

(* taskCancels.Load(id) and the cancel function it holds, if this process    *)
(* runs the task.                                                            *)
Kill(c) ==
    /\ At(c, "kill")
    /\ run' = [r \in Runs |-> IF r \in Loaded(call[c].proc, call[c].task) /\ run[r].pc # "boot"
                              THEN [run[r] EXCEPT !.killed = TRUE] ELSE run[r]]
    /\ Return(c)
    /\ UNCHANGED <<status, row, attempts, lease, ckpt, up, worker, events>>

ResumeTask(c, p, t) ==
    /\ Request(c, p, t, "resume", "spawn")
    /\ status[t] = "paused"
    /\ SetStatus(t, {"paused"}, "running")
    /\ UNCHANGED <<row, attempts, lease, ckpt, up, run, worker>>

(* Mutant: a canceled task can be retried.                                  *)
RetryCanceledToo(c, p, t) ==
    /\ Request(c, p, t, "retry", "reset")
    /\ status[t] \in {"failed", "canceled"}
    /\ SetStatus(t, {"failed", "canceled"}, "running")
    /\ UNCHANGED <<row, attempts, lease, ckpt, up, run, worker>>

RetryTask(c, p, t) ==
    /\ Request(c, p, t, "retry", "reset")
    /\ status[t] = "failed"
    /\ SetStatus(t, {"failed"}, "running")
    /\ UNCHANGED <<row, attempts, lease, ckpt, up, run, worker>>

RetryResetsHosts(c) ==
    /\ At(c, "reset")
    /\ SetHosts(call[c].task, {"failed", "skipped"}, "running")
    /\ Goto(c, "spawn")
    /\ UNCHANGED <<status, attempts, lease, ckpt, up, run, worker, events>>

CancelTask(c, p, t) ==
    /\ Request(c, p, t, "cancel", "skip")
    /\ status[t] \in {"pending", "running", "pause_requested", "paused"}
    /\ status' = [status EXCEPT ![t] = IF status[t] \in {"pending", "paused"}
                                       THEN "canceled" ELSE "cancel_requested"]
    /\ UNCHANGED <<row, attempts, lease, ckpt, up, run, worker>>

CancelSkipsHosts(c) ==
    /\ At(c, "skip")
    /\ SetHosts(call[c].task, {"running"}, "skipped")
    /\ Goto(c, "kill")
    /\ UNCHANGED <<status, attempts, lease, ckpt, up, run, worker, events>>
-----------------------------------------------------------------------------
(* MarkHostResult: the conditional update of a host that is still open.      *)
MarkHostResult(c, p, t, h, result) ==
    /\ call[c].pc = "idle" /\ up[p] /\ Event("report")
    /\ status[t] # "deleted" /\ row[t][h] = "running"
    /\ row' = [row EXCEPT ![t][h] = result]
    /\ call' = [call EXCEPT ![c] =
                  [pc |-> "report", proc |-> p, task |-> t, host |-> h, res |-> result]]
    /\ UNCHANGED <<status, attempts, lease, ckpt, up, run, worker>>

(* WriteDeployHostResult failed: the handler returns before it has           *)
(* recomputed the task or released the lease.                                *)
MarkWritebackFails(c) ==
    /\ At(c, "report") /\ Event("cmdb")
    /\ call[c].res = "success"
    /\ Return(c)
    /\ UNCHANGED <<status, row, attempts, lease, ckpt, up, run, worker>>

(* Mutant: only a successful host has the task recomputed.                  *)
MarkReadsAfterSuccess(c) ==
    LET t == call[c].task IN
    /\ At(c, "report")
    /\ IF call[c].res = "success" THEN Carry(c, AfterHosts(t, "refresh"), TerminalTaskStatus(t))
                                  ELSE Carry(c, "refresh", "none")
    /\ UNCHANGED <<status, row, attempts, lease, ckpt, up, run, worker, events>>

(* finalizeMarkedHostResult: recomputeTaskStatus in its three statements.    *)
MarkReadsHosts(c) ==
    LET t == call[c].task IN
    /\ At(c, "report")
    /\ Carry(c, AfterHosts(t, "refresh"), TerminalTaskStatus(t))
    /\ UNCHANGED <<status, row, attempts, lease, ckpt, up, run, worker, events>>

MarkReadsAttempts(c) ==
    /\ At(c, "active")
    /\ Goto(c, AfterAttempts(call[c].task, "refresh"))
    /\ UNCHANGED <<status, row, attempts, lease, ckpt, up, run, worker, events>>

MarkSettles(c) ==
    /\ At(c, "settle")
    /\ Overwrite(call[c].task, call[c].res)
    /\ Goto(c, "refresh")
    /\ UNCHANGED <<row, attempts, lease, ckpt, up, run, worker, events>>

(* The task is read again; if it is not deleted, the lease is released       *)
(* unless a worker still holds an attempt.                                   *)
FinalizeHostResult(t, h) ==
    IF status[t] = "deleted" THEN UNCHANGED lease ELSE ReleaseLeases(t, Unclaimed(t, {h}))

MarkFinalize(c) ==
    /\ At(c, "refresh")
    /\ FinalizeHostResult(call[c].task, call[c].host)
    /\ Return(c)
    /\ UNCHANGED <<status, row, attempts, ckpt, up, run, worker, events>>

(* finishServiceInstanceState failed for a settled task: the lease is kept.  *)
MarkStateFails(c) ==
    /\ At(c, "refresh") /\ Event("service")
    /\ status[call[c].task] \in FinalStatuses
    /\ Return(c)
    /\ UNCHANGED <<status, row, attempts, lease, ckpt, up, run, worker>>
-----------------------------------------------------------------------------
(* DeleteTask reads the task, reconciling one that is running but abandoned, *)
(* and deletes it in a second transaction that does not look at its status.  *)
DeleteTask(c, p, t) ==
    LET abandoned == /\ status[t] = "running" /\ "stale" \in Events
                     /\ \A h \in Hosts : LiveAttempts(t, h) = {}
                     /\ \A h \in Hosts : ~(lease[h].live /\ lease[h].task = t)
    IN  /\ Request(c, p, t, "delete", "delete")
        /\ \/ status[t] \in {"draft", "pending", "paused"} \cup FinalStatuses
           \/ abandoned
        /\ SetStatus(t, {"running"}, "failed")
        /\ UNCHANGED <<row, attempts, lease, ckpt, up, run, worker>>

DeleteCommit(c) ==
    LET t == call[c].task IN
    /\ At(c, "delete")
    /\ status' = [status EXCEPT ![t] = "deleted"]
    /\ row' = [row EXCEPT ![t] = [h \in Hosts |-> "none"]]
    /\ Return(c)
    /\ UNCHANGED <<attempts, lease, ckpt, up, run, worker, events>>
-----------------------------------------------------------------------------
ControlRequest(c, p, t) ==
    \/ StartTask(c, p, t) \/ PauseTask(c, p, t) \/ ResumeTask(c, p, t)
    \/ RetryTask(c, p, t) \/ CancelTask(c, p, t) \/ DeleteTask(c, p, t)
    \/ \E h \in Hosts, result \in DoneHosts : MarkHostResult(c, p, t, h, result)

ControlFault(c) == StartFails(c) \/ MarkWritebackFails(c) \/ MarkStateFails(c)

ControlStep(c) ==
    \/ StartDispatch(c) \/ StartFailsHosts(c) \/ StartFailsLeases(c)
    \/ Spawn(c) \/ Kill(c) \/ RetryResetsHosts(c) \/ CancelSkipsHosts(c)
    \/ MarkReadsHosts(c) \/ MarkReadsAttempts(c) \/ MarkSettles(c) \/ MarkFinalize(c)
    \/ DeleteCommit(c)
=============================================================================
