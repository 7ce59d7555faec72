--------------------------- MODULE DeployLifecycle ---------------------------
(***************************************************************************)
(* What the engine promises about a task under every fault and request,    *)
(* without workers, attempts, leases or processes: the status of a task,   *)
(* the results of its hosts, and the verdicts on the task that somebody    *)
(* has formed and may still write.                                         *)
(*                                                                         *)
(* A verdict is formed in one step and written in a later one that looks   *)
(* at nothing: it may be stale by then, overwrite a pause, a cancellation  *)
(* or another verdict, and settle a task some of whose hosts are open      *)
(* again.  What remains true is that it was the verdict of the task's      *)
(* hosts at one moment since the task started, that no task settles        *)
(* without one (except that a running task may be failed outright), and    *)
(* that none brings a deleted task back.  A task runs only from its start, *)
(* from paused or from failed; it is paused only out of a requested pause. *)
(***************************************************************************)
CONSTANTS Tasks, Hosts

VARIABLES
    status,  \* status of a task
    result,  \* result of each of its hosts, "none" without a host row
    formed   \* verdicts formed on the task and not yet written or dropped

vars == <<status, result, formed>>

Settled == {"success", "failed", "canceled"}
Startable == {"draft", "pending"}
Active == {"running", "pause_requested", "paused", "cancel_requested"}
HostResults == {"running", "success", "failed", "skipped"}

Init ==
    /\ status = [t \in Tasks |-> "draft"]
    /\ result = [t \in Tasks |-> [h \in Hosts |-> "none"]]
    /\ formed = [t \in Tasks |-> {}]

Move(t, from, to) == status[t] \in from /\ status' = [status EXCEPT ![t] = to]
Form(t, s) == formed' = [formed EXCEPT ![t] = @ \cup {s}]

(* A started task has a host row for every host, and may yet fail to start. *)
Start(t) ==
    /\ Move(t, Startable, "running")
    /\ result' = [result EXCEPT ![t] = [h \in Hosts |-> "running"]]
    /\ Form(t, "failed")

Pause(t) == Move(t, {"running"}, "pause_requested") /\ UNCHANGED <<result, formed>>
Resume(t) == Move(t, {"paused"}, "running") /\ UNCHANGED <<result, formed>>
Retry(t) == Move(t, {"failed"}, "running") /\ UNCHANGED <<result, formed>>
RequestCancel(t) ==
    Move(t, {"running", "pause_requested"}, "cancel_requested") /\ UNCHANGED <<result, formed>>
Cancel(t) ==
    Move(t, {"pending", "paused", "cancel_requested"}, "canceled") /\ UNCHANGED <<result, formed>>

(* A running task is given up: its queue is refused, or nobody drives it.   *)
Abandon(t) == Move(t, {"running"}, "failed") /\ UNCHANGED <<result, formed>>

(* A restarted process completes the pauses of every task it finds.         *)
Paused ==
    /\ \E ts \in SUBSET {t \in Tasks : status[t] = "pause_requested"} :
         status' = [t \in Tasks |-> IF t \in ts THEN "paused" ELSE status[t]]
    /\ UNCHANGED <<result, formed>>

(* The verdict on hosts that are all done: a host that failed fails the     *)
(* task, and only hosts that are all skipped cancel it.                     *)
Verdict(t) ==
    LET rs == {result[t][h] : h \in Hosts} IN
    IF rs = {"skipped"} THEN "canceled" ELSE IF "failed" \in rs THEN "failed" ELSE "success"
Judge(t) ==
    /\ status[t] \in Active \cup Settled
    /\ \A h \in Hosts : result[t][h] \in HostResults \ {"running"}
    /\ Form(t, Verdict(t))
    /\ UNCHANGED <<status, result>>
Settle(t) ==
    /\ \E s \in formed[t] : Move(t, Active \cup Settled, s)
    /\ formed' \in {[formed EXCEPT ![t] = @ \ dropped] : dropped \in SUBSET formed[t]}
    /\ UNCHANGED result
Forget ==
    /\ \E dropped \in [Tasks -> SUBSET Settled] : formed' = [t \in Tasks |-> formed[t] \ dropped[t]]
    /\ UNCHANGED <<status, result>>

(* The hosts of a started task get results, are retried and are skipped.    *)
HostsChange(t) ==
    /\ status[t] \in Active \cup Settled
    /\ \E rs \in [Hosts -> HostResults] : result' = [result EXCEPT ![t] = rs]
    /\ UNCHANGED <<status, formed>>

Delete(t) ==
    /\ Move(t, Startable \cup Active \cup Settled \cup {"deleted"}, "deleted")
    /\ result' = [result EXCEPT ![t] = [h \in Hosts |-> "none"]]
    /\ UNCHANGED formed

Next ==
    \/ Paused \/ Forget
    \/ \E t \in Tasks :
        \/ Start(t) \/ Pause(t) \/ Resume(t) \/ Retry(t) \/ RequestCancel(t) \/ Cancel(t)
        \/ Abandon(t) \/ Judge(t) \/ Settle(t) \/ HostsChange(t) \/ Delete(t)

Spec == Init /\ [][Next]_vars
=============================================================================
