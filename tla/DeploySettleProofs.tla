-------------------------- MODULE DeploySettleProofs -------------------------
(***************************************************************************)
(* How tasks settle, for every number of tasks, hosts, processes, steps,   *)
(* requests and goroutines.                                                *)
(*                                                                         *)
(* First, under every request and fault, the engine implements the         *)
(* lifecycle of DeployLifecycle.  What the refinement needs beyond the     *)
(* types is an invariant of the lifecycle itself (RowsFit, AllRows): a     *)
(* task has host rows exactly when it has started and is not deleted, and  *)
(* nobody has a verdict on a task that has not started, so whoever finds a *)
(* row, or writes a verdict, acts on a started task.                       *)
(*                                                                         *)
(* Second, in undisturbed engines, a final task stays as it is, has only   *)
(* settled hosts, and a success has executed every step.  The invariant is *)
(* DriverInv: whatever drives a task on (the request that starts or        *)
(* retries it, the goroutine of its run) is one, and while there is one    *)
(* the task is under way.  No statement of the code looks at the status    *)
(* when it writes a final one; what protects it is that nobody else is     *)
(* there to write between the statements of the one who does.              *)
(*                                                                         *)
(* Third, where every result is answered by a recomputation, no task stays *)
(* behind its settled hosts: with several reports at once, the             *)
(* recomputation that is due last sees them all.                           *)
(***************************************************************************)
EXTENDS DeployLedgerProofs

Bare == {"draft", "pending", "deleted"}
RowsFit ==
    \A t \in Tasks :
        /\ status[t] \in Bare => \A h \in Hosts : row[t][h] = "none"
        /\ status[t] \in {"draft", "pending"} => Verdicts[t] = {}
AllRows ==
    \A t \in Tasks :
        /\ status[t] # "pending"
        /\ status[t] \notin Bare => \A h \in Hosts : row[t][h] # "none"

Started == Lifecycle!Active \cup Lifecycle!Settled
Moved == [Lifecycle!Next]_<<status, row, Verdicts>>
-----------------------------------------------------------------------------
(* Who has formed which verdict.                                            *)
LEMMA VerdictsTyped == Verdicts \in [Tasks -> SUBSET FinalStatuses]
BY DEF Verdicts

SameCalls == \A c \in Clients, t \in Tasks, s \in FinalStatuses : CallForms(c, t, s)' <=> CallForms(c, t, s)
SameRuns == \A r \in Runs, t \in Tasks, s \in FinalStatuses : RunForms(r, t, s)' <=> RunForms(r, t, s)
SameWorkers ==
    \A r \in Runs, h \in Hosts, t \in Tasks, s \in FinalStatuses :
        WorkerForms(r, h, t, s)' <=> WorkerForms(r, h, t, s)

LEMMA SameVerdicts ==
    ASSUME SameCalls, SameRuns, SameWorkers
    PROVE  UNCHANGED Verdicts
BY DEF SameCalls, SameRuns, SameWorkers, Verdicts

(* A verdict that is there is formed by somebody who still forms it, or is  *)
(* the one whose statement this is.                                         *)
LEMMA CallVerdicts ==
    ASSUME NEW c \in Clients, SameRuns, SameWorkers, \A b \in Clients : b # c => call'[b] = call[b],
           NEW t \in Tasks, NEW s \in FinalStatuses
    PROVE  /\ s \in Verdicts'[t] => s \in Verdicts[t] \/ CallForms(c, t, s)'
           /\ s \in Verdicts[t] => s \in Verdicts'[t] \/ CallForms(c, t, s)
           /\ CallForms(c, t, s) => s \in Verdicts[t]
           /\ CallForms(c, t, s)' => s \in Verdicts'[t]
BY DEF SameRuns, SameWorkers, Verdicts, CallForms

LEMMA RunVerdicts ==
    ASSUME NEW r \in Runs, SameCalls, SameWorkers, \A q \in Runs : q # r => run'[q] = run[q],
           NEW t \in Tasks, NEW s \in FinalStatuses
    PROVE  /\ s \in Verdicts'[t] => s \in Verdicts[t] \/ RunForms(r, t, s)'
           /\ s \in Verdicts[t] => s \in Verdicts'[t] \/ RunForms(r, t, s)
           /\ RunForms(r, t, s) => s \in Verdicts[t]
           /\ RunForms(r, t, s)' => s \in Verdicts'[t]
BY DEF SameCalls, SameWorkers, Verdicts, RunForms

LEMMA WorkerVerdicts ==
    ASSUME NEW r \in Runs, NEW h \in Hosts, SameCalls, SameRuns, UNCHANGED run,
           \A q \in Runs, g \in Hosts : (q # r \/ g # h) => worker'[q][g] = worker[q][g],
           NEW t \in Tasks, NEW s \in FinalStatuses
    PROVE  /\ s \in Verdicts'[t] => s \in Verdicts[t] \/ WorkerForms(r, h, t, s)'
           /\ s \in Verdicts[t] => s \in Verdicts'[t] \/ WorkerForms(r, h, t, s)
           /\ WorkerForms(r, h, t, s) => s \in Verdicts[t]
           /\ WorkerForms(r, h, t, s)' => s \in Verdicts'[t]
<1>1. \A q \in Runs, g \in Hosts : (q # r \/ g # h) => (WorkerForms(q, g, t, s)' <=> WorkerForms(q, g, t, s))
  BY DEF WorkerForms
<1> QED BY <1>1 DEF SameCalls, SameRuns, Verdicts

(* Goroutines that form no verdict, before or after, and those left alone.  *)
QuietRun(r) ==
    /\ run[r].pc \notin Judging /\ run'[r].pc \notin Judging
    /\ \A h \in Hosts : worker[r][h].pc \notin Judging /\ worker'[r][h].pc \notin Judging
StillRun(r) ==
    /\ run'[r].pc = run[r].pc /\ run'[r].task = run[r].task /\ run'[r].res = run[r].res
    /\ \A h \in Hosts : worker'[r][h] = worker[r][h]

LEMMA RunsSame ==
    ASSUME \A r \in Runs : QuietRun(r) \/ StillRun(r)
    PROVE  SameRuns /\ SameWorkers
<1>1. \A r \in Runs : QuietRun(r) => /\ \A t, s : ~RunForms(r, t, s) /\ ~RunForms(r, t, s)'
                                     /\ \A h \in Hosts : \A t, s : ~WorkerForms(r, h, t, s) /\ ~WorkerForms(r, h, t, s)'
  BY DEF QuietRun, RunForms, WorkerForms
<1>2. \A r \in Runs : StillRun(r) => /\ \A t, s : RunForms(r, t, s) <=> RunForms(r, t, s)'
                                     /\ \A h \in Hosts : \A t, s : WorkerForms(r, h, t, s) <=> WorkerForms(r, h, t, s)'
  BY DEF StillRun, RunForms, WorkerForms
<1> QED BY <1>1, <1>2 DEF SameRuns, SameWorkers
-----------------------------------------------------------------------------
(* The shapes of the engine's steps, and the abstract step each one is.     *)
LEMMA StartedStatus ==
    ASSUME TypeInv, RowsFit, NEW t \in Tasks, (\E h \in Hosts : row[t][h] # "none") \/ Verdicts[t] # {}
    PROVE  status[t] \in Started \cup {"deleted"} /\ (status[t] = "deleted" => \A h \in Hosts : row[t][h] = "none")
BY DEF TypeInv, TablesTyped, TaskStatuses, RowsFit, Bare, Started, Lifecycle!Active, Lifecycle!Settled

LEMMA StutterMoves ==
    ASSUME UNCHANGED <<status, row, Verdicts>>
    PROVE  Moved
BY DEF Moved

(* Verdicts are dropped.                                                    *)
LEMMA ForgetMoves ==
    ASSUME UNCHANGED <<status, row>>, \A t \in Tasks : Verdicts'[t] \subseteq Verdicts[t]
    PROVE  Moved
<1> DEFINE dropped == [t \in Tasks |-> Verdicts[t] \ Verdicts'[t]]
<1>1. dropped \in [Tasks -> SUBSET Lifecycle!Settled]
  BY VerdictsTyped DEF Lifecycle!Settled, FinalStatuses
<1>2. Verdicts' \in [Tasks -> SUBSET FinalStatuses]
  BY DEF Verdicts
<1>3. Verdicts' = [t \in Tasks |-> Verdicts[t] \ dropped[t]]
  BY <1>2, VerdictsTyped
<1> HIDE DEF dropped
<1>4. Lifecycle!Forget
  BY <1>1, <1>3 DEF Lifecycle!Forget
<1> QED BY <1>4 DEF Lifecycle!Next, Moved

(* A verdict is formed on hosts that are all done.                          *)
LEMMA JudgeMoves ==
    ASSUME TypeInv, RowsFit, AllRows, NEW t \in Tasks, AllDone(t), UNCHANGED <<status, row>>,
           Verdicts' = [Verdicts EXCEPT ![t] = @ \cup {TerminalTaskStatus(t)}]
    PROVE  Moved
<1>1. PICK g \in Hosts : row[t][g] # "none"
  BY DEF AllDone, TaskHosts
<1>2. status[t] \notin Bare
  BY <1>1 DEF RowsFit
<1>3. /\ \A h \in Hosts : row[t][h] \in DoneHosts
      /\ TaskHosts(t) = Hosts
  BY <1>2 DEF AllRows, AllDone, TaskHosts
<1>4. TerminalTaskStatus(t) = Lifecycle!Verdict(t)
  <2> DEFINE rs == {row[t][h] : h \in Hosts}
  <2>1. rs = {"skipped"} <=> \A h \in Hosts : row[t][h] = "skipped"
    BY <1>1
  <2>2. "failed" \in rs <=> \E h \in Hosts : row[t][h] = "failed"
    OBVIOUS
  <2> HIDE DEF rs
  <2>3. Lifecycle!Verdict(t) = IF rs = {"skipped"} THEN "canceled" ELSE IF "failed" \in rs THEN "failed" ELSE "success"
    BY DEF Lifecycle!Verdict, rs
  <2> QED BY <1>3, <2>1, <2>2, <2>3 DEF TerminalTaskStatus
<1>5. status[t] \in Lifecycle!Active \cup Lifecycle!Settled
  BY <1>1, <1>2, StartedStatus DEF Bare, Started
<1>6. Lifecycle!Judge(t)
  BY <1>3, <1>4, <1>5 DEF Lifecycle!Judge, Lifecycle!Form, Lifecycle!HostResults, DoneHosts
<1> QED BY <1>6 DEF Lifecycle!Next, Moved

(* A verdict is written, and perhaps dropped by the one who has written it. *)
LEMMA SettleMoves ==
    ASSUME TypeInv, RowsFit, NEW t \in Tasks, NEW s \in Verdicts[t], Overwrite(t, s), UNCHANGED row,
           Verdicts'[t] \subseteq Verdicts[t], \A u \in Tasks \ {t} : Verdicts'[u] = Verdicts[u]
    PROVE  Moved
<1>1. CASE status[t] = "deleted"
  BY <1>1, ForgetMoves DEF Overwrite
<1>2. CASE status[t] # "deleted"
  <2>1. status[t] \in Lifecycle!Active \cup Lifecycle!Settled
    BY <1>2, StartedStatus DEF Started
  <2>2. Verdicts' \in [Tasks -> SUBSET FinalStatuses]
    BY DEF Verdicts
  <2>3. Verdicts' = [Verdicts EXCEPT ![t] = @ \ (Verdicts[t] \ Verdicts'[t])]
    BY <2>2, VerdictsTyped
  <2>4. Lifecycle!Settle(t)
    BY <1>2, <2>1, <2>3 DEF Lifecycle!Settle, Lifecycle!Move, Overwrite
  <2> QED BY <2>4 DEF Lifecycle!Next, Moved
<1> QED BY <1>1, <1>2

(* Rows of a task that has rows change.                                     *)
LEMMA RowsMove ==
    ASSUME TypeInv, TypeInv', RowsFit, AllRows, NEW t \in Tasks, UNCHANGED <<status, Verdicts>>,
           \A u \in Tasks \ {t} : row'[u] = row[u],
           \A h \in Hosts : row'[t][h] = "none" <=> row[t][h] = "none"
    PROVE  Moved
<1>1. row' = [row EXCEPT ![t] = row'[t]]
  BY DEF TypeInv, TablesTyped
<1>2. CASE \E h \in Hosts : row[t][h] # "none"
  <2>1. status[t] \in Started /\ status[t] \notin Bare
    BY <1>2, StartedStatus DEF Started, Bare, Lifecycle!Active, Lifecycle!Settled
  <2>2. row'[t] \in [Hosts -> Lifecycle!HostResults]
    <3>1. row'[t] \in [Hosts -> HostStatuses] /\ \A h \in Hosts : row'[t][h] # "none"
      BY <2>1 DEF AllRows, TypeInv, TablesTyped
    <3> QED BY <3>1 DEF HostStatuses, Lifecycle!HostResults
  <2>3. Lifecycle!HostsChange(t)
    BY <1>1, <2>1, <2>2 DEF Lifecycle!HostsChange, Started
  <2> QED BY <2>3 DEF Lifecycle!Next, Moved
<1>3. CASE \A h \in Hosts : row[t][h] = "none"
  <2>1. row' = row
    BY <1>1, <1>3 DEF TypeInv, TablesTyped
  <2> QED BY <2>1, StutterMoves
<1> QED BY <1>2, <1>3

(* One status field moves and no row does.                                  *)
LEMMA StatusMoves ==
    ASSUME TypeInv, NEW t \in Tasks, NEW from, NEW to, SetStatus(t, from, to), UNCHANGED <<row, Verdicts>>,
           \/ from = {"running"} /\ to \in {"pause_requested", "cancel_requested", "failed"}
           \/ from = {"pause_requested"} /\ to \in {"paused", "cancel_requested"}
           \/ from = {"paused"} /\ to \in {"running", "canceled"}
           \/ from = {"failed"} /\ to = "running"
           \/ from \in {{"pending"}, {"cancel_requested"}} /\ to = "canceled"
    PROVE  Moved
<1>1. CASE status[t] \notin from
  BY <1>1, StutterMoves DEF SetStatus
<1>2. CASE status[t] \in from
  <2>1. status' = [status EXCEPT ![t] = to]
    BY <1>2 DEF SetStatus
  <2>2. CASE from = {"pause_requested"} /\ to = "paused"
    <3>1. status' = [u \in Tasks |-> IF u \in {t} THEN "paused" ELSE status[u]]
      BY <2>1, <2>2 DEF TypeInv, TablesTyped
    <3>2. {t} \in SUBSET {u \in Tasks : status[u] = "pause_requested"}
      BY <1>2, <2>2
    <3>3. Lifecycle!Paused
      BY <3>1, <3>2 DEF Lifecycle!Paused
    <3> QED BY <3>3 DEF Lifecycle!Next, Moved
  <2>3. CASE ~(from = {"pause_requested"} /\ to = "paused")
    <3>1. \/ Lifecycle!Pause(t) \/ Lifecycle!Resume(t) \/ Lifecycle!Retry(t)
          \/ Lifecycle!RequestCancel(t) \/ Lifecycle!Cancel(t) \/ Lifecycle!Abandon(t)
      BY <1>2, <2>1, <2>3
      DEF Lifecycle!Pause, Lifecycle!Resume, Lifecycle!Retry, Lifecycle!RequestCancel,
          Lifecycle!Cancel, Lifecycle!Abandon, Lifecycle!Move
    <3> QED BY <3>1 DEF Lifecycle!Next, Moved
  <2> QED BY <2>2, <2>3
<1> QED BY <1>1, <1>2
-----------------------------------------------------------------------------
LEMMA StillRuns ==
    ASSUME TypeInv, UNCHANGED worker, 
           \A r \in Runs : run'[r] = run[r] \/ (run[r].pc = "idle" /\ run'[r].pc = "spawned")
    PROVE  SameRuns /\ SameWorkers
<1>1. \A r \in Runs : QuietRun(r) \/ StillRun(r)
  BY DEF QuietRun, StillRun, Judging, TypeInv, WorkersTyped
<1> QED BY <1>1, RunsSame

LEMMA HostsSet ==
    ASSUME TypeInv, NEW t \in Tasks, NEW from, NEW to, SetHosts(t, from, to), "none" \notin from, to # "none"
    PROVE  /\ \A u \in Tasks \ {t} : row'[u] = row[u]
           /\ \A h \in Hosts : row'[t][h] = "none" <=> row[t][h] = "none"
BY DEF SetHosts, TypeInv, TablesTyped

(* Everything but StartTask and MarkHostResult moves at most one status.    *)
LEMMA ControlRequestMoves ==
    ASSUME TypeInv, TypeInv', RowsFit, AllRows, NEW c \in Clients, NEW p \in Procs, NEW t \in Tasks,
           ControlRequest(c, p, t)
    PROVE  Moved
<1>1. /\ SameRuns /\ SameWorkers
      /\ \A b \in Clients : b # c => call'[b] = call[b]
      /\ call[c].pc = "idle"
  <2>1. UNCHANGED <<run, worker>>
    BY DEF ControlRequest, StartTask, PauseTask, ResumeTask, RetryTask, CancelTask, DeleteTask, MarkHostResult
  <2>2. /\ \A b \in Clients : b # c => call'[b] = call[b]
        /\ call[c].pc = "idle"
    BY DEF ControlRequest, StartTask, PauseTask, ResumeTask, RetryTask, CancelTask, DeleteTask, MarkHostResult,
       Request, TypeInv, CallsTyped
  <2> QED BY <2>1, <2>2, StillRuns
<1>2. ASSUME call'[c].pc \notin Judging \cup {"open"}
      PROVE  UNCHANGED Verdicts
  <2>1. SameCalls
    BY <1>1, <1>2 DEF SameCalls, CallForms, Judging
  <2> QED BY <1>1, <2>1, SameVerdicts
<1>r. \A e, pc : Request(c, p, t, e, pc) => call'[c].pc = pc /\ call'[c].task = t
  BY DEF Request, NoCall, TypeInv, CallsTyped
<1>3. CASE PauseTask(c, p, t) \/ ResumeTask(c, p, t) \/ RetryTask(c, p, t) \/ DeleteTask(c, p, t)
  <2>1. UNCHANGED Verdicts
    BY <1>2, <1>3, <1>r DEF PauseTask, ResumeTask, RetryTask, DeleteTask, Judging
  <2> QED BY <1>3, <2>1, StatusMoves DEF PauseTask, ResumeTask, RetryTask, DeleteTask
<1>4. CASE CancelTask(c, p, t)
  <2>1. UNCHANGED <<row, Verdicts>>
    BY <1>2, <1>4, <1>r DEF CancelTask, Judging
  <2>2. Lifecycle!Cancel(t) \/ Lifecycle!RequestCancel(t)
    BY <1>4, <2>1 DEF CancelTask, Lifecycle!Cancel, Lifecycle!RequestCancel, Lifecycle!Move
  <2> QED BY <2>2 DEF Lifecycle!Next, Moved
<1>5. ASSUME NEW h \in Hosts, NEW result \in DoneHosts, MarkHostResult(c, p, t, h, result)
      PROVE  Moved
  <2>1. UNCHANGED <<status, Verdicts>>
    BY <1>2, <1>5 DEF MarkHostResult, Judging, TypeInv, CallsTyped
  <2>2. /\ \A u \in Tasks \ {t} : row'[u] = row[u]
        /\ \A g \in Hosts : row'[t][g] = "none" <=> row[t][g] = "none"
    BY <1>5 DEF MarkHostResult, DoneHosts, TypeInv, TablesTyped
  <2> QED BY <2>1, <2>2, RowsMove
<1>6. CASE StartTask(c, p, t)
  <2>1. call'[c].pc = "open" /\ call'[c].task = t
    BY <1>6, <1>r DEF StartTask
  <2>2. Verdicts' \in [Tasks -> SUBSET FinalStatuses]
    BY DEF Verdicts
  <2>3. \A u \in Tasks, s \in FinalStatuses : CallForms(c, u, s)' <=> u = t /\ s = "failed"
    BY <2>1 DEF CallForms, Judging
  <2>4. \A u \in Tasks, s \in FinalStatuses : ~CallForms(c, u, s)
    BY <1>1 DEF CallForms, Judging
  <2>5. \A u \in Tasks, s \in FinalStatuses : s \in Verdicts'[u] <=> s \in Verdicts[u] \/ (u = t /\ s = "failed")
    BY <1>1, <2>3, <2>4, CallVerdicts
  <2>6. Verdicts' = [Verdicts EXCEPT ![t] = @ \cup {"failed"}]
    BY <2>2, <2>5, VerdictsTyped DEF FinalStatuses
  <2>7. Lifecycle!Start(t)
    BY <1>6, <2>6 DEF StartTask, Lifecycle!Start, Lifecycle!Move, Lifecycle!Form, Lifecycle!Startable
  <2> QED BY <2>7 DEF Lifecycle!Next, Moved
<1> QED BY <1>3, <1>4, <1>5, <1>6 DEF ControlRequest

(* The statements of a handler.  A statement that forms no verdict, before  *)
(* or after, leaves them all; one that ends it drops at most its own.       *)
LEMMA CallQuiet ==
    ASSUME NEW c \in Clients, SameRuns, SameWorkers, \A b \in Clients : b # c => call'[b] = call[b],
           call'[c].pc \notin Judging \cup {"open"}
    PROVE  /\ \A t \in Tasks : Verdicts'[t] \subseteq Verdicts[t]
           /\ \A t \in Tasks : t # call[c].task => Verdicts'[t] = Verdicts[t]
           /\ call[c].pc \notin Judging \cup {"open"} => UNCHANGED Verdicts
<1>1. \A t \in Tasks, s \in FinalStatuses : ~CallForms(c, t, s)'
  BY DEF CallForms
<1>2. Verdicts' \in [Tasks -> SUBSET FinalStatuses]
  BY DEF Verdicts
<1>3. ASSUME NEW t \in Tasks, NEW s \in Verdicts'[t]
      PROVE  s \in Verdicts[t]
  <2>1. s \in FinalStatuses
    BY <1>2
  <2> QED BY <1>1, <2>1, CallVerdicts
<1>4. \A t \in Tasks, s \in FinalStatuses : t # call[c].task => ~CallForms(c, t, s)
  BY DEF CallForms
<1>5. ASSUME NEW t \in Tasks, t # call[c].task
      PROVE  Verdicts'[t] = Verdicts[t]
  <2>1. \A s \in FinalStatuses : s \in Verdicts'[t] <=> s \in Verdicts[t]
    BY <1>1, <1>4, <1>5, CallVerdicts
  <2> QED BY <1>2, <2>1, VerdictsTyped
<1>6. call[c].pc \notin Judging \cup {"open"} => SameCalls
  BY <1>1 DEF SameCalls, CallForms
<1> QED BY <1>3, <1>5, <1>6, SameVerdicts

LEMMA ControlStepMoves ==
    ASSUME TypeInv, TypeInv', RowsFit, AllRows, NEW c \in Clients, ControlStep(c) \/ ControlFault(c)
    PROVE  Moved
<1>1. PICK t : t = call[c].task
  OBVIOUS
<1>2. /\ t \in Tasks
      /\ \A b \in Clients : b # c => call'[b] = call[b]
  BY <1>1, CallTask DEF TypeInv, CallsTyped, ControlStep, ControlFault, StartDispatch, StartFails, StartFailsHosts,
     StartFailsLeases, Spawn, Kill, RetryResetsHosts, CancelSkipsHosts, MarkReadsHosts, MarkReadsAttempts,
     MarkSettles, MarkFinalize, DeleteCommit, MarkWritebackFails, MarkStateFails, Goto, Return, Carry
<1>3. SameRuns /\ SameWorkers
  <2>1. CASE Spawn(c)
    BY <2>1, StillRuns DEF Spawn, IdleRuns, Spawned, TypeInv, RunsTyped
  <2>2. CASE Kill(c)
    <3>1. UNCHANGED worker /\ \A r \in Runs : run'[r].pc = run[r].pc /\ run'[r].task = run[r].task /\ run'[r].res = run[r].res
      BY <2>2 DEF Kill, TypeInv, RunsTyped, Run
    <3> QED BY <3>1, RunsSame DEF StillRun
  <2>3. CASE ~Spawn(c) /\ ~Kill(c)
    <3>1. UNCHANGED <<run, worker>>
      BY <2>3 DEF ControlStep, ControlFault, StartDispatch, StartFails, StartFailsHosts,
         StartFailsLeases, RetryResetsHosts, CancelSkipsHosts, MarkReadsHosts, MarkReadsAttempts,
         MarkSettles, MarkFinalize, DeleteCommit, MarkWritebackFails, MarkStateFails
    <3> QED BY <3>1, StillRuns
  <2> QED BY <2>1, <2>2, <2>3
<1>4. \A pc : Goto(c, pc) => /\ call'[c].pc = pc /\ call'[c].task = t
                             /\ call'[c].res = call[c].res
  BY <1>1 DEF Goto, TypeInv, CallsTyped, Call
<1>5. Return(c) => call'[c].pc = "idle"
  BY DEF Return, NoCall, TypeInv, CallsTyped
<1>6. CASE \/ StartDispatch(c) \/ StartFailsLeases(c) \/ Spawn(c) \/ Kill(c)
           \/ MarkFinalize(c) \/ MarkWritebackFails(c) \/ MarkStateFails(c)
  <2>1. call'[c].pc \notin Judging \cup {"open"} /\ UNCHANGED <<status, row>>
    BY <1>4, <1>5, <1>6 DEF StartDispatch, StartFailsLeases, Spawn, Kill, MarkFinalize, MarkWritebackFails,
       MarkStateFails, Judging
  <2> QED BY <1>2, <1>3, <2>1, CallQuiet, ForgetMoves
<1>7. CASE StartFailsHosts(c) \/ RetryResetsHosts(c) \/ CancelSkipsHosts(c)
  <2>1. /\ call'[c].pc \notin Judging \cup {"open"} /\ call[c].pc \notin Judging \cup {"open"}
        /\ UNCHANGED status
        /\ \/ SetHosts(t, {"running"}, "failed") \/ SetHosts(t, {"failed", "skipped"}, "running")
           \/ SetHosts(t, {"running"}, "skipped")
    BY <1>1, <1>4, <1>7 DEF StartFailsHosts, RetryResetsHosts, CancelSkipsHosts, Judging, At
  <2>2. UNCHANGED Verdicts
    BY <1>2, <1>3, <2>1, CallQuiet
  <2>3. /\ \A u \in Tasks \ {t} : row'[u] = row[u]
        /\ \A h \in Hosts : row'[t][h] = "none" <=> row[t][h] = "none"
    BY <1>2, <2>1, HostsSet
  <2> QED BY <1>2, <2>1, <2>2, <2>3, RowsMove
<1>8. CASE StartFails(c) \/ MarkSettles(c)
  <2>1. PICK s \in FinalStatuses : CallForms(c, t, s) /\ Overwrite(t, s) /\ UNCHANGED row
    BY <1>1, <1>8 DEF StartFails, MarkSettles, CallForms, At, Judging, FinalStatuses, TypeInv, CallsTyped
  <2>2. call'[c].pc \notin Judging \cup {"open"}
    BY <1>4, <1>8 DEF StartFails, MarkSettles, Judging
  <2>3. /\ Verdicts'[t] \subseteq Verdicts[t]
        /\ \A u \in Tasks \ {t} : Verdicts'[u] = Verdicts[u]
    BY <1>1, <1>2, <1>3, <2>2, CallQuiet
  <2>4. s \in Verdicts[t]
    BY <1>2, <1>3, <2>1, CallVerdicts
  <2> QED BY <1>2, <2>1, <2>3, <2>4, SettleMoves
<1>9. CASE MarkReadsHosts(c)
  <2>1. /\ At(c, "report") /\ UNCHANGED <<status, row>>
        /\ call'[c].pc = AfterHosts(t, "refresh") /\ call'[c].task = t
        /\ call'[c].res = TerminalTaskStatus(t)
    BY <1>1, <1>9 DEF MarkReadsHosts, Carry, TypeInv, CallsTyped, Call
  <2>2. CASE AllDone(t)
    <3>1. TerminalTaskStatus(t) \in FinalStatuses /\ call'[c].pc = "active"
      BY <2>1, <2>2 DEF TerminalTaskStatus, AfterHosts, FinalStatuses
    <3>2. \A u \in Tasks, s \in FinalStatuses : CallForms(c, u, s)' <=> u = t /\ s = TerminalTaskStatus(t)
      BY <2>1, <3>1 DEF CallForms, Judging
    <3>3. \A u \in Tasks, s \in FinalStatuses : ~CallForms(c, u, s)
      BY <2>1 DEF CallForms, Judging, At
    <3>4. Verdicts' \in [Tasks -> SUBSET FinalStatuses]
      BY DEF Verdicts
    <3>5. \A u \in Tasks, s \in FinalStatuses :
             s \in Verdicts'[u] <=> s \in Verdicts[u] \/ (u = t /\ s = TerminalTaskStatus(t))
      BY <1>2, <1>3, <3>2, <3>3, CallVerdicts
    <3>6. Verdicts' = [Verdicts EXCEPT ![t] = @ \cup {TerminalTaskStatus(t)}]
      BY <3>1, <3>4, <3>5, VerdictsTyped
    <3> QED BY <1>2, <2>1, <2>2, <3>6, JudgeMoves
  <2>3. CASE ~AllDone(t)
    <3>1. call'[c].pc = "refresh"
      BY <2>1, <2>3 DEF AfterHosts, TerminalTaskStatus
    <3> QED BY <1>2, <1>3, <2>1, <3>1, CallQuiet, ForgetMoves DEF Judging
  <2> QED BY <2>2, <2>3
<1>10. CASE MarkReadsAttempts(c)
  <2>1. call[c].pc = "active" /\ UNCHANGED <<status, row>>
    BY <1>10 DEF MarkReadsAttempts, At
  <2>2. CASE call'[c].pc = "settle"
    <3>1. SameCalls
      BY <1>1, <1>2, <1>4, <1>10, <2>1, <2>2 DEF MarkReadsAttempts, SameCalls, CallForms, Judging
    <3> QED BY <1>3, <2>1, <3>1, SameVerdicts, StutterMoves
  <2>3. CASE call'[c].pc # "settle"
    <3>1. call'[c].pc = "refresh"
      BY <1>4, <1>10, <2>3 DEF MarkReadsAttempts, AfterAttempts
    <3> QED BY <1>2, <1>3, <2>1, <3>1, CallQuiet, ForgetMoves DEF Judging
  <2> QED BY <2>2, <2>3
<1>11. CASE DeleteCommit(c)
  <2>1. UNCHANGED Verdicts
    BY <1>2, <1>3, <1>5, <1>11, CallQuiet DEF DeleteCommit, At, Judging
  <2>2. Lifecycle!Delete(t)
    BY <1>1, <1>2, <1>11, <2>1 DEF DeleteCommit, Lifecycle!Delete, Lifecycle!Move,
       Lifecycle!Startable, Lifecycle!Active, Lifecycle!Settled, TypeInv, TablesTyped, TaskStatuses
  <2> QED BY <1>2, <2>2 DEF Lifecycle!Next, Moved
<1> QED BY <1>6, <1>7, <1>8, <1>9, <1>10, <1>11 DEF ControlStep, ControlFault
-----------------------------------------------------------------------------
LEMMA RunStepMoves ==
    ASSUME TypeInv, TypeInv', RowsFit, AllRows, NEW r \in Runs, RunStep(r) \/ RunCredentialFails(r)
    PROVE  Moved
<1>1. PICK t : t = run[r].task
  OBVIOUS
<1>2. /\ t \in Tasks /\ UNCHANGED call
      /\ \A q \in Runs : q # r => run'[q] = run[q]
  BY <1>1 DEF RunStep, RunCredentialFails, RunDropped, RunBegin, RunLeaseConflict, RunFailsTask, RunTaskGone,
     RunBoot, RunSettle, RunCancel, RunReadsHosts, RunReadsAttempts, RunSettles, RunExit, FailQueuedTask,
     RunGoto, TypeInv, RunsTyped
<1>3. SameCalls
  BY <1>2 DEF SameCalls, CallForms
<1>4. \A pc : RunGoto(r, pc) => run'[r].pc = pc /\ run'[r].task = t /\ run'[r].res = run[r].res
  BY <1>1 DEF RunGoto, TypeInv, RunsTyped, Run
<1>5. \A h \in Hosts : worker[r][h].pc \notin Judging /\ worker'[r][h].pc \notin Judging
  BY DEF RunStep, RunCredentialFails, RunDropped, RunBegin, RunLeaseConflict, RunFailsTask, RunTaskGone,
     RunBoot, RunSettle, RunCancel, RunReadsHosts, RunReadsAttempts, RunSettles, RunExit, FailQueuedTask,
     QueuedWorker, IdleWorker, Fresh, Judging, TypeInv, WorkersTyped
<1>6. \A q \in Runs \ {r}, h \in Hosts : worker'[q][h] = worker[q][h]
  BY DEF RunStep, RunCredentialFails, RunDropped, RunBegin, RunLeaseConflict, RunFailsTask, RunTaskGone,
     RunBoot, RunSettle, RunCancel, RunReadsHosts, RunReadsAttempts, RunSettles, RunExit, FailQueuedTask,
     TypeInv, WorkersTyped
<1>7. SameWorkers
  <2>1. \A h \in Hosts, u \in Tasks, s \in FinalStatuses : ~WorkerForms(r, h, u, s) /\ ~WorkerForms(r, h, u, s)'
    BY <1>5 DEF WorkerForms
  <2>2. \A q \in Runs \ {r}, h \in Hosts, u \in Tasks, s \in FinalStatuses :
           WorkerForms(q, h, u, s)' <=> WorkerForms(q, h, u, s)
    BY <1>2, <1>6 DEF WorkerForms
  <2> QED BY <2>1, <2>2 DEF SameWorkers
<1>8. Verdicts' \in [Tasks -> SUBSET FinalStatuses]
  BY DEF Verdicts
(* A statement after which this run forms no verdict drops at most its own. *)
<1>9. ASSUME run'[r].pc \notin Judging
      PROVE  /\ \A u \in Tasks : Verdicts'[u] \subseteq Verdicts[u]
             /\ \A u \in Tasks : u # t => Verdicts'[u] = Verdicts[u]
             /\ run[r].pc \notin Judging => UNCHANGED Verdicts
  <2>1. \A u \in Tasks, s \in FinalStatuses : ~RunForms(r, u, s)'
    BY <1>9 DEF RunForms
  <2>2. \A u \in Tasks, s \in FinalStatuses : s \in Verdicts'[u] => s \in Verdicts[u]
    BY <1>2, <1>3, <1>7, <2>1, RunVerdicts
  <2>3. \A u \in Tasks, s \in FinalStatuses : u # t \/ run[r].pc \notin Judging => ~RunForms(r, u, s)
    BY <1>1 DEF RunForms
  <2>4. \A u \in Tasks, s \in FinalStatuses :
           (u # t \/ run[r].pc \notin Judging) => (s \in Verdicts[u] => s \in Verdicts'[u])
    BY <1>2, <1>3, <1>7, <2>3, RunVerdicts
  <2>5. \A u \in Tasks : Verdicts[u] \subseteq FinalStatuses /\ Verdicts'[u] \subseteq FinalStatuses
    BY <1>8, VerdictsTyped
  <2>6. \A u \in Tasks : Verdicts'[u] \subseteq Verdicts[u]
    BY <2>2, <2>5
  <2>7. \A u \in Tasks : u # t \/ run[r].pc \notin Judging => Verdicts'[u] = Verdicts[u]
    BY <2>2, <2>4, <2>5
  <2> QED BY <1>8, <2>6, <2>7, VerdictsTyped
<1>10. CASE RunDropped(r) \/ RunBegin(r) \/ RunTaskGone(r) \/ RunBoot(r) \/ RunSettle(r) \/ RunExit(r)
  <2>1. run'[r].pc \notin Judging /\ UNCHANGED <<status, row>>
    BY <1>4, <1>10 DEF RunDropped, RunBegin, RunTaskGone, RunBoot, RunSettle, RunExit, IdleRun, Judging, TypeInv, RunsTyped
  <2> QED BY <1>9, <2>1, ForgetMoves
<1>11. CASE RunCredentialFails(r) \/ RunLeaseConflict(r)
  <2>1. /\ run'[r].pc \notin Judging /\ run[r].pc \notin Judging
        /\ UNCHANGED status /\ SetHosts(t, {"running"}, "failed")
    BY <1>1, <1>4, <1>11 DEF RunCredentialFails, RunLeaseConflict, FailQueuedTask, Judging
  <2> QED BY <1>2, <1>9, <2>1, HostsSet, RowsMove
<1>12. CASE RunFailsTask(r) \/ RunCancel(r)
  <2>1. /\ run'[r].pc \notin Judging /\ run[r].pc \notin Judging /\ UNCHANGED row
        /\ SetStatus(t, {"running"}, "failed") \/ SetStatus(t, {"cancel_requested"}, "canceled")
    BY <1>1, <1>4, <1>12 DEF RunFailsTask, RunCancel, Judging
  <2> QED BY <1>2, <1>9, <2>1, StatusMoves
<1>13. CASE RunReadsHosts(r)
  <2>1. /\ run[r].pc = "recompute" /\ UNCHANGED <<status, row>>
        /\ run'[r].pc = AfterHosts(t, "exit") /\ run'[r].task = t
        /\ run'[r].res = TerminalTaskStatus(t)
    BY <1>1, <1>13 DEF RunReadsHosts, TypeInv, RunsTyped, Run
  <2>2. CASE AllDone(t)
    <3>1. TerminalTaskStatus(t) \in FinalStatuses /\ run'[r].pc = "active"
      BY <2>1, <2>2 DEF TerminalTaskStatus, AfterHosts, FinalStatuses
    <3>2. \A u \in Tasks, s \in FinalStatuses : RunForms(r, u, s)' <=> u = t /\ s = TerminalTaskStatus(t)
      BY <2>1, <3>1 DEF RunForms, Judging
    <3>3. \A u \in Tasks, s \in FinalStatuses : ~RunForms(r, u, s)
      BY <2>1 DEF RunForms, Judging
    <3>4. \A u \in Tasks, s \in FinalStatuses :
             s \in Verdicts'[u] <=> s \in Verdicts[u] \/ (u = t /\ s = TerminalTaskStatus(t))
      BY <1>2, <1>3, <1>7, <3>2, <3>3, RunVerdicts
    <3>5. Verdicts' = [Verdicts EXCEPT ![t] = @ \cup {TerminalTaskStatus(t)}]
      BY <1>8, <3>1, <3>4, VerdictsTyped
    <3> QED BY <1>2, <2>1, <2>2, <3>5, JudgeMoves
  <2>3. CASE ~AllDone(t)
    <3>1. run'[r].pc = "exit"
      BY <2>1, <2>3 DEF AfterHosts, TerminalTaskStatus
    <3> QED BY <1>9, <2>1, <3>1, ForgetMoves DEF Judging
  <2> QED BY <2>2, <2>3
<1>14. CASE RunReadsAttempts(r)
  <2>1. run[r].pc = "active" /\ UNCHANGED <<status, row>>
    BY <1>14 DEF RunReadsAttempts
  <2>2. CASE run'[r].pc = "settle"
    <3>1. \A q \in Runs, u \in Tasks, s \in FinalStatuses : RunForms(q, u, s)' <=> RunForms(q, u, s)
      BY <1>1, <1>2, <1>4, <1>14, <2>1, <2>2 DEF RunReadsAttempts, RunForms, Judging
    <3> QED BY <1>3, <1>7, <2>1, <3>1, SameVerdicts, StutterMoves DEF SameRuns
  <2>3. CASE run'[r].pc # "settle"
    <3>1. run'[r].pc = "exit"
      BY <1>4, <1>14, <2>3 DEF RunReadsAttempts, AfterAttempts
    <3> QED BY <1>9, <2>1, <3>1, ForgetMoves DEF Judging
  <2> QED BY <2>2, <2>3
<1>15. CASE RunSettles(r)
  <2>1. PICK s \in FinalStatuses : RunForms(r, t, s) /\ Overwrite(t, s) /\ UNCHANGED row
    BY <1>1, <1>15 DEF RunSettles, RunForms, Judging, TypeInv, RunsTyped
  <2>2. run'[r].pc \notin Judging
    BY <1>4, <1>15 DEF RunSettles, Judging
  <2>3. s \in Verdicts[t]
    BY <1>2, <1>3, <1>7, <2>1, RunVerdicts
  <2> QED BY <1>2, <1>9, <2>1, <2>2, <2>3, SettleMoves
<1> QED BY <1>10, <1>11, <1>12, <1>13, <1>14, <1>15 DEF RunStep
-----------------------------------------------------------------------------
LEMMA WorkerStepMoves ==
    ASSUME TypeInv, TypeInv', RowsFit, AllRows, NEW r \in Runs, NEW h \in Hosts, WorkerStep(r, h) \/ WorkerFault(r, h)
    PROVE  Moved
<1>1. PICK t : t = run[r].task
  OBVIOUS
<1>2. /\ t \in Tasks /\ UNCHANGED call
      /\ \E w : SetWorker(r, h, w)
      /\ run' = run \/ run' = [run EXCEPT ![r].killed = TRUE]
  BY <1>1 DEF WorkerStep, WorkerFault, WorkerCheck, WorkerSkip, WorkerClaim, WorkerClaimRefused,
     ConnectFails, NextStep, StepSucceeds, StepStops, Interrupt, WorkerReport, WorkerReadsHosts,
     WorkerReadsAttempts, WorkerSettles, WorkerFinalize, FinishInterrupted, FinishSuccess, FinishFailed,
     Requeue, GiveUp, WorkerWritebackFails, WorkerStateFails, WorkerAt, WorkerExit, WorkerGoto, Outcome,
     TypeInv, RunsTyped
<1>3. SameCalls
  BY <1>2 DEF SameCalls, CallForms
<1>4. \A q \in Runs, g \in Hosts : (q # r \/ g # h) => worker'[q][g] = worker[q][g]
  BY <1>2 DEF SetWorker, TypeInv, WorkersTyped
<1>5. \A w : SetWorker(r, h, w) => worker'[r][h] = w
  BY DEF SetWorker, TypeInv, WorkersTyped
<1>6. \A q \in Runs : run'[q].pc = run[q].pc /\ run'[q].task = run[q].task /\ run'[q].res = run[q].res
  BY <1>2 DEF TypeInv, RunsTyped, Run
<1>7. SameRuns
  BY <1>6 DEF SameRuns, RunForms
<1>8. Verdicts' \in [Tasks -> SUBSET FinalStatuses]
  BY DEF Verdicts
<1>9. \A q \in Runs, g \in Hosts, u \in Tasks, s \in FinalStatuses :
         (q # r \/ g # h) => (WorkerForms(q, g, u, s)' <=> WorkerForms(q, g, u, s))
  BY <1>4, <1>6 DEF WorkerForms
<1>10. /\ \A w : WorkerGoto(r, h, w) => worker'[r][h].pc = w /\ worker'[r][h].res = worker[r][h].res
       /\ \A w, v : Outcome(r, h, w, v) => worker'[r][h].pc = w /\ worker'[r][h].res = v
       /\ WorkerExit(r, h) => worker'[r][h].pc = "idle"
  <2>1. worker[r][h] \in Worker
    BY DEF TypeInv, WorkersTyped
  <2>2. ASSUME NEW w, WorkerGoto(r, h, w)
        PROVE  worker'[r][h].pc = w /\ worker'[r][h].res = worker[r][h].res
    BY <1>5, <2>1, <2>2 DEF WorkerGoto, Worker
  <2>3. ASSUME NEW w, NEW v, Outcome(r, h, w, v)
        PROVE  worker'[r][h].pc = w /\ worker'[r][h].res = v
    BY <1>5, <2>1, <2>3 DEF Outcome, Worker
  <2>4. WorkerExit(r, h) => worker'[r][h].pc = "idle"
    BY <1>5 DEF WorkerExit, IdleWorker, Fresh
  <2> QED BY <2>2, <2>3, <2>4
(* A statement after which this goroutine forms no verdict.                 *)
<1>11. ASSUME worker'[r][h].pc \notin Judging
       PROVE  /\ \A u \in Tasks : Verdicts'[u] \subseteq Verdicts[u]
              /\ \A u \in Tasks : u # t => Verdicts'[u] = Verdicts[u]
              /\ worker[r][h].pc \notin Judging => UNCHANGED Verdicts
  <2>1. \A u \in Tasks, s \in FinalStatuses : ~WorkerForms(r, h, u, s)'
    BY <1>11 DEF WorkerForms
  <2>2. \A u \in Tasks, s \in FinalStatuses : s \in Verdicts'[u] => s \in Verdicts[u]
    BY <1>3, <1>7, <1>9, <2>1 DEF SameCalls, SameRuns, Verdicts
  <2>3. \A u \in Tasks, s \in FinalStatuses : u # t \/ worker[r][h].pc \notin Judging => ~WorkerForms(r, h, u, s)
    BY <1>1 DEF WorkerForms
  <2>4. \A u \in Tasks, s \in FinalStatuses :
           (u # t \/ worker[r][h].pc \notin Judging) => (s \in Verdicts[u] => s \in Verdicts'[u])
    BY <1>3, <1>7, <1>9, <2>3 DEF SameCalls, SameRuns, Verdicts
  <2>5. \A u \in Tasks : Verdicts[u] \subseteq FinalStatuses /\ Verdicts'[u] \subseteq FinalStatuses
    BY <1>8, VerdictsTyped
  <2>6. \A u \in Tasks : Verdicts'[u] \subseteq Verdicts[u]
    BY <2>2, <2>5
  <2>7. \A u \in Tasks : u # t \/ worker[r][h].pc \notin Judging => Verdicts'[u] = Verdicts[u]
    BY <2>2, <2>4, <2>5
  <2> QED BY <1>8, <2>6, <2>7, VerdictsTyped
<1>12. CASE \/ WorkerCheck(r, h) \/ WorkerSkip(r, h) \/ WorkerClaim(r, h) \/ WorkerClaimRefused(r, h)
            \/ ConnectFails(r, h) \/ NextStep(r, h) \/ StepSucceeds(r, h) \/ StepStops(r, h)
            \/ WorkerFinalize(r, h) \/ FinishInterrupted(r, h) \/ FinishSuccess(r, h)
            \/ FinishFailed(r, h) \/ GiveUp(r, h) \/ WorkerWritebackFails(r, h) \/ WorkerStateFails(r, h)
  <2>1. UNCHANGED <<status, row>>
    BY <1>12 DEF WorkerCheck, WorkerSkip, WorkerClaim, WorkerClaimRefused, ConnectFails, NextStep,
       StepSucceeds, StepStops, WorkerFinalize, FinishInterrupted, FinishSuccess, FinishFailed, GiveUp,
       WorkerWritebackFails, WorkerStateFails
  <2>2. worker'[r][h].pc \notin Judging
    <3>1. CASE WorkerClaim(r, h)
      BY <1>5, <1>10, <3>1 DEF WorkerClaim, Claimed, Judging
    <3>2. CASE WorkerCheck(r, h) \/ WorkerSkip(r, h) \/ WorkerClaimRefused(r, h) \/ GiveUp(r, h)
      BY <1>10, <3>2 DEF WorkerCheck, WorkerSkip, WorkerClaimRefused, GiveUp, Judging
    <3>3. CASE FinishInterrupted(r, h) \/ FinishSuccess(r, h) \/ FinishFailed(r, h)
      BY <1>10, <3>3 DEF FinishInterrupted, FinishSuccess, FinishFailed, Judging
    <3>4. CASE ConnectFails(r, h)
      BY <1>10, <3>4 DEF ConnectFails, Judging
    <3>5. CASE WorkerFinalize(r, h)
      <4>1. \E v : Outcome(r, h, "finish", v)
        BY <3>5 DEF WorkerFinalize
      <4> QED BY <1>10, <4>1 DEF Judging
    <3>6. CASE WorkerWritebackFails(r, h) \/ WorkerStateFails(r, h)
      <4>1. \E v : Outcome(r, h, "finish", v)
        BY <3>6 DEF WorkerWritebackFails, WorkerStateFails
      <4> QED BY <1>10, <4>1 DEF Judging
    <3>7. CASE NextStep(r, h)
      <4>1. \/ WorkerGoto(r, h, "interrupt") \/ WorkerGoto(r, h, "script") \/ Outcome(r, h, "report", "success")
            \/ /\ SetWorker(r, h, [worker[r][h] EXCEPT !.step = @ + 1])
               /\ worker[r][h].pc = "exec"
        BY <3>7 DEF NextStep, WorkerAt
      <4>2. worker[r][h] \in Worker
        BY DEF TypeInv, WorkersTyped
      <4>3. ASSUME SetWorker(r, h, [worker[r][h] EXCEPT !.step = @ + 1]), worker[r][h].pc = "exec"
            PROVE  worker'[r][h].pc = "exec"
        BY <1>5, <4>2, <4>3 DEF Worker
      <4>4. worker'[r][h].pc \in {"exec", "interrupt", "script", "report"}
        BY <1>10, <4>1, <4>3
      <4> QED BY <4>4 DEF Judging
    <3>8. CASE StepSucceeds(r, h) \/ StepStops(r, h)
      <4>1. worker[r][h] \in Worker
        BY DEF TypeInv, WorkersTyped
      <4>2. \/ SetWorker(r, h, [worker[r][h] EXCEPT !.pc = "exec", !.step = @ + 1])
            \/ SetWorker(r, h, [worker[r][h] EXCEPT !.pc = "exec", !.step = @ + 1, !.res = "canceled"])
            \/ SetWorker(r, h, [worker[r][h] EXCEPT !.pc = "report", !.res = "failed"])
        BY <3>8 DEF StepSucceeds, StepStops
      <4>3. worker'[r][h].pc \in {"exec", "report"}
        BY <1>5, <4>1, <4>2 DEF Worker
      <4> QED BY <4>3 DEF Judging
    <3> QED BY <1>12, <3>1, <3>2, <3>3, <3>4, <3>5, <3>6, <3>7, <3>8
  <2> QED BY <1>11, <2>1, <2>2, ForgetMoves
<1>13. CASE Interrupt(r, h)
  <2>1. UNCHANGED Verdicts
    BY <1>10, <1>11, <1>13 DEF Interrupt, WorkerAt, Judging
  <2> QED BY <1>1, <1>2, <1>13, <2>1, StatusMoves DEF Interrupt
<1>14. CASE WorkerReport(r, h) \/ Requeue(r, h)
  <2>1. UNCHANGED Verdicts
    BY <1>5, <1>10, <1>11, <1>14 DEF WorkerReport, Requeue, WorkerAt, Fresh, Judging
  <2>2. worker[r][h].pc = "report" => worker[r][h].res # "none"
    BY DEF TypeInv, WorkersTyped, WorkerFit
  <2>3. /\ UNCHANGED status
        /\ \/ UNCHANGED row
           \/ \E to : row' = [row EXCEPT ![t][h] = to] /\ (row[t][h] = "none" <=> to = "none")
    <3>1. CASE WorkerReport(r, h)
      <4>1. /\ UNCHANGED status /\ worker[r][h].pc = "report"
            /\ row' = IF row[t][h] = "running" THEN [row EXCEPT ![t][h] = worker[r][h].res] ELSE row
        BY <1>1, <3>1 DEF WorkerReport, WorkerAt
      <4>2. CASE row[t][h] = "running"
        BY <2>2, <4>1, <4>2
      <4>3. CASE row[t][h] # "running"
        BY <4>1, <4>3
      <4> QED BY <4>2, <4>3
    <3>2. CASE Requeue(r, h)
      <4>1. /\ UNCHANGED status
            /\ row' = [row EXCEPT ![t][h] = IF @ = "none" THEN "none" ELSE "running"]
        BY <1>1, <3>2 DEF Requeue
      <4>2. row' = [row EXCEPT ![t][h] = IF row[t][h] = "none" THEN "none" ELSE "running"]
        BY <4>1
      <4> DEFINE to == IF row[t][h] = "none" THEN "none" ELSE "running"
      <4>3. row' = [row EXCEPT ![t][h] = to] /\ (row[t][h] = "none" <=> to = "none")
        BY <4>2
      <4> HIDE DEF to
      <4> QED BY <4>1, <4>3
    <3> QED BY <1>14, <3>1, <3>2
  <2>4. /\ \A u \in Tasks \ {t} : row'[u] = row[u]
        /\ \A g \in Hosts : row'[t][g] = "none" <=> row[t][g] = "none"
    BY <1>2, <2>3 DEF TypeInv, TablesTyped
  <2> QED BY <1>2, <2>1, <2>3, <2>4, RowsMove
<1>15. CASE WorkerReadsHosts(r, h)
  <2>1. /\ worker[r][h].pc = "finalize" /\ UNCHANGED <<status, row>>
        /\ worker'[r][h].pc = AfterHosts(t, "refresh")
        /\ worker'[r][h].res = TerminalTaskStatus(t)
    BY <1>1, <1>10, <1>15 DEF WorkerReadsHosts, WorkerAt
  <2>2. CASE AllDone(t)
    <3>1. TerminalTaskStatus(t) \in FinalStatuses /\ worker'[r][h].pc = "active"
      BY <2>1, <2>2 DEF TerminalTaskStatus, AfterHosts, FinalStatuses
    <3>2. \A u \in Tasks, s \in FinalStatuses : WorkerForms(r, h, u, s)' <=> u = t /\ s = TerminalTaskStatus(t)
      BY <1>1, <1>6, <2>1, <3>1 DEF WorkerForms, Judging
    <3>3. \A u \in Tasks, s \in FinalStatuses : ~WorkerForms(r, h, u, s)
      BY <2>1 DEF WorkerForms, Judging
    <3>4. \A u \in Tasks, s \in FinalStatuses :
             s \in Verdicts'[u] <=> s \in Verdicts[u] \/ (u = t /\ s = TerminalTaskStatus(t))
      BY <1>3, <1>7, <1>9, <3>2, <3>3 DEF SameCalls, SameRuns, Verdicts
    <3>5. Verdicts' = [Verdicts EXCEPT ![t] = @ \cup {TerminalTaskStatus(t)}]
      BY <1>8, <3>1, <3>4, VerdictsTyped
    <3> QED BY <1>2, <2>1, <2>2, <3>5, JudgeMoves
  <2>3. CASE ~AllDone(t)
    <3>1. worker'[r][h].pc = "refresh"
      BY <2>1, <2>3 DEF AfterHosts, TerminalTaskStatus
    <3> QED BY <1>11, <2>1, <3>1, ForgetMoves DEF Judging
  <2> QED BY <2>2, <2>3
<1>16. CASE WorkerReadsAttempts(r, h)
  <2>1. worker[r][h].pc = "active" /\ UNCHANGED <<status, row>>
    BY <1>16 DEF WorkerReadsAttempts, WorkerAt
  <2>2. CASE worker'[r][h].pc = "settle"
    <3>1. \A u \in Tasks, s \in FinalStatuses : WorkerForms(r, h, u, s)' <=> WorkerForms(r, h, u, s)
      BY <1>6, <1>10, <1>16, <2>1, <2>2 DEF WorkerReadsAttempts, WorkerForms, Judging
    <3> QED BY <1>3, <1>7, <1>9, <2>1, <3>1, SameVerdicts, StutterMoves DEF SameWorkers
  <2>3. CASE worker'[r][h].pc # "settle"
    <3>1. worker'[r][h].pc = "refresh"
      BY <1>10, <1>16, <2>3 DEF WorkerReadsAttempts, AfterAttempts
    <3> QED BY <1>11, <2>1, <3>1, ForgetMoves DEF Judging
  <2> QED BY <2>2, <2>3
<1>17. CASE WorkerSettles(r, h)
  <2>1. PICK s \in FinalStatuses : WorkerForms(r, h, t, s) /\ Overwrite(t, s) /\ UNCHANGED row
    BY <1>1, <1>17 DEF WorkerSettles, WorkerAt, WorkerForms, Judging, TypeInv, WorkersTyped, WorkerFit
  <2>2. worker'[r][h].pc \notin Judging
    BY <1>10, <1>17 DEF WorkerSettles, Judging
  <2>3. s \in Verdicts[t]
    BY <1>2, <2>1 DEF Verdicts
  <2> QED BY <1>2, <1>11, <2>1, <2>2, <2>3, SettleMoves
<1> QED BY <1>12, <1>13, <1>14, <1>15, <1>16, <1>17 DEF WorkerStep, WorkerFault
-----------------------------------------------------------------------------
LEMMA RestartMoves ==
    ASSUME TypeInv, NEW p \in Procs, Restart(p)
    PROVE  Moved
<1> DEFINE ts == {t \in Tasks : status[t] = "pause_requested"}
<1>1. \A r \in Runs : run'[r] = run[r] \/ (run[r].pc = "idle" /\ run'[r].pc = "spawned")
  BY DEF Restart, IdleRuns, Spawned
<1>2. SameCalls
  BY DEF Restart, SameCalls, CallForms
<1>3. UNCHANGED <<row, Verdicts>>
  BY <1>1, <1>2, StillRuns, SameVerdicts DEF Restart
<1>4. status' = [t \in Tasks |-> IF t \in ts THEN "paused" ELSE status[t]]
  BY DEF Restart
<1>5. ts \in SUBSET {t \in Tasks : status[t] = "pause_requested"}
  OBVIOUS
<1> HIDE DEF ts
<1>6. Lifecycle!Paused
  BY <1>3, <1>4, <1>5 DEF Lifecycle!Paused
<1> QED BY <1>6 DEF Lifecycle!Next, Moved

(* What a process knew dies with it.                                        *)
LEMMA CrashMoves ==
    ASSUME TypeInv, NEW p \in Procs, Crash(p)
    PROVE  Moved
<1>1. \A c \in Clients : call'[c] = call[c] \/ call'[c].pc = "idle"
  BY DEF Crash, NoCall
<1>2. \A r \in Runs : \/ run'[r] = run[r] /\ \A h \in Hosts : worker'[r][h] = worker[r][h]
                      \/ run'[r].pc = "idle" /\ \A h \in Hosts : worker'[r][h].pc = "idle"
  BY DEF Crash, IdleRun, IdleWorker, Fresh
<1>3. \A t \in Tasks, s \in FinalStatuses :
         /\ \A c \in Clients : CallForms(c, t, s)' => CallForms(c, t, s)
         /\ \A r \in Runs : RunForms(r, t, s)' => RunForms(r, t, s)
         /\ \A r \in Runs, h \in Hosts : WorkerForms(r, h, t, s)' => WorkerForms(r, h, t, s)
  BY <1>1, <1>2 DEF CallForms, RunForms, WorkerForms, Judging
<1>4. \A t \in Tasks : Verdicts'[t] \subseteq Verdicts[t]
  BY <1>3 DEF Verdicts
<1> QED BY <1>4, ForgetMoves DEF Crash

LEMMA NextMoves ==
    ASSUME TypeInv, TypeInv', RowsFit, AllRows, [Next]_vars
    PROVE  Moved
<1>1. ASSUME UNCHANGED <<status, row, call, run, worker>>
      PROVE  Moved
  BY <1>1, StutterMoves DEF Verdicts, CallForms, RunForms, WorkerForms
<1>2. CASE UNCHANGED vars
  BY <1>1, <1>2 DEF vars
<1>3. ASSUME NEW h \in Hosts, LeaseExpires(h) \/ \E t \in Tasks : AttemptExpires(t, h)
      PROVE  Moved
  BY <1>1, <1>3 DEF LeaseExpires, AttemptExpires
<1>4. CASE Environment
  BY <1>3, <1>4, CrashMoves, RestartMoves, ControlStepMoves, RunStepMoves, WorkerStepMoves DEF Environment
<1>5. CASE Next /\ ~Environment
  BY <1>5, ControlRequestMoves, ControlStepMoves, RunStepMoves, WorkerStepMoves DEF Next
<1> QED BY <1>2, <1>4, <1>5
-----------------------------------------------------------------------------
(* The lifecycle keeps its invariant: rows come with a start and go with a   *)
(* deletion, and verdicts are formed on started tasks only.                  *)
LEMMA LifecycleKeeps ==
    ASSUME TypeInv, RowsFit, AllRows, Moved
    PROVE  RowsFit' /\ AllRows'
<1> DEFINE Fits(t) == /\ status'[t] \in Bare => \A h \in Hosts : row'[t][h] = "none"
                      /\ status'[t] \in {"draft", "pending"} => Verdicts'[t] = {}
                      /\ status'[t] # "pending"
                      /\ status'[t] \notin Bare => \A h \in Hosts : row'[t][h] # "none"
<1> SUFFICES ASSUME NEW t \in Tasks
             PROVE  Fits(t)
  BY DEF RowsFit, AllRows
<1>0. /\ status \in [Tasks -> TaskStatuses] /\ row \in [Tasks -> [Hosts -> HostStatuses]]
      /\ Verdicts \in [Tasks -> SUBSET FinalStatuses]
  BY VerdictsTyped DEF TypeInv, TablesTyped
<1>1. CASE UNCHANGED <<status, row, Verdicts>>
  BY <1>1 DEF RowsFit, AllRows
<1>2. CASE Lifecycle!Paused \/ Lifecycle!Forget
  BY <1>0, <1>2 DEF Lifecycle!Paused, Lifecycle!Forget, RowsFit, AllRows, Bare
<1>3. ASSUME NEW u \in Tasks, Lifecycle!Start(u)
      PROVE  Fits(t)
  BY <1>0, <1>3 DEF Lifecycle!Start, Lifecycle!Move, Lifecycle!Form, RowsFit, AllRows, Bare
<1>4. ASSUME NEW u \in Tasks, \/ Lifecycle!Pause(u) \/ Lifecycle!Resume(u) \/ Lifecycle!Retry(u)
                              \/ Lifecycle!RequestCancel(u) \/ Lifecycle!Cancel(u) \/ Lifecycle!Abandon(u)
      PROVE  Fits(t)
  BY <1>0, <1>4 DEF Lifecycle!Pause, Lifecycle!Resume, Lifecycle!Retry, Lifecycle!RequestCancel,
     Lifecycle!Cancel, Lifecycle!Abandon, Lifecycle!Move, RowsFit, AllRows, Bare
<1>5. ASSUME NEW u \in Tasks, Lifecycle!Judge(u)
      PROVE  Fits(t)
  BY <1>0, <1>5 DEF Lifecycle!Judge, Lifecycle!Form, Lifecycle!Active, Lifecycle!Settled, RowsFit, AllRows, Bare
<1>6. ASSUME NEW u \in Tasks, Lifecycle!Settle(u)
      PROVE  Fits(t)
  <2>1. PICK s \in Verdicts[u] : status[u] \in Started /\ status' = [status EXCEPT ![u] = s]
    BY <1>6 DEF Lifecycle!Settle, Lifecycle!Move, Started
  <2>2. /\ status'[t] = IF t = u THEN s ELSE status[t]
        /\ row' = row /\ Verdicts'[t] \subseteq Verdicts[t]
    BY <1>0, <1>6, <2>1 DEF Lifecycle!Settle
  <2>3. s \in FinalStatuses /\ status[u] \notin Bare
    BY <1>0, <2>1 DEF Started, Bare, Lifecycle!Active, Lifecycle!Settled
  <2> QED BY <2>2, <2>3 DEF RowsFit, AllRows, Bare, FinalStatuses
<1>7. ASSUME NEW u \in Tasks, Lifecycle!HostsChange(u)
      PROVE  Fits(t)
  BY <1>0, <1>7 DEF Lifecycle!HostsChange, Lifecycle!Active, Lifecycle!Settled, Lifecycle!HostResults,
     RowsFit, AllRows, Bare
<1>8. ASSUME NEW u \in Tasks, Lifecycle!Delete(u)
      PROVE  Fits(t)
  BY <1>0, <1>8 DEF Lifecycle!Delete, Lifecycle!Move, RowsFit, AllRows, Bare
<1> QED BY <1>1, <1>2, <1>3, <1>4, <1>5, <1>6, <1>7, <1>8 DEF Moved, Lifecycle!Next

LEMMA RowsHold == Spec => [](RowsFit /\ AllRows)
<1>1. Init => RowsFit /\ AllRows
  BY DEF Init, RowsFit, AllRows, Bare, Verdicts, CallForms, RunForms, WorkerForms, NoCall, IdleRun, IdleWorker,
     Fresh, Judging
<1>2. TypeInv /\ TypeInv' /\ RowsFit /\ AllRows /\ [Next]_vars => RowsFit' /\ AllRows'
  BY NextMoves, LifecycleKeeps
<1> QED BY <1>1, <1>2, TypeCorrect, PTL DEF Spec
-----------------------------------------------------------------------------
(* The engine implements the lifecycle: whatever its requests, goroutines    *)
(* and faults do to a task row and its host rows, in statements that come    *)
(* between one another, is a step that DeployLifecycle allows.               *)
THEOREM LifecycleHolds == Spec => LifecycleSpec
<1>1. Init => Lifecycle!Init
  <2>1. Init => Verdicts = [t \in Tasks |-> {}]
    BY DEF Init, Verdicts, CallForms, RunForms, WorkerForms, NoCall, IdleRun, IdleWorker, Fresh, Judging
  <2> QED BY <2>1 DEF Init, Lifecycle!Init
<1>2. TypeInv /\ TypeInv' /\ RowsFit /\ AllRows /\ [Next]_vars => [Lifecycle!Next]_<<status, row, Verdicts>>
  BY NextMoves DEF Moved
<1> QED BY <1>1, <1>2, TypeCorrect, RowsHold, PTL DEF Spec, LifecycleSpec, Lifecycle!Spec, Lifecycle!vars
(* The engines in which nothing writes a status behind the driver of a task: *)
(* no pause or report recomputes it, no process crashes, no claim expires    *)
(* under its worker and no request acts on a status it read before.          *)
Undisturbed == Events \cap {"pause", "report", "crash", "attemptExpiry", "stale"} = {}

(* Who may drive task t on: a request that has started or retried it, or    *)
(* the goroutine of its run until it has settled the task.                  *)
CallDrives(c, t) == call[c].task = t /\ call[c].pc \in {"open", "spawn", "reset"}
RunDrives(r, t) ==
    /\ run[r].task = t
    /\ run[r].pc \in {"spawned", "boot", "failtask", "hosts", "cancel", "recompute", "active", "settle"}
Driven(t) == (\E c \in Clients : CallDrives(c, t)) \/ (\E r \in Runs : RunDrives(r, t))

OneDriver(t) ==
    /\ \A c, d \in Clients : CallDrives(c, t) /\ CallDrives(d, t) => c = d
    /\ \A r, q \in Runs : RunDrives(r, t) /\ RunDrives(q, t) => r = q
    /\ \A c \in Clients, r \in Runs : ~(CallDrives(c, t) /\ RunDrives(r, t))

UnderWay == {"running", "cancel_requested", "deleted"}
Calm ==
    /\ \A t \in Tasks : status[t] \notin {"pause_requested", "paused"}
    /\ \A c \in Clients : call[c].pc \notin Reporting
    /\ \A p \in Procs : up[p]
DriverInv ==
    /\ Calm
    /\ \A t \in Tasks : OneDriver(t) /\ (Driven(t) => status[t] \in UnderWay)
-----------------------------------------------------------------------------
NoNewDriver(t) ==
    /\ \A c \in Clients : CallDrives(c, t)' => CallDrives(c, t)
    /\ \A r \in Runs : RunDrives(r, t)' => RunDrives(r, t)
StatusAllowed(t) == status'[t] = status[t] \/ status'[t] \in UnderWay \/ ~Driven(t)'

LEMMA DriversLeft ==
    ASSUME DriverInv, Calm', NEW t \in Tasks, NoNewDriver(t), StatusAllowed(t)
    PROVE  OneDriver(t)' /\ (Driven(t)' => status'[t] \in UnderWay)
<1>1. Driven(t)' => Driven(t)
  BY DEF Driven, NoNewDriver
<1>2. OneDriver(t)'
  BY DEF DriverInv, OneDriver, NoNewDriver
<1> QED BY <1>1, <1>2 DEF DriverInv, StatusAllowed

(* A host goroutine holds a live claim, so it never settles its task.       *)
LEMMA HeldIsLive ==
    ASSUME TypeInv, LedgerInv, "attemptExpiry" \notin Events,
           NEW r \in Runs, NEW h \in Hosts, Holding(r, h)
    PROVE  run[r].task \in Tasks /\ worker[r][h].att \in LiveAttempts(run[r].task, h)
<1>1. run[r].task \in Tasks
  BY DEF TypeInv, RunsTyped, WorkersTyped, Holding
<1>2. /\ worker[r][h].att \in DOMAIN attempts[run[r].task][h]
      /\ attempts[run[r].task][h][worker[r][h].att] = [status |-> "running", live |-> TRUE]
  BY DEF LedgerInv, HeldOpen, HeldLive
<1>3. [status |-> "running", live |-> TRUE].status = "running" /\ [status |-> "running", live |-> TRUE].live
  OBVIOUS
<1> QED BY <1>1, <1>2, <1>3, Zenon DEF LiveAttempts

(* So it never gets to write a status.                                      *)
NoWorkerSettles == \A r \in Runs, h \in Hosts : worker[r][h].pc # "settle"

LEMMA WorkerSettlesNot ==
    ASSUME TypeInv, TypeInv', LedgerInv, NoWorkerSettles, "attemptExpiry" \notin Events, [Next]_vars
    PROVE  NoWorkerSettles'
<1> SUFFICES ASSUME NEW r \in Runs, NEW h \in Hosts, worker'[r][h].pc = "settle"
             PROVE  FALSE
  BY DEF NoWorkerSettles
<1>1. worker'[r][h] # worker[r][h]
  BY DEF NoWorkerSettles
<1>2. worker[r][h] \in Worker /\ worker'[r][h] \in Worker
  BY DEF TypeInv, WorkersTyped
<1>3. ASSUME NEW q \in Runs, NEW g \in Hosts, WorkerStep(q, g) \/ WorkerFault(q, g)
      PROVE  FALSE
  <2>1. q = r /\ g = h
    <3>1. WorkerMove(q, g)
      BY <1>3, WorkerMovesCkpt
    <3> QED BY <1>1, <3>1 DEF WorkerMove
  <2>2. \A w : SetWorker(r, h, w) => worker'[r][h] = w
    BY OwnWorkerOnly
  <2>3. CASE WorkerReadsAttempts(r, h)
    <3>1. Holding(r, h)
      BY <2>3 DEF WorkerReadsAttempts, WorkerAt, Holding
    <3>2. HasActiveAttempt(run[r].task)
      BY <3>1, HeldIsLive DEF HasActiveAttempt
    <3> QED BY <1>2, <2>2, <2>3, <3>2 DEF WorkerReadsAttempts, AfterAttempts, WorkerGoto, Worker
  <2>4. CASE ~WorkerReadsAttempts(r, h)
    <3>1. \/ \E pc \in WorkerPoints \ {"settle"} :
                WorkerGoto(r, h, pc) \/ \E res : Outcome(r, h, pc, res)
          \/ \E w : SetWorker(r, h, w) /\ w.pc # "settle"
      <4>1. CASE WorkerClaim(r, h) \/ Requeue(r, h)
        BY <4>1 DEF WorkerClaim, Claimed, Requeue, Fresh
      <4>2. CASE WorkerCheck(r, h) \/ WorkerSkip(r, h) \/ WorkerClaimRefused(r, h) \/ GiveUp(r, h)
                 \/ FinishInterrupted(r, h) \/ FinishSuccess(r, h) \/ FinishFailed(r, h)
        BY <4>2 DEF WorkerCheck, WorkerSkip, WorkerClaimRefused, GiveUp, FinishInterrupted, FinishSuccess,
           FinishFailed, WorkerExit, IdleWorker, Fresh, WorkerPoints
      <4>3. CASE WorkerReadsHosts(r, h)
        BY <4>3 DEF WorkerReadsHosts, AfterHosts, WorkerPoints
      <4>4. CASE NextStep(r, h) \/ StepSucceeds(r, h) \/ StepStops(r, h)
        <5>1. \/ WorkerGoto(r, h, "interrupt") \/ WorkerGoto(r, h, "script") \/ Outcome(r, h, "report", "success")
              \/ SetWorker(r, h, [worker[r][h] EXCEPT !.step = @ + 1]) /\ worker[r][h].pc = "exec"
              \/ SetWorker(r, h, [worker[r][h] EXCEPT !.pc = "exec", !.step = @ + 1])
              \/ SetWorker(r, h, [worker[r][h] EXCEPT !.pc = "exec", !.step = @ + 1, !.res = "canceled"])
              \/ SetWorker(r, h, [worker[r][h] EXCEPT !.pc = "report", !.res = "failed"])
          BY <4>4 DEF NextStep, StepSucceeds, StepStops, WorkerAt
        <5>2. worker'[r][h].pc # "settle"
          BY <1>2, <2>2, <5>1 DEF WorkerGoto, Outcome, Worker
        <5> QED BY <5>2
      <4>5. CASE Interrupt(r, h) \/ WorkerReport(r, h) \/ WorkerSettles(r, h) \/ ConnectFails(r, h)
        BY <4>5 DEF Interrupt, WorkerReport, WorkerSettles, ConnectFails, WorkerPoints
      <4>6. CASE WorkerFinalize(r, h) \/ WorkerWritebackFails(r, h) \/ WorkerStateFails(r, h)
        BY <4>6 DEF WorkerFinalize, WorkerWritebackFails, WorkerStateFails, WorkerPoints
      <4> QED BY <1>3, <2>1, <2>4, <4>1, <4>2, <4>3, <4>4, <4>5, <4>6 DEF WorkerStep, WorkerFault
    <3> QED BY <1>2, <2>2, <3>1 DEF WorkerGoto, Outcome, Worker
  <2> QED BY <2>3, <2>4
<1>4. CASE UNCHANGED worker
  BY <1>1, <1>4
<1>5. ASSUME NEW q \in Runs, RunBoot(q)
      PROVE  FALSE
  BY <1>1, <1>5 DEF RunBoot, QueuedWorker, IdleWorker, Fresh, TypeInv, WorkersTyped
<1>6. ASSUME NEW p \in Procs, Crash(p)
      PROVE  FALSE
  BY <1>1, <1>6 DEF Crash, IdleWorker, Fresh
<1>7. CASE Next /\ ~UNCHANGED worker
  <2>1. \A c \in Clients, p \in Procs, t \in Tasks : ~ControlRequest(c, p, t)
    BY <1>7 DEF ControlRequest, StartTask, PauseTask, ResumeTask, RetryTask, CancelTask, DeleteTask, MarkHostResult
  <2>2. \A c \in Clients : ~ControlStep(c) /\ ~ControlFault(c)
    BY <1>7 DEF ControlStep, ControlFault, StartDispatch, Spawn, Kill, RetryResetsHosts, CancelSkipsHosts,
       StartFails, StartFailsHosts, StartFailsLeases, MarkReadsHosts, MarkReadsAttempts, MarkSettles,
       MarkFinalize, DeleteCommit, MarkWritebackFails, MarkStateFails
  <2>3. \A q \in Runs : (RunStep(q) => RunBoot(q)) /\ ~RunCredentialFails(q)
    BY <1>7 DEF RunStep, RunCredentialFails, RunDropped, RunBegin, RunLeaseConflict, RunFailsTask, RunTaskGone,
       RunSettle, RunCancel, RunReadsHosts, RunReadsAttempts, RunSettles, RunExit, FailQueuedTask
  <2>4. /\ \A p \in Procs : ~Restart(p)
        /\ \A g \in Hosts : ~LeaseExpires(g) /\ \A t \in Tasks : ~AttemptExpires(t, g)
    BY <1>7 DEF Restart, LeaseExpires, AttemptExpires
  <2> QED BY <1>3, <1>5, <1>6, <1>7, <2>1, <2>2, <2>3, <2>4 DEF Next, Environment
<1> QED BY <1>4, <1>7 DEF vars

LEMMA NoWorkerSettlesHolds ==
    ASSUME "attemptExpiry" \notin Events
    PROVE  Spec => []NoWorkerSettles
<1>1. Init => NoWorkerSettles
  BY DEF Init, NoWorkerSettles, IdleWorker, Fresh
<1>2. TypeInv /\ TypeInv' /\ LedgerInv /\ NoWorkerSettles /\ [Next]_vars => NoWorkerSettles'
  BY WorkerSettlesNot
<1> QED BY <1>1, <1>2, TypeCorrect, LedgerCorrect, PTL DEF Spec

LEMMA WorkerKeepsStatus ==
    ASSUME TypeInv, NoWorkerSettles, Calm,
           NEW r \in Runs, NEW h \in Hosts, WorkerStep(r, h) \/ WorkerFault(r, h)
    PROVE  /\ UNCHANGED <<status, call, up>>
           /\ \A q \in Runs : run'[q].pc = run[q].pc /\ run'[q].task = run[q].task /\ run'[q].res = run[q].res
<1>1. UNCHANGED <<call, up>> /\ (run' = run \/ run' = [run EXCEPT ![r].killed = TRUE])
  BY DEF WorkerStep, WorkerFault, WorkerCheck, WorkerSkip, WorkerClaim, WorkerClaimRefused,
     ConnectFails, NextStep, StepSucceeds, StepStops, Interrupt, WorkerReport, WorkerReadsHosts,
     WorkerReadsAttempts, WorkerSettles, WorkerFinalize, FinishInterrupted, FinishSuccess, FinishFailed,
     Requeue, GiveUp, WorkerWritebackFails, WorkerStateFails
<1>2. \A q \in Runs : run'[q].pc = run[q].pc /\ run'[q].task = run[q].task /\ run'[q].res = run[q].res
  BY <1>1 DEF TypeInv, RunsTyped, Run
<1>3. ~WorkerSettles(r, h)
  BY DEF WorkerSettles, WorkerAt, NoWorkerSettles
<1>4. CASE Interrupt(r, h)
  <2>1. run[r].task \in Tasks
    BY <1>4 DEF Interrupt, WorkerAt, TypeInv, RunsTyped
  <2> QED BY <1>1, <1>2, <1>4, <2>1 DEF Interrupt, SetStatus, Calm
<1>5. CASE ~Interrupt(r, h)
  <2>1. UNCHANGED status
    BY <1>3, <1>5 DEF WorkerStep, WorkerFault, WorkerCheck, WorkerSkip, WorkerClaim, WorkerClaimRefused,
     ConnectFails, NextStep, StepSucceeds, StepStops, WorkerReport, WorkerReadsHosts, WorkerReadsAttempts,
     WorkerFinalize, FinishInterrupted, FinishSuccess, FinishFailed, Requeue, GiveUp, WorkerWritebackFails,
     WorkerStateFails
  <2> QED BY <1>1, <1>2, <2>1
<1> QED BY <1>4, <1>5
-----------------------------------------------------------------------------
FinalKept ==
    \A t \in Tasks : status[t] \in {"success", "canceled"} => status'[t] \in {status[t], "deleted"}

(* The driver of a task, once it moves, is nobody or itself.                *)
LEMMA DriverAlone ==
    ASSUME DriverInv, NEW t \in Tasks, NoNewDriver(t),
           \/ \E c \in Clients : CallDrives(c, t) /\ ~CallDrives(c, t)'
           \/ \E r \in Runs : RunDrives(r, t) /\ ~RunDrives(r, t)'
    PROVE  ~Driven(t)'
BY DEF DriverInv, OneDriver, NoNewDriver, Driven

LEMMA DriversLeave ==
    ASSUME DriverInv, Calm', \A t \in Tasks : NoNewDriver(t) /\ StatusAllowed(t)
    PROVE  DriverInv'
<1>1. ASSUME NEW t \in Tasks
      PROVE  OneDriver(t)' /\ (Driven(t)' => status'[t] \in UnderWay)
  BY DriversLeft
<1> QED BY <1>1 DEF DriverInv

LEMMA CalmKept ==
    ASSUME Calm, UNCHANGED up,
           \A c \in Clients : call'[c].pc \in Reporting => call[c].pc \in Reporting,
           \A t \in Tasks : status'[t] # status[t] => status'[t] \notin {"pause_requested", "paused"}
    PROVE  Calm'
BY DEF Calm

LEMMA RunLeaves ==
    ASSUME TypeInv, NEW r \in Runs, RunStep(r) \/ RunCredentialFails(r)
    PROVE  /\ UNCHANGED <<call, up>>
           /\ \A t \in Tasks : NoNewDriver(t)
           /\ run'[r].pc \in {"idle", "exit"} \/ UNCHANGED status
<1>1. UNCHANGED <<call, up>>
  BY DEF RunStep, RunCredentialFails, RunDropped, RunBegin, RunLeaseConflict, RunFailsTask, RunTaskGone, RunBoot,
     RunSettle, RunCancel, RunReadsHosts, RunReadsAttempts, RunSettles, RunExit, FailQueuedTask
<1>2. \/ run' = [run EXCEPT ![r] = IdleRun] /\ UNCHANGED status
      \/ RunGoto(r, "exit")
      \/ /\ \E pc : RunGoto(r, pc) \/ \E res : run' = [run EXCEPT ![r].pc = pc, ![r].res = res]
         /\ run[r].pc \in {"spawned", "boot", "hosts", "recompute", "active"} /\ UNCHANGED status
  BY DEF RunStep, RunCredentialFails, RunDropped, RunBegin, RunLeaseConflict, RunFailsTask, RunTaskGone, RunBoot,
     RunSettle, RunCancel, RunReadsHosts, RunReadsAttempts, RunSettles, RunExit, FailQueuedTask
<1>a. run[r] \in Run
  BY DEF TypeInv, RunsTyped
<1>b. ASSUME NEW pc, RunGoto(r, pc) \/ \E res : run' = [run EXCEPT ![r].pc = pc, ![r].res = res]
      PROVE  /\ \A q \in Runs : q # r => run'[q] = run[q]
             /\ run'[r].task = run[r].task /\ run'[r].pc = pc
  BY <1>a, <1>b DEF RunGoto, TypeInv, RunsTyped, Run
<1>3. /\ \A q \in Runs : q # r => run'[q] = run[q]
      /\ \/ run'[r].pc = "idle"
         \/ run'[r].pc = "exit"
         \/ /\ run'[r].task = run[r].task /\ UNCHANGED status
            /\ run[r].pc \in {"spawned", "boot", "hosts", "recompute", "active"}
  <2>1. CASE run' = [run EXCEPT ![r] = IdleRun]
    BY <2>1 DEF IdleRun, TypeInv, RunsTyped
  <2>2. CASE RunGoto(r, "exit")
    BY <1>b, <2>2
  <2>3. ASSUME NEW pc, RunGoto(r, pc) \/ \E res : run' = [run EXCEPT ![r].pc = pc, ![r].res = res],
               run[r].pc \in {"spawned", "boot", "hosts", "recompute", "active"}, UNCHANGED status
        PROVE  /\ \A q \in Runs : q # r => run'[q] = run[q]
               /\ run'[r].task = run[r].task
    BY <1>b, <2>3
  <2> QED BY <1>2, <2>1, <2>2, <2>3
<1>4. run'[r].pc \in {"idle", "exit"} \/ UNCHANGED status
  BY <1>3
<1>5. \A t \in Tasks : NoNewDriver(t)
  BY <1>1, <1>3 DEF NoNewDriver, CallDrives, RunDrives
<1> QED BY <1>1, <1>4, <1>5
(* A run that writes the status of its task drives it, and is done with it. *)
LEMMA RunStepDrives ==
    ASSUME TypeInv, DriverInv, NEW r \in Runs, RunStep(r) \/ RunCredentialFails(r)
    PROVE  DriverInv' /\ FinalKept
<1>1. CASE UNCHANGED status
  <2>1. Calm'
    BY <1>1, RunLeaves, CalmKept DEF DriverInv
  <2> QED BY <1>1, <2>1, RunLeaves, DriversLeave DEF StatusAllowed, FinalKept
<1>2. CASE ~UNCHANGED status
  <2>1. PICK t \in Tasks : t = run[r].task
    BY <1>2 DEF TypeInv, RunsTyped, RunStep, RunCredentialFails, RunDropped, RunBegin, RunLeaseConflict, RunFailsTask, RunTaskGone,
       RunBoot, RunSettle, RunCancel, RunReadsHosts, RunReadsAttempts, RunSettles, RunExit, FailQueuedTask
  <2>2. /\ run[r].pc \in {"failtask", "cancel", "settle"}
        /\ \/ SetStatus(t, {"running"}, "failed") \/ SetStatus(t, {"cancel_requested"}, "canceled")
           \/ Overwrite(t, run[r].res) /\ run[r].res \in FinalStatuses
    BY <1>2, <2>1 DEF RunStep, RunCredentialFails, RunDropped, RunBegin, RunLeaseConflict, RunFailsTask, RunTaskGone,
       RunBoot, RunSettle, RunCancel, RunReadsHosts, RunReadsAttempts, RunSettles, RunExit, FailQueuedTask,
       TypeInv, RunsTyped, Judging
  <2>3. RunDrives(r, t) /\ status[t] \in UnderWay
    BY <2>1, <2>2 DEF RunDrives, DriverInv, Driven
  <2>4. run'[r].pc \in {"idle", "exit"} /\ (\A u \in Tasks : NoNewDriver(u)) /\ UNCHANGED <<call, up>>
    BY <1>2, RunLeaves
  <2>5. ~Driven(t)'
    BY <2>3, <2>4, DriverAlone DEF RunDrives
  <2>6. /\ \A u \in Tasks \ {t} : status'[u] = status[u]
        /\ status'[t] \in {status[t], "success", "failed", "canceled"}
    BY <2>2 DEF SetStatus, Overwrite, FinalStatuses, TypeInv, TablesTyped
  <2>7. Calm'
    BY <2>4, <2>6, CalmKept DEF DriverInv
  <2>8. FinalKept
    BY <2>3, <2>6 DEF FinalKept, UnderWay
  <2> QED BY <2>4, <2>5, <2>6, <2>7, <2>8, DriversLeave DEF StatusAllowed
<1> QED BY <1>1, <1>2

LEMMA WorkerStepDrives ==
    ASSUME TypeInv, NoWorkerSettles, DriverInv,
           NEW r \in Runs, NEW h \in Hosts, WorkerStep(r, h) \/ WorkerFault(r, h)
    PROVE  DriverInv' /\ FinalKept
<1>1. /\ UNCHANGED <<status, call, up>>
      /\ \A q \in Runs : run'[q].pc = run[q].pc /\ run'[q].task = run[q].task
  BY WorkerKeepsStatus DEF DriverInv
<1>2. \A t \in Tasks : NoNewDriver(t) /\ StatusAllowed(t)
  BY <1>1 DEF NoNewDriver, CallDrives, RunDrives, StatusAllowed
<1> QED BY <1>1, <1>2, CalmKept, DriversLeave DEF DriverInv, FinalKept

(* A request whose handler does not drive its task moves its status only    *)
(* where the driver expects it.                                             *)
LEMMA RequestDrives ==
    ASSUME TypeInv, DriverInv, Undisturbed, NEW c \in Clients, NEW p \in Procs, NEW t \in Tasks,
           ControlRequest(c, p, t)
    PROVE  DriverInv' /\ FinalKept
<1> DEFINE Asks(pc) == /\ call[c].pc = "idle"
                       /\ call' = [call EXCEPT ![c] = [NoCall EXCEPT !.pc = pc, !.proc = p, !.task = t]]
           Sets(from, to) == status[t] \in from /\ status' = [status EXCEPT ![t] = to]
<1>0. /\ "pause" \notin Events /\ "report" \notin Events /\ "stale" \notin Events
      /\ status[t] \notin {"pause_requested", "paused"}
  BY DEF Undisturbed, DriverInv, Calm
<1>1. UNCHANGED <<up, run>>
  BY DEF ControlRequest, StartTask, PauseTask, ResumeTask, RetryTask, CancelTask, DeleteTask, MarkHostResult
<1>2. \/ Asks("open") /\ Sets({"draft", "pending"}, "running")
      \/ Asks("reset") /\ Sets({"failed"}, "running")
      \/ Asks("skip") /\ Sets({"pending"}, "canceled")
      \/ Asks("skip") /\ Sets({"running"}, "cancel_requested")
      \/ Asks("delete") /\ UNCHANGED status
  <2>2. CASE StartTask(c, p, t)
    BY <2>2 DEF StartTask, Request
  <2>3. CASE RetryTask(c, p, t)
    BY <2>3 DEF RetryTask, Request, SetStatus
  <2>4. CASE CancelTask(c, p, t)
    BY <1>0, <2>4 DEF CancelTask, Request
  <2>5. CASE DeleteTask(c, p, t)
    BY <1>0, <2>5 DEF DeleteTask, Request, SetStatus, FinalStatuses
  <2> QED BY <1>0, <2>2, <2>3, <2>4, <2>5 DEF ControlRequest, PauseTask, ResumeTask, MarkHostResult, Request, Event
<1>3. \A u \in Tasks \ {t} : status'[u] = status[u]
  BY <1>2 DEF TypeInv, TablesTyped
<1>4. \A b \in Clients : b # c => call'[b] = call[b]
  BY <1>2 DEF TypeInv, CallsTyped
<1>5. CASE \/ Asks("open") /\ Sets({"draft", "pending"}, "running")
           \/ Asks("reset") /\ Sets({"failed"}, "running")
  <2>1. /\ status[t] \notin UnderWay /\ status'[t] = "running"
        /\ status[t] \notin {"success", "canceled"}
    BY <1>5 DEF UnderWay, TypeInv, TablesTyped
  <2>2. call'[c].task = t /\ call'[c].pc \in {"open", "reset"}
    BY <1>5 DEF NoCall, TypeInv, CallsTyped
  <2>3. ~Driven(t)
    BY <2>1 DEF DriverInv
  <2>4. OneDriver(t)'
    BY <1>1, <1>4, <2>3 DEF OneDriver, Driven, CallDrives, RunDrives
  <2>5. \A u \in Tasks \ {t} : NoNewDriver(u) /\ StatusAllowed(u)
    BY <1>1, <1>3, <1>4, <2>2 DEF NoNewDriver, CallDrives, RunDrives, StatusAllowed
  <2>6. Calm'
    BY <1>1, <1>3, <1>4, <2>1, <2>2, CalmKept DEF DriverInv, Reporting
  <2>7. \A u \in Tasks \ {t} : OneDriver(u)' /\ (Driven(u)' => status'[u] \in UnderWay)
    BY <2>5, <2>6, DriversLeft
  <2>8. DriverInv'
    BY <2>1, <2>4, <2>6, <2>7 DEF DriverInv, UnderWay
  <2> QED BY <1>3, <2>1, <2>8 DEF FinalKept
<1>6. CASE \/ Asks("skip") /\ Sets({"pending"}, "canceled")
           \/ Asks("skip") /\ Sets({"running"}, "cancel_requested")
           \/ Asks("delete") /\ UNCHANGED status
  <2>1. call'[c].pc \in {"skip", "delete"}
    BY <1>6 DEF NoCall, TypeInv, CallsTyped
  <2>2. \A u \in Tasks : NoNewDriver(u)
    BY <1>1, <1>4, <2>1 DEF NoNewDriver, CallDrives, RunDrives
  <2>3. /\ status[t] \in {"success", "canceled"} => status'[t] = status[t]
        /\ \/ status'[t] = status[t] \/ status'[t] \in UnderWay
           \/ status[t] \notin UnderWay /\ status'[t] = "canceled"
    BY <1>6 DEF UnderWay, TypeInv, TablesTyped
  <2>4. status[t] \notin UnderWay => ~Driven(t)'
    BY <2>2 DEF DriverInv, Driven, NoNewDriver
  <2>5. Calm'
    BY <1>1, <1>3, <1>4, <2>1, <2>3, CalmKept DEF DriverInv, UnderWay, Reporting
  <2>6. DriverInv'
    BY <1>3, <2>2, <2>3, <2>4, <2>5, DriversLeave DEF StatusAllowed
  <2> QED BY <1>3, <2>3, <2>6 DEF FinalKept
<1> QED BY <1>2, <1>5, <1>6
(* The go statement that ends a handler hands its task over to the run.     *)
LEMMA SpawnDrives ==
    ASSUME TypeInv, DriverInv, NEW c \in Clients, Spawn(c)
    PROVE  DriverInv' /\ FinalKept
<1>1. PICK t \in Tasks : t = call[c].task
  BY CallTask DEF Spawn, TypeInv
<1>2. PICK r \in IdleRuns : run' = [run EXCEPT ![r] = Spawned(call[c].proc, t)]
  BY <1>1 DEF Spawn
<1>3. /\ UNCHANGED <<status, up>> /\ CallDrives(c, t)
      /\ \A b \in Clients : b # c => call'[b] = call[b]
      /\ call'[c].pc = "idle"
      /\ \A q \in Runs : q # r => run'[q] = run[q]
      /\ run[r].pc = "idle" /\ run'[r].task = t /\ run'[r].pc = "spawned" /\ r \in Runs
  BY <1>1, <1>2 DEF Spawn, Return, NoCall, At, CallDrives, IdleRuns, Spawned, TypeInv, CallsTyped, RunsTyped
<1>4. \A b \in Clients, u \in Tasks : CallDrives(b, u)' <=> CallDrives(b, u) /\ b # c
  BY <1>3 DEF CallDrives
<1>5. \A q \in Runs, u \in Tasks : RunDrives(q, u)' <=> RunDrives(q, u) \/ (q = r /\ u = t)
  BY <1>3 DEF RunDrives
<1>6. status[t] \in UnderWay /\ (\A q \in Runs : ~RunDrives(q, t)) /\ (\A b \in Clients : CallDrives(b, t) => b = c)
  BY <1>3 DEF DriverInv, OneDriver, Driven
<1>7. OneDriver(t)'
  BY <1>4, <1>5, <1>6 DEF OneDriver
<1>8. \A u \in Tasks \ {t} : NoNewDriver(u) /\ StatusAllowed(u)
  BY <1>3, <1>4, <1>5 DEF NoNewDriver, StatusAllowed
<1>9. Calm'
  BY <1>3, CalmKept DEF DriverInv, Reporting
<1>10. \A u \in Tasks \ {t} : OneDriver(u)' /\ (Driven(u)' => status'[u] \in UnderWay)
  BY <1>8, <1>9, DriversLeft
<1> QED BY <1>3, <1>6, <1>7, <1>9, <1>10 DEF DriverInv, FinalKept

LEMMA ControlStepDrives ==
    ASSUME TypeInv, DriverInv, NEW c \in Clients, ControlStep(c) \/ ControlFault(c)
    PROVE  DriverInv' /\ FinalKept
<1>1. PICK t : t = call[c].task
  OBVIOUS
<1>a. /\ \A b \in Clients : b # c => call'[b] = call[b]
      /\ UNCHANGED up
  BY DEF ControlStep, ControlFault, StartDispatch, Spawn, Kill, RetryResetsHosts, CancelSkipsHosts,
     StartFails, StartFailsHosts, StartFailsLeases, MarkReadsHosts, MarkReadsAttempts, MarkSettles, MarkFinalize,
     DeleteCommit, MarkWritebackFails, MarkStateFails, Carry, Goto, Return, TypeInv, CallsTyped
<1>b. ASSUME UNCHANGED status, \A u \in Tasks : NoNewDriver(u), call'[c].pc \notin Reporting
      PROVE  DriverInv' /\ FinalKept
  <2>1. Calm'
    BY <1>a, <1>b, CalmKept DEF DriverInv
  <2> QED BY <1>b, <2>1, DriversLeave DEF StatusAllowed, FinalKept
<1>2. CASE \/ StartDispatch(c) \/ RetryResetsHosts(c) \/ CancelSkipsHosts(c) \/ StartFailsHosts(c)
           \/ StartFailsLeases(c) \/ MarkFinalize(c) \/ MarkStateFails(c)
  <2>1. /\ UNCHANGED <<status, run>>
        /\ \/ call' = [call EXCEPT ![c].pc = "spawn"] /\ call[c].pc \in {"open", "reset"}
           \/ \E pc \in {"kill", "faillease"} : call' = [call EXCEPT ![c].pc = pc]
           \/ call' = [call EXCEPT ![c] = NoCall]
    BY <1>2 DEF StartDispatch, RetryResetsHosts, CancelSkipsHosts, StartFailsHosts, StartFailsLeases, MarkFinalize,
       MarkStateFails, Goto, Return, At
  <2>2. \/ call'[c].task = call[c].task /\ call'[c].pc = "spawn" /\ call[c].pc \in {"open", "reset"}
        \/ call'[c].pc \in {"kill", "faillease", "idle"}
    BY <2>1 DEF NoCall, TypeInv, CallsTyped, Call
  <2>3. \A u \in Tasks : NoNewDriver(u)
    BY <1>a, <2>1, <2>2 DEF NoNewDriver, CallDrives, RunDrives
  <2> QED BY <1>b, <2>1, <2>2, <2>3 DEF Reporting
<1>3. CASE Kill(c)
  <2>1. call'[c].pc = "idle" /\ UNCHANGED status
    BY <1>3 DEF Kill, Return, NoCall, TypeInv, CallsTyped
  <2>2. \A q \in Runs : run'[q].pc = run[q].pc /\ run'[q].task = run[q].task
    BY <1>3 DEF Kill, TypeInv, RunsTyped, Run
  <2>3. \A u \in Tasks : NoNewDriver(u)
    BY <1>a, <2>1, <2>2 DEF NoNewDriver, CallDrives, RunDrives
  <2> QED BY <1>b, <2>1, <2>3 DEF Reporting
<1>4. CASE DeleteCommit(c) \/ StartFails(c)
  <2>1. /\ t \in Tasks /\ call'[c].pc \in {"idle", "failhosts"} /\ UNCHANGED run
        /\ \/ status' = [status EXCEPT ![t] = "deleted"]
           \/ CallDrives(c, t) /\ Overwrite(t, "failed")
    BY <1>1, <1>4, CallTask DEF DeleteCommit, StartFails, Return, Goto, NoCall, At, CallDrives, TypeInv, CallsTyped, Call
  <2>2. \A u \in Tasks : NoNewDriver(u)
    BY <1>a, <2>1 DEF NoNewDriver, CallDrives, RunDrives
  <2>3. \A u \in Tasks \ {t} : status'[u] = status[u]
    BY <2>1 DEF Overwrite, TypeInv, TablesTyped
  <2>4. CASE status' = [status EXCEPT ![t] = "deleted"]
    <3>1. status'[t] = "deleted"
      BY <2>1, <2>4 DEF TypeInv, TablesTyped
    <3>2. Calm'
      BY <1>a, <2>1, <2>3, <3>1, CalmKept DEF DriverInv, Reporting
    <3> QED BY <2>2, <2>3, <3>1, <3>2, DriversLeave DEF StatusAllowed, FinalKept, UnderWay
  <2>5. CASE CallDrives(c, t) /\ Overwrite(t, "failed")
    <3>1. status'[t] \in {status[t], "failed"}
      BY <2>1, <2>5 DEF Overwrite, TypeInv, TablesTyped
    <3>2. Calm'
      BY <1>a, <2>1, <2>3, <3>1, CalmKept DEF DriverInv, Reporting
    <3>3. ~Driven(t)'
      BY <2>1, <2>2, <2>5, DriverAlone DEF CallDrives
    <3>4. status[t] \in UnderWay
      BY <2>1, <2>5 DEF DriverInv, Driven
    <3> QED BY <2>2, <2>3, <3>1, <3>2, <3>3, <3>4, DriversLeave DEF StatusAllowed, FinalKept, UnderWay
  <2> QED BY <2>1, <2>4, <2>5
<1> QED BY <1>2, <1>3, <1>4, SpawnDrives DEF ControlStep, ControlFault, MarkReadsHosts, MarkReadsAttempts,
        MarkSettles, MarkWritebackFails, At, DriverInv, Calm, Reporting

LEMMA NextDrives ==
    ASSUME TypeInv, NoWorkerSettles, DriverInv, Undisturbed, [Next]_vars
    PROVE  DriverInv' /\ FinalKept
<1>1. "attemptExpiry" \notin Events /\ "crash" \notin Events
  BY DEF Undisturbed
<1>2. ASSUME UNCHANGED <<status, call, run, up>>
      PROVE  DriverInv' /\ FinalKept
  <2>1. \A t \in Tasks : NoNewDriver(t) /\ StatusAllowed(t)
    BY <1>2 DEF NoNewDriver, StatusAllowed, CallDrives, RunDrives
  <2>2. Calm'
    BY <1>2 DEF DriverInv, Calm
  <2> QED BY <1>2, <2>1, <2>2, DriversLeave DEF FinalKept
<1>3. CASE UNCHANGED vars
  BY <1>2, <1>3 DEF vars
<1>4. CASE Environment
  <2>1. \A p \in Procs : ~Crash(p) /\ ~Restart(p)
    BY <1>1 DEF Crash, Restart, Event, DriverInv, Calm
  <2>2. ASSUME NEW h \in Hosts, LeaseExpires(h) \/ \E t \in Tasks : AttemptExpires(t, h)
        PROVE  DriverInv' /\ FinalKept
    BY <1>2, <2>2 DEF LeaseExpires, AttemptExpires
  <2> QED BY <1>1, <1>4, <2>1, <2>2, ControlStepDrives, RunStepDrives, WorkerStepDrives DEF Environment
<1>5. CASE Next /\ ~Environment
  BY <1>1, <1>5, RequestDrives, ControlStepDrives, RunStepDrives, WorkerStepDrives DEF Next
<1> QED BY <1>3, <1>4, <1>5

LEMMA DriverHolds ==
    ASSUME Undisturbed
    PROVE  Spec => []DriverInv
<1>1. Init => DriverInv
  BY DEF Init, DriverInv, Calm, Reporting, OneDriver, Driven, CallDrives, RunDrives, NoCall, IdleRun
<1>2. TypeInv /\ NoWorkerSettles /\ DriverInv /\ [Next]_vars => DriverInv'
  BY NextDrives
<1>3. "attemptExpiry" \notin Events
  BY DEF Undisturbed
<1> QED BY <1>1, <1>2, <1>3, TypeCorrect, NoWorkerSettlesHolds, PTL DEF Spec

(* recomputeTaskStatus, CancelTask, RetryTask: a success and a cancellation  *)
(* are final, although recomputeTaskStatus overwrites any status.            *)
THEOREM FinalIsKeptHolds ==
    ASSUME Undisturbed
    PROVE  Spec => FinalIsKept
<1>1. TypeInv /\ NoWorkerSettles /\ DriverInv /\ [Next]_vars => [FinalKept]_vars
  BY NextDrives
<1> HIDE DEF FinalKept
<1>2. Spec => [][FinalKept]_vars
  <2>1. "attemptExpiry" \notin Events
    BY DEF Undisturbed
  <2> QED BY <1>1, <2>1, TypeCorrect, NoWorkerSettlesHolds, DriverHolds, PTL DEF Spec
<1> QED BY <1>2 DEF FinalIsKept, FinalKept
-----------------------------------------------------------------------------
(* What a step does to the rows and to the status of a task.  The request    *)
(* that resets its hosts and the goroutine that runs them change rows as     *)
(* they like; anybody else settles open hosts, starts the task or deletes it. *)
Acting(t) ==
    \/ \E c \in Clients : CallDrives(c, t) /\ call[c].pc = "reset"
    \/ \E r \in Runs : RunDrives(r, t) /\ run[r].pc = "hosts"
RowMove(t) ==
    \/ row'[t] = row[t]
    \/ Acting(t)
    \/ \A h \in Hosts : row'[t][h] = row[t][h] \/ (row[t][h] = "running" /\ row'[t][h] \in {"skipped", "failed"})
    \/ status[t] \notin UnderWay /\ status'[t] = "running"
    \/ status'[t] = "deleted" /\ \A h \in Hosts : row'[t][h] = "none"
StatusMove(t) ==
    \/ status'[t] = status[t] \/ status'[t] \notin {"success", "failed"}
    \/ row'[t] = row[t] /\ \E r \in Runs : run[r].task = t /\ run[r].pc = "settle" /\ status'[t] = run[r].res
    \/ /\ row'[t] = row[t] /\ status'[t] = "failed"
       /\ "service" \in Events \/ \E r \in Runs : run[r].task = t /\ run[r].pc = "failtask"
TableMove == \A t \in Tasks : RowMove(t) /\ StatusMove(t)

LEMMA RequestTables ==
    ASSUME TypeInv, Undisturbed, NEW c \in Clients, NEW p \in Procs, NEW t \in Tasks,
           ControlRequest(c, p, t)
    PROVE  TableMove
<1>1. "report" \notin Events /\ "stale" \notin Events
  BY DEF Undisturbed
<1>2. CASE StartTask(c, p, t)
  <2>1. \A u \in Tasks : IF u = t THEN status[u] \notin UnderWay /\ status'[u] = "running"
                         ELSE status'[u] = status[u] /\ row'[u] = row[u]
    BY <1>2 DEF StartTask, UnderWay, TypeInv, TablesTyped
  <2> QED BY <2>1 DEF TableMove, RowMove, StatusMove
<1>3. CASE ~StartTask(c, p, t)
  <2>1. /\ UNCHANGED row
        /\ \/ UNCHANGED status
           \/ \E s \in {"pause_requested", "running", "canceled", "cancel_requested"} : status' = [status EXCEPT ![t] = s]
    <3>1. CASE PauseTask(c, p, t) \/ ResumeTask(c, p, t) \/ RetryTask(c, p, t)
      BY <3>1 DEF PauseTask, ResumeTask, RetryTask, SetStatus
    <3>2. CASE CancelTask(c, p, t)
      BY <3>2 DEF CancelTask
    <3>3. CASE DeleteTask(c, p, t)
      BY <1>1, <3>3 DEF DeleteTask, SetStatus, FinalStatuses
    <3> QED BY <1>1, <1>3, <3>1, <3>2, <3>3 DEF ControlRequest, MarkHostResult, Event
  <2>2. \A u \in Tasks : status'[u] = status[u] \/ status'[u] \notin {"success", "failed"}
    BY <2>1 DEF TypeInv, TablesTyped
  <2> QED BY <2>1, <2>2 DEF TableMove, RowMove, StatusMove
<1> QED BY <1>2, <1>3

(* Hosts that are open are failed or skipped.                               *)
LEMMA HostsTables ==
    ASSUME TypeInv, NEW t \in Tasks, NEW to \in {"failed", "skipped"},
           SetHosts(t, {"running"}, to), UNCHANGED status
    PROVE  TableMove
<1>1. /\ \A u \in Tasks \ {t} : row'[u] = row[u]
      /\ \A h \in Hosts : row'[t][h] = IF row[t][h] = "running" THEN to ELSE row[t][h]
  BY DEF SetHosts, TypeInv, TablesTyped
<1> QED BY <1>1 DEF TableMove, RowMove, StatusMove

LEMMA ControlStepTables ==
    ASSUME TypeInv, Calm, NEW c \in Clients, ControlStep(c) \/ ControlFault(c)
    PROVE  TableMove
<1>1. PICK t : t = call[c].task
  OBVIOUS
<1>2. t \in Tasks
  BY <1>1, CallTask DEF TypeInv, ControlStep, ControlFault, StartDispatch, Spawn, Kill, RetryResetsHosts,
     CancelSkipsHosts, StartFails, StartFailsHosts, StartFailsLeases, MarkReadsHosts, MarkReadsAttempts,
     MarkSettles, MarkFinalize, DeleteCommit, MarkWritebackFails, MarkStateFails
<1>3. CASE \/ StartDispatch(c) \/ Spawn(c) \/ Kill(c) \/ StartFailsLeases(c) \/ MarkReadsHosts(c)
           \/ MarkReadsAttempts(c) \/ MarkFinalize(c) \/ MarkWritebackFails(c) \/ MarkStateFails(c)
  BY <1>3 DEF StartDispatch, Spawn, Kill, StartFailsLeases, MarkReadsHosts, MarkReadsAttempts, MarkFinalize,
     MarkWritebackFails, MarkStateFails, TableMove, RowMove, StatusMove
<1>4. CASE RetryResetsHosts(c)
  <2>1. Acting(t) /\ UNCHANGED status /\ \A u \in Tasks \ {t} : row'[u] = row[u]
    BY <1>1, <1>2, <1>4 DEF RetryResetsHosts, SetHosts, At, Acting, CallDrives, TypeInv, TablesTyped
  <2> QED BY <2>1 DEF TableMove, RowMove, StatusMove
<1>5. CASE CancelSkipsHosts(c) \/ StartFailsHosts(c)
  <2>1. UNCHANGED status /\ \E to \in {"failed", "skipped"} : SetHosts(t, {"running"}, to)
    BY <1>1, <1>5 DEF CancelSkipsHosts, StartFailsHosts
  <2> QED BY <1>2, <2>1, HostsTables
<1>6. CASE DeleteCommit(c)
  <2>1. \A u \in Tasks : IF u = t THEN status'[u] = "deleted" /\ \A h \in Hosts : row'[u][h] = "none"
                         ELSE status'[u] = status[u] /\ row'[u] = row[u]
    BY <1>1, <1>2, <1>6 DEF DeleteCommit, TypeInv, TablesTyped
  <2> QED BY <2>1 DEF TableMove, RowMove, StatusMove
<1>7. CASE StartFails(c)
  <2>1. "service" \in Events /\ Overwrite(t, "failed") /\ UNCHANGED row
    BY <1>1, <1>7 DEF StartFails, Event
  <2>2. \A u \in Tasks : status'[u] \in {status[u], "failed"}
    BY <1>2, <2>1 DEF Overwrite, TypeInv, TablesTyped
  <2> QED BY <2>1, <2>2 DEF TableMove, RowMove, StatusMove
<1> QED BY <1>3, <1>4, <1>5, <1>6, <1>7 DEF ControlStep, ControlFault, MarkSettles, At, Calm, Reporting

LEMMA RunStepTables ==
    ASSUME TypeInv, NEW r \in Runs, RunStep(r) \/ RunCredentialFails(r)
    PROVE  TableMove
<1>1. CASE UNCHANGED <<status, row>>
  BY <1>1 DEF TableMove, RowMove, StatusMove
<1>2. CASE ~UNCHANGED <<status, row>>
  <2>1. PICK t \in Tasks : t = run[r].task
    BY <1>2 DEF TypeInv, RunsTyped, RunStep, RunCredentialFails, RunDropped, RunBegin, RunLeaseConflict, RunFailsTask,
       RunTaskGone, RunBoot, RunSettle, RunCancel, RunReadsHosts, RunReadsAttempts, RunSettles, RunExit, FailQueuedTask
  <2>2. \/ SetHosts(t, {"running"}, "failed") /\ UNCHANGED status
        \/ SetStatus(t, {"cancel_requested"}, "canceled") /\ UNCHANGED row
        \/ SetStatus(t, {"running"}, "failed") /\ UNCHANGED row /\ run[r].pc = "failtask"
        \/ Overwrite(t, run[r].res) /\ UNCHANGED row /\ run[r].pc = "settle"
    BY <1>2, <2>1 DEF RunStep, RunCredentialFails, RunDropped, RunBegin, RunLeaseConflict, RunFailsTask,
       RunTaskGone, RunBoot, RunSettle, RunCancel, RunReadsHosts, RunReadsAttempts, RunSettles, RunExit, FailQueuedTask
  <2>3. CASE SetStatus(t, {"cancel_requested"}, "canceled") /\ UNCHANGED row
    <3>1. \A u \in Tasks : status'[u] \in {status[u], "canceled"}
      BY <2>3 DEF SetStatus, TypeInv, TablesTyped
    <3> QED BY <2>3, <3>1 DEF TableMove, RowMove, StatusMove
  <2>4. CASE SetStatus(t, {"running"}, "failed") /\ UNCHANGED row /\ run[r].pc = "failtask"
    <3>1. \A u \in Tasks : status'[u] = status[u] \/ (u = t /\ status'[u] = "failed")
      BY <2>4 DEF SetStatus, TypeInv, TablesTyped
    <3> QED BY <2>1, <2>4, <3>1 DEF TableMove, RowMove, StatusMove
  <2>5. CASE Overwrite(t, run[r].res) /\ UNCHANGED row /\ run[r].pc = "settle"
    <3>1. \A u \in Tasks : status'[u] = status[u] \/ (u = t /\ status'[u] = run[r].res)
      BY <2>5 DEF Overwrite, TypeInv, TablesTyped
    <3> QED BY <2>1, <2>5, <3>1 DEF TableMove, RowMove, StatusMove
  <2> QED BY <2>2, <2>3, <2>4, <2>5, HostsTables
<1> QED BY <1>1, <1>2

LEMMA WorkerStepTables ==
    ASSUME TypeInv, NoWorkerSettles, Calm, NEW r \in Runs, NEW h \in Hosts, WorkerStep(r, h) \/ WorkerFault(r, h)
    PROVE  TableMove
<1>1. PICK t \in Tasks : t = run[r].task /\ Acting(t)
  BY DEF TypeInv, RunsTyped, WorkerStep, WorkerFault, WorkerCheck, WorkerSkip, WorkerClaim, WorkerClaimRefused,
     ConnectFails, NextStep, StepSucceeds, StepStops, Interrupt, WorkerReport, WorkerReadsHosts,
     WorkerReadsAttempts, WorkerSettles, WorkerFinalize, FinishInterrupted, FinishSuccess, FinishFailed,
     Requeue, GiveUp, WorkerWritebackFails, WorkerStateFails, WorkerAt, RunDrives, Acting
<1>2. UNCHANGED row \/ \E to : row' = [row EXCEPT ![t][h] = to]
  BY <1>1 DEF WorkerStep, WorkerFault, WorkerCheck, WorkerSkip, WorkerClaim, WorkerClaimRefused,
     ConnectFails, NextStep, StepSucceeds, StepStops, Interrupt, WorkerReport, WorkerReadsHosts,
     WorkerReadsAttempts, WorkerSettles, WorkerFinalize, FinishInterrupted, FinishSuccess, FinishFailed,
     Requeue, GiveUp, WorkerWritebackFails, WorkerStateFails
<1>3. \A u \in Tasks \ {t} : row'[u] = row[u]
  BY <1>2 DEF TypeInv, TablesTyped
<1>4. UNCHANGED status
  BY WorkerKeepsStatus
<1> QED BY <1>1, <1>3, <1>4 DEF TableMove, RowMove, StatusMove

LEMMA NextTables ==
    ASSUME TypeInv, NoWorkerSettles, DriverInv, Undisturbed, [Next]_vars
    PROVE  TableMove
<1>0. Calm
  BY DEF DriverInv
<1>1. ASSUME UNCHANGED <<status, row>>
      PROVE  TableMove
  BY <1>1 DEF TableMove, RowMove, StatusMove
<1>2. CASE UNCHANGED vars
  BY <1>1, <1>2 DEF vars
<1>3. CASE Environment
  <2>1. \A p \in Procs : ~Crash(p) /\ ~Restart(p)
    BY <1>0 DEF Undisturbed, Crash, Restart, Event, Calm
  <2>2. ASSUME NEW h \in Hosts, LeaseExpires(h) \/ \E t \in Tasks : AttemptExpires(t, h)
        PROVE  TableMove
    BY <1>1, <2>2 DEF LeaseExpires, AttemptExpires
  <2> QED BY <1>0, <1>3, <2>1, <2>2, ControlStepTables, RunStepTables, WorkerStepTables DEF Environment
<1>4. CASE Next /\ ~Environment
  BY <1>0, <1>4, RequestTables, ControlStepTables, RunStepTables, WorkerStepTables DEF Next
<1> QED BY <1>2, <1>3, <1>4
-----------------------------------------------------------------------------
(* The verdict a goroutine carries is still the verdict of the hosts when it *)
(* writes it, and the hosts that it failed are still settled when it fails   *)
(* their task: it is the driver, so nobody has reset them meanwhile.         *)
VerdictInv ==
    \A r \in Runs, t \in Tasks : run[r].task = t =>
        /\ run[r].pc \in Judging \cup {"failtask"} => \A h \in Hosts : row[t][h] # "running"
        /\ run[r].pc \in Judging /\ run[r].res = "success" => \A h \in Hosts : row[t][h] # "failed"

(* How a goroutine gets to a verdict.                                       *)
Carries(r) ==
    /\ run'[r].task = run[r].task /\ run'[r].res = run[r].res
    /\ run[r].pc \in Judging \cup {"failtask"}
    /\ run[r].pc \in Judging <=> run'[r].pc \in Judging
LEMMA VerdictsCarried ==
    ASSUME TypeInv, NoWorkerSettles, DriverInv, Undisturbed, [Next]_vars, NEW r \in Runs,
           run'[r].pc \in Judging \cup {"failtask"}
    PROVE  Carries(r) \/ RunReadsHosts(r) \/ FailQueuedTask(r)
<1>0. run[r] \in Run /\ Calm
  BY DEF TypeInv, RunsTyped, DriverInv
<1>1. ASSUME run'[r].pc = run[r].pc /\ run'[r].task = run[r].task /\ run'[r].res = run[r].res
      PROVE  Carries(r)
  BY <1>1 DEF Carries
<1>2. CASE UNCHANGED run
  BY <1>1, <1>2
<1>3. ASSUME NEW c \in Clients, Spawn(c) \/ Kill(c)
      PROVE  Carries(r)
  <2>1. CASE Spawn(c)
    BY <1>1, <2>1 DEF Spawn, Spawned, IdleRuns, Judging, TypeInv, RunsTyped
  <2>2. CASE Kill(c)
    <3>1. run'[r] = run[r] \/ run'[r] = [run[r] EXCEPT !.killed = TRUE]
      BY <2>2 DEF Kill
    <3> QED BY <1>0, <1>1, <3>1 DEF Run
  <2> QED BY <1>3, <2>1, <2>2
<1>4. ASSUME NEW q \in Runs, RunStep(q) \/ RunCredentialFails(q)
      PROVE  Carries(r) \/ RunReadsHosts(r) \/ FailQueuedTask(r)
  <2>1. CASE q # r
    <3>1. run'[r] = run[r]
      BY <1>4, <2>1 DEF RunStep, RunCredentialFails, RunDropped, RunBegin, RunLeaseConflict, RunFailsTask,
       RunTaskGone, RunBoot, RunSettle, RunCancel, RunReadsHosts, RunReadsAttempts, RunSettles, RunExit,
       FailQueuedTask, RunGoto, TypeInv, RunsTyped
    <3> QED BY <1>1, <3>1
  <2>2. CASE q = r
    <3>1. \A pc : RunGoto(r, pc) => run'[r].pc = pc /\ run'[r].task = run[r].task /\ run'[r].res = run[r].res
      BY <1>0 DEF RunGoto, TypeInv, RunsTyped, Run
    <3>2. CASE RunDropped(r) \/ RunExit(r)
      BY <3>2 DEF RunDropped, RunExit, IdleRun, Judging, TypeInv, RunsTyped
    <3>3. CASE RunBegin(r) \/ RunFailsTask(r) \/ RunTaskGone(r) \/ RunBoot(r) \/ RunSettle(r) \/ RunCancel(r) \/ RunSettles(r)
      <4>1. \E pc \in {"boot", "exit", "hosts", "cancel", "recompute"} : RunGoto(r, pc)
        BY <3>3 DEF RunBegin, RunFailsTask, RunTaskGone, RunBoot, RunSettle, RunCancel, RunSettles
      <4> QED BY <3>1, <4>1 DEF Judging
    <3>4. CASE RunReadsAttempts(r)
      <4>1. run[r].pc = "active" /\ \E pc \in {"exit", "settle"} : RunGoto(r, pc)
        BY <3>4 DEF RunReadsAttempts, AfterAttempts
      <4> QED BY <3>1, <4>1 DEF Carries, Judging
    <3> QED BY <1>4, <2>2, <3>2, <3>3, <3>4 DEF RunStep, RunCredentialFails, RunLeaseConflict
  <2> QED BY <2>1, <2>2
<1>5. ASSUME NEW q \in Runs, NEW g \in Hosts, WorkerStep(q, g) \/ WorkerFault(q, g)
      PROVE  Carries(r)
  BY <1>0, <1>1, <1>5, WorkerKeepsStatus
<1>6. CASE Next /\ ~UNCHANGED run
  <2>1. \A c \in Clients, p \in Procs, t \in Tasks : ~ControlRequest(c, p, t)
    BY <1>6 DEF ControlRequest, StartTask, PauseTask, ResumeTask, RetryTask, CancelTask, DeleteTask, MarkHostResult
  <2>2. \A c \in Clients : (ControlStep(c) => Spawn(c) \/ Kill(c)) /\ ~ControlFault(c)
    BY <1>6 DEF ControlStep, ControlFault, StartDispatch, RetryResetsHosts, CancelSkipsHosts, StartFails,
       StartFailsHosts, StartFailsLeases, MarkReadsHosts, MarkReadsAttempts, MarkSettles, MarkFinalize,
       DeleteCommit, MarkWritebackFails, MarkStateFails
  <2>3. /\ \A p \in Procs : ~Crash(p) /\ ~Restart(p)
        /\ \A g \in Hosts : ~LeaseExpires(g) /\ \A t \in Tasks : ~AttemptExpires(t, g)
    BY <1>0, <1>6 DEF Undisturbed, Crash, Restart, Event, Calm, LeaseExpires, AttemptExpires
  <2> QED BY <1>3, <1>4, <1>5, <1>6, <2>1, <2>2, <2>3 DEF Next, Environment
<1> QED BY <1>2, <1>6 DEF vars

(* A task whose hosts are all done, for TerminalTaskStatus.                 *)
LEMMA DoneRows ==
    ASSUME RowsFit, AllRows, NEW t \in Tasks, AllDone(t)
    PROVE  /\ \A h \in Hosts : row[t][h] # "running"
           /\ TerminalTaskStatus(t) = "success" => \A h \in Hosts : row[t][h] # "failed"
<1>1. status[t] \notin Bare
  BY DEF AllDone, TaskHosts, RowsFit
<1>2. \A h \in Hosts : row[t][h] \in DoneHosts
  BY <1>1 DEF AllRows, AllDone, TaskHosts
<1> QED BY <1>2 DEF DoneHosts, TerminalTaskStatus, TaskHosts

LEMMA VerdictKept ==
    ASSUME TypeInv, RowsFit, AllRows, NoWorkerSettles, DriverInv, VerdictInv, Undisturbed, [Next]_vars
    PROVE  VerdictInv'
<1> SUFFICES ASSUME NEW r \in Runs, NEW t \in Tasks, run'[r].task = t, run'[r].pc \in Judging \cup {"failtask"}
             PROVE  /\ \A h \in Hosts : row'[t][h] # "running"
                    /\ run'[r].pc \in Judging /\ run'[r].res = "success" => \A h \in Hosts : row'[t][h] # "failed"
  BY DEF VerdictInv
<1>1. CASE Carries(r)
  <2>1. /\ \A h \in Hosts : row[t][h] # "running"
        /\ run'[r].pc \in Judging /\ run'[r].res = "success" => \A h \in Hosts : row[t][h] # "failed"
    BY <1>1 DEF Carries, VerdictInv
  <2>2. RunDrives(r, t) /\ run[r].pc # "hosts"
    BY <1>1 DEF Carries, RunDrives, Judging
  <2>3. ~Acting(t) /\ status[t] \in UnderWay
    BY <2>2 DEF DriverInv, OneDriver, Acting, Driven
  <2>4. RowMove(t)
    BY NextTables DEF TableMove
  <2> QED BY <2>1, <2>3, <2>4 DEF RowMove
<1>2. CASE RunReadsHosts(r)
  <2>1. /\ run'[r].pc = AfterHosts(t, "exit") /\ run'[r].res = TerminalTaskStatus(t) /\ UNCHANGED row
    BY <1>2 DEF RunReadsHosts, TypeInv, RunsTyped, Run
  <2>2. AllDone(t)
    BY <2>1 DEF AfterHosts, TerminalTaskStatus, Judging
  <2> QED BY <2>1, <2>2, DoneRows
<1>3. CASE FailQueuedTask(r)
  <2>1. run'[r].pc = "failtask" /\ run[r].task = t
    BY <1>3 DEF FailQueuedTask, RunGoto, TypeInv, RunsTyped, Run
  <2>2. \A h \in Hosts : row'[t][h] # "running"
    BY <1>3, <2>1 DEF FailQueuedTask, SetHosts, TypeInv, TablesTyped
  <2> QED BY <2>1, <2>2 DEF Judging
<1> QED BY <1>1, <1>2, <1>3, VerdictsCarried

LEMMA VerdictHolds ==
    ASSUME Undisturbed
    PROVE  Spec => []VerdictInv
<1>1. Init => VerdictInv
  BY DEF Init, VerdictInv, IdleRun, Judging
<1>2. TypeInv /\ RowsFit /\ AllRows /\ NoWorkerSettles /\ DriverInv /\ VerdictInv /\ [Next]_vars => VerdictInv'
  BY VerdictKept
<1>3. "attemptExpiry" \notin Events
  BY DEF Undisturbed
<1> QED BY <1>1, <1>2, <1>3, TypeCorrect, RowsHold, NoWorkerSettlesHolds, DriverHolds, PTL DEF Spec

(* A result needs every host of the task settled: a success always, a        *)
(* failure unless the service instance may refuse the start.                 *)
RowsFinal ==
    \A t \in Tasks :
        /\ status[t] = "failed" /\ "service" \notin Events => \A h \in Hosts : row[t][h] # "running"
        /\ status[t] = "success" => \A h \in Hosts : row[t][h] \notin {"running", "failed"}

LEMMA RowsFinalKept ==
    ASSUME TypeInv, NoWorkerSettles, DriverInv, VerdictInv, RowsFinal, Undisturbed, [Next]_vars
    PROVE  RowsFinal'
<1> DEFINE Fits(t) ==
      /\ status'[t] = "failed" /\ "service" \notin Events => \A h \in Hosts : row'[t][h] # "running"
      /\ status'[t] = "success" => \A h \in Hosts : row'[t][h] \notin {"running", "failed"}
<1>1. ASSUME NEW t \in Tasks, status'[t] \in {"success", "failed"}
      PROVE  Fits(t)
  <2>1. RowMove(t) /\ StatusMove(t)
    BY NextTables DEF TableMove
  <2>2. CASE status'[t] = status[t]
    <3>1. ~Acting(t)
      BY <1>1, <2>2 DEF DriverInv, UnderWay, Driven, Acting
    <3> QED BY <1>1, <2>1, <2>2, <3>1 DEF RowMove, RowsFinal
  <2>3. CASE row'[t] = row[t] /\ \E r \in Runs : run[r].task = t /\ run[r].pc = "settle" /\ status'[t] = run[r].res
    BY <2>3 DEF VerdictInv, Judging
  <2>4. CASE /\ row'[t] = row[t] /\ status'[t] = "failed"
             /\ "service" \in Events \/ \E r \in Runs : run[r].task = t /\ run[r].pc = "failtask"
    BY <2>4 DEF VerdictInv
  <2> QED BY <1>1, <2>1, <2>2, <2>3, <2>4 DEF StatusMove
<1> QED BY <1>1 DEF RowsFinal

LEMMA RowsFinalHolds ==
    ASSUME Undisturbed
    PROVE  Spec => []RowsFinal
<1>1. Init => RowsFinal
  BY DEF Init, RowsFinal
<1>2. TypeInv /\ NoWorkerSettles /\ DriverInv /\ VerdictInv /\ RowsFinal /\ [Next]_vars => RowsFinal'
  BY RowsFinalKept
<1>3. "attemptExpiry" \notin Events
  BY DEF Undisturbed
<1> QED BY <1>1, <1>2, <1>3, TypeCorrect, NoWorkerSettlesHolds, DriverHolds, VerdictHolds, PTL DEF Spec

(* recomputeTaskStatus: a task that ends in success or failure leaves no     *)
(* open host row and no goroutine in a script, with any number of retries.   *)
(* A start that its service instance refuses fails the task before its       *)
(* hosts, so it is left out.                                                 *)
THEOREM FinalMeansSettledHolds ==
    ASSUME Undisturbed, "service" \notin Events
    PROVE  Spec => []FinalMeansSettled
<1>1. TypeInv /\ DriverInv /\ RowsFinal => FinalMeansSettled
  <2> SUFFICES ASSUME TypeInv, DriverInv, RowsFinal, NEW t \in Tasks, status[t] \in {"success", "failed"}
               PROVE  /\ \A h \in Hosts : row[t][h] # "running"
                      /\ \A r \in Runs, h \in Hosts : run[r].task = t => ~InScript(r, h)
    BY DEF FinalMeansSettled
  <2>1. ~Driven(t)
    BY DEF DriverInv, UnderWay
  <2>2. \A r \in Runs, h \in Hosts : InScript(r, h) => run[r].pc = "hosts"
    BY DEF TypeInv, WorkersTyped, InScript
  <2> QED BY <2>1, <2>2 DEF RowsFinal, Driven, RunDrives
<1> QED BY <1>1, TypeCorrect, DriverHolds, RowsFinalHolds, PTL
-----------------------------------------------------------------------------
(* A row says success because a worker reported it, when nobody else does.  *)
NewSuccess(t, h) ==
    \E r \in Runs : WorkerReport(r, h) /\ run[r].task = t /\ worker[r][h].res = "success"
SuccessFromWorker ==
    \A t \in Tasks, h \in Hosts :
        row'[t][h] = "success" => row[t][h] = "success" \/ NewSuccess(t, h)

(* A statement that touches the rows of one task writes no success.         *)
LEMMA OtherRows ==
    ASSUME TypeInv, NEW t \in Tasks,
           \/ \E from, to : SetHosts(t, from, to) /\ to # "success"
           \/ \E to : row' = [row EXCEPT ![t] = [h \in Hosts |-> to]] /\ to # "success"
           \/ \E h, to : row' = [row EXCEPT ![t][h] = to] /\ to # "success"
           \/ UNCHANGED row
    PROVE  SuccessFromWorker
<1>1. ASSUME NEW from, NEW to, SetHosts(t, from, to), to # "success"
      PROVE  \A u \in Tasks, h \in Hosts : row'[u][h] = "success" => row[u][h] = "success"
  BY <1>1 DEF SetHosts, TypeInv, TablesTyped
<1>2. ASSUME NEW to, row' = [row EXCEPT ![t] = [h \in Hosts |-> to]], to # "success"
      PROVE  \A u \in Tasks, h \in Hosts : row'[u][h] = "success" => row[u][h] = "success"
  BY <1>2 DEF TypeInv, TablesTyped
<1>3. ASSUME NEW g, NEW to, row' = [row EXCEPT ![t][g] = to], to # "success"
      PROVE  \A u \in Tasks, h \in Hosts : row'[u][h] = "success" => row[u][h] = "success"
  BY <1>3 DEF TypeInv, TablesTyped
<1> QED BY <1>1, <1>2, <1>3 DEF SuccessFromWorker

LEMMA SuccessesFromWorkers ==
    ASSUME TypeInv, "report" \notin Events, [Next]_vars
    PROVE  SuccessFromWorker
<1>a. ASSUME UNCHANGED row
      PROVE  SuccessFromWorker
  BY <1>a DEF SuccessFromWorker
<1>1. CASE UNCHANGED vars
  BY <1>a, <1>1 DEF vars
<1>2. ASSUME NEW c \in Clients, NEW p \in Procs, NEW t \in Tasks, ControlRequest(c, p, t)
      PROVE  SuccessFromWorker
  <2>1. UNCHANGED row \/ row' = [row EXCEPT ![t] = [h \in Hosts |-> "running"]]
    BY <1>2 DEF ControlRequest, StartTask, PauseTask, ResumeTask, RetryTask, CancelTask, DeleteTask,
       MarkHostResult, Event
  <2> QED BY <2>1, OtherRows
<1>3. ASSUME NEW c \in Clients, ControlStep(c) \/ ControlFault(c)
      PROVE  SuccessFromWorker
  <2>1. PICK t : t = call[c].task
    OBVIOUS
  <2>2. t \in Tasks
    BY <1>3, <2>1, CallTask DEF TypeInv, ControlStep, ControlFault, StartDispatch, Spawn, Kill,
       RetryResetsHosts, CancelSkipsHosts, StartFails, StartFailsHosts, StartFailsLeases, MarkReadsHosts,
       MarkReadsAttempts, MarkSettles, MarkFinalize, DeleteCommit, MarkWritebackFails, MarkStateFails
  <2>3. \/ UNCHANGED row \/ SetHosts(t, {"failed", "skipped"}, "running")
        \/ SetHosts(t, {"running"}, "skipped") \/ SetHosts(t, {"running"}, "failed")
        \/ row' = [row EXCEPT ![t] = [h \in Hosts |-> "none"]]
    BY <1>3, <2>1 DEF ControlStep, ControlFault, StartDispatch, Spawn, Kill, RetryResetsHosts,
       CancelSkipsHosts, StartFails, StartFailsHosts, StartFailsLeases, MarkReadsHosts, MarkReadsAttempts,
       MarkSettles, MarkFinalize, DeleteCommit, MarkWritebackFails, MarkStateFails
  <2> QED BY <2>2, <2>3, OtherRows
<1>4. ASSUME NEW r \in Runs, RunStep(r) \/ RunCredentialFails(r)
      PROVE  SuccessFromWorker
  <2>1. PICK t : t = run[r].task
    OBVIOUS
  <2>2. UNCHANGED row \/ (t \in Tasks /\ SetHosts(t, {"running"}, "failed"))
    BY <1>4, <2>1 DEF RunStep, RunCredentialFails, RunDropped, RunBegin, RunLeaseConflict, RunFailsTask,
       RunTaskGone, RunBoot, RunSettle, RunCancel, RunReadsHosts, RunReadsAttempts, RunSettles, RunExit, FailQueuedTask, TypeInv, RunsTyped
  <2> QED BY <1>a, <2>2, OtherRows
<1>5. ASSUME NEW r \in Runs, NEW h \in Hosts, WorkerStep(r, h) \/ WorkerFault(r, h)
      PROVE  SuccessFromWorker
  <2>1. CASE WorkerReport(r, h)
    <3>1. PICK t \in Tasks : t = run[r].task
      BY <2>1 DEF WorkerReport, WorkerAt, TypeInv, RunsTyped
    <3>2. UNCHANGED row \/ row' = [row EXCEPT ![t][h] = worker[r][h].res]
      BY <2>1, <3>1 DEF WorkerReport
    <3>3. CASE worker[r][h].res = "success"
      <4>1. \A u \in Tasks, g \in Hosts : row'[u][g] = row[u][g] \/ (u = t /\ g = h)
        BY <3>1, <3>2 DEF TypeInv, TablesTyped
      <4> QED BY <2>1, <3>1, <3>3, <4>1 DEF SuccessFromWorker, NewSuccess
    <3>4. CASE worker[r][h].res # "success"
      <4>1. \/ UNCHANGED row
            \/ \E g, to : row' = [row EXCEPT ![t][g] = to] /\ to # "success"
        BY <3>2, <3>4
      <4> QED BY <1>a, <3>1, <4>1, OtherRows
    <3> QED BY <3>3, <3>4
  <2>2. CASE Requeue(r, h)
    <3>1. PICK t \in Tasks : t = run[r].task
      BY <2>2 DEF Requeue, WorkerAt, TypeInv, RunsTyped
    <3>2. \E to \in {"none", "running"} : row' = [row EXCEPT ![t][h] = to]
      BY <2>2, <3>1 DEF Requeue
    <3> QED BY <3>1, <3>2, OtherRows
  <2>3. CASE ~WorkerReport(r, h) /\ ~Requeue(r, h)
    <3>1. UNCHANGED row
      BY <1>5, <2>3 DEF WorkerStep, WorkerFault, WorkerCheck, WorkerSkip, WorkerClaim, WorkerClaimRefused,
       ConnectFails, NextStep, StepSucceeds, StepStops, Interrupt, WorkerReadsHosts, WorkerReadsAttempts,
       WorkerSettles, WorkerFinalize, FinishInterrupted,
       FinishSuccess, FinishFailed, GiveUp, WorkerWritebackFails, WorkerStateFails
    <3> QED BY <1>a, <3>1
  <2> QED BY <2>1, <2>2, <2>3
<1>6. ASSUME NEW p \in Procs, Crash(p) \/ Restart(p)
      PROVE  SuccessFromWorker
  BY <1>a, <1>6 DEF Crash, Restart
<1>7. ASSUME NEW h \in Hosts, LeaseExpires(h) \/ \E t \in Tasks : AttemptExpires(t, h)
      PROVE  SuccessFromWorker
  BY <1>a, <1>7 DEF LeaseExpires, AttemptExpires
<1>8. CASE Environment
  BY <1>3, <1>4, <1>5, <1>6, <1>7, <1>8 DEF Environment
<1>9. CASE Next /\ ~Environment
  BY <1>2, <1>3, <1>4, <1>5, <1>9 DEF Next
<1> QED BY <1>1, <1>8, <1>9

RowFull == \A t \in Tasks, h \in Hosts : row[t][h] = "success" => ckpt[t][h] = 1..Steps

LEMMA RowFullKept ==
    ASSUME TypeInv, TypeInv', CkptInv, Walked, RowFull, "report" \notin Events, [Next]_vars
    PROVE  RowFull'
<1> SUFFICES ASSUME NEW t \in Tasks, NEW h \in Hosts, row'[t][h] = "success"
             PROVE  ckpt'[t][h] = 1..Steps
  BY DEF RowFull
<1>1. ckpt[t][h] \subseteq ckpt'[t][h] /\ ckpt'[t][h] \subseteq 1..Steps
  BY NoStepRepeatedKept DEF TypeInv, TablesTyped
<1>2. ckpt[t][h] = 1..Steps
  <2>1. CASE row[t][h] = "success"
    BY <2>1 DEF RowFull
  <2>2. CASE NewSuccess(t, h)
    BY <2>2 DEF NewSuccess, WorkerReport, WorkerAt, Walked, WalkFits
  <2> QED BY <2>1, <2>2, SuccessesFromWorkers DEF SuccessFromWorker
<1> QED BY <1>1, <1>2

LEMMA RowFullHolds ==
    ASSUME "attemptExpiry" \notin Events, "report" \notin Events
    PROVE  Spec => []RowFull
<1>1. Init => RowFull
  BY DEF Init, RowFull
<1>2. TypeInv /\ TypeInv' /\ OneWorkerPerHost /\ NoStepRepeated /\ Walked /\ RowFull /\ [Next]_vars => RowFull'
  BY RowFullKept DEF CkptInv
<1> QED BY <1>1, <1>2, TypeCorrect, OneWorkerPerHostHolds, NoStepRepeatedHolds, WalkedHolds, PTL DEF Spec

(* finalizeHostResult, recomputeTaskStatus: a success of a host stands for   *)
(* all its steps, a success of the task for all its hosts.                   *)
THEOREM SuccessIsCompleteHolds ==
    ASSUME Undisturbed
    PROVE  Spec => []SuccessIsComplete
<1>1. "attemptExpiry" \notin Events /\ "report" \notin Events
  BY DEF Undisturbed
<1>2. AllRows /\ RowFull /\ RowsFinal /\ TypeInv => SuccessIsComplete
  <2> SUFFICES ASSUME AllRows, RowFull, RowsFinal, TypeInv, NEW t \in SshTasks
               PROVE  /\ \A h \in Hosts : row[t][h] = "success" => ckpt[t][h] = 1..Steps
                      /\ status[t] = "success" => \A h \in Hosts : row[t][h] \in {"success", "skipped"}
    BY DEF SuccessIsComplete
  <2>1. t \in Tasks
    BY DeployAssumption
  <2>2. \A h \in Hosts : row[t][h] \in HostStatuses
    BY <2>1 DEF TypeInv, TablesTyped
  <2> QED BY <2>1, <2>2 DEF RowFull, RowsFinal, AllRows, Bare, HostStatuses
<1> QED BY <1>1, <1>2, TypeCorrect, RowsHold, RowFullHolds, RowsFinalHolds, PTL
-----------------------------------------------------------------------------
(* Every result is answered by a recomputation: no process or handler stops *)
(* before it (crash, cmdb, service), no other request settles hosts          *)
(* (cancel), and none sets a task whose hosts have settled to running        *)
(* (resume, and retry of a task that a stale verdict has failed).            *)
Answered == Hosts # {} /\ Events \cap {"resume", "retry", "cancel", "crash", "cmdb", "service"} = {}

(* A recomputation of the task, or its failure, is still to come.           *)
Due(t) ==
    \/ \E c \in Clients : call[c].task = t /\ call[c].pc \in {"report", "active", "settle"}
    \/ \E r \in Runs : run[r].task = t /\ run[r].pc \in {"hosts", "recompute", "active", "settle", "failtask"}

RestIsDue ==
    \A t \in Tasks :
        status[t] = "running" /\ (\A h \in Hosts : row[t][h] # "running") => Due(t)
LiveHeld ==
    \A t \in Tasks, h \in Hosts : \A i \in LiveAttempts(t, h) :
        \E r \in Runs : run[r].task = t /\ Holding(r, h) /\ worker[r][h].att = i
NoSkip == \A c \in Clients : call[c].pc \notin {"skip", "reset", "failhosts"}
-----------------------------------------------------------------------------
(* The kinds of steps, seen from one task: one that leaves it alone, one     *)
(* that ends or starts it, and the statements of a recomputation.            *)
Aside(t) == row'[t] = row[t] /\ status'[t] = status[t] /\ (Due(t) => Due(t)')
SettleStep(t) ==
    \/ Aside(t)
    \/ status'[t] # "running"
    \/ \A h \in Hosts : row'[t][h] = "running"
    \/ Due(t)'
    \/ row'[t] = row[t] /\ ~AllDone(t)
    \/ /\ row'[t] = row[t] /\ HasActiveAttempt(t)
       /\ \A r \in Runs : run[r].pc = "hosts" => run'[r] = run[r]

LEMMA SettleStepKeeps ==
    ASSUME TypeInv, TypeInv', AllRows', LiveHeld, RestIsDue, Hosts # {}, NEW t \in Tasks, SettleStep(t),
           status'[t] = "running", \A h \in Hosts : row'[t][h] # "running"
    PROVE  Due(t)'
<1>1. CASE Aside(t)
  BY <1>1 DEF Aside, RestIsDue
<1>2. CASE \A h \in Hosts : row'[t][h] = "running"
  BY <1>2
<1>3. CASE row'[t] = row[t] /\ ~AllDone(t)
  <2>1. \A h \in Hosts : row'[t][h] \in DoneHosts
    <3>1. row' \in [Tasks -> [Hosts -> HostStatuses]]
      BY DEF TypeInv, TablesTyped
    <3>2. \A h \in Hosts : row'[t][h] \in HostStatuses /\ row'[t][h] # "none"
      BY <3>1 DEF AllRows, Bare
    <3> QED BY <3>2 DEF HostStatuses, DoneHosts
  <2> QED BY <1>3, <2>1 DEF AllDone, TaskHosts, DoneHosts
<1>4. CASE /\ row'[t] = row[t] /\ HasActiveAttempt(t)
           /\ \A r \in Runs : run[r].pc = "hosts" => run'[r] = run[r]
  <2>1. PICK h \in Hosts : LiveAttempts(t, h) # {}
    BY <1>4 DEF HasActiveAttempt
  <2>2. PICK r \in Runs : run[r].task = t /\ Holding(r, h)
    BY <2>1 DEF LiveHeld
  <2>3. run[r].pc = "hosts"
    BY <2>2 DEF TypeInv, WorkersTyped, Holding
  <2> QED BY <1>4, <2>2, <2>3 DEF Due
<1> QED BY <1>1, <1>2, <1>3, <1>4 DEF SettleStep
-----------------------------------------------------------------------------
LEMMA RequestSettles ==
    ASSUME TypeInv, Answered, NEW c \in Clients, NEW p \in Procs, NEW t \in Tasks, ControlRequest(c, p, t)
    PROVE  (\A u \in Tasks : SettleStep(u)) /\ call'[c].pc \notin {"skip", "reset", "failhosts"}
<1>0. "resume" \notin Events /\ "cancel" \notin Events /\ "retry" \notin Events
  BY DEF Answered
<1>1. /\ UNCHANGED run /\ call[c].pc = "idle" /\ (\A b \in Clients : b # c => call'[b] = call[b])
      /\ call'[c].pc \in {"open", "kill", "delete", "report"}
  <2>1. CASE StartTask(c, p, t) \/ PauseTask(c, p, t) \/ DeleteTask(c, p, t)
    <3>1. UNCHANGED run /\ \E e : \E pc \in {"open", "kill", "delete"} : Request(c, p, t, e, pc)
      BY <2>1 DEF StartTask, PauseTask, DeleteTask
    <3> QED BY <3>1 DEF Request, NoCall, TypeInv, CallsTyped
  <2>2. ASSUME NEW h \in Hosts, NEW result \in DoneHosts, MarkHostResult(c, p, t, h, result)
        PROVE  /\ UNCHANGED run /\ call[c].pc = "idle" /\ (\A b \in Clients : b # c => call'[b] = call[b])
               /\ call'[c].pc = "report"
    BY <2>2 DEF MarkHostResult, TypeInv, CallsTyped
  <2> QED BY <1>0, <2>1, <2>2 DEF ControlRequest, ResumeTask, RetryTask, CancelTask, Request, Event
<1>2. \A u \in Tasks : Due(u) => Due(u)'
  BY <1>1 DEF Due
<1>3. \A u \in Tasks \ {t} : row'[u] = row[u] /\ status'[u] = status[u]
  BY DEF ControlRequest, StartTask, PauseTask, ResumeTask, RetryTask, CancelTask, DeleteTask,
     MarkHostResult, SetStatus, TypeInv, TablesTyped
<1>4. SettleStep(t)
  <2>1. CASE StartTask(c, p, t)
    <3>1. \A h \in Hosts : row'[t][h] = "running"
      BY <2>1 DEF StartTask, TypeInv, TablesTyped
    <3> QED BY <3>1 DEF SettleStep
  <2>2. CASE PauseTask(c, p, t)
    <3>1. status'[t] = "pause_requested"
      BY <2>2 DEF PauseTask, SetStatus, TypeInv, TablesTyped
    <3> QED BY <3>1 DEF SettleStep
  <2>3. CASE DeleteTask(c, p, t)
    <3>1. status'[t] # "running"
      BY <2>3 DEF DeleteTask, SetStatus, TypeInv, TablesTyped
    <3> QED BY <3>1 DEF SettleStep
  <2>4. ASSUME NEW h \in Hosts, NEW result \in DoneHosts, MarkHostResult(c, p, t, h, result)
        PROVE  SettleStep(t)
    <3>1. call'[c].pc = "report" /\ call'[c].task = t
      BY <2>4 DEF MarkHostResult, TypeInv, CallsTyped
    <3> QED BY <3>1 DEF SettleStep, Due
  <2> QED BY <1>0, <2>1, <2>2, <2>3, <2>4 DEF ControlRequest, ResumeTask, RetryTask, CancelTask, Request, Event
<1> QED BY <1>1, <1>2, <1>3, <1>4 DEF SettleStep, Aside

LEMMA ControlStepSettles ==
    ASSUME TypeInv, Answered, NoSkip, NEW c \in Clients, ControlStep(c) \/ ControlFault(c)
    PROVE  (\A u \in Tasks : SettleStep(u)) /\ call'[c].pc \notin {"skip", "reset", "failhosts"}
<1>1. PICK t : t = call[c].task
  OBVIOUS
<1>2. "cmdb" \notin Events /\ "service" \notin Events /\ call[c].pc \notin {"skip", "reset", "failhosts"}
  BY DEF Answered, NoSkip
<1>3. \/ StartDispatch(c) \/ Spawn(c) \/ Kill(c) \/ StartFailsLeases(c) \/ MarkReadsHosts(c) \/ MarkReadsAttempts(c)
      \/ MarkSettles(c) \/ MarkFinalize(c) \/ DeleteCommit(c)
  BY <1>2 DEF ControlStep, ControlFault, StartFails, StartFailsHosts, RetryResetsHosts, CancelSkipsHosts,
     MarkWritebackFails, MarkStateFails, At, Event
<1>4. t \in Tasks /\ call[c] \in Call
  BY <1>1, <1>3, CallTask DEF StartDispatch, Spawn, Kill, StartFailsLeases, MarkReadsHosts, MarkReadsAttempts,
     MarkSettles, MarkFinalize, DeleteCommit, TypeInv, CallsTyped
<1>5. /\ \A pc : Goto(c, pc) => call'[c].pc = pc /\ call'[c].task = t
      /\ \A pc, res : Carry(c, pc, res) => call'[c].pc = pc /\ call'[c].task = t
      /\ Return(c) => call'[c].pc = "idle"
  BY <1>1, <1>4 DEF Goto, Carry, Return, NoCall, TypeInv, CallsTyped, Call
<1>6. \A b \in Clients : b # c => call'[b] = call[b]
  BY <1>3 DEF StartDispatch, Spawn, Kill, StartFailsLeases, MarkReadsHosts, MarkReadsAttempts,
     MarkSettles, MarkFinalize, DeleteCommit, Goto, Carry, Return, TypeInv, CallsTyped
<1>7. \A r \in Runs : run[r].pc \notin {"idle", "spawned"} => run'[r].pc = run[r].pc /\ run'[r].task = run[r].task
  <2>1. CASE Spawn(c)
    BY <2>1 DEF Spawn, IdleRuns, TypeInv, RunsTyped
  <2>2. CASE Kill(c)
    BY <2>2 DEF Kill, TypeInv, RunsTyped, Run
  <2>3. CASE ~Spawn(c) /\ ~Kill(c)
    BY <1>3, <2>3 DEF StartDispatch, StartFailsLeases, MarkReadsHosts, MarkReadsAttempts, MarkSettles,
       MarkFinalize, DeleteCommit
  <2> QED BY <2>1, <2>2, <2>3
<1>8. \A u \in Tasks : u # t \/ call[c].pc \notin {"report", "active", "settle"} => (Due(u) => Due(u)')
  BY <1>1, <1>6, <1>7 DEF Due
<1>9. CASE StartDispatch(c) \/ Spawn(c) \/ Kill(c) \/ StartFailsLeases(c) \/ MarkFinalize(c)
  <2>1. /\ UNCHANGED <<status, row>> /\ call[c].pc \in {"open", "spawn", "kill", "faillease", "refresh"}
        /\ call'[c].pc \in {"idle", "spawn"}
    BY <1>5, <1>9 DEF StartDispatch, Spawn, Kill, StartFailsLeases, MarkFinalize, At
  <2> QED BY <1>8, <2>1 DEF SettleStep, Aside
<1>10. CASE DeleteCommit(c)
  <2>1. /\ \A u \in Tasks : u # t => row'[u] = row[u] /\ status'[u] = status[u]
        /\ status'[t] = "deleted" /\ call'[c].pc = "idle"
    BY <1>1, <1>4, <1>5, <1>10 DEF DeleteCommit, TypeInv, TablesTyped
  <2> QED BY <1>8, <2>1 DEF SettleStep, Aside
<1>11. CASE MarkReadsHosts(c)
  <2>1. UNCHANGED <<status, row>> /\ call'[c].pc = AfterHosts(t, "refresh") /\ call'[c].task = t
    BY <1>1, <1>5, <1>11 DEF MarkReadsHosts
  <2>2. IF AllDone(t) THEN call'[c].pc = "active" ELSE call'[c].pc = "refresh"
    BY <2>1 DEF AfterHosts, TerminalTaskStatus
  <2>3. SettleStep(t)
    BY <2>1, <2>2 DEF SettleStep, Due
  <2> QED BY <1>8, <2>1, <2>2, <2>3 DEF SettleStep, Aside
<1>12. CASE MarkReadsAttempts(c)
  <2>1. UNCHANGED <<status, row, run>> /\ call'[c].pc = AfterAttempts(t, "refresh") /\ call'[c].task = t
    BY <1>1, <1>5, <1>12 DEF MarkReadsAttempts
  <2>2. IF HasActiveAttempt(t) THEN call'[c].pc = "refresh" ELSE call'[c].pc = "settle"
    BY <2>1 DEF AfterAttempts
  <2>3. SettleStep(t)
    BY <2>1, <2>2 DEF SettleStep, Due
  <2> QED BY <1>8, <2>1, <2>2, <2>3 DEF SettleStep, Aside
<1>13. CASE MarkSettles(c)
  <2>1. call[c].res \in FinalStatuses /\ call'[c].pc = "refresh" /\ UNCHANGED row /\ Overwrite(t, call[c].res)
    BY <1>1, <1>5, <1>13 DEF MarkSettles, At, TypeInv, CallsTyped, Judging
  <2>2. /\ \A u \in Tasks : u # t => status'[u] = status[u]
        /\ status'[t] # "running"
    BY <1>4, <2>1 DEF Overwrite, FinalStatuses, TypeInv, TablesTyped
  <2> QED BY <1>8, <2>1, <2>2 DEF SettleStep, Aside
<1> QED BY <1>3, <1>9, <1>10, <1>11, <1>12, <1>13

LEMMA RunStepSettles ==
    ASSUME TypeInv, NEW r \in Runs, RunStep(r) \/ RunCredentialFails(r), NEW u \in Tasks
    PROVE  SettleStep(u)
<1>1. PICK t : t = run[r].task
  OBVIOUS
<1>2. t \in Tasks /\ UNCHANGED call /\ run[r] \in Run
  BY <1>1 DEF RunStep, RunCredentialFails, RunDropped, RunBegin, RunLeaseConflict, RunFailsTask, RunTaskGone, RunBoot,
     RunSettle, RunCancel, RunReadsHosts, RunReadsAttempts, RunSettles, RunExit, FailQueuedTask, TypeInv, RunsTyped
<1>3. \A q \in Runs : q # r => run'[q] = run[q]
  BY DEF RunStep, RunCredentialFails, RunDropped, RunBegin, RunLeaseConflict, RunFailsTask, RunTaskGone, RunBoot,
     RunSettle, RunCancel, RunReadsHosts, RunReadsAttempts, RunSettles, RunExit, FailQueuedTask, RunGoto,
     TypeInv, RunsTyped
<1>4. run[r].pc \notin {"hosts", "recompute", "active", "settle", "failtask"} \/ u # t => (Due(u) => Due(u)')
  BY <1>1, <1>2, <1>3 DEF Due
<1>5. \A pc : RunGoto(r, pc) => run'[r].pc = pc /\ run'[r].task = t
  BY <1>1, <1>2 DEF RunGoto, TypeInv, RunsTyped, Run
<1>6. CASE u # t
  <2>1. row'[u] = row[u] /\ status'[u] = status[u]
    BY <1>1, <1>2, <1>6 DEF RunStep, RunCredentialFails, RunDropped, RunBegin, RunLeaseConflict, RunFailsTask,
     RunTaskGone, RunBoot, RunSettle, RunCancel, RunReadsHosts, RunReadsAttempts, RunSettles, RunExit, FailQueuedTask,
     SetHosts, SetStatus, Overwrite, TypeInv, TablesTyped
  <2> QED BY <1>4, <1>6, <2>1 DEF SettleStep, Aside
<1>7. CASE u = t
  <2>1. CASE RunDropped(r) \/ RunBegin(r) \/ RunTaskGone(r) \/ RunBoot(r) \/ RunExit(r)
    <3>1. UNCHANGED <<row, status>> /\ run[r].pc \in {"spawned", "boot", "exit"}
      BY <2>1 DEF RunDropped, RunBegin, RunTaskGone, RunBoot, RunExit
    <3> QED BY <1>4, <3>1 DEF SettleStep, Aside
  <2>2. CASE FailQueuedTask(r)
    <3>1. run'[r].pc = "failtask" /\ run'[r].task = t
      BY <1>5, <2>2 DEF FailQueuedTask
    <3> QED BY <1>7, <3>1 DEF SettleStep, Due
  <2>3. CASE RunFailsTask(r)
    <3>1. status'[t] # "running"
      BY <1>1, <1>2, <2>3 DEF RunFailsTask, SetStatus, TypeInv, TablesTyped
    <3> QED BY <1>7, <3>1 DEF SettleStep
  <2>4. CASE RunSettle(r)
    <3>1. UNCHANGED <<row, status>>
      BY <2>4 DEF RunSettle
    <3>2. CASE Interrupted(t)
      <4>1. status'[t] # "running"
        BY <3>1, <3>2 DEF Interrupted, Suspended, CancelSought
      <4> QED BY <1>7, <4>1 DEF SettleStep
    <3>3. CASE ~Interrupted(t)
      <4>1. run'[r].pc = "recompute" /\ run'[r].task = t
        BY <1>1, <1>5, <2>4, <3>3 DEF RunSettle, Interrupted
      <4> QED BY <1>7, <4>1 DEF SettleStep, Due
    <3> QED BY <3>2, <3>3
  <2>5. CASE RunCancel(r)
    <3>1. /\ status'[t] = "canceled" \/ status'[t] = status[t]
          /\ UNCHANGED row /\ run[r].pc = "cancel"
      BY <1>1, <1>2, <2>5 DEF RunCancel, SetStatus, TypeInv, TablesTyped
    <3> QED BY <1>4, <1>7, <3>1 DEF SettleStep, Aside
  <2>6. CASE RunReadsHosts(r)
    <3>1. UNCHANGED <<status, row>> /\ run'[r].pc = AfterHosts(t, "exit") /\ run'[r].task = t
      BY <1>1, <1>2, <2>6 DEF RunReadsHosts, TypeInv, RunsTyped, Run
    <3>2. ~AllDone(t) \/ run'[r].pc = "active"
      BY <3>1 DEF AfterHosts, TerminalTaskStatus
    <3> QED BY <1>7, <3>1, <3>2 DEF SettleStep, Due
  <2>7. CASE RunReadsAttempts(r)
    <3>1. UNCHANGED <<status, row>> /\ run'[r].pc = AfterAttempts(t, "exit") /\ run'[r].task = t /\ run[r].pc = "active"
      BY <1>1, <1>5, <2>7 DEF RunReadsAttempts
    <3>2. HasActiveAttempt(t) \/ run'[r].pc = "settle"
      BY <3>1 DEF AfterAttempts
    <3> QED BY <1>3, <1>7, <3>1, <3>2 DEF SettleStep, Due
  <2>8. CASE RunSettles(r)
    <3>1. Overwrite(t, run[r].res) /\ run[r].res \in FinalStatuses
      BY <1>1, <2>8 DEF RunSettles, TypeInv, RunsTyped, Judging
    <3>2. status'[t] # "running"
      BY <1>2, <3>1 DEF Overwrite, FinalStatuses, TypeInv, TablesTyped
    <3> QED BY <1>7, <3>2 DEF SettleStep
  <2> QED BY <2>1, <2>2, <2>3, <2>4, <2>5, <2>6, <2>7, <2>8 DEF RunStep, RunCredentialFails, RunLeaseConflict
<1> QED BY <1>6, <1>7

LEMMA WorkerStepSettles ==
    ASSUME TypeInv, NEW r \in Runs, NEW h \in Hosts, WorkerStep(r, h) \/ WorkerFault(r, h), NEW u \in Tasks
    PROVE  SettleStep(u)
<1>1. PICK t \in Tasks : t = run[r].task /\ run[r].pc = "hosts"
  BY DEF TypeInv, RunsTyped, WorkerStep, WorkerFault, WorkerCheck, WorkerSkip, WorkerClaim,
     WorkerClaimRefused, ConnectFails, NextStep, StepSucceeds, StepStops, Interrupt, WorkerReport, WorkerReadsHosts,
     WorkerReadsAttempts, WorkerSettles, WorkerFinalize, FinishInterrupted, FinishSuccess, FinishFailed, Requeue,
     GiveUp, WorkerWritebackFails, WorkerStateFails, WorkerAt
<1>2. UNCHANGED call /\ (run' = run \/ run' = [run EXCEPT ![r].killed = TRUE])
  BY DEF WorkerStep, WorkerFault, WorkerCheck, WorkerSkip, WorkerClaim, WorkerClaimRefused,
     ConnectFails, NextStep, StepSucceeds, StepStops, Interrupt, WorkerReport, WorkerReadsHosts,
     WorkerReadsAttempts, WorkerSettles, WorkerFinalize, FinishInterrupted, FinishSuccess, FinishFailed,
     Requeue, GiveUp, WorkerWritebackFails, WorkerStateFails
<1>3. \A q \in Runs : run'[q].pc = run[q].pc /\ run'[q].task = run[q].task
  BY <1>2 DEF TypeInv, RunsTyped, Run
<1>4. CASE u = t
  BY <1>1, <1>2, <1>3, <1>4 DEF SettleStep, Due
<1>5. CASE u # t
  <2>1. row'[u] = row[u] /\ status'[u] = status[u]
    BY <1>1, <1>5 DEF WorkerStep, WorkerFault, WorkerCheck, WorkerSkip, WorkerClaim, WorkerClaimRefused,
     ConnectFails, NextStep, StepSucceeds, StepStops, Interrupt, WorkerReport, WorkerReadsHosts,
     WorkerReadsAttempts, WorkerSettles, WorkerFinalize, FinishInterrupted, FinishSuccess, FinishFailed,
     Requeue, GiveUp, WorkerWritebackFails, WorkerStateFails, SetStatus, Overwrite, TypeInv, TablesTyped
  <2>2. Due(u) => Due(u)'
    BY <1>2, <1>3 DEF Due
  <2> QED BY <2>1, <2>2 DEF SettleStep, Aside
<1> QED BY <1>4, <1>5

LEMMA NextSettles ==
    ASSUME TypeInv, Answered, NoSkip, [Next]_vars
    PROVE  (\A t \in Tasks : SettleStep(t)) /\ NoSkip'
<1>1. ASSUME UNCHANGED <<status, row, call, run>>
      PROVE  (\A t \in Tasks : SettleStep(t)) /\ NoSkip'
  BY <1>1 DEF SettleStep, Aside, Due, NoSkip
<1>2. CASE UNCHANGED vars
  BY <1>1, <1>2 DEF vars
<1>3. ASSUME NEW c \in Clients, \/ ControlStep(c) \/ ControlFault(c)
                                \/ \E p \in Procs, t \in Tasks : ControlRequest(c, p, t)
      PROVE  (\A t \in Tasks : SettleStep(t)) /\ NoSkip'
  <2>1. (\A t \in Tasks : SettleStep(t)) /\ call'[c].pc \notin {"skip", "reset", "failhosts"}
    BY <1>3, RequestSettles, ControlStepSettles
  <2>2. \A b \in Clients : b # c => call'[b] = call[b]
    <3>1. ASSUME NEW p \in Procs, NEW t \in Tasks, ControlRequest(c, p, t)
          PROVE  \E v : call' = [call EXCEPT ![c] = v]
      BY <3>1 DEF ControlRequest, StartTask, PauseTask, ResumeTask, RetryTask, CancelTask, DeleteTask, MarkHostResult,
         Request
    <3>2. CASE ControlStep(c) \/ ControlFault(c)
      <4>1. \/ \E pc : Goto(c, pc) \/ \E res : Carry(c, pc, res)
            \/ Return(c)
        BY <3>2 DEF ControlStep, ControlFault, StartDispatch, Spawn, Kill, RetryResetsHosts,
           CancelSkipsHosts, StartFails, StartFailsHosts, StartFailsLeases, MarkReadsHosts, MarkReadsAttempts,
           MarkSettles, MarkFinalize, DeleteCommit, MarkWritebackFails, MarkStateFails
      <4> QED BY <4>1 DEF Goto, Carry, Return, TypeInv, CallsTyped
    <3> QED BY <1>3, <3>1, <3>2 DEF TypeInv, CallsTyped
  <2> QED BY <2>1, <2>2 DEF NoSkip
<1>4. ASSUME NEW r \in Runs, \/ RunStep(r) \/ RunCredentialFails(r)
                             \/ \E h \in Hosts : WorkerStep(r, h) \/ WorkerFault(r, h)
      PROVE  (\A t \in Tasks : SettleStep(t)) /\ NoSkip'
  <2>1. UNCHANGED call
    BY <1>4 DEF RunStep, RunCredentialFails, RunDropped, RunBegin, RunLeaseConflict, RunFailsTask, RunTaskGone,
     RunBoot, RunSettle, RunCancel, RunReadsHosts, RunReadsAttempts, RunSettles, RunExit, FailQueuedTask,
     WorkerStep, WorkerFault, WorkerCheck, WorkerSkip, WorkerClaim, WorkerClaimRefused,
     ConnectFails, NextStep, StepSucceeds, StepStops, Interrupt, WorkerReport, WorkerReadsHosts,
     WorkerReadsAttempts, WorkerSettles, WorkerFinalize, FinishInterrupted, FinishSuccess, FinishFailed,
     Requeue, GiveUp, WorkerWritebackFails, WorkerStateFails
  <2> QED BY <1>4, <2>1, RunStepSettles, WorkerStepSettles DEF NoSkip
<1>5. CASE Environment
  <2>1. \A p \in Procs : ~Crash(p)
    BY DEF Answered, Crash, Event
  <2>2. ASSUME NEW p \in Procs, Restart(p)
        PROVE  (\A t \in Tasks : SettleStep(t)) /\ NoSkip'
    <3>1. UNCHANGED <<row, call>> /\ \A r \in Runs : run[r].pc # "idle" => run'[r] = run[r]
      BY <2>2 DEF Restart, IdleRuns
    <3>2. \A t \in Tasks : Due(t) => Due(t)'
      BY <3>1 DEF Due
    <3>3. \A t \in Tasks : status'[t] = status[t] \/ status'[t] = "paused"
      BY <2>2 DEF Restart
    <3> QED BY <3>1, <3>2, <3>3 DEF SettleStep, Aside, NoSkip
  <2>3. ASSUME NEW h \in Hosts, LeaseExpires(h) \/ \E t \in Tasks : AttemptExpires(t, h)
        PROVE  (\A t \in Tasks : SettleStep(t)) /\ NoSkip'
    BY <1>1, <2>3 DEF LeaseExpires, AttemptExpires
  <2> QED BY <1>3, <1>4, <1>5, <2>1, <2>2, <2>3 DEF Environment
<1>6. CASE Next /\ ~Environment
  BY <1>3, <1>4, <1>6 DEF Next
<1> QED BY <1>2, <1>5, <1>6
-----------------------------------------------------------------------------
(* A claim is given up only when its attempt is finished.                   *)
StillHolds(r, h) ==
    Holding(r, h)' /\ run'[r].task = run[r].task /\ worker'[r][h].att = worker[r][h].att
Finishes(r, h) == \E s : FinishAttempt(run[r].task, h, worker[r][h].att, s)

LEMMA WorkerHoldsOn ==
    ASSUME TypeInv, NEW r \in Runs, NEW h \in Hosts, WorkerStep(r, h) \/ WorkerFault(r, h), Holding(r, h)
    PROVE  StillHolds(r, h) \/ Finishes(r, h)
<1> DEFINE w == worker[r][h]
           v == worker'[r][h]
<1>1. w \in Worker
  BY DEF TypeInv, WorkersTyped
<1>2. \A u : SetWorker(r, h, u) => v = u
  BY OwnWorkerOnly
<1>3. CASE FinishInterrupted(r, h) \/ FinishSuccess(r, h) \/ FinishFailed(r, h)
  BY <1>3 DEF FinishInterrupted, FinishSuccess, FinishFailed, Finishes
<1>4. CASE ~(FinishInterrupted(r, h) \/ FinishSuccess(r, h) \/ FinishFailed(r, h))
  <2>1. UNCHANGED run
    BY <1>4 DEF Holding, WorkerStep, WorkerFault, WorkerCheck, WorkerSkip, WorkerClaim, WorkerClaimRefused,
     ConnectFails, NextStep, StepSucceeds, StepStops, Interrupt, WorkerReport, WorkerReadsHosts,
     WorkerReadsAttempts, WorkerSettles, WorkerFinalize, Requeue, GiveUp, WorkerWritebackFails, WorkerStateFails, WorkerAt
  <2>2. \/ \E pc \in {"interrupt", "script", "finalize", "settle", "refresh"} : WorkerGoto(r, h, pc)
        \/ \E pc \in {"report", "finish", "active", "refresh"} : \E res : Outcome(r, h, pc, res)
        \/ SetWorker(r, h, [w EXCEPT !.step = @ + 1]) /\ w.pc = "exec"
        \/ SetWorker(r, h, [w EXCEPT !.pc = "exec", !.step = @ + 1])
        \/ SetWorker(r, h, [w EXCEPT !.pc = "exec", !.step = @ + 1, !.res = "canceled"])
        \/ SetWorker(r, h, [w EXCEPT !.pc = "report", !.res = "failed"])
    <3>1. CASE NextStep(r, h) \/ StepSucceeds(r, h) \/ StepStops(r, h)
      BY <3>1 DEF NextStep, StepSucceeds, StepStops, WorkerAt
    <3>2. CASE WorkerReadsHosts(r, h) \/ WorkerReadsAttempts(r, h)
      BY <3>2 DEF WorkerReadsHosts, WorkerReadsAttempts, AfterHosts, AfterAttempts
    <3>3. CASE \/ ConnectFails(r, h) \/ Interrupt(r, h) \/ WorkerReport(r, h) \/ WorkerSettles(r, h)
               \/ WorkerFinalize(r, h) \/ WorkerWritebackFails(r, h) \/ WorkerStateFails(r, h)
      BY <3>3 DEF ConnectFails, Interrupt, WorkerReport, WorkerSettles, WorkerFinalize, WorkerWritebackFails,
         WorkerStateFails
    <3>4. CASE \/ WorkerCheck(r, h) \/ WorkerSkip(r, h) \/ WorkerClaim(r, h) \/ WorkerClaimRefused(r, h)
               \/ Requeue(r, h) \/ GiveUp(r, h)
      BY <3>4 DEF Holding, WorkerCheck, WorkerSkip, WorkerClaim, WorkerClaimRefused, Requeue, GiveUp, WorkerAt
    <3> QED BY <1>4, <3>1, <3>2, <3>3, <3>4 DEF WorkerStep, WorkerFault
  <2>3. v.att = w.att /\ v.pc \in {"interrupt", "script", "finalize", "settle", "refresh", "report", "finish", "active", "exec"}
    BY <1>1, <1>2, <2>2 DEF WorkerGoto, Outcome, Worker
  <2> QED BY <2>1, <2>3 DEF StillHolds, Holding
<1> QED BY <1>3, <1>4

LEMMA HoldsOn ==
    ASSUME TypeInv, "crash" \notin Events, [Next]_vars, NEW r \in Runs, NEW h \in Hosts, Holding(r, h)
    PROVE  StillHolds(r, h) \/ Finishes(r, h)
<1>0. run[r].pc = "hosts"
  BY DEF TypeInv, WorkersTyped, Holding
<1>1. ASSUME worker'[r][h] = worker[r][h], run'[r].task = run[r].task
      PROVE  StillHolds(r, h)
  BY <1>1 DEF StillHolds, Holding
<1>2. CASE UNCHANGED vars
  BY <1>1, <1>2 DEF vars
<1>3. ASSUME NEW c \in Clients, \/ ControlStep(c) \/ ControlFault(c)
                                \/ \E p \in Procs, t \in Tasks : ControlRequest(c, p, t)
      PROVE  StillHolds(r, h)
  <2>1. UNCHANGED worker
    BY <1>3 DEF ControlRequest, StartTask, PauseTask, ResumeTask, RetryTask, CancelTask, DeleteTask,
       MarkHostResult, ControlStep, ControlFault, StartDispatch, Spawn, Kill, RetryResetsHosts,
       CancelSkipsHosts, StartFails, StartFailsHosts, StartFailsLeases, MarkReadsHosts, MarkReadsAttempts,
       MarkSettles, MarkFinalize, DeleteCommit, MarkWritebackFails, MarkStateFails
  <2>2. CASE Spawn(c)
    <3>1. run'[r] = run[r]
      BY <1>0, <2>2 DEF Spawn, IdleRuns, TypeInv, RunsTyped
    <3> QED BY <1>1, <2>1, <3>1
  <2>3. CASE Kill(c)
    <3>1. run'[r].task = run[r].task
      BY <2>3 DEF Kill, TypeInv, RunsTyped, Run
    <3> QED BY <1>1, <2>1, <3>1
  <2>4. CASE ~Spawn(c) /\ ~Kill(c)
    <3>1. UNCHANGED run
      BY <1>3, <2>4 DEF ControlRequest, StartTask, PauseTask, ResumeTask, RetryTask, CancelTask, DeleteTask,
         MarkHostResult, ControlStep, ControlFault, StartDispatch, RetryResetsHosts,
         CancelSkipsHosts, StartFails, StartFailsHosts, StartFailsLeases, MarkReadsHosts, MarkReadsAttempts,
       MarkSettles, MarkFinalize, DeleteCommit, MarkWritebackFails, MarkStateFails
    <3> QED BY <1>1, <2>1, <3>1
  <2> QED BY <2>2, <2>3, <2>4
<1>4. ASSUME NEW q \in Runs, RunStep(q) \/ RunCredentialFails(q)
      PROVE  StillHolds(r, h)
  <2>1. worker'[r][h] = worker[r][h]
    BY <1>0, <1>4 DEF RunStep, RunCredentialFails, RunDropped, RunBegin, RunLeaseConflict, RunFailsTask, RunTaskGone, RunBoot,
     RunSettle, RunCancel, RunReadsHosts, RunReadsAttempts, RunSettles, RunExit, FailQueuedTask, TypeInv, WorkersTyped
  <2>2. run'[r].task = run[r].task
    BY <1>0, <1>4 DEF RunStep, RunCredentialFails, RunDropped, RunBegin, RunLeaseConflict, RunFailsTask, RunTaskGone, RunBoot,
     RunSettle, RunCancel, RunReadsHosts, RunReadsAttempts, RunSettles, RunExit, FailQueuedTask, RunGoto, TypeInv, RunsTyped, Run
  <2> QED BY <1>1, <2>1, <2>2
<1>5. ASSUME NEW q \in Runs, NEW g \in Hosts, WorkerStep(q, g) \/ WorkerFault(q, g)
      PROVE  StillHolds(r, h) \/ Finishes(r, h)
  <2>1. CASE q = r /\ g = h
    BY <1>5, <2>1, WorkerHoldsOn
  <2>2. CASE q # r \/ g # h
    <3>1. WorkerMove(q, g)
      BY <1>5, WorkerMovesCkpt
    <3> QED BY <1>1, <2>2, <3>1 DEF WorkerMove
  <2> QED BY <2>1, <2>2
<1>6. CASE Environment
  <2>1. \A p \in Procs : ~Crash(p)
    BY DEF Crash, Event
  <2>2. ASSUME NEW p \in Procs, Restart(p)
        PROVE  StillHolds(r, h)
    <3>1. UNCHANGED worker /\ run'[r] = run[r]
      BY <1>0, <2>2 DEF Restart, IdleRuns
    <3> QED BY <1>1, <3>1
  <2>3. ASSUME NEW g \in Hosts, LeaseExpires(g) \/ \E t \in Tasks : AttemptExpires(t, g)
        PROVE  StillHolds(r, h)
    BY <1>1, <2>3 DEF LeaseExpires, AttemptExpires
  <2> QED BY <1>3, <1>4, <1>5, <1>6, <2>1, <2>2, <2>3 DEF Environment
<1>7. CASE Next /\ ~Environment
  BY <1>3, <1>4, <1>5, <1>7 DEF Next
<1> QED BY <1>2, <1>6, <1>7

LEMMA LiveHeldKept ==
    ASSUME TypeInv, LedgerInv, LiveHeld, "crash" \notin Events, [Next]_vars
    PROVE  LiveHeld'
<1> SUFFICES ASSUME NEW t \in Tasks, NEW h \in Hosts, NEW i \in LiveAttempts(t, h)'
             PROVE  \E r \in Runs : run'[r].task = t /\ Holding(r, h)' /\ worker'[r][h].att = i
  BY DEF LiveHeld
<1>1. CASE i \in LiveAttempts(t, h)
  <2>1. PICK r \in Runs : run[r].task = t /\ Holding(r, h) /\ worker[r][h].att = i
    BY <1>1 DEF LiveHeld
  <2>2. CASE StillHolds(r, h)
    BY <2>1, <2>2 DEF StillHolds
  <2>3. CASE Finishes(r, h)
    <3>1. PICK s : FinishAttempt(t, h, i, s)
      BY <2>1, <2>3 DEF Finishes
    <3>2. i \in DOMAIN attempts[t][h]
      BY <1>1 DEF LiveAttempts
    <3>3. attempts'[t][h] = [attempts[t][h] EXCEPT ![i] = [status |-> s, live |-> FALSE]]
      BY <3>1 DEF FinishAttempt, TypeInv, TablesTyped
    <3>4. attempts'[t][h][i].live = FALSE
      BY <3>2, <3>3
    <3> QED BY <3>4 DEF LiveAttempts
  <2> QED BY <2>1, <2>2, <2>3, HoldsOn
<1>2. CASE i \notin LiveAttempts(t, h)
  <2>1. PICK r \in Runs, g \in Hosts : WorkerClaim(r, g)
    BY <1>2, LedgerMoves, MovesSettle DEF LedgerInv, Settling, ClaimMove
  <2>2. PICK u \in Tasks : u = run[r].task
    BY <2>1 DEF WorkerClaim, WorkerAt, TypeInv, RunsTyped
  <2>3. PICK n : NewClaim(r, g, u, n)
    BY <2>1, <2>2, ClaimEffect
  <2>4. t = u /\ h = g /\ i = n
    BY <1>2, <2>3 DEF NewClaim, LiveAttempts
  <2>5. worker'[r][g].pc = "exec"
    BY <2>1, OwnWorkerOnly DEF WorkerClaim, Claimed
  <2> QED BY <2>2, <2>3, <2>4, <2>5 DEF NewClaim, Holding
<1> QED BY <1>1, <1>2

(* recomputeTaskStatus: whichever of several concurrent results recomputes   *)
(* last sees them all.                                                       *)
THEOREM SettledIsFinalHolds ==
    ASSUME Answered
    PROVE  Spec => []SettledIsFinal
<1>0. Hosts # {} /\ "crash" \notin Events
  BY DEF Answered
<1> DEFINE Inv == NoSkip /\ LiveHeld /\ RestIsDue
<1>1. Init => Inv
  BY DEF Init, NoSkip, NoCall, LiveHeld, LiveAttempts, RestIsDue
<1>2. TypeInv /\ TypeInv' /\ LedgerInv /\ AllRows' /\ Inv /\ [Next]_vars => Inv'
  <2> SUFFICES ASSUME TypeInv, TypeInv', LedgerInv, AllRows', Inv, [Next]_vars
               PROVE  Inv'
    OBVIOUS
  <2>1. (\A t \in Tasks : SettleStep(t)) /\ NoSkip'
    BY NextSettles
  <2>2. LiveHeld'
    BY <1>0, LiveHeldKept
  <2>3. RestIsDue'
    BY <1>0, <2>1, SettleStepKeeps DEF RestIsDue
  <2> QED BY <2>1, <2>2, <2>3
<1>3. Inv => SettledIsFinal
  BY DEF RestIsDue, SettledIsFinal, Attended, Due
<1> QED BY <1>1, <1>2, <1>3, TypeCorrect, LedgerCorrect, RowsHold, PTL DEF Spec
=============================================================================
