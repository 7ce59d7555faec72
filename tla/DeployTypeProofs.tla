--------------------------- MODULE DeployTypeProofs --------------------------
(***************************************************************************)
(* Type correctness of the deployment engine for every value of the        *)
(* constants.  TypeOK alone is not inductive: a request or goroutine in    *)
(* progress must have a task and a process, no host goroutine outlives its *)
(* runAsyncTask, a worker that is about to report must have a result, and  *)
(* whoever has derived a verdict on the task carries one.                  *)
(***************************************************************************)
EXTENDS DeployEngine, SequenceTheorems, TLAPS

TablesTyped ==
    /\ status \in [Tasks -> TaskStatuses]
    /\ row \in [Tasks -> [Hosts -> HostStatuses]]
    /\ attempts \in [Tasks -> [Hosts -> Seq(Attempt)]]
    /\ lease \in [Hosts -> Lease]
    /\ ckpt \in [Tasks -> [Hosts -> SUBSET (1..Steps)]]
    /\ up \in [Procs -> BOOLEAN]
    /\ events \in Nat

(* A handler that reports a host, and whoever recomputes a task after it has *)
(* read its hosts.                                                           *)
Reporting == {"report", "active", "settle", "refresh"}

CallsTyped ==
    /\ call \in [Clients -> Call]
    /\ \A c \in Clients : call[c].pc # "idle" =>
          /\ call[c].task \in Tasks /\ call[c].proc \in Procs
          /\ call[c].pc \in Reporting => call[c].host \in Hosts
          /\ call[c].pc \in Judging => call[c].res \in FinalStatuses

RunsTyped ==
    /\ run \in [Runs -> Run]
    /\ \A r \in Runs : run[r].pc # "idle" =>
          /\ run[r].task \in Tasks /\ run[r].proc \in Procs
          /\ run[r].pc \in Judging => run[r].res \in FinalStatuses

WorkerFit(w) ==
    /\ w \in Worker
    /\ w.pc \in {"exec", "script"} => w.step \in Nat \ {0}
    /\ w.pc = "script" => w.step <= Steps
    /\ w.pc \in {"report", "finalize"} => w.res \in {"success", "failed"}
    /\ w.pc \in Judging => w.res \in FinalStatuses

WorkersTyped ==
    /\ worker \in [Runs -> [Hosts -> Worker]]
    /\ \A r \in Runs, h \in Hosts :
          /\ WorkerFit(worker[r][h])
          /\ run[r].pc # "hosts" => worker[r][h].pc = "idle"

TypeInv == TablesTyped /\ CallsTyped /\ RunsTyped /\ WorkersTyped
-----------------------------------------------------------------------------
(* What the shared table operations do to the types of the tables.          *)
LEMMA SetStatusTyped ==
    ASSUME TablesTyped, NEW t \in Tasks, NEW from, NEW to \in TaskStatuses, SetStatus(t, from, to)
    PROVE  status' \in [Tasks -> TaskStatuses]
BY DEF TablesTyped, SetStatus

LEMMA OverwriteTyped ==
    ASSUME TablesTyped, NEW t \in Tasks, NEW s \in TaskStatuses, Overwrite(t, s)
    PROVE  status' \in [Tasks -> TaskStatuses]
BY DEF TablesTyped, Overwrite

LEMMA TerminalTyped ==
    ASSUME NEW t
    PROVE  /\ TerminalTaskStatus(t) \in {"none"} \cup FinalStatuses
           /\ \A next : AfterHosts(t, next) = "active" /\ next # "active" =>
                       TerminalTaskStatus(t) \in FinalStatuses
           /\ \A next : AfterHosts(t, next) \in {next, "active"}
           /\ \A next : AfterAttempts(t, next) \in {next, "settle"}
BY DEF TerminalTaskStatus, FinalStatuses, AfterHosts, AfterAttempts

LEMMA SetHostsTyped ==
    ASSUME TablesTyped, NEW t \in Tasks, NEW from, NEW to \in HostStatuses, SetHosts(t, from, to)
    PROVE  row' \in [Tasks -> [Hosts -> HostStatuses]]
BY DEF TablesTyped, SetHosts

LEMMA AcquireTyped ==
    ASSUME TablesTyped, NEW t \in Tasks, NEW hs, AcquireLeases(t, hs)
    PROVE  lease' \in [Hosts -> Lease]
BY DEF TablesTyped, AcquireLeases, Lease, Leased

LEMMA ReleaseTyped ==
    ASSUME TablesTyped, NEW t, NEW hs, ReleaseLeases(t, hs)
    PROVE  lease' \in [Hosts -> Lease]
BY DEF TablesTyped, ReleaseLeases, Lease, NoLease

(* Overwriting one element, existing or not, keeps a sequence over its set.  *)
LEMMA ExceptTyped ==
    ASSUME NEW S, NEW seq \in Seq(S), NEW i, NEW e \in S
    PROVE  [seq EXCEPT ![i] = e] \in Seq(S)
<1>1. Len(seq) \in Nat /\ seq \in [1..Len(seq) -> S]
  OBVIOUS
<1>2. [seq EXCEPT ![i] = e] \in [1..Len(seq) -> S]
  BY <1>1
<1> QED BY <1>1, <1>2, SeqDef

LEMMA FinishTyped ==
    ASSUME TablesTyped, NEW t \in Tasks, NEW h \in Hosts, NEW i, NEW s \in AttemptStatuses,
           FinishAttempt(t, h, i, s)
    PROVE  attempts' \in [Tasks -> [Hosts -> Seq(Attempt)]]
<1>1. [status |-> s, live |-> FALSE] \in Attempt
  BY DEF Attempt
<1>2. [attempts[t][h] EXCEPT ![i] = [status |-> s, live |-> FALSE]] \in Seq(Attempt)
  <2>1. attempts[t][h] \in Seq(Attempt)
    BY DEF TablesTyped
  <2> QED BY <1>1, <2>1, ExceptTyped
<1>3. attempts' = [attempts EXCEPT ![t] = [attempts[t] EXCEPT ![h] =
                     [attempts[t][h] EXCEPT ![i] = [status |-> s, live |-> FALSE]]]]
  BY DEF FinishAttempt, TablesTyped
<1> QED BY <1>2, <1>3 DEF TablesTyped

LEMMA ReapTyped ==
    ASSUME TablesTyped, ReapAttempts
    PROVE  attempts' \in [Tasks -> [Hosts -> Seq(Attempt)]]
<1>1. \A a \in Attempt : Reaped(a) \in Attempt
  BY DEF Reaped, Attempt, AttemptStatuses
<1>2. ASSUME NEW t \in Tasks, NEW h \in Hosts
      PROVE  [i \in DOMAIN attempts[t][h] |-> Reaped(attempts[t][h][i])] \in Seq(Attempt)
  <2>1. attempts[t][h] \in Seq(Attempt)
    BY DEF TablesTyped
  <2>2. Len(attempts[t][h]) \in Nat /\ DOMAIN attempts[t][h] = 1..Len(attempts[t][h])
    BY <2>1
  <2>3. \A i \in DOMAIN attempts[t][h] : Reaped(attempts[t][h][i]) \in Attempt
    BY <2>1, <1>1
  <2>4. [i \in 1..Len(attempts[t][h]) |-> Reaped(attempts[t][h][i])] \in Seq(Attempt)
    BY <2>2, <2>3, SeqDef
  <2> QED BY <2>2, <2>4
<1> QED BY <1>2 DEF ReapAttempts
-----------------------------------------------------------------------------
(* Frames: what an action leaves alone stays typed.                         *)
LEMMA RunsFrame ==
    ASSUME RunsTyped, WorkersTyped, UNCHANGED <<run, worker>>
    PROVE  RunsTyped' /\ WorkersTyped'
BY DEF RunsTyped, WorkersTyped

LEMMA CallsFrame ==
    ASSUME CallsTyped, UNCHANGED call
    PROVE  CallsTyped'
BY DEF CallsTyped

(* How a handler records what it has still to do.                           *)
LEMMA RequestTyped ==
    ASSUME CallsTyped, TablesTyped, NEW c \in Clients, NEW p \in Procs, NEW t \in Tasks, NEW e,
           NEW pc \in CallPoints \ Reporting, Request(c, p, t, e, pc)
    PROVE  CallsTyped' /\ events' \in Nat
<1>1. events' \in Nat
  BY DEF TablesTyped, Request, Event
<1>2. CallsTyped'
  BY DEF CallsTyped, Request, Call, NoCall, Results, Reporting, Judging
<1> QED BY <1>1, <1>2

LEMMA GotoTyped ==
    ASSUME CallsTyped, NEW c \in Clients, call[c].pc # "idle",
           NEW pc \in CallPoints, pc \in Reporting => call[c].pc \in Reporting,
           pc \in Judging => call[c].pc \in Judging, Goto(c, pc)
    PROVE  CallsTyped'
BY DEF CallsTyped, Goto, Call

LEMMA ReturnTyped ==
    ASSUME CallsTyped, NEW c \in Clients, Return(c)
    PROVE  CallsTyped'
BY DEF CallsTyped, Return, Call, NoCall, CallPoints, Results

(* The task of a request in progress.                                       *)
LEMMA CallTask ==
    ASSUME CallsTyped, NEW c \in Clients, NEW pc, At(c, pc), pc # "idle"
    PROVE  call[c].task \in Tasks /\ call[c].proc \in Procs /\ call[c].pc # "idle"
BY DEF CallsTyped, At
-----------------------------------------------------------------------------
(* A request of an operator keeps every type.                               *)
LEMMA ControlRequestTyped ==
    ASSUME TypeInv, NEW c \in Clients, NEW p \in Procs, NEW t \in Tasks, ControlRequest(c, p, t)
    PROVE  TypeInv'
<1> USE DEF TypeInv
<1>1. CASE StartTask(c, p, t)
  <2>1. CallsTyped' /\ events' \in Nat
    BY <1>1, RequestTyped DEF StartTask, CallPoints, Reporting
  <2>2. lease' \in [Hosts -> Lease]
    BY <1>1, AcquireTyped DEF StartTask
  <2>3. TablesTyped'
    BY <1>1, <2>1, <2>2 DEF StartTask, TablesTyped, TaskStatuses, HostStatuses
  <2> QED BY <1>1, <2>1, <2>3, RunsFrame DEF StartTask
<1>2. CASE PauseTask(c, p, t)
  <2>1. CallsTyped' /\ events' \in Nat
    BY <1>2, RequestTyped DEF PauseTask, CallPoints, Reporting
  <2>2. status' \in [Tasks -> TaskStatuses]
    BY <1>2, SetStatusTyped DEF PauseTask, TaskStatuses
  <2>3. TablesTyped'
    BY <1>2, <2>1, <2>2 DEF PauseTask, TablesTyped
  <2> QED BY <1>2, <2>1, <2>3, RunsFrame DEF PauseTask
<1>3. CASE ResumeTask(c, p, t)
  <2>1. CallsTyped' /\ events' \in Nat
    BY <1>3, RequestTyped DEF ResumeTask, CallPoints, Reporting
  <2>2. status' \in [Tasks -> TaskStatuses]
    BY <1>3, SetStatusTyped DEF ResumeTask, TaskStatuses
  <2>3. TablesTyped'
    BY <1>3, <2>1, <2>2 DEF ResumeTask, TablesTyped
  <2> QED BY <1>3, <2>1, <2>3, RunsFrame DEF ResumeTask
<1>4. CASE RetryTask(c, p, t)
  <2>1. CallsTyped' /\ events' \in Nat
    BY <1>4, RequestTyped DEF RetryTask, CallPoints, Reporting
  <2>2. status' \in [Tasks -> TaskStatuses]
    BY <1>4, SetStatusTyped DEF RetryTask, TaskStatuses
  <2>3. TablesTyped'
    BY <1>4, <2>1, <2>2 DEF RetryTask, TablesTyped
  <2> QED BY <1>4, <2>1, <2>3, RunsFrame DEF RetryTask
<1>5. CASE CancelTask(c, p, t)
  <2>1. CallsTyped' /\ events' \in Nat
    BY <1>5, RequestTyped DEF CancelTask, CallPoints, Reporting
  <2>2. TablesTyped'
    BY <1>5, <2>1 DEF CancelTask, TablesTyped, TaskStatuses
  <2> QED BY <1>5, <2>1, <2>2, RunsFrame DEF CancelTask
<1>6. CASE DeleteTask(c, p, t)
  <2>1. CallsTyped' /\ events' \in Nat
    BY <1>6, RequestTyped DEF DeleteTask, CallPoints, Reporting
  <2>2. status' \in [Tasks -> TaskStatuses]
    BY <1>6, SetStatusTyped DEF DeleteTask, TaskStatuses
  <2>3. TablesTyped'
    BY <1>6, <2>1, <2>2 DEF DeleteTask, TablesTyped
  <2> QED BY <1>6, <2>1, <2>3, RunsFrame DEF DeleteTask
<1>7. ASSUME NEW h \in Hosts, NEW result \in DoneHosts, MarkHostResult(c, p, t, h, result)
      PROVE  TypeInv'
  <2>1. TablesTyped'
    BY <1>7 DEF MarkHostResult, TablesTyped, Event, DoneHosts, HostStatuses
  <2>2. CallsTyped'
    BY <1>7 DEF MarkHostResult, CallsTyped, Call, CallPoints, Results, Judging
  <2> QED BY <1>7, <2>1, <2>2, RunsFrame DEF MarkHostResult
<1> QED BY <1>1, <1>2, <1>3, <1>4, <1>5, <1>6, <1>7 DEF ControlRequest

(* A later statement of a handler keeps every type.                         *)
LEMMA ControlStepTyped ==
    ASSUME TypeInv, NEW c \in Clients, ControlStep(c)
    PROVE  TypeInv'
<1> USE DEF TypeInv
<1>1. CASE StartDispatch(c)
  <2>1. CallsTyped'
    BY <1>1, GotoTyped, ReturnTyped DEF StartDispatch, At, CallPoints, Reporting, Judging
  <2>2. TablesTyped'
    BY <1>1 DEF StartDispatch, TablesTyped
  <2> QED BY <1>1, <2>1, <2>2, RunsFrame DEF StartDispatch
<1>2. CASE Spawn(c)
  <2>1. CallsTyped' /\ TablesTyped'
    BY <1>2, ReturnTyped DEF Spawn, TablesTyped
  <2>2. call[c].task \in Tasks /\ call[c].proc \in Procs
    BY <1>2, CallTask DEF Spawn
  <2>3. PICK r \in IdleRuns : run' = [run EXCEPT ![r] = Spawned(call[c].proc, call[c].task)]
    BY <1>2 DEF Spawn
  <2>4. RunsTyped'
    BY <2>2, <2>3 DEF RunsTyped, IdleRuns, Run, RunPoints, Spawned, Results, Judging
  <2>5. WorkersTyped'
    BY <1>2, <2>3 DEF RunsTyped, WorkersTyped, IdleRuns, Spawn
  <2> QED BY <2>1, <2>4, <2>5
<1>3. CASE Kill(c)
  <2>1. CallsTyped' /\ TablesTyped'
    BY <1>3, ReturnTyped DEF Kill, TablesTyped
  <2>2. \A r \in Runs : /\ run'[r] \in Run /\ run'[r].pc = run[r].pc
                         /\ run'[r].task = run[r].task /\ run'[r].proc = run[r].proc
                         /\ run'[r].res = run[r].res
    BY <1>3 DEF Kill, RunsTyped, Run
  <2>3. RunsTyped'
    BY <1>3, <2>2 DEF Kill, RunsTyped
  <2>4. WorkersTyped'
    BY <1>3, <2>2 DEF Kill, WorkersTyped
  <2> QED BY <2>1, <2>3, <2>4
<1>4. CASE RetryResetsHosts(c)
  <2>1. CallsTyped' /\ call[c].task \in Tasks
    BY <1>4, GotoTyped, CallTask DEF RetryResetsHosts, At, CallPoints, Reporting, Judging
  <2>2. row' \in [Tasks -> [Hosts -> HostStatuses]]
    BY <1>4, <2>1, SetHostsTyped DEF RetryResetsHosts, HostStatuses
  <2>3. TablesTyped'
    BY <1>4, <2>2 DEF RetryResetsHosts, TablesTyped
  <2> QED BY <1>4, <2>1, <2>3, RunsFrame DEF RetryResetsHosts
<1>5. CASE CancelSkipsHosts(c)
  <2>1. CallsTyped' /\ call[c].task \in Tasks
    BY <1>5, GotoTyped, CallTask DEF CancelSkipsHosts, At, CallPoints, Reporting, Judging
  <2>2. row' \in [Tasks -> [Hosts -> HostStatuses]]
    BY <1>5, <2>1, SetHostsTyped DEF CancelSkipsHosts, HostStatuses
  <2>3. TablesTyped'
    BY <1>5, <2>2 DEF CancelSkipsHosts, TablesTyped
  <2> QED BY <1>5, <2>1, <2>3, RunsFrame DEF CancelSkipsHosts
<1>6. CASE MarkFinalize(c)
  <2>1. CallsTyped' /\ call[c].task \in Tasks
    BY <1>6, ReturnTyped, CallTask DEF MarkFinalize
  <2>2. lease' \in [Hosts -> Lease]
    BY <1>6, ReleaseTyped DEF MarkFinalize, FinalizeHostResult, TablesTyped
  <2>3. TablesTyped'
    BY <1>6, <2>2 DEF MarkFinalize, TablesTyped
  <2> QED BY <1>6, <2>1, <2>3, RunsFrame DEF MarkFinalize
<1>7. CASE DeleteCommit(c)
  <2>1. CallsTyped'
    BY <1>7, ReturnTyped DEF DeleteCommit
  <2>2. TablesTyped'
    BY <1>7 DEF DeleteCommit, TablesTyped, TaskStatuses, HostStatuses
  <2> QED BY <1>7, <2>1, <2>2, RunsFrame DEF DeleteCommit
<1>8. CASE StartFailsHosts(c)
  <2>1. CallsTyped' /\ call[c].task \in Tasks
    BY <1>8, GotoTyped, CallTask DEF StartFailsHosts, At, CallPoints, Reporting, Judging
  <2>2. row' \in [Tasks -> [Hosts -> HostStatuses]]
    BY <1>8, <2>1, SetHostsTyped DEF StartFailsHosts, HostStatuses
  <2>3. TablesTyped'
    BY <1>8, <2>2 DEF StartFailsHosts, TablesTyped
  <2> QED BY <1>8, <2>1, <2>3, RunsFrame DEF StartFailsHosts
<1>9. CASE StartFailsLeases(c)
  <2>1. CallsTyped' /\ TablesTyped'
    BY <1>9, ReturnTyped, ReleaseTyped DEF StartFailsLeases, TablesTyped
  <2> QED BY <1>9, <2>1, RunsFrame DEF StartFailsLeases
<1>10. CASE MarkReadsHosts(c)
  <2> DEFINE t == call[c].task
             pc == AfterHosts(t, "refresh")
             s == TerminalTaskStatus(t)
  <2>1. /\ call[c].pc = "report" /\ call' = [call EXCEPT ![c].pc = pc, ![c].res = s]
        /\ s \in {"none"} \cup FinalStatuses /\ pc \in {"refresh", "active"}
        /\ pc = "active" => s \in FinalStatuses
    BY <1>10, TerminalTyped DEF MarkReadsHosts, At, Carry
  <2> HIDE DEF pc, s
  <2>2. CallsTyped'
    BY <2>1 DEF CallsTyped, Call, CallPoints, Results, Reporting, Judging
  <2>3. TablesTyped'
    BY <1>10 DEF MarkReadsHosts, TablesTyped
  <2> QED BY <1>10, <2>2, <2>3, RunsFrame DEF MarkReadsHosts
<1>11. CASE MarkReadsAttempts(c)
  <2>1. AfterAttempts(call[c].task, "refresh") \in {"refresh", "settle"}
    BY TerminalTyped
  <2>2. CallsTyped'
    BY <1>11, <2>1, GotoTyped DEF MarkReadsAttempts, At, CallPoints, Reporting, Judging
  <2>3. TablesTyped'
    BY <1>11 DEF MarkReadsAttempts, TablesTyped
  <2> QED BY <1>11, <2>2, <2>3, RunsFrame DEF MarkReadsAttempts
<1>12. CASE MarkSettles(c)
  <2>1. CallsTyped' /\ call[c].task \in Tasks /\ call[c].res \in TaskStatuses
    BY <1>12, GotoTyped, CallTask
       DEF MarkSettles, At, CallPoints, Reporting, Judging, CallsTyped, FinalStatuses, TaskStatuses
  <2>2. status' \in [Tasks -> TaskStatuses]
    BY <1>12, <2>1, OverwriteTyped DEF MarkSettles
  <2>3. TablesTyped'
    BY <1>12, <2>2 DEF MarkSettles, TablesTyped
  <2> QED BY <1>12, <2>1, <2>3, RunsFrame DEF MarkSettles
<1> QED BY <1>1, <1>2, <1>3, <1>4, <1>5, <1>6, <1>7, <1>8, <1>9, <1>10, <1>11, <1>12
        DEF ControlStep

(* A handler whose environment fails it keeps every type.                   *)
LEMMA ControlFaultTyped ==
    ASSUME TypeInv, NEW c \in Clients, ControlFault(c)
    PROVE  TypeInv'
<1> USE DEF TypeInv
<1>1. CASE StartFails(c)
  <2>1. CallsTyped' /\ call[c].task \in Tasks
    BY <1>1, GotoTyped, CallTask DEF StartFails, At, CallPoints, Reporting, Judging
  <2>2. status' \in [Tasks -> TaskStatuses]
    BY <1>1, <2>1, OverwriteTyped DEF StartFails, TaskStatuses
  <2>3. TablesTyped'
    BY <1>1, <2>2 DEF StartFails, TablesTyped, Event
  <2> QED BY <1>1, <2>1, <2>3, RunsFrame DEF StartFails
<1>2. CASE MarkWritebackFails(c)
  <2>1. CallsTyped' /\ TablesTyped'
    BY <1>2, ReturnTyped DEF MarkWritebackFails, TablesTyped, Event
  <2> QED BY <1>2, <2>1, RunsFrame DEF MarkWritebackFails
<1>3. CASE MarkStateFails(c)
  <2>1. CallsTyped' /\ TablesTyped'
    BY <1>3, ReturnTyped DEF MarkStateFails, TablesTyped, Event
  <2> QED BY <1>3, <2>1, RunsFrame DEF MarkStateFails
<1> QED BY <1>1, <1>2, <1>3 DEF ControlFault
-----------------------------------------------------------------------------
(* runAsyncTask moves on while none of its host goroutines runs.            *)
LEMMA RunGotoTyped ==
    ASSUME RunsTyped, WorkersTyped, NEW r \in Runs, run[r].pc # "idle",
           \A h \in Hosts : worker[r][h].pc = "idle",
           NEW pc \in RunPoints, pc \in Judging => run[r].pc \in Judging,
           RunGoto(r, pc), UNCHANGED worker
    PROVE  RunsTyped' /\ WorkersTyped'
<1>1. RunsTyped'
  BY DEF RunsTyped, RunGoto, Run
<1>2. WorkersTyped'
  BY DEF RunsTyped, RunGoto, WorkersTyped
<1> QED BY <1>1, <1>2

(* runAsyncTask returns, or is dropped.                                     *)
LEMMA RunReturnTyped ==
    ASSUME RunsTyped, WorkersTyped, NEW r \in Runs, \A h \in Hosts : worker[r][h].pc = "idle",
           run' = [run EXCEPT ![r] = IdleRun], UNCHANGED worker
    PROVE  RunsTyped' /\ WorkersTyped'
<1>1. RunsTyped'
  BY DEF RunsTyped, Run, IdleRun, RunPoints, Results
<1>2. WorkersTyped'
  BY DEF RunsTyped, IdleRun, WorkersTyped
<1> QED BY <1>1, <1>2

LEMMA FailQueuedTyped ==
    ASSUME TypeInv, NEW r \in Runs, run[r].pc = "boot", FailQueuedTask(r), events' \in Nat
    PROVE  TypeInv'
<1> USE DEF TypeInv
<1>1. run[r].task \in Tasks /\ \A h \in Hosts : worker[r][h].pc = "idle"
  BY DEF RunsTyped, WorkersTyped
<1>2. row' \in [Tasks -> [Hosts -> HostStatuses]]
  BY <1>1, SetHostsTyped DEF FailQueuedTask, HostStatuses
<1>3. TablesTyped'
  BY <1>2 DEF FailQueuedTask, TablesTyped
<1>4. RunsTyped' /\ WorkersTyped'
  BY <1>1, RunGotoTyped DEF FailQueuedTask, RunPoints, Judging
<1> QED BY <1>3, <1>4, CallsFrame DEF FailQueuedTask

(* A step of runAsyncTask keeps every type.                                 *)
LEMMA RunStepTyped ==
    ASSUME TypeInv, NEW r \in Runs, RunStep(r) \/ RunCredentialFails(r)
    PROVE  TypeInv'
<1> USE DEF TypeInv
<1>0. /\ run[r].pc # "idle" => run[r].task \in Tasks
      /\ run[r].pc # "hosts" => \A h \in Hosts : worker[r][h].pc = "idle"
  BY DEF RunsTyped, WorkersTyped
<1>1. CASE RunDropped(r)
  <2>1. TablesTyped'
    BY <1>1 DEF RunDropped, TablesTyped
  <2> QED BY <1>0, <1>1, <2>1, RunReturnTyped, CallsFrame DEF RunDropped
<1>2. CASE RunBegin(r)
  <2>1. TablesTyped'
    BY <1>2, ReapTyped DEF RunBegin, TablesTyped
  <2> QED BY <1>0, <1>2, <2>1, RunGotoTyped, CallsFrame DEF RunBegin, RunPoints, Judging
<1>3. CASE RunCredentialFails(r)
  BY <1>3, FailQueuedTyped DEF RunCredentialFails, Event, TablesTyped
<1>4. CASE RunLeaseConflict(r)
  BY <1>4, FailQueuedTyped DEF RunLeaseConflict, TablesTyped
<1>5. CASE RunTaskGone(r)
  <2>1. TablesTyped'
    BY <1>5 DEF RunTaskGone, TablesTyped
  <2> QED BY <1>0, <1>5, <2>1, RunGotoTyped, CallsFrame DEF RunTaskGone, RunPoints, Judging
<1>6. CASE RunBoot(r)
  <2>1. TablesTyped'
    BY <1>0, <1>6, AcquireTyped DEF RunBoot, TablesTyped
  <2>2. RunsTyped'
    BY <1>6 DEF RunBoot, RunGoto, RunsTyped, Run, RunPoints, Judging
  <2>3. QueuedWorker \in Worker /\ IdleWorker \in Worker
        /\ WorkerFit(QueuedWorker) /\ WorkerFit(IdleWorker)
    BY DEF QueuedWorker, IdleWorker, Fresh, Worker, WorkerPoints, Outcomes, WorkerFit, Judging
  <2>4. WorkersTyped'
    BY <1>6, <2>3 DEF RunBoot, RunGoto, RunsTyped, WorkersTyped
  <2> QED BY <1>6, <2>1, <2>2, <2>4, CallsFrame DEF RunBoot
<1>7. CASE RunSettle(r)
  <2>1. TablesTyped'
    BY <1>7, ReleaseTyped DEF RunSettle, TablesTyped
  <2> QED BY <1>7, <2>1, RunGotoTyped, CallsFrame DEF RunSettle, RunPoints, Judging
<1>8. CASE RunCancel(r)
  <2>1. TablesTyped'
    BY <1>0, <1>8, SetStatusTyped DEF RunCancel, TablesTyped, TaskStatuses
  <2> QED BY <1>0, <1>8, <2>1, RunGotoTyped, CallsFrame DEF RunCancel, RunPoints, Judging
<1>9. CASE RunReadsHosts(r)
  <2> DEFINE t == run[r].task
             pc == AfterHosts(t, "exit")
             s == TerminalTaskStatus(t)
  <2>1. /\ run[r].pc = "recompute" /\ run' = [run EXCEPT ![r].pc = pc, ![r].res = s]
        /\ s \in {"none"} \cup FinalStatuses /\ pc \in {"exit", "active"}
        /\ pc = "active" => s \in FinalStatuses
    BY <1>9, TerminalTyped DEF RunReadsHosts
  <2> HIDE DEF pc, s
  <2>2. RunsTyped'
    BY <2>1 DEF RunsTyped, Run, RunPoints, Results, Judging
  <2>3. WorkersTyped'
    BY <1>9, <2>1 DEF RunReadsHosts, RunsTyped, WorkersTyped
  <2>4. TablesTyped'
    BY <1>9 DEF RunReadsHosts, TablesTyped
  <2> QED BY <1>9, <2>2, <2>3, <2>4, CallsFrame DEF RunReadsHosts
<1>11. CASE RunReadsAttempts(r)
  <2>1. AfterAttempts(run[r].task, "exit") \in {"exit", "settle"}
    BY TerminalTyped
  <2>2. TablesTyped'
    BY <1>11 DEF RunReadsAttempts, TablesTyped
  <2> QED BY <1>0, <1>11, <2>1, <2>2, RunGotoTyped, CallsFrame
          DEF RunReadsAttempts, RunPoints, Judging
<1>12. CASE RunSettles(r)
  <2>1. run[r].res \in TaskStatuses
    BY <1>12 DEF RunSettles, RunsTyped, Judging, FinalStatuses, TaskStatuses
  <2>2. TablesTyped'
    BY <1>0, <1>12, <2>1, OverwriteTyped DEF RunSettles, TablesTyped
  <2> QED BY <1>0, <1>12, <2>2, RunGotoTyped, CallsFrame DEF RunSettles, RunPoints, Judging
<1>13. CASE RunFailsTask(r)
  <2>1. TablesTyped'
    BY <1>0, <1>13, SetStatusTyped DEF RunFailsTask, TablesTyped, TaskStatuses
  <2> QED BY <1>0, <1>13, <2>1, RunGotoTyped, CallsFrame DEF RunFailsTask, RunPoints, Judging
<1>10. CASE RunExit(r)
  <2>1. TablesTyped'
    BY <1>10 DEF RunExit, TablesTyped
  <2> QED BY <1>0, <1>10, <2>1, RunReturnTyped, CallsFrame DEF RunExit
<1> QED BY <1>1, <1>2, <1>3, <1>4, <1>5, <1>6, <1>7, <1>8, <1>9, <1>10, <1>11, <1>12, <1>13
        DEF RunStep
-----------------------------------------------------------------------------
(* A host goroutine moves to a state that fits.                             *)
LEMMA SetWorkerTyped ==
    ASSUME WorkersTyped, NEW r \in Runs, NEW h \in Hosts, run[r].pc = "hosts",
           NEW w, WorkerFit(w), SetWorker(r, h, w), \A q \in Runs : run'[q].pc = run[q].pc
    PROVE  WorkersTyped'
<1>1. w \in Worker
  BY DEF WorkerFit
<1>2. worker' \in [Runs -> [Hosts -> Worker]]
  BY <1>1 DEF WorkersTyped, SetWorker
<1>3. \A q \in Runs, g \in Hosts :
         worker'[q][g] = IF q = r /\ g = h THEN w ELSE worker[q][g]
  BY DEF WorkersTyped, SetWorker
<1> QED BY <1>2, <1>3 DEF WorkersTyped

LEMMA RunsUnchanged ==
    ASSUME RunsTyped, UNCHANGED run
    PROVE  RunsTyped' /\ \A q \in Runs : run'[q].pc = run[q].pc
BY DEF RunsTyped

(* The states that count: the next step, a new claim, another round.        *)
LEMMA CountedFit ==
    ASSUME NEW w, WorkerFit(w), NEW n \in Nat
    PROVE  /\ WorkerFit(Claimed(w.round, n + 1))
           /\ WorkerFit(Fresh("check", w.round + 1))
           /\ WorkerFit([w EXCEPT !.pc = "exec", !.step = @ + 1])
           /\ WorkerFit([w EXCEPT !.pc = "exec", !.step = @ + 1, !.res = "canceled"])
<1>1. /\ w \in Worker /\ w.step \in Nat /\ w.round \in Nat
      /\ w.step + 1 \in Nat \ {0} /\ w.round + 1 \in Nat /\ n + 1 \in Nat
  BY DEF WorkerFit, Worker
<1>2. WorkerFit(Claimed(w.round, n + 1)) /\ WorkerFit(Fresh("check", w.round + 1))
  BY <1>1 DEF Claimed, Fresh, WorkerFit, Worker, WorkerPoints, Outcomes, Judging
<1>3. ASSUME NEW k \in Nat \ {0}
      PROVE  /\ WorkerFit([w EXCEPT !.pc = "exec", !.step = k])
             /\ WorkerFit([w EXCEPT !.pc = "exec", !.step = k, !.res = "canceled"])
  BY <1>1 DEF WorkerFit, Worker, WorkerPoints, Outcomes, Judging
<1> QED BY <1>1, <1>2, <1>3

(* A step of a host goroutine keeps every type.                             *)
LEMMA WorkerStepTyped ==
    ASSUME TypeInv, NEW r \in Runs, NEW h \in Hosts, WorkerStep(r, h) \/ WorkerFault(r, h)
    PROVE  TypeInv'
<1> USE DEF TypeInv
<1> DEFINE w == worker[r][h]
           t == run[r].task
<1>a. /\ WorkerFit(w) /\ (w.pc # "idle" => t \in Tasks)
      /\ \A pc : WorkerAt(r, h, pc) => run[r].pc = "hosts" /\ w.pc = pc /\ t \in Tasks
  BY DEF RunsTyped, WorkersTyped, WorkerAt
<1>b. WorkerFit(IdleWorker)
  BY DEF IdleWorker, Fresh, Worker, WorkerPoints, Outcomes, WorkerFit, Judging
<1>1. CASE WorkerCheck(r, h)
  <2>1. TablesTyped'
    BY <1>a, <1>1 DEF WorkerCheck, TablesTyped
  <2>2. WorkerFit([w EXCEPT !.pc = "claim"])
    BY <1>a DEF WorkerFit, Worker, WorkerPoints, Judging
  <2>3. run[r].pc = "hosts"
    BY <1>a, <1>1 DEF WorkerCheck
  <2>4. WorkersTyped'
    BY <1>b, <1>1, <2>2, <2>3, SetWorkerTyped, RunsUnchanged DEF WorkerCheck, WorkerExit, WorkerGoto
  <2> QED BY <1>1, <2>1, <2>4, RunsUnchanged, CallsFrame DEF WorkerCheck
<1>2. CASE WorkerSkip(r, h)
  <2>1. TablesTyped'
    BY <1>a, <1>2 DEF WorkerSkip, TablesTyped
  <2>2. run[r].pc = "hosts" /\ WorkersTyped'
    BY <1>a, <1>b, <1>2, SetWorkerTyped, RunsUnchanged DEF WorkerSkip, WorkerExit
  <2> QED BY <1>2, <2>1, <2>2, RunsUnchanged, CallsFrame DEF WorkerSkip
<1>3. CASE WorkerClaim(r, h)
  <2>1. t \in Tasks /\ attempts[t][h] \in Seq(Attempt)
    BY <1>a, <1>3 DEF WorkerClaim, TablesTyped
  <2>2. Append(attempts[t][h], [status |-> "running", live |-> TRUE]) \in Seq(Attempt)
    BY <2>1 DEF Attempt, AttemptStatuses
  <2>3. attempts' \in [Tasks -> [Hosts -> Seq(Attempt)]]
    BY <1>3, <2>1, <2>2 DEF WorkerClaim, TablesTyped
  <2>4. TablesTyped'
    BY <1>3, <2>3 DEF WorkerClaim, TablesTyped
  <2>5. WorkerFit(Claimed(w.round, Len(attempts[t][h]) + 1))
    <3>1. Len(attempts[t][h]) \in Nat
      BY <2>1
    <3> QED BY <1>a, <3>1, CountedFit
  <2>6. WorkersTyped'
    BY <1>a, <1>3, <2>5, SetWorkerTyped, RunsUnchanged DEF WorkerClaim
  <2> QED BY <1>3, <2>4, <2>6, RunsUnchanged, CallsFrame DEF WorkerClaim
<1>4. CASE WorkerClaimRefused(r, h)
  <2>1. TablesTyped'
    BY <1>a, <1>4 DEF WorkerClaimRefused, TablesTyped
  <2>2. run[r].pc = "hosts" /\ WorkersTyped'
    BY <1>a, <1>b, <1>4, SetWorkerTyped, RunsUnchanged DEF WorkerClaimRefused, WorkerExit
  <2> QED BY <1>4, <2>1, <2>2, RunsUnchanged, CallsFrame DEF WorkerClaimRefused
<1>5. CASE ConnectFails(r, h)
  <2>1. TablesTyped'
    BY <1>a, <1>5 DEF ConnectFails, TablesTyped, Event
  <2>2. WorkerFit([w EXCEPT !.pc = "report", !.res = "failed"])
    BY <1>a, <1>5 DEF ConnectFails, WorkerFit, Worker, WorkerPoints, Outcomes, Judging
  <2>3. WorkersTyped'
    BY <1>a, <1>b, <1>5, <2>2, SetWorkerTyped, RunsUnchanged DEF ConnectFails, Outcome
  <2> QED BY <1>5, <2>1, <2>3, RunsUnchanged, CallsFrame DEF ConnectFails
<1>6. CASE NextStep(r, h)
  <2>1. TablesTyped'
    BY <1>6 DEF NextStep, TablesTyped
  <2>2. /\ WorkerFit([w EXCEPT !.pc = "interrupt"])
        /\ WorkerFit([w EXCEPT !.pc = "report", !.res = "success"])
    BY <1>a DEF WorkerFit, Worker, WorkerPoints, Outcomes, Judging
  <2>3. w.pc = "exec" /\ run[r].pc = "hosts"
    BY <1>a, <1>6 DEF NextStep
  <2>4. WorkerFit([w EXCEPT !.step = @ + 1])
    BY <1>a, <2>3 DEF WorkerFit, Worker
  <2>5. ~(w.step > Steps) => WorkerFit([w EXCEPT !.pc = "script"])
    BY <1>a, <2>3, DeployAssumption DEF WorkerFit, Worker, WorkerPoints, Judging
  <2>6. WorkersTyped'
    BY <1>6, <2>2, <2>3, <2>4, <2>5, SetWorkerTyped, RunsUnchanged DEF NextStep, WorkerGoto, Outcome
  <2> QED BY <1>6, <2>1, <2>6, RunsUnchanged, CallsFrame DEF NextStep
<1>7. CASE StepSucceeds(r, h)
  <2>1. w.pc = "script" /\ run[r].pc = "hosts" /\ t \in Tasks /\ w.step \in 1..Steps
    BY <1>a, <1>7, DeployAssumption DEF StepSucceeds, WorkerFit, Worker
  <2>2. TablesTyped'
    BY <1>7, <2>1 DEF StepSucceeds, TablesTyped
  <2>3. WorkerFit([w EXCEPT !.pc = "exec", !.step = @ + 1])
    BY <1>a, CountedFit
  <2>4. WorkersTyped'
    BY <1>7, <2>1, <2>3, SetWorkerTyped, RunsUnchanged DEF StepSucceeds
  <2> QED BY <1>7, <2>2, <2>4, RunsUnchanged, CallsFrame DEF StepSucceeds
<1>8. CASE StepStops(r, h)
  <2>1. w.pc = "script" /\ run[r].pc = "hosts" /\ t \in Tasks
    BY <1>a, <1>8 DEF StepStops
  <2>2. TablesTyped'
    BY <1>8, <2>1 DEF StepStops, TablesTyped, Event
  <2>3. WorkerFit([w EXCEPT !.pc = "exec", !.step = @ + 1, !.res = "canceled"])
    BY <1>a, CountedFit
  <2>4. WorkerFit([w EXCEPT !.pc = "report", !.res = "failed"])
    BY <1>a DEF WorkerFit, Worker, WorkerPoints, Outcomes, Judging
  <2>5. WorkersTyped'
    BY <1>8, <2>1, <2>3, <2>4, SetWorkerTyped, RunsUnchanged DEF StepStops
  <2> QED BY <1>8, <2>2, <2>5, RunsUnchanged, CallsFrame DEF StepStops
<1>9. CASE Interrupt(r, h)
  <2>1. TablesTyped'
    BY <1>a, <1>9, SetStatusTyped DEF Interrupt, TablesTyped, TaskStatuses
  <2>2. /\ WorkerFit([w EXCEPT !.pc = "finish", !.res = "none"])
        /\ WorkerFit([w EXCEPT !.pc = "report", !.res = "failed"])
    BY <1>a DEF WorkerFit, Worker, WorkerPoints, Outcomes, Judging
  <2>3. WorkersTyped'
    BY <1>a, <1>9, <2>2, SetWorkerTyped, RunsUnchanged DEF Interrupt, Outcome
  <2> QED BY <1>9, <2>1, <2>3, RunsUnchanged, CallsFrame DEF Interrupt
<1>10. CASE WorkerReport(r, h)
  <2>1. w.pc = "report" /\ run[r].pc = "hosts" /\ t \in Tasks /\ w.res \in {"success", "failed"}
    BY <1>a, <1>10 DEF WorkerReport, WorkerFit
  <2>2. TablesTyped'
    BY <1>10, <2>1 DEF WorkerReport, TablesTyped, HostStatuses
  <2>3. /\ WorkerFit([w EXCEPT !.pc = "finalize"])
        /\ \A res \in Outcomes : WorkerFit([w EXCEPT !.pc = "finish", !.res = res])
    BY <1>a, <2>1 DEF WorkerFit, Worker, WorkerPoints, Judging
  <2>4. WorkersTyped'
    BY <1>10, <2>1, <2>3, SetWorkerTyped, RunsUnchanged DEF WorkerReport, Outcome, WorkerGoto, Outcomes
  <2> QED BY <1>10, <2>2, <2>4, RunsUnchanged, CallsFrame DEF WorkerReport
<1>11. CASE WorkerFinalize(r, h)
  <2>1. TablesTyped'
    BY <1>a, <1>11, ReleaseTyped DEF WorkerFinalize, TablesTyped
  <2>2. /\ WorkerFit([w EXCEPT !.pc = "finish", !.res = "none"])
        /\ WorkerFit([w EXCEPT !.pc = "finish", !.res = "error"])
    BY <1>a, <1>11 DEF WorkerFinalize, WorkerFit, Worker, WorkerPoints, Outcomes, Judging
  <2>3. WorkersTyped'
    BY <1>a, <1>b, <1>11, <2>2, SetWorkerTyped, RunsUnchanged DEF WorkerFinalize, Outcome
  <2> QED BY <1>11, <2>1, <2>3, RunsUnchanged, CallsFrame DEF WorkerFinalize
<1>12. CASE WorkerWritebackFails(r, h)
  <2>1. TablesTyped'
    BY <1>a, <1>12 DEF WorkerWritebackFails, TablesTyped, Event
  <2>2. WorkerFit([w EXCEPT !.pc = "finish", !.res = "error"])
    BY <1>a, <1>12 DEF WorkerWritebackFails, WorkerFit, Worker, WorkerPoints, Outcomes, Judging
  <2>3. WorkersTyped'
    BY <1>a, <1>b, <1>12, <2>2, SetWorkerTyped, RunsUnchanged DEF WorkerWritebackFails, Outcome
  <2> QED BY <1>12, <2>1, <2>3, RunsUnchanged, CallsFrame DEF WorkerWritebackFails
<1>13. CASE WorkerStateFails(r, h)
  <2>1. TablesTyped'
    BY <1>13 DEF WorkerStateFails, TablesTyped, Event
  <2>2. WorkerFit([w EXCEPT !.pc = "finish", !.res = "error"])
    BY <1>a, <1>13 DEF WorkerStateFails, WorkerFit, Worker, WorkerPoints, Outcomes, Judging
  <2>3. WorkersTyped'
    BY <1>a, <1>b, <1>13, <2>2, SetWorkerTyped, RunsUnchanged DEF WorkerStateFails, Outcome
  <2> QED BY <1>13, <2>1, <2>3, RunsUnchanged, CallsFrame DEF WorkerStateFails
<1>14. CASE FinishInterrupted(r, h)
  <2>1. TablesTyped'
    BY <1>a, <1>14, FinishTyped DEF FinishInterrupted, TablesTyped, AttemptStatuses
  <2>2. WorkersTyped'
    BY <1>a, <1>b, <1>14, SetWorkerTyped, RunsUnchanged DEF FinishInterrupted, WorkerExit
  <2> QED BY <1>14, <2>1, <2>2, RunsUnchanged, CallsFrame DEF FinishInterrupted
<1>15. CASE FinishSuccess(r, h)
  <2>1. TablesTyped'
    BY <1>a, <1>15, FinishTyped DEF FinishSuccess, TablesTyped, AttemptStatuses
  <2>2. WorkersTyped'
    BY <1>a, <1>b, <1>15, SetWorkerTyped, RunsUnchanged DEF FinishSuccess, WorkerExit
  <2> QED BY <1>15, <2>1, <2>2, RunsUnchanged, CallsFrame DEF FinishSuccess
<1>16. CASE FinishFailed(r, h)
  <2>1. TablesTyped'
    BY <1>a, <1>16, FinishTyped DEF FinishFailed, TablesTyped, AttemptStatuses
  <2>2. WorkerFit([w EXCEPT !.pc = "retry"])
    BY <1>a, <1>16 DEF FinishFailed, WorkerFit, Worker, WorkerPoints, Outcomes, Judging
  <2>3. WorkersTyped'
    BY <1>a, <1>b, <1>16, <2>2, SetWorkerTyped, RunsUnchanged DEF FinishFailed, WorkerGoto
  <2> QED BY <1>16, <2>1, <2>3, RunsUnchanged, CallsFrame DEF FinishFailed
<1>17. CASE Requeue(r, h)
  <2>1. TablesTyped'
    BY <1>a, <1>17 DEF Requeue, TablesTyped, HostStatuses
  <2>2. WorkerFit(Fresh("check", w.round + 1))
    BY <1>a, CountedFit
  <2>3. WorkersTyped'
    BY <1>a, <1>17, <2>2, SetWorkerTyped, RunsUnchanged DEF Requeue
  <2> QED BY <1>17, <2>1, <2>3, RunsUnchanged, CallsFrame DEF Requeue
<1>18. CASE GiveUp(r, h)
  <2>1. TablesTyped'
    BY <1>18 DEF GiveUp, TablesTyped
  <2>2. RunsTyped' /\ \A q \in Runs : run'[q].pc = run[q].pc
    BY <1>18 DEF GiveUp, RunsTyped, Run
  <2>3. WorkersTyped'
    BY <1>a, <1>b, <1>18, <2>2, SetWorkerTyped DEF GiveUp, WorkerExit
  <2> QED BY <1>18, <2>1, <2>2, <2>3, CallsFrame DEF GiveUp
<1>19. CASE WorkerReadsHosts(r, h)
  <2> DEFINE pc == AfterHosts(t, "refresh")
             s == TerminalTaskStatus(t)
  <2>1. /\ SetWorker(r, h, [w EXCEPT !.pc = pc, !.res = s])
        /\ s \in {"none"} \cup FinalStatuses /\ pc \in {"refresh", "active"}
        /\ pc = "active" => s \in FinalStatuses
    BY <1>19, TerminalTyped DEF WorkerReadsHosts, Outcome
  <2> HIDE DEF pc, s
  <2>2. WorkerFit([w EXCEPT !.pc = pc, !.res = s])
    BY <1>a, <2>1 DEF WorkerFit, Worker, WorkerPoints, Outcomes, FinalStatuses, Judging
  <2>3. run[r].pc = "hosts" /\ WorkersTyped'
    BY <1>a, <1>19, <2>1, <2>2, SetWorkerTyped, RunsUnchanged DEF WorkerReadsHosts
  <2>4. TablesTyped'
    BY <1>19 DEF WorkerReadsHosts, TablesTyped
  <2> QED BY <1>19, <2>3, <2>4, RunsUnchanged, CallsFrame DEF WorkerReadsHosts
<1>20. CASE WorkerReadsAttempts(r, h)
  <2>1. AfterAttempts(t, "refresh") \in {"refresh", "settle"}
    BY TerminalTyped
  <2>2. w.pc = "active"
    BY <1>a, <1>20 DEF WorkerReadsAttempts
  <2>3. \A pc \in {"refresh", "settle"} : WorkerFit([w EXCEPT !.pc = pc])
    BY <1>a, <2>2 DEF WorkerFit, Worker, WorkerPoints, Judging
  <2>4. WorkersTyped'
    BY <1>a, <1>20, <2>1, <2>3, SetWorkerTyped, RunsUnchanged DEF WorkerReadsAttempts, WorkerGoto
  <2>5. TablesTyped'
    BY <1>20 DEF WorkerReadsAttempts, TablesTyped
  <2> QED BY <1>20, <2>4, <2>5, RunsUnchanged, CallsFrame DEF WorkerReadsAttempts
<1>21. CASE WorkerSettles(r, h)
  <2>1. w.pc = "settle" /\ w.res \in TaskStatuses /\ t \in Tasks
    BY <1>a, <1>21 DEF WorkerSettles, WorkerFit, Judging, FinalStatuses, TaskStatuses
  <2>2. TablesTyped'
    BY <1>21, <2>1, OverwriteTyped DEF WorkerSettles, TablesTyped
  <2>3. WorkerFit([w EXCEPT !.pc = "refresh"])
    BY <1>a DEF WorkerFit, Worker, WorkerPoints, Judging
  <2>4. WorkersTyped'
    BY <1>a, <1>21, <2>3, SetWorkerTyped, RunsUnchanged DEF WorkerSettles, WorkerGoto
  <2> QED BY <1>21, <2>2, <2>4, RunsUnchanged, CallsFrame DEF WorkerSettles
<1> QED BY <1>1, <1>2, <1>3, <1>4, <1>5, <1>6, <1>7, <1>8, <1>9, <1>10, <1>11, <1>12, <1>13,
            <1>14, <1>15, <1>16, <1>17, <1>18, <1>19, <1>20, <1>21
         DEF WorkerStep, WorkerFault
-----------------------------------------------------------------------------
(* A crash, a restart or the passing of time keeps every type.              *)
LEMMA EnvironmentTyped ==
    ASSUME TypeInv, Environment
    PROVE  TypeInv'
<1> USE DEF TypeInv
<1>a. IdleWorker \in Worker /\ WorkerFit(IdleWorker) /\ IdleWorker.pc = "idle"
  BY DEF IdleWorker, Fresh, Worker, WorkerPoints, Outcomes, WorkerFit, Judging
<1>1. ASSUME NEW p \in Procs, Crash(p)
      PROVE  TypeInv'
  <2>1. TablesTyped'
    BY <1>1 DEF Crash, TablesTyped, Event
  <2>2. CallsTyped'
    BY <1>1 DEF Crash, CallsTyped, Call, NoCall, CallPoints, Results
  <2>3. RunsTyped'
    BY <1>1 DEF Crash, RunsTyped, Run, IdleRun, RunPoints, Results
  <2>4. worker' \in [Runs -> [Hosts -> Worker]]
    BY <1>1, <1>a DEF Crash, WorkersTyped
  <2>5. ASSUME NEW r \in Runs, NEW h \in Hosts
        PROVE  WorkerFit(worker'[r][h]) /\ (run'[r].pc # "hosts" => worker'[r][h].pc = "idle")
    BY <1>1, <1>a DEF Crash, WorkersTyped, IdleRun
  <2>6. WorkersTyped'
    BY <2>4, <2>5 DEF WorkersTyped
  <2> QED BY <2>1, <2>2, <2>3, <2>6
<1>2. ASSUME NEW p \in Procs, Restart(p)
      PROVE  TypeInv'
  <2> DEFINE abandoned == {t \in SshTasks : status[t] = "running"}
  <2>1. status' \in [Tasks -> TaskStatuses]
    BY <1>2 DEF Restart, TablesTyped, TaskStatuses
  <2>2. TablesTyped'
    BY <1>2, <2>1, ReapTyped DEF Restart, TablesTyped
  <2>3. PICK runs \in [abandoned -> IdleRuns] :
           run' = [r \in Runs |-> IF \E t \in abandoned : runs[t] = r
                                  THEN Spawned(p, CHOOSE t \in abandoned : runs[t] = r)
                                  ELSE run[r]]
    BY <1>2 DEF Restart
  <2>4. ASSUME NEW r \in Runs
        PROVE  \/ run'[r] = run[r]
               \/ run[r].pc = "idle" /\ \E t \in Tasks : run'[r] = Spawned(p, t)
    <3>1. CASE \E t \in abandoned : runs[t] = r
      <4>1. (CHOOSE t \in abandoned : runs[t] = r) \in abandoned
        BY <3>1
      <4>2. r \in IdleRuns
        BY <3>1
      <4> QED BY <2>3, <3>1, <4>1, <4>2, DeployAssumption DEF IdleRuns
    <3>2. CASE ~\E t \in abandoned : runs[t] = r
      BY <2>3, <3>2
    <3> QED BY <3>1, <3>2
  <2>5. \A t \in Tasks : /\ Spawned(p, t) \in Run /\ Spawned(p, t).task = t
                         /\ Spawned(p, t).proc = p /\ Spawned(p, t).pc \notin Judging
    BY DEF Spawned, Run, RunPoints, Results, Judging
  <2>6. RunsTyped'
    <3>1. \A r \in Runs : run'[r] \in Run
      BY <2>4, <2>5 DEF RunsTyped
    <3>2. run' \in [Runs -> Run]
      BY <2>3, <3>1
    <3>3. \A r \in Runs : run'[r].pc # "idle" =>
             /\ run'[r].task \in Tasks /\ run'[r].proc \in Procs
             /\ run'[r].pc \in Judging => run'[r].res \in FinalStatuses
      BY <1>2, <2>4, <2>5 DEF RunsTyped
    <3> QED BY <3>2, <3>3 DEF RunsTyped
  <2>7. WorkersTyped'
    BY <1>2, <2>4 DEF Restart, WorkersTyped
  <2> QED BY <1>2, <2>2, <2>6, <2>7, CallsFrame DEF Restart
<1>3. ASSUME NEW t \in Tasks, NEW h \in Hosts, AttemptExpires(t, h)
      PROVE  TypeInv'
  <2>1. PICK i \in LiveAttempts(t, h) : attempts' = [attempts EXCEPT ![t][h][i].live = FALSE]
    BY <1>3 DEF AttemptExpires
  <2>2. attempts[t][h] \in Seq(Attempt)
    BY DEF TablesTyped
  <2>3. [attempts[t][h][i] EXCEPT !.live = FALSE] \in Attempt
    <3>1. attempts[t][h][i] \in Attempt
      BY <2>2 DEF LiveAttempts
    <3> QED BY <3>1 DEF Attempt
  <2>4. [attempts[t][h] EXCEPT ![i] = [attempts[t][h][i] EXCEPT !.live = FALSE]] \in Seq(Attempt)
    BY <2>2, <2>3, ExceptTyped
  <2>5. attempts' \in [Tasks -> [Hosts -> Seq(Attempt)]]
    BY <2>1, <2>4 DEF TablesTyped
  <2>6. TablesTyped'
    BY <1>3, <2>5 DEF AttemptExpires, TablesTyped, Event
  <2> QED BY <1>3, <2>6, RunsFrame, CallsFrame DEF AttemptExpires
<1>4. ASSUME NEW h \in Hosts, LeaseExpires(h)
      PROVE  TypeInv'
  <2>1. [lease[h] EXCEPT !.live = FALSE] \in Lease
    BY DEF TablesTyped, Lease
  <2>2. lease' \in [Hosts -> Lease]
    BY <1>4, <2>1 DEF LeaseExpires, TablesTyped
  <2>3. TablesTyped'
    BY <1>4, <2>2 DEF LeaseExpires, TablesTyped, Event
  <2> QED BY <1>4, <2>3, RunsFrame, CallsFrame DEF LeaseExpires
<1> QED BY <1>1, <1>2, <1>3, <1>4, ControlFaultTyped, RunStepTyped, WorkerStepTyped DEF Environment
-----------------------------------------------------------------------------
LEMMA InitTyped == Init => TypeInv
<1> SUFFICES ASSUME Init PROVE TypeInv
  OBVIOUS
<1>1. TablesTyped
  BY DEF Init, TablesTyped, TaskStatuses, HostStatuses, Lease, NoLease
<1>2. CallsTyped
  BY DEF Init, CallsTyped, Call, NoCall, CallPoints, Results
<1>3. RunsTyped
  BY DEF Init, RunsTyped, Run, IdleRun, RunPoints, Results
<1>4. WorkersTyped
  BY DEF Init, WorkersTyped, WorkerFit, Worker, IdleWorker, Fresh, WorkerPoints, Outcomes, Judging
<1> QED BY <1>1, <1>2, <1>3, <1>4 DEF TypeInv

LEMMA NextTyped == TypeInv /\ [Next]_vars => TypeInv'
<1> SUFFICES ASSUME TypeInv, [Next]_vars PROVE TypeInv'
  OBVIOUS
<1>1. CASE Next
  BY <1>1, ControlRequestTyped, ControlStepTyped, RunStepTyped, WorkerStepTyped, EnvironmentTyped
     DEF Next
<1>2. CASE UNCHANGED vars
  BY <1>2 DEF vars, TypeInv, TablesTyped, CallsTyped, RunsTyped, WorkersTyped
<1> QED BY <1>1, <1>2

(* In every behaviour of the engine, under every request and fault, every    *)
(* table row and every goroutine's state stays within its type.              *)
THEOREM TypeCorrect == Spec => []TypeInv
BY InitTyped, NextTyped, PTL DEF Spec

(* The type invariant of the runs, for every value of the constants.        *)
THEOREM TypesHold == Spec => []TypeOK
<1>1. TypeInv => TypeOK
  BY DEF TypeInv, TablesTyped, CallsTyped, RunsTyped, WorkersTyped, TypeOK
<1> QED BY <1>1, TypeCorrect, PTL
=============================================================================
