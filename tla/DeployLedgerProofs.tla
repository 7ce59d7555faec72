-------------------------- MODULE DeployLedgerProofs -------------------------
(***************************************************************************)
(* The attempt ledger and the step checkpoints, for every number of tasks, *)
(* hosts, processes, steps, requests and goroutines, under every request   *)
(* and fault: a host has at most one unexpired claim, it is charged for at *)
(* most deployAttemptMax attempts, a claim belongs to one goroutine, a     *)
(* verdict is never rewritten, and of two workers on a host one at least   *)
(* has outlived its claim; and as long as no execution outlives its claim, *)
(* a host has one worker, no step that has succeeded runs again and no     *)
(* checkpoint is lost.                                                     *)
(*                                                                         *)
(* The strengthening is HeldOpen: the attempt a goroutine holds exists and *)
(* is unsettled.  The proof first sorts the actions by what they do to the *)
(* ledger (LedgerMoves) and then shows each fact once per kind of move.    *)
(*                                                                         *)
(* The checkpoints rest on OneWorkerPerHost: the loop reads a checkpoint   *)
(* before the script starts and clears it when the script stops, so a      *)
(* second worker of the host could checkpoint the step in between.         *)
(***************************************************************************)
EXTENDS DeployTypeProofs, FiniteSetTheorems

HeldOpen ==
    \A r \in Runs, h \in Hosts : Holding(r, h) =>
        /\ worker[r][h].att \in DOMAIN attempts[run[r].task][h]
        /\ attempts[run[r].task][h][worker[r][h].att].status \in Unsettled

(* While no execution outlives its claim, a held one is live.               *)
HeldLive ==
    "attemptExpiry" \notin Events =>
        \A r \in Runs, h \in Hosts : Holding(r, h) =>
            attempts[run[r].task][h][worker[r][h].att] = [status |-> "running", live |-> TRUE]

LedgerInv == OneLiveAttempt /\ HeldOpen /\ HeldLive /\ AttemptOwned /\ AttemptBudget
-----------------------------------------------------------------------------
(* The kinds of moves.                                                      *)
HoldingKept ==
    \A r \in Runs, h \in Hosts : Holding(r, h)' =>
        Holding(r, h) /\ run'[r].task = run[r].task /\ worker'[r][h].att = worker[r][h].att

(* Goroutines start, end and are left alone, and no step is checkpointed.   *)
WorkersLeft ==
    /\ \A r \in Runs, h \in Hosts : Holding(r, h)' =>
          worker'[r][h] = worker[r][h] /\ run'[r].task = run[r].task
    /\ UNCHANGED ckpt

QuietMove == UNCHANGED attempts /\ HoldingKept
ReapMove == ReapAttempts /\ HoldingKept
ExpireMove == /\ \E t \in Tasks, h \in Hosts : AttemptExpires(t, h)
              /\ HoldingKept
ClaimMove == \E r \in Runs, h \in Hosts : WorkerClaim(r, h)
FinishMove(r, h, s) ==
    /\ FinishAttempt(run[r].task, h, worker[r][h].att, s)
    /\ Holding(r, h) /\ ~Holding(r, h)' /\ run[r].task \in Tasks
    /\ HoldingKept

LedgerMove ==
    \/ QuietMove \/ ReapMove \/ ExpireMove \/ ClaimMove
    \/ \E r \in Runs, h \in Hosts, s \in AttemptStatuses : FinishMove(r, h, s)

(* A goroutine that moves within its attempt keeps it.                      *)
LEMMA SetWorkerKeeps ==
    ASSUME TypeInv, NEW r \in Runs, NEW h \in Hosts, NEW w, SetWorker(r, h, w),
           w.pc \in {"exec", "script", "interrupt", "report", "finalize", "active", "settle",
                     "refresh", "finish"}
              => Holding(r, h) /\ w.att = worker[r][h].att,
           \A q \in Runs : run'[q].task = run[q].task
    PROVE  HoldingKept
<1>1. \A q \in Runs, g \in Hosts :
         worker'[q][g] = IF q = r /\ g = h THEN w ELSE worker[q][g]
  BY DEF TypeInv, WorkersTyped, SetWorker
<1> QED BY <1>1 DEF HoldingKept, Holding

LEMMA SameWorkersLeft ==
    ASSUME TypeInv, UNCHANGED <<worker, ckpt>>,
           \A q \in Runs : run'[q].task = run[q].task \/ \A h \in Hosts : worker[q][h].pc = "idle"
    PROVE  WorkersLeft
BY DEF WorkersLeft, Holding

LEMMA LeftIsKept == WorkersLeft => HoldingKept
BY DEF WorkersLeft, HoldingKept, Holding
-----------------------------------------------------------------------------
LEMMA ControlIsQuiet ==
    ASSUME TypeInv, NEW c \in Clients,
           \/ \E p \in Procs, t \in Tasks : ControlRequest(c, p, t)
           \/ ControlStep(c) \/ ControlFault(c)
    PROVE  UNCHANGED attempts /\ WorkersLeft
<1>a. \A r \in Runs : run[r].pc = "idle" => \A h \in Hosts : worker[r][h].pc = "idle"
  BY DEF TypeInv, WorkersTyped
<1>1. ASSUME NEW p \in Procs, NEW t \in Tasks, ControlRequest(c, p, t)
      PROVE  UNCHANGED <<attempts, ckpt, run, worker>>
  BY <1>1 DEF ControlRequest, StartTask, PauseTask, ResumeTask, RetryTask, CancelTask,
              DeleteTask, MarkHostResult
<1>2. CASE Spawn(c)
  <2>1. PICK r \in IdleRuns : run' = [run EXCEPT ![r] = Spawned(call[c].proc, call[c].task)]
    BY <1>2 DEF Spawn
  <2>2. \A q \in Runs : run'[q] = run[q] \/ \A h \in Hosts : worker[q][h].pc = "idle"
    BY <1>a, <2>1 DEF IdleRuns, TypeInv, RunsTyped
  <2> QED BY <1>2, <2>2, SameWorkersLeft DEF Spawn
<1>3. CASE Kill(c)
  <2>1. \A q \in Runs : run'[q].task = run[q].task
    BY <1>3 DEF Kill, TypeInv, RunsTyped, Run
  <2> QED BY <1>3, <2>1, SameWorkersLeft DEF Kill
<1>4. ASSUME ControlStep(c) \/ ControlFault(c), ~Spawn(c), ~Kill(c)
      PROVE  UNCHANGED <<attempts, ckpt, run, worker>>
  BY <1>4 DEF ControlStep, ControlFault, StartDispatch, RetryResetsHosts, CancelSkipsHosts,
              MarkReadsHosts, MarkReadsAttempts, MarkSettles, MarkFinalize, DeleteCommit,
              StartFails, StartFailsHosts, StartFailsLeases, MarkWritebackFails, MarkStateFails
<1> QED BY <1>1, <1>2, <1>3, <1>4, SameWorkersLeft

LEMMA RunMoves ==
    ASSUME TypeInv, NEW r \in Runs, RunStep(r) \/ RunCredentialFails(r)
    PROVE  (UNCHANGED attempts \/ ReapAttempts) /\ WorkersLeft
<1>a. run[r].pc # "hosts" => \A h \in Hosts : worker[r][h].pc = "idle"
  BY DEF TypeInv, WorkersTyped
<1>1. CASE RunBegin(r)
  <2>1. \A q \in Runs : run'[q].task = run[q].task
    BY <1>1 DEF RunBegin, RunGoto, TypeInv, RunsTyped, Run
  <2> QED BY <1>1, <2>1, SameWorkersLeft DEF RunBegin
<1>2. CASE RunBoot(r)
  <2>1. \A q \in Runs : run'[q].task = run[q].task
    BY <1>2 DEF RunBoot, RunGoto, TypeInv, RunsTyped, Run
  <2>2. \A q \in Runs, h \in Hosts :
           worker'[q][h] = worker[q][h] \/ worker'[q][h].pc \in {"idle", "queued"}
    BY <1>2 DEF RunBoot, TypeInv, WorkersTyped, QueuedWorker, IdleWorker, Fresh
  <2> QED BY <1>2, <2>1, <2>2 DEF RunBoot, WorkersLeft, Holding
<1>3. CASE RunDropped(r) \/ RunExit(r)
  <2>1. \A q \in Runs : run'[q] = run[q] \/ \A h \in Hosts : worker[q][h].pc = "idle"
    BY <1>a, <1>3 DEF RunDropped, RunExit, TypeInv, RunsTyped
  <2> QED BY <1>3, <2>1, SameWorkersLeft DEF RunDropped, RunExit
<1>4. CASE \/ RunCredentialFails(r) \/ RunLeaseConflict(r) \/ RunTaskGone(r)
           \/ RunSettle(r) \/ RunCancel(r) \/ RunFailsTask(r)
           \/ RunReadsAttempts(r) \/ RunSettles(r)
  <2>1. /\ \E pc : RunGoto(r, pc)
        /\ UNCHANGED <<attempts, ckpt, worker>>
    BY <1>4 DEF RunCredentialFails, RunLeaseConflict, RunTaskGone, FailQueuedTask,
                RunSettle, RunCancel, RunFailsTask, RunReadsAttempts, RunSettles
  <2>2. \A q \in Runs : run'[q].task = run[q].task
    BY <2>1 DEF RunGoto, TypeInv, RunsTyped, Run
  <2> QED BY <2>1, <2>2, SameWorkersLeft
<1>5. CASE RunReadsHosts(r)
  <2>1. \A q \in Runs : run'[q].task = run[q].task
    BY <1>5 DEF RunReadsHosts, TypeInv, RunsTyped, Run
  <2> QED BY <1>5, <2>1, SameWorkersLeft DEF RunReadsHosts
<1> QED BY <1>1, <1>2, <1>3, <1>4, <1>5 DEF RunStep

LEMMA WorkerMoves ==
    ASSUME TypeInv, NEW r \in Runs, NEW h \in Hosts, WorkerStep(r, h) \/ WorkerFault(r, h)
    PROVE  LedgerMove
<1> DEFINE w == worker[r][h]
<1>a. /\ w \in Worker
      /\ \A pc : WorkerAt(r, h, pc) => w.pc = pc /\ run[r].task \in Tasks
  BY DEF TypeInv, RunsTyped, WorkersTyped, WorkerAt
<1>b. \A q \in Runs : \A s : run' = run \/ run' = [run EXCEPT ![q].killed = s]
         => \A p \in Runs : run'[p].task = run[p].task
  BY DEF TypeInv, RunsTyped, Run
<1>1. CASE WorkerClaim(r, h)
  BY <1>1 DEF LedgerMove, ClaimMove
<1>2. CASE WorkerCheck(r, h) \/ WorkerSkip(r, h) \/ WorkerClaimRefused(r, h)
  <2>1. SetWorker(r, h, IdleWorker) \/ SetWorker(r, h, [w EXCEPT !.pc = "claim"])
    BY <1>2 DEF WorkerCheck, WorkerSkip, WorkerClaimRefused, WorkerExit, WorkerGoto
  <2>2. IdleWorker.pc = "idle" /\ [w EXCEPT !.pc = "claim"].pc = "claim"
    BY <1>a DEF IdleWorker, Fresh, Worker
  <2>3. HoldingKept
    BY <1>b, <1>2, <2>1, <2>2, SetWorkerKeeps DEF WorkerCheck, WorkerSkip, WorkerClaimRefused
  <2> QED BY <1>2, <2>3 DEF WorkerCheck, WorkerSkip, WorkerClaimRefused, LedgerMove, QuietMove
<1>3. CASE \/ ConnectFails(r, h) \/ NextStep(r, h) \/ StepSucceeds(r, h) \/ StepStops(r, h)
           \/ Interrupt(r, h) \/ WorkerReport(r, h) \/ WorkerReadsHosts(r, h)
           \/ WorkerReadsAttempts(r, h) \/ WorkerSettles(r, h) \/ WorkerFinalize(r, h)
           \/ WorkerFault(r, h)
  <2>1. Holding(r, h) /\ UNCHANGED <<attempts, run>>
    BY <1>a, <1>3 DEF ConnectFails, NextStep, StepSucceeds, StepStops, Interrupt, WorkerReport,
              WorkerReadsHosts, WorkerReadsAttempts, WorkerSettles, WorkerFinalize, WorkerFault, WorkerWritebackFails, WorkerStateFails, Holding
  <2>2. \A q \in Runs, g \in Hosts : (q = r /\ g = h) \/ worker'[q][g] = worker[q][g]
    BY <1>3 DEF ConnectFails, NextStep, StepSucceeds, StepStops, Interrupt, WorkerReport,
              WorkerReadsHosts, WorkerReadsAttempts, WorkerSettles, WorkerFinalize, WorkerFault, WorkerWritebackFails, WorkerStateFails,
              Outcome, WorkerGoto, SetWorker, TypeInv, WorkersTyped
  <2>3. worker'[r][h].att = w.att
    <3>1. \A pc : WorkerGoto(r, h, pc) => worker'[r][h].att = w.att
      BY <1>a DEF WorkerGoto, SetWorker, TypeInv, WorkersTyped, Worker
    <3>2. \A pc, res : Outcome(r, h, pc, res) => worker'[r][h].att = w.att
      BY <1>a DEF Outcome, SetWorker, TypeInv, WorkersTyped, Worker
    <3>3. CASE \/ ConnectFails(r, h) \/ Interrupt(r, h) \/ WorkerReadsHosts(r, h)
               \/ WorkerReadsAttempts(r, h) \/ WorkerSettles(r, h) \/ WorkerFinalize(r, h)
               \/ WorkerFault(r, h)
      BY <3>1, <3>2, <3>3 DEF ConnectFails, Interrupt, WorkerReadsHosts, WorkerReadsAttempts,
            WorkerSettles, WorkerFinalize, WorkerFault, WorkerWritebackFails, WorkerStateFails
    <3>4. CASE NextStep(r, h)
      <4>1. SetWorker(r, h, [w EXCEPT !.step = @ + 1]) => worker'[r][h].att = w.att
        BY <1>a DEF SetWorker, TypeInv, WorkersTyped, Worker
      <4> QED BY <3>1, <3>2, <3>4, <4>1 DEF NextStep
    <3>5. CASE StepSucceeds(r, h)
      BY <1>a, <3>5 DEF StepSucceeds, SetWorker, TypeInv, WorkersTyped, Worker
    <3>6. CASE StepStops(r, h)
      <4>1. \/ worker'[r][h] = [w EXCEPT !.pc = "exec", !.step = @ + 1, !.res = "canceled"]
            \/ worker'[r][h] = [w EXCEPT !.pc = "report", !.res = "failed"]
        BY <3>6 DEF StepStops, SetWorker, TypeInv, WorkersTyped
      <4> QED BY <1>a, <4>1 DEF Worker
    <3>7. CASE WorkerReport(r, h)
      BY <3>1, <3>2, <3>7 DEF WorkerReport
    <3> QED BY <1>3, <3>3, <3>4, <3>5, <3>6, <3>7
  <2>4. HoldingKept
    BY <2>1, <2>2, <2>3 DEF HoldingKept, Holding
  <2> QED BY <2>1, <2>4 DEF LedgerMove, QuietMove
<1>4. CASE FinishInterrupted(r, h) \/ FinishSuccess(r, h) \/ FinishFailed(r, h)
  <2>1. PICK s \in AttemptStatuses : FinishAttempt(run[r].task, h, w.att, s)
    BY <1>4 DEF FinishInterrupted, FinishSuccess, FinishFailed, AttemptStatuses
  <2>2. Holding(r, h) /\ run[r].task \in Tasks /\ UNCHANGED run
    BY <1>a, <1>4 DEF FinishInterrupted, FinishSuccess, FinishFailed, Holding
  <2>3. PICK v : SetWorker(r, h, v) /\ v.pc \in {"idle", "retry"}
    BY <1>a, <1>4 DEF FinishInterrupted, FinishSuccess, FinishFailed, WorkerExit, WorkerGoto,
                      IdleWorker, Fresh, Worker
  <2>4. HoldingKept
    BY <1>b, <2>2, <2>3, SetWorkerKeeps
  <2>5. ~Holding(r, h)'
    BY <2>3 DEF SetWorker, TypeInv, WorkersTyped, Holding
  <2> QED BY <2>1, <2>2, <2>4, <2>5 DEF LedgerMove, FinishMove
<1>5. CASE Requeue(r, h) \/ GiveUp(r, h)
  <2>1. PICK v : SetWorker(r, h, v) /\ v.pc \in {"idle", "check"}
    BY <1>5 DEF Requeue, GiveUp, WorkerExit, IdleWorker, Fresh
  <2>2. UNCHANGED attempts /\ \A q \in Runs : run'[q].task = run[q].task
    BY <1>b, <1>5 DEF Requeue, GiveUp
  <2>3. HoldingKept
    BY <2>1, <2>2, SetWorkerKeeps
  <2> QED BY <2>2, <2>3 DEF LedgerMove, QuietMove
<1> QED BY <1>1, <1>2, <1>3, <1>4, <1>5 DEF WorkerStep

LEMMA CrashLeaves ==
    ASSUME TypeInv, NEW p \in Procs, Crash(p)
    PROVE  UNCHANGED attempts /\ WorkersLeft
<1>1. \A r \in Runs, h \in Hosts :
         \/ run'[r] = run[r] /\ worker'[r][h] = worker[r][h]
         \/ worker'[r][h].pc = "idle"
  BY DEF Crash, TypeInv, RunsTyped, WorkersTyped, IdleWorker, Fresh
<1> QED BY <1>1 DEF Crash, WorkersLeft, Holding

LEMMA RestartLeaves ==
    ASSUME TypeInv, NEW p \in Procs, Restart(p)
    PROVE  ReapAttempts /\ WorkersLeft
<1>1. \A r \in Runs : run'[r] = run[r] \/ run[r].pc = "idle"
  BY DEF Restart, IdleRuns
<1>2. \A r \in Runs : run'[r].task = run[r].task \/ \A h \in Hosts : worker[r][h].pc = "idle"
  BY <1>1 DEF TypeInv, WorkersTyped
<1> QED BY <1>2, SameWorkersLeft DEF Restart

(* Whatever is not a step of a host goroutine leaves those goroutines alone. *)
LEMMA OtherMoves ==
    ASSUME TypeInv, [Next]_vars,
           \A r \in Runs, h \in Hosts : ~WorkerStep(r, h) /\ ~WorkerFault(r, h)
    PROVE  /\ WorkersLeft
           /\ UNCHANGED attempts \/ ReapAttempts \/ \E t \in Tasks, h \in Hosts : AttemptExpires(t, h)
<1>1. ASSUME NEW t \in Tasks, NEW h \in Hosts, AttemptExpires(t, h)
      PROVE  WorkersLeft
  BY <1>1, SameWorkersLeft DEF AttemptExpires
<1>2. ASSUME NEW h \in Hosts, LeaseExpires(h)
      PROVE  UNCHANGED attempts /\ WorkersLeft
  BY <1>2, SameWorkersLeft DEF LeaseExpires
<1>3. CASE UNCHANGED vars
  BY <1>3, SameWorkersLeft DEF vars
<1>4. CASE Environment
  BY <1>1, <1>2, <1>4, CrashLeaves, RestartLeaves, ControlIsQuiet, RunMoves DEF Environment
<1>5. CASE Next /\ ~Environment
  BY <1>5, ControlIsQuiet, RunMoves DEF Next
<1> QED BY <1>3, <1>4, <1>5

LEMMA LedgerMoves ==
    ASSUME TypeInv, [Next]_vars
    PROVE  LedgerMove
<1>1. ASSUME NEW r \in Runs, NEW h \in Hosts, WorkerStep(r, h) \/ WorkerFault(r, h)
      PROVE  LedgerMove
  BY <1>1, WorkerMoves
<1>2. CASE \A r \in Runs, h \in Hosts : ~WorkerStep(r, h) /\ ~WorkerFault(r, h)
  BY <1>2, OtherMoves, LeftIsKept DEF LedgerMove, QuietMove, ReapMove, ExpireMove
<1> QED BY <1>1, <1>2
-----------------------------------------------------------------------------
(* What each kind of move does to one attempt row.                          *)
LEMMA ReapEffect ==
    ASSUME TypeInv, ReapAttempts, NEW t \in Tasks, NEW h \in Hosts
    PROVE  /\ DOMAIN attempts'[t][h] = DOMAIN attempts[t][h]
           /\ \A i \in DOMAIN attempts[t][h] : attempts'[t][h][i] = Reaped(attempts[t][h][i])
BY DEF ReapAttempts

LEMMA FinishEffect ==
    ASSUME TypeInv, NEW r \in Runs, NEW g \in Hosts, NEW s, FinishMove(r, g, s),
           NEW t \in Tasks, NEW h \in Hosts
    PROVE  /\ DOMAIN attempts'[t][h] = DOMAIN attempts[t][h]
           /\ \A i \in DOMAIN attempts[t][h] :
                 attempts'[t][h][i] = IF t = run[r].task /\ h = g /\ i = worker[r][g].att
                                      THEN [status |-> s, live |-> FALSE] ELSE attempts[t][h][i]
<1> DEFINE u == run[r].task
           k == worker[r][g].att
           over == [attempts[u][g] EXCEPT ![k] = [status |-> s, live |-> FALSE]]
<1>1. u \in Tasks /\ attempts \in [Tasks -> [Hosts -> Seq(Attempt)]]
  BY DEF FinishMove, TypeInv, TablesTyped
<1>2. \A v \in Tasks, f \in Hosts : attempts'[v][f] = IF v = u /\ f = g THEN over ELSE attempts[v][f]
  BY <1>1 DEF FinishMove, FinishAttempt
<1>3. /\ DOMAIN over = DOMAIN attempts[u][g]
      /\ \A i \in DOMAIN attempts[u][g] :
            over[i] = IF i = k THEN [status |-> s, live |-> FALSE] ELSE attempts[u][g][i]
  OBVIOUS
<1> HIDE DEF over
<1> QED BY <1>2, <1>3

LEMMA ExpiredRow ==
    ASSUME NEW a \in Attempt, a.status = "running"
    PROVE  [a EXCEPT !.live = FALSE].live = FALSE /\ [a EXCEPT !.live = FALSE].status = "running"
BY DEF Attempt

LEMMA AppendedRow ==
    ASSUME NEW S, NEW q \in Seq(S), NEW e \in S
    PROVE  /\ Len(q) + 1 \notin DOMAIN q
           /\ DOMAIN Append(q, e) = DOMAIN q \cup {Len(q) + 1}
           /\ Append(q, e)[Len(q) + 1] = e
           /\ \A i \in DOMAIN q : Append(q, e)[i] = q[i]
<1>1. Len(q) \in Nat /\ DOMAIN q = 1..Len(q)
  OBVIOUS
<1>2. DOMAIN Append(q, e) = 1..(Len(q) + 1)
  BY AppendProperties
<1> QED BY <1>1, <1>2, AppendProperties

LEMMA ExpireEffect ==
    ASSUME TypeInv, NEW u \in Tasks, NEW g \in Hosts, AttemptExpires(u, g),
           NEW t \in Tasks, NEW h \in Hosts
    PROVE  /\ DOMAIN attempts'[t][h] = DOMAIN attempts[t][h]
           /\ \A i \in DOMAIN attempts[t][h] :
                 \/ attempts'[t][h][i] = attempts[t][h][i]
                 \/ /\ attempts[t][h][i].status = "running"
                    /\ attempts'[t][h][i].live = FALSE /\ attempts'[t][h][i].status = "running"
                    /\ "attemptExpiry" \in Events \/ Orphan(t, h, i)
<1>1. PICK j \in LiveAttempts(u, g) :
         /\ attempts' = [attempts EXCEPT ![u][g][j].live = FALSE]
         /\ "attemptExpiry" \in Events \/ Orphan(u, g, j)
  BY DEF AttemptExpires, Event
<1> DEFINE past == [attempts[u][g][j] EXCEPT !.live = FALSE]
<1>2. attempts[u][g] \in Seq(Attempt) /\ j \in DOMAIN attempts[u][g]
      /\ attempts[u][g][j].status = "running"
  BY DEF TypeInv, TablesTyped, LiveAttempts
<1>3. past.live = FALSE /\ past.status = "running"
  BY <1>2, ExpiredRow
<1>4. attempts' = [attempts EXCEPT ![u] = [attempts[u] EXCEPT ![g] =
                     [attempts[u][g] EXCEPT ![j] = past]]]
  BY <1>1 DEF TypeInv, TablesTyped
<1> HIDE DEF past
<1>5. \A v \in Tasks, f \in Hosts : v # u \/ f # g => attempts'[v][f] = attempts[v][f]
  BY <1>4 DEF TypeInv, TablesTyped
<1>6. attempts'[u][g] = [attempts[u][g] EXCEPT ![j] = past]
  BY <1>4 DEF TypeInv, TablesTyped
<1>7. CASE t # u \/ h # g
  BY <1>5, <1>7
<1>8. CASE t = u /\ h = g
  BY <1>1, <1>2, <1>3, <1>6, <1>8
<1> QED BY <1>7, <1>8

NewClaim(r, g, u, n) ==
    /\ u = run[r].task /\ UNCHANGED run /\ Claimable(u, g) /\ n \notin DOMAIN attempts[u][g]
    /\ worker'[r][g].att = n
    /\ \A q \in Runs, h \in Hosts : q # r \/ h # g => worker'[q][h] = worker[q][h]
    /\ \A t \in Tasks, h \in Hosts : t # u \/ h # g => attempts'[t][h] = attempts[t][h]
    /\ DOMAIN attempts'[u][g] = DOMAIN attempts[u][g] \cup {n}
    /\ attempts'[u][g][n] = [status |-> "running", live |-> TRUE]
    /\ \A i \in DOMAIN attempts[u][g] : attempts'[u][g][i] = attempts[u][g][i]

LEMMA ClaimEffect ==
    ASSUME TypeInv, NEW r \in Runs, NEW g \in Hosts, WorkerClaim(r, g),
           NEW u, u = run[r].task, NEW n, n = Len(attempts[u][g]) + 1
    PROVE  u \in Tasks /\ NewClaim(r, g, u, n)
<1> DEFINE new == [status |-> "running", live |-> TRUE]
<1>1. u \in Tasks /\ UNCHANGED run /\ Claimable(u, g)
  BY DEF TypeInv, RunsTyped, WorkerClaim, WorkerAt
<1>2. attempts[u][g] \in Seq(Attempt)
  BY <1>1 DEF TypeInv, TablesTyped
<1>3. /\ worker'[r][g].att = n
      /\ \A q \in Runs, h \in Hosts : q # r \/ h # g => worker'[q][h] = worker[q][h]
  BY DEF WorkerClaim, SetWorker, Claimed, TypeInv, WorkersTyped
<1>4. /\ attempts'[u][g] = Append(attempts[u][g], new)
      /\ \A t \in Tasks, h \in Hosts : t # u \/ h # g => attempts'[t][h] = attempts[t][h]
  BY <1>1 DEF WorkerClaim, TypeInv, TablesTyped
<1>5. /\ n \notin DOMAIN attempts[u][g]
      /\ DOMAIN Append(attempts[u][g], new) = DOMAIN attempts[u][g] \cup {n}
      /\ Append(attempts[u][g], new)[n] = new
      /\ \A i \in DOMAIN attempts[u][g] : Append(attempts[u][g], new)[i] = attempts[u][g][i]
  <2>1. new \in Attempt
    BY DEF Attempt, AttemptStatuses
  <2> HIDE DEF new
  <2> DEFINE q == attempts[u][g]
  <2>2. q \in Seq(Attempt)
    BY <1>2
  <2> HIDE DEF q
  <2>3. /\ Len(q) + 1 \notin DOMAIN q
        /\ DOMAIN Append(q, new) = DOMAIN q \cup {Len(q) + 1}
        /\ Append(q, new)[Len(q) + 1] = new
        /\ \A i \in DOMAIN q : Append(q, new)[i] = q[i]
    BY <2>1, <2>2, AppendedRow
  <2> QED BY <2>3, Zenon DEF q
<1> HIDE DEF new
<1>6. /\ DOMAIN attempts'[u][g] = DOMAIN attempts[u][g] \cup {n}
      /\ attempts'[u][g][n] = new
      /\ \A i \in DOMAIN attempts[u][g] : attempts'[u][g][i] = attempts[u][g][i]
  BY <1>4, <1>5
<1> QED BY <1>1, <1>3, <1>4, <1>5, <1>6 DEF new, NewClaim

(* Every move but a claim only settles what was unsettled.                  *)
Settling ==
    \A t \in Tasks, h \in Hosts :
        /\ DOMAIN attempts'[t][h] = DOMAIN attempts[t][h]
        /\ LiveAttempts(t, h)' \subseteq LiveAttempts(t, h)
        /\ \A i \in DOMAIN attempts[t][h] :
              attempts[t][h][i].status \notin Unsettled => attempts'[t][h][i] = attempts[t][h][i]

LEMMA ClaimMoves ==
    ASSUME TypeInv, ClaimMove
    PROVE  \E r \in Runs, g \in Hosts, u \in Tasks : \E n : NewClaim(r, g, u, n)
BY ClaimEffect DEF ClaimMove

LEMMA ReapedSettles ==
    ASSUME NEW a \in Attempt
    PROVE  /\ a.status \notin Unsettled => Reaped(a) = a
           /\ Reaped(a).status = "running" => Reaped(a) = a
BY DEF Reaped, Unsettled, Attempt

LEMMA MovesSettle ==
    ASSUME TypeInv, LedgerMove, HeldOpen
    PROVE  ClaimMove \/ (Settling /\ HoldingKept)
<1>1. CASE QuietMove
  BY <1>1 DEF QuietMove, Settling, LiveAttempts
<1>2. CASE ReapMove
  <2>1. ASSUME NEW t \in Tasks, NEW h \in Hosts
        PROVE  /\ DOMAIN attempts'[t][h] = DOMAIN attempts[t][h]
               /\ LiveAttempts(t, h)' \subseteq LiveAttempts(t, h)
               /\ \A i \in DOMAIN attempts[t][h] :
                    attempts[t][h][i].status \notin Unsettled
                      => attempts'[t][h][i] = attempts[t][h][i]
    <3>1. \A i \in DOMAIN attempts[t][h] : attempts[t][h][i] \in Attempt
      BY DEF TypeInv, TablesTyped
    <3>2. /\ DOMAIN attempts'[t][h] = DOMAIN attempts[t][h]
          /\ \A i \in DOMAIN attempts[t][h] : attempts'[t][h][i] = Reaped(attempts[t][h][i])
      BY <1>2, ReapEffect DEF ReapMove
    <3> QED BY <3>1, <3>2, ReapedSettles DEF LiveAttempts
  <2> QED BY <1>2, <2>1 DEF Settling, ReapMove
<1>3. CASE ExpireMove
  BY <1>3, ExpireEffect DEF ExpireMove, Settling, LiveAttempts, Unsettled
<1>4. ASSUME NEW r \in Runs, NEW g \in Hosts, NEW s \in AttemptStatuses, FinishMove(r, g, s)
      PROVE  Settling /\ HoldingKept
  <2>1. /\ attempts[run[r].task][g][worker[r][g].att].status \in Unsettled
        /\ HoldingKept
    BY <1>4 DEF FinishMove, HeldOpen
  <2>2. ASSUME NEW t \in Tasks, NEW h \in Hosts
        PROVE  /\ DOMAIN attempts'[t][h] = DOMAIN attempts[t][h]
               /\ \A i \in DOMAIN attempts[t][h] :
                    \/ attempts'[t][h][i] = attempts[t][h][i]
                    \/ /\ attempts[t][h][i].status \in Unsettled
                       /\ attempts'[t][h][i] = [status |-> s, live |-> FALSE]
    BY <1>4, <2>1, FinishEffect
  <2>3. ASSUME NEW t \in Tasks, NEW h \in Hosts
        PROVE  LiveAttempts(t, h)' \subseteq LiveAttempts(t, h)
    BY <2>2 DEF LiveAttempts
  <2> QED BY <2>1, <2>2, <2>3 DEF Settling
<1>5. CASE ClaimMove
  BY <1>5
<1> QED BY <1>1, <1>2, <1>3, <1>4, <1>5 DEF LedgerMove
-----------------------------------------------------------------------------
LEMMA OneLiveAttemptKept ==
    ASSUME TypeInv, LedgerInv, LedgerMove
    PROVE  OneLiveAttempt'
<1>1. CASE Settling
  BY <1>1 DEF Settling, LedgerInv, OneLiveAttempt
<1>2. ASSUME NEW r \in Runs, NEW g \in Hosts, NEW u \in Tasks, NEW n, NewClaim(r, g, u, n)
      PROVE  OneLiveAttempt'
  <2>1. LiveAttempts(u, g)' \subseteq {n}
    BY <1>2 DEF NewClaim, Claimable, LiveAttempts
  <2>2. \A t \in Tasks, h \in Hosts : t # u \/ h # g => LiveAttempts(t, h)' = LiveAttempts(t, h)
    BY <1>2 DEF NewClaim, LiveAttempts
  <2> QED BY <2>1, <2>2 DEF LedgerInv, OneLiveAttempt
<1> QED BY <1>1, <1>2, MovesSettle, ClaimMoves DEF LedgerInv

LEMMA AttemptOwnedKept ==
    ASSUME TypeInv, LedgerInv, LedgerMove
    PROVE  AttemptOwned'
<1>1. CASE HoldingKept
  BY <1>1 DEF HoldingKept, LedgerInv, AttemptOwned
<1>2. ASSUME NEW r \in Runs, NEW g \in Hosts, NEW u \in Tasks, NEW n, NewClaim(r, g, u, n)
      PROVE  AttemptOwned'
  <2>1. \A q \in Runs, h \in Hosts : q # r \/ h # g =>
           /\ Holding(q, h)' <=> Holding(q, h)
           /\ run'[q].task = run[q].task /\ worker'[q][h].att = worker[q][h].att
    BY <1>2 DEF NewClaim, Holding
  <2>2. \A q \in Runs : q # r /\ Holding(q, g) /\ run[q].task = u => worker[q][g].att # n
    BY <1>2 DEF LedgerInv, HeldOpen, NewClaim
  <2> QED BY <1>2, <2>1, <2>2 DEF LedgerInv, AttemptOwned, NewClaim
<1> QED BY <1>1, <1>2, MovesSettle, ClaimMoves DEF LedgerInv

(* The row of the attempt that a goroutine holds.                           *)
HeldRow(q, h) == attempts[run[q].task][h][worker[q][h].att]
HeldFacts(q, h) ==
    /\ worker[q][h].att \in DOMAIN attempts[run[q].task][h]
    /\ HeldRow(q, h).status \in Unsettled
    /\ "attemptExpiry" \notin Events => HeldRow(q, h) = [status |-> "running", live |-> TRUE]

LEMMA HeldIsHeldFacts == HeldOpen /\ HeldLive <=> \A q \in Runs, h \in Hosts : Holding(q, h) => HeldFacts(q, h)
BY DEF HeldOpen, HeldLive, HeldFacts, HeldRow

LEMMA HeldKept ==
    ASSUME TypeInv, LedgerInv, LedgerMove, NEW q \in Runs, NEW h \in Hosts, Holding(q, h)'
    PROVE  HeldFacts(q, h)'
<1> DEFINE t == run[q].task
           k == worker[q][h].att
<1>a. \A p \in Runs, g \in Hosts : Holding(p, g) => run[p].task \in Tasks
  BY DEF TypeInv, RunsTyped, WorkersTyped, Holding
<1>b. ASSUME HoldingKept
      PROVE  /\ Holding(q, h) /\ HeldFacts(q, h) /\ t \in Tasks
             /\ run'[q].task = t /\ worker'[q][h].att = k
  BY <1>a, <1>b, HeldIsHeldFacts DEF HoldingKept, LedgerInv
<1>1. CASE QuietMove
  BY <1>1, <1>b DEF QuietMove, HeldFacts, HeldRow
<1>2. CASE ReapMove
  <2>1. /\ DOMAIN attempts'[t][h] = DOMAIN attempts[t][h]
        /\ attempts'[t][h][k] = Reaped(HeldRow(q, h))
    BY <1>2, <1>b, ReapEffect DEF ReapMove, HeldFacts, HeldRow
  <2>2. \A a \in Attempt : a.status \in Unsettled => Reaped(a).status \in Unsettled
    BY DEF Reaped, Unsettled, Attempt
  <2>3. Reaped([status |-> "running", live |-> TRUE]) = [status |-> "running", live |-> TRUE]
    BY DEF Reaped
  <2>4. HeldRow(q, h) \in Attempt
    BY <1>2, <1>b DEF TypeInv, TablesTyped, ReapMove, HeldFacts, HeldRow
  <2>5. HeldRow(q, h)' = Reaped(HeldRow(q, h)) /\ HeldFacts(q, h)
    BY <1>2, <1>b, <2>1 DEF ReapMove, HeldRow
  <2>6. worker'[q][h].att \in DOMAIN attempts'[run'[q].task][h]
    BY <1>2, <1>b, <2>1 DEF ReapMove, HeldFacts
  <2> QED BY <2>2, <2>3, <2>4, <2>5, <2>6 DEF HeldFacts
<1>3. CASE ExpireMove
  <2>1. ~Orphan(t, h, k)
    BY <1>3, <1>b DEF ExpireMove, Orphan, Holding
  <2>2. /\ DOMAIN attempts'[t][h] = DOMAIN attempts[t][h]
        /\ \/ attempts'[t][h][k] = HeldRow(q, h)
           \/ attempts'[t][h][k].status = "running" /\ "attemptExpiry" \in Events
    BY <1>3, <1>b, <2>1, ExpireEffect DEF ExpireMove, HeldFacts, HeldRow
  <2>3. /\ worker'[q][h].att \in DOMAIN attempts'[run'[q].task][h]
        /\ HeldRow(q, h)'.status \in Unsettled
    BY <1>3, <1>b, <2>2 DEF ExpireMove, HeldFacts, HeldRow, Unsettled
  <2>4. "attemptExpiry" \notin Events => HeldRow(q, h)' = [status |-> "running", live |-> TRUE]
    BY <1>3, <1>b, <2>2 DEF ExpireMove, HeldFacts, HeldRow
  <2> QED BY <2>3, <2>4 DEF HeldFacts
<1>4. ASSUME NEW r \in Runs, NEW g \in Hosts, NEW s \in AttemptStatuses, FinishMove(r, g, s)
      PROVE  HeldFacts(q, h)'
  <2>1. ~(t = run[r].task /\ h = g /\ k = worker[r][g].att)
    BY <1>4, <1>b DEF FinishMove, LedgerInv, AttemptOwned
  <2>2. HoldingKept
    BY <1>4 DEF FinishMove
  <2>3. /\ DOMAIN attempts'[t][h] = DOMAIN attempts[t][h]
        /\ attempts'[t][h][k] = attempts[t][h][k]
    <3>1. t \in Tasks /\ k \in DOMAIN attempts[t][h]
      BY <1>b, <2>2 DEF HeldFacts
    <3> HIDE DEF t, k
    <3>2. /\ DOMAIN attempts'[t][h] = DOMAIN attempts[t][h]
          /\ \A i \in DOMAIN attempts[t][h] :
                 attempts'[t][h][i] = IF t = run[r].task /\ h = g /\ i = worker[r][g].att
                                      THEN [status |-> s, live |-> FALSE] ELSE attempts[t][h][i]
      BY <1>4, <3>1, FinishEffect
    <3> QED BY <2>1, <3>1, <3>2
  <2> QED BY <1>b, <2>2, <2>3 DEF HeldFacts, HeldRow
<1>5. ASSUME NEW r \in Runs, NEW g \in Hosts, NEW u \in Tasks, NEW n, NewClaim(r, g, u, n)
      PROVE  HeldFacts(q, h)'
  <2>1. CASE q = r /\ h = g
    <3>1. /\ run'[q].task = u /\ worker'[q][h].att = n /\ n \in DOMAIN attempts'[u][h]
          /\ attempts'[u][h][n] = [status |-> "running", live |-> TRUE]
      BY <1>5, <2>1 DEF NewClaim
    <3> QED BY <3>1 DEF HeldFacts, HeldRow, Unsettled
  <2>2. CASE q # r \/ h # g
    <3>1. worker'[q][h] = worker[q][h] /\ run' = run
      BY <1>5, <2>2 DEF NewClaim
    <3>2. Holding(q, h) /\ t \in Tasks
      BY <1>a, <3>1 DEF Holding
    <3>3. HeldFacts(q, h)
      BY <3>2, HeldIsHeldFacts DEF LedgerInv
    <3>4. k \in DOMAIN attempts'[t][h] /\ attempts'[t][h][k] = attempts[t][h][k]
      BY <1>5, <3>2, <3>3 DEF NewClaim, HeldFacts
    <3> QED BY <3>1, <3>3, <3>4 DEF HeldFacts, HeldRow
  <2> QED BY <2>1, <2>2
<1> QED BY <1>1, <1>2, <1>3, <1>4, <1>5, ClaimMoves DEF LedgerMove
-----------------------------------------------------------------------------
LEMMA ChargedFinite ==
    ASSUME TypeInv, NEW t \in Tasks, NEW h \in Hosts
    PROVE  IsFiniteSet(ChargedAttempts(t, h)) /\ Cardinality(ChargedAttempts(t, h)) \in Nat
<1>1. DOMAIN attempts[t][h] = 1..Len(attempts[t][h]) /\ Len(attempts[t][h]) \in Nat
  BY DEF TypeInv, TablesTyped
<1>2. IsFiniteSet(DOMAIN attempts[t][h])
  BY <1>1, FS_Interval
<1>3. ChargedAttempts(t, h) \subseteq DOMAIN attempts[t][h]
  BY DEF ChargedAttempts
<1> QED BY <1>2, <1>3, FS_Subset, FS_CardinalityType

LEMMA AttemptBudgetKept ==
    ASSUME TypeInv, LedgerInv, LedgerMove
    PROVE  AttemptBudget'
<1>1. CASE Settling
  <2>1. ASSUME NEW t \in Tasks, NEW h \in Hosts
        PROVE  Cardinality(ChargedAttempts(t, h)') <= AttemptMax
    <3>1. ASSUME NEW i \in ChargedAttempts(t, h)'
          PROVE  i \in ChargedAttempts(t, h)
      <4>1. i \in DOMAIN attempts[t][h] /\ attempts'[t][h][i].status # "paused"
        BY <1>1, <3>1 DEF Settling, ChargedAttempts
      <4>2. attempts[t][h][i].status = "paused" => attempts'[t][h][i] = attempts[t][h][i]
        BY <1>1, <4>1 DEF Settling, Unsettled
      <4> QED BY <4>1, <4>2 DEF ChargedAttempts
    <3>2. ChargedAttempts(t, h)' \subseteq ChargedAttempts(t, h)
      BY <3>1
    <3>3. /\ Cardinality(ChargedAttempts(t, h)') <= Cardinality(ChargedAttempts(t, h))
          /\ Cardinality(ChargedAttempts(t, h)') \in Nat
      BY <3>2, ChargedFinite, FS_Subset, FS_CardinalityType
    <3>4. Cardinality(ChargedAttempts(t, h)) <= AttemptMax
      BY DEF LedgerInv, AttemptBudget
    <3> QED BY <3>3, <3>4, ChargedFinite, DeployAssumption
  <2> QED BY <2>1 DEF AttemptBudget
<1>2. ASSUME NEW r \in Runs, NEW g \in Hosts, NEW u \in Tasks, NEW n, NewClaim(r, g, u, n)
      PROVE  AttemptBudget'
  <2>1. ChargedAttempts(u, g)' = ChargedAttempts(u, g) \cup {n} /\ n \notin ChargedAttempts(u, g)
    BY <1>2 DEF NewClaim, ChargedAttempts
  <2>2. Cardinality(ChargedAttempts(u, g)') = Cardinality(ChargedAttempts(u, g)) + 1
    BY <2>1, ChargedFinite, FS_AddElement
  <2>3. Cardinality(ChargedAttempts(u, g)) < AttemptMax
    BY <1>2 DEF NewClaim, Claimable
  <2>4. Cardinality(ChargedAttempts(u, g)') <= AttemptMax
    BY <2>2, <2>3, ChargedFinite, DeployAssumption
  <2>5. \A t \in Tasks, h \in Hosts : t # u \/ h # g => ChargedAttempts(t, h)' = ChargedAttempts(t, h)
    BY <1>2 DEF NewClaim, ChargedAttempts
  <2> QED BY <2>4, <2>5 DEF LedgerInv, AttemptBudget
<1> QED BY <1>1, <1>2, MovesSettle, ClaimMoves DEF LedgerInv
-----------------------------------------------------------------------------
LEMMA LedgerInit ==
    ASSUME Init
    PROVE  LedgerInv
<1>1. \A t \in Tasks, h \in Hosts : attempts[t][h] = <<>>
  BY DEF Init
<1>2. \A t \in Tasks, h \in Hosts : LiveAttempts(t, h) = {} /\ ChargedAttempts(t, h) = {}
  BY <1>1 DEF LiveAttempts, ChargedAttempts
<1>3. \A r \in Runs, h \in Hosts : ~Holding(r, h)
  BY DEF Init, Holding, IdleWorker, Fresh
<1>4. AttemptBudget
  BY <1>2, FS_EmptySet, DeployAssumption DEF AttemptBudget
<1>5. OneLiveAttempt /\ HeldOpen /\ HeldLive /\ AttemptOwned
  BY <1>2, <1>3 DEF OneLiveAttempt, HeldOpen, HeldLive, AttemptOwned
<1> QED BY <1>4, <1>5 DEF LedgerInv

LEMMA LedgerStep ==
    ASSUME TypeInv, LedgerInv, [Next]_vars
    PROVE  LedgerInv'
<1>1. LedgerMove
  BY LedgerMoves
<1>2. OneLiveAttempt' /\ AttemptOwned' /\ AttemptBudget'
  BY <1>1, OneLiveAttemptKept, AttemptOwnedKept, AttemptBudgetKept
<1>3. HeldOpen' /\ HeldLive'
  BY <1>1, HeldKept DEF HeldOpen, HeldLive, HeldFacts, HeldRow
<1> QED BY <1>2, <1>3 DEF LedgerInv

(* The ledger invariant holds in every reachable state, whatever operators   *)
(* request and whichever processes crash or claims expire.                   *)
THEOREM LedgerCorrect == Spec => []LedgerInv
<1>1. Init => LedgerInv
  BY LedgerInit
<1>2. TypeInv /\ LedgerInv /\ [Next]_vars => LedgerInv'
  BY LedgerStep
<1> QED BY <1>1, <1>2, TypeCorrect, PTL DEF Spec

(* claimAttempt: at most one unexpired claim per task host.                  *)
THEOREM OneLiveAttemptHolds == Spec => []OneLiveAttempt
<1>1. LedgerInv => OneLiveAttempt
  BY DEF LedgerInv
<1> QED BY <1>1, LedgerCorrect, PTL

(* claimAttempt: a host is never charged for more than deployAttemptMax      *)
(* attempts, however often its task is paused, retried or restarted.         *)
THEOREM AttemptBudgetHolds == Spec => []AttemptBudget
<1>1. LedgerInv => AttemptBudget
  BY DEF LedgerInv
<1> QED BY <1>1, LedgerCorrect, PTL

(* finishAttemptWithStatus: two goroutines never finish the same attempt.    *)
THEOREM AttemptOwnedHolds == Spec => []AttemptOwned
<1>1. LedgerInv => AttemptOwned
  BY DEF LedgerInv
<1> QED BY <1>1, LedgerCorrect, PTL

(* finishAttemptWithStatus and ReconcileDeployAttempts: the verdict of an    *)
(* attempt that is settled is never rewritten.                               *)
THEOREM AttemptVerdictHolds == Spec => AttemptVerdictKept
<1> DEFINE Kept == \A t \in Tasks, h \in Hosts : \A i \in DOMAIN attempts[t][h] :
          attempts[t][h][i].status \notin Unsettled => attempts'[t][h][i] = attempts[t][h][i]
<1>1. ASSUME TypeInv, LedgerInv, [Next]_vars
      PROVE  Kept
  <2>1. LedgerMove
    BY <1>1, LedgerMoves
  <2>2. CASE Settling
    BY <2>2 DEF Settling
  <2>3. ASSUME NEW r \in Runs, NEW g \in Hosts, NEW u \in Tasks, NEW n, NewClaim(r, g, u, n)
        PROVE  Kept
    BY <2>3 DEF NewClaim
  <2> QED BY <1>1, <2>1, <2>2, <2>3, MovesSettle, ClaimMoves DEF LedgerInv
<1>2. TypeInv /\ LedgerInv /\ [Next]_vars => [Kept]_vars
  BY <1>1
<1> HIDE DEF Kept
<1>3. Spec => [][Kept]_vars
  BY <1>2, TypeCorrect, LedgerCorrect, PTL DEF Spec
<1> QED BY <1>3 DEF AttemptVerdictKept, Kept

(* claimAttempt and finishAttemptWithStatus: under every request and fault,  *)
(* and whichever claims expire, two workers are on one task host only when   *)
(* one of them has outlived its claim.                                       *)
THEOREM OneClaimedWorkerHolds == Spec => []OneClaimedWorkerPerHost
<1>1. ASSUME TypeInv, LedgerInv
      PROVE  OneClaimedWorkerPerHost
  <2>1. SUFFICES ASSUME NEW r \in Runs, NEW q \in Runs, NEW h \in Hosts,
                        OnHost(r, h), OnHost(q, h), run[r].task = run[q].task,
                        ClaimLive(r, h), ClaimLive(q, h)
                 PROVE  r = q
    BY DEF OneClaimedWorkerPerHost
  <2>2. Holding(r, h) /\ Holding(q, h) /\ run[r].task \in Tasks
    BY <1>1, <2>1 DEF OnHost, Holding, TypeInv, RunsTyped, WorkersTyped
  <2>3. worker[r][h].att = worker[q][h].att
    BY <1>1, <2>1, <2>2 DEF LedgerInv, OneLiveAttempt, ClaimLive
  <2> QED BY <1>1, <2>1, <2>2, <2>3 DEF LedgerInv, AttemptOwned
<1> QED BY <1>1, TypeCorrect, LedgerCorrect, PTL

(* ReconcileDeployQueue's "at most one worker can execute a task host at a   *)
(* time" is true of every deployment whose executions end within the five    *)
(* minutes of their claims: claims may still expire when their process has   *)
(* crashed, and be taken over by another one.                                *)
THEOREM OneWorkerPerHostHolds ==
    ASSUME "attemptExpiry" \notin Events
    PROVE  Spec => []OneWorkerPerHost
<1>1. ASSUME TypeInv, LedgerInv, OneClaimedWorkerPerHost
      PROVE  OneWorkerPerHost
  <2>1. ASSUME NEW p \in Runs, NEW h \in Hosts, OnHost(p, h)
        PROVE  ClaimLive(p, h)
    <3>1. Holding(p, h)
      BY <2>1 DEF OnHost, Holding
    <3>2. /\ worker[p][h].att \in DOMAIN attempts[run[p].task][h]
          /\ attempts[run[p].task][h][worker[p][h].att] = [status |-> "running", live |-> TRUE]
      BY <1>1, <3>1 DEF LedgerInv, HeldOpen, HeldLive
    <3>3. [status |-> "running", live |-> TRUE].status = "running"
          /\ [status |-> "running", live |-> TRUE].live
      OBVIOUS
    <3> QED BY <3>2, <3>3, Zenon DEF ClaimLive, LiveAttempts
  <2> QED BY <1>1, <2>1 DEF OneWorkerPerHost, OneClaimedWorkerPerHost
<1> QED BY <1>1, TypeCorrect, LedgerCorrect, OneClaimedWorkerHolds, PTL
-----------------------------------------------------------------------------
(* The checkpoints.                                                         *)
CkptInv == OneWorkerPerHost /\ NoStepRepeated

(* What a host goroutine does to the checkpoints of its host.               *)
EntersScript(r, h) ==
    worker'[r][h].pc = "script" =>
        UNCHANGED ckpt /\ worker'[r][h].step \notin ckpt[run[r].task][h]
Checkpoints(r, h) ==
    /\ WorkerAt(r, h, "script")
    /\ \/ ckpt' = [ckpt EXCEPT ![run[r].task][h] = @ \cup {worker[r][h].step}]
       \/ ckpt' = [ckpt EXCEPT ![run[r].task][h] = @ \ {worker[r][h].step}]
WorkerMove(r, h) ==
    /\ \A q \in Runs, g \in Hosts : q # r \/ g # h => worker'[q][g] = worker[q][g]
    /\ \A q \in Runs : run'[q].task = run[q].task
    /\ EntersScript(r, h)
    /\ UNCHANGED ckpt \/ Checkpoints(r, h)
-----------------------------------------------------------------------------
LEMMA OwnWorkerOnly ==
    ASSUME TypeInv, NEW r \in Runs, NEW h \in Hosts, NEW w, SetWorker(r, h, w)
    PROVE  /\ worker'[r][h] = w
           /\ \A q \in Runs, g \in Hosts : q # r \/ g # h => worker'[q][g] = worker[q][g]
BY DEF TypeInv, WorkersTyped, SetWorker

LEMMA WorkerMovesCkpt ==
    ASSUME TypeInv, NEW r \in Runs, NEW h \in Hosts, WorkerStep(r, h) \/ WorkerFault(r, h)
    PROVE  WorkerMove(r, h)
<1> DEFINE w == worker[r][h]
<1>a. w \in Worker
  BY DEF TypeInv, WorkersTyped
<1>b. \A s : run' = run \/ run' = [run EXCEPT ![r].killed = s]
         => \A q \in Runs : run'[q].task = run[q].task
  BY DEF TypeInv, RunsTyped, Run
<1>c. ASSUME NEW pc, pc # "script"
      PROVE  /\ Fresh(pc, 0).pc = pc
             /\ \A n : Fresh(pc, n).pc # "script"
             /\ [w EXCEPT !.pc = pc].pc # "script"
             /\ \A res : [w EXCEPT !.pc = pc, !.res = res].pc # "script"
  BY <1>a, <1>c DEF Fresh, Worker
<1>1. ASSUME NEW v, SetWorker(r, h, v), v.pc # "script", UNCHANGED ckpt,
             \E s : run' = run \/ run' = [run EXCEPT ![r].killed = s]
      PROVE  WorkerMove(r, h)
  BY <1>1, <1>b, OwnWorkerOnly DEF WorkerMove, EntersScript
<1>2. CASE \/ WorkerCheck(r, h) \/ WorkerSkip(r, h) \/ WorkerClaim(r, h) \/ WorkerClaimRefused(r, h)
           \/ ConnectFails(r, h) \/ Interrupt(r, h) \/ WorkerReport(r, h)
           \/ WorkerReadsHosts(r, h) \/ WorkerReadsAttempts(r, h) \/ WorkerSettles(r, h)
           \/ WorkerFinalize(r, h)
           \/ FinishInterrupted(r, h) \/ FinishSuccess(r, h) \/ FinishFailed(r, h)
           \/ Requeue(r, h) \/ GiveUp(r, h) \/ WorkerFault(r, h)
  <2>1. UNCHANGED ckpt /\ \E s : run' = run \/ run' = [run EXCEPT ![r].killed = s]
    BY <1>2 DEF WorkerCheck, WorkerSkip, WorkerClaim, WorkerClaimRefused, ConnectFails, Interrupt,
                WorkerReport, WorkerReadsHosts, WorkerReadsAttempts, WorkerSettles, WorkerFinalize,
                FinishInterrupted, FinishSuccess, FinishFailed, Requeue, GiveUp, WorkerFault, WorkerWritebackFails, WorkerStateFails
  <2>2. \E v : SetWorker(r, h, v) /\ v.pc # "script"
    <3>1. WorkerExit(r, h) => \E v : SetWorker(r, h, v) /\ v.pc # "script"
      BY DEF WorkerExit, IdleWorker, Fresh
    <3>2. \A pc : pc # "script" /\ WorkerGoto(r, h, pc) => \E v : SetWorker(r, h, v) /\ v.pc # "script"
      BY <1>c DEF WorkerGoto
    <3>3. \A pc, res : pc # "script" /\ Outcome(r, h, pc, res)
             => \E v : SetWorker(r, h, v) /\ v.pc # "script"
      BY <1>c DEF Outcome
    <3>4. CASE WorkerCheck(r, h) \/ WorkerSkip(r, h) \/ WorkerClaimRefused(r, h) \/ GiveUp(r, h)
      BY <3>1, <3>2, <3>4 DEF WorkerCheck, WorkerSkip, WorkerClaimRefused, GiveUp
    <3>5. CASE WorkerClaim(r, h)
      BY <3>5 DEF WorkerClaim, Claimed
    <3>6. CASE ConnectFails(r, h) \/ Interrupt(r, h) \/ WorkerReport(r, h) \/ WorkerSettles(r, h)
      BY <3>2, <3>3, <3>6 DEF ConnectFails, Interrupt, WorkerReport, WorkerSettles
    <3>10. CASE WorkerReadsHosts(r, h) \/ WorkerReadsAttempts(r, h) \/ WorkerFinalize(r, h)
      BY <3>2, <3>3, <3>10 DEF WorkerReadsHosts, WorkerReadsAttempts, WorkerFinalize, AfterHosts,
            AfterAttempts
    <3>7. CASE FinishInterrupted(r, h) \/ FinishSuccess(r, h) \/ FinishFailed(r, h)
      BY <3>1, <3>2, <3>7 DEF FinishInterrupted, FinishSuccess, FinishFailed
    <3>8. CASE Requeue(r, h)
      BY <3>8 DEF Requeue, Fresh
    <3>9. CASE WorkerFault(r, h)
      BY <3>3, <3>9 DEF WorkerFault, WorkerWritebackFails, WorkerStateFails
    <3> QED BY <1>2, <3>4, <3>5, <3>6, <3>7, <3>8, <3>9, <3>10
  <2> QED BY <1>1, <2>1, <2>2
<1>3. CASE NextStep(r, h)
  <2>1. UNCHANGED <<ckpt, run>>
    BY <1>3 DEF NextStep
  <2>2. CASE WorkerGoto(r, h, "script") /\ w.step \notin ckpt[run[r].task][h]
    <3>1. [w EXCEPT !.pc = "script"].step = w.step
      BY <1>a DEF Worker
    <3> QED BY <2>1, <2>2, <3>1, OwnWorkerOnly DEF WorkerGoto, WorkerMove, EntersScript
  <2>3. CASE \E v : SetWorker(r, h, v) /\ v.pc # "script"
    BY <1>1, <2>1, <2>3
  <2>4. WorkerGoto(r, h, "interrupt") \/ Outcome(r, h, "report", "success")
           \/ (SetWorker(r, h, [w EXCEPT !.step = @ + 1]) /\ w.pc = "exec")
           \/ (WorkerGoto(r, h, "script") /\ w.step \notin ckpt[run[r].task][h])
    BY <1>3 DEF NextStep, WorkerAt
  <2>5. CASE WorkerGoto(r, h, "interrupt")
    BY <1>c, <2>3, <2>5 DEF WorkerGoto
  <2>6. CASE Outcome(r, h, "report", "success")
    <3>1. [w EXCEPT !.pc = "report", !.res = "success"].pc # "script"
      BY <1>c
    <3>2. \E v : SetWorker(r, h, v) /\ v.pc # "script"
      BY <2>6, <3>1 DEF Outcome
    <3> QED BY <2>3, <3>2
  <2>7. CASE SetWorker(r, h, [w EXCEPT !.step = @ + 1]) /\ w.pc = "exec"
    <3>1. [w EXCEPT !.step = @ + 1].pc # "script"
      BY <1>a, <2>7 DEF Worker
    <3>2. PICK v : SetWorker(r, h, v) /\ v.pc # "script"
      BY <2>7, <3>1
    <3> QED BY <2>3, <3>2
  <2> QED BY <2>2, <2>4, <2>5, <2>6, <2>7
<1>4. CASE StepSucceeds(r, h) \/ StepStops(r, h)
  <2>1. Checkpoints(r, h) /\ UNCHANGED run
    BY <1>4 DEF StepSucceeds, StepStops, Checkpoints
  <2>2. PICK v : SetWorker(r, h, v) /\ v \in {[w EXCEPT !.pc = "exec", !.step = @ + 1],
              [w EXCEPT !.pc = "exec", !.step = @ + 1, !.res = "canceled"],
              [w EXCEPT !.pc = "report", !.res = "failed"]}
    BY <1>4 DEF StepSucceeds, StepStops
  <2>3. v.pc # "script"
    BY <1>a, <2>2 DEF Worker
  <2> QED BY <2>1, <2>2, <2>3, OwnWorkerOnly DEF WorkerMove, EntersScript
<1> QED BY <1>2, <1>3, <1>4 DEF WorkerStep
-----------------------------------------------------------------------------
(* A worker that checkpoints or resets a step is alone on its host.         *)
LEMMA CheckpointEffect ==
    ASSUME TypeInv, CkptInv, NEW r \in Runs, NEW h \in Hosts, Checkpoints(r, h)
    PROVE  /\ \A t \in Tasks, g \in Hosts : ckpt[t][g] \subseteq ckpt'[t][g]
           /\ \A q \in Runs, g \in Hosts : InScript(q, g) /\ (q # r \/ g # h)
                 => ckpt'[run[q].task][g] = ckpt[run[q].task][g]
<1> DEFINE u == run[r].task
           s == worker[r][h].step
<1>1. u \in Tasks /\ OnHost(r, h) /\ s \notin ckpt[u][h]
  BY DEF Checkpoints, WorkerAt, TypeInv, RunsTyped, WorkersTyped, OnHost, CkptInv,
         NoStepRepeated, InScript
<1>2. /\ \A t \in Tasks, g \in Hosts : t # u \/ g # h => ckpt'[t][g] = ckpt[t][g]
      /\ ckpt'[u][h] = ckpt[u][h] \cup {s} \/ ckpt'[u][h] = ckpt[u][h] \ {s}
  BY <1>1 DEF Checkpoints, TypeInv, TablesTyped
<1>3. \A t \in Tasks, g \in Hosts : ckpt[t][g] \subseteq ckpt'[t][g]
  BY <1>1, <1>2
<1>4. ASSUME NEW q \in Runs, NEW g \in Hosts, InScript(q, g), q # r \/ g # h
      PROVE  ckpt'[run[q].task][g] = ckpt[run[q].task][g]
  <2>1. run[q].task \in Tasks /\ OnHost(q, g)
    BY <1>4 DEF InScript, OnHost, TypeInv, RunsTyped, WorkersTyped
  <2>2. run[q].task # u \/ g # h
    BY <1>1, <1>4, <2>1 DEF CkptInv, OneWorkerPerHost
  <2> QED BY <1>2, <2>1, <2>2
<1> QED BY <1>3, <1>4

LEMMA NoStepRepeatedKept ==
    ASSUME TypeInv, CkptInv, [Next]_vars
    PROVE  NoStepRepeated' /\ \A t \in Tasks, h \in Hosts : ckpt[t][h] \subseteq ckpt'[t][h]
<1>1. ASSUME NEW r \in Runs, NEW h \in Hosts, WorkerStep(r, h) \/ WorkerFault(r, h)
      PROVE  NoStepRepeated' /\ \A t \in Tasks, g \in Hosts : ckpt[t][g] \subseteq ckpt'[t][g]
  <2>1. WorkerMove(r, h)
    BY <1>1, WorkerMovesCkpt
  <2>2. \A t \in Tasks, g \in Hosts : ckpt[t][g] \subseteq ckpt'[t][g]
    BY <2>1, CheckpointEffect DEF WorkerMove
  <2>3. ASSUME NEW q \in Runs, NEW g \in Hosts, InScript(q, g)'
        PROVE  worker'[q][g].step \notin ckpt'[run'[q].task][g]
    <3>1. run'[q].task = run[q].task
      BY <2>1 DEF WorkerMove
    <3>2. CASE q = r /\ g = h
      BY <2>1, <2>3, <3>1, <3>2 DEF WorkerMove, EntersScript, InScript
    <3>3. CASE q # r \/ g # h
      <4>1. worker'[q][g] = worker[q][g]
        BY <2>1, <3>3 DEF WorkerMove
      <4>2. InScript(q, g) /\ worker[q][g].step \notin ckpt[run[q].task][g]
        BY <2>3, <4>1 DEF InScript, CkptInv, NoStepRepeated
      <4>3. ckpt'[run[q].task][g] = ckpt[run[q].task][g]
        BY <2>1, <3>3, <4>2, CheckpointEffect DEF WorkerMove
      <4> QED BY <3>1, <4>1, <4>2, <4>3
    <3> QED BY <3>2, <3>3
  <2> QED BY <2>2, <2>3 DEF NoStepRepeated
<1>2. CASE \A r \in Runs, h \in Hosts : ~WorkerStep(r, h) /\ ~WorkerFault(r, h)
  <2>1. WorkersLeft
    BY <1>2, OtherMoves
  <2>2. ASSUME NEW q \in Runs, NEW g \in Hosts, InScript(q, g)'
        PROVE  worker'[q][g].step \notin ckpt'[run'[q].task][g]
    <3>1. worker'[q][g] = worker[q][g] /\ run'[q].task = run[q].task
      BY <2>1, <2>2 DEF WorkersLeft, Holding, InScript
    <3> QED BY <2>1, <2>2, <3>1 DEF WorkersLeft, InScript, CkptInv, NoStepRepeated
  <2> QED BY <2>1, <2>2 DEF WorkersLeft, NoStepRepeated
<1> QED BY <1>1, <1>2

(* RunHostSteps: as long as no execution outlives its claim, a host that is  *)
(* resumed, retried or taken over after a crash never runs the script of a   *)
(* step that succeeded.                                                      *)
THEOREM NoStepRepeatedHolds ==
    ASSUME "attemptExpiry" \notin Events
    PROVE  Spec => []NoStepRepeated
<1>1. Init => NoStepRepeated
  BY DEF Init, NoStepRepeated, InScript, IdleWorker, Fresh
<1>2. TypeInv /\ OneWorkerPerHost /\ NoStepRepeated /\ [Next]_vars => NoStepRepeated'
  BY NoStepRepeatedKept DEF CkptInv
<1> QED BY <1>1, <1>2, TypeCorrect, OneWorkerPerHostHolds, PTL DEF Spec

(* RunHostSteps: as long as no execution outlives its claim, an interrupted  *)
(* or failed script never resets a step that succeeded.                      *)
THEOREM CheckpointKeptHolds ==
    ASSUME "attemptExpiry" \notin Events
    PROVE  Spec => CheckpointKept
<1> DEFINE Kept == \A t \in Tasks, h \in Hosts : ckpt[t][h] \subseteq ckpt'[t][h]
<1>1. TypeInv /\ OneWorkerPerHost /\ NoStepRepeated /\ [Next]_vars => [Kept]_vars
  BY NoStepRepeatedKept DEF CkptInv
<1> HIDE DEF Kept
<1>2. Spec => [][Kept]_vars
  BY <1>1, TypeCorrect, OneWorkerPerHostHolds, NoStepRepeatedHolds, PTL DEF Spec
<1> QED BY <1>2 DEF CheckpointKept, Kept
-----------------------------------------------------------------------------
(* What a host goroutine has behind it is checkpointed, unless a step was   *)
(* canceled; when it carries a success, every step is.                      *)
WalkFits(w, done) ==
    /\ w.pc \in {"exec", "script"} /\ w.res # "canceled" => 1..(w.step - 1) \subseteq done
    /\ w.pc \in {"report", "finalize"} /\ w.res = "success" => done = 1..Steps
Walked == \A r \in Runs, h \in Hosts : WalkFits(worker[r][h], ckpt[run[r].task][h])

LEMMA WalkGrows ==
    ASSUME NEW w, NEW done, NEW more \in SUBSET (1..Steps), done \subseteq more, WalkFits(w, done)
    PROVE  WalkFits(w, more)
BY DEF WalkFits

LEMMA WalkSteps ==
    ASSUME TypeInv, NEW r \in Runs, NEW h \in Hosts, WorkerStep(r, h) \/ WorkerFault(r, h),
           NEW t \in Tasks, t = run[r].task, TypeInv', ckpt[t][h] \subseteq ckpt'[t][h],
           WalkFits(worker[r][h], ckpt[t][h])
    PROVE  WalkFits(worker'[r][h], ckpt'[t][h])
<1> DEFINE w == worker[r][h]
           v == worker'[r][h]
<1>1. ckpt'[t][h] \subseteq 1..Steps /\ w \in Worker
  BY DEF TypeInv, TablesTyped, WorkersTyped
<1>2. \A u : SetWorker(r, h, u) => v = u
  BY OwnWorkerOnly
<1>3. CASE StepSucceeds(r, h)
  <2>1. /\ w.pc = "script" /\ v = [w EXCEPT !.pc = "exec", !.step = @ + 1]
        /\ w.step \in ckpt'[t][h]
    BY <1>2, <1>3 DEF StepSucceeds, WorkerAt, TypeInv, TablesTyped
  <2>2. v.pc = "exec" /\ v.step = w.step + 1 /\ v.res = w.res /\ w.step \in Nat
    BY <1>1, <2>1 DEF Worker
  <2>3. w.res # "canceled" => 1..(w.step - 1) \subseteq ckpt'[t][h]
    BY <2>1 DEF WalkFits
  <2>4. (w.step + 1) - 1 = w.step /\ 1..w.step \subseteq (1..(w.step - 1)) \cup {w.step}
    BY <2>2
  <2> QED BY <2>1, <2>2, <2>3, <2>4 DEF WalkFits
<1>4. CASE NextStep(r, h)
  <2>1. w.pc = "exec" /\ UNCHANGED ckpt
    BY <1>4 DEF NextStep, WorkerAt
  <2>2. \/ v = [w EXCEPT !.pc = "interrupt"] \/ v = [w EXCEPT !.pc = "script"]
        \/ v = [w EXCEPT !.pc = "report", !.res = "success"] /\ w.step > Steps /\ w.res # "canceled"
        \/ v = [w EXCEPT !.step = @ + 1] /\ w.step \in ckpt[t][h]
    BY <1>2, <1>4 DEF NextStep, WorkerGoto, Outcome
  <2>3. w.step \in Nat /\ Steps \in Nat
    BY <1>1, DeployAssumption DEF Worker
  <2>4. CASE v = [w EXCEPT !.pc = "interrupt"] \/ v = [w EXCEPT !.pc = "script"]
    <3>1. v.pc \in {"interrupt", "script"} /\ v.step = w.step /\ v.res = w.res
      BY <1>1, <2>4 DEF Worker
    <3> QED BY <2>1, <3>1 DEF WalkFits
  <2>5. CASE v = [w EXCEPT !.pc = "report", !.res = "success"] /\ w.step > Steps /\ w.res # "canceled"
    <3>1. v.pc = "report"
      BY <1>1, <2>5 DEF Worker
    <3>2. 1..(w.step - 1) \subseteq ckpt'[t][h]
      BY <2>1, <2>5 DEF WalkFits
    <3>3. 1..Steps \subseteq 1..(w.step - 1)
      BY <2>3, <2>5
    <3>4. ckpt'[t][h] = 1..Steps
      BY <1>1, <3>2, <3>3
    <3> QED BY <3>1, <3>4 DEF WalkFits
  <2>6. CASE v = [w EXCEPT !.step = @ + 1] /\ w.step \in ckpt[t][h]
    <3>1. v.pc = "exec" /\ v.step = w.step + 1 /\ v.res = w.res
      BY <1>1, <2>1, <2>6 DEF Worker
    <3>2. w.res # "canceled" => 1..(w.step - 1) \subseteq ckpt'[t][h]
      BY <2>1 DEF WalkFits
    <3>3. (w.step + 1) - 1 = w.step /\ 1..w.step \subseteq (1..(w.step - 1)) \cup {w.step}
      BY <2>3
    <3> QED BY <2>1, <2>6, <3>1, <3>2, <3>3 DEF WalkFits
  <2> QED BY <2>2, <2>4, <2>5, <2>6
<1>5. CASE StepStops(r, h)
  <2>1. \/ v = [w EXCEPT !.pc = "exec", !.step = @ + 1, !.res = "canceled"]
        \/ v = [w EXCEPT !.pc = "report", !.res = "failed"]
    BY <1>2, <1>5 DEF StepStops
  <2>2. \/ v.pc = "exec" /\ v.res = "canceled"
        \/ v.pc = "report" /\ v.res = "failed"
    BY <1>1, <2>1 DEF Worker
  <2> QED BY <2>2 DEF WalkFits
<1>6. CASE WorkerReport(r, h)
  <2>1. UNCHANGED ckpt /\ w.pc = "report" /\ (v.pc = "finish" \/ (v.pc = "finalize" /\ v.res = w.res))
    BY <1>1, <1>2, <1>6 DEF WorkerReport, WorkerAt, WorkerGoto, Outcome, Worker
  <2> QED BY <2>1 DEF WalkFits
<1>7. CASE WorkerClaim(r, h)
  <2>1. v.pc = "exec" /\ v.step = 1
    BY <1>2, <1>7 DEF WorkerClaim, Claimed
  <2>2. 1..(1 - 1) = {}
    OBVIOUS
  <2> QED BY <2>1, <2>2 DEF WalkFits
<1>8. CASE \/ WorkerCheck(r, h) \/ WorkerSkip(r, h) \/ WorkerClaimRefused(r, h) \/ ConnectFails(r, h)
           \/ Interrupt(r, h) \/ WorkerReadsHosts(r, h) \/ WorkerReadsAttempts(r, h)
           \/ WorkerSettles(r, h) \/ WorkerFinalize(r, h) \/ FinishInterrupted(r, h)
           \/ FinishSuccess(r, h) \/ FinishFailed(r, h) \/ Requeue(r, h) \/ GiveUp(r, h) \/ WorkerFault(r, h)
  <2>1. /\ v.pc \notin {"exec", "script"}
        /\ v.pc \notin {"report", "finalize"} \/ v.res = "failed"
    <3>1. CASE WorkerCheck(r, h) \/ WorkerSkip(r, h) \/ WorkerClaimRefused(r, h) \/ GiveUp(r, h)
      BY <1>1, <1>2, <3>1 DEF WorkerCheck, WorkerSkip, WorkerClaimRefused, GiveUp, WorkerExit,
         WorkerGoto, IdleWorker, Fresh, Worker
    <3>2. CASE ConnectFails(r, h) \/ Interrupt(r, h) \/ WorkerFinalize(r, h) \/ WorkerFault(r, h)
      BY <1>1, <1>2, <3>2 DEF ConnectFails, Interrupt, WorkerFinalize, WorkerFault,
         WorkerWritebackFails, WorkerStateFails, Outcome, Worker
    <3>4. CASE WorkerReadsHosts(r, h) \/ WorkerReadsAttempts(r, h) \/ WorkerSettles(r, h)
      BY <1>1, <1>2, <3>4 DEF WorkerReadsHosts, WorkerReadsAttempts, WorkerSettles, AfterHosts,
         AfterAttempts, Outcome, WorkerGoto, Worker
    <3>3. CASE FinishInterrupted(r, h) \/ FinishSuccess(r, h) \/ FinishFailed(r, h) \/ Requeue(r, h)
      BY <1>1, <1>2, <3>3 DEF FinishInterrupted, FinishSuccess, FinishFailed, Requeue, WorkerExit,
         WorkerGoto, IdleWorker, Fresh, Worker
    <3> QED BY <1>8, <3>1, <3>2, <3>3, <3>4
  <2> QED BY <2>1 DEF WalkFits
<1> QED BY <1>3, <1>4, <1>5, <1>6, <1>7, <1>8 DEF WorkerStep

LEMMA WalkedKept ==
    ASSUME TypeInv, TypeInv', CkptInv, Walked, [Next]_vars
    PROVE  Walked'
<1>1. \A t \in Tasks, h \in Hosts : ckpt[t][h] \subseteq ckpt'[t][h] /\ ckpt'[t][h] \in SUBSET (1..Steps)
  BY NoStepRepeatedKept DEF TypeInv, TablesTyped
<1>a. \A q \in Runs, g \in Hosts : worker[q][g].pc # "idle" => run[q].task \in Tasks
  BY DEF TypeInv, RunsTyped, WorkersTyped
<1>2. ASSUME NEW r \in Runs, NEW h \in Hosts, WorkerStep(r, h) \/ WorkerFault(r, h)
      PROVE  Walked'
  <2>1. WorkerMove(r, h)
    BY <1>2, WorkerMovesCkpt
  <2>2. run[r].task \in Tasks
    BY <1>2, <1>a DEF WorkerStep, WorkerFault, WorkerCheck, WorkerSkip, WorkerClaim,
     WorkerClaimRefused, ConnectFails, NextStep, StepSucceeds, StepStops, Interrupt, WorkerReport,
     WorkerReadsHosts, WorkerReadsAttempts, WorkerSettles, WorkerFinalize, FinishInterrupted,
     FinishSuccess, FinishFailed, Requeue, GiveUp, WorkerWritebackFails, WorkerStateFails, WorkerAt
  <2>3. ASSUME NEW q \in Runs, NEW g \in Hosts
        PROVE  WalkFits(worker'[q][g], ckpt'[run'[q].task][g])
    <3>1. run'[q].task = run[q].task
      BY <2>1 DEF WorkerMove
    <3>2. CASE q = r /\ g = h
      BY <1>1, <1>2, <2>2, <3>1, <3>2, WalkSteps DEF Walked
    <3>3. CASE q # r \/ g # h
      <4>1. worker'[q][g] = worker[q][g]
        BY <2>1, <3>3 DEF WorkerMove
      <4>2. CASE worker[q][g].pc = "idle"
        BY <4>1, <4>2 DEF WalkFits
      <4>3. CASE worker[q][g].pc # "idle"
        BY <1>1, <1>a, <3>1, <4>1, <4>3, WalkGrows DEF Walked
      <4> QED BY <4>2, <4>3
    <3> QED BY <3>2, <3>3
  <2> QED BY <2>3 DEF Walked, WalkFits
<1>3. CASE \A r \in Runs, h \in Hosts : ~WorkerStep(r, h) /\ ~WorkerFault(r, h)
  <2>1. WorkersLeft
    BY <1>3, OtherMoves
  <2>2. ASSUME NEW q \in Runs, NEW g \in Hosts
        PROVE  WalkFits(worker'[q][g], ckpt'[run'[q].task][g])
    BY <2>1 DEF WorkersLeft, Holding, Walked, WalkFits
  <2> QED BY <2>2 DEF Walked, WalkFits
<1> QED BY <1>2, <1>3

LEMMA WalkedHolds ==
    ASSUME "attemptExpiry" \notin Events
    PROVE  Spec => []Walked
<1>1. Init => Walked
  BY DEF Init, Walked, WalkFits, IdleWorker, Fresh
<1>2. TypeInv /\ TypeInv' /\ OneWorkerPerHost /\ NoStepRepeated /\ Walked /\ [Next]_vars => Walked'
  BY WalkedKept DEF CkptInv
<1> QED BY <1>1, <1>2, TypeCorrect, OneWorkerPerHostHolds, NoStepRepeatedHolds, PTL DEF Spec
=============================================================================
