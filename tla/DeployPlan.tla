----------------------------- MODULE DeployPlan ------------------------------
(***************************************************************************)
(* A template's plan is validated when its snapshot is frozen, and refused *)
(* plans never run.  Then one host's plan over successive attempts:        *)
(* RunHostSteps orders the steps by their dependencies, walks them,        *)
(* evaluates their conditions on the outcomes of this attempt, skips what  *)
(* is checkpointed and leaves every outcome in the step's row, which the   *)
(* next attempt starts from.                                               *)
(*                                                                         *)
(* A step is a record with its key, deps, condition cond ("param_equals"   *)
(* stands for one whose values differ, an equal one is "always") and       *)
(* cont, whether its failure policy lets the walk continue.                *)
(***************************************************************************)
EXTENDS DeployDag

CONSTANTS Keys,         \* the names of steps, none of them empty
          Plans,        \* submitted plans
          MaxRuns,      \* bound on the number of attempts
          Interrupts    \* how an attempt may be interrupted in this instance

VARIABLES step,      \* the step rows: status and changed
          pc,        \* "submitted", "check", "refused", "idle", "order", "walk", "script" or "settle"
          todo,      \* steps in order, those this attempt has not visited
          done,      \* executed: outcomes of this attempt by key
          failed, canceled,
          suspended, \* the task row says pause_requested or paused
          killed,    \* the context of the attempt is canceled
          result,    \* the outcome of the last attempt
          runs

planVars == <<plan, dagVars, step, pc, todo, done, failed, canceled, suspended, killed, result, runs>>

Conditions == {"always", "on_success", "on_failure", "on_changed", "param_equals"}
PlanAssumption ==
    /\ MaxRuns \in Nat
    /\ Plans \subseteq Seq([key : Keys, deps : Seq(Keys), cond : Conditions, cont : BOOLEAN])
ASSUME PlanAssumption

StepStatuses == {"pending", "running", "success", "failed", "skipped", "canceled"}
Outcome(s, c) == [status |-> s, changed |-> c]
Checkpointed(k) == step[k].status \in {"success", "skipped"}

PlanInit ==
    /\ plan \in Plans
    /\ Unvisited
    /\ step = [k \in KeysOf(plan) |-> Outcome("pending", FALSE)]
    /\ pc = "submitted" /\ todo = <<>> /\ done = <<>>
    /\ failed = FALSE /\ canceled = FALSE
    /\ suspended = FALSE /\ killed = FALSE
    /\ result = "none" /\ runs = 0

Quiet == UNCHANGED <<plan, step, done, failed, canceled, suspended, killed, result, runs>>

(* buildDeployExecutionSnapshot: the plan is frozen if ValidateDAG finds no *)
(* error.  With one in the keys or references it is refused whatever the    *)
(* walk for cycles adds to the message.                                     *)
Submit ==
    /\ pc = "submitted"
    /\ pc' = IF UniqueKeys(plan) /\ ReferencesValid(plan) THEN "check" ELSE "refused"
    /\ UNCHANGED <<todo, dagVars>> /\ Quiet

(* Mutant: a key that is being visited is taken for one that is done.       *)
CheckMissesCycle ==
    /\ pc = "check"
    /\ \/ \E k \in KeysOf(plan) : VisitRoot(k)
       \/ VisitDependency \/ PassDependency({"visiting", "done"}) \/ Leave
    /\ UNCHANGED <<pc, todo>> /\ Quiet

(* hasDAGCycle: the keys are visited in the order of a map, which is any.   *)
Check ==
    /\ pc = "check"
    /\ \/ \E k \in KeysOf(plan) : VisitRoot(k)
       \/ VisitDependency \/ PassDependency({"done"}) \/ Leave
    /\ UNCHANGED <<pc, todo>> /\ Quiet

(* The dependency leads back to a key that is being visited.                *)
FindCycle ==
    /\ pc = "check" /\ PassDependency({"visiting"})
    /\ pc' = "refused"
    /\ UNCHANGED todo /\ Quiet

Admit ==
    /\ pc = "check" /\ AllVisited
    /\ pc' = "idle"
    /\ UNCHANGED <<todo, dagVars>> /\ Quiet
-----------------------------------------------------------------------------
(* An attempt starts: a fresh hostStepRun over orderSteps(plan).            *)
Begin ==
    /\ pc = "idle" /\ runs < MaxRuns /\ ~suspended
    /\ pc' = "order" /\ StartVisits
    /\ todo' = <<>> /\ done' = <<>>
    /\ failed' = FALSE /\ canceled' = FALSE /\ killed' = FALSE
    /\ result' = "none" /\ runs' = runs + 1
    /\ UNCHANGED <<plan, step, suspended>>

(* The next of the listed steps that visit has not been called for.         *)
FirstUnvisited(i) ==
    mark[plan[i].key] = "unvisited" /\ \A j \in 1..(i - 1) : mark[plan[j].key] # "unvisited"

(* Mutant: visit passes over the dependencies, so the list order remains.   *)
OrderAsListed ==
    /\ pc = "order"
    /\ \/ \E i \in DOMAIN plan : FirstUnvisited(i) /\ VisitRoot(plan[i].key)
       \/ PassDependency({"unvisited", "visiting", "done"})
    /\ UNCHANGED <<pc, todo>> /\ Quiet

(* topoOrder: the steps are visited as they are listed; the mark "visiting" *)
(* is passed over like "done".  No interruption is noticed before the walk. *)
Order ==
    /\ pc = "order"
    /\ \/ \E i \in DOMAIN plan : FirstUnvisited(i) /\ VisitRoot(plan[i].key)
       \/ VisitDependency \/ PassDependency({"visiting", "done"})
    /\ UNCHANGED <<pc, todo>> /\ Quiet

(* visit has been through the dependencies: the step is put out.            *)
Emit ==
    /\ pc = "order" /\ Leave
    /\ todo' = Append(todo, ByKey(plan, Caller))
    /\ UNCHANGED pc /\ Quiet

Ordered ==
    /\ pc = "order" /\ AllVisited
    /\ pc' = "walk"
    /\ UNCHANGED <<todo, dagVars>> /\ Quiet

Remember(k, o) == done' = [x \in DOMAIN done \cup {k} |-> IF x = k THEN o ELSE done[x]]
-----------------------------------------------------------------------------
(* evaluateCondition looks only at dependencies that have an outcome.       *)
Outcomes(s) == {done[d] : d \in Range(s.deps) \cap DOMAIN done}

(* Mutant: on_success runs as soon as one dependency is not a failure.      *)
SkipUnlessOne(s) ==
    CASE s.cond = "on_success" ->
            Outcomes(s) # {} /\ \A o \in Outcomes(s) : o.status \notin {"success", "skipped"}
      [] s.cond = "on_failure" -> ~\E o \in Outcomes(s) : o.status = "failed"
      [] s.cond = "on_changed" -> ~\E o \in Outcomes(s) : o.changed
      [] OTHER -> s.cond = "param_equals"

EvaluateCondition(s) ==
    CASE s.cond = "on_success" ->
            \E o \in Outcomes(s) : o.status \notin {"success", "skipped"}
      [] s.cond = "on_failure" -> ~\E o \in Outcomes(s) : o.status = "failed"
      [] s.cond = "on_changed" -> ~\E o \in Outcomes(s) : o.changed
      [] OTHER -> s.cond = "param_equals"

At(s) == pc = "walk" /\ todo # <<>> /\ ~killed /\ s = Head(todo)

(* The condition does not hold: an outcome of this attempt, written to the  *)
(* row when the attempt ends (persistSkippedTaskSteps).                     *)
StepSkipped ==
    \E s \in Range(plan) :
        /\ At(s) /\ EvaluateCondition(s)
        /\ Remember(s.key, Outcome("skipped", FALSE))
        /\ todo' = Tail(todo)
        /\ UNCHANGED <<plan, dagVars, step, pc, failed, canceled, suspended, killed, result, runs>>

(* Checkpoint resume.                                                       *)
StepResumed ==
    \E s \in Range(plan) :
        /\ At(s) /\ ~EvaluateCondition(s) /\ Checkpointed(s.key)
        /\ Remember(s.key, Outcome(step[s.key].status, TRUE))
        /\ todo' = Tail(todo)
        /\ UNCHANGED <<plan, dagVars, step, pc, failed, canceled, suspended, killed, result, runs>>

(* Mutant: the checkpoint is not looked at.                                 *)
StartAnyStep ==
    \E s \in Range(plan) :
        /\ At(s) /\ ~EvaluateCondition(s)
        /\ pc' = "script"
        /\ step' = [step EXCEPT ![s.key].status = "running"]
        /\ UNCHANGED <<plan, dagVars, todo, done, failed, canceled, suspended, killed, result, runs>>

StepStarts ==
    \E s \in Range(plan) :
        /\ At(s) /\ ~EvaluateCondition(s) /\ ~Checkpointed(s.key)
        /\ pc' = "script"
        /\ step' = [step EXCEPT ![s.key].status = "running"]
        /\ UNCHANGED <<plan, dagVars, todo, done, failed, canceled, suspended, killed, result, runs>>
-----------------------------------------------------------------------------
(* ExecuteStep returns: the script did what it had to, changing the host or *)
(* finding it in the desired state.                                         *)
StepSucceeds(changed) ==
    LET k == Head(todo).key IN
    /\ pc = "script"
    /\ step' = [step EXCEPT ![k] = Outcome("success", changed)]
    /\ Remember(k, Outcome("success", changed))
    /\ pc' = "walk" /\ todo' = Tail(todo)
    /\ UNCHANGED <<plan, dagVars, failed, canceled, suspended, killed, result, runs>>

(* Mutant: a failure does not end the walk.                                 *)
FailContinues ==
    LET s == Head(todo) IN
    /\ pc = "script" /\ ~suspended /\ ~killed
    /\ step' = [step EXCEPT ![s.key].status = "failed"]
    /\ Remember(s.key, Outcome("failed", FALSE))
    /\ failed' = TRUE /\ pc' = "walk" /\ todo' = Tail(todo)
    /\ UNCHANGED <<plan, dagVars, canceled, suspended, killed, result, runs>>

StepFails ==
    LET s == Head(todo) IN
    /\ pc = "script" /\ ~suspended /\ ~killed
    /\ step' = [step EXCEPT ![s.key].status = "failed"]
    /\ Remember(s.key, Outcome("failed", FALSE))
    /\ failed' = TRUE
    /\ IF s.cont THEN pc' = "walk" /\ todo' = Tail(todo)
                 ELSE pc' = "settle" /\ todo' = <<>>
    /\ UNCHANGED <<plan, dagVars, canceled, suspended, killed, result, runs>>

(* A script that stops under a pause or a canceled context is "canceled";   *)
(* the walk goes on unless the context itself ends it.                      *)
StepCanceled ==
    LET k == Head(todo).key IN
    /\ pc = "script" /\ (suspended \/ killed)
    /\ step' = [step EXCEPT ![k].status = IF suspended THEN "pending" ELSE "canceled"]
    /\ Remember(k, Outcome("canceled", FALSE))
    /\ canceled' = TRUE /\ pc' = "walk" /\ todo' = Tail(todo)
    /\ UNCHANGED <<plan, dagVars, failed, suspended, killed, result, runs>>

(* ctx.Err() at the head of the loop.                                       *)
WalkCanceled ==
    /\ pc = "walk" /\ todo # <<>> /\ killed
    /\ canceled' = TRUE /\ pc' = "settle" /\ todo' = <<>>
    /\ UNCHANGED <<plan, dagVars, step, done, failed, suspended, killed, result, runs>>

WalkEnds ==
    /\ pc = "walk" /\ todo = <<>>
    /\ pc' = "settle"
    /\ UNCHANGED <<plan, dagVars, step, todo, done, failed, canceled, suspended, killed, result, runs>>

(* Mutant: a canceled walk without a failure counts as a success.           *)
FinalizeIgnoresCancel == IF failed THEN "failed" ELSE "success"

(* Mutant: an attempt without cancel or failure keeps the zero outcome.     *)
FinalizeUnset == IF canceled THEN "canceled" ELSE IF failed THEN "failed" ELSE ""

(* finalize, and a failed step that ended the walk at once.                 *)
Finalize == IF canceled THEN "canceled" ELSE IF failed THEN "failed" ELSE "success"

Settle ==
    /\ pc = "settle"
    /\ result' = Finalize
    /\ step' = [k \in DOMAIN step |->
                  IF k \in DOMAIN done /\ done[k].status = "skipped"
                  THEN [step[k] EXCEPT !.status = "skipped"] ELSE step[k]]
    /\ pc' = "idle"
    /\ UNCHANGED <<plan, dagVars, todo, done, failed, canceled, suspended, killed, runs>>
-----------------------------------------------------------------------------
(* A cancel, a pause in this process, the failure of another host.          *)
Kill ==
    /\ "kill" \in Interrupts /\ pc \in {"walk", "script"} /\ ~killed
    /\ killed' = TRUE
    /\ UNCHANGED <<plan, dagVars, step, pc, todo, done, failed, canceled, suspended, result, runs>>

(* A pause through another process: the row changes, the context does not.  *)
Suspend ==
    /\ "suspend" \in Interrupts /\ pc \in {"walk", "script"} /\ ~suspended
    /\ suspended' = TRUE
    /\ UNCHANGED <<plan, dagVars, step, pc, todo, done, failed, canceled, killed, result, runs>>

Resume ==
    /\ suspended /\ pc = "idle"
    /\ suspended' = FALSE
    /\ UNCHANGED <<plan, dagVars, step, pc, todo, done, failed, canceled, killed, result, runs>>

(* The process dies: the rows stay, the attempt is gone.                    *)
Crash ==
    /\ "crash" \in Interrupts /\ pc \in {"walk", "script", "settle"}
    /\ pc' = "idle" /\ todo' = <<>> /\ result' = "crashed"
    /\ UNCHANGED <<plan, dagVars, step, done, failed, canceled, suspended, killed, runs>>

PlanNext ==
    \/ Submit \/ Check \/ FindCycle \/ Admit
    \/ Begin \/ Order \/ Emit \/ Ordered
    \/ StepSkipped \/ StepResumed \/ StepStarts
    \/ \E changed \in BOOLEAN : StepSucceeds(changed)
    \/ StepFails \/ StepCanceled \/ WalkCanceled \/ WalkEnds \/ Settle
    \/ Kill \/ Suspend \/ Resume \/ Crash

PlanSpec == PlanInit /\ [][PlanNext]_planVars
-----------------------------------------------------------------------------
PlanTypeOK ==
    /\ step \in [KeysOf(plan) -> [status : StepStatuses, changed : BOOLEAN]]
    /\ pc \in {"submitted", "check", "refused", "idle", "order", "walk", "script", "settle"}
    /\ mark \in [KeysOf(plan) -> {"unvisited", "visiting", "done"}]
    /\ path \in Seq(KeysOf(plan)) /\ rest \in [KeysOf(plan) -> Seq(Keys)]
    /\ DOMAIN done \subseteq KeysOf(plan)
    /\ \A k \in DOMAIN done : done[k] \in [status : StepStatuses, changed : BOOLEAN]
    /\ Range(todo) \subseteq Range(plan)
    /\ {failed, canceled, suspended, killed} \subseteq BOOLEAN
    /\ result \in {"none", "success", "failed", "canceled", "crashed"}
    /\ runs \in 0..MaxRuns

(* A plan is admitted exactly when its keys are unique, its dependencies are *)
(* known, and no set of steps waits on itself (ValidateDAG against the      *)
(* definition of an acyclic graph).                                         *)
Acyclic(ns) ==
    \A ks \in (SUBSET KeysOf(ns)) \ {{}} :
        \E k \in ks : Range(ByKey(ns, k).deps) \cap ks = {}
AdmitsExactlyDags ==
    pc \notin {"submitted", "check"} =>
        (pc # "refused" <=> UniqueKeys(plan) /\ ReferencesValid(plan) /\ Acyclic(plan))

(* An attempt sets out to visit every step once and each one after all of   *)
(* its dependencies, whatever order the plan lists them in (topoOrder).     *)
OrderRespectsDeps ==
    pc = "walk" /\ DOMAIN done = {} =>
        /\ Len(todo) = Len(plan) /\ KeysOf(todo) = KeysOf(plan)
        /\ \A i \in DOMAIN todo : \A d \in Range(todo[i].deps) :
              \E j \in 1..(i - 1) : todo[j].key = d

InScript == pc = "script"

(* A script runs only after each step it depends on has an outcome in this  *)
(* attempt, and only when its condition holds on all of them, also when     *)
(* those outcomes were restored from an earlier attempt (evaluateCondition  *)
(* by itself ignores a dependency without outcome).                         *)
ConditionHolds ==
    InScript =>
        LET s == Head(todo)
            deps == Range(s.deps)
        IN  /\ deps \subseteq DOMAIN done
            /\ s.cond = "on_success" =>
                  \A d \in deps : done[d].status \in {"success", "skipped"}
            /\ s.cond = "on_failure" => \E d \in deps : done[d].status = "failed"
            /\ s.cond = "on_changed" => \E d \in deps : done[d].changed

(* A failed step whose policy is fail_fast is the last one of its attempt.  *)
FailFastStops ==
    InScript => \A s \in Range(plan) :
        s.key \in DOMAIN done /\ done[s.key].status = "failed" => s.cont

(* A checkpoint outlives every failure, pause, cancel and crash: its step   *)
(* never runs again in a later attempt.                                     *)
CheckpointIsFinal ==
    [][\A k \in DOMAIN step : Checkpointed(k) => step'[k].status \in {"success", "skipped"}]_planVars

(* A host is a success only when every step of its plan is checkpointed,    *)
(* however many attempts it took.                                           *)
SuccessIsWhole == pc = "idle" /\ result = "success" => \A k \in DOMAIN step : Checkpointed(k)
=============================================================================
