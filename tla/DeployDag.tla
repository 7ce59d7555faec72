------------------------------ MODULE DeployDag ------------------------------
(***************************************************************************)
(* The dependency graph of an execution plan (orchestrator/orchestrator.go) *)
(* and the depth first walk over it, which the orchestrator makes twice:    *)
(* hasDAGCycle looks for a cycle before a plan is admitted, and topoOrder   *)
(* puts the steps of an admitted plan in order.  Both are a recursive       *)
(* closure visit(key); here its call stack is a variable and each call,     *)
(* each turn of its loop and each return is a step.                         *)
(*                                                                         *)
(* A node is a record with a key and a sequence deps of keys.  A submitted *)
(* plan is any sequence of nodes: keys may repeat, dependencies may be     *)
(* unknown.                                                                *)
(***************************************************************************)
EXTENDS Naturals, SequencesExt

VARIABLES plan,      \* the nodes, as they were submitted
          mark,      \* state, visited: "unvisited", "visiting" or "done" by key
          path,      \* the keys of the calls of visit that have not returned
          rest       \* the dependencies that visit(key) has not looked at

dagVars == <<mark, path, rest>>

KeysOf(ns) == {ns[i].key : i \in DOMAIN ns}
ByKey(ns, k) == CHOOSE n \in {ns[i] : i \in DOMAIN ns} : n.key = k
DepsOf(k) == ByKey(plan, k).deps

UniqueKeys(ns) == \A i, j \in DOMAIN ns : ns[i].key = ns[j].key => i = j

ReferencesValid(ns) ==
    \A i \in DOMAIN ns : \A d \in Range(ns[i].deps) : d # ns[i].key /\ d \in KeysOf(ns)
-----------------------------------------------------------------------------
NoMarks == [k \in KeysOf(plan) |-> "unvisited"]
AllDeps == [k \in KeysOf(plan) |-> DepsOf(k)]

Unvisited == mark = NoMarks /\ path = <<>> /\ rest = AllDeps
StartVisits == mark' = NoMarks /\ path' = <<>> /\ rest' = AllDeps

Enter(k) ==
    /\ mark[k] = "unvisited"
    /\ mark' = [mark EXCEPT ![k] = "visiting"]
    /\ path' = Append(path, k)

(* The loop over the keys calls visit.                                      *)
VisitRoot(k) == path = <<>> /\ Enter(k) /\ UNCHANGED rest

(* The loop of visit over the dependencies of its key.                      *)
Caller == Last(path)
Dependency == Head(rest[Caller])
NextDependency ==
    /\ path # <<>> /\ rest[Caller] # <<>>
    /\ rest' = [rest EXCEPT ![Caller] = Tail(@)]

VisitDependency == NextDependency /\ Enter(Dependency)
PassDependency(marks) ==
    NextDependency /\ mark[Dependency] \in marks /\ UNCHANGED <<mark, path>>

Leave ==
    /\ path # <<>> /\ rest[Caller] = <<>>
    /\ mark' = [mark EXCEPT ![Caller] = "done"]
    /\ path' = Front(path)
    /\ UNCHANGED rest

AllVisited == path = <<>> /\ \A k \in KeysOf(plan) : mark[k] = "done"
=============================================================================
