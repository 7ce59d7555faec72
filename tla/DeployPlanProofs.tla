-------------------------- MODULE DeployPlanProofs ---------------------------
(***************************************************************************)
(* Proofs about DeployPlan, for every set of submitted plans, every number *)
(* of attempts and every way of interrupting them.                         *)
(*                                                                         *)
(* The two walks of the dependency graph share one invariant, WalkInv.     *)
(* From it follow that a plan is admitted exactly when it has no cycle     *)
(* (ValidInv) and that an order has each step once and after its           *)
(* dependencies (QueueInv).  The rest of an attempt needs to remember how  *)
(* the outcomes so far relate to the rows and to the two flags (DoneInv).  *)
(***************************************************************************)
EXTENDS DeployPlan, SequenceTheorems, FiniteSetTheorems, TLAPS

Nodes == [key : Keys, deps : Seq(Keys), cond : Conditions, cont : BOOLEAN]
Sound == UniqueKeys(plan) /\ ReferencesValid(plan)
Searching == pc \in {"submitted", "check", "order"}
DoneKeys == {k \in KeysOf(plan) : mark[k] = "done"}

DagTypeInv ==
    /\ mark \in [KeysOf(plan) -> {"unvisited", "visiting", "done"}]
    /\ path \in Seq(KeysOf(plan))
    /\ rest \in [KeysOf(plan) -> Seq(Keys)]

RowTypeInv ==
    /\ step \in [KeysOf(plan) -> [status : StepStatuses, changed : BOOLEAN]]
    /\ todo \in Seq(Range(plan))
    /\ DOMAIN done \subseteq KeysOf(plan)
    /\ \A k \in DOMAIN done : done[k] \in [status : StepStatuses, changed : BOOLEAN]
    /\ failed \in BOOLEAN /\ canceled \in BOOLEAN
    /\ suspended \in BOOLEAN /\ killed \in BOOLEAN
    /\ result \in {"none", "success", "failed", "canceled", "crashed"}
    /\ runs \in 0..MaxRuns

TypeInv ==
    /\ plan \in Plans
    /\ pc \in {"submitted", "check", "refused", "idle", "order", "walk", "script", "settle"}
    /\ DagTypeInv /\ RowTypeInv

(* What is known of the plan in each phase.                                 *)
ValidInv ==
    /\ pc \notin {"submitted", "refused"} => Sound
    /\ pc \notin {"submitted", "check", "refused"} => Acyclic(plan)
    /\ pc = "refused" => ~(Sound /\ Acyclic(plan))

(* The calls that have not returned form a chain of dependencies without a  *)
(* repetition, and they are the keys that are being visited.                *)
PathInv ==
    /\ \A i, j \in DOMAIN path : path[i] = path[j] => i = j
    /\ \A k \in KeysOf(plan) : mark[k] = "visiting" <=> k \in Range(path)
    /\ \A i \in DOMAIN path : i + 1 \in DOMAIN path => path[i + 1] \in Range(DepsOf(path[i]))

(* What a call has looked at is done or is the call in progress; what is    *)
(* done has only dependencies that are done, and no cycle.                  *)
LookedAtInv ==
    /\ \A k \in KeysOf(plan) : Range(rest[k]) \subseteq Range(DepsOf(k))
    /\ \A k \in KeysOf(plan) : mark[k] = "unvisited" => rest[k] = DepsOf(k)
    /\ \A i \in DOMAIN path : \A d \in Range(DepsOf(path[i])) :
          \/ d \in Range(rest[path[i]])
          \/ d \in DoneKeys
          \/ i + 1 \in DOMAIN path /\ d = path[i + 1]
DoneInv ==
    /\ \A k \in DoneKeys : Range(DepsOf(k)) \subseteq DoneKeys
    /\ \A ks \in (SUBSET DoneKeys) \ {{}} : \E k \in ks : Range(DepsOf(k)) \cap ks = {}

GraphInv == PathInv /\ LookedAtInv /\ DoneInv
WalkInv == Searching => GraphInv

(* The steps that are left are distinct and each comes after those of its   *)
(* dependencies that have no outcome.                                       *)
QueueSound ==
    /\ UniqueKeys(todo)
    /\ \A i \in DOMAIN todo : \A d \in Range(todo[i].deps) :
          d \in DOMAIN done \/ \E j \in 1..(i - 1) : todo[j].key = d
QueueInv ==
    /\ pc \in {"order", "walk", "script"} => QueueSound
    /\ pc = "order" => DOMAIN done = {} /\ DoneKeys = KeysOf(todo)
    /\ pc \in {"walk", "script"} => DOMAIN done = KeysOf(plan) \ KeysOf(todo)
    /\ pc = "script" => todo # <<>>

(* The outcomes of the attempt against the rows and the flags.              *)
OutcomesKept ==
    \A k \in DOMAIN done :
        /\ done[k].status \in {"success", "skipped", "failed", "canceled"}
        /\ done[k].status = "success" => Checkpointed(k)
        /\ done[k].status = "failed" => failed
        /\ done[k].status = "canceled" => canceled
ScriptDue ==
    step[Head(todo).key].status = "running" /\ ~EvaluateCondition(Head(todo))
FailuresContinue ==
    \A s \in Range(plan) : s.key \in DOMAIN done /\ done[s.key].status = "failed" => s.cont

OutcomeInv ==
    /\ pc \in {"walk", "script", "settle"} => OutcomesKept
    /\ pc = "settle" /\ ~failed /\ ~canceled => DOMAIN done = KeysOf(plan)
    /\ pc = "script" => ScriptDue
    /\ pc \in {"walk", "script"} => FailuresContinue
    /\ pc \in {"submitted", "check"} => result = "none"
    /\ SuccessIsWhole

IInv == TypeInv /\ ValidInv /\ WalkInv /\ QueueInv /\ OutcomeInv
-----------------------------------------------------------------------------
(* A record of the plan under each of its keys, and no other.               *)
LEMMA ByKeyIn ==
    ASSUME NEW ns, NEW k \in KeysOf(ns)
    PROVE  /\ ByKey(ns, k) \in Range(ns)
           /\ ByKey(ns, k).key = k
<1>1. \E n \in {ns[i] : i \in DOMAIN ns} : n.key = k
  BY DEF KeysOf
<1>2. ByKey(ns, k) \in {ns[i] : i \in DOMAIN ns} /\ ByKey(ns, k).key = k
  BY <1>1 DEF ByKey
<1> QED
  BY <1>2 DEF Range

LEMMA KeyIn ==
    ASSUME NEW ns, NEW s \in Range(ns)
    PROVE  s.key \in KeysOf(ns)
BY DEF Range, KeysOf

(* With unique keys a key stands for one record.                            *)
LEMMA KeyDecides ==
    ASSUME NEW ns, UniqueKeys(ns), NEW s \in Range(ns), NEW t \in Range(ns), s.key = t.key
    PROVE  s = t
BY DEF UniqueKeys, Range

(* What PlanAssumption says of the plan that was submitted.                 *)
LEMMA NodesOfPlan ==
    ASSUME plan \in Plans
    PROVE  /\ plan \in Seq(Nodes)
           /\ Range(plan) \subseteq Nodes
           /\ KeysOf(plan) \subseteq Keys
           /\ \A k \in KeysOf(plan) : DepsOf(k) \in Seq(Keys)
<1>1. plan \in Seq(Nodes)
  BY PlanAssumption DEF PlanAssumption, Nodes
<1>2. Range(plan) \subseteq Nodes
  BY <1>1 DEF Range
<1>3. KeysOf(plan) \subseteq Keys
  BY <1>2 DEF KeysOf, Range, Nodes
<1>4. ASSUME NEW k \in KeysOf(plan) PROVE DepsOf(k) \in Seq(Keys)
  BY <1>2, ByKeyIn DEF DepsOf, Nodes
<1> QED
  BY <1>1, <1>2, <1>3, <1>4
(* Sequences: the last call, and what an append, a tail and a front keep.   *)
LEMMA LastFront ==
    ASSUME NEW S, NEW s \in Seq(S), s # <<>>
    PROVE  /\ Len(s) \in Nat \ {0} /\ Last(s) = s[Len(s)] /\ Last(s) \in S
           /\ Front(s) \in Seq(S) /\ DOMAIN Front(s) = 1..(Len(s) - 1)
           /\ \A i \in 1..(Len(s) - 1) : Front(s)[i] = s[i]
<1>1. Len(s) \in Nat \ {0} /\ DOMAIN s = 1..Len(s) /\ \A i \in 1..Len(s) : s[i] \in S
  BY EmptySeq, LenProperties, ElementOfSeq
<1>2. Last(s) = s[Len(s)] /\ Last(s) \in S
  BY <1>1 DEF Last
<1>3. Front(s) = SubSeq(s, 1, Len(s) - 1)
  BY DEF Front
<1>4. /\ Front(s) \in Seq(S)
      /\ Len(Front(s)) = Len(s) - 1
      /\ \A i \in 1..(Len(s) - 1) : Front(s)[i] = s[i]
  <2>1. 1 \in Int /\ Len(s) - 1 \in Int /\ \A i \in 1..(Len(s) - 1) : s[i] \in S
    BY <1>1
  <2>2. /\ SubSeq(s, 1, Len(s) - 1) \in Seq(S)
        /\ Len(SubSeq(s, 1, Len(s) - 1)) = IF 1 <= Len(s) - 1 THEN Len(s) - 1 - 1 + 1 ELSE 0
        /\ \A i \in 1..(Len(s) - 1 - 1 + 1) : SubSeq(s, 1, Len(s) - 1)[i] = s[1 + i - 1]
    BY <2>1, SubSeqProperties
  <2> QED
    BY <1>1, <1>3, <2>2
<1>5. DOMAIN Front(s) = 1..(Len(s) - 1)
  BY <1>4, LenProperties
<1> QED
  BY <1>1, <1>2, <1>4, <1>5

LEMMA RangeHeadTail ==
    ASSUME NEW S, NEW s \in Seq(S), s # <<>>
    PROVE  /\ Head(s) \in Range(s) /\ Head(s) \in S /\ Head(s) = s[1]
           /\ Tail(s) \in Seq(S)
           /\ DOMAIN s = 1..Len(s) /\ Len(s) \in Nat \ {0}
           /\ DOMAIN Tail(s) = 1..(Len(s) - 1)
           /\ \A i \in 1..(Len(s) - 1) : Tail(s)[i] = s[i + 1]
           /\ Range(s) = Range(Tail(s)) \cup {Head(s)}
<1>1. Len(s) \in Nat \ {0} /\ DOMAIN s = 1..Len(s)
  BY EmptySeq, LenProperties
<1>2. Head(s) = s[1] /\ Head(s) \in S /\ Head(s) \in Range(s)
  BY <1>1, ElementOfSeq DEF Range
<1>3. /\ Tail(s) \in Seq(S)
      /\ Len(Tail(s)) = Len(s) - 1
      /\ \A i \in 1..Len(Tail(s)) : Tail(s)[i] = s[i + 1]
  BY HeadTailProperties
<1>4. DOMAIN Tail(s) = 1..(Len(s) - 1)
  BY <1>3, LenProperties
<1>5. ASSUME NEW x \in Range(s) PROVE x = Head(s) \/ x \in Range(Tail(s))
  <2>1. PICK i \in 1..Len(s) : x = s[i]
    BY <1>1 DEF Range
  <2>2. CASE i = 1
    BY <2>1, <2>2, <1>2
  <2>3. CASE i # 1
    <3>1. i - 1 \in 1..(Len(s) - 1) /\ (i - 1) + 1 = i
      BY <1>1, <2>3
    <3> QED
      BY <2>1, <3>1, <1>3, <1>4 DEF Range
  <2> QED
    BY <2>2, <2>3
<1>6. ASSUME NEW x \in Range(Tail(s)) PROVE x \in Range(s)
  <2>1. PICK i \in 1..(Len(s) - 1) : x = Tail(s)[i]
    BY <1>4 DEF Range
  <2>2. x = s[i + 1] /\ i + 1 \in 1..Len(s)
    BY <2>1, <1>1, <1>3
  <2> QED
    BY <2>2, <1>1 DEF Range
<1> QED
  BY <1>1, <1>2, <1>3, <1>4, <1>5, <1>6

LEMMA RangeAppend ==
    ASSUME NEW S, NEW s \in Seq(S), NEW x \in S
    PROVE  /\ Append(s, x) \in Seq(S) /\ Len(s) \in Nat
           /\ DOMAIN s = 1..Len(s) /\ DOMAIN Append(s, x) = 1..(Len(s) + 1)
           /\ \A i \in 1..Len(s) : Append(s, x)[i] = s[i]
           /\ Append(s, x)[Len(s) + 1] = x
           /\ Range(Append(s, x)) = Range(s) \cup {x}
<1>1. /\ Append(s, x) \in Seq(S) /\ Len(Append(s, x)) = Len(s) + 1
      /\ \A i \in 1..Len(s) : Append(s, x)[i] = s[i]
      /\ Append(s, x)[Len(s) + 1] = x
  BY AppendProperties
<1>2. Len(s) \in Nat /\ DOMAIN s = 1..Len(s) /\ DOMAIN Append(s, x) = 1..(Len(s) + 1)
  BY <1>1, LenProperties
<1>3. ASSUME NEW y PROVE y \in Range(Append(s, x)) <=> y \in Range(s) \cup {x}
  BY <1>1, <1>2 DEF Range
<1> QED
  BY <1>1, <1>2, <1>3

LEMMA KeysOfRange ==
    ASSUME NEW ns PROVE KeysOf(ns) = {n.key : n \in Range(ns)}
BY DEF KeysOf, Range
-----------------------------------------------------------------------------
LEMMA DepsInPlan ==
    ASSUME TypeInv, Sound, NEW k \in KeysOf(plan)
    PROVE  Range(DepsOf(k)) \subseteq KeysOf(plan)
BY ByKeyIn DEF Sound, ReferencesValid, DepsOf, Range

LEMMA CallFacts ==
    ASSUME TypeInv, path # <<>>
    PROVE  /\ Caller \in KeysOf(plan) /\ Caller = path[Len(path)]
           /\ Len(path) \in Nat \ {0} /\ DOMAIN path = 1..Len(path)
           /\ \A i \in DOMAIN path : path[i] \in KeysOf(plan)
<1>1. path \in Seq(KeysOf(plan))
  BY DEF TypeInv, DagTypeInv
<1> QED
  BY <1>1, LastFront, LenProperties, ElementOfSeq DEF Caller

(* The loop of visit looks at a dependency of its key, which is a step of   *)
(* the plan.                                                                *)
LEMMA DependencyFacts ==
    ASSUME TypeInv, Sound, LookedAtInv, NextDependency
    PROVE  /\ Dependency \in Range(DepsOf(Caller)) /\ Dependency \in KeysOf(plan)
           /\ rest' \in [KeysOf(plan) -> Seq(Keys)]
           /\ Range(rest[Caller]) = Range(rest'[Caller]) \cup {Dependency}
           /\ \A k \in KeysOf(plan) : k # Caller => rest'[k] = rest[k]
           /\ \A k \in KeysOf(plan) : Range(rest'[k]) \subseteq Range(DepsOf(k))
<1>1. Caller \in KeysOf(plan) /\ rest[Caller] # <<>> /\ rest' = [rest EXCEPT ![Caller] = Tail(@)]
  BY CallFacts DEF NextDependency
<1>2. rest \in [KeysOf(plan) -> Seq(Keys)] /\ rest[Caller] \in Seq(Keys)
  BY <1>1 DEF TypeInv, DagTypeInv
<1>3. /\ Dependency \in Range(rest[Caller])
      /\ Tail(rest[Caller]) \in Seq(Keys)
      /\ Range(rest[Caller]) = Range(Tail(rest[Caller])) \cup {Dependency}
  BY <1>1, <1>2, RangeHeadTail DEF Dependency
<1>4. Range(rest[Caller]) \subseteq Range(DepsOf(Caller))
  BY <1>1 DEF LookedAtInv
<1>5. Dependency \in KeysOf(plan)
  BY <1>1, <1>3, <1>4, DepsInPlan
<1>6. /\ rest' \in [KeysOf(plan) -> Seq(Keys)]
      /\ rest'[Caller] = Tail(rest[Caller])
      /\ \A k \in KeysOf(plan) : k # Caller => rest'[k] = rest[k]
  BY <1>1, <1>2, <1>3
<1>7. ASSUME NEW k \in KeysOf(plan) PROVE Range(rest'[k]) \subseteq Range(DepsOf(k))
  <2>1. CASE k = Caller
    BY <2>1, <1>3, <1>4, <1>6
  <2>2. CASE k # Caller
    BY <2>2, <1>6 DEF LookedAtInv
  <2> QED
    BY <2>1, <2>2
<1> QED
  BY <1>3, <1>4, <1>5, <1>6, <1>7

(* A call of visit lengthens the chain.                                     *)
LEMMA EnterPath ==
    ASSUME TypeInv, PathInv, NEW k \in KeysOf(plan), Enter(k), plan' = plan,
           path = <<>> \/ k \in Range(DepsOf(Caller))
    PROVE  /\ path' \in Seq(KeysOf(plan)) /\ mark' \in [KeysOf(plan) -> {"unvisited", "visiting", "done"}]
           /\ Len(path) \in Nat /\ DOMAIN path = 1..Len(path) /\ DOMAIN path' = 1..(Len(path) + 1)
           /\ \A i \in 1..Len(path) : path'[i] = path[i]
           /\ path'[Len(path) + 1] = k
           /\ DoneKeys' = DoneKeys /\ k \notin DoneKeys
           /\ \A x \in KeysOf(plan) : mark'[x] = "unvisited" => mark[x] = "unvisited" /\ x # k
           /\ PathInv'
<1>1. path \in Seq(KeysOf(plan)) /\ mark \in [KeysOf(plan) -> {"unvisited", "visiting", "done"}]
  BY DEF TypeInv, DagTypeInv
<1>2. mark[k] = "unvisited" /\ mark' = [mark EXCEPT ![k] = "visiting"] /\ path' = Append(path, k)
  BY DEF Enter
<1>3. /\ path' \in Seq(KeysOf(plan))
      /\ Len(path) \in Nat /\ DOMAIN path = 1..Len(path) /\ DOMAIN path' = 1..(Len(path) + 1)
      /\ \A i \in 1..Len(path) : path'[i] = path[i]
      /\ path'[Len(path) + 1] = k
      /\ Range(path') = Range(path) \cup {k}
  BY <1>1, <1>2, RangeAppend
<1>4. /\ mark' \in [KeysOf(plan) -> {"unvisited", "visiting", "done"}]
      /\ mark'[k] = "visiting"
      /\ \A x \in KeysOf(plan) : x # k => mark'[x] = mark[x]
  BY <1>1, <1>2
<1>5. DoneKeys' = DoneKeys /\ k \notin DoneKeys
  BY <1>2, <1>4 DEF DoneKeys
<1>6. k \notin Range(path)
  BY <1>2 DEF PathInv
<1>7. ASSUME NEW i \in DOMAIN path', NEW j \in DOMAIN path', path'[i] = path'[j]
      PROVE  i = j
  <2>1. \A n \in 1..Len(path) : path[n] # k
    BY <1>3, <1>6 DEF Range
  <2>2. CASE i \in 1..Len(path) /\ j \in 1..Len(path)
    BY <2>2, <1>3, <1>7 DEF PathInv
  <2>3. CASE i = Len(path) + 1 \/ j = Len(path) + 1
    BY <2>1, <2>3, <1>3, <1>7
  <2> QED
    BY <2>2, <2>3, <1>3
<1>8. \A x \in KeysOf(plan) : mark'[x] = "visiting" <=> x \in Range(path')
  BY <1>3, <1>4 DEF PathInv
<1>9. ASSUME NEW i \in DOMAIN path', i + 1 \in DOMAIN path'
      PROVE  path'[i + 1] \in Range(DepsOf(path'[i]))
  <2>1. CASE i + 1 \in 1..Len(path)
    <3>1. i \in 1..Len(path)
      BY <1>3, <2>1
    <3>2. /\ i \in DOMAIN path /\ i + 1 \in DOMAIN path
          /\ path'[i] = path[i] /\ path'[i + 1] = path[i + 1]
      BY <2>1, <3>1, <1>3
    <3>3. path[i + 1] \in Range(DepsOf(path[i]))
      BY <3>2 DEF PathInv
    <3> QED
      BY <3>2, <3>3
  <2>2. CASE i = Len(path)
    <3>1. path # <<>> /\ path'[i] = Caller /\ path'[i + 1] = k
      BY <2>2, <1>3, CallFacts
    <3> QED
      BY <3>1
  <2> QED
    BY <2>1, <2>2, <1>3, <1>9
<1>10. PathInv'
  BY <1>7, <1>8, <1>9 DEF PathInv, DepsOf
<1> QED
  BY <1>2, <1>3, <1>4, <1>5, <1>10
(* The loop over the keys calls visit: the chain is the new key alone.      *)
LEMMA VisitRootKeeps ==
    ASSUME TypeInv, Sound, GraphInv, NEW k \in KeysOf(plan), VisitRoot(k), plan' = plan
    PROVE  DagTypeInv' /\ GraphInv' /\ DoneKeys' = DoneKeys
<1>1. path = <<>> /\ Enter(k) /\ rest' = rest
  BY DEF VisitRoot
<1>2. /\ path' \in Seq(KeysOf(plan)) /\ mark' \in [KeysOf(plan) -> {"unvisited", "visiting", "done"}]
      /\ Len(path) \in Nat /\ DOMAIN path' = 1..(Len(path) + 1)
      /\ path'[Len(path) + 1] = k
      /\ DoneKeys' = DoneKeys
      /\ \A x \in KeysOf(plan) : mark'[x] = "unvisited" => mark[x] = "unvisited" /\ x # k
      /\ PathInv'
  BY <1>1, EnterPath DEF GraphInv
<1>3. DagTypeInv'
  BY <1>1, <1>2 DEF TypeInv, DagTypeInv
<1>4. Len(path) = 0
  BY <1>1, EmptySeq
<1>5. rest[k] = DepsOf(k)
  BY <1>1 DEF GraphInv, LookedAtInv, Enter
<1>6. \A i \in DOMAIN path' : i = 1 /\ path'[i] = k
  BY <1>2, <1>4
<1>7. LookedAtInv'
  <2>1. \A x \in KeysOf(plan) : Range(rest'[x]) \subseteq Range(DepsOf(x))
    BY <1>1 DEF GraphInv, LookedAtInv
  <2>2. \A x \in KeysOf(plan) : mark'[x] = "unvisited" => rest'[x] = DepsOf(x)
    BY <1>1, <1>2 DEF GraphInv, LookedAtInv
  <2>3. \A i \in DOMAIN path' : \A d \in Range(DepsOf(path'[i])) : d \in Range(rest'[path'[i]])
    BY <1>1, <1>5, <1>6
  <2> QED
    BY <2>1, <2>2, <2>3 DEF LookedAtInv, DepsOf
<1>8. DoneInv'
  BY <1>2 DEF GraphInv, DoneInv, DepsOf
<1> QED
  BY <1>2, <1>3, <1>7, <1>8 DEF GraphInv

(* visit calls itself: the dependency is the next key of the chain.         *)
LEMMA VisitDependencyKeeps ==
    ASSUME TypeInv, Sound, GraphInv, VisitDependency, plan' = plan
    PROVE  DagTypeInv' /\ GraphInv' /\ DoneKeys' = DoneKeys
<1> DEFINE k == Dependency
           n == Len(path)
<1>1. NextDependency /\ Enter(k) /\ path # <<>>
  BY DEF VisitDependency, NextDependency
<1>2. /\ k \in Range(DepsOf(Caller)) /\ k \in KeysOf(plan)
      /\ rest' \in [KeysOf(plan) -> Seq(Keys)]
      /\ Range(rest[Caller]) = Range(rest'[Caller]) \cup {k}
      /\ \A x \in KeysOf(plan) : x # Caller => rest'[x] = rest[x]
      /\ \A x \in KeysOf(plan) : Range(rest'[x]) \subseteq Range(DepsOf(x))
  BY <1>1, DependencyFacts DEF GraphInv
<1>3. /\ path' \in Seq(KeysOf(plan)) /\ mark' \in [KeysOf(plan) -> {"unvisited", "visiting", "done"}]
      /\ n \in Nat /\ DOMAIN path = 1..n /\ DOMAIN path' = 1..(n + 1)
      /\ \A i \in 1..n : path'[i] = path[i]
      /\ path'[n + 1] = k
      /\ DoneKeys' = DoneKeys
      /\ \A x \in KeysOf(plan) : mark'[x] = "unvisited" => mark[x] = "unvisited" /\ x # k
      /\ PathInv'
  BY <1>1, <1>2, EnterPath DEF GraphInv
<1>4. DagTypeInv'
  BY <1>2, <1>3 DEF DagTypeInv
<1>5. /\ Caller \in KeysOf(plan) /\ Caller = path[n] /\ n \in Nat \ {0}
      /\ \A i \in DOMAIN path : path[i] \in KeysOf(plan)
  BY <1>1, CallFacts
<1>6. mark[Caller] = "visiting" /\ mark[k] = "unvisited"
  BY <1>1, <1>3, <1>5 DEF GraphInv, PathInv, Range, Enter
<1>7. LookedAtInv'
  <2>1. ASSUME NEW x \in KeysOf(plan), mark'[x] = "unvisited" PROVE rest'[x] = DepsOf(x)
    <3>1. x # Caller
      BY <2>1, <1>3, <1>6
    <3> QED
      BY <3>1, <2>1, <1>2, <1>3 DEF GraphInv, LookedAtInv
  <2>2. ASSUME NEW i \in DOMAIN path', NEW d \in Range(DepsOf(path'[i]))
        PROVE  \/ d \in Range(rest'[path'[i]])
               \/ d \in DoneKeys
               \/ i + 1 \in DOMAIN path' /\ d = path'[i + 1]
    <3>1. CASE i = n + 1
      <4>1. path'[i] = k /\ rest'[k] = DepsOf(k)
        BY <3>1, <1>2, <1>3, <1>6 DEF GraphInv, LookedAtInv
      <4> QED
        BY <2>2, <4>1
    <3>2. CASE i \in 1..n
      <4>1. path'[i] = path[i] /\ i \in DOMAIN path /\ path[i] \in KeysOf(plan)
        BY <3>2, <1>3, <1>5
      <4>2. \/ d \in Range(rest[path[i]])
            \/ d \in DoneKeys
            \/ i + 1 \in DOMAIN path /\ d = path[i + 1]
        BY <2>2, <4>1 DEF GraphInv, LookedAtInv
      <4>3. CASE d \in Range(rest[path[i]]) /\ i = n
        BY <4>1, <4>3, <1>2, <1>3, <1>5
      <4>4. CASE d \in Range(rest[path[i]]) /\ i # n
        <5>1. path[i] # Caller
          BY <4>1, <4>4, <1>3, <1>5 DEF GraphInv, PathInv
        <5> QED
          BY <4>1, <4>4, <5>1, <1>2
      <4>5. CASE i + 1 \in DOMAIN path /\ d = path[i + 1]
        BY <4>5, <1>3
      <4> QED
        BY <4>2, <4>3, <4>4, <4>5
    <3> QED
      BY <3>1, <3>2, <1>3
  <2> QED
    BY <2>1, <2>2, <1>2, <1>3 DEF LookedAtInv, DepsOf
<1>8. DoneInv'
  BY <1>3 DEF GraphInv, DoneInv, DepsOf
<1> QED
  BY <1>3, <1>4, <1>7, <1>8 DEF GraphInv

(* A dependency that is done is passed over.                                *)
LEMMA PassDoneKeeps ==
    ASSUME TypeInv, Sound, GraphInv, PassDependency({"done"}), plan' = plan
    PROVE  DagTypeInv' /\ GraphInv' /\ DoneKeys' = DoneKeys
<1>1. /\ NextDependency /\ path # <<>> /\ mark[Dependency] = "done"
      /\ mark' = mark /\ path' = path
  BY DEF PassDependency, NextDependency
<1>2. /\ Dependency \in KeysOf(plan)
      /\ rest' \in [KeysOf(plan) -> Seq(Keys)]
      /\ Range(rest[Caller]) = Range(rest'[Caller]) \cup {Dependency}
      /\ \A x \in KeysOf(plan) : x # Caller => rest'[x] = rest[x]
      /\ \A x \in KeysOf(plan) : Range(rest'[x]) \subseteq Range(DepsOf(x))
  BY <1>1, DependencyFacts DEF GraphInv
<1>3. DoneKeys' = DoneKeys /\ Dependency \in DoneKeys
  BY <1>1, <1>2 DEF DoneKeys
<1>4. DagTypeInv'
  BY <1>1, <1>2 DEF TypeInv, DagTypeInv
<1>5. /\ Caller \in KeysOf(plan) /\ Caller = path[Len(path)] /\ DOMAIN path = 1..Len(path)
      /\ Len(path) \in Nat \ {0} /\ \A i \in DOMAIN path : path[i] \in KeysOf(plan)
  BY <1>1, CallFacts
<1>6. mark[Caller] = "visiting"
  BY <1>5 DEF GraphInv, PathInv, Range
<1>7. PathInv'
  BY <1>1 DEF GraphInv, PathInv, DepsOf
<1>8. LookedAtInv'
  <2>1. \A x \in KeysOf(plan) : mark'[x] = "unvisited" => rest'[x] = DepsOf(x)
    BY <1>1, <1>2, <1>6 DEF GraphInv, LookedAtInv
  <2>2. ASSUME NEW i \in DOMAIN path, NEW d \in Range(DepsOf(path[i]))
        PROVE  \/ d \in Range(rest'[path[i]])
               \/ d \in DoneKeys
               \/ i + 1 \in DOMAIN path /\ d = path[i + 1]
    <3>1. \/ d \in Range(rest[path[i]])
          \/ d \in DoneKeys
          \/ i + 1 \in DOMAIN path /\ d = path[i + 1]
      BY <2>2 DEF GraphInv, LookedAtInv
    <3> QED
      BY <3>1, <1>2, <1>3, <1>5
  <2> QED
    BY <2>1, <2>2, <1>1, <1>2, <1>3 DEF LookedAtInv, DepsOf
<1>9. DoneInv'
  BY <1>3 DEF GraphInv, DoneInv, DepsOf
<1> QED
  BY <1>3, <1>4, <1>7, <1>8, <1>9 DEF GraphInv
(* A call that returns adds a key to those that are done: its dependencies  *)
(* are done and no key that is done waits on it.                            *)
LEMMA LeaveKeeps ==
    ASSUME TypeInv, Sound, GraphInv, Leave, plan' = plan
    PROVE  /\ DagTypeInv' /\ GraphInv'
           /\ Caller \in KeysOf(plan) \ DoneKeys
           /\ DoneKeys' = DoneKeys \cup {Caller}
           /\ Range(DepsOf(Caller)) \subseteq DoneKeys
<1> DEFINE c == Caller
           n == Len(path)
<1>1. /\ path # <<>> /\ rest[c] = <<>>
      /\ mark' = [mark EXCEPT ![c] = "done"] /\ path' = Front(path) /\ rest' = rest
  BY DEF Leave
<1>2. /\ c \in KeysOf(plan) /\ c = path[n] /\ n \in Nat \ {0} /\ DOMAIN path = 1..n
      /\ \A i \in DOMAIN path : path[i] \in KeysOf(plan)
  BY <1>1, CallFacts
<1>3. /\ path' \in Seq(KeysOf(plan)) /\ DOMAIN path' = 1..(n - 1)
      /\ \A i \in 1..(n - 1) : path'[i] = path[i]
  BY <1>1, LastFront DEF TypeInv, DagTypeInv
<1>4. /\ mark' \in [KeysOf(plan) -> {"unvisited", "visiting", "done"}]
      /\ mark'[c] = "done"
      /\ \A x \in KeysOf(plan) : x # c => mark'[x] = mark[x]
  BY <1>1, <1>2 DEF TypeInv, DagTypeInv
<1>5. DagTypeInv'
  BY <1>1, <1>3, <1>4 DEF TypeInv, DagTypeInv
<1>6. mark[c] = "visiting"
  BY <1>2 DEF GraphInv, PathInv, Range
<1>7. c \in KeysOf(plan) \ DoneKeys /\ DoneKeys' = DoneKeys \cup {c}
  BY <1>2, <1>4, <1>6 DEF DoneKeys
<1>8. Range(DepsOf(c)) \subseteq DoneKeys
  <2>1. n \in DOMAIN path /\ ~(n + 1 \in DOMAIN path)
    BY <1>2
  <2>2. Range(rest[c]) = {}
    BY <1>1 DEF Range
  <2> QED
    BY <2>1, <2>2, <1>2 DEF GraphInv, LookedAtInv
<1>9. PathInv'
  <2>1. \A i, j \in DOMAIN path' : path'[i] = path'[j] => i = j
    BY <1>2, <1>3 DEF GraphInv, PathInv
  <2>2. ASSUME NEW x \in KeysOf(plan) PROVE mark'[x] = "visiting" <=> x \in Range(path')
    <3>1. CASE x = c
      <4>1. \A i \in 1..(n - 1) : path'[i] # c
        BY <1>2, <1>3 DEF GraphInv, PathInv
      <4> QED
        BY <3>1, <4>1, <1>3, <1>4 DEF Range
    <3>2. CASE x # c
      <4>1. mark'[x] = "visiting" <=> x \in Range(path)
        BY <3>2, <1>4 DEF GraphInv, PathInv
      <4>2. ASSUME NEW i \in 1..n, x = path[i] PROVE x \in Range(path')
        <5>1. i # n
          BY <4>2, <3>2, <1>2
        <5>2. n \in Nat \ {0}
          BY <1>2
        <5>3. i \in 1..(n - 1)
          <6> HIDE DEF n
          <6> QED
            BY <5>1, <5>2
        <5> QED
          BY <4>2, <5>3, <1>3 DEF Range
      <4>3. ASSUME NEW i \in 1..(n - 1), x = path'[i] PROVE x \in Range(path)
        BY <4>3, <1>2, <1>3 DEF Range
      <4>4. x \in Range(path) <=> x \in Range(path')
        BY <4>2, <4>3, <1>2, <1>3 DEF Range
      <4> QED
        BY <4>1, <4>4
    <3> QED
      BY <3>1, <3>2
  <2>3. ASSUME NEW i \in DOMAIN path', i + 1 \in DOMAIN path'
        PROVE  path'[i + 1] \in Range(DepsOf(path'[i]))
    <3>1. /\ i \in DOMAIN path /\ i + 1 \in DOMAIN path
          /\ path'[i] = path[i] /\ path'[i + 1] = path[i + 1]
      BY <2>3, <1>2, <1>3
    <3>2. path[i + 1] \in Range(DepsOf(path[i]))
      BY <3>1 DEF GraphInv, PathInv
    <3> QED
      BY <3>1, <3>2
  <2> QED
    BY <2>1, <2>2, <2>3 DEF PathInv, DepsOf
<1>10. LookedAtInv'
  <2>1. \A x \in KeysOf(plan) : Range(rest'[x]) \subseteq Range(DepsOf(x))
    BY <1>1 DEF GraphInv, LookedAtInv
  <2>2. \A x \in KeysOf(plan) : mark'[x] = "unvisited" => rest'[x] = DepsOf(x)
    BY <1>1, <1>4 DEF GraphInv, LookedAtInv
  <2>3. ASSUME NEW i \in DOMAIN path', NEW d \in Range(DepsOf(path'[i]))
        PROVE  \/ d \in Range(rest'[path'[i]])
               \/ d \in DoneKeys'
               \/ i + 1 \in DOMAIN path' /\ d = path'[i + 1]
    <3>1. i \in 1..(n - 1) /\ i \in DOMAIN path /\ path'[i] = path[i]
      BY <1>2, <1>3
    <3>2. \/ d \in Range(rest[path[i]])
          \/ d \in DoneKeys
          \/ i + 1 \in DOMAIN path /\ d = path[i + 1]
      BY <2>3, <3>1 DEF GraphInv, LookedAtInv
    <3>3. CASE d \in Range(rest[path[i]]) \/ d \in DoneKeys
      BY <3>1, <3>3, <1>1, <1>7
    <3>4. CASE d = path[i + 1] /\ i + 1 = n
      BY <3>4, <1>2, <1>7
    <3>5. CASE d = path[i + 1] /\ i + 1 # n
      <4>1. i + 1 \in 1..(n - 1)
        BY <3>1, <3>5, <1>2
      <4> QED
        BY <3>5, <4>1, <1>3
    <3> QED
      BY <3>2, <3>3, <3>4, <3>5
  <2> QED
    BY <2>1, <2>2, <2>3 DEF LookedAtInv, DepsOf
<1>11. DoneInv'
  <2>1. ASSUME NEW k \in DoneKeys' PROVE Range(DepsOf(k)) \subseteq DoneKeys
    BY <2>1, <1>7, <1>8 DEF GraphInv, DoneInv
  <2>2. ASSUME NEW ks \in (SUBSET DoneKeys') \ {{}}
        PROVE  \E k \in ks : Range(DepsOf(k)) \cap ks = {}
    <3>1. CASE ks \ {c} = {}
      <4>1. ks = {c}
        BY <2>2, <3>1
      <4> QED
        BY <4>1, <1>7, <1>8
    <3>2. CASE ks \ {c} # {}
      <4>1. ks \ {c} \in (SUBSET DoneKeys) \ {{}}
        BY <2>2, <3>2, <1>7
      <4>2. PICK k \in ks \ {c} : Range(DepsOf(k)) \cap (ks \ {c}) = {}
        BY <4>1 DEF GraphInv, DoneInv
      <4>3. c \notin Range(DepsOf(k))
        BY <4>1, <4>2, <1>7 DEF GraphInv, DoneInv
      <4> QED
        BY <4>2, <4>3
    <3> QED
      BY <3>1, <3>2
  <2> QED
    BY <2>1, <2>2, <1>7 DEF DoneInv, DepsOf
<1> QED
  BY <1>5, <1>7, <1>8, <1>9, <1>10, <1>11 DEF GraphInv

(* A dependency that is being visited closes a cycle: the calls from its    *)
(* own up to the last one each wait on another of them.                     *)
LEMMA BackEdge ==
    ASSUME TypeInv, Sound, GraphInv, NextDependency, mark[Dependency] = "visiting"
    PROVE  ~Acyclic(plan)
<1> DEFINE n == Len(path)
<1>1. path # <<>>
  BY DEF NextDependency
<1>2. /\ Caller \in KeysOf(plan) /\ Caller = path[n] /\ n \in Nat \ {0} /\ DOMAIN path = 1..n
      /\ \A i \in DOMAIN path : path[i] \in KeysOf(plan)
  BY <1>1, CallFacts
<1>3. Dependency \in Range(DepsOf(Caller)) /\ Dependency \in KeysOf(plan)
  BY DependencyFacts DEF GraphInv
<1>4. Dependency \in Range(path)
  BY <1>3 DEF GraphInv, PathInv
<1>5. PICK j \in 1..n : Dependency = path[j]
  BY <1>2, <1>4 DEF Range
<1> DEFINE ks == {path[i] : i \in j..n}
<1>6. ks \in (SUBSET KeysOf(plan)) \ {{}}
  BY <1>2, <1>5
<1>7. ASSUME NEW k \in ks PROVE Range(ByKey(plan, k).deps) \cap ks # {}
  <2>1. PICK i \in j..n : k = path[i]
    BY <1>7
  <2>2. CASE i = n
    <3>1. path[j] \in ks
      BY <1>2, <1>5
    <3>2. path[j] \in Range(DepsOf(k))
      BY <2>1, <2>2, <1>2, <1>3, <1>5
    <3> QED
      BY <3>1, <3>2 DEF DepsOf
  <2>3. CASE i # n
    <3>1. i + 1 \in j..n /\ i \in DOMAIN path /\ i + 1 \in DOMAIN path
      <4>1. n \in Nat \ {0} /\ DOMAIN path = 1..n
        BY <1>2
      <4> HIDE DEF n, ks
      <4>2. i \in Int /\ j <= i /\ i < n /\ 1 <= j
        BY <2>1, <2>3, <4>1, <1>5
      <4> QED
        BY <4>1, <4>2
    <3>2. path[i + 1] \in Range(DepsOf(k))
      BY <2>1, <3>1 DEF GraphInv, PathInv
    <3>3. path[i + 1] \in ks
      BY <3>1
    <3> QED
      BY <3>2, <3>3 DEF DepsOf
  <2> QED
    BY <2>2, <2>3
<1> QED
  BY <1>6, <1>7 DEF Acyclic

(* A new walk has looked at nothing.                                        *)
LEMMA StartKeeps ==
    ASSUME TypeInv, StartVisits, plan' = plan
    PROVE  DagTypeInv' /\ GraphInv' /\ DoneKeys' = {}
<1>1. mark' = NoMarks /\ path' = <<>> /\ rest' = AllDeps
  BY DEF StartVisits
<1>2. \A k \in KeysOf(plan) : DepsOf(k) \in Seq(Keys)
  BY NodesOfPlan DEF TypeInv
<1>3. path' \in Seq(KeysOf(plan)) /\ DOMAIN path' = {} /\ Range(path') = {}
  BY <1>1, EmptySeq DEF Range
<1>4. DagTypeInv'
  BY <1>1, <1>2, <1>3 DEF DagTypeInv, NoMarks, AllDeps
<1>5. DoneKeys' = {}
  BY <1>1 DEF DoneKeys, NoMarks
<1>6. PathInv'
  BY <1>1, <1>3 DEF PathInv, NoMarks
<1>7. LookedAtInv'
  BY <1>1, <1>3 DEF LookedAtInv, AllDeps, DepsOf
<1>8. DoneInv'
  BY <1>5 DEF DoneInv
<1> QED
  BY <1>4, <1>5, <1>6, <1>7, <1>8 DEF GraphInv

(* A walk that has been everywhere has met no cycle.                        *)
LEMMA AllVisitedAcyclic ==
    ASSUME GraphInv, AllVisited
    PROVE  DoneKeys = KeysOf(plan) /\ Acyclic(plan)
<1>1. DoneKeys = KeysOf(plan)
  BY DEF AllVisited, DoneKeys
<1> QED
  BY <1>1 DEF GraphInv, DoneInv, Acyclic, DepsOf
-----------------------------------------------------------------------------
(* The steps of the two walks keep their invariant.                         *)
LEMMA CheckKeeps ==
    ASSUME IInv, Check
    PROVE  plan' = plan /\ DagTypeInv' /\ GraphInv'
<1>1. plan' = plan /\ pc = "check"
  BY DEF Check, Quiet
<1>2. TypeInv /\ Sound /\ GraphInv
  BY <1>1 DEF IInv, ValidInv, WalkInv, Searching
<1>3. \/ \E k \in KeysOf(plan) : VisitRoot(k)
      \/ VisitDependency \/ PassDependency({"done"}) \/ Leave
  BY DEF Check
<1> QED
  BY <1>1, <1>2, <1>3, VisitRootKeeps, VisitDependencyKeeps, PassDoneKeeps, LeaveKeeps

(* An admitted plan has no cycle, so topoOrder never passes over a key that is*)
(* being visited, although its code would.                                  *)
LEMMA OrderKeeps ==
    ASSUME IInv, Order
    PROVE  plan' = plan /\ DagTypeInv' /\ GraphInv' /\ DoneKeys' = DoneKeys
<1>1. plan' = plan /\ pc = "order"
  BY DEF Order, Quiet
<1>2. TypeInv /\ Sound /\ GraphInv /\ Acyclic(plan)
  BY <1>1 DEF IInv, ValidInv, WalkInv, Searching
<1>3. CASE \E i \in DOMAIN plan : FirstUnvisited(i) /\ VisitRoot(plan[i].key)
  BY <1>1, <1>2, <1>3, VisitRootKeeps DEF KeysOf
<1>4. CASE VisitDependency
  BY <1>1, <1>2, <1>4, VisitDependencyKeeps
<1>5. CASE PassDependency({"visiting", "done"})
  <2>1. mark[Dependency] # "visiting"
    BY <1>2, <1>5, BackEdge DEF PassDependency
  <2>2. PassDependency({"done"})
    BY <1>5, <2>1 DEF PassDependency
  <2> QED
    BY <1>1, <1>2, <2>2, PassDoneKeeps
<1> QED
  BY <1>3, <1>4, <1>5 DEF Order

LEMMA EmitKeeps ==
    ASSUME IInv, Emit
    PROVE  /\ plan' = plan /\ DagTypeInv' /\ GraphInv'
           /\ Caller \in KeysOf(plan) \ DoneKeys
           /\ DoneKeys' = DoneKeys \cup {Caller}
           /\ Range(DepsOf(Caller)) \subseteq DoneKeys
<1>1. plan' = plan /\ pc = "order" /\ Leave
  BY DEF Emit, Quiet
<1>2. TypeInv /\ Sound /\ GraphInv
  BY <1>1 DEF IInv, ValidInv, WalkInv, Searching
<1> QED
  BY <1>1, <1>2, LeaveKeeps

(* Everything an attempt does once its steps are in order.                  *)
AttemptNext ==
    \/ StepSkipped \/ StepResumed \/ StepStarts
    \/ \E changed \in BOOLEAN : StepSucceeds(changed)
    \/ StepFails \/ StepCanceled \/ WalkCanceled \/ WalkEnds \/ Settle
    \/ Kill \/ Suspend \/ Resume \/ Crash

(* An attempt leaves the graph and its walk alone.                          *)
LEMMA AttemptFrame ==
    ASSUME AttemptNext
    PROVE  /\ plan' = plan /\ mark' = mark /\ path' = path /\ rest' = rest
           /\ pc \in {"idle", "walk", "script", "settle"}
           /\ pc' \in {"idle", "walk", "script", "settle"}
<1>1. CASE StepSkipped \/ StepResumed \/ StepStarts
  BY <1>1 DEF StepSkipped, StepResumed, StepStarts, At, dagVars
<1>2. CASE \E changed \in BOOLEAN : StepSucceeds(changed)
  BY <1>2 DEF StepSucceeds, dagVars
<1>3. CASE StepFails \/ StepCanceled
  BY <1>3 DEF StepFails, StepCanceled, dagVars
<1>4. CASE WalkCanceled \/ WalkEnds \/ Settle
  BY <1>4 DEF WalkCanceled, WalkEnds, Settle, dagVars
<1>5. CASE Kill \/ Suspend \/ Resume \/ Crash
  BY <1>5 DEF Kill, Suspend, Resume, Crash, dagVars
<1> QED
  BY <1>1, <1>2, <1>3, <1>4, <1>5 DEF AttemptNext

LEMMA NextCases ==
    ASSUME [PlanNext]_planVars
    PROVE  \/ Submit \/ Check \/ FindCycle \/ Admit
           \/ Begin \/ Order \/ Emit \/ Ordered \/ AttemptNext
           \/ UNCHANGED planVars
BY DEF PlanNext, AttemptNext

LEMMA PlanConstant ==
    ASSUME [PlanNext]_planVars
    PROVE  plan' = plan
<1>1. CASE Submit \/ Check \/ FindCycle \/ Admit
  BY <1>1 DEF Submit, Check, FindCycle, Admit, Quiet
<1>2. CASE Begin \/ Order \/ Emit \/ Ordered
  BY <1>2 DEF Begin, Order, Emit, Ordered, Quiet
<1>3. CASE UNCHANGED planVars
  BY <1>3 DEF planVars
<1> QED
  BY <1>1, <1>2, <1>3, NextCases, AttemptFrame
-----------------------------------------------------------------------------
(* The step at the head of the queue.                                       *)
LEMMA HeadFacts ==
    ASSUME TypeInv, todo # <<>>
    PROVE  /\ Head(todo) \in Range(plan) /\ Head(todo) \in Nodes
           /\ Head(todo).key \in KeysOf(plan)
           /\ Tail(todo) \in Seq(Range(plan))
<1>1. todo \in Seq(Range(plan)) /\ plan \in Plans
  BY DEF TypeInv, RowTypeInv
<1>2. Head(todo) \in Range(plan) /\ Tail(todo) \in Seq(Range(plan))
  BY <1>1, RangeHeadTail
<1> QED
  BY <1>1, <1>2, NodesOfPlan, KeyIn

LEMMA RememberType ==
    ASSUME TypeInv, NEW k \in KeysOf(plan), NEW st \in StepStatuses, NEW c \in BOOLEAN,
           Remember(k, Outcome(st, c)), plan' = plan
    PROVE  /\ DOMAIN done' = DOMAIN done \cup {k}
           /\ done'[k] = Outcome(st, c)
           /\ \A x \in DOMAIN done : x # k => done'[x] = done[x]
           /\ DOMAIN done' \subseteq KeysOf(plan)
           /\ \A x \in DOMAIN done' : done'[x] \in [status : StepStatuses, changed : BOOLEAN]
<1>1. done' = [x \in DOMAIN done \cup {k} |-> IF x = k THEN Outcome(st, c) ELSE done[x]]
  BY DEF Remember
<1>2. Outcome(st, c) \in [status : StepStatuses, changed : BOOLEAN]
  BY DEF Outcome
<1> QED
  BY <1>1, <1>2 DEF TypeInv, RowTypeInv

(* The rows, the queue and the outcomes keep their types.                   *)
LEMMA AttemptTypes ==
    ASSUME IInv, AttemptNext
    PROVE  RowTypeInv'
<1>0. TypeInv /\ plan' = plan /\ (pc = "script" => todo # <<>>)
  BY AttemptFrame DEF IInv, QueueInv
<1>1. /\ step \in [KeysOf(plan) -> [status : StepStatuses, changed : BOOLEAN]]
      /\ RowTypeInv
  BY <1>0 DEF TypeInv, RowTypeInv
<1>2. ASSUME NEW st \in StepStatuses, NEW k \in KeysOf(plan)
      PROVE  [step EXCEPT ![k].status = st] \in
               [KeysOf(plan) -> [status : StepStatuses, changed : BOOLEAN]]
  BY <1>1
<1>3. <<>> \in Seq(Range(plan))
  BY EmptySeq
<1>4. CASE StepSkipped
  <2>1. PICK s \in Range(plan) : /\ At(s) /\ Remember(s.key, Outcome("skipped", FALSE))
                                 /\ todo' = Tail(todo)
    BY <1>4 DEF StepSkipped
  <2>2. todo # <<>> /\ s.key \in KeysOf(plan) /\ Tail(todo) \in Seq(Range(plan))
    BY <2>1, <1>0, HeadFacts DEF At
  <2>3. "skipped" \in StepStatuses /\ FALSE \in BOOLEAN
    BY DEF StepStatuses
  <2>4. /\ DOMAIN done' \subseteq KeysOf(plan)
        /\ \A x \in DOMAIN done' : done'[x] \in [status : StepStatuses, changed : BOOLEAN]
    BY <2>1, <2>2, <2>3, <1>0, RememberType
  <2> QED
    BY <2>1, <2>2, <2>4, <1>0, <1>1, <1>4 DEF StepSkipped, RowTypeInv
<1>5. CASE StepResumed
  <2>1. PICK s \in Range(plan) : /\ At(s) /\ Remember(s.key, Outcome(step[s.key].status, TRUE))
                                 /\ todo' = Tail(todo)
    BY <1>5 DEF StepResumed
  <2>2. todo # <<>> /\ s.key \in KeysOf(plan) /\ Tail(todo) \in Seq(Range(plan))
    BY <2>1, <1>0, HeadFacts DEF At
  <2>3. step[s.key].status \in StepStatuses
    BY <2>2, <1>1
  <2>4. /\ DOMAIN done' \subseteq KeysOf(plan)
        /\ \A x \in DOMAIN done' : done'[x] \in [status : StepStatuses, changed : BOOLEAN]
    BY <2>1, <2>2, <2>3, <1>0, RememberType
  <2> QED
    BY <2>1, <2>2, <2>4, <1>0, <1>1, <1>5 DEF StepResumed, RowTypeInv
<1>6. CASE StepStarts
  <2>1. PICK s \in Range(plan) : At(s) /\ step' = [step EXCEPT ![s.key].status = "running"]
    BY <1>6 DEF StepStarts
  <2>2. s.key \in KeysOf(plan) /\ "running" \in StepStatuses
    BY <2>1, <1>0, HeadFacts DEF At, StepStatuses
  <2>3. step' \in [KeysOf(plan) -> [status : StepStatuses, changed : BOOLEAN]]
    BY <2>1, <2>2, <1>2
  <2> QED
    BY <2>3, <1>0, <1>1, <1>6 DEF StepStarts, RowTypeInv
<1> DEFINE k == Head(todo).key
<1>7. todo # <<>> => k \in KeysOf(plan) /\ Tail(todo) \in Seq(Range(plan))
  BY <1>0, HeadFacts
<1>8. ASSUME NEW changed \in BOOLEAN, StepSucceeds(changed) PROVE RowTypeInv'
  <2>1. /\ pc = "script" /\ step' = [step EXCEPT ![k] = Outcome("success", changed)]
        /\ Remember(k, Outcome("success", changed))
        /\ todo' = Tail(todo)
        /\ UNCHANGED <<failed, canceled, suspended, killed, result, runs>>
    BY <1>8 DEF StepSucceeds
  <2>2. k \in KeysOf(plan) /\ Tail(todo) \in Seq(Range(plan)) /\ "success" \in StepStatuses
    BY <2>1, <1>0, <1>7 DEF StepStatuses
  <2>3. /\ DOMAIN done' \subseteq KeysOf(plan)
        /\ \A x \in DOMAIN done' : done'[x] \in [status : StepStatuses, changed : BOOLEAN]
    BY <2>1, <2>2, <1>0, RememberType
  <2>4. step' \in [KeysOf(plan) -> [status : StepStatuses, changed : BOOLEAN]]
    BY <2>1, <2>2, <1>1 DEF Outcome
  <2> QED
    BY <2>1, <2>2, <2>3, <2>4, <1>0, <1>1 DEF RowTypeInv
<1>9. CASE StepFails
  <2>1. /\ pc = "script" /\ step' = [step EXCEPT ![k].status = "failed"]
        /\ Remember(k, Outcome("failed", FALSE))
        /\ failed' = TRUE /\ (todo' = Tail(todo) \/ todo' = <<>>)
        /\ UNCHANGED <<canceled, suspended, killed, result, runs>>
    BY <1>9 DEF StepFails
  <2>2. k \in KeysOf(plan) /\ Tail(todo) \in Seq(Range(plan)) /\ "failed" \in StepStatuses
    BY <2>1, <1>0, <1>7 DEF StepStatuses
  <2>3. /\ DOMAIN done' \subseteq KeysOf(plan)
        /\ \A x \in DOMAIN done' : done'[x] \in [status : StepStatuses, changed : BOOLEAN]
    BY <2>1, <2>2, <1>0, RememberType
  <2>4. step' \in [KeysOf(plan) -> [status : StepStatuses, changed : BOOLEAN]]
    BY <2>1, <2>2, <1>2
  <2> QED
    BY <2>1, <2>2, <2>3, <2>4, <1>0, <1>1, <1>3 DEF RowTypeInv
<1>10. CASE StepCanceled
  <2> DEFINE st == IF suspended THEN "pending" ELSE "canceled"
  <2>1. /\ pc = "script" /\ step' = [step EXCEPT ![k].status = st]
        /\ Remember(k, Outcome("canceled", FALSE))
        /\ canceled' = TRUE /\ todo' = Tail(todo)
        /\ UNCHANGED <<failed, suspended, killed, result, runs>>
    BY <1>10 DEF StepCanceled
  <2>2. /\ k \in KeysOf(plan) /\ Tail(todo) \in Seq(Range(plan))
        /\ st \in StepStatuses /\ "canceled" \in StepStatuses
    BY <2>1, <1>0, <1>7 DEF StepStatuses
  <2>3. /\ DOMAIN done' \subseteq KeysOf(plan)
        /\ \A x \in DOMAIN done' : done'[x] \in [status : StepStatuses, changed : BOOLEAN]
    BY <2>1, <2>2, <1>0, RememberType
  <2>4. step' \in [KeysOf(plan) -> [status : StepStatuses, changed : BOOLEAN]]
    BY <2>1, <2>2, <1>2
  <2> QED
    BY <2>1, <2>2, <2>3, <2>4, <1>0, <1>1 DEF RowTypeInv
<1>11. CASE WalkCanceled \/ WalkEnds
  BY <1>0, <1>1, <1>3, <1>11 DEF WalkCanceled, WalkEnds, RowTypeInv
<1>12. CASE Settle
  <2>1. step' \in [KeysOf(plan) -> [status : StepStatuses, changed : BOOLEAN]]
    BY <1>1, <1>12 DEF Settle, StepStatuses
  <2>2. result' \in {"none", "success", "failed", "canceled", "crashed"}
    BY <1>12 DEF Settle, Finalize
  <2> QED
    BY <2>1, <2>2, <1>0, <1>1, <1>12 DEF Settle, RowTypeInv
<1>13. CASE Kill \/ Suspend \/ Resume
  BY <1>0, <1>1, <1>13 DEF Kill, Suspend, Resume, RowTypeInv
<1>14. CASE Crash
  BY <1>0, <1>1, <1>3, <1>14 DEF Crash, RowTypeInv
<1> QED
  BY <1>4, <1>5, <1>6, <1>8, <1>9, <1>10, <1>11, <1>12, <1>13, <1>14 DEF AttemptNext

LEMMA TypeStep ==
    ASSUME IInv, [PlanNext]_planVars
    PROVE  TypeInv'
<1>0. plan' = plan /\ TypeInv /\ RowTypeInv /\ DagTypeInv /\ plan \in Plans
  BY PlanConstant DEF IInv, TypeInv, RowTypeInv
<1>1. pc' \in {"submitted", "check", "refused", "idle", "order", "walk", "script", "settle"}
  <2>1. CASE Submit \/ Check \/ FindCycle \/ Admit \/ Begin \/ Order \/ Emit \/ Ordered
    BY <2>1 DEF Submit, Check, FindCycle, Admit, Begin, Order, Emit, Ordered
  <2>2. CASE AttemptNext
    BY <2>2, AttemptFrame
  <2>3. CASE UNCHANGED planVars
    BY <2>3, <1>0 DEF TypeInv, planVars
  <2> QED
    BY <2>1, <2>2, <2>3, NextCases
<1>2. DagTypeInv'
  <2>1. CASE Submit \/ Admit \/ Ordered \/ UNCHANGED planVars
    BY <2>1, <1>0 DEF Submit, Admit, Ordered, planVars, dagVars, DagTypeInv
  <2>2. CASE FindCycle
    <3>1. NextDependency /\ mark' = mark /\ path' = path /\ Sound /\ LookedAtInv
      BY <2>2 DEF FindCycle, PassDependency, IInv, ValidInv, WalkInv, GraphInv, Searching
    <3>2. rest' \in [KeysOf(plan) -> Seq(Keys)]
      BY <3>1, <1>0, DependencyFacts
    <3> QED
      BY <3>1, <3>2, <1>0 DEF DagTypeInv
  <2>3. CASE Begin
    BY <2>3, <1>0, StartKeeps DEF Begin
  <2>4. CASE AttemptNext
    BY <2>4, <1>0, AttemptFrame DEF DagTypeInv
  <2> QED
    BY <2>1, <2>2, <2>3, <2>4, NextCases, CheckKeeps, OrderKeeps, EmitKeeps
<1>3. RowTypeInv'
  <2>1. CASE Submit \/ Check \/ FindCycle \/ Admit \/ Order \/ Ordered \/ UNCHANGED planVars
    BY <2>1, <1>0
       DEF Submit, Check, FindCycle, Admit, Order, Ordered, Quiet, planVars, RowTypeInv
  <2>2. CASE Begin
    <3>1. todo' \in Seq(Range(plan)) /\ DOMAIN done' = {}
      BY <2>2, EmptySeq DEF Begin
    <3>2. runs' \in 0..MaxRuns
      BY <2>2, <1>0, PlanAssumption DEF Begin, RowTypeInv, PlanAssumption
    <3> QED
      BY <2>2, <3>1, <3>2, <1>0 DEF Begin, RowTypeInv
  <2>3. CASE Emit
    <3>1. Caller \in KeysOf(plan)
      BY <2>3, EmitKeeps
    <3>2. Append(todo, ByKey(plan, Caller)) \in Seq(Range(plan))
      BY <3>1, <1>0, ByKeyIn, AppendProperties DEF RowTypeInv
    <3> QED
      BY <2>3, <3>2, <1>0 DEF Emit, Quiet, RowTypeInv
  <2>4. CASE AttemptNext
    BY <2>4, AttemptTypes
  <2> QED
    BY <2>1, <2>2, <2>3, <2>4, NextCases
<1> QED
  BY <1>0, <1>1, <1>2, <1>3 DEF TypeInv, RowTypeInv
-----------------------------------------------------------------------------
(* What is known of the plan: the one step that needs an argument each way is*)
(* the end of the search, with a back edge or without one.                  *)
LEMMA ValidStep ==
    ASSUME IInv, [PlanNext]_planVars
    PROVE  ValidInv'
<1>0. plan' = plan /\ TypeInv /\ ValidInv /\ WalkInv
  BY PlanConstant DEF IInv
<1>1. (Sound' <=> Sound) /\ (Acyclic(plan') <=> Acyclic(plan))
  BY <1>0 DEF Sound
<1>2. CASE Submit
  BY <1>2, <1>1 DEF Submit, ValidInv, Sound
<1>3. CASE Check \/ Order \/ Emit
  <2>1. pc' = pc
    BY <1>3 DEF Check, Order, Emit
  <2> QED
    BY <2>1, <1>0, <1>1 DEF ValidInv
<1>4. CASE FindCycle
  <2>1. pc = "check" /\ pc' = "refused" /\ NextDependency /\ mark[Dependency] = "visiting"
    BY <1>4 DEF FindCycle, PassDependency
  <2>2. Sound /\ GraphInv
    BY <2>1, <1>0 DEF ValidInv, WalkInv, Searching
  <2>3. ~Acyclic(plan)
    BY <2>1, <2>2, <1>0, BackEdge
  <2> QED
    BY <2>1, <2>3, <1>1 DEF ValidInv
<1>5. CASE Admit
  <2>1. pc = "check" /\ pc' = "idle" /\ AllVisited
    BY <1>5 DEF Admit
  <2>2. Sound /\ GraphInv
    BY <2>1, <1>0 DEF ValidInv, WalkInv, Searching
  <2>3. Acyclic(plan)
    BY <2>1, <2>2, AllVisitedAcyclic
  <2> QED
    BY <2>1, <2>2, <2>3, <1>1 DEF ValidInv
<1>6. CASE Begin \/ Ordered
  <2>1. pc \in {"idle", "order"} /\ pc' \in {"order", "walk"}
    BY <1>6 DEF Begin, Ordered
  <2> QED
    BY <2>1, <1>0, <1>1 DEF ValidInv
<1>7. CASE AttemptNext
  <2>1. pc \in {"idle", "walk", "script", "settle"} /\ pc' \in {"idle", "walk", "script", "settle"}
    BY <1>7, AttemptFrame
  <2> QED
    BY <2>1, <1>0, <1>1 DEF ValidInv
<1>8. CASE UNCHANGED planVars
  BY <1>8, <1>0, <1>1 DEF ValidInv, planVars
<1> QED
  BY <1>2, <1>3, <1>4, <1>5, <1>6, <1>7, <1>8, NextCases

LEMMA WalkStep ==
    ASSUME IInv, [PlanNext]_planVars
    PROVE  WalkInv'
<1>0. plan' = plan /\ TypeInv /\ WalkInv
  BY PlanConstant DEF IInv
<1>1. ASSUME Searching, UNCHANGED dagVars PROVE WalkInv'
  BY <1>0, <1>1
     DEF WalkInv, GraphInv, PathInv, LookedAtInv, DoneInv, DoneKeys, DepsOf, dagVars
<1>2. CASE Submit \/ UNCHANGED planVars
  <2>1. UNCHANGED dagVars /\ (Searching' => Searching)
    BY <1>2 DEF Submit, planVars, Searching
  <2> QED
    BY <2>1, <1>1 DEF WalkInv
<1>3. CASE Check \/ Order \/ Emit
  BY <1>3, CheckKeeps, OrderKeeps, EmitKeeps DEF WalkInv
<1>4. CASE FindCycle \/ Admit \/ Ordered
  BY <1>4 DEF FindCycle, Admit, Ordered, WalkInv, Searching
<1>5. CASE Begin
  BY <1>5, <1>0, StartKeeps DEF Begin, WalkInv
<1>6. CASE AttemptNext
  BY <1>6, AttemptFrame DEF WalkInv, Searching
<1> QED
  BY <1>2, <1>3, <1>4, <1>5, <1>6, NextCases
-----------------------------------------------------------------------------
(* A step that leaves the queue with an outcome.                            *)
LEMMA PopKeeps ==
    ASSUME TypeInv, QueueInv, pc \in {"walk", "script"}, todo # <<>>, plan' = plan,
           todo' = Tail(todo), DOMAIN done' = DOMAIN done \cup {Head(todo).key}
    PROVE  /\ QueueSound' /\ DOMAIN done' = KeysOf(plan) \ KeysOf(todo')
           /\ Head(todo).key \notin DOMAIN done
<1> DEFINE h == Head(todo).key
           n == Len(todo)
<1>1. /\ Head(todo) = todo[1] /\ Head(todo) \in Range(plan)
      /\ DOMAIN todo = 1..n /\ n \in Nat \ {0}
      /\ DOMAIN todo' = 1..(n - 1)
      /\ \A i \in 1..(n - 1) : todo'[i] = todo[i + 1]
      /\ Range(todo) = Range(todo') \cup {Head(todo)}
  BY RangeHeadTail DEF TypeInv, RowTypeInv
<1>2. QueueSound /\ DOMAIN done = KeysOf(plan) \ KeysOf(todo)
  BY DEF QueueInv
<1>3. KeysOf(todo) = KeysOf(todo') \cup {h}
  BY <1>1, KeysOfRange
<1>4. ASSUME NEW i \in 1..(n - 1) PROVE todo'[i].key # h
  <2>1. i + 1 \in 1..n /\ 1 \in 1..n /\ i + 1 # 1
    BY <1>1
  <2> QED
    BY <2>1, <1>1, <1>2 DEF QueueSound, UniqueKeys
<1>5. h \notin KeysOf(todo')
  BY <1>1, <1>4 DEF KeysOf
<1>6. h \in KeysOf(plan)
  BY HeadFacts
<1>7. DOMAIN done' = KeysOf(plan) \ KeysOf(todo')
  BY <1>2, <1>3, <1>5, <1>6
<1>8. UniqueKeys(todo')
  <2> SUFFICES ASSUME NEW i \in 1..(n - 1), NEW j \in 1..(n - 1), todo'[i].key = todo'[j].key
               PROVE  i = j
    BY <1>1 DEF UniqueKeys
  <2>1. i + 1 \in DOMAIN todo /\ j + 1 \in DOMAIN todo /\ todo[i + 1].key = todo[j + 1].key
    BY <1>1
  <2>2. i + 1 = j + 1
    BY <2>1, <1>2 DEF QueueSound, UniqueKeys
  <2> QED
    BY <2>2
<1>9. ASSUME NEW i \in DOMAIN todo', NEW d \in Range(todo'[i].deps)
      PROVE  d \in DOMAIN done' \/ \E j \in 1..(i - 1) : todo'[j].key = d
  <2>1. i \in 1..(n - 1) /\ todo'[i] = todo[i + 1] /\ i + 1 \in DOMAIN todo
    BY <1>1
  <2>2. d \in DOMAIN done \/ \E j \in 1..i : todo[j].key = d
    <3>1. d \in DOMAIN done \/ \E j \in 1..((i + 1) - 1) : todo[j].key = d
      BY <2>1, <1>2, <1>9 DEF QueueSound
    <3> QED
      BY <2>1, <3>1
  <2>3. CASE d \in DOMAIN done
    BY <2>3
  <2>4. CASE \E j \in 1..i : todo[j].key = d
    <3>1. PICK j \in 1..i : todo[j].key = d
      BY <2>4
    <3>2. CASE j = 1
      BY <3>1, <3>2, <1>1
    <3>3. CASE j # 1
      <4>1. j - 1 \in 1..(i - 1) /\ j - 1 \in 1..(n - 1) /\ (j - 1) + 1 = j
        BY <2>1, <3>3
      <4>2. todo'[j - 1].key = d
        BY <3>1, <4>1, <1>1
      <4> QED
        BY <4>1, <4>2
    <3> QED
      BY <3>2, <3>3
  <2> QED
    BY <2>2, <2>3, <2>4
<1> QED
  BY <1>2, <1>3, <1>7, <1>8, <1>9 DEF QueueSound

(* A step put out comes after its dependencies.                             *)
LEMMA EmitQueue ==
    ASSUME IInv, Emit
    PROVE  QueueSound' /\ DoneKeys' = KeysOf(todo') /\ DOMAIN done' = {}
<1> DEFINE s == ByKey(plan, Caller)
           n == Len(todo)
<1>1. /\ plan' = plan /\ Caller \in KeysOf(plan) \ DoneKeys
      /\ DoneKeys' = DoneKeys \cup {Caller} /\ Range(DepsOf(Caller)) \subseteq DoneKeys
  BY EmitKeeps
<1>2. pc = "order" /\ todo' = Append(todo, s) /\ done' = done
  BY DEF Emit, Quiet
<1>3. QueueSound /\ DOMAIN done = {} /\ DoneKeys = KeysOf(todo)
  BY <1>2 DEF IInv, QueueInv
<1>4. s \in Range(plan) /\ s.key = Caller /\ s.deps = DepsOf(Caller)
  BY <1>1, ByKeyIn DEF DepsOf
<1>5. /\ n \in Nat /\ DOMAIN todo = 1..n /\ DOMAIN todo' = 1..(n + 1)
      /\ \A i \in 1..n : todo'[i] = todo[i]
      /\ todo'[n + 1] = s
      /\ Range(todo') = Range(todo) \cup {s}
  BY <1>2, <1>4, RangeAppend DEF IInv, TypeInv, RowTypeInv
<1>6. KeysOf(todo') = KeysOf(todo) \cup {Caller}
  BY <1>4, <1>5, KeysOfRange
<1>7. \A i \in 1..n : todo[i].key # Caller
  BY <1>1, <1>3, <1>5 DEF KeysOf
<1>8. UniqueKeys(todo')
  <2> SUFFICES ASSUME NEW i \in 1..(n + 1), NEW j \in 1..(n + 1), todo'[i].key = todo'[j].key
               PROVE  i = j
    BY <1>5 DEF UniqueKeys
  <2>1. CASE i \in 1..n /\ j \in 1..n
    BY <2>1, <1>3, <1>5 DEF QueueSound, UniqueKeys
  <2>2. CASE i = n + 1 \/ j = n + 1
    BY <2>2, <1>4, <1>5, <1>7
  <2> QED
    BY <2>1, <2>2, <1>5
<1>9. ASSUME NEW i \in DOMAIN todo', NEW d \in Range(todo'[i].deps)
      PROVE  \E j \in 1..(i - 1) : todo'[j].key = d
  <2>1. CASE i \in 1..n
    <3>1. PICK j \in 1..(i - 1) : todo[j].key = d
      BY <2>1, <1>3, <1>5, <1>9 DEF QueueSound
    <3>2. j \in 1..n
      BY <2>1, <1>5
    <3> QED
      BY <3>1, <3>2, <1>5
  <2>2. CASE i = n + 1
    <3>1. d \in KeysOf(todo)
      BY <2>2, <1>1, <1>3, <1>4, <1>5
    <3>2. PICK j \in 1..n : todo[j].key = d
      BY <3>1, <1>5 DEF KeysOf
    <3>3. j \in 1..(i - 1) /\ todo'[j].key = d
      BY <3>2, <2>2, <1>5
    <3> QED
      BY <3>3
  <2> QED
    BY <2>1, <2>2, <1>5
<1> QED
  BY <1>1, <1>2, <1>3, <1>6, <1>8, <1>9 DEF QueueSound

(* The queue: filled by topoOrder, emptied by the walk of the steps.        *)
LEMMA QueueStep ==
    ASSUME IInv, [PlanNext]_planVars
    PROVE  QueueInv'
<1>0. plan' = plan /\ TypeInv /\ QueueInv /\ WalkInv
  BY PlanConstant DEF IInv
<1>1. ASSUME todo # <<>>, pc \in {"walk", "script"}, todo' = Tail(todo),
             NEW o, Remember(Head(todo).key, o), pc' # "order", pc' # "script"
      PROVE  QueueInv'
  <2>1. DOMAIN done' = DOMAIN done \cup {Head(todo).key}
    BY <1>1 DEF Remember
  <2>2. QueueSound' /\ DOMAIN done' = KeysOf(plan) \ KeysOf(todo')
    BY <2>1, <1>0, <1>1, PopKeeps
  <2> QED
    BY <2>2, <1>0, <1>1 DEF QueueInv
<1>2. ASSUME UNCHANGED <<todo, done, mark>>, pc' = pc PROVE QueueInv'
  BY <1>0, <1>2 DEF QueueInv, QueueSound, DoneKeys
<1>3. ASSUME pc' \notin {"order", "walk", "script"} PROVE QueueInv'
  BY <1>3 DEF QueueInv
<1>4. CASE Submit \/ Check \/ FindCycle \/ Admit
  BY <1>4, <1>3 DEF Submit, Check, FindCycle, Admit
<1>5. CASE Begin
  <2>1. DoneKeys' = {} /\ todo' = <<>> /\ done' = <<>> /\ pc' = "order"
    BY <1>5, <1>0, StartKeeps DEF Begin
  <2>2. DOMAIN todo' = {} /\ DOMAIN done' = {} /\ KeysOf(todo') = {}
    BY <2>1 DEF KeysOf
  <2> QED
    BY <2>1, <2>2 DEF QueueInv, QueueSound, UniqueKeys
<1>6. CASE Order
  <2>1. todo' = todo /\ done' = done /\ pc' = pc /\ pc = "order" /\ DoneKeys' = DoneKeys
    BY <1>6, OrderKeeps DEF Order, Quiet
  <2> QED
    BY <2>1, <1>0 DEF QueueInv, QueueSound
<1>7. CASE Emit
  <2>1. pc' = "order"
    BY <1>7 DEF Emit
  <2> QED
    BY <2>1, <1>7, EmitQueue DEF QueueInv
<1>8. CASE Ordered
  <2>1. /\ pc = "order" /\ pc' = "walk" /\ AllVisited
        /\ UNCHANGED <<todo, done>>
    BY <1>8 DEF Ordered, Quiet
  <2>2. DoneKeys = KeysOf(plan)
    BY <2>1, <1>0, AllVisitedAcyclic DEF WalkInv, Searching
  <2> QED
    BY <2>1, <2>2, <1>0 DEF QueueInv, QueueSound
<1>9. CASE StepSkipped \/ StepResumed
  <2>1. PICK s \in Range(plan) : \E o : /\ At(s) /\ Remember(s.key, o) /\ todo' = Tail(todo)
                                       /\ pc' = pc
    BY <1>9 DEF StepSkipped, StepResumed
  <2> QED
    BY <2>1, <1>1 DEF At
<1>10. CASE StepStarts
  BY <1>10, <1>0 DEF StepStarts, At, QueueInv, QueueSound, dagVars
<1>11. CASE (\E changed \in BOOLEAN : StepSucceeds(changed)) \/ StepCanceled
  <2>1. /\ pc = "script" /\ pc' = "walk" /\ todo' = Tail(todo)
        /\ \E o : Remember(Head(todo).key, o)
    BY <1>11 DEF StepSucceeds, StepCanceled
  <2> QED
    BY <2>1, <1>0, <1>1 DEF QueueInv
<1>12. CASE StepFails
  <2>1. /\ pc = "script" /\ Remember(Head(todo).key, Outcome("failed", FALSE))
        /\ \/ pc' = "walk" /\ todo' = Tail(todo)
           \/ pc' = "settle"
    BY <1>12 DEF StepFails
  <2> QED
    BY <2>1, <1>0, <1>1, <1>3 DEF QueueInv
<1>13. CASE WalkCanceled \/ WalkEnds \/ Settle \/ Crash \/ Resume
  BY <1>13, <1>3 DEF WalkCanceled, WalkEnds, Settle, Crash, Resume
<1>14. CASE Kill \/ Suspend \/ UNCHANGED planVars
  BY <1>14, <1>2 DEF Kill, Suspend, planVars, dagVars
<1> QED
  BY <1>4, <1>5, <1>6, <1>7, <1>8, <1>9, <1>10, <1>11, <1>12, <1>13, <1>14, NextCases
     DEF AttemptNext
-----------------------------------------------------------------------------
(* No step of the system takes a checkpoint back.                           *)
LEMMA CheckpointKept ==
    ASSUME IInv, [PlanNext]_planVars, NEW k \in KeysOf(plan), Checkpointed(k)
    PROVE  step'[k].status \in {"success", "skipped"}
<1>0. /\ TypeInv /\ QueueInv /\ OutcomeInv
      /\ step \in [KeysOf(plan) -> [status : StepStatuses, changed : BOOLEAN]]
      /\ step[k].status \in {"success", "skipped"}
  BY DEF IInv, TypeInv, RowTypeInv, Checkpointed
<1>1. CASE Submit \/ Check \/ FindCycle \/ Admit \/ Order \/ Emit \/ Ordered
  BY <1>0, <1>1 DEF Submit, Check, FindCycle, Admit, Order, Emit, Ordered, Quiet
<1>2. CASE Begin
  BY <1>0, <1>2 DEF Begin
<1>3. CASE StepSkipped \/ StepResumed \/ WalkCanceled \/ WalkEnds
  BY <1>0, <1>3 DEF StepSkipped, StepResumed, WalkCanceled, WalkEnds
<1>4. CASE StepStarts
  <2>1. PICK s \in Range(plan) : /\ ~Checkpointed(s.key)
                                 /\ step' = [step EXCEPT ![s.key].status = "running"]
    BY <1>4 DEF StepStarts
  <2>2. s.key # k
    BY <2>1
  <2> QED
    BY <2>1, <2>2, <1>0
<1>5. CASE (\E changed \in BOOLEAN : StepSucceeds(changed)) \/ StepFails \/ StepCanceled
  <2>1. pc = "script" /\ \A x \in KeysOf(plan) : x # Head(todo).key => step'[x] = step[x]
    BY <1>0, <1>5 DEF StepSucceeds, StepFails, StepCanceled
  <2>2. Head(todo).key # k
    BY <2>1, <1>0 DEF OutcomeInv, ScriptDue
  <2> QED
    BY <2>1, <2>2, <1>0
<1>6. CASE Settle
  BY <1>0, <1>6 DEF Settle
<1>7. CASE Kill \/ Suspend \/ Resume \/ Crash \/ UNCHANGED planVars
  BY <1>0, <1>7 DEF Kill, Suspend, Resume, Crash, planVars
<1> QED
  BY <1>1, <1>2, <1>3, <1>4, <1>5, <1>6, <1>7, NextCases DEF AttemptNext

(* An outcome is recorded for the step at the head of the queue.            *)
LEMMA OutcomeRecorded ==
    ASSUME IInv, [PlanNext]_planVars, pc \in {"walk", "script"}, todo # <<>>,
           NEW st \in {"success", "skipped", "failed", "canceled"}, NEW c \in BOOLEAN,
           Remember(Head(todo).key, Outcome(st, c)),
           failed => failed', canceled => canceled',
           st = "success" => step'[Head(todo).key].status \in {"success", "skipped"},
           st = "failed" => failed', st = "canceled" => canceled'
    PROVE  /\ OutcomesKept'
           /\ (st = "failed" => Head(todo).cont) => FailuresContinue'
<1> DEFINE h == Head(todo).key
<1>0. TypeInv /\ OutcomesKept /\ FailuresContinue /\ plan' = plan /\ Sound
  BY PlanConstant DEF IInv, OutcomeInv, ValidInv
<1>1. h \in KeysOf(plan) /\ Head(todo) \in Range(plan) /\ st \in StepStatuses
  BY <1>0, HeadFacts DEF StepStatuses
<1>2. /\ DOMAIN done' = DOMAIN done \cup {h}
      /\ done'[h] = Outcome(st, c)
      /\ \A x \in DOMAIN done : x # h => done'[x] = done[x]
  BY <1>0, <1>1, RememberType
<1>3. done'[h].status = st
  BY <1>2 DEF Outcome
<1>4. DOMAIN done \subseteq KeysOf(plan)
  BY <1>0 DEF TypeInv, RowTypeInv
<1>5. ASSUME NEW k \in DOMAIN done'
      PROVE  /\ done'[k].status \in {"success", "skipped", "failed", "canceled"}
             /\ done'[k].status = "success" => step'[k].status \in {"success", "skipped"}
             /\ done'[k].status = "failed" => failed'
             /\ done'[k].status = "canceled" => canceled'
  <2>1. CASE k = h
    BY <2>1, <1>3
  <2>2. CASE k # h
    <3>1. k \in DOMAIN done /\ k \in KeysOf(plan) /\ done'[k] = done[k]
      BY <2>2, <1>2, <1>4, <1>5
    <3>2. Checkpointed(k) => step'[k].status \in {"success", "skipped"}
      BY <3>1, CheckpointKept
    <3> QED
      BY <3>1, <3>2, <1>0 DEF OutcomesKept
  <2> QED
    BY <2>1, <2>2
<1>6. OutcomesKept'
  BY <1>5 DEF OutcomesKept, Checkpointed
<1>7. ASSUME st = "failed" => Head(todo).cont, NEW s \in Range(plan),
             s.key \in DOMAIN done', done'[s.key].status = "failed"
      PROVE  s.cont
  <2>1. CASE s.key = h
    <3>1. s = Head(todo)
      BY <2>1, <1>0, <1>1, KeyDecides DEF Sound
    <3> QED
      BY <2>1, <3>1, <1>3, <1>7
  <2>2. CASE s.key # h
    <3>1. s.key \in DOMAIN done /\ done[s.key].status = "failed"
      BY <2>2, <1>2, <1>7
    <3> QED
      BY <3>1, <1>0 DEF FailuresContinue
  <2> QED
    BY <2>1, <2>2
<1>8. (st = "failed" => Head(todo).cont) => FailuresContinue'
  BY <1>7, <1>0 DEF FailuresContinue
<1> QED
  BY <1>6, <1>8

(* An attempt that ends without a failure or a cancel has an outcome for    *)
(* each step, all of them checkpoints once the skipped ones are stored.     *)
LEMMA SettleWhole ==
    ASSUME IInv, Settle
    PROVE  SuccessIsWhole'
<1>0. /\ TypeInv /\ OutcomeInv /\ pc = "settle" /\ plan' = plan /\ result' = Finalize
      /\ step \in [KeysOf(plan) -> [status : StepStatuses, changed : BOOLEAN]]
      /\ step' = [k \in DOMAIN step |->
                    IF k \in DOMAIN done /\ done[k].status = "skipped"
                    THEN [step[k] EXCEPT !.status = "skipped"] ELSE step[k]]
  BY DEF IInv, TypeInv, RowTypeInv, Settle
<1> SUFFICES ASSUME result' = "success", NEW k \in KeysOf(plan)
             PROVE  step'[k].status \in {"success", "skipped"}
  BY <1>0 DEF SuccessIsWhole, Checkpointed
<1>1. ~failed /\ ~canceled
  BY <1>0 DEF Finalize
<1>2. k \in DOMAIN done /\ OutcomesKept
  BY <1>0, <1>1 DEF OutcomeInv
<1>3. done[k].status = "skipped" \/ step[k].status \in {"success", "skipped"}
  BY <1>1, <1>2 DEF OutcomesKept, Checkpointed
<1> QED
  BY <1>0, <1>2, <1>3
(* The outcomes: one is recorded at a time, and an attempt ends as a success*)
(* only when no flag is set.                                                *)
LEMMA OutcomeStep ==
    ASSUME IInv, [PlanNext]_planVars
    PROVE  OutcomeInv'
<1>0. /\ TypeInv /\ QueueInv /\ OutcomeInv /\ plan' = plan
      /\ step \in [KeysOf(plan) -> [status : StepStatuses, changed : BOOLEAN]]
      /\ failed \in BOOLEAN /\ canceled \in BOOLEAN
      /\ DOMAIN done \subseteq KeysOf(plan)
  BY PlanConstant DEF IInv, TypeInv, RowTypeInv
<1>1. ASSUME pc' \in {"walk", "script"}, pc' = "script" => ScriptDue',
             OutcomesKept', FailuresContinue'
      PROVE  OutcomeInv'
  BY <1>1 DEF OutcomeInv, SuccessIsWhole
<1>2. ASSUME UNCHANGED <<pc, step, todo, done, failed, canceled, result>>
      PROVE  OutcomeInv'
  BY <1>0, <1>2
     DEF OutcomeInv, OutcomesKept, ScriptDue, FailuresContinue, SuccessIsWhole, Checkpointed,
         EvaluateCondition, Outcomes
<1>3. CASE Submit \/ Check \/ FindCycle \/ Order \/ Emit
  <2>1. /\ pc' \in {"check", "refused", "order"} /\ result' = result
        /\ pc' = "check" => pc \in {"submitted", "check"}
    BY <1>3 DEF Submit, Check, FindCycle, Order, Emit, Quiet
  <2> QED
    BY <2>1, <1>0 DEF OutcomeInv, SuccessIsWhole
<1>4. CASE Admit
  <2>1. pc = "check" /\ pc' = "idle" /\ result' = result
    BY <1>4 DEF Admit, Quiet
  <2> QED
    BY <2>1, <1>0 DEF OutcomeInv, SuccessIsWhole
<1>5. CASE Begin
  BY <1>5 DEF Begin, OutcomeInv, SuccessIsWhole
<1>6. CASE Ordered
  <2>1. pc = "order" /\ pc' = "walk" /\ done' = done
    BY <1>6 DEF Ordered, Quiet
  <2>2. DOMAIN done' = {}
    BY <2>1, <1>0 DEF QueueInv
  <2> QED
    BY <2>1, <2>2, <1>1 DEF OutcomesKept, FailuresContinue
<1>7. CASE StepSkipped
  <2>1. /\ pc = "walk" /\ pc' = "walk" /\ todo # <<>>
        /\ Remember(Head(todo).key, Outcome("skipped", FALSE))
        /\ failed' = failed /\ canceled' = canceled
    BY <1>7 DEF StepSkipped, At
  <2>2. OutcomesKept' /\ FailuresContinue'
    BY <2>1, OutcomeRecorded
  <2> QED
    BY <2>1, <2>2, <1>1
<1>8. CASE StepResumed
  <2> DEFINE st == step[Head(todo).key].status
             h == Head(todo).key
  <2>1. /\ pc = "walk" /\ pc' = "walk" /\ todo # <<>>
        /\ st \in {"success", "skipped"} /\ step' = step
        /\ Remember(h, Outcome(st, TRUE))
        /\ failed' = failed /\ canceled' = canceled
    BY <1>8 DEF StepResumed, At, Checkpointed
  <2>2. step'[h].status \in {"success", "skipped"}
    BY <2>1
  <2>3. st # "failed" /\ st # "canceled" /\ st \in {"success", "skipped", "failed", "canceled"}
    BY <2>1
  <2>4. OutcomesKept' /\ FailuresContinue'
    <3> HIDE DEF st
    <3> QED
      BY <2>1, <2>2, <2>3, OutcomeRecorded
  <2> QED
    BY <2>1, <2>4, <1>1
<1>9. CASE StepStarts
  <2>1. PICK s \in Range(plan) : At(s) /\ ~EvaluateCondition(s) /\ StepStarts
    BY <1>9 DEF StepStarts
  <2>2. /\ pc = "walk" /\ pc' = "script" /\ s = Head(todo) /\ s.key \in KeysOf(plan)
        /\ step' = [step EXCEPT ![s.key].status = "running"]
        /\ UNCHANGED <<todo, done, failed, canceled>>
    BY <2>1, <1>0, HeadFacts DEF StepStarts, At
  <2>3. OutcomesKept /\ FailuresContinue
    BY <2>2, <1>0 DEF OutcomeInv
  <2>4. ASSUME NEW k \in DOMAIN done, done[k].status = "success"
        PROVE  step'[k].status \in {"success", "skipped"}
    BY <2>3, <2>4, <1>0, CheckpointKept DEF OutcomesKept
  <2>5. OutcomesKept'
    BY <2>2, <2>3, <2>4 DEF OutcomesKept, Checkpointed
  <2>6. ScriptDue'
    <3>1. step'[s.key].status = "running"
      BY <2>2, <1>0
    <3>2. EvaluateCondition(Head(todo))' <=> EvaluateCondition(s)
      BY <2>2 DEF EvaluateCondition, Outcomes
    <3> QED
      BY <3>1, <3>2, <2>1, <2>2 DEF ScriptDue
  <2>7. FailuresContinue'
    BY <2>2, <2>3, <1>0 DEF FailuresContinue
  <2> QED
    BY <2>2, <2>5, <2>6, <2>7, <1>1
<1>10. ASSUME NEW changed \in BOOLEAN, StepSucceeds(changed) PROVE OutcomeInv'
  <2>1. /\ pc = "script" /\ pc' = "walk"
        /\ step' = [step EXCEPT ![Head(todo).key] = Outcome("success", changed)]
        /\ Remember(Head(todo).key, Outcome("success", changed))
        /\ failed' = failed /\ canceled' = canceled
    BY <1>10 DEF StepSucceeds
  <2>2. todo # <<>> /\ Head(todo).key \in KeysOf(plan)
    BY <2>1, <1>0, HeadFacts DEF QueueInv
  <2>3. step'[Head(todo).key].status \in {"success", "skipped"}
    BY <2>1, <2>2, <1>0 DEF Outcome
  <2>4. OutcomesKept' /\ FailuresContinue'
    BY <2>1, <2>2, <2>3, OutcomeRecorded
  <2> QED
    BY <2>1, <2>4, <1>1
<1>11. CASE StepFails
  <2>1. /\ pc = "script" /\ Remember(Head(todo).key, Outcome("failed", FALSE))
        /\ failed' = TRUE /\ canceled' = canceled
        /\ \/ Head(todo).cont /\ pc' = "walk"
           \/ ~Head(todo).cont /\ pc' = "settle"
    BY <1>11 DEF StepFails
  <2>2. todo # <<>>
    BY <2>1, <1>0 DEF QueueInv
  <2>3. OutcomesKept' /\ (Head(todo).cont => FailuresContinue')
    BY <2>1, <2>2, OutcomeRecorded
  <2>4. CASE pc' = "walk"
    BY <2>1, <2>3, <2>4, <1>1
  <2>5. CASE pc' = "settle"
    BY <2>1, <2>3, <2>5 DEF OutcomeInv, SuccessIsWhole
  <2> QED
    BY <2>1, <2>4, <2>5
<1>12. CASE StepCanceled
  <2>1. /\ pc = "script" /\ pc' = "walk"
        /\ Remember(Head(todo).key, Outcome("canceled", FALSE))
        /\ failed' = failed /\ canceled' = TRUE
    BY <1>12 DEF StepCanceled
  <2>2. todo # <<>>
    BY <2>1, <1>0 DEF QueueInv
  <2>3. OutcomesKept' /\ FailuresContinue'
    BY <2>1, <2>2, OutcomeRecorded
  <2> QED
    BY <2>1, <2>3, <1>1
<1>13. CASE WalkCanceled \/ WalkEnds
  <2>1. /\ pc = "walk" /\ pc' = "settle"
        /\ UNCHANGED <<step, done, failed>>
        /\ \/ canceled' = TRUE
           \/ canceled' = canceled /\ todo = <<>>
    BY <1>13 DEF WalkCanceled, WalkEnds
  <2>2. OutcomesKept'
    BY <2>1, <1>0 DEF OutcomeInv, OutcomesKept, Checkpointed
  <2>3. todo = <<>> => DOMAIN done = KeysOf(plan)
    BY <2>1, <1>0 DEF QueueInv, KeysOf
  <2> QED
    BY <2>1, <2>2, <2>3, <1>0 DEF OutcomeInv, SuccessIsWhole
<1>14. CASE Settle
  <2>1. pc' = "idle"
    BY <1>14 DEF Settle
  <2> QED
    BY <2>1, <1>14, SettleWhole DEF OutcomeInv
<1>15. CASE Crash
  BY <1>15 DEF Crash, OutcomeInv, SuccessIsWhole
<1>16. CASE Kill \/ Suspend \/ Resume \/ UNCHANGED planVars
  BY <1>16, <1>2 DEF Kill, Suspend, Resume, planVars
<1> QED
  BY <1>3, <1>4, <1>5, <1>6, <1>7, <1>8, <1>9, <1>10, <1>11, <1>12, <1>13, <1>14, <1>15, <1>16,
     NextCases DEF AttemptNext
-----------------------------------------------------------------------------
LEMMA PlanInitInv ==
    ASSUME PlanInit
    PROVE  IInv
<1>1. /\ plan \in Plans /\ Unvisited /\ pc = "submitted" /\ todo = <<>> /\ done = <<>>
      /\ step = [k \in KeysOf(plan) |-> Outcome("pending", FALSE)]
      /\ result = "none" /\ runs = 0
      /\ failed = FALSE /\ canceled = FALSE /\ suspended = FALSE /\ killed = FALSE
  BY DEF PlanInit
<1>2. \A k \in KeysOf(plan) : DepsOf(k) \in Seq(Keys)
  BY <1>1, NodesOfPlan
<1>3. /\ path = <<>> /\ DOMAIN path = {} /\ Range(path) = {} /\ path \in Seq(KeysOf(plan))
      /\ mark = NoMarks /\ rest = AllDeps
  BY <1>1, EmptySeq DEF Unvisited, Range
<1>4. DagTypeInv
  BY <1>2, <1>3 DEF DagTypeInv, NoMarks, AllDeps
<1>5. RowTypeInv
  <2>1. todo \in Seq(Range(plan)) /\ DOMAIN done = {}
    BY <1>1, EmptySeq
  <2>2. 0 \in 0..MaxRuns
    BY PlanAssumption DEF PlanAssumption
  <2>3. step \in [KeysOf(plan) -> [status : StepStatuses, changed : BOOLEAN]]
    BY <1>1 DEF Outcome, StepStatuses
  <2> QED
    BY <2>1, <2>2, <2>3, <1>1 DEF RowTypeInv
<1>6. DoneKeys = {}
  BY <1>3 DEF DoneKeys, NoMarks
<1>7. PathInv
  BY <1>3 DEF PathInv, NoMarks
<1>8. LookedAtInv
  BY <1>3 DEF LookedAtInv, AllDeps
<1>9. DoneInv
  BY <1>6 DEF DoneInv
<1>10. ValidInv /\ QueueInv /\ OutcomeInv
  BY <1>1 DEF ValidInv, QueueInv, OutcomeInv, SuccessIsWhole
<1> QED
  BY <1>1, <1>4, <1>5, <1>7, <1>8, <1>9, <1>10 DEF IInv, TypeInv, WalkInv, GraphInv

(* The four parts of the invariant are kept together: the types need the    *)
(* references to be valid, the order needs the graph to be acyclic.         *)
THEOREM InductiveInvariant == PlanSpec => []IInv
<1>1. PlanInit => IInv
  BY PlanInitInv
<1>2. IInv /\ [PlanNext]_planVars => IInv'
  BY TypeStep, ValidStep, WalkStep, QueueStep, OutcomeStep DEF IInv
<1> QED
  BY <1>1, <1>2, PTL DEF PlanSpec
-----------------------------------------------------------------------------
(* A sequence with unique keys is as long as it has keys.                   *)
LEMMA LenIsKeys ==
    ASSUME NEW S, NEW ns \in Seq(S), UniqueKeys(ns)
    PROVE  Len(ns) = Cardinality(KeysOf(ns))
<1> DEFINE f == [i \in 1..Len(ns) |-> ns[i].key]
<1>1. Len(ns) \in Nat /\ DOMAIN ns = 1..Len(ns)
  BY LenProperties
<1>2. f \in [1..Len(ns) -> KeysOf(ns)]
  BY <1>1 DEF KeysOf
<1>3. \A i, j \in 1..Len(ns) : f[i] = f[j] => i = j
  BY <1>1 DEF UniqueKeys
<1>4. \A k \in KeysOf(ns) : \E i \in 1..Len(ns) : f[i] = k
  BY <1>1 DEF KeysOf
<1>5. f \in Bijection(1..Len(ns), KeysOf(ns))
  BY <1>2, <1>3, <1>4 DEF Bijection, Injection, Surjection, IsInjective
<1>6. ExistsBijection(1..Len(ns), KeysOf(ns))
  BY <1>5 DEF ExistsBijection
<1> QED
  BY <1>1, <1>6, FS_CountingElements

(* The types of the walk, the rows and the attempt.                         *)
THEOREM PlanTypesHold == PlanSpec => []PlanTypeOK
<1>1. IInv => PlanTypeOK
  <2> SUFFICES ASSUME TypeInv PROVE PlanTypeOK
    BY DEF IInv
  <2>1. Range(todo) \subseteq Range(plan)
    BY RangeOfSeq DEF TypeInv, RowTypeInv
  <2> QED
    BY <2>1 DEF PlanTypeOK, TypeInv, DagTypeInv, RowTypeInv
<1> QED
  BY <1>1, InductiveInvariant, PTL

(* buildDeployExecutionSnapshot freezes a plan exactly when its keys are    *)
(* unique, its dependencies known and other than the step itself, and no    *)
(* set of steps waits on itself: the colours of hasDAGCycle find a cycle    *)
(* when there is one, whatever order the map gives its keys in.             *)
THEOREM AdmitsExactlyDagsHolds == PlanSpec => []AdmitsExactlyDags
<1>1. IInv => AdmitsExactlyDags
  <2> SUFFICES ASSUME TypeInv, ValidInv PROVE AdmitsExactlyDags
    BY DEF IInv
  <2> QED
    BY DEF AdmitsExactlyDags, ValidInv, TypeInv, Sound
<1> QED
  BY <1>1, InductiveInvariant, PTL

(* topoOrder puts out every step of an admitted plan once and after all of  *)
(* its dependencies, for plans of any size listed in any order.             *)
THEOREM OrderRespectsDepsHolds == PlanSpec => []OrderRespectsDeps
<1>1. IInv => OrderRespectsDeps
  <2> SUFFICES ASSUME IInv, pc = "walk", DOMAIN done = {}
               PROVE  /\ Len(todo) = Len(plan) /\ KeysOf(todo) = KeysOf(plan)
                      /\ \A i \in DOMAIN todo : \A d \in Range(todo[i].deps) :
                            \E j \in 1..(i - 1) : todo[j].key = d
    BY DEF OrderRespectsDeps
  <2>1. /\ todo \in Seq(Range(plan)) /\ plan \in Seq(Nodes)
        /\ Sound /\ QueueSound /\ {} = KeysOf(plan) \ KeysOf(todo)
    BY NodesOfPlan DEF IInv, TypeInv, RowTypeInv, ValidInv, QueueInv
  <2>2. KeysOf(todo) \subseteq KeysOf(plan)
    <3>1. Range(todo) \subseteq Range(plan)
      BY <2>1, RangeOfSeq
    <3> QED
      BY <3>1, KeysOfRange
  <2>3. KeysOf(todo) = KeysOf(plan)
    BY <2>1, <2>2
  <2>4. Len(todo) = Len(plan)
    <3>1. Len(todo) = Cardinality(KeysOf(todo))
      BY <2>1, LenIsKeys DEF QueueSound
    <3>2. Len(plan) = Cardinality(KeysOf(plan))
      BY <2>1, LenIsKeys DEF Sound
    <3> QED
      BY <3>1, <3>2, <2>3
  <2>5. \A i \in DOMAIN todo : \A d \in Range(todo[i].deps) : \E j \in 1..(i - 1) : todo[j].key = d
    BY <2>1 DEF QueueSound
  <2> QED
    BY <2>3, <2>4, <2>5
<1> QED
  BY <1>1, InductiveInvariant, PTL

(* evaluateCondition ignores a dependency without an outcome; none is       *)
(* without one when a script runs, so that its condition holds on all of    *)
(* them, those restored from an earlier attempt included.                   *)
THEOREM ConditionsHold == PlanSpec => []ConditionHolds
<1>1. IInv => ConditionHolds
  <2> DEFINE s == Head(todo)
             deps == Range(s.deps)
  <2> SUFFICES ASSUME IInv, pc = "script"
               PROVE  /\ deps \subseteq DOMAIN done
                      /\ s.cond = "on_success" =>
                            \A d \in deps : done[d].status \in {"success", "skipped"}
                      /\ s.cond = "on_failure" => \E d \in deps : done[d].status = "failed"
                      /\ s.cond = "on_changed" => \E d \in deps : done[d].changed
    BY DEF ConditionHolds, InScript
  <2>1. /\ todo # <<>> /\ QueueSound /\ ~EvaluateCondition(s)
        /\ todo \in Seq(Range(plan))
    BY DEF IInv, QueueInv, OutcomeInv, ScriptDue, TypeInv, RowTypeInv
  <2>2. s = todo[1] /\ 1 \in DOMAIN todo
    BY <2>1, RangeHeadTail
  <2>3. deps \subseteq DOMAIN done
    BY <2>1, <2>2 DEF QueueSound
  <2>4. Outcomes(s) = {done[d] : d \in deps}
    BY <2>3 DEF Outcomes
  <2> QED
    BY <2>1, <2>3, <2>4 DEF EvaluateCondition
<1> QED
  BY <1>1, InductiveInvariant, PTL

(* After a step that failed under fail_fast no script runs in its attempt.  *)
THEOREM FailFastStopsHolds == PlanSpec => []FailFastStops
<1>1. IInv => FailFastStops
  BY DEF IInv, OutcomeInv, FailuresContinue, FailFastStops, InScript
<1> QED
  BY <1>1, InductiveInvariant, PTL

(* A host whose attempt is reported as a success has every step of its plan *)
(* checkpointed, whatever interrupted its earlier attempts (finalize).      *)
THEOREM SuccessIsWholeHolds == PlanSpec => []SuccessIsWhole
<1>1. IInv => SuccessIsWhole
  BY DEF IInv, OutcomeInv
<1> QED
  BY <1>1, InductiveInvariant, PTL

(* No failure, pause, cancel, crash or later attempt takes a checkpoint     *)
(* back, so a step that succeeded or was skipped never runs again.          *)
THEOREM CheckpointIsFinalHolds == PlanSpec => CheckpointIsFinal
<1>1. IInv /\ [PlanNext]_planVars =>
        [\A k \in DOMAIN step : Checkpointed(k) => step'[k].status \in {"success", "skipped"}]_planVars
  <2> SUFFICES ASSUME IInv, [PlanNext]_planVars, NEW k \in DOMAIN step, Checkpointed(k)
               PROVE  step'[k].status \in {"success", "skipped"}
    OBVIOUS
  <2>1. k \in KeysOf(plan)
    BY DEF IInv, TypeInv, RowTypeInv
  <2> QED
    BY <2>1, CheckpointKept
<1> QED
  BY <1>1, InductiveInvariant, PTL DEF PlanSpec, CheckpointIsFinal
=============================================================================
