-------------------------- MODULE NodePoolGuardProofs --------------------------
(***************************************************************************)
(* Proofs about NodePoolController: that it implements GuardedPool, for    *)
(* any Nodes, machine types and node pools, any edits of the Nodes and any *)
(* number of disturbances.                                                 *)
(***************************************************************************)
EXTENDS NodePoolControllerProofs

-----------------------------------------------------------------------------
(***************************************************************************)
(* The inductive invariant.  The reconciler decides by a cached pool.  The *)
(* cache may be behind by a whole life of the pool - it went and another   *)
(* came - but then it shows the old pool being deleted: the finalizer is   *)
(* only taken from a pool whose deletion the cache knows.                  *)
(***************************************************************************)
CacheSound ==
    /\ pool.finalizer => pool.exists
    /\ poolSeen.finalizer /\ ~poolSeen.deleting => pool.finalizer
    /\ pFresh => poolSeen = pool

BranchSound ==
    /\ pc = "node" => pool.finalizer
    /\ pc \in {"cleanup", "removeFinalizer"} => p.deleting

GInv == CacheSound /\ BranchSound

LEMMA GuardInit == Init => GInv
BY DEF Init, NewPool, NoPool, GInv, CacheSound, BranchSound

LEMMA GuardReconciler == IInv /\ GInv /\ ReconcilerStep => GInv'
<1> SUFFICES ASSUME IInv, GInv, ReconcilerStep PROVE GInv'
  OBVIOUS
<1> USE DEF poolVars, nodeVars, workerVars
<1>0. /\ pool \in PoolObject /\ poolSeen \in PoolObject /\ p \in PoolObject
      /\ poolFresh => poolSeen = pool
      /\ pFresh => p = pool
      /\ pc # "idle" => p.exists
  BY DEF IInv, TypeOK, FreshCopies, Branches
<1>1. CASE Reconcile
  BY <1>0, <1>1 DEF Reconcile, GInv, CacheSound, BranchSound
<1>2. CASE addFinalizer
  <2>1. CASE pFresh /\ StorePool([p EXCEPT !.finalizer = TRUE]) /\ Return(FALSE)
    <3>1. pool'.finalizer /\ pool'.exists
      BY <1>0, <1>2, <2>1 DEF StorePool, addFinalizer, PoolObject
    <3> QED
      BY <2>1, <3>1 DEF StorePool, Return, GInv, CacheSound, BranchSound
  <2>2. CASE UNCHANGED poolVars /\ Return(TRUE)
    BY <2>2 DEF Return, GInv, CacheSound, BranchSound
  <2> QED
    BY <1>2, <2>1, <2>2 DEF addFinalizer
<1>3. CASE reconcileNode \/ NodesDone \/ cleanupNode \/ CleanupDone
  BY <1>3 DEF reconcileNode, NodesDone, cleanupNode, CleanupDone, NextEntry, GoTo, Return, GInv,
              CacheSound, BranchSound
<1>4. CASE ReportFailure
  <2>1. CASE pFresh /\ pool' = [p EXCEPT !.ready = "False"]
    <3>1. pool'.finalizer = pool.finalizer /\ pool'.exists = pool.exists
      BY <1>0, <2>1 DEF PoolObject
    <3> QED
      BY <1>4, <3>1 DEF ReportFailure, Return, GInv, CacheSound, BranchSound
  <2>2. CASE UNCHANGED poolVars
    BY <1>4, <2>2 DEF ReportFailure, Return, GInv, CacheSound, BranchSound
  <2> QED
    BY <1>4, <2>1, <2>2 DEF ReportFailure
<1>5. CASE updateStatus
  <2> DEFINE new == [p EXCEPT !.conditions = Conditions(nodeSeen, p.spec), !.ready = "True"]
  <2>1. CASE pFresh /\ StorePool(new)
    <3>1. pool' = new /\ poolSeen' = poolSeen
      BY <2>1 DEF StorePool
    <3>2. pool'.finalizer = pool.finalizer /\ pool'.exists = pool.exists
      BY <1>0, <2>1, <3>1 DEF PoolObject
    <3> QED
      BY <1>5, <3>1, <3>2 DEF updateStatus, Return, GInv, CacheSound, BranchSound
  <2>2. CASE UNCHANGED poolVars
    BY <1>5, <2>2 DEF updateStatus, Return, GInv, CacheSound, BranchSound
  <2> QED
    BY <1>5, <2>1, <2>2 DEF updateStatus
<1>6. CASE removeFinalizer
  <2>1. CASE pFresh /\ StorePool(NoPool) /\ Return(FALSE)
    BY <1>0, <1>6, <2>1
       DEF removeFinalizer, StorePool, NoPool, Return, GInv, CacheSound, BranchSound
  <2>2. CASE UNCHANGED poolVars /\ Return(TRUE)
    BY <2>2 DEF Return, GInv, CacheSound, BranchSound
  <2> QED
    BY <1>6, <2>1, <2>2 DEF removeFinalizer
<1> QED
  BY <1>1, <1>2, <1>3, <1>4, <1>5, <1>6 DEF ReconcilerStep

LEMMA GuardOthers == IInv /\ GInv /\ (InformerStep \/ Environment) => GInv'
<1> SUFFICES ASSUME IInv, GInv, InformerStep \/ Environment PROVE GInv'
  OBVIOUS
<1> USE DEF poolVars, nodeVars, workerVars, GInv, CacheSound, BranchSound
<1>0. /\ pool \in PoolObject /\ poolSeen \in PoolObject /\ p \in PoolObject
      /\ poolFresh => poolSeen = pool
      /\ pFresh => p = pool
  BY DEF IInv, TypeOK, FreshCopies
<1>1. CASE DeliverPool \/ Crash
  BY <1>0, <1>1 DEF DeliverPool, Crash, Return
<1>2. CASE \E n \in Node : DeliverNode(n) \/ Heartbeat(n) \/ ToggleDown(n) \/ EditNode(n)
                              \/ ReplaceNode(n)
  BY <1>2 DEF DeliverNode, Heartbeat, ToggleDown, EditNode, ReplaceNode, WriteNode
<1>3. CASE Tick \/ Resync \/ FailRequest
  BY <1>3 DEF Tick, Resync, FailRequest, GoTo, Return
<1>4. CASE ChangeSpec
  <2>1. PICK s \in Specs : WritePool([pool EXCEPT !.spec = s])
    BY <1>4 DEF ChangeSpec
  <2>2. pool'.finalizer = pool.finalizer /\ pool'.exists = pool.exists
    BY <1>0, <2>1 DEF WritePool, PoolObject
  <2> QED
    BY <2>1, <2>2 DEF WritePool
<1>5. CASE DeletePool
  <2>1. CASE pool.finalizer
    <3>1. pool' = [pool EXCEPT !.deleting = TRUE]
      BY <1>5, <2>1 DEF DeletePool, WritePool
    <3>2. pool'.finalizer /\ pool'.exists
      BY <1>0, <1>5, <2>1, <3>1 DEF PoolObject, DeletePool
    <3> QED
      BY <1>5, <3>2 DEF DeletePool, WritePool
  <2>2. CASE ~pool.finalizer
    BY <1>0, <1>5, <2>2 DEF DeletePool, WritePool, NoPool
  <2> QED
    BY <2>1, <2>2
<1>6. CASE CreatePool
  BY <1>0, <1>6 DEF CreatePool, WritePool, NewPool, NoPool
<1> QED
  BY <1>1, <1>2, <1>3, <1>4, <1>5, <1>6 DEF InformerStep, Environment

LEMMA GuardStep == IInv /\ GInv /\ [Next]_vars => GInv'
<1>1. GInv /\ UNCHANGED vars => GInv'
  BY DEF vars, poolVars, workerVars, GInv, CacheSound, BranchSound
<1> QED
  BY <1>1, GuardReconciler, GuardOthers DEF Next

(* The reconciler never works on Nodes for a pool that lost its finalizer, *)
(* however outdated the pool it was given.                                 *)
THEOREM GuardHolds == Spec => []GInv
BY GuardInit, GuardStep, Inductive, PTL DEF Spec
-----------------------------------------------------------------------------
(***************************************************************************)
(* The refinement, step by step: a step changes the pool's phase, the      *)
(* marks of one Node, or neither.                                          *)
(***************************************************************************)
marksBar == [n \in Node |-> MarksOf(node[n])]

PhaseStep(from, to) == Phase(pool) = from /\ Phase(pool') = to /\ UNCHANGED node
NodeStep(n, new) == node' = [node EXCEPT ![n] = new] /\ UNCHANGED pool

(* The pool goes from one phase to the next.                               *)
LEMMA PhaseRefines ==
    ASSUME \/ PhaseStep("absent", "bare") \/ PhaseStep("bare", "guarded")
           \/ PhaseStep("bare", "absent") \/ PhaseStep("guarded", "deleting")
           \/ PhaseStep("deleting", "absent")
    PROVE  Guarded!Next
<1>1. UNCHANGED node => UNCHANGED marksBar
  BY DEF marksBar
<1> QED
  BY <1>1 DEF PhaseStep, marksBar, Guarded!Next, Guarded!Create, Guarded!Guard, Guarded!Delete,
              Guarded!Release, Guarded!Pass

(* One Node's marks change.                                                *)
LEMMA NodeRefines ==
    ASSUME TypeOK, NEW n \in Node, NEW new, NodeStep(n, new),
           Phase(pool) \in {"guarded", "deleting"} \/ MarksOf(new) \subseteq MarksOf(node[n])
    PROVE  Guarded!Next
<1>1. marksBar' = [marksBar EXCEPT ![n] = MarksOf(new)]
  BY DEF NodeStep, TypeOK, marksBar
<1>2. marksBar'[n] = MarksOf(new) /\ marksBar[n] = MarksOf(node[n])
  BY <1>1 DEF marksBar
<1>3. marksBar' = [marksBar EXCEPT ![n] = marksBar'[n]] /\ UNCHANGED Phase(pool)
  BY <1>1, <1>2 DEF NodeStep
<1>4. Guarded!Only(n)
  BY <1>3 DEF Guarded!Only, marksBar
<1>5. Guarded!Mark(n) \/ Guarded!Unmark(n)
  BY <1>2, <1>4 DEF Guarded!Mark, Guarded!Unmark, marksBar
<1> QED
  BY <1>5 DEF Guarded!Next

(* Cleaning a Node, and what users do to one, only takes marks away.       *)
LEMMA UnmarkedFewer ==
    ASSUME TypeOK, NEW old \in NodeObject, NEW n
    PROVE  MarksOf(Unmarked(old, n)) \subseteq MarksOf(old)
<1> DEFINE new == Unmarked(old, n)
<1>1. /\ ~new.mine /\ new.status = "none" /\ new.types \subseteq old.types
      /\ new.taint.status = "none" /\ new.taint.types \subseteq old.taint.types
  BY DEF Unmarked, removeNodeLabel, removeNodeTaint, NodeObject, Taint, NoTaint
<1> HIDE DEF new
<1>2. MarksOf(new) \subseteq MarksOf(old)
  BY <1>1 DEF MarksOf
<1> QED
  BY <1>2 DEF new

LEMMA EditedFewer ==
    ASSUME NEW old \in NodeObject, NEW new \in {[old EXCEPT !.mine = FALSE],
               [old EXCEPT !.status = "none"], [old EXCEPT !.types = {}],
               [old EXCEPT !.taint = NoTaint], [old EXCEPT !.down = ~@], NewNode, NoNode}
    PROVE  MarksOf(new) \subseteq MarksOf(old)
<1>1. /\ new.mine => old.mine
      /\ new.status \in {"none", old.status} /\ new.types \subseteq old.types
      /\ new.taint.status \in {"none", old.taint.status}
      /\ new.taint.types \subseteq old.taint.types
  BY DEF NodeObject, Taint, NoTaint, NewNode, NoNode
<1> QED
  BY <1>1 DEF MarksOf

(* A Node is marked only while the pool has its finalizer.                 *)
LEMMA reconcileNodeRefines ==
    ASSUME IInv, GInv, reconcileNode
    PROVE  Guarded!Next \/ UNCHANGED <<pool, node>>
<1> DEFINE n == p.spec[i].node
           new == Marked(nodeSeen[n], p.spec[i])
<1>1. Phase(pool) \in {"guarded", "deleting"}
  <2>1. pool.finalizer /\ pool.exists
    BY DEF reconcileNode, GInv, BranchSound, CacheSound
  <2> QED
    BY <2>1 DEF Phase, IInv, TypeOK, PoolObject
<1>2. CASE UNCHANGED node
  BY <1>2 DEF reconcileNode, poolVars
<1>3. CASE StoreNode(n, new)
  <2>1. n \in Node
    BY SpecLemma DEF reconcileNode, IInv, TypeOK, Entry
  <2>2. NodeStep(n, new)
    BY <1>3 DEF NodeStep, reconcileNode, StoreNode, SetNode, poolVars
  <2> HIDE DEF n, new
  <2> QED
    BY <1>1, <2>1, <2>2, NodeRefines DEF IInv
<1> QED
  BY <1>2, <1>3 DEF reconcileNode, nodeVars

LEMMA cleanupNodeRefines ==
    ASSUME IInv, GInv, cleanupNode
    PROVE  Guarded!Next \/ UNCHANGED <<pool, node>>
<1> DEFINE n == p.spec[i].node
           new == Unmarked(nodeSeen[n], n)
<1>1. n \in Node
  BY SpecLemma DEF cleanupNode, IInv, TypeOK, Entry
<1>2. CASE UNCHANGED node
  BY <1>2 DEF cleanupNode, poolVars
<1>3. CASE StoreNode(n, new) /\ nodeFresh[n]
  <2>1. NodeStep(n, new)
    BY <1>3 DEF NodeStep, cleanupNode, StoreNode, SetNode, poolVars
  <2>2. nodeSeen[n] = node[n] /\ node[n] \in NodeObject
    BY <1>1, <1>3 DEF IInv, FreshCopies, TypeOK
  <2>3. MarksOf(new) \subseteq MarksOf(node[n])
    BY <2>2, UnmarkedFewer DEF IInv
  <2> HIDE DEF n, new
  <2> QED
    BY <1>1, <2>1, <2>3, NodeRefines DEF IInv
<1> QED
  BY <1>2, <1>3 DEF cleanupNode, nodeVars

(* The controller's writes of the pool: only a pool that is being deleted  *)
(* loses its finalizer.                                                    *)
LEMMA PoolWritesRefine ==
    ASSUME IInv, GInv, addFinalizer \/ ReportFailure \/ updateStatus \/ removeFinalizer
    PROVE  Guarded!Next \/ UNCHANGED <<Phase(pool), node>>
<1> USE DEF poolVars, nodeVars
<1>0. pool \in PoolObject /\ (pFresh => p = pool) /\ UNCHANGED node
  BY DEF IInv, TypeOK, FreshCopies, addFinalizer, ReportFailure, updateStatus, removeFinalizer
<1>1. CASE UNCHANGED pool
  BY <1>0, <1>1
<1>2. CASE addFinalizer /\ pFresh /\ pool' = [p EXCEPT !.finalizer = TRUE]
  <2>1. pool.exists /\ ~pool.finalizer /\ ~pool.deleting
    BY <1>0, <1>2 DEF addFinalizer, IInv, Branches, PoolObject
  <2>2. pool'.exists /\ pool'.finalizer /\ ~pool'.deleting
    BY <1>0, <1>2, <2>1 DEF PoolObject
  <2>3. PhaseStep("bare", "guarded")
    BY <1>0, <2>1, <2>2 DEF PhaseStep, Phase
  <2> QED
    BY <2>3, PhaseRefines
<1>3. CASE /\ pFresh
           /\ \E c, r : pool' = [p EXCEPT !.conditions = c, !.ready = r]
  <2>1. /\ pool'.exists = pool.exists /\ pool'.finalizer = pool.finalizer
        /\ pool'.deleting = pool.deleting
    BY <1>0, <1>3 DEF PoolObject
  <2> QED
    BY <1>0, <2>1 DEF Phase
<1>4. CASE removeFinalizer /\ pFresh /\ pool' = NoPool
  <2>1. pool.exists /\ pool.deleting
    BY <1>0, <1>4 DEF removeFinalizer, IInv, Branches, GInv, BranchSound
  <2>2. PhaseStep("deleting", "absent")
    BY <1>0, <1>4, <2>1 DEF PhaseStep, Phase, NoPool
  <2> QED
    BY <2>2, PhaseRefines
<1>5. CASE ReportFailure /\ pFresh /\ pool' = [p EXCEPT !.ready = "False"]
  <2>1. /\ pool'.exists = pool.exists /\ pool'.finalizer = pool.finalizer
        /\ pool'.deleting = pool.deleting
    BY <1>0, <1>5 DEF PoolObject
  <2> QED
    BY <1>0, <2>1 DEF Phase
<1> QED
  BY <1>1, <1>2, <1>3, <1>4, <1>5
     DEF addFinalizer, ReportFailure, updateStatus, removeFinalizer, StorePool

(* What others do to the pool.                                             *)
LEMMA PoolRequestsRefine ==
    ASSUME IInv, GInv, ChangeSpec \/ DeletePool \/ CreatePool
    PROVE  Guarded!Next \/ UNCHANGED <<Phase(pool), node>>
<1> USE DEF nodeVars
<1>0. pool \in PoolObject /\ (pool.finalizer => pool.exists) /\ UNCHANGED node
  BY DEF IInv, TypeOK, GInv, CacheSound, ChangeSpec, DeletePool, CreatePool, WritePool
<1>1. CASE ChangeSpec
  <2>1. PICK s \in Specs : pool' = [pool EXCEPT !.spec = s]
    BY <1>1 DEF ChangeSpec, WritePool
  <2>2. /\ pool'.exists = pool.exists /\ pool'.finalizer = pool.finalizer
        /\ pool'.deleting = pool.deleting
    BY <1>0, <2>1 DEF PoolObject
  <2> QED
    BY <1>0, <2>2 DEF Phase
<1>2. CASE DeletePool /\ pool.finalizer
  <2>1. pool' = [pool EXCEPT !.deleting = TRUE] /\ pool.exists /\ ~pool.deleting
    BY <1>2 DEF DeletePool, WritePool
  <2>2. pool'.exists /\ pool'.deleting
    BY <1>0, <2>1 DEF PoolObject
  <2>3. PhaseStep("guarded", "deleting")
    BY <1>0, <1>2, <2>1, <2>2 DEF PhaseStep, Phase
  <2> QED
    BY <2>3, PhaseRefines
<1>3. CASE DeletePool /\ ~pool.finalizer
  <2>1. PhaseStep("bare", "absent")
    BY <1>0, <1>3 DEF DeletePool, WritePool, PhaseStep, Phase, NoPool
  <2> QED
    BY <2>1, PhaseRefines
<1>4. CASE CreatePool
  <2>1. PICK s \in Specs : pool' = NewPool(s) /\ ~pool.exists
    BY <1>4 DEF CreatePool, WritePool
  <2>2. PhaseStep("absent", "bare")
    BY <1>0, <2>1 DEF PhaseStep, Phase, NewPool, NoPool
  <2> QED
    BY <2>2, PhaseRefines
<1> QED
  BY <1>1, <1>2, <1>3, <1>4

(* What others do to a Node.                                               *)
LEMMA NodeWritesRefine ==
    ASSUME TypeOK, NEW n \in Node, Heartbeat(n) \/ ToggleDown(n) \/ EditNode(n) \/ ReplaceNode(n)
    PROVE  Guarded!Next \/ UNCHANGED <<pool, node>>
<1> DEFINE old == node[n]
           changed == {[old EXCEPT !.mine = FALSE], [old EXCEPT !.status = "none"],
                       [old EXCEPT !.types = {}], [old EXCEPT !.taint = NoTaint],
                       [old EXCEPT !.down = ~@], NewNode, NoNode}
<1>1. old \in NodeObject
  BY DEF TypeOK
<1>2. PICK new : WriteNode(n, new) /\ (new = old \/ new \in changed)
  BY DEF Heartbeat, ToggleDown, EditNode, ReplaceNode
<1>3. MarksOf(new) \subseteq MarksOf(old)
  BY <1>1, <1>2, EditedFewer
<1>4. NodeStep(n, new)
  BY <1>2 DEF WriteNode, SetNode, NodeStep, poolVars
<1> QED
  BY <1>3, <1>4, NodeRefines

LEMMA StepRefines ==
    ASSUME IInv, GInv, [Next]_vars
    PROVE  Guarded!Next \/ UNCHANGED <<Phase(pool), marksBar>>
<1>1. UNCHANGED <<pool, node>> => UNCHANGED <<Phase(pool), marksBar>>
  BY DEF marksBar
<1>2. UNCHANGED node => UNCHANGED marksBar
  BY DEF marksBar
<1>3. CASE reconcileNode \/ cleanupNode
  BY <1>1, <1>3, reconcileNodeRefines, cleanupNodeRefines
<1>4. CASE \/ addFinalizer \/ ReportFailure \/ updateStatus \/ removeFinalizer
           \/ ChangeSpec \/ DeletePool \/ CreatePool
  BY <1>2, <1>4, PoolWritesRefine, PoolRequestsRefine
<1>5. CASE \E n \in Node : Heartbeat(n) \/ ToggleDown(n) \/ EditNode(n) \/ ReplaceNode(n)
  BY <1>1, <1>5, NodeWritesRefine DEF IInv
<1>6. CASE \/ Reconcile \/ NodesDone \/ CleanupDone \/ InformerStep \/ Tick \/ Resync
           \/ FailRequest \/ Crash \/ UNCHANGED vars
  <2>1. UNCHANGED <<pool, node>>
    BY <1>6 DEF Reconcile, NodesDone, CleanupDone, InformerStep, DeliverPool, DeliverNode, Tick,
                Resync, FailRequest, Crash, vars, poolVars, nodeVars
  <2> QED
    BY <1>1, <2>1
<1> QED
  BY <1>3, <1>4, <1>5, <1>6 DEF Next, ReconcilerStep, Environment

(* The controller keeps the finalizer's promise, however outdated the      *)
(* copies are it acts on: it marks a Node only for a pool that cannot go   *)
(* unnoticed, and takes the finalizer only from a pool being deleted.      *)
THEOREM Implements == Spec => ImplementsGuardedPool
<1>1. Init => Guarded!Init
  <2> SUFFICES ASSUME Init PROVE Guarded!Init
    OBVIOUS
  <2>1. Phase(pool) = "bare"
    BY DEF Init, NewPool, NoPool, Phase
  <2>2. MarksOf(NewNode) = {}
    BY DEF MarksOf, NewNode, NoTaint
  <2> QED
    BY <2>1, <2>2 DEF Init, Guarded!Init
<1>2. IInv /\ GInv /\ [Next]_vars => [Guarded!Next]_(Guarded!vars)
  BY StepRefines DEF Guarded!vars, marksBar
<1> QED
  BY <1>1, <1>2, Inductive, GuardHolds, PTL DEF Spec, ImplementsGuardedPool, Guarded!Spec
=============================================================================
