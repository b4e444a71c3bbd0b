----------------------- MODULE NodePoolControllerProofs -----------------------
(***************************************************************************)
(* Proofs about NodePoolController, for every value of its constants.      *)
(***************************************************************************)
EXTENDS NodePoolController, TLAPS

-----------------------------------------------------------------------------
(* Lemmas about the objects.                                               *)

LEMMA PoolLemma ==
    /\ NoPool \in PoolObject
    /\ \A s \in Specs : NewPool(s) \in PoolObject
<1>0. <<>> \in Seq(Report)
  OBVIOUS
<1>1. NoPool \in PoolObject
  BY <1>0 DEF NoPool, PoolObject
<1>2. ASSUME NEW s \in Specs PROVE NewPool(s) \in PoolObject
  <2>1. ~NoPool.deleting
    BY DEF NoPool
  <2> QED
    BY <1>1, <2>1 DEF NewPool, PoolObject
<1> QED
  BY <1>1, <1>2

LEMMA NodeLemma ==
    NoTaint \in Taint /\ NewNode \in NodeObject /\ NoNode \in NodeObject
<1>1. NoTaint \in Taint
  BY BoundAssumption DEF NoTaint, Taint, Status
<1> QED
  BY <1>1 DEF NewNode, NoNode, NodeObject, Status

(* The entries of a pool are entries, and its length is a number.          *)
LEMMA SpecLemma ==
    ASSUME NEW o \in PoolObject
    PROVE  /\ o.spec \in Seq(Entry)
           /\ Len(o.spec) \in Nat
           /\ DOMAIN o.spec = 1 .. Len(o.spec)
           /\ \A k \in 1 .. Len(o.spec) : o.spec[k] \in Entry
           /\ 1 \in 1 .. Len(o.spec) + 1
<1>1. o.spec \in Seq(Entry)
  <2>1. o.spec \in Specs \cup {<<>>}
    BY DEF PoolObject
  <2>2. <<>> \in Seq(Entry)
    OBVIOUS
  <2> QED
    BY <2>1, <2>2, EntriesAssumption
<1> QED
  BY <1>1

(* A Node without some of its types, and one without marks, is a Node.     *)
LEMMA RemoveLemma ==
    ASSUME NEW old \in NodeObject, NEW n \in Node
    PROVE  /\ removeNodeLabel(old, n) \in NodeObject
           /\ removeNodeTaint(old, n) \in NodeObject
           /\ removeNodeTaint(old, n).taint.status = "none"
           /\ Unmarked(old, n) \in NodeObject
<1>1. removeNodeLabel(old, n) \in NodeObject
  BY DEF removeNodeLabel, NodeObject, Status
<1>2. ASSUME NEW o \in NodeObject
      PROVE  /\ removeNodeTaint(o, n) \in NodeObject
             /\ removeNodeTaint(o, n).taint.status = "none"
             /\ removeNodeTaint(o, n).status = o.status
  <2> DEFINE types == o.taint.types \ TypesOf(n)
             taint == [o.taint EXCEPT !.status = "none", !.types = types]
  <2>1. taint \in Taint /\ taint.status = "none"
    BY DEF NodeObject, Taint, Status
  <2>2. removeNodeTaint(o, n) = [o EXCEPT !.taint = IF types = {} THEN NoTaint ELSE taint]
    BY DEF removeNodeTaint, NodeObject
  <2>3. NoTaint \in Taint /\ NoTaint.status = "none"
    BY NodeLemma DEF NoTaint
  <2> QED
    BY <2>1, <2>2, <2>3 DEF NodeObject
<1>3. Unmarked(old, n) \in NodeObject
  <2>1. removeNodeTaint(removeNodeLabel(old, n), n) \in NodeObject
    BY <1>1, <1>2
  <2> QED
    BY <2>1 DEF Unmarked, NodeObject
<1> QED
  BY <1>1, <1>2, <1>3

(* What reconcileNode writes is a Node, and ready only if it is not down.  *)
LEMMA MarkedLemma ==
    ASSUME NEW old \in NodeObject, NEW entry \in Entry, clock \in 0 .. MaxClock
    PROVE  /\ Marked(old, entry) \in NodeObject
           /\ Marked(old, entry).status = "ready" => ~old.down
           /\ Marked(old, entry).taint.status = "ready" =>
                 ~old.down \/ Marked(old, entry).taint = old.taint
<1> DEFINE bare  == removeNodeLabel(old, entry.node)
           clean == removeNodeTaint(old, entry.node).taint
           value == StatusValue(old, entry)
           taint == [status |-> value, types |-> clean.types \cup entry.types,
                     added |-> clock]
<1>1. entry.node \in Node /\ entry.types \subseteq MachineType /\ entry.taint \in BOOLEAN
  BY DEF Entry
<1>2. bare \in NodeObject /\ clean \in Taint /\ bare.taint = old.taint
  BY <1>1, RemoveLemma DEF NodeObject, removeNodeLabel
<1>3. value \in Status /\ (value = "ready" => ~old.down)
  BY DEF StatusValue, Status
<1>4. taint \in Taint
  BY <1>1, <1>2, <1>3 DEF Taint
<1>5. Marked(old, entry) = [bare EXCEPT !.mine = TRUE, !.status = value,
                               !.types = bare.types \cup entry.types,
                               !.taint = IF entry.taint THEN taint ELSE bare.taint]
  BY <1>2 DEF Marked, NodeObject
<1> HIDE DEF bare, value, taint
<1>6. Marked(old, entry) \in NodeObject /\ Marked(old, entry).status = value
  BY <1>1, <1>2, <1>3, <1>4, <1>5 DEF NodeObject
<1>7. Marked(old, entry).taint = IF entry.taint THEN taint ELSE old.taint
  BY <1>2, <1>5 DEF NodeObject
<1>8. taint.status = value
  BY DEF taint
<1> QED
  BY <1>3, <1>6, <1>7, <1>8

(* The report has an entry for every entry of the pool.                    *)
LEMMA ReportLemma ==
    ASSUME NEW o \in PoolObject, NEW nodes \in [Node -> NodeObject]
    PROVE  [o EXCEPT !.conditions = Conditions(nodes, o.spec), !.ready = "True"]
              \in PoolObject
<1>1. ASSUME NEW k \in 1 .. Len(o.spec)
      PROVE  [name |-> o.spec[k].node,
              condition |-> ConditionOf(nodes[o.spec[k].node], o.spec[k])] \in Report
  <2>1. o.spec[k].node \in Node
    BY SpecLemma DEF Entry
  <2> QED
    BY <2>1 DEF ConditionOf, Report
<1>2. Conditions(nodes, o.spec) \in [1 .. Len(o.spec) -> Report]
  BY <1>1, SpecLemma DEF Conditions
<1>3. Conditions(nodes, o.spec) \in Seq(Report)
  BY <1>2, SpecLemma
<1> QED
  BY <1>3 DEF PoolObject

-----------------------------------------------------------------------------
(* Type correctness.                                                       *)

LEMMA TypeInit == Init => TypeOK
<1> SUFFICES ASSUME Init PROVE TypeOK
  OBVIOUS
<1>1. pool \in PoolObject /\ p \in PoolObject
  BY PoolLemma DEF Init
<1>2. node \in [Node -> NodeObject]
  BY NodeLemma DEF Init
<1>3. i \in 1 .. Len(p.spec) + 1
  BY <1>1, SpecLemma DEF Init
<1>4. poolSeen \in PoolObject /\ nodeSeen \in [Node -> NodeObject]
  BY <1>1, <1>2 DEF Init
<1>5. clock \in 0 .. MaxClock /\ budget \in 0 .. MaxDisturbances
  BY BoundAssumption DEF Init
<1> QED
  BY <1>1, <1>2, <1>3, <1>4, <1>5 DEF Init, TypeOK

(* A Node gets a new version.                                              *)
LEMMA SetNodeType ==
    ASSUME TypeOK, NEW n \in Node, NEW new \in NodeObject, SetNode(n, new)
    PROVE  /\ node' \in [Node -> NodeObject]
           /\ nodeSeen' \in [Node -> NodeObject]
           /\ nodeEvent' \in [Node -> BOOLEAN]
<1>1. (NodeEvent(node[n], new) /\ nodeReconcileRequest(node[n], new)) \in BOOLEAN
  OBVIOUS
<1> QED
  BY <1>1 DEF TypeOK, SetNode

LEMMA ReturnType ==
    ASSUME TypeOK, NEW requeue \in BOOLEAN, Return(requeue)
    PROVE  /\ pc' = "idle" /\ p' \in PoolObject /\ pFresh' \in BOOLEAN
           /\ i' \in 1 .. Len(p'.spec) + 1
           /\ queued' \in BOOLEAN
<1>1. p' = NoPool /\ i' = 1
  BY DEF Return
<1>2. 1 \in 1 .. Len(NoPool.spec) + 1
  BY PoolLemma, SpecLemma
<1> QED
  BY <1>1, <1>2, PoolLemma DEF Return, TypeOK

LEMMA ReconcilerType == TypeOK /\ ReconcilerStep => TypeOK'
<1> SUFFICES ASSUME TypeOK, ReconcilerStep PROVE TypeOK'
  OBVIOUS
<1> USE DEF poolVars, nodeVars, workerVars
<1>0. /\ p \in PoolObject /\ poolSeen \in PoolObject
      /\ Len(p.spec) \in Nat /\ 1 \in 1 .. Len(p.spec) + 1
      /\ 1 \in 1 .. Len(poolSeen.spec) + 1
      /\ \A k \in 1 .. Len(p.spec) : p.spec[k] \in Entry
      /\ i \in 1 .. Len(p.spec) + 1
      /\ nodeSeen \in [Node -> NodeObject] /\ node \in [Node -> NodeObject]
  BY SpecLemma DEF TypeOK
<1>1. CASE Reconcile
  <2>1. CASE UNCHANGED workerVars
    BY <1>1, <2>1 DEF Reconcile, TypeOK
  <2>2. CASE p' = poolSeen /\ pFresh' = poolFresh /\ i' = 1
    <3>1. i' \in 1 .. Len(p'.spec) + 1
      BY <1>0, <2>2
    <3> QED
      BY <1>1, <2>2, <3>1 DEF Reconcile, TypeOK
  <2> QED
    BY <1>1, <2>1, <2>2 DEF Reconcile
<1>2. CASE addFinalizer
  <2>1. [p EXCEPT !.finalizer = TRUE] \in PoolObject
    BY <1>0 DEF PoolObject
  <2> QED
    BY <1>2, <2>1, ReturnType DEF addFinalizer, StorePool, TypeOK
<1>3. CASE reconcileNode
  <2> DEFINE entry == p.spec[i]
             new   == Marked(nodeSeen[entry.node], entry)
  <2>1. i \in 1 .. Len(p.spec) /\ entry \in Entry
    BY <1>0, <1>3 DEF reconcileNode
  <2>2. entry.node \in Node /\ new \in NodeObject
    <3>1. entry.node \in Node
      BY <2>1 DEF Entry
    <3>2. clock \in 0 .. MaxClock
      BY DEF TypeOK
    <3> QED
      BY <1>0, <2>1, <3>1, <3>2, MarkedLemma
  <2>3. /\ pc' \in {"node", "failed"} /\ i' \in 1 .. Len(p.spec) + 1
        /\ UNCHANGED <<poolVars, p, pFresh, queued, clock, budget>>
    BY <1>0, <1>3, <2>1 DEF reconcileNode, GoTo, NextEntry
  <2>4. /\ node' \in [Node -> NodeObject] /\ nodeSeen' \in [Node -> NodeObject]
        /\ nodeFresh' \in [Node -> BOOLEAN] /\ nodeEvent' \in [Node -> BOOLEAN]
    <3>1. CASE UNCHANGED nodeVars
      BY <3>1 DEF TypeOK
    <3>2. CASE StoreNode(entry.node, new)
      <4>1. nodeFresh' \in [Node -> BOOLEAN]
        BY <2>2, <3>2 DEF StoreNode, TypeOK
      <4> QED
        BY <2>2, <3>2, <4>1, SetNodeType DEF StoreNode
    <3> QED
      BY <1>3, <3>1, <3>2 DEF reconcileNode
  <2> QED
    BY <2>3, <2>4 DEF TypeOK
<1>4. CASE NodesDone
  BY <1>0, <1>4 DEF NodesDone, GoTo, TypeOK
<1>5. CASE ReportFailure
  <2>1. [p EXCEPT !.ready = "False"] \in PoolObject
    BY <1>0 DEF PoolObject
  <2> QED
    BY <1>5, <2>1, ReturnType DEF ReportFailure, TypeOK
<1>6. CASE updateStatus
  <2>1. [p EXCEPT !.conditions = Conditions(nodeSeen, p.spec), !.ready = "True"] \in PoolObject
    BY <1>0, ReportLemma
  <2> QED
    BY <1>6, <2>1, ReturnType DEF updateStatus, StorePool, TypeOK
<1>7. CASE cleanupNode
  <2> DEFINE n   == p.spec[i].node
             new == Unmarked(nodeSeen[n], n)
  <2>1. i \in 1 .. Len(p.spec) /\ p.spec[i] \in Entry
    BY <1>0, <1>7 DEF cleanupNode
  <2>2. n \in Node /\ new \in NodeObject
    BY <1>0, <2>1, RemoveLemma DEF Entry
  <2>3. /\ pc' \in {"cleanup", "removeFinalizer", "idle"}
        /\ p' \in PoolObject /\ pFresh' \in BOOLEAN /\ queued' \in BOOLEAN
        /\ i' \in 1 .. Len(p'.spec) + 1
        /\ UNCHANGED <<poolVars, clock, budget>>
    <3>1. CASE Return(TRUE)
      BY <1>7, <3>1, ReturnType DEF cleanupNode
    <3>2. CASE GoTo("removeFinalizer") \/ NextEntry
      <4>1. /\ pc' \in {"cleanup", "removeFinalizer"} /\ i' \in 1 .. Len(p.spec) + 1
            /\ UNCHANGED <<p, pFresh, queued>>
        BY <1>0, <1>7, <2>1, <3>2 DEF cleanupNode, GoTo, NextEntry
      <4> QED
        BY <1>7, <4>1 DEF cleanupNode, TypeOK
    <3> QED
      BY <1>7, <3>1, <3>2 DEF cleanupNode
  <2>4. /\ node' \in [Node -> NodeObject] /\ nodeSeen' \in [Node -> NodeObject]
        /\ nodeFresh' \in [Node -> BOOLEAN] /\ nodeEvent' \in [Node -> BOOLEAN]
    <3>1. CASE UNCHANGED nodeVars
      BY <3>1 DEF TypeOK
    <3>2. CASE StoreNode(n, new)
      <4>1. nodeFresh' \in [Node -> BOOLEAN]
        BY <2>2, <3>2 DEF StoreNode, TypeOK
      <4> QED
        BY <2>2, <3>2, <4>1, SetNodeType DEF StoreNode
    <3> QED
      BY <1>7, <3>1, <3>2 DEF cleanupNode
  <2> QED
    BY <2>3, <2>4 DEF TypeOK
<1>8. CASE CleanupDone
  BY <1>0, <1>8 DEF CleanupDone, GoTo, TypeOK
<1>9. CASE removeFinalizer
  BY <1>9, PoolLemma, ReturnType DEF removeFinalizer, StorePool, TypeOK
<1> QED
  BY <1>1, <1>2, <1>3, <1>4, <1>5, <1>6, <1>7, <1>8, <1>9 DEF ReconcilerStep

LEMMA InformerType == TypeOK /\ InformerStep => TypeOK'
<1> SUFFICES ASSUME TypeOK, InformerStep PROVE TypeOK'
  OBVIOUS
<1> USE DEF poolVars, nodeVars, workerVars
<1>1. CASE DeliverPool
  BY <1>1 DEF DeliverPool, TypeOK
<1>2. ASSUME NEW n \in Node, DeliverNode(n) PROVE TypeOK'
  BY <1>2 DEF DeliverNode, TypeOK
<1> QED
  BY <1>1, <1>2 DEF InformerStep

(* Someone writes a Node, or the pool.                                     *)
LEMMA WriteNodeType ==
    ASSUME TypeOK, NEW n \in Node, NEW new \in NodeObject, WriteNode(n, new),
           budget' \in 0 .. MaxDisturbances
    PROVE  TypeOK'
<1>1. nodeFresh' \in [Node -> BOOLEAN]
  BY DEF WriteNode, TypeOK
<1> QED
  BY <1>1, SetNodeType DEF WriteNode, TypeOK, poolVars, workerVars

LEMMA WritePoolType ==
    ASSUME TypeOK, NEW new \in PoolObject, WritePool(new),
           budget' \in 0 .. MaxDisturbances
    PROVE  TypeOK'
BY DEF WritePool, TypeOK, nodeVars

LEMMA EnvironmentType == TypeOK /\ Environment => TypeOK'
<1> SUFFICES ASSUME TypeOK, Environment PROVE TypeOK'
  OBVIOUS
<1> USE DEF poolVars, nodeVars, workerVars
<1>0. /\ budget \in 0 .. MaxDisturbances
      /\ Disturb => budget' \in 0 .. MaxDisturbances
  BY BoundAssumption DEF Disturb, TypeOK
<1>1. ASSUME NEW n \in Node,
             Heartbeat(n) \/ ToggleDown(n) \/ EditNode(n) \/ ReplaceNode(n)
      PROVE  TypeOK'
  <2>0. node[n] \in NodeObject
    BY DEF TypeOK
  <2>1. PICK new \in NodeObject : WriteNode(n, new)
    <3>1. CASE Heartbeat(n)
      BY <2>0, <3>1 DEF Heartbeat
    <3>2. CASE ToggleDown(n)
      <4>1. [node[n] EXCEPT !.down = ~@] \in NodeObject
        BY <2>0 DEF NodeObject
      <4> QED
        BY <3>2, <4>1 DEF ToggleDown
    <3>3. CASE EditNode(n)
      <4>1. /\ [node[n] EXCEPT !.mine = FALSE] \in NodeObject
            /\ [node[n] EXCEPT !.status = "none"] \in NodeObject
            /\ [node[n] EXCEPT !.types = {}] \in NodeObject
            /\ [node[n] EXCEPT !.taint = NoTaint] \in NodeObject
        BY <2>0, NodeLemma DEF NodeObject, Status
      <4> QED
        BY <3>3, <4>1 DEF EditNode
    <3>4. CASE ReplaceNode(n)
      BY <3>4, NodeLemma DEF ReplaceNode
    <3> QED
      BY <1>1, <3>1, <3>2, <3>3, <3>4
  <2>2. budget' \in 0 .. MaxDisturbances
    BY <1>0, <1>1 DEF Heartbeat, ToggleDown, EditNode, ReplaceNode
  <2> QED
    BY <2>1, <2>2, WriteNodeType
<1>2. CASE ChangeSpec
  <2>1. PICK s \in Specs : WritePool([pool EXCEPT !.spec = s])
    BY <1>2 DEF ChangeSpec
  <2>2. [pool EXCEPT !.spec = s] \in PoolObject
    BY DEF TypeOK, PoolObject
  <2> QED
    BY <1>0, <1>2, <2>1, <2>2, WritePoolType DEF ChangeSpec
<1>3. CASE DeletePool
  <2>1. pool.finalizer => [pool EXCEPT !.deleting = TRUE] \in PoolObject
    BY DEF TypeOK, PoolObject
  <2> QED
    BY <1>0, <1>3, <2>1, PoolLemma, WritePoolType DEF DeletePool
<1>4. CASE CreatePool
  BY <1>0, <1>4, PoolLemma, WritePoolType DEF CreatePool
<1>5. CASE Tick
  BY <1>5, BoundAssumption DEF Tick, TypeOK
<1>6. CASE Resync
  BY <1>0, <1>6 DEF Resync, TypeOK
<1>7. CASE FailRequest
  <2>1. CASE pc = "node" /\ GoTo("failed")
    <3>1. 1 \in 1 .. Len(p.spec) + 1
      BY SpecLemma DEF TypeOK
    <3> QED
      BY <1>0, <1>7, <2>1, <3>1 DEF FailRequest, GoTo, TypeOK
  <2>2. CASE Return(TRUE)
    BY <1>0, <1>7, <2>2, ReturnType DEF FailRequest, TypeOK
  <2> QED
    BY <1>7, <2>1, <2>2 DEF FailRequest
<1>8. CASE Crash
  BY <1>0, <1>8, ReturnType DEF Crash, TypeOK
<1> QED
  BY <1>1, <1>2, <1>3, <1>4, <1>5, <1>6, <1>7, <1>8 DEF Environment

LEMMA TypeStep == TypeOK /\ [Next]_vars => TypeOK'
<1>1. TypeOK /\ UNCHANGED vars => TypeOK'
  BY DEF TypeOK, vars, poolVars, nodeVars, workerVars
<1> QED
  BY <1>1, ReconcilerType, InformerType, EnvironmentType DEF Next

(* Every variable keeps its type: only a pool with the finalizer waits to  *)
(* be deleted, reports are lists of conditions, and no loop leaves the     *)
(* node pool (machinenodepool_controller.go, reconcile).                   *)
THEOREM TypeCorrect == Spec => []TypeOK
BY TypeInit, TypeStep, PTL DEF Spec

-----------------------------------------------------------------------------
(***************************************************************************)
(* The inductive invariant.                                                *)
(*                                                                         *)
(* IdleMeansMarked speaks of the moment the reconciler rests.  It holds    *)
(* because while nothing has queued the pool again and the cached pool is  *)
(* the stored one, every Node the loop has passed is marked or has changed *)
(* since in a way whose delivery will queue the pool; and what a Node's    *)
(* report was computed from is the stored Node or an older version of it,  *)
(* followed by such a change.                                              *)
(***************************************************************************)

(* A copy marked current equals what is stored; an undisturbed reconcile   *)
(* works on the current pool; an annotated Node the cache does not know as *)
(* it is has an event on its way.                                          *)
FreshCopies ==
    /\ poolFresh => poolSeen = pool
    /\ pFresh => p = pool
    /\ pc # "idle" /\ ~queued /\ poolFresh => pFresh
    /\ \A n \in Node :
          /\ nodeFresh[n] => nodeSeen[n] = node[n] /\ ~nodeEvent[n]
          /\ node[n].mine => node[n].exists
          /\ node[n].mine /\ ~nodeEvent[n] => nodeSeen[n] = node[n]

(* Which branch of reconcile the reconciler is in.                         *)
Branches ==
    /\ pc # "idle" => p.exists
    /\ pc = "addFinalizer" => ~p.finalizer
    /\ pc \in {"node", "status"} => p.finalizer /\ ~p.deleting

MarkedOrPending(k) ==
    LET n == pool.spec[k].node
    IN  node[n].mine => nodeEvent[n] \/ HasMarks(node[n], pool.spec[k])

ReportedOrPending(k) ==
    LET n == pool.spec[k].node
    IN  node[n].mine =>
            \/ nodeEvent[n]
            \/ /\ k \in DOMAIN pool.conditions
               /\ pool.conditions[k] =
                     [name |-> n, condition |-> ConditionOf(node[n], pool.spec[k])]

Progress ==
    (poolFresh /\ ~queued /\ pool.exists) =>
        /\ pc = "idle" =>
              /\ pool.finalizer /\ ~pool.deleting
              /\ \A k \in DOMAIN pool.spec : MarkedOrPending(k) /\ ReportedOrPending(k)
        /\ pc = "node" => \A k \in DOMAIN pool.spec : k < i => MarkedOrPending(k)
        /\ pc = "status" => \A k \in DOMAIN pool.spec : MarkedOrPending(k)

IInv == TypeOK /\ FreshCopies /\ Branches /\ Progress

LEMMA InvInit == Init => IInv
<1> SUFFICES ASSUME Init PROVE IInv
  OBVIOUS
<1>1. TypeOK
  BY TypeInit
<1>2. \A n \in Node : node[n] = NewNode /\ nodeSeen[n] = NewNode /\ ~nodeEvent[n]
  BY DEF Init
<1>3. FreshCopies
  BY <1>2 DEF Init, FreshCopies, NewNode
<1>4. Branches /\ Progress
  BY DEF Init, Branches, Progress
<1> QED
  BY <1>1, <1>3, <1>4 DEF IInv

(* A Node's new version either has no annotation, or it is the old one, or *)
(* its delivery will queue the pool.                                       *)
LEMMA SetNodeCalm ==
    ASSUME TypeOK, FreshCopies, NEW n \in Node, NEW new \in NodeObject, SetNode(n, new),
           new.mine => new.exists /\ node[n].exists
    PROVE  /\ \A m \in Node :
                 /\ node'[m].mine => node'[m].exists
                 /\ node'[m].mine /\ ~nodeEvent'[m] =>
                       node'[m] = node[m] /\ ~nodeEvent[m] /\ nodeSeen'[m] = node'[m]
           /\ new = node[n] => node' = node /\ nodeEvent' = nodeEvent
           /\ nodeSeen' = nodeSeen
<1>1. /\ node' = [node EXCEPT ![n] = new]
      /\ nodeEvent' = [nodeEvent EXCEPT ![n] =
            nodeEvent[n] \/ (NodeEvent(node[n], new) /\ nodeReconcileRequest(node[n], new))]
      /\ nodeSeen' = nodeSeen
  BY DEF SetNode
<1>2. node \in [Node -> NodeObject] /\ nodeEvent \in [Node -> BOOLEAN]
  BY DEF TypeOK
<1>3. ASSUME NEW m \in Node, m # n
      PROVE  node'[m] = node[m] /\ nodeEvent'[m] = nodeEvent[m]
  BY <1>1, <1>2, <1>3
<1>4. node'[n] = new
  BY <1>1, <1>2
<1>5. nodeEvent'[n] = (nodeEvent[n] \/ (NodeEvent(node[n], new)
                                         /\ nodeReconcileRequest(node[n], new)))
  BY <1>1, <1>2
<1>6. new.mine /\ ~nodeEvent'[n] => new = node[n] /\ ~nodeEvent[n]
  BY <1>5 DEF NodeEvent, nodeReconcileRequest
<1>7. ASSUME new = node[n] PROVE node' = node /\ nodeEvent' = nodeEvent
  <2>1. ~NodeEvent(node[n], new)
    BY <1>7 DEF NodeEvent
  <2>2. nodeEvent'[n] = nodeEvent[n]
    BY <1>2, <1>5, <2>1
  <2> QED
    BY <1>1, <1>2, <1>7, <2>2
<1>8. \A m \in Node : nodeSeen'[m] = nodeSeen[m]
  BY <1>1
<1> QED
  BY <1>1, <1>3, <1>4, <1>6, <1>7, <1>8 DEF FreshCopies

(* A step that leaves the pool, and every annotated Node without an event, *)
(* as they are keeps what is said of the pool's entries.                   *)
LEMMA EntriesKept ==
    ASSUME pool' = pool,
           \A m \in Node : node'[m].mine /\ ~nodeEvent'[m] =>
                              node'[m] = node[m] /\ ~nodeEvent[m],
           NEW k, pool.spec[k].node \in Node
    PROVE  /\ MarkedOrPending(k) => MarkedOrPending(k)'
           /\ ReportedOrPending(k) => ReportedOrPending(k)'
<1> DEFINE n == pool.spec[k].node
<1>1. CASE ~node'[n].mine \/ nodeEvent'[n]
  BY <1>1 DEF MarkedOrPending, ReportedOrPending
<1>2. CASE node'[n] = node[n] /\ ~nodeEvent[n]
  <2>1. HasMarks(node[n], pool.spec[k])' = HasMarks(node[n], pool.spec[k])
    BY <1>2 DEF HasMarks, StatusValue
  <2>2. ConditionOf(node[n], pool.spec[k])' = ConditionOf(node[n], pool.spec[k])
    BY <1>2 DEF ConditionOf
  <2> QED
    BY <1>2, <2>1, <2>2 DEF MarkedOrPending, ReportedOrPending
<1> QED
  BY <1>1, <1>2

(* The same for the whole of Progress, while the reconciler stays where it *)
(* is.                                                                     *)
LEMMA ProgressKept ==
    ASSUME TypeOK, Progress, UNCHANGED <<pool, poolFresh, queued, pc, i>>,
           \A m \in Node : node'[m].mine /\ ~nodeEvent'[m] =>
                              node'[m] = node[m] /\ ~nodeEvent[m]
    PROVE  Progress'
<1>1. \A k \in DOMAIN pool.spec : pool.spec[k].node \in Node
  BY SpecLemma DEF TypeOK, Entry
<1>2. \A k \in DOMAIN pool.spec :
          /\ MarkedOrPending(k) => MarkedOrPending(k)'
          /\ ReportedOrPending(k) => ReportedOrPending(k)'
  BY <1>1, EntriesKept
<1> QED
  BY <1>2 DEF Progress

(* What Marked makes of a Node has the marks asked for; a Node that does   *)
(* not differ from it had them.                                            *)
LEMMA MarkedHasMarks ==
    ASSUME NEW old \in NodeObject, NEW entry \in Entry, clock \in 0 .. MaxClock
    PROVE  /\ HasMarks(Marked(old, entry), entry)
           /\ Marked(old, entry).mine
           /\ Marked(old, entry).exists = old.exists
           /\ ~Differs(old, Marked(old, entry), entry) => HasMarks(old, entry)
<1> DEFINE bare  == removeNodeLabel(old, entry.node)
           clean == removeNodeTaint(old, entry.node).taint
           value == StatusValue(old, entry)
           taint == [status |-> value, types |-> clean.types \cup entry.types,
                     added |-> clock]
           new   == Marked(old, entry)
<1>1. entry.node \in Node /\ entry.types \subseteq MachineType /\ entry.taint \in BOOLEAN
  BY DEF Entry
<1>2. bare \in NodeObject /\ bare.down = old.down /\ bare.exists = old.exists
  BY <1>1, RemoveLemma DEF NodeObject, removeNodeLabel
<1>3. new = [bare EXCEPT !.mine = TRUE, !.status = value,
                !.types = bare.types \cup entry.types,
                !.taint = IF entry.taint THEN taint ELSE bare.taint]
  BY <1>2 DEF Marked, NodeObject
<1>4. taint.status = value /\ entry.types \subseteq taint.types
  OBVIOUS
<1> HIDE DEF bare, taint
<1>5. /\ new.mine /\ new.exists = old.exists /\ new.down = old.down
      /\ new.status = value
      /\ entry.types \subseteq new.types
      /\ entry.taint => new.taint = taint
  <2> HIDE DEF value
  <2> QED
    BY <1>2, <1>3 DEF NodeObject
<1>6. StatusValue(new, entry) = value
  BY <1>5 DEF StatusValue
<1>7. HasMarks(new, entry)
  BY <1>4, <1>5, <1>6 DEF HasMarks
<1>8. ~Differs(old, new, entry) => HasMarks(old, entry)
  BY <1>5 DEF Differs, HasMarks
<1> QED
  BY <1>5, <1>7, <1>8

(* A Node that loses its marks loses annotation and status.                *)
LEMMA UnmarkedLemma ==
    ASSUME NEW old \in NodeObject, NEW n \in Node
    PROVE  /\ ~Unmarked(old, n).mine
           /\ Unmarked(old, n).status = "none"
           /\ Unmarked(old, n).taint.status = "none"
<1> DEFINE bare  == removeNodeLabel(old, n)
           clean == removeNodeTaint(bare, n)
<1>1. bare \in NodeObject /\ bare.status = "none"
  BY RemoveLemma DEF removeNodeLabel, NodeObject
<1> HIDE DEF bare
<1>2. clean \in NodeObject /\ clean.taint.status = "none"
  BY <1>1, RemoveLemma
<1>3. clean.status = "none"
  BY <1>1 DEF removeNodeTaint, NodeObject
<1>4. Unmarked(old, n) = [clean EXCEPT !.mine = FALSE]
  BY DEF Unmarked, bare
<1> HIDE DEF clean
<1> QED
  BY <1>2, <1>3, <1>4 DEF NodeObject

(* An update from a cached copy keeps FreshCopies, as far as the Nodes go. *)
LEMMA StoreNodeFresh ==
    ASSUME TypeOK, FreshCopies, NEW n \in Node, NEW new \in NodeObject,
           StoreNode(n, new) \/ WriteNode(n, new),
           new.mine => new.exists /\ node[n].exists
    PROVE  \A m \in Node :
              /\ nodeFresh'[m] => nodeSeen'[m] = node'[m] /\ ~nodeEvent'[m]
              /\ node'[m].mine => node'[m].exists
              /\ node'[m].mine /\ ~nodeEvent'[m] =>
                    node'[m] = node[m] /\ ~nodeEvent[m] /\ nodeSeen'[m] = node'[m]
<1>0. SetNode(n, new)
  BY DEF StoreNode, WriteNode
<1>1. /\ \A m \in Node :
            /\ node'[m].mine => node'[m].exists
            /\ node'[m].mine /\ ~nodeEvent'[m] =>
                  node'[m] = node[m] /\ ~nodeEvent[m] /\ nodeSeen'[m] = node'[m]
      /\ new = node[n] => node' = node /\ nodeEvent' = nodeEvent
      /\ nodeSeen' = nodeSeen
  BY <1>0, SetNodeCalm
<1>2. ASSUME NEW m \in Node, nodeFresh'[m]
      PROVE  nodeSeen'[m] = node'[m] /\ ~nodeEvent'[m]
  <2>1. nodeFresh[m] /\ (m = n => new = node[n])
    BY <1>2 DEF StoreNode, WriteNode, TypeOK
  <2>2. node'[m] = node[m] /\ nodeEvent'[m] = nodeEvent[m]
    <3>1. CASE m = n
      BY <1>1, <2>1, <3>1
    <3>2. CASE m # n
      BY <1>0, <3>2 DEF SetNode, TypeOK
    <3> QED
      BY <3>1, <3>2
  <2> QED
    BY <1>1, <2>1, <2>2 DEF FreshCopies
<1> QED
  BY <1>1, <1>2

(* Progress says nothing of these states.                                  *)
LEMMA ProgressVacuous ==
    ASSUME \/ ~poolFresh \/ queued \/ ~pool.exists
           \/ pc \notin {"idle", "node", "status"}
    PROVE  Progress
BY DEF Progress

(* FreshCopies of a step that leaves the Nodes alone.                      *)
LEMMA NodesKept ==
    ASSUME FreshCopies, UNCHANGED nodeVars,
           poolFresh' => poolSeen' = pool',
           pFresh' => p' = pool',
           pc' # "idle" /\ ~queued' /\ poolFresh' => pFresh'
    PROVE  FreshCopies'
BY DEF FreshCopies, nodeVars

(* A write of the pool from the reconciler's copy, at the end of a request.*)
LEMMA StorePoolFresh ==
    ASSUME FreshCopies, NEW new, NEW requeue, StorePool(new), Return(requeue),
           UNCHANGED nodeVars
    PROVE  FreshCopies'
BY NodesKept DEF FreshCopies, StorePool, Return

LEMMA ReturnFresh ==
    ASSUME FreshCopies, NEW requeue, UNCHANGED poolVars, Return(requeue),
           UNCHANGED nodeVars
    PROVE  FreshCopies'
BY NodesKept DEF FreshCopies, Return, poolVars

LEMMA ReturnBranches ==
    ASSUME NEW requeue, Return(requeue)
    PROVE  Branches'
BY DEF Return, Branches

LEMMA reconcileNodeInv == IInv /\ reconcileNode => (FreshCopies /\ Branches /\ Progress)'
<1> SUFFICES ASSUME IInv, reconcileNode PROVE (FreshCopies /\ Branches /\ Progress)'
  OBVIOUS
<1> USE DEF poolVars, nodeVars
<1> DEFINE entry == p.spec[i]
           n     == entry.node
           old   == nodeSeen[n]
           new   == Marked(old, entry)
<1>0. /\ TypeOK /\ FreshCopies /\ Branches /\ Progress
      /\ p \in PoolObject /\ clock \in 0 .. MaxClock
      /\ node \in [Node -> NodeObject] /\ nodeSeen \in [Node -> NodeObject]
  BY DEF IInv, TypeOK
<1>1. i \in 1 .. Len(p.spec) /\ entry \in Entry
  BY <1>0, SpecLemma DEF reconcileNode, TypeOK
<1>2. n \in Node
  BY <1>1 DEF Entry
<1>3. old \in NodeObject /\ new \in NodeObject
  BY <1>0, <1>1, <1>2, MarkedLemma
<1>4. new.mine /\ new.exists = old.exists /\ HasMarks(new, entry)
  BY <1>0, <1>1, <1>3, MarkedHasMarks
<1>5. UNCHANGED <<pool, poolSeen, poolFresh, queued, p, pFresh>> /\ pc = "node"
  BY DEF reconcileNode, GoTo, NextEntry
<1> HIDE DEF new
<1>6. CASE pc' = "failed" /\ UNCHANGED nodeVars
  <2>1. FreshCopies'
    BY <1>0, <1>5, <1>6, NodesKept DEF FreshCopies
  <2>2. Branches'
    BY <1>0, <1>5, <1>6 DEF Branches
  <2>3. Progress'
    BY <1>6 DEF Progress
  <2> QED
    BY <2>1, <2>2, <2>3
<1>7. ASSUME pc' = "node", i' = i + 1,
             \A m \in Node :
                 /\ nodeFresh'[m] => nodeSeen'[m] = node'[m] /\ ~nodeEvent'[m]
                 /\ node'[m].mine => node'[m].exists
                 /\ node'[m].mine /\ ~nodeEvent'[m] =>
                       node'[m] = node[m] /\ ~nodeEvent[m] /\ nodeSeen'[m] = node'[m],
             node'[n].mine /\ ~nodeEvent'[n] => HasMarks(node'[n], entry)
      PROVE  (FreshCopies /\ Branches /\ Progress)'
  <2>1. FreshCopies'
    BY <1>0, <1>5, <1>7 DEF FreshCopies
  <2>2. Branches'
    BY <1>0, <1>5, <1>7 DEF Branches
  <2>3. ASSUME poolFresh', ~queued', pool'.exists, NEW k \in DOMAIN pool'.spec, k < i'
        PROVE  MarkedOrPending(k)'
    <3>1. pFresh /\ p = pool
      BY <1>0, <1>5, <2>3 DEF FreshCopies
    <3>2. k \in 1 .. Len(p.spec) /\ (k < i \/ k = i)
      BY <1>0, <1>1, <1>5, <1>7, <2>3, <3>1, SpecLemma
    <3>3. CASE k < i
      <4>1. pool.spec[k].node \in Node
        BY <1>0, <3>1, <3>2, SpecLemma DEF Entry
      <4>2. MarkedOrPending(k)
        BY <1>0, <1>5, <2>3, <3>3 DEF Progress
      <4> QED
        BY <1>5, <1>7, <4>1, <4>2, EntriesKept
    <3>4. CASE k = i
      <4>1. pool.spec[k] = entry /\ pool' = pool
        BY <1>5, <3>1, <3>4
      <4>2. HasMarks(node[pool.spec[k].node], pool.spec[k])' <=> HasMarks(node'[n], entry)
        BY <4>1 DEF HasMarks, StatusValue
      <4> QED
        BY <1>7, <4>1, <4>2 DEF MarkedOrPending
    <3> QED
      BY <3>2, <3>3, <3>4
  <2>4. Progress'
    BY <1>7, <2>3 DEF Progress
  <2> QED
    BY <2>1, <2>2, <2>4
<1>8. CASE old.exists /\ ~Differs(old, new, entry) /\ NextEntry /\ UNCHANGED nodeVars
  <2>1. HasMarks(old, entry)
    BY <1>0, <1>1, <1>3, <1>8, MarkedHasMarks DEF new
  <2> QED
    BY <1>0, <1>2, <1>5, <1>7, <1>8, <2>1 DEF FreshCopies, NextEntry
<1>9. CASE old.exists /\ nodeFresh[n] /\ StoreNode(n, new) /\ NextEntry
  <2>1. node[n] = old
    BY <1>0, <1>2, <1>9 DEF FreshCopies
  <2>2. node'[n] = new
    BY <1>0, <1>2, <1>9 DEF StoreNode, SetNode
  <2> QED
    BY <1>0, <1>2, <1>3, <1>4, <1>5, <1>7, <1>9, <2>1, <2>2, StoreNodeFresh DEF NextEntry
<1>10. \/ pc' = "failed" /\ UNCHANGED nodeVars
       \/ old.exists /\ ~Differs(old, new, entry) /\ NextEntry /\ UNCHANGED nodeVars
       \/ old.exists /\ nodeFresh[n] /\ StoreNode(n, new) /\ NextEntry
  BY DEF reconcileNode, GoTo, new
<1> QED
  BY <1>6, <1>8, <1>9, <1>10

LEMMA cleanupNodeInv == IInv /\ cleanupNode => (FreshCopies /\ Branches /\ Progress)'
<1> SUFFICES ASSUME IInv, cleanupNode PROVE (FreshCopies /\ Branches /\ Progress)'
  OBVIOUS
<1> USE DEF poolVars, nodeVars
<1> DEFINE n   == p.spec[i].node
           new == Unmarked(nodeSeen[n], n)
<1>0. /\ TypeOK /\ FreshCopies /\ Branches /\ Progress
      /\ p \in PoolObject /\ nodeSeen \in [Node -> NodeObject]
  BY DEF IInv, TypeOK
<1>1. n \in Node
  <2>1. i \in 1 .. Len(p.spec)
    BY <1>0, SpecLemma DEF cleanupNode, TypeOK
  <2> QED
    BY <1>0, <2>1, SpecLemma DEF Entry
<1>2. new \in NodeObject /\ ~new.mine
  BY <1>0, <1>1, RemoveLemma, UnmarkedLemma
<1> HIDE DEF new
<1>3. CASE UNCHANGED nodeVars /\ Return(TRUE)
  BY <1>0, <1>3, ReturnFresh, ReturnBranches DEF cleanupNode, Progress, Return
<1>4. CASE /\ pc' \in {"cleanup", "removeFinalizer"} /\ UNCHANGED <<p, pFresh, queued>>
           /\ UNCHANGED nodeVars \/ StoreNode(n, new)
  <2>1. pc = "cleanup" /\ UNCHANGED poolVars
    BY DEF cleanupNode
  <2>2. FreshCopies'
    <3>1. CASE UNCHANGED nodeVars
      BY <1>0, <1>4, <2>1, <3>1, NodesKept DEF FreshCopies
    <3>2. CASE StoreNode(n, new)
      <4>1. \A m \in Node :
              /\ nodeFresh'[m] => nodeSeen'[m] = node'[m] /\ ~nodeEvent'[m]
              /\ node'[m].mine => node'[m].exists
              /\ node'[m].mine /\ ~nodeEvent'[m] => nodeSeen'[m] = node'[m]
        BY <1>0, <1>1, <1>2, <3>2, StoreNodeFresh
      <4> QED
        BY <1>0, <1>4, <2>1, <4>1 DEF FreshCopies
    <3> QED
      BY <1>4, <3>1, <3>2
  <2>3. Branches' /\ Progress'
    BY <1>0, <1>4, <2>1 DEF Branches, Progress
  <2> QED
    BY <2>2, <2>3
<1> QED
  BY <1>3, <1>4 DEF cleanupNode, GoTo, NextEntry, new

(* The report is computed from cached Nodes: each is the stored one, or an *)
(* older version followed by an event.                                     *)
LEMMA updateStatusInv == IInv /\ updateStatus => (FreshCopies /\ Branches /\ Progress)'
<1> SUFFICES ASSUME IInv, updateStatus PROVE (FreshCopies /\ Branches /\ Progress)'
  OBVIOUS
<1> USE DEF poolVars, nodeVars
<1> DEFINE new == [p EXCEPT !.conditions = Conditions(nodeSeen, p.spec), !.ready = "True"]
<1>0. /\ TypeOK /\ FreshCopies /\ Branches /\ Progress
      /\ p \in PoolObject /\ pc = "status" /\ UNCHANGED nodeVars
  BY DEF IInv, TypeOK, updateStatus
<1>1. CASE UNCHANGED poolVars /\ Return(TRUE)
  BY <1>0, <1>1, ReturnFresh, ReturnBranches DEF Progress, Return
<1>2. CASE /\ Conditions(nodeSeen, p.spec) = p.conditions
           /\ UNCHANGED poolVars /\ Return(FALSE)
  <2>1. FreshCopies' /\ Branches'
    BY <1>0, <1>2, ReturnFresh, ReturnBranches
  <2>2. ASSUME poolFresh, ~queued, pool.exists
        PROVE  /\ pool.finalizer /\ ~pool.deleting
               /\ \A k \in DOMAIN pool.spec : MarkedOrPending(k)' /\ ReportedOrPending(k)'
    <3>1. p = pool
      BY <1>0, <2>2 DEF FreshCopies
    <3>2. ASSUME NEW k \in DOMAIN pool.spec
          PROVE  MarkedOrPending(k) /\ ReportedOrPending(k) /\ pool.spec[k].node \in Node
      <4>1. MarkedOrPending(k)
        BY <1>0, <2>2, <3>2 DEF Progress
      <4>2. pool.spec[k].node \in Node
        BY <1>0, <3>1, <3>2, SpecLemma DEF Entry
      <4>3. /\ k \in DOMAIN pool.conditions
            /\ pool.conditions[k] =
                 [name |-> pool.spec[k].node,
                  condition |-> ConditionOf(nodeSeen[pool.spec[k].node], pool.spec[k])]
        BY <1>2, <3>1, <3>2 DEF Conditions
      <4>4. ReportedOrPending(k)
        BY <1>0, <4>2, <4>3 DEF ReportedOrPending, FreshCopies
      <4> QED
        BY <4>1, <4>2, <4>4
    <3>3. \A k \in DOMAIN pool.spec : MarkedOrPending(k)' /\ ReportedOrPending(k)'
      BY <1>0, <1>2, <3>2, EntriesKept
    <3> QED
      BY <1>0, <3>1, <3>3 DEF Branches
  <2>3. Progress'
    BY <1>2, <2>2 DEF Progress, Return
  <2> QED
    BY <2>1, <2>3
<1>3. CASE /\ Conditions(nodeSeen, p.spec) # p.conditions /\ pFresh
           /\ StorePool(new) /\ Return(FALSE)
  <2>1. FreshCopies' /\ Branches'
    BY <1>0, <1>3, StorePoolFresh, ReturnBranches
  <2>2. p = pool /\ new # pool
    <3>1. p = pool
      BY <1>0, <1>3 DEF FreshCopies
    <3>2. new.conditions = Conditions(nodeSeen, p.spec)
      BY <1>0 DEF PoolObject
    <3> QED
      BY <1>3, <3>1, <3>2
  <2>3. ~poolFresh'
    BY <1>3, <2>2 DEF StorePool
  <2> QED
    BY <2>1, <2>3 DEF Progress
<1> QED
  BY <1>1, <1>2, <1>3 DEF updateStatus

LEMMA ReconcilerInv == IInv /\ ReconcilerStep => (FreshCopies /\ Branches /\ Progress)'
<1> SUFFICES ASSUME IInv, ReconcilerStep PROVE (FreshCopies /\ Branches /\ Progress)'
  OBVIOUS
<1> USE DEF poolVars, nodeVars, workerVars
<1>0. /\ TypeOK /\ FreshCopies /\ Branches /\ Progress
      /\ p \in PoolObject
  BY DEF IInv, TypeOK
<1>1. CASE Reconcile
  <2>1. FreshCopies'
    BY <1>0, <1>1, NodesKept DEF Reconcile, FreshCopies
  <2>2. Branches'
    BY <1>0, <1>1 DEF Reconcile, Branches
  <2>3. Progress'
    <3>1. CASE ~poolSeen.exists
      BY <1>0, <1>1, <3>1 DEF Reconcile, FreshCopies, Progress
    <3>2. CASE pc' # "idle" /\ pc' # "status" /\ i' = 1
      <4>1. \A k \in DOMAIN pool'.spec : ~(k < i')
        BY <1>0, <1>1, <3>2, SpecLemma DEF Reconcile, TypeOK
      <4> QED
        BY <3>2, <4>1 DEF Progress
    <3> QED
      BY <1>1, <3>1, <3>2 DEF Reconcile
  <2> QED
    BY <2>1, <2>2, <2>3
<1>2. CASE addFinalizer
  <2>1. FreshCopies' /\ Branches'
    BY <1>0, <1>2, StorePoolFresh, ReturnFresh, ReturnBranches DEF addFinalizer
  <2>2. CASE pFresh
    <3>1. p = pool /\ ~p.finalizer
      BY <1>0, <1>2, <2>2 DEF addFinalizer, FreshCopies, Branches
    <3>2. [p EXCEPT !.finalizer = TRUE] # pool
      BY <1>0, <3>1 DEF PoolObject
    <3>3. ~poolFresh'
      BY <1>2, <2>2, <3>2 DEF addFinalizer, StorePool
    <3> QED
      BY <2>1, <3>3 DEF Progress
  <2>3. CASE ~pFresh
    BY <1>2, <2>1, <2>3 DEF addFinalizer, Return, Progress
  <2> QED
    BY <2>2, <2>3
<1>3. CASE NodesDone
  <2>1. FreshCopies'
    BY <1>0, <1>3, NodesKept DEF NodesDone, GoTo, FreshCopies
  <2>2. Branches'
    BY <1>0, <1>3 DEF NodesDone, GoTo, Branches
  <2>3. ASSUME poolFresh, ~queued, pool.exists, NEW k \in DOMAIN pool.spec
        PROVE  MarkedOrPending(k)'
    <3>1. p = pool
      BY <1>0, <1>3, <2>3 DEF NodesDone, FreshCopies
    <3>2. k < i
      BY <1>0, <1>3, <2>3, <3>1, SpecLemma DEF NodesDone, TypeOK
    <3>3. MarkedOrPending(k)
      BY <1>0, <1>3, <2>3, <3>2 DEF NodesDone, Progress
    <3>4. pool.spec[k].node \in Node
      BY <1>0, <2>3, <3>1, SpecLemma DEF Entry
    <3> QED
      BY <1>3, <3>3, <3>4, EntriesKept DEF NodesDone
  <2>4. Progress'
    BY <1>3, <2>3 DEF NodesDone, GoTo, Progress
  <2> QED
    BY <2>1, <2>2, <2>4
<1>4. CASE ReportFailure
  <2>1. FreshCopies'
    BY <1>0, <1>4, NodesKept DEF ReportFailure, Return, FreshCopies
  <2>2. Branches' /\ queued'
    BY <1>4, ReturnBranches DEF ReportFailure, Return
  <2> QED
    BY <2>1, <2>2 DEF Progress
<1>5. CASE removeFinalizer
  <2>1. FreshCopies' /\ Branches'
    BY <1>0, <1>5, StorePoolFresh, ReturnFresh, ReturnBranches DEF removeFinalizer
  <2>2. ~pool'.exists \/ queued'
    <3>1. ~NoPool.exists
      BY DEF NoPool
    <3>2. pool' = NoPool \/ queued' = (queued \/ TRUE)
      BY <1>5 DEF removeFinalizer, StorePool, Return
    <3> QED
      BY <3>1, <3>2
  <2> QED
    BY <2>1, <2>2 DEF Progress
<1>6. CASE CleanupDone
  <2>1. FreshCopies'
    BY <1>0, <1>6, NodesKept DEF CleanupDone, GoTo, FreshCopies
  <2>2. Branches' /\ Progress'
    BY <1>0, <1>6 DEF CleanupDone, GoTo, Branches, Progress
  <2> QED
    BY <2>1, <2>2
<1> QED
  BY <1>1, <1>2, <1>3, <1>4, <1>5, <1>6, reconcileNodeInv, updateStatusInv, cleanupNodeInv
     DEF ReconcilerStep

LEMMA InformerInv == IInv /\ InformerStep => (FreshCopies /\ Progress)' /\ Branches'
<1> SUFFICES ASSUME IInv, InformerStep PROVE (FreshCopies /\ Progress)' /\ Branches'
  OBVIOUS
<1> USE DEF poolVars, nodeVars, workerVars
<1>0. TypeOK /\ FreshCopies /\ Branches /\ Progress
  BY DEF IInv
<1>1. CASE DeliverPool
  <2>1. FreshCopies'
    BY <1>0, <1>1, NodesKept DEF DeliverPool, FreshCopies
  <2> QED
    BY <1>0, <1>1, <2>1 DEF DeliverPool, Branches, Progress
<1>2. ASSUME NEW n \in Node, DeliverNode(n)
      PROVE  (FreshCopies /\ Progress)' /\ Branches'
  <2>1. \A m \in Node : /\ m = n => ~nodeEvent'[m] /\ nodeSeen'[m] = node[m]
                        /\ m # n => /\ nodeEvent'[m] = nodeEvent[m]
                                    /\ nodeSeen'[m] = nodeSeen[m]
                                    /\ nodeFresh'[m] = nodeFresh[m]
    BY <1>0, <1>2 DEF DeliverNode, TypeOK
  <2>2. FreshCopies'
    BY <1>0, <1>2, <2>1 DEF DeliverNode, FreshCopies
  <2>3. Branches'
    BY <1>0, <1>2 DEF DeliverNode, Branches
  <2>4. CASE nodeEvent[n]
    <3>1. poolFresh => poolSeen = pool
      BY <1>0 DEF FreshCopies
    <3>2. /\ UNCHANGED <<pool, poolSeen, poolFresh>>
          /\ queued' = (queued \/ (nodeEvent[n] /\ poolSeen.exists))
      BY <1>2 DEF DeliverNode
    <3>3. ~poolFresh' \/ queued' \/ ~pool'.exists
      BY <2>4, <3>1, <3>2
    <3> QED
      BY <2>2, <2>3, <3>3 DEF Progress
  <2>5. CASE ~nodeEvent[n]
    <3>1. \A m \in Node : ~nodeEvent'[m] => ~nodeEvent[m]
      BY <2>1, <2>5
    <3>2. queued' = queued
      BY <1>0, <1>2, <2>5 DEF DeliverNode, TypeOK
    <3>3. Progress'
      BY <1>0, <1>2, <3>1, <3>2, ProgressKept DEF DeliverNode
    <3> QED
      BY <2>2, <2>3, <3>3
  <2> QED
    BY <2>2, <2>3, <2>4, <2>5
<1> QED
  BY <1>1, <1>2 DEF InformerStep

(* Whoever writes a Node leaves the annotation only on a Node that exists. *)
LEMMA WriteNodeInv ==
    ASSUME IInv, NEW n \in Node, NEW new \in NodeObject, WriteNode(n, new),
           new.mine => new.exists /\ node[n].exists
    PROVE  (FreshCopies /\ Branches /\ Progress)'
<1> USE DEF poolVars, workerVars
<1>0. TypeOK /\ FreshCopies /\ Branches /\ Progress
  BY DEF IInv
<1>1. UNCHANGED <<poolVars, queued, workerVars>>
  BY DEF WriteNode
<1>2. \A m \in Node :
         /\ nodeFresh'[m] => nodeSeen'[m] = node'[m] /\ ~nodeEvent'[m]
         /\ node'[m].mine => node'[m].exists
         /\ node'[m].mine /\ ~nodeEvent'[m] =>
               node'[m] = node[m] /\ ~nodeEvent[m] /\ nodeSeen'[m] = node'[m]
  BY <1>0, StoreNodeFresh
<1>3. FreshCopies'
  BY <1>0, <1>1, <1>2 DEF FreshCopies
<1>4. Branches'
  BY <1>0, <1>1 DEF Branches
<1>5. Progress'
  BY <1>0, <1>1, <1>2, ProgressKept
<1> QED
  BY <1>3, <1>4, <1>5

LEMMA WritePoolInv ==
    ASSUME IInv, NEW new, WritePool(new)
    PROVE  (FreshCopies /\ Branches /\ Progress)'
<1>0. FreshCopies /\ Branches
  BY DEF IInv
<1>1. FreshCopies'
  BY <1>0, NodesKept DEF WritePool
<1> QED
  BY <1>0, <1>1 DEF WritePool, Branches, Progress

LEMMA EnvironmentInv == IInv /\ Environment => (FreshCopies /\ Branches /\ Progress)'
<1> SUFFICES ASSUME IInv, Environment PROVE (FreshCopies /\ Branches /\ Progress)'
  OBVIOUS
<1> USE DEF poolVars, nodeVars, workerVars
<1>0. TypeOK /\ FreshCopies /\ Branches /\ Progress
  BY DEF IInv
<1>1. ASSUME NEW n \in Node,
             Heartbeat(n) \/ ToggleDown(n) \/ EditNode(n) \/ ReplaceNode(n)
      PROVE  (FreshCopies /\ Branches /\ Progress)'
  <2>1. node[n] \in NodeObject
    BY <1>0 DEF TypeOK
  <2>2. PICK new \in NodeObject :
           WriteNode(n, new) /\ (new.mine => new.exists /\ node[n].exists)
    <3>1. CASE Heartbeat(n)
      BY <2>1, <3>1 DEF Heartbeat
    <3>2. CASE ToggleDown(n)
      <4> DEFINE new == [node[n] EXCEPT !.down = ~@]
      <4>1. new \in NodeObject /\ new.exists = node[n].exists
        BY <2>1 DEF NodeObject
      <4> QED
        BY <3>2, <4>1 DEF ToggleDown
    <3>3. CASE EditNode(n)
      <4>1. \A new \in {[node[n] EXCEPT !.mine = FALSE], [node[n] EXCEPT !.status = "none"],
                        [node[n] EXCEPT !.types = {}], [node[n] EXCEPT !.taint = NoTaint]} :
               new \in NodeObject /\ new.exists = node[n].exists
        BY <2>1, NodeLemma DEF NodeObject, Status
      <4> QED
        BY <3>3, <4>1 DEF EditNode
    <3>4. CASE ReplaceNode(n)
      <4>1. ~NewNode.mine /\ ~NoNode.mine
        BY DEF NewNode, NoNode
      <4> QED
        BY <3>4, <4>1, NodeLemma DEF ReplaceNode
    <3> QED
      BY <1>1, <3>1, <3>2, <3>3, <3>4
  <2> QED
    BY <2>2, WriteNodeInv
<1>2. CASE ChangeSpec \/ DeletePool \/ CreatePool
  <2>1. PICK new : WritePool(new)
    BY <1>2 DEF ChangeSpec, DeletePool, CreatePool
  <2> QED
    BY <2>1, WritePoolInv
<1>3. CASE Tick
  <2>1. FreshCopies' /\ Branches'
    BY <1>0, <1>3, NodesKept DEF Tick, Branches, FreshCopies
  <2>2. Progress'
    BY <1>0, <1>3, ProgressKept DEF Tick
  <2> QED
    BY <2>1, <2>2
<1>4. CASE Resync
  <2>1. FreshCopies' /\ Branches'
    BY <1>0, <1>4, NodesKept DEF Resync, Branches, FreshCopies
  <2> QED
    BY <1>4, <2>1 DEF Resync, Progress
<1>5. CASE FailRequest
  <2>1. CASE pc = "node" /\ GoTo("failed")
    <3>1. FreshCopies'
      BY <1>0, <1>5, <2>1, NodesKept DEF FailRequest, GoTo, FreshCopies
    <3> QED
      BY <1>0, <1>5, <2>1, <3>1 DEF FailRequest, GoTo, Branches, Progress
  <2>2. CASE Return(TRUE)
    <3>1. FreshCopies' /\ Branches'
      BY <1>0, <1>5, <2>2, ReturnFresh, ReturnBranches DEF FailRequest
    <3> QED
      BY <2>2, <3>1 DEF Return, Progress
  <2> QED
    BY <1>5, <2>1, <2>2 DEF FailRequest
<1>6. CASE Crash
  <2>1. Branches' /\ pc' = "idle" /\ queued' /\ ~pFresh'
    BY <1>6, ReturnBranches DEF Crash, Return
  <2>2. FreshCopies'
    BY <1>0, <1>6, <2>1 DEF Crash, FreshCopies
  <2> QED
    BY <2>1, <2>2 DEF Progress
<1> QED
  BY <1>1, <1>2, <1>3, <1>4, <1>5, <1>6 DEF Environment

LEMMA InvStep == IInv /\ [Next]_vars => IInv'
<1> SUFFICES ASSUME IInv, [Next]_vars PROVE IInv'
  OBVIOUS
<1>1. TypeOK'
  BY TypeStep DEF IInv
<1>2. CASE UNCHANGED vars
  <2>1. FreshCopies' /\ Branches'
    BY <1>2, NodesKept DEF IInv, FreshCopies, Branches, vars, poolVars, nodeVars, workerVars
  <2>2. Progress'
    BY <1>2, ProgressKept DEF IInv, vars, poolVars, nodeVars, workerVars
  <2> QED
    BY <1>1, <2>1, <2>2 DEF IInv
<1>3. CASE Next
  BY <1>1, <1>3, ReconcilerInv, InformerInv, EnvironmentInv DEF IInv, Next
<1> QED
  BY <1>2, <1>3

(* The inductive invariant: while nothing has queued the pool again, the   *)
(* Nodes the running request has passed are marked, or an event that will  *)
(* queue the pool is on its way (reconcile, updateStatus, and the          *)
(* predicates of SetupWithManager).                                        *)
THEOREM Inductive == Spec => []IInv
BY InvInit, InvStep, PTL DEF Spec

(* No wake-up is lost, for any pool, any number of Nodes and any number of *)
(* disturbances: at rest every annotated Node is marked and reported.      *)
THEOREM RestMeansMarked == Spec => []IdleMeansMarked
<1>1. IInv => IdleMeansMarked
  <2> SUFFICES ASSUME IInv, Quiet, pool.exists
               PROVE  /\ pool.finalizer /\ ~pool.deleting
                      /\ \A k \in DOMAIN pool.spec :
                            node[pool.spec[k].node].mine => Settled(k)
    BY DEF IdleMeansMarked
  <2>1. /\ pool.finalizer /\ ~pool.deleting
        /\ \A k \in DOMAIN pool.spec : MarkedOrPending(k) /\ ReportedOrPending(k)
    BY DEF IInv, Progress, Quiet, UpToDate
  <2>2. ASSUME NEW k \in DOMAIN pool.spec, node[pool.spec[k].node].mine
        PROVE  Settled(k)
    <3>1. pool.spec[k].node \in Node
      BY <2>2, SpecLemma DEF IInv, TypeOK, Entry
    <3>2. ~nodeEvent[pool.spec[k].node]
      BY <3>1 DEF IInv, FreshCopies, Quiet, UpToDate
    <3> QED
      BY <2>1, <2>2, <3>2 DEF MarkedOrPending, ReportedOrPending, Settled
  <2> QED
    BY <2>1, <2>2
<1> QED
  BY <1>1, Inductive, PTL

-----------------------------------------------------------------------------
(* What the controller writes, however old the Node it has read: the API   *)
(* server takes the write only if that Node is the stored one.             *)

LEMMA ReadyStep ==
    IInv /\ [Next]_vars =>
       \A n \in Node :
          \/ node'[n].status = "ready" /\ node[n].status # "ready"
          \/ node'[n].taint.status = "ready" /\ node[n].taint.status # "ready"
          => ~node[n].down
<1> SUFFICES ASSUME IInv, [Next]_vars, NEW n \in Node,
                    \/ node'[n].status = "ready" /\ node[n].status # "ready"
                    \/ node'[n].taint.status = "ready" /\ node[n].taint.status # "ready"
             PROVE  ~node[n].down
  OBVIOUS
<1>0. /\ TypeOK /\ FreshCopies /\ node \in [Node -> NodeObject]
      /\ nodeSeen \in [Node -> NodeObject] /\ p \in PoolObject
      /\ clock \in 0 .. MaxClock
  BY DEF IInv, TypeOK
<1>1. node' # node
  OBVIOUS
(* Only four kinds of step write a Node; each but reconcileNode leaves or  *)
(* clears the status.                                                      *)
<1>2. ASSUME NEW m \in Node, NEW new \in NodeObject, SetNode(m, new),
             new.status \in {node[m].status, "none"},
             new.taint.status \in {node[m].taint.status, "none"}
      PROVE  FALSE
  <2>1. node' = [node EXCEPT ![m] = new]
    BY <1>2 DEF SetNode
  <2>2. node'[n] = node[n] \/ (n = m /\ node'[n] = new)
    BY <1>0, <2>1
  <2> QED
    BY <1>2, <2>2
<1>3. CASE cleanupNode
  <2> DEFINE m   == p.spec[i].node
             new == Unmarked(nodeSeen[m], m)
  <2>1. m \in Node
    <3>1. i \in 1 .. Len(p.spec)
      BY <1>0, <1>3, SpecLemma DEF cleanupNode, TypeOK
    <3> QED
      BY <1>0, <3>1, SpecLemma DEF Entry
  <2>2. new \in NodeObject /\ new.status = "none" /\ new.taint.status = "none"
    BY <1>0, <2>1, RemoveLemma, UnmarkedLemma
  <2>3. SetNode(m, new)
    BY <1>1, <1>3 DEF cleanupNode, StoreNode, nodeVars
  <2> QED
    BY <1>2, <2>1, <2>2, <2>3
<1>4. CASE reconcileNode
  <2> DEFINE entry == p.spec[i]
             m     == entry.node
             new   == Marked(nodeSeen[m], entry)
  <2>1. entry \in Entry /\ m \in Node
    <3>1. i \in 1 .. Len(p.spec)
      BY <1>0, <1>4, SpecLemma DEF reconcileNode, TypeOK
    <3> QED
      BY <1>0, <3>1, SpecLemma DEF Entry
  <2>2. nodeFresh[m] /\ StoreNode(m, new)
    BY <1>1, <1>4 DEF reconcileNode, nodeVars
  <2>3. nodeSeen[m] = node[m]
    BY <1>0, <2>1, <2>2 DEF FreshCopies
  <2>4. /\ new.status = "ready" => ~node[m].down
        /\ new.taint.status = "ready" => ~node[m].down \/ new.taint = node[m].taint
    BY <1>0, <2>1, <2>3, MarkedLemma
  <2>5. node' = [node EXCEPT ![m] = new]
    BY <2>2 DEF StoreNode, SetNode
  <2> HIDE DEF new
  <2>6. node'[n] = node[n] \/ (n = m /\ node'[n] = new)
    BY <1>0, <2>5
  <2> QED
    BY <2>4, <2>6
<1>5. ASSUME NEW m \in Node, Heartbeat(m) \/ ToggleDown(m) \/ EditNode(m) \/ ReplaceNode(m)
      PROVE  FALSE
  <2>1. node[m] \in NodeObject
    BY <1>0
  <2>2. PICK new \in NodeObject :
           /\ SetNode(m, new)
           /\ new.status \in {node[m].status, "none"}
           /\ new.taint.status \in {node[m].taint.status, "none"}
    <3>1. CASE Heartbeat(m)
      BY <2>1, <3>1 DEF Heartbeat, WriteNode
    <3>2. CASE ToggleDown(m)
      <4> DEFINE new == [node[m] EXCEPT !.down = ~@]
      <4>1. new \in NodeObject /\ new.status = node[m].status /\ new.taint = node[m].taint
        BY <2>1 DEF NodeObject
      <4> QED
        BY <3>2, <4>1 DEF ToggleDown, WriteNode
    <3>3. CASE EditNode(m)
      <4>1. NoTaint.status = "none"
        BY DEF NoTaint
      <4>2. \A new \in {[node[m] EXCEPT !.mine = FALSE], [node[m] EXCEPT !.status = "none"],
                        [node[m] EXCEPT !.types = {}], [node[m] EXCEPT !.taint = NoTaint]} :
               /\ new \in NodeObject
               /\ new.status \in {node[m].status, "none"}
               /\ new.taint \in {node[m].taint, NoTaint}
        BY <2>1, NodeLemma DEF NodeObject, Status
      <4> QED
        BY <3>3, <4>1, <4>2 DEF EditNode, WriteNode
    <3>4. CASE ReplaceNode(m)
      <4>1. \A new \in {NewNode, NoNode} : new.status = "none" /\ new.taint.status = "none"
        BY DEF NewNode, NoNode, NoTaint
      <4> QED
        BY <3>4, <4>1, NodeLemma DEF ReplaceNode, WriteNode
    <3> QED
      BY <1>5, <3>1, <3>2, <3>3, <3>4
  <2> QED
    BY <1>2, <2>2
<1>6. \/ cleanupNode \/ reconcileNode
      \/ \E m \in Node : Heartbeat(m) \/ ToggleDown(m) \/ EditNode(m) \/ ReplaceNode(m)
  <2> USE DEF vars, poolVars, nodeVars, workerVars
  <2>1. ReconcilerStep => cleanupNode \/ reconcileNode
    BY <1>1 DEF ReconcilerStep, Reconcile, addFinalizer, NodesDone, ReportFailure,
                updateStatus, CleanupDone, removeFinalizer
  <2>2. ~InformerStep
    BY <1>1 DEF InformerStep, DeliverPool, DeliverNode
  <2>3. Environment =>
           \E m \in Node : Heartbeat(m) \/ ToggleDown(m) \/ EditNode(m) \/ ReplaceNode(m)
    BY <1>1 DEF Environment, ChangeSpec, DeletePool, CreatePool, WritePool, Tick, Resync,
                FailRequest, Crash
  <2> QED
    BY <1>1, <2>1, <2>2, <2>3 DEF Next
<1> QED
  BY <1>3, <1>4, <1>5, <1>6

(* A Node that is down is never turned to ready, by label or by taint      *)
(* (reconcileNode: the status it writes comes from a cached Node).         *)
THEOREM ReadyIsCurrent == Spec => NoDownNodeTurnsReady
<1>1. IInv /\ [Next]_vars =>
        [\A n \in Node :
          \/ node'[n].status = "ready" /\ node[n].status # "ready"
          \/ node'[n].taint.status = "ready" /\ node[n].taint.status # "ready"
          => ~node[n].down]_vars
  BY ReadyStep
<1> QED
  BY <1>1, Inductive, PTL DEF Spec, NoDownNodeTurnsReady

===============================================================================
