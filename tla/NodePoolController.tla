-------------------------- MODULE NodePoolController --------------------------
(***************************************************************************)
(* The MachineNodePool controller of imperator and the Nodes it marks.     *)
(*                                                                         *)
(* For one MachineNodePool the controller writes on each Node of the pool  *)
(* an annotation with the machine group, a label and, where the pool says  *)
(* so, a taint with the Node's status and with its machine types; it       *)
(* reports each Node's condition in the pool's status.  A finalizer keeps  *)
(* a deleted pool until its Nodes have been cleaned.                       *)
(*                                                                         *)
(* As in MachineController the reconciler reads informer caches (...Seen), *)
(* one request is one step, and a write from an outdated copy is refused   *)
(* (the ...Fresh flags).  The Nodes are also written by others: kubelets   *)
(* renew their status, the node lifecycle controller taints a Node that is *)
(* down, users remove marks.                                               *)
(*                                                                         *)
(* Left out: a second pool that names the same Nodes, marks whose values   *)
(* belong to another group, and two taints of one key.                     *)
(***************************************************************************)
EXTENDS Integers, Sequences, FiniteSets

CONSTANTS
    Node,             \* names a pool may list; those in Machines' clusters
    MachineType,
    Specs,            \* the node pools the Machine controller may write
    Edits,            \* what users may take away from a Node
    MaxClock,         \* bound on the seconds that pass
    MaxDisturbances   \* bound on user requests, failures and crashes

Entry == [node : Node, mode : {"ready", "maintenance"}, taint : BOOLEAN,
          types : SUBSET MachineType]

ASSUME EntriesAssumption == Specs # {} /\ Specs \subseteq Seq(Entry)
ASSUME BoundAssumption == MaxClock \in Nat /\ MaxDisturbances \in Nat
ASSUME EditsAssumption == Edits \subseteq {"annotation", "status", "types", "taints", "node"}

VARIABLES
    pool, poolSeen, poolFresh,   \* stored, cached, cache is current
    node, nodeSeen, nodeFresh,   \* the same for each Node
    nodeEvent,                   \* an undelivered change of it will pass the filters
    queued,                      \* the pool is on the work queue
    pc,                          \* where the reconciler is
    p, pFresh,                   \* its copy of the pool; it is the current one
    i,                           \* index of the loop over the node pool
    clock, budget

poolVars   == <<pool, poolSeen, poolFresh>>
nodeVars   == <<node, nodeSeen, nodeFresh, nodeEvent>>
workerVars == <<pc, p, pFresh, i>>
vars == <<poolVars, nodeVars, queued, workerVars, clock, budget>>

NoPool == [exists |-> FALSE, spec |-> <<>>, finalizer |-> FALSE,
           deleting |-> FALSE, conditions |-> <<>>, ready |-> "Unknown"]

NewPool(spec) == [NoPool EXCEPT !.exists = TRUE, !.spec = spec]

NoTaint == [status |-> "none", types |-> {}, added |-> 0]

(* Of a Node's metadata only what the controller looks at: mine, the       *)
(* annotation names the pool's group; status and types, the labels; down,  *)
(* one of CannotUseNodeTaints; taint, the pool's own taints.               *)
NewNode == [exists |-> TRUE, mine |-> FALSE, status |-> "none", types |-> {},
            down |-> FALSE, taint |-> NoTaint]
NoNode  == [NewNode EXCEPT !.exists = FALSE]

(* Mutant: the predicate compares labels and annotations only.             *)
NodeEventWithoutTaints(old, new) ==
    /\ old.exists /\ new.exists
    /\ \/ new.mine # old.mine
       \/ new.status # old.status
       \/ new.types # old.types

(* A Node's creation and deletion are filtered out; a change passes when   *)
(* it touches labels, annotations or taints.                               *)
NodeEvent(old, new) == old.exists /\ new.exists /\ new # old

(* The pools named by the annotation, before or after the change.          *)
nodeReconcileRequest(old, new) == old.mine \/ new.mine

Init ==
    /\ \E s \in Specs : pool = NewPool(s)
    /\ poolSeen = pool /\ poolFresh = TRUE
    /\ node = [n \in Node |-> NewNode] /\ nodeSeen = node
    /\ nodeFresh = [n \in Node |-> TRUE] /\ nodeEvent = [n \in Node |-> FALSE]
    /\ queued = TRUE
    /\ pc = "idle" /\ p = NoPool /\ pFresh = FALSE /\ i = 1
    /\ clock = 0
    /\ budget = MaxDisturbances

-----------------------------------------------------------------------------
(***************************************************************************)
(* The reconciler.                                                         *)
(***************************************************************************)
Return(requeue) ==
    /\ pc' = "idle" /\ p' = NoPool /\ pFresh' = FALSE /\ i' = 1
    /\ queued' = (queued \/ requeue)

(* Mutant: the loop skips every second entry.                              *)
NextEntrySkipping == i' = i + 2 /\ UNCHANGED <<pc, p, pFresh, queued>>

GoTo(step) == pc' = step /\ i' = 1 /\ UNCHANGED <<p, pFresh, queued>>
NextEntry  == i' = i + 1 /\ UNCHANGED <<pc, p, pFresh, queued>>

(* An update of the pool from the reconciler's copy.                       *)
StorePool(new) ==
    /\ pool' = new
    /\ poolFresh' = (poolFresh /\ new = pool)
    /\ UNCHANGED poolSeen

(* A new version of a Node.                                                *)
SetNode(n, new) ==
    /\ node' = [node EXCEPT ![n] = new]
    /\ nodeEvent' = [nodeEvent EXCEPT ![n] =
                        @ \/ (NodeEvent(node[n], new) /\ nodeReconcileRequest(node[n], new))]
    /\ UNCHANGED nodeSeen

(* An update of a Node from its cached copy.                               *)
StoreNode(n, new) ==
    /\ SetNode(n, new)
    /\ nodeFresh' = [nodeFresh EXCEPT ![n] = @ /\ new = node[n]]

(* Mutant: the finalizer is added, and the Nodes are marked all the same.  *)
ReconcileUnguarded ==
    /\ pc = "idle" /\ queued
    /\ queued' = FALSE
    /\ \/ /\ ~poolSeen.exists
          /\ UNCHANGED workerVars
       \/ /\ poolSeen.exists
          /\ pc' = IF poolSeen.deleting THEN "cleanup" ELSE "node"
          /\ p' = poolSeen /\ pFresh' = poolFresh /\ i' = 1
    /\ UNCHANGED <<poolVars, nodeVars, clock, budget>>

(* Reconcile and the branches of reconcile: a pool that is gone, one       *)
(* without the finalizer, one to be deleted, one to be reconciled.         *)
Reconcile ==
    /\ pc = "idle" /\ queued
    /\ queued' = FALSE
    /\ \/ /\ ~poolSeen.exists
          /\ UNCHANGED workerVars
       \/ /\ poolSeen.exists
          /\ pc' = IF poolSeen.deleting THEN "cleanup"
                   ELSE IF poolSeen.finalizer THEN "node" ELSE "addFinalizer"
          /\ p' = poolSeen /\ pFresh' = poolFresh /\ i' = 1
    /\ UNCHANGED <<poolVars, nodeVars, clock, budget>>

addFinalizer ==
    /\ pc = "addFinalizer"
    /\ \/ /\ pFresh
          /\ StorePool([p EXCEPT !.finalizer = TRUE])
          /\ Return(FALSE)
       \/ /\ ~pFresh
          /\ UNCHANGED poolVars
          /\ Return(TRUE)
    /\ UNCHANGED <<nodeVars, clock, budget>>

(* The machine types the pool gives a Node; of two entries the last holds. *)
TypesOf(n) ==
    LET last == CHOOSE k \in DOMAIN p.spec :
                    /\ p.spec[k].node = n
                    /\ \A l \in DOMAIN p.spec : p.spec[l].node = n => l <= k
    IN  p.spec[last].types

removeNodeLabel(old, n) ==
    [old EXCEPT !.status = "none", !.types = @ \ TypesOf(n)]

removeNodeTaint(old, n) ==
    LET types == old.taint.types \ TypesOf(n)
    IN  [old EXCEPT !.taint = IF types = {} THEN NoTaint
                              ELSE [@ EXCEPT !.status = "none", !.types = types]]

(* The Node's status: maintenance goes before a taint that marks it down.  *)
StatusValue(old, entry) ==
    IF entry.mode = "maintenance" THEN "maintenance"
    ELSE IF old.down THEN "not-ready" ELSE "ready"

(* What reconcileNode makes of a Node.  Labels of the types in the pool    *)
(* are renewed, others are left; taints are touched only where wanted, and *)
(* then always: their time of addition is now.                             *)
Marked(old, entry) ==
    LET bare  == removeNodeLabel(old, entry.node)
        value == StatusValue(old, entry)
        clean == removeNodeTaint(old, entry.node).taint
    IN  [bare EXCEPT
            !.mine   = TRUE,
            !.status = value,
            !.types  = @ \cup entry.types,
            !.taint  = IF entry.taint
                       THEN [status |-> value, types |-> clean.types \cup entry.types,
                             added |-> clock]
                       ELSE @]

(* The time of addition has more precision than what is stored: an entry   *)
(* with taints always differs.  A missing annotation is no difference.     *)
Differs(old, new, entry) ==
    entry.taint \/ new.status # old.status \/ new.types # old.types

(* Mutant: the Node is patched, whatever version it was read at.           *)
reconcileNodeUnconditionally ==
    /\ pc = "node" /\ i <= Len(p.spec)
    /\ LET entry == p.spec[i]
           old   == nodeSeen[entry.node]
           new   == Marked(old, entry)
       IN  \/ /\ ~old.exists \/ ~node[entry.node].exists
              /\ GoTo("failed")
              /\ UNCHANGED nodeVars
           \/ /\ old.exists /\ node[entry.node].exists
              /\ StoreNode(entry.node, [new EXCEPT !.down = node[entry.node].down])
              /\ NextEntry
    /\ UNCHANGED <<poolVars, clock, budget>>

reconcileNode ==
    /\ pc = "node" /\ i <= Len(p.spec)
    /\ LET entry == p.spec[i]
           old   == nodeSeen[entry.node]
           new   == Marked(old, entry)
       IN  \/ /\ ~old.exists
              /\ GoTo("failed")
              /\ UNCHANGED nodeVars
           \/ /\ old.exists /\ ~Differs(old, new, entry)
              /\ NextEntry
              /\ UNCHANGED nodeVars
           \/ /\ old.exists /\ Differs(old, new, entry)
              /\ nodeFresh[entry.node]
              /\ StoreNode(entry.node, new)
              /\ NextEntry
           \/ /\ old.exists /\ Differs(old, new, entry)
              /\ ~nodeFresh[entry.node]
              /\ GoTo("failed")
              /\ UNCHANGED nodeVars
    /\ UNCHANGED <<poolVars, clock, budget>>

NodesDone ==
    /\ pc = "node" /\ i > Len(p.spec)
    /\ GoTo("status")
    /\ UNCHANGED <<poolVars, nodeVars, clock, budget>>

(* The pool is reported not ready; if that fails it is only logged.  The   *)
(* message may differ, so that a pool that is not ready may change too.    *)
ReportFailure ==
    /\ pc = "failed"
    /\ \/ /\ pFresh
          /\ pool' = [p EXCEPT !.ready = "False"]
          /\ poolFresh' \in BOOLEAN
          /\ poolFresh' => poolFresh /\ pool' = pool
          /\ UNCHANGED poolSeen
       \/ UNCHANGED poolVars      \* refused or failed
    /\ Return(TRUE)
    /\ UNCHANGED <<nodeVars, clock, budget>>

(* A Node's condition, read from its label, or its taint where it has one. *)
ConditionOf(n, entry) ==
    LET status == IF entry.taint /\ n.taint.status # "none" THEN n.taint.status
                  ELSE n.status
    IN  IF entry.mode = "maintenance" THEN "Maintenance"
        ELSE IF status = "ready" THEN "Healthy"
        ELSE IF status = "not-ready" THEN "Unhealthy" ELSE ""

Conditions(nodes, spec) ==
    [k \in DOMAIN spec |->
        [name |-> spec[k].node, condition |-> ConditionOf(nodes[spec[k].node], spec[k])]]

(* Mutant: the report is written only for a pool that is not yet ready.    *)
updateStatusOnce ==
    /\ pc = "status"
    /\ \/ /\ \E k \in DOMAIN p.spec : ~nodeSeen[p.spec[k].node].exists
          /\ UNCHANGED poolVars
          /\ Return(TRUE)
       \/ /\ \A k \in DOMAIN p.spec : nodeSeen[p.spec[k].node].exists
          /\ IF p.ready = "True" \/ ~pFresh
             THEN UNCHANGED poolVars
             ELSE StorePool([p EXCEPT !.conditions = Conditions(nodeSeen, p.spec),
                                      !.ready = "True"])
          /\ Return(~pFresh)
    /\ UNCHANGED <<nodeVars, clock, budget>>

updateStatus ==
    /\ pc = "status"
    /\ \/ /\ \E k \in DOMAIN p.spec : ~nodeSeen[p.spec[k].node].exists
          /\ UNCHANGED poolVars
          /\ Return(TRUE)
       \/ /\ \A k \in DOMAIN p.spec : nodeSeen[p.spec[k].node].exists
          /\ \/ /\ Conditions(nodeSeen, p.spec) = p.conditions
                /\ UNCHANGED poolVars
                /\ Return(FALSE)
             \/ /\ Conditions(nodeSeen, p.spec) # p.conditions /\ pFresh
                /\ StorePool([p EXCEPT !.conditions = Conditions(nodeSeen, p.spec),
                                       !.ready = "True"])
                /\ Return(FALSE)
             \/ /\ Conditions(nodeSeen, p.spec) # p.conditions /\ ~pFresh
                /\ UNCHANGED poolVars
                /\ Return(TRUE)
    /\ UNCHANGED <<nodeVars, clock, budget>>

(* cleanupNode takes the marks away; the annotation and the status go      *)
(* whatever their value.                                                   *)
Unmarked(old, n) ==
    [removeNodeTaint(removeNodeLabel(old, n), n) EXCEPT !.mine = FALSE]

(* Mutant: a refused write is taken for the end of the work.               *)
cleanupNodeNoRequeue ==
    /\ pc = "cleanup" /\ i <= Len(p.spec)
    /\ LET n   == p.spec[i].node
           old == nodeSeen[n]
           new == Unmarked(old, n)
       IN  \/ /\ ~old.exists \/ new = old
              /\ GoTo("removeFinalizer")
              /\ UNCHANGED nodeVars
           \/ /\ old.exists /\ new # old /\ nodeFresh[n]
              /\ StoreNode(n, new)
              /\ NextEntry
           \/ /\ old.exists /\ new # old /\ ~nodeFresh[n]
              /\ Return(FALSE)
              /\ UNCHANGED nodeVars
    /\ UNCHANGED <<poolVars, clock, budget>>

(* A Node that is missing, or in the cache has no marks, ends the loop:    *)
(* the entries after it are not looked at.                                 *)
cleanupNode ==
    /\ pc = "cleanup" /\ i <= Len(p.spec)
    /\ LET n   == p.spec[i].node
           old == nodeSeen[n]
           new == Unmarked(old, n)
       IN  \/ /\ ~old.exists \/ new = old
              /\ GoTo("removeFinalizer")
              /\ UNCHANGED nodeVars
           \/ /\ old.exists /\ new # old /\ nodeFresh[n]
              /\ StoreNode(n, new)
              /\ NextEntry
           \/ /\ old.exists /\ new # old /\ ~nodeFresh[n]
              /\ Return(TRUE)
              /\ UNCHANGED nodeVars
    /\ UNCHANGED <<poolVars, clock, budget>>

CleanupDone ==
    /\ pc = "cleanup" /\ i > Len(p.spec)
    /\ GoTo("removeFinalizer")
    /\ UNCHANGED <<poolVars, nodeVars, clock, budget>>

(* Without its finalizer a deleted pool is gone.                           *)
removeFinalizer ==
    /\ pc = "removeFinalizer"
    /\ \/ /\ pFresh
          /\ StorePool(NoPool)
          /\ Return(FALSE)
       \/ /\ ~pFresh
          /\ UNCHANGED poolVars
          /\ Return(TRUE)
    /\ UNCHANGED <<nodeVars, clock, budget>>

ReconcilerStep ==
    \/ Reconcile
    \/ addFinalizer
    \/ reconcileNode
    \/ NodesDone
    \/ ReportFailure
    \/ updateStatus
    \/ cleanupNode
    \/ CleanupDone
    \/ removeFinalizer

-----------------------------------------------------------------------------
(***************************************************************************)
(* The informers.                                                          *)
(***************************************************************************)
DeliverPool ==
    /\ ~poolFresh
    /\ poolSeen' = pool /\ poolFresh' = TRUE
    /\ queued' = TRUE
    /\ UNCHANGED <<pool, nodeVars, workerVars, clock, budget>>

(* All changes of a Node that are on their way.  The handler looks for the *)
(* pool in the cache.                                                      *)
DeliverNode(n) ==
    /\ ~nodeFresh[n]
    /\ nodeSeen' = [nodeSeen EXCEPT ![n] = node[n]]
    /\ nodeFresh' = [nodeFresh EXCEPT ![n] = TRUE]
    /\ nodeEvent' = [nodeEvent EXCEPT ![n] = FALSE]
    /\ queued' = (queued \/ (nodeEvent[n] /\ poolSeen.exists))
    /\ UNCHANGED <<node, poolVars, workerVars, clock, budget>>

InformerStep == DeliverPool \/ \E n \in Node : DeliverNode(n)

-----------------------------------------------------------------------------
(***************************************************************************)
(* Everyone else.                                                          *)
(***************************************************************************)
WriteNode(n, new) ==
    /\ SetNode(n, new)
    /\ nodeFresh' = [nodeFresh EXCEPT ![n] = FALSE]
    /\ UNCHANGED <<poolVars, queued, workerVars, clock>>

WritePool(new) ==
    /\ pool' = new /\ poolFresh' = FALSE /\ pFresh' = FALSE
    /\ UNCHANGED <<poolSeen, nodeVars, queued, pc, p, i, clock>>

(* The kubelet renews the Node's status: its version moves on.             *)
Heartbeat(n) ==
    /\ node[n].exists /\ nodeFresh[n]
    /\ WriteNode(n, node[n]) /\ UNCHANGED budget

Disturb == budget > 0 /\ budget' = budget - 1

(* The Node goes down or comes back: its taint is set or removed.          *)
ToggleDown(n) ==
    /\ Disturb /\ node[n].exists
    /\ WriteNode(n, [node[n] EXCEPT !.down = ~@])

(* A user takes a mark away from a Node.                                   *)
EditNode(n) ==
    /\ Disturb /\ node[n].exists
    /\ \/ /\ "annotation" \in Edits /\ node[n].mine
          /\ WriteNode(n, [node[n] EXCEPT !.mine = FALSE])
       \/ /\ "status" \in Edits /\ node[n].status # "none"
          /\ WriteNode(n, [node[n] EXCEPT !.status = "none"])
       \/ /\ "types" \in Edits /\ node[n].types # {}
          /\ WriteNode(n, [node[n] EXCEPT !.types = {}])
       \/ /\ "taints" \in Edits /\ node[n].taint # NoTaint
          /\ WriteNode(n, [node[n] EXCEPT !.taint = NoTaint])

(* A Node leaves the cluster, or joins it anew and without marks.          *)
ReplaceNode(n) ==
    /\ Disturb /\ "node" \in Edits
    /\ WriteNode(n, IF node[n].exists THEN NoNode ELSE NewNode)

(* The Machine controller copies another node pool from its Machine.       *)
ChangeSpec ==
    /\ Disturb /\ pool.exists
    /\ \E s \in Specs \ {pool.spec} : WritePool([pool EXCEPT !.spec = s])

DeletePool ==
    /\ Disturb /\ pool.exists /\ ~pool.deleting
    /\ WritePool(IF pool.finalizer THEN [pool EXCEPT !.deleting = TRUE] ELSE NoPool)

(* The Machine controller creates the pool that its Machine lacks.         *)
CreatePool ==
    /\ Disturb /\ ~pool.exists
    /\ \E s \in Specs : WritePool(NewPool(s))

Tick ==
    /\ clock < MaxClock
    /\ clock' = clock + 1
    /\ UNCHANGED <<poolVars, nodeVars, queued, workerVars, budget>>

(* The periodic resync replays the cached pool as an update.               *)
Resync ==
    /\ Disturb /\ ~queued
    /\ queued' = TRUE
    /\ UNCHANGED <<poolVars, nodeVars, workerVars, clock>>

FailRequest ==
    /\ Disturb
    /\ \/ /\ pc = "node" /\ GoTo("failed")
       \/ /\ pc \in {"addFinalizer", "status", "cleanup", "removeFinalizer"}
          /\ Return(TRUE)
    /\ UNCHANGED <<poolVars, nodeVars, clock>>

(* The manager dies and another lists everything anew.                     *)
Crash ==
    /\ Disturb
    /\ Return(TRUE)
    /\ poolSeen' = pool /\ poolFresh' = TRUE
    /\ nodeSeen' = node /\ nodeFresh' = [n \in Node |-> TRUE]
    /\ nodeEvent' = [n \in Node |-> FALSE]
    /\ UNCHANGED <<pool, node, clock>>

Environment ==
    \/ \E n \in Node : Heartbeat(n) \/ ToggleDown(n) \/ EditNode(n) \/ ReplaceNode(n)
    \/ ChangeSpec
    \/ DeletePool
    \/ CreatePool
    \/ Tick
    \/ Resync
    \/ FailRequest
    \/ Crash

Next == ReconcilerStep \/ InformerStep \/ Environment

Spec == Init /\ [][Next]_vars

(* One worker serves the queue and both watches deliver.                   *)
Fairness ==
    /\ WF_vars(ReconcilerStep)
    /\ WF_vars(DeliverPool)
    /\ \A n \in Node : WF_vars(DeliverNode(n))

FairSpec == Spec /\ Fairness

-----------------------------------------------------------------------------
(***************************************************************************)
(* Properties.                                                             *)
(***************************************************************************)
Status == {"none", "ready", "not-ready", "maintenance"}
Taint == [status : Status, types : SUBSET MachineType, added : 0 .. MaxClock]
NodeObject == [exists : BOOLEAN, mine : BOOLEAN, status : Status,
               types : SUBSET MachineType, down : BOOLEAN, taint : Taint]
Report == [name : Node, condition : {"", "Healthy", "Unhealthy", "Maintenance"}]
PoolObject ==
    {o \in [exists : BOOLEAN, spec : Specs \cup {<<>>}, finalizer : BOOLEAN,
            deleting : BOOLEAN, conditions : Seq(Report),
            ready : {"Unknown", "True", "False"}] : o.deleting => o.finalizer}

(* Every variable has its type; a pool waits to be deleted only while it   *)
(* has the finalizer, and the loops stay within the node pool.             *)
TypeOK ==
    /\ pool \in PoolObject /\ poolSeen \in PoolObject /\ p \in PoolObject
    /\ poolFresh \in BOOLEAN /\ pFresh \in BOOLEAN
    /\ node \in [Node -> NodeObject] /\ nodeSeen \in [Node -> NodeObject]
    /\ nodeFresh \in [Node -> BOOLEAN] /\ nodeEvent \in [Node -> BOOLEAN]
    /\ queued \in BOOLEAN
    /\ pc \in {"idle", "addFinalizer", "node", "status", "failed", "cleanup",
               "removeFinalizer"}
    /\ i \in 1 .. Len(p.spec) + 1
    /\ clock \in 0 .. MaxClock /\ budget \in 0 .. MaxDisturbances

UpToDate == poolFresh /\ \A n \in Node : nodeFresh[n]
Quiet == pc = "idle" /\ ~queued /\ UpToDate

(* A Node has the marks its entry asks for.                                *)
HasMarks(n, entry) ==
    /\ n.status = StatusValue(n, entry)
    /\ entry.types \subseteq n.types
    /\ entry.taint => /\ n.taint.status = StatusValue(n, entry)
                      /\ entry.types \subseteq n.taint.types

(* The k-th Node of the pool is marked and reported.                       *)
Settled(k) ==
    LET entry == pool.spec[k]
        n     == node[entry.node]
    IN  /\ HasMarks(n, entry)
        /\ k \in DOMAIN pool.conditions
        /\ pool.conditions[k] = [name |-> entry.node, condition |-> ConditionOf(n, entry)]

(* No wake-up is lost: when the reconciler rests and no event is on its    *)
(* way, each Node that carries the annotation has the status its taints    *)
(* and the pool give it, in label, taint and report, and no pool waits to  *)
(* be deleted.                                                             *)
IdleMeansMarked ==
    (Quiet /\ pool.exists) =>
        /\ pool.finalizer /\ ~pool.deleting
        /\ \A k \in DOMAIN pool.spec :
              node[pool.spec[k].node].mine => Settled(k)

(* A Node that is down at that moment is never turned to ready, by label   *)
(* or by taint, however old the news the controller acts on.               *)
NoDownNodeTurnsReady ==
    [][\A n \in Node :
          \/ node'[n].status = "ready" /\ node[n].status # "ready"
          \/ node'[n].taint.status = "ready" /\ node[n].taint.status # "ready"
          => ~node[n].down]_vars

(* The pool's marks on a Node: when the taint was added is no matter.      *)
MarksOf(n) ==
    (IF n.mine THEN {<<"annotation", "group">>} ELSE {})
    \cup ({"status"} \X ({n.status} \ {"none"}))
    \cup ({"type"} \X n.types)
    \cup ({"taint status"} \X ({n.taint.status} \ {"none"}))
    \cup ({"taint type"} \X n.taint.types)

Phase(o) ==
    CASE ~o.exists                                 -> "absent"
      [] o.exists /\ o.deleting                    -> "deleting"
      [] o.exists /\ ~o.deleting /\ o.finalizer   -> "guarded"
      [] o.exists /\ ~o.deleting /\ ~o.finalizer  -> "bare"

(* The stored pool and Nodes implement GuardedPool.  What the reconciler   *)
(* acts on may be an outdated copy, of a pool that is gone or replaced:    *)
(* nevertheless no Node is marked for a pool without its finalizer, and no *)
(* finalizer is taken from a pool that is not being deleted.               *)
Guarded == INSTANCE GuardedPool
              WITH phase <- Phase(pool), marks <- [n \in Node |-> MarksOf(node[n])]

ImplementsGuardedPool == Guarded!Spec

(* A write of the reconciler is about to be refused, or was, or a Node is  *)
(* missing.                                                                *)
Refused ==
    \/ pc = "failed"
    \/ pc \in {"addFinalizer", "removeFinalizer", "status"} /\ ~pFresh
    \/ /\ pc = "cleanup" /\ i <= Len(p.spec)
       /\ nodeSeen[p.spec[i].node].exists /\ ~nodeFresh[p.spec[i].node]

Unrefused == <>[]~Refused

(* A pool that is to be deleted goes, whatever has become of its Nodes:    *)
(* down, stripped of marks, or no longer there.                            *)
DeletionCompletes == Unrefused => [](pool.deleting => <>(~pool.deleting))

-----------------------------------------------------------------------------
(***************************************************************************)
(* What the repository says of itself, and the code does not keep.         *)
(***************************************************************************)

(* The controller's test deletes a pool and expects every Node of it to be *)
(* left without labels, taints and annotation.                             *)
CleanAfterDelete ==
    (Quiet /\ ~pool.exists) => \A n \in Node : MarksOf(node[n]) = {}

(* The controller's tests change machine types and taints of a pool and    *)
(* expect a Node to have exactly the labels and taints now asked for.      *)
OnlyMarksAskedFor ==
    (Quiet /\ pool.exists) =>
        \A k \in DOMAIN pool.spec :
            LET entry == pool.spec[k]
                n     == node[entry.node]
            IN  n.mine => /\ n.types = entry.types
                          /\ n.taint.types = IF entry.taint THEN entry.types ELSE {}
=============================================================================
