-------------------------- MODULE MachineController --------------------------
(***************************************************************************)
(* The Machine controller of imperator and everything it races with.       *)
(*                                                                         *)
(* For one Machine the controller keeps a MachineNodePool, one reservation *)
(* StatefulSet and one Service per machine type, and the usage counts in   *)
(* the Machine's status.  The reservation Pods hold capacity until a guest *)
(* Pod is admitted: the guest cannot be scheduled, is counted as waiting,  *)
(* the StatefulSet shrinks by one and the guest takes the freed slot.      *)
(*                                                                         *)
(* Modelled as the code runs it: the controller reads only its informer    *)
(* caches (the ...Seen variables), one request to the API server is one    *)
(* step, a write made from an outdated copy is refused, and the watches    *)
(* put the Machine back on the work queue.  A resource version is not a    *)
(* number here: what matters is whether a copy is the current one, which   *)
(* the ...Fresh flags say.                                                 *)
(*                                                                         *)
(* The StatefulSet controller, the scheduler and the kubelet are external; *)
(* they are modelled as far as the controller depends on them.  Users,     *)
(* failures and crashes are disturbances, of which a behaviour has at most *)
(* MaxDisturbances, so that a behaviour eventually is left in peace.       *)
(*                                                                         *)
(* Left out: deletion of the Machine (its children are garbage collected), *)
(* guests in namespaces without the injection label (never counted), and   *)
(* two Machines of one group (MachineWebhook says when there can be two).  *)
(* A guest is admitted in one step; PodInjector models how.                *)
(***************************************************************************)
EXTENDS PodAccounting

CONSTANTS
    MachineType,      \* the names a spec may use for its machine types
    Guest,            \* the guest Pods users may create
    GuestType,        \* the machine type each guest asks for
    MaxAvailable,     \* the largest spec.machineTypes[*].available
    Capacity,         \* how many Pods of a type its nodes can hold
    Specs,            \* the Machine specs users may write
    MaxDisturbances   \* bound on user requests, failures and crashes

Ordinal == 0 .. (MaxAvailable - 1)
Reservation == MachineType \X Ordinal
Pod == Reservation \cup Guest

(* types: spec.machineTypes, available: their quantities, pooled: the      *)
(* types some node of spec.nodePool offers.                                *)
MachineSpec == [types     : SUBSET MachineType,
                available : [MachineType -> 0 .. MaxAvailable],
                pooled    : SUBSET MachineType]

ASSUME FiniteAssumption == IsFiniteSet(MachineType) /\ IsFiniteSet(Guest)
ASSUME PodAssumption == Guest \cap Reservation = {}
ASSUME GuestTypeAssumption == GuestType \in [Guest -> MachineType]
ASSUME BoundsAssumption ==
    /\ MaxAvailable \in Nat
    /\ Capacity \in [MachineType -> Nat]
    /\ MaxDisturbances \in Nat
ASSUME SpecsAssumption ==
    /\ Specs # {} /\ Specs \subseteq MachineSpec
    /\ \A s \in Specs : s.pooled \subseteq s.types

VARIABLES
    machine, machineSeen, machineFresh,  \* stored, cached, cache is current
    pool, poolSeen, poolFresh,           \* the same for the MachineNodePool
    sts,        \* stored replica count of each StatefulSet, or NoSts
    stsCache,   \* its cached copy: "absent", "stale" or "current"
    svc,        \* each Service: "absent", "created", "cached"
    pods, podsSeen,                      \* stored and cached Pods
    queued,     \* the Machine is on the work queue
    pc,         \* where the reconciler is, "idle" between two requests
    report,     \* updateReconcileConditions is due
    m, mFresh,  \* the reconciler's copy of the Machine; it is the current one
    todo,       \* machine types the current loop has not handled yet
    budget      \* disturbances left

poolVars   == <<pool, poolSeen, poolFresh>>
stsVars    == <<sts, stsCache>>
podVars    == <<pods, podsSeen>>
childVars  == <<poolVars, stsVars, svc>>
workerVars == <<pc, report, m, mFresh, todo>>
storeVars  == <<machine, machineSeen, machineFresh>>
vars == <<storeVars, childVars, podVars, queued, workerVars, budget>>

NoSts  == -1
NoPool == [exists |-> FALSE, pooled |-> {}, stock |-> {}]

TypeOf(p) == IF p \in Guest THEN GuestType[p] ELSE p[1]
ReservationsOf(t) == {p \in Reservation : p[1] = t}
GuestsOf(t) == {g \in Guest : GuestType[g] = t}

NewMachine(spec) ==
    [spec   |-> spec,
     status |-> [t \in MachineType |-> Unlisted],
     ready  |-> "Unknown"]

(* What the reconciler's copy is between two requests.                     *)
Blank == NewMachine(CHOOSE s \in Specs : TRUE)

Init ==
    /\ \E s \in Specs : machine = NewMachine(s)
    /\ machineSeen = machine /\ machineFresh = TRUE
    /\ pool = NoPool /\ poolSeen = NoPool /\ poolFresh = TRUE
    /\ sts = [t \in MachineType |-> NoSts]
    /\ stsCache = [t \in MachineType |-> "absent"]
    /\ svc = [t \in MachineType |-> "absent"]
    /\ pods = [p \in Pod |-> Absent] /\ podsSeen = pods
    /\ queued = TRUE
    /\ pc = "idle" /\ report = FALSE /\ m = Blank /\ mFresh = FALSE
    /\ todo = {}
    /\ budget = MaxDisturbances

-----------------------------------------------------------------------------
(***************************************************************************)
(* The reconciler.                                                         *)
(***************************************************************************)

(* A status update from a current copy.  The server drops a write that     *)
(* changes nothing, and then no watch event follows.                       *)
StoreStatus(new) ==
    /\ machine' = new
    /\ machineFresh' = (machineFresh /\ new = machine)
    /\ UNCHANGED machineSeen

(* Reconcile returns; with requeue, the work queue takes the request back. *)
Return(requeue) ==
    /\ pc' = "idle" /\ report' = FALSE /\ m' = Blank /\ mFresh' = FALSE
    /\ todo' = {}
    /\ queued' = (queued \/ requeue)

GoTo(step) == pc' = step /\ UNCHANGED <<m, mFresh, queued>>

(* Reconcile fetches the Machine from the cache.                           *)
Reconcile ==
    /\ pc = "idle" /\ queued
    /\ queued' = FALSE
    /\ pc' = "pool"
    /\ m' = machineSeen /\ mFresh' = machineFresh
    /\ UNCHANGED <<storeVars, childVars, podVars, report, todo, budget>>

Listed(t) == m.status[t].listed

(* Mutant: the stock is replaced like the node pool is.                    *)
DesiredPoolStockReplaced ==
    [exists |-> TRUE, pooled |-> m.spec.pooled, stock |-> m.spec.types]

(* The pool the mutate function of CreateOrUpdate produces: the node pool  *)
(* is copied from the spec, the stock of machine types only ever grows.    *)
DesiredPool ==
    [exists |-> TRUE,
     pooled |-> m.spec.pooled,
     stock  |-> poolSeen.stock \cup m.spec.types]

reconcileMachineNodePool ==
    /\ pc = "pool" /\ ~report
    /\ \/ /\ DesiredPool = poolSeen
          /\ GoTo("sts") /\ todo' = {t \in m.spec.types \cap m.spec.pooled : Listed(t)}
          /\ UNCHANGED <<poolVars, report>>
       \/ /\ DesiredPool # poolSeen /\ poolFresh
          /\ pool' = DesiredPool /\ poolFresh' = FALSE
          /\ report' = TRUE
          /\ GoTo("sts") /\ todo' = {t \in m.spec.types \cap m.spec.pooled : Listed(t)}
          /\ UNCHANGED poolSeen
       \/ /\ DesiredPool # poolSeen /\ ~poolFresh
          /\ GoTo("failed")
          /\ UNCHANGED <<poolVars, report, todo>>
    /\ UNCHANGED <<storeVars, stsVars, svc, podVars, budget>>

(* The replicas for type t, from the counts in the Machine's status and    *)
(* the cached reservation Pods.                                            *)
DesiredReplicas(t) ==
    StsReplicas(m.status[t], getUnscheduledPodNum(podsSeen, ReservationsOf(t)))

(* The generated template is never equal to the stored one, which the API  *)
(* server has filled with defaults: CreateOrUpdate always sends a write    *)
(* and always reports "updated".                                           *)
reconcileStatefulSet(t) ==
    /\ pc = "sts" /\ ~report /\ t \in todo
    /\ \/ /\ sts[t] = NoSts
          /\ sts' = [sts EXCEPT ![t] = DesiredReplicas(t)]
          /\ report' = TRUE /\ todo' = todo \ {t} /\ GoTo("sts")
          /\ UNCHANGED stsCache
       \/ /\ stsCache[t] = "current"
          /\ sts' = [sts EXCEPT ![t] = DesiredReplicas(t)]
          /\ stsCache' = IF DesiredReplicas(t) = sts[t] THEN stsCache
                         ELSE [stsCache EXCEPT ![t] = "stale"]
          /\ report' = TRUE /\ todo' = todo \ {t} /\ GoTo("sts")
       \/ /\ sts[t] # NoSts /\ stsCache[t] # "current"
          /\ GoTo("failed")
          /\ UNCHANGED <<stsVars, report, todo>>
    /\ UNCHANGED <<storeVars, poolVars, svc, podVars, budget>>

StatefulSetsDone ==
    /\ pc = "sts" /\ ~report /\ todo = {}
    /\ GoTo("svc")
    /\ todo' = {t \in m.spec.types : Listed(t)}
    /\ UNCHANGED <<storeVars, childVars, podVars, report, budget>>

(* An existing Service is rewritten to what it is; it has no other writer. *)
reconcileService(t) ==
    /\ pc = "svc" /\ ~report /\ t \in todo
    /\ \/ /\ svc[t] # "created"
          /\ svc' = IF svc[t] = "absent" THEN [svc EXCEPT ![t] = "created"] ELSE svc
          /\ report' = TRUE /\ todo' = todo \ {t} /\ GoTo("svc")
       \/ /\ svc[t] = "created"     \* exists, but the cache does not know
          /\ GoTo("failed")
          /\ UNCHANGED <<svc, report, todo>>
    /\ UNCHANGED <<storeVars, poolVars, stsVars, podVars, budget>>

ServicesDone ==
    /\ pc = "svc" /\ ~report /\ todo = {}
    /\ GoTo("status")
    /\ UNCHANGED <<storeVars, childVars, podVars, report, todo, budget>>

(* After each created or updated child the Machine is reported ready; a    *)
(* refused report is an error of the step the child belongs to.            *)
updateReconcileConditions ==
    /\ report
    /\ report' = FALSE
    /\ \/ /\ mFresh
          /\ StoreStatus([m EXCEPT !.ready = "True"])
          /\ m' = [m EXCEPT !.ready = "True"]
          /\ UNCHANGED <<pc, todo>>
       \/ /\ ~mFresh
          /\ pc' = "failed" /\ todo' = {}
          /\ UNCHANGED <<storeVars, m>>
    /\ UNCHANGED <<childVars, podVars, queued, mFresh, budget>>

(* Mutant: a type the spec dropped keeps its maximum.                      *)
CountedStatusKeepingMaximum ==
    [t \in MachineType |->
        IF t \in m.spec.types \/ Listed(t)
        THEN UsageOf(podsSeen, ReservationsOf(t), GuestsOf(t),
                     IF t \in m.spec.types THEN m.spec.available[t]
                     ELSE m.status[t].maximum)
        ELSE Unlisted]

(* The usage counts updateStatus computes: an entry for every type of the  *)
(* spec and for every type listed before, whose maximum then drops to 0.   *)
CountedStatus ==
    [t \in MachineType |->
        IF t \in m.spec.types \/ Listed(t)
        THEN UsageOf(podsSeen, ReservationsOf(t), GuestsOf(t),
                     IF t \in m.spec.types THEN m.spec.available[t] ELSE 0)
        ELSE Unlisted]

(* Mutant: the status is patched, whatever version it was computed from.   *)
updateStatusUnconditionally ==
    /\ pc = "status"
    /\ machine' = [machine EXCEPT !.status = CountedStatus, !.ready = "True"]
    /\ machineFresh' = (machineFresh /\ machine' = machine)
    /\ Return(FALSE)
    /\ UNCHANGED <<machineSeen, childVars, podVars, budget>>

updateStatus ==
    /\ pc = "status"
    /\ \/ /\ CountedStatus = m.status
          /\ UNCHANGED storeVars
          /\ Return(FALSE)
       \/ /\ CountedStatus # m.status /\ mFresh
          /\ StoreStatus([m EXCEPT !.status = CountedStatus, !.ready = "True"])
          /\ Return(FALSE)
       \/ /\ CountedStatus # m.status /\ ~mFresh
          /\ UNCHANGED storeVars
          /\ Return(TRUE)
    /\ UNCHANGED <<childVars, podVars, budget>>

(* Mutant: the failure is reported, and the request forgotten.             *)
updateReconcileFailedStatusNoRequeue ==
    /\ pc = "failed"
    /\ IF mFresh THEN StoreStatus([m EXCEPT !.ready = "False"])
                 ELSE UNCHANGED storeVars
    /\ Return(FALSE)
    /\ UNCHANGED <<childVars, podVars, budget>>

(* The condition also carries the error's text: a Machine that is already  *)
(* not ready may or may not change by the write.                           *)
updateReconcileFailedStatus ==
    /\ pc = "failed"
    /\ \/ /\ mFresh
          /\ machine' = [m EXCEPT !.ready = "False"]
          /\ machineFresh' \in BOOLEAN
          /\ machineFresh' => machineFresh /\ machine' = machine
          /\ UNCHANGED machineSeen
       \/ /\ ~mFresh
          /\ UNCHANGED storeVars
    /\ Return(TRUE)
    /\ UNCHANGED <<childVars, podVars, budget>>

ReconcilerStep ==
    \/ Reconcile
    \/ reconcileMachineNodePool
    \/ \E t \in MachineType : reconcileStatefulSet(t)
    \/ StatefulSetsDone
    \/ \E t \in MachineType : reconcileService(t)
    \/ ServicesDone
    \/ updateReconcileConditions
    \/ updateStatus
    \/ updateReconcileFailedStatus

-----------------------------------------------------------------------------
(***************************************************************************)
(* The informers.  A delivery copies the stored object into the cache and  *)
(* runs the event handler SetupWithManager installs: every event of the    *)
(* Machine, its pool and its StatefulSets enqueues the Machine; Services   *)
(* are not watched; Pod events pass podReconcileRequest.                   *)
(***************************************************************************)
(* Mutant: changes of the status alone are filtered out.                   *)
DeliverMachineSpecChange ==
    /\ ~machineFresh
    /\ machineSeen' = machine /\ machineFresh' = TRUE
    /\ queued' = (queued \/ machine.spec # machineSeen.spec)
    /\ UNCHANGED <<machine, childVars, podVars, workerVars, budget>>

DeliverMachine ==
    /\ ~machineFresh
    /\ machineSeen' = machine /\ machineFresh' = TRUE
    /\ queued' = TRUE
    /\ UNCHANGED <<machine, childVars, podVars, workerVars, budget>>

DeliverPool ==
    /\ ~poolFresh
    /\ poolSeen' = pool /\ poolFresh' = TRUE
    /\ queued' = TRUE
    /\ UNCHANGED <<storeVars, pool, stsVars, svc, podVars, workerVars, budget>>

DeliverStatefulSet(t) ==
    /\ sts[t] # NoSts /\ stsCache[t] # "current"
    /\ stsCache' = [stsCache EXCEPT ![t] = "current"]
    /\ queued' = TRUE
    /\ UNCHANGED <<storeVars, poolVars, sts, svc, podVars, workerVars, budget>>

DeliverService(t) ==
    /\ svc[t] = "created"
    /\ svc' = [svc EXCEPT ![t] = "cached"]
    /\ UNCHANGED <<storeVars, poolVars, stsVars, podVars, queued, workerVars, budget>>

(* Mutants: only the Pods of one role are watched.                         *)
podReconcileRequestGuestsOnly(p) == p \in Guest /\ TypeOf(p) \in machineSeen.spec.types
podReconcileRequestReservationsOnly(p) ==
    p \in Reservation /\ TypeOf(p) \in machineSeen.spec.types

(* A Pod's event is dropped unless the cached Machine has the Pod's type.  *)
podReconcileRequest(p) == TypeOf(p) \in machineSeen.spec.types

DeliverPod(p) ==
    /\ podsSeen[p] # pods[p]
    /\ podsSeen' = [podsSeen EXCEPT ![p] = pods[p]]
    /\ queued' = (queued \/ podReconcileRequest(p))
    /\ UNCHANGED <<storeVars, childVars, pods, workerVars, budget>>

-----------------------------------------------------------------------------
(***************************************************************************)
(* The cluster: StatefulSet controller (OrderedReady), scheduler, kubelet. *)
(***************************************************************************)
SetPod(p, state) ==
    /\ pods' = [pods EXCEPT ![p] = state]
    /\ UNCHANGED <<storeVars, poolVars, svc, podsSeen, queued, workerVars>>

(* The StatefulSet's own status follows its Pods: its version moves on.    *)
TouchSts(t) ==
    /\ stsCache' = IF stsCache[t] = "current"
                   THEN [stsCache EXCEPT ![t] = "stale"] ELSE stsCache
    /\ UNCHANGED sts

CreateReservation(t, i) ==
    /\ i < sts[t]
    /\ pods[<<t, i>>] = Absent
    /\ \A j \in 0 .. (i - 1) : pods[<<t, j>>] = Running
    /\ SetPod(<<t, i>>, Created) /\ TouchSts(t) /\ UNCHANGED budget

Remove(p, state) ==
    IF state.bound THEN SetPod(p, Terminating) ELSE SetPod(p, Absent)

(* Scaling down removes the highest ordinal first, once all that stay are  *)
(* ready; of the others only the first unhealthy one may go unready.       *)
DeleteReservation(t, i) ==
    /\ sts[t] # NoSts /\ i >= sts[t]
    /\ pods[<<t, i>>] \notin {Absent, Terminating}
    /\ \A j \in Ordinal : j > i => pods[<<t, j>>] = Absent
    /\ \A j \in 0 .. (i - 1) :
          j < sts[t] \/ pods[<<t, i>>] # Running => pods[<<t, j>>] = Running
    /\ Remove(<<t, i>>, pods[<<t, i>>]) /\ TouchSts(t) /\ UNCHANGED budget

HoldsSlot(p) == pods[p].bound /\ pods[p] # Finished
HasRoom(t) ==
    Cardinality({p \in ReservationsOf(t) \cup GuestsOf(t) : HoldsSlot(p)}) < Capacity[t]

Bind(p) ==
    /\ pods[p] \in {Created, Unschedulable}
    /\ HasRoom(TypeOf(p))
    /\ SetPod(p, Creating) /\ UNCHANGED <<stsVars, budget>>

MarkUnschedulable(p) ==
    /\ pods[p] = Created
    /\ ~HasRoom(TypeOf(p))
    /\ SetPod(p, Unschedulable) /\ UNCHANGED <<stsVars, budget>>

(* Containers come up: the Pod runs, and is or is not yet ready.           *)
StartContainers(p) ==
    /\ pods[p] = Creating
    /\ \E state \in {Running, NotReady} : SetPod(p, state)
    /\ UNCHANGED <<stsVars, budget>>

BecomeReady(p) ==
    /\ pods[p] = NotReady
    /\ SetPod(p, Running) /\ UNCHANGED <<stsVars, budget>>

StopContainers(p) ==
    /\ pods[p] = Terminating
    /\ SetPod(p, Absent) /\ UNCHANGED <<stsVars, budget>>

-----------------------------------------------------------------------------
(***************************************************************************)
(* Disturbances: users and failures.                                       *)
(***************************************************************************)
Disturb == budget > 0 /\ budget' = budget - 1

(* A user changes the spec; every copy of the Machine is outdated.         *)
ChangeSpec ==
    /\ Disturb
    /\ \E s \in Specs \ {machine.spec} : machine' = [machine EXCEPT !.spec = s]
    /\ machineFresh' = FALSE /\ mFresh' = FALSE
    /\ UNCHANGED <<machineSeen, childVars, podVars, queued, pc, report, m, todo>>

(* The admission webhook, reading the caches: it refuses a Pod it knows by *)
(* name, a type the Machine lacks, and a type with nothing reserved.  (No  *)
(* status entry is a nil pointer: the call fails and the Pod is refused.)  *)
Admitted(g) ==
    LET t == GuestType[g] IN
    /\ podsSeen[g] = Absent
    /\ t \in machineSeen.spec.types
    /\ machineSeen.status[t].listed
    /\ machineSeen.status[t].reserved # 0

CreateGuest(g) ==
    /\ pods[g] = Absent
    /\ Admitted(g)
    /\ SetPod(g, Created) /\ UNCHANGED <<stsVars, budget>>

DeleteGuest(g) ==
    /\ Disturb
    /\ pods[g] \notin {Absent, Terminating}
    /\ Remove(g, pods[g]) /\ UNCHANGED stsVars

(* A guest may end; a reservation Pod sleeps for ever.                     *)
FinishGuest(g) ==
    /\ Disturb
    /\ pods[g] \in {Running, NotReady}
    /\ SetPod(g, Finished) /\ UNCHANGED stsVars

(* A reservation Pod is evicted.                                           *)
Evict(p) ==
    /\ Disturb
    /\ pods[p] \in {Creating, Running, NotReady}
    /\ SetPod(p, Terminating) /\ UNCHANGED stsVars

LoseReadiness(p) ==
    /\ Disturb
    /\ pods[p] = Running
    /\ SetPod(p, NotReady) /\ UNCHANGED stsVars

(* Someone else writes the pool: its controller the status, a user the     *)
(* node pool.                                                              *)
WritePool ==
    /\ Disturb /\ pool.exists
    /\ \E pooled \in SUBSET MachineType : pool' = [pool EXCEPT !.pooled = pooled]
    /\ poolFresh' = FALSE
    /\ UNCHANGED <<storeVars, poolSeen, stsVars, svc, podVars, queued, workerVars>>

(* Someone else writes a StatefulSet: its status, or a user its scale.     *)
WriteStatefulSet(t) ==
    /\ Disturb /\ sts[t] # NoSts
    /\ \E n \in 0 .. MaxAvailable : sts' = [sts EXCEPT ![t] = n]
    /\ stsCache' = IF stsCache[t] = "current"
                   THEN [stsCache EXCEPT ![t] = "stale"] ELSE stsCache
    /\ UNCHANGED <<storeVars, poolVars, svc, podVars, queued, workerVars>>

(* The periodic resync replays every cached object as an update.           *)
Resync ==
    /\ Disturb /\ ~queued
    /\ queued' = TRUE
    /\ UNCHANGED <<storeVars, childVars, podVars, workerVars>>

(* The request the reconciler is about to make fails.                      *)
FailRequest ==
    /\ Disturb
    /\ \/ /\ pc \in {"pool", "sts", "svc"} \/ report
          /\ pc' = "failed" /\ report' = FALSE /\ todo' = {}
          /\ UNCHANGED <<m, mFresh, queued>>
       \/ /\ pc \in {"status", "failed"} /\ ~report
          /\ Return(TRUE)
    /\ UNCHANGED <<storeVars, childVars, podVars>>

(* The manager dies and another takes over: it lists everything anew and   *)
(* starts with every Machine on its queue.                                 *)
Crash ==
    /\ Disturb
    /\ Return(TRUE)
    /\ machineSeen' = machine /\ machineFresh' = TRUE
    /\ poolSeen' = pool /\ poolFresh' = TRUE
    /\ stsCache' = [t \in MachineType |-> IF sts[t] = NoSts THEN "absent" ELSE "current"]
    /\ svc' = [t \in MachineType |-> IF svc[t] = "absent" THEN "absent" ELSE "cached"]
    /\ podsSeen' = pods
    /\ UNCHANGED <<machine, pool, sts, pods>>

-----------------------------------------------------------------------------
InformerStep ==
    \/ DeliverMachine
    \/ DeliverPool
    \/ \E t \in MachineType : DeliverStatefulSet(t) \/ DeliverService(t)
    \/ \E p \in Pod : DeliverPod(p)

StatefulSetControllerStep ==
    \E t \in MachineType, i \in Ordinal :
        CreateReservation(t, i) \/ DeleteReservation(t, i)

SchedulerStep == \E p \in Pod : Bind(p) \/ MarkUnschedulable(p)

KubeletStep ==
    \E p \in Pod : StartContainers(p) \/ BecomeReady(p) \/ StopContainers(p)

ClusterStep == StatefulSetControllerStep \/ SchedulerStep \/ KubeletStep

Disturbance ==
    \/ ChangeSpec
    \/ \E g \in Guest : CreateGuest(g) \/ FinishGuest(g) \/ DeleteGuest(g)
    \/ \E p \in Reservation : Evict(p)
    \/ \E p \in Pod : LoseReadiness(p)
    \/ WritePool
    \/ \E t \in MachineType : WriteStatefulSet(t)
    \/ Resync
    \/ FailRequest
    \/ Crash

Next == ReconcilerStep \/ InformerStep \/ ClusterStep \/ Disturbance

Spec == Init /\ [][Next]_vars

(***************************************************************************)
(* What the runtime keeps doing: one worker serves the queue, each kind's  *)
(* watch delivers, and the cluster's controllers act on what they see.     *)
(* Nothing is assumed of users, failures or the resync.                    *)
(***************************************************************************)
Fairness ==
    /\ WF_vars(ReconcilerStep)
    /\ WF_vars(DeliverMachine)
    /\ WF_vars(DeliverPool)
    /\ WF_vars(\E t \in MachineType : DeliverStatefulSet(t))
    /\ WF_vars(\E t \in MachineType : DeliverService(t))
    /\ \A p \in Pod : WF_vars(DeliverPod(p))
    /\ WF_vars(StatefulSetControllerStep)
    /\ WF_vars(SchedulerStep)
    /\ WF_vars(KubeletStep)

FairSpec == Spec /\ Fairness

-----------------------------------------------------------------------------
(***************************************************************************)
(* Properties.                                                             *)
(***************************************************************************)
Usage == [listed   : BOOLEAN,
          maximum  : 0 .. MaxAvailable,
          reserved : 0 .. MaxAvailable,
          used     : 0 .. Cardinality(Guest),
          waiting  : 0 .. Cardinality(Guest)]

MachineObject == [spec   : Specs,
                  status : [MachineType -> Usage],
                  ready  : {"Unknown", "True", "False"}]

PoolObject == [exists : BOOLEAN,
               pooled : SUBSET MachineType,
               stock  : SUBSET MachineType]

(* Every variable has its type; with it the counts published in the status *)
(* and the replica counts stay within what the specs allow.                *)
TypeOK ==
    /\ machine \in MachineObject /\ machineSeen \in MachineObject
    /\ machineFresh \in BOOLEAN
    /\ pool \in PoolObject /\ poolSeen \in PoolObject /\ poolFresh \in BOOLEAN
    /\ sts \in [MachineType -> {NoSts} \cup 0 .. MaxAvailable]
    /\ stsCache \in [MachineType -> {"absent", "stale", "current"}]
    /\ svc \in [MachineType -> {"absent", "created", "cached"}]
    /\ pods \in [Pod -> PodState] /\ podsSeen \in [Pod -> PodState]
    /\ queued \in BOOLEAN
    /\ pc \in {"idle", "pool", "sts", "svc", "status", "failed"}
    /\ report \in BOOLEAN
    /\ m \in MachineObject /\ mFresh \in BOOLEAN
    /\ todo \in SUBSET MachineType
    /\ budget \in 0 .. MaxDisturbances

(* The caches hold what is stored.                                         *)
UpToDate ==
    /\ machineFresh /\ poolFresh
    /\ \A t \in MachineType : sts[t] # NoSts => stsCache[t] = "current"
    /\ podsSeen = pods

(* What the reconciler maintains is what the spec asks for, given Pods.    *)
StatusAccurate(known) ==
    \A t \in MachineType :
        IF t \in machine.spec.types
        THEN machine.status[t] = UsageOf(known, ReservationsOf(t), GuestsOf(t),
                                         machine.spec.available[t])
        ELSE machine.status[t].maximum = 0

PoolAccurate(spec) ==
    /\ pool.exists
    /\ pool.pooled = spec.pooled
    /\ spec.types \subseteq pool.stock

ReservationsAccurate(known) ==
    \A t \in machine.spec.types \cap machine.spec.pooled :
        sts[t] = StsReplicas(machine.status[t],
                             getUnscheduledPodNum(known, ReservationsOf(t)))

ReconciledWith(known) ==
    /\ StatusAccurate(known)
    /\ PoolAccurate(machine.spec)
    /\ ReservationsAccurate(known)
    /\ \A t \in machine.spec.types : svc[t] # "absent" /\ machine.ready = "True"

Reconciled == ReconciledWith(pods)

(* No wake-up is lost: when the reconciler has nothing to do and no event  *)
(* is on its way, what it maintains is what the spec and the Pods ask for, *)
(* and the Machine is ready.  Whatever failed, was refused or was          *)
(* overtaken meanwhile left either an event or a requeue behind.           *)
IdleMeansReconciled == (pc = "idle" /\ ~queued /\ UpToDate) => Reconciled

(* The StatefulSet controller has nothing to do, and each reservation Pod  *)
(* runs or finds no Node.                                                  *)
ReservationsPlaced(t) ==
    \A i \in Ordinal :
        pods[<<t, i>>] \in IF i < sts[t] THEN {Running, Unschedulable} ELSE {Absent}

(* At rest every machine of a pooled type is spoken for, and none twice:   *)
(* by a running reservation Pod, by a guest that counts as used, or for    *)
(* one that waits.  Only when guests claim all there is may they claim     *)
(* more.  And a reservation that finds no Node costs two machines, for the *)
(* controller asks for one less because of it.                             *)
MachinesHeldAtRest ==
    (pc = "idle" /\ ~queued /\ UpToDate) =>
        \A t \in machine.spec.types \cap machine.spec.pooled :
            LET reserved == NumRunningOrCreating(pods, ReservationsOf(t))
                unplaced == getUnscheduledPodNum(pods, ReservationsOf(t))
                claimed  == NumRunningOrCreating(pods, GuestsOf(t))
                               + getUnscheduledPodNum(pods, GuestsOf(t))
            IN  ReservationsPlaced(t) =>
                    \/ reserved + claimed + 2 * unplaced = machine.spec.available[t]
                    \/ /\ reserved = 0 /\ unplaced = 0
                       /\ claimed >= machine.spec.available[t]

(* No step overwrites the counts with a maximum of an older spec: whoever  *)
(* changes the status under an unchanged spec publishes, for every listed  *)
(* type, the quantity that spec asks for (zero for a type it dropped).     *)
MaximumFromSpec ==
    [][machine'.status # machine.status =>
          \A t \in MachineType : machine'.status[t].listed =>
              machine'.status[t].maximum =
                  IF t \in machine.spec.types THEN machine.spec.available[t] ELSE 0]_vars

(* A write of the reconciler is about to be refused, or was.               *)
Refused == pc = "failed" \/ (pc = "status" /\ ~mFresh /\ CountedStatus # m.status)
Unrefused == <>[]~Refused

(* However it was disturbed, the Machine in the end is and stays           *)
(* reconciled: replica counts stop moving, counts are right, Ready is True.*)
EventuallyReconciled == Unrefused => <>[]Reconciled

(* In the end every machine of a pooled type is held, by a running         *)
(* reservation Pod or by a running guest, and none is left idle.           *)
EventuallyAllHeld ==
    <>[](\A t \in machine.spec.types \cap machine.spec.pooled :
            NumRunningOrCreating(pods, ReservationsOf(t) \cup GuestsOf(t))
                = machine.spec.available[t])

(* A guest that was admitted and stays does get a machine: the controller  *)
(* gives up a reservation for it.                                          *)
AdmittedGuestIsBound ==
    \A g \in Guest :
        NotScheduled(pods[g]) ~> (pods[g].bound \/ pods[g] = Absent)

(* The pool's stock of machine types never loses a type, although each     *)
(* write replaces the whole stock with one computed from a cached copy.    *)
StockOnlyGrows == [][pool.stock \subseteq pool'.stock]_vars

-----------------------------------------------------------------------------
(***************************************************************************)
(* What the repository says of itself, and the code does not keep.         *)
(***************************************************************************)

(* docs/design_v1alpha1.md: Maximum is the available quantity of a type,   *)
(* and the injector refuses a guest when "there is no <type> left".  It    *)
(* looks at a cached count that no admission lowers.                       *)
AdmittedWithinMaximum ==
    \A t \in machine.spec.types :
        machine.status[t].listed =>
            Cardinality({g \in GuestsOf(t) : pods[g] \notin {Absent, Finished, Terminating}})
                <= machine.status[t].maximum
=============================================================================
