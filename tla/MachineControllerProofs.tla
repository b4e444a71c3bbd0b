----------------------- MODULE MachineControllerProofs -----------------------
(***************************************************************************)
(* Proofs about MachineController, for every value of its constants.       *)
(***************************************************************************)
EXTENDS MachineController, FiniteSetTheorems, TLAPS

-----------------------------------------------------------------------------
(* Lemmas about the counts.                                                *)

(* The constants of the model, as the proofs use them.                     *)
LEMMA ConstantsLemma ==
    /\ IsFiniteSet(Guest) /\ Cardinality(Guest) \in Nat
    /\ MaxAvailable \in Nat
    /\ Blank \in MachineObject
<1>1. IsFiniteSet(Guest) /\ Cardinality(Guest) \in Nat
  BY FiniteAssumption, FS_CardinalityType
<1>2. MaxAvailable \in Nat
  BY BoundsAssumption
<1>3. Unlisted \in Usage
  BY <1>1, <1>2 DEF Unlisted, Usage
<1>4. (CHOOSE s \in Specs : TRUE) \in Specs
  BY SpecsAssumption
<1> QED
  BY <1>1, <1>2, <1>3, <1>4 DEF Blank, NewMachine, MachineObject

(* The reservation Pods of a type are as many as a Machine may ask for.    *)
LEMMA ReservationsLemma ==
    ASSUME NEW t \in MachineType
    PROVE  /\ IsFiniteSet(ReservationsOf(t))
           /\ Cardinality(ReservationsOf(t)) <= MaxAvailable
<1> DEFINE f == [i \in Ordinal |-> <<t, i>>]
<1>1. IsFiniteSet(Ordinal) /\ Cardinality(Ordinal) = MaxAvailable
  <2>1. MaxAvailable \in Nat
    BY BoundsAssumption
  <2> QED
    BY <2>1, FS_Interval DEF Ordinal
<1>2. f \in Surjection(Ordinal, ReservationsOf(t))
  BY DEF Surjection, ReservationsOf, Reservation
<1> QED
  BY <1>1, <1>2, FS_Surjection

(* Counting Pods of a finite set yields at most the size of the set.       *)
LEMMA CountLemma ==
    ASSUME NEW ids, IsFiniteSet(ids), NEW n \in Nat, Cardinality(ids) <= n,
           NEW known
    PROVE  /\ NumRunningOrCreating(known, ids) \in 0 .. n
           /\ getUnscheduledPodNum(known, ids) \in 0 .. n
<1>1. ASSUME NEW T \in SUBSET ids PROVE Cardinality(T) \in 0 .. n
  BY <1>1, FS_Subset, FS_CardinalityType
<1> QED
  BY <1>1 DEF NumRunningOrCreating, getUnscheduledPodNum

(* What is published and requested is within the bounds of the constants.  *)
LEMMA UsageLemma ==
    ASSUME NEW t \in MachineType, NEW known, NEW max \in 0 .. MaxAvailable
    PROVE  UsageOf(known, ReservationsOf(t), GuestsOf(t), max) \in Usage
<1>1. IsFiniteSet(GuestsOf(t)) /\ Cardinality(GuestsOf(t)) <= Cardinality(Guest)
  BY ConstantsLemma, FS_Subset DEF GuestsOf
<1>2. NumRunningOrCreating(known, ReservationsOf(t)) \in 0 .. MaxAvailable
  BY ConstantsLemma, ReservationsLemma, CountLemma
<1>3. /\ NumRunningOrCreating(known, GuestsOf(t)) \in 0 .. Cardinality(Guest)
      /\ getUnscheduledPodNum(known, GuestsOf(t)) \in 0 .. Cardinality(Guest)
  BY <1>1, ConstantsLemma, CountLemma
<1> QED
  BY <1>2, <1>3 DEF UsageOf, Usage

LEMMA ReplicasLemma ==
    ASSUME NEW u \in Usage, NEW n \in Nat
    PROVE  StsReplicas(u, n) \in 0 .. MaxAvailable
<1>1. /\ u.maximum \in 0 .. MaxAvailable
      /\ u.used \in Nat /\ u.waiting \in Nat
  BY ConstantsLemma DEF Usage
<1> QED
  BY <1>1, ConstantsLemma DEF StsReplicas

LEMMA DesiredReplicasLemma ==
    ASSUME m \in MachineObject, NEW t \in MachineType
    PROVE  DesiredReplicas(t) \in 0 .. MaxAvailable
<1>1. getUnscheduledPodNum(podsSeen, ReservationsOf(t)) \in 0 .. MaxAvailable
  BY ConstantsLemma, ReservationsLemma, CountLemma
<1>2. m.status[t] \in Usage
  BY DEF MachineObject
<1> QED
  BY <1>1, <1>2, ConstantsLemma, ReplicasLemma DEF DesiredReplicas

LEMMA CountedStatusLemma ==
    ASSUME m \in MachineObject
    PROVE  CountedStatus \in [MachineType -> Usage]
<1> SUFFICES ASSUME NEW t \in MachineType PROVE CountedStatus[t] \in Usage
  BY DEF CountedStatus
<1>1. Unlisted \in Usage
  BY ConstantsLemma DEF Unlisted, Usage
<1>2. m.spec \in MachineSpec
  BY SpecsAssumption DEF MachineObject
<1> DEFINE max == IF t \in m.spec.types THEN m.spec.available[t] ELSE 0
<1>3. max \in 0 .. MaxAvailable
  BY <1>2, ConstantsLemma DEF MachineSpec
<1>4. UsageOf(podsSeen, ReservationsOf(t), GuestsOf(t), max) \in Usage
  BY <1>3, UsageLemma
<1> QED
  BY <1>1, <1>4 DEF CountedStatus

-----------------------------------------------------------------------------
(* Type correctness.                                                       *)

LEMMA PodLemma ==
    /\ \A g \in Guest : g \in Pod
    /\ \A p \in Reservation : p \in Pod
    /\ \A t \in MachineType, i \in Ordinal : <<t, i>> \in Pod
    /\ {Absent, Created, Unschedulable, Creating, Running, NotReady,
          Finished, Terminating} \subseteq PodState
BY DEF Pod, Reservation, PodState

LEMMA TypeInit == Init => TypeOK
<1> SUFFICES ASSUME Init PROVE TypeOK
  OBVIOUS
<1>1. machine \in MachineObject
  <2>1. PICK s \in Specs : machine = NewMachine(s)
    BY DEF Init
  <2>2. Unlisted \in Usage
    BY ConstantsLemma DEF Unlisted, Usage
  <2> QED
    BY <2>1, <2>2 DEF NewMachine, MachineObject
<1>2. pool \in PoolObject
  BY DEF Init, NoPool, PoolObject
<1>3. pods \in [Pod -> PodState] /\ podsSeen \in [Pod -> PodState]
  BY PodLemma DEF Init
<1>4. /\ sts \in [MachineType -> {NoSts} \cup 0 .. MaxAvailable]
      /\ stsCache \in [MachineType -> {"absent", "stale", "current"}]
      /\ svc \in [MachineType -> {"absent", "created", "cached"}]
  BY DEF Init
<1>5. budget \in 0 .. MaxDisturbances
  BY BoundsAssumption DEF Init
<1> QED
  BY <1>1, <1>2, <1>3, <1>4, <1>5, ConstantsLemma DEF Init, TypeOK

LEMMA DesiredPoolType == TypeOK => DesiredPool \in PoolObject
<1> SUFFICES ASSUME TypeOK PROVE DesiredPool \in PoolObject
  OBVIOUS
<1>1. m.spec \in MachineSpec
  BY SpecsAssumption DEF TypeOK, MachineObject
<1> QED
  BY <1>1 DEF TypeOK, DesiredPool, PoolObject, MachineSpec

(* The reconciler's copy of a Machine may be given a new Ready condition.  *)
LEMMA ReadyType ==
    ASSUME NEW mo \in MachineObject, NEW r \in {"Unknown", "True", "False"}
    PROVE  [mo EXCEPT !.ready = r] \in MachineObject
BY DEF MachineObject

LEMMA ReconcilerType == TypeOK /\ ReconcilerStep => TypeOK'
<1> SUFFICES ASSUME TypeOK, ReconcilerStep PROVE TypeOK'
  OBVIOUS
<1> USE DEF storeVars, childVars, poolVars, stsVars, podVars
<1>0. Blank \in MachineObject
  BY ConstantsLemma
<1>1. CASE Reconcile
  BY <1>1 DEF Reconcile, TypeOK
<1>2. CASE reconcileMachineNodePool
  <2>1. m.spec \in MachineSpec
    BY SpecsAssumption DEF TypeOK, MachineObject
  <2>2. {t \in m.spec.types \cap m.spec.pooled : Listed(t)} \subseteq MachineType
    BY <2>1 DEF MachineSpec
  <2> QED
    BY <1>2, <2>2, DesiredPoolType DEF reconcileMachineNodePool, GoTo, TypeOK
<1>3. ASSUME NEW t \in MachineType, reconcileStatefulSet(t) PROVE TypeOK'
  BY <1>3, DesiredReplicasLemma DEF reconcileStatefulSet, GoTo, TypeOK
<1>4. CASE StatefulSetsDone
  <2>1. m.spec \in MachineSpec
    BY SpecsAssumption DEF TypeOK, MachineObject
  <2>2. {t \in m.spec.types : Listed(t)} \subseteq MachineType
    BY <2>1 DEF MachineSpec
  <2> QED
    BY <1>4, <2>2 DEF StatefulSetsDone, GoTo, TypeOK
<1>5. ASSUME NEW t \in MachineType, reconcileService(t) PROVE TypeOK'
  BY <1>5 DEF reconcileService, GoTo, TypeOK
<1>6. CASE ServicesDone
  BY <1>6 DEF ServicesDone, GoTo, TypeOK
<1>7. CASE updateReconcileConditions
  <2>1. [m EXCEPT !.ready = "True"] \in MachineObject
    BY ReadyType DEF TypeOK
  <2> QED
    BY <1>7, <2>1 DEF updateReconcileConditions, StoreStatus, TypeOK
<1>8. CASE updateStatus
  <2>1. [m EXCEPT !.status = CountedStatus, !.ready = "True"] \in MachineObject
    BY CountedStatusLemma DEF TypeOK, MachineObject
  <2> QED
    BY <1>0, <1>8, <2>1 DEF updateStatus, StoreStatus, Return, TypeOK
<1>9. CASE updateReconcileFailedStatus
  <2>1. [m EXCEPT !.ready = "False"] \in MachineObject
    BY ReadyType DEF TypeOK
  <2> QED
    BY <1>0, <1>9, <2>1 DEF updateReconcileFailedStatus, Return, TypeOK
<1> QED
  BY <1>1, <1>2, <1>3, <1>4, <1>5, <1>6, <1>7, <1>8, <1>9 DEF ReconcilerStep

LEMMA InformerType == TypeOK /\ InformerStep => TypeOK'
<1> SUFFICES ASSUME TypeOK, InformerStep PROVE TypeOK'
  OBVIOUS
<1> USE DEF storeVars, childVars, poolVars, stsVars, podVars, workerVars
<1>1. CASE DeliverMachine
  BY <1>1 DEF DeliverMachine, TypeOK
<1>2. CASE DeliverPool
  BY <1>2 DEF DeliverPool, TypeOK
<1>3. ASSUME NEW t \in MachineType, DeliverStatefulSet(t) PROVE TypeOK'
  BY <1>3 DEF DeliverStatefulSet, TypeOK
<1>4. ASSUME NEW t \in MachineType, DeliverService(t) PROVE TypeOK'
  BY <1>4 DEF DeliverService, TypeOK
<1>5. ASSUME NEW p \in Pod, DeliverPod(p) PROVE TypeOK'
  <2>1. podReconcileRequest(p) \in BOOLEAN
    BY DEF podReconcileRequest
  <2> QED
    BY <1>5, <2>1 DEF DeliverPod, TypeOK
<1> QED
  BY <1>1, <1>2, <1>3, <1>4, <1>5 DEF InformerStep

(* A Pod takes one of its shapes and nothing else changes but perhaps the  *)
(* freshness of a StatefulSet's cached copy and the budget.                *)
LEMMA SetPodType ==
    ASSUME TypeOK, NEW p \in Pod, NEW state \in PodState, SetPod(p, state),
           sts' = sts,
           stsCache' \in [MachineType -> {"absent", "stale", "current"}],
           budget' \in 0 .. MaxDisturbances
    PROVE  TypeOK'
BY DEF SetPod, TypeOK, storeVars, poolVars, workerVars

LEMMA ClusterType == TypeOK /\ ClusterStep => TypeOK'
<1> SUFFICES ASSUME TypeOK, ClusterStep PROVE TypeOK'
  OBVIOUS
<1>0. /\ stsCache \in [MachineType -> {"absent", "stale", "current"}]
      /\ budget \in 0 .. MaxDisturbances
      /\ \A p \in Pod : pods[p] \in PodState
  BY DEF TypeOK
<1>1. ASSUME NEW t \in MachineType, TouchSts(t)
      PROVE  /\ sts' = sts
             /\ stsCache' \in [MachineType -> {"absent", "stale", "current"}]
  BY <1>0, <1>1 DEF TouchSts
<1>2. CASE StatefulSetControllerStep
  <2>1. PICK t \in MachineType, i \in Ordinal :
            CreateReservation(t, i) \/ DeleteReservation(t, i)
    BY <1>2 DEF StatefulSetControllerStep
  <2>2. PICK state \in PodState : SetPod(<<t, i>>, state)
    BY <2>1, PodLemma DEF CreateReservation, DeleteReservation, Remove
  <2>3. TouchSts(t) /\ budget' = budget
    BY <2>1 DEF CreateReservation, DeleteReservation
  <2> QED
    BY <1>0, <1>1, <2>2, <2>3, PodLemma, SetPodType
<1>3. CASE SchedulerStep \/ KubeletStep
  <2>1. PICK p \in Pod, state \in PodState : SetPod(p, state)
    BY <1>3, PodLemma DEF SchedulerStep, KubeletStep, Bind, MarkUnschedulable,
       StartContainers, BecomeReady, StopContainers
  <2>2. sts' = sts /\ stsCache' = stsCache /\ budget' = budget
    BY <1>3 DEF SchedulerStep, KubeletStep, Bind, MarkUnschedulable,
       StartContainers, BecomeReady, StopContainers, stsVars
  <2> QED
    BY <1>0, <2>1, <2>2, SetPodType
<1> QED
  BY <1>2, <1>3 DEF ClusterStep

LEMMA DisturbanceType == TypeOK /\ Disturbance => TypeOK'
<1> SUFFICES ASSUME TypeOK, Disturbance PROVE TypeOK'
  OBVIOUS
<1> USE DEF storeVars, childVars, poolVars, stsVars, podVars, workerVars
<1>0. Blank \in MachineObject /\ MaxDisturbances \in Nat
  BY ConstantsLemma, BoundsAssumption
<1>a. Disturb => budget' \in 0 .. MaxDisturbances
  BY <1>0 DEF Disturb, TypeOK
<1>1. CASE ChangeSpec
  <2>1. machine' \in MachineObject
    BY <1>1 DEF ChangeSpec, TypeOK, MachineObject
  <2> QED
    BY <1>1, <1>a, <2>1 DEF ChangeSpec, TypeOK
<1>2. CASE \/ \E g \in Guest : CreateGuest(g) \/ FinishGuest(g) \/ DeleteGuest(g)
           \/ \E p \in Reservation : Evict(p)
           \/ \E p \in Pod : LoseReadiness(p)
  <2>1. PICK p \in Pod, state \in PodState : SetPod(p, state)
    BY <1>2, PodLemma DEF CreateGuest, FinishGuest, DeleteGuest, Evict,
       LoseReadiness, Remove
  <2>2. sts' = sts /\ stsCache' = stsCache /\ (budget' = budget \/ Disturb)
    BY <1>2 DEF CreateGuest, FinishGuest, DeleteGuest, Evict, LoseReadiness
  <2> QED
    BY <1>a, <2>1, <2>2, SetPodType DEF TypeOK
<1>3. CASE WritePool
  BY <1>3, <1>a DEF WritePool, TypeOK, PoolObject
<1>4. ASSUME NEW t \in MachineType, WriteStatefulSet(t) PROVE TypeOK'
  BY <1>4, <1>a DEF WriteStatefulSet, TypeOK
<1>5. CASE Resync
  BY <1>5, <1>a DEF Resync, TypeOK
<1>6. CASE FailRequest
  BY <1>6, <1>0, <1>a DEF FailRequest, Return, TypeOK
<1>7. CASE Crash
  BY <1>7, <1>0, <1>a DEF Crash, Return, TypeOK
<1> QED
  BY <1>1, <1>2, <1>3, <1>4, <1>5, <1>6, <1>7 DEF Disturbance

LEMMA TypeStep == TypeOK /\ [Next]_vars => TypeOK'
<1>1. TypeOK /\ UNCHANGED vars => TypeOK'
  BY DEF TypeOK, vars, storeVars, childVars, poolVars, stsVars, podVars, workerVars
<1> QED
  BY <1>1, ReconcilerType, InformerType, ClusterType, DisturbanceType DEF Next

(* The counts in the status, the replica counts and everything else keep   *)
(* their types: no StatefulSet is ever asked for more replicas than a      *)
(* Machine may have, nor for a negative number (machine_controller.go,     *)
(* reconcileStatefulSet and updateStatus).                                 *)
THEOREM TypeCorrect == Spec => []TypeOK
BY TypeInit, TypeStep, PTL DEF Spec

-----------------------------------------------------------------------------
(***************************************************************************)
(* The inductive invariant.                                                *)
(*                                                                         *)
(* IdleMeansReconciled speaks of the moment the reconciler stops; it holds *)
(* because of what every stage leaves behind.  As long as nothing queued   *)
(* the Machine again and the cached Machine is the stored one, each stage  *)
(* that is over has its child in the desired state or the child's cached   *)
(* copy is outdated, in which case its delivery will queue the Machine.    *)
(***************************************************************************)

(* A copy marked current equals what is stored, and an undisturbed         *)
(* reconcile works on the current Machine.                                 *)
FreshCopies ==
    /\ machineFresh => machineSeen = machine
    /\ poolFresh => poolSeen = pool
    /\ mFresh => m = machine
    /\ pc # "idle" /\ ~queued /\ machineFresh => mFresh

StsDone(t) ==
    /\ t \in m.spec.types \cap m.spec.pooled /\ Listed(t)
    /\ pc \in {"svc", "status"} \/ (pc = "sts" /\ t \notin todo)

SvcDone(t) ==
    /\ t \in m.spec.types /\ Listed(t)
    /\ pc = "status" \/ (pc = "svc" /\ t \notin todo)

(* What a finished stage leaves whatever happens.                          *)
StagesLeave ==
    /\ report => pc \in {"sts", "svc"}
    /\ \A t \in MachineType : StsDone(t) => sts[t] # NoSts
    /\ \A t \in MachineType : SvcDone(t) =>
          svc[t] # "absent" /\ (report \/ m.ready = "True")

Undisturbed == ~queued /\ machineFresh

(* What it leaves while nothing queued the Machine again.                  *)
PoolProgress ==
    Undisturbed /\ poolFresh /\ pc \in {"sts", "svc", "status"} => PoolAccurate(m.spec)

StsProgress ==
    \A t \in MachineType :
        Undisturbed /\ StsDone(t) /\ stsCache[t] = "current" => sts[t] = DesiredReplicas(t)

StsCached == \A t \in MachineType : sts[t] # NoSts => stsCache[t] = "current"

IdleProgress ==
    Undisturbed /\ pc = "idle" /\ poolFresh /\ StsCached => ReconciledWith(podsSeen)

IInv ==
    /\ TypeOK
    /\ FreshCopies
    /\ StagesLeave
    /\ PoolProgress
    /\ StsProgress
    /\ IdleProgress

(* Counts depend on the counted Pods only.                                 *)
LEMMA SameCounts ==
    ASSUME NEW known, NEW new, NEW ids, \A q \in ids : new[q] = known[q]
    PROVE  /\ NumRunningOrCreating(new, ids) = NumRunningOrCreating(known, ids)
           /\ getUnscheduledPodNum(new, ids) = getUnscheduledPodNum(known, ids)
<1>1. {q \in ids : RunningOrCreating(new[q])} = {q \in ids : RunningOrCreating(known[q])}
  OBVIOUS
<1>2. {q \in ids : NotScheduled(new[q])} = {q \in ids : NotScheduled(known[q])}
  OBVIOUS
<1> QED
  BY <1>1, <1>2 DEF NumRunningOrCreating, getUnscheduledPodNum

(* A Pod of another type changes nothing for type t.                       *)
LEMMA OtherTypeCounts ==
    ASSUME podsSeen \in [Pod -> PodState], NEW t \in MachineType,
           NEW p \in Pod, TypeOf(p) # t, NEW state,
           podsSeen' = [podsSeen EXCEPT ![p] = state]
    PROVE  /\ \A max : UsageOf(podsSeen', ReservationsOf(t), GuestsOf(t), max)
                          = UsageOf(podsSeen, ReservationsOf(t), GuestsOf(t), max)
           /\ getUnscheduledPodNum(podsSeen', ReservationsOf(t))
                  = getUnscheduledPodNum(podsSeen, ReservationsOf(t))
<1>1. p \notin ReservationsOf(t) /\ p \notin GuestsOf(t)
  BY PodAssumption DEF TypeOf, ReservationsOf, GuestsOf
<1>2. ReservationsOf(t) \subseteq Pod /\ GuestsOf(t) \subseteq Pod
  BY DEF ReservationsOf, GuestsOf, Pod
<1>3. /\ \A q \in ReservationsOf(t) : podsSeen'[q] = podsSeen[q]
      /\ \A q \in GuestsOf(t) : podsSeen'[q] = podsSeen[q]
  BY <1>1, <1>2
<1> DEFINE new == podsSeen'
<1> HIDE DEF new
<1>4. /\ NumRunningOrCreating(new, ReservationsOf(t))
            = NumRunningOrCreating(podsSeen, ReservationsOf(t))
      /\ getUnscheduledPodNum(new, ReservationsOf(t))
            = getUnscheduledPodNum(podsSeen, ReservationsOf(t))
  <2>1. \A q \in ReservationsOf(t) : new[q] = podsSeen[q]
    BY <1>3 DEF new
  <2> QED
    BY <2>1, SameCounts, Zenon
<1>5. /\ NumRunningOrCreating(new, GuestsOf(t))
            = NumRunningOrCreating(podsSeen, GuestsOf(t))
      /\ getUnscheduledPodNum(new, GuestsOf(t))
            = getUnscheduledPodNum(podsSeen, GuestsOf(t))
  <2>1. \A q \in GuestsOf(t) : new[q] = podsSeen[q]
    BY <1>3 DEF new
  <2> QED
    BY <2>1, SameCounts, Zenon
<1>6. /\ \A max : UsageOf(new, ReservationsOf(t), GuestsOf(t), max)
                     = UsageOf(podsSeen, ReservationsOf(t), GuestsOf(t), max)
      /\ getUnscheduledPodNum(new, ReservationsOf(t))
            = getUnscheduledPodNum(podsSeen, ReservationsOf(t))
  BY <1>4, <1>5 DEF UsageOf
<1> QED
  BY <1>6 DEF new

-----------------------------------------------------------------------------
(* IInv holds at first and is preserved.                                   *)

Progress == FreshCopies /\ StagesLeave /\ PoolProgress /\ StsProgress /\ IdleProgress

LEMMA ProgressInit == Init => Progress
BY DEF Init, Progress, FreshCopies, StagesLeave, PoolProgress, StsProgress,
   IdleProgress, Undisturbed, StsDone, SvcDone, Blank, NewMachine

(* The steps of the cluster, and of users and failures as far as they only *)
(* touch Pods: the reconciler sees nothing of them.                        *)
PodStep ==
    /\ UNCHANGED <<storeVars, poolVars, sts, svc, podsSeen, queued, workerVars>>
    /\ \A t \in MachineType : stsCache'[t] = "current" => stsCache[t] = "current"

LEMMA PodStepProgress == IInv /\ PodStep => Progress'
<1> SUFFICES ASSUME IInv, PodStep PROVE Progress'
  OBVIOUS
<1> USE DEF PodStep, storeVars, poolVars, workerVars, IInv
<1>1. FreshCopies'
  BY DEF FreshCopies
<1>2. StagesLeave'
  BY DEF StagesLeave, StsDone, SvcDone, Listed
<1>3. PoolProgress'
  BY DEF PoolProgress, Undisturbed, PoolAccurate
<1>4. StsProgress'
  BY DEF StsProgress, Undisturbed, StsDone, Listed, DesiredReplicas
<1>5. IdleProgress'
  <2>1. StsCached' => StsCached
    BY DEF StsCached
  <2> QED
    BY <2>1 DEF IdleProgress, Undisturbed, ReconciledWith, StatusAccurate,
       PoolAccurate, ReservationsAccurate
<1> QED
  BY <1>1, <1>2, <1>3, <1>4, <1>5 DEF Progress

LEMMA IsPodStep ==
    ASSUME TypeOK,
           \/ ClusterStep
           \/ \E g \in Guest : CreateGuest(g) \/ FinishGuest(g) \/ DeleteGuest(g)
           \/ \E p \in Reservation : Evict(p)
           \/ \E p \in Pod : LoseReadiness(p)
    PROVE  PodStep
<1> USE DEF PodStep, SetPod, stsVars
<1>1. ASSUME NEW t \in MachineType, TouchSts(t)
      PROVE  /\ sts' = sts
             /\ \A u \in MachineType : stsCache'[u] = "current" => stsCache[u] = "current"
  BY <1>1 DEF TouchSts, TypeOK
<1>2. CASE StatefulSetControllerStep
  BY <1>1, <1>2 DEF StatefulSetControllerStep, CreateReservation,
     DeleteReservation, Remove
<1>3. CASE SchedulerStep
  BY <1>3 DEF SchedulerStep, Bind, MarkUnschedulable
<1>4. CASE KubeletStep
  BY <1>4 DEF KubeletStep, StartContainers, BecomeReady, StopContainers
<1>5. CASE \E g \in Guest : CreateGuest(g) \/ FinishGuest(g) \/ DeleteGuest(g)
  BY <1>5 DEF CreateGuest, FinishGuest, DeleteGuest, Remove
<1>6. CASE \E p \in Reservation : Evict(p)
  BY <1>6 DEF Evict
<1>7. CASE \E p \in Pod : LoseReadiness(p)
  BY <1>7 DEF LoseReadiness
<1> QED
  BY <1>2, <1>3, <1>4, <1>5, <1>6, <1>7 DEF ClusterStep

(* When the Machine is queued, or its stored version is newer than the     *)
(* cached one, only the unconditional parts are at stake.                  *)
LEMMA Disturbed ==
    ASSUME ~Undisturbed'
    PROVE  PoolProgress' /\ StsProgress' /\ IdleProgress'
BY DEF PoolProgress, StsProgress, IdleProgress

LEMMA InformerProgress == IInv /\ InformerStep => Progress'
<1> SUFFICES ASSUME IInv, InformerStep PROVE Progress'
  OBVIOUS
<1> USE DEF storeVars, childVars, poolVars, stsVars, podVars, workerVars
<1>1. CASE DeliverMachine
  <2>1. ~Undisturbed'
    BY <1>1 DEF DeliverMachine, Undisturbed
  <2>2. FreshCopies' /\ StagesLeave'
    BY <1>1 DEF DeliverMachine, IInv, FreshCopies, StagesLeave, StsDone, SvcDone, Listed
  <2> QED
    BY <2>1, <2>2, Disturbed DEF Progress
<1>2. CASE DeliverPool
  <2>1. ~Undisturbed'
    BY <1>2 DEF DeliverPool, Undisturbed
  <2>2. FreshCopies' /\ StagesLeave'
    BY <1>2 DEF DeliverPool, IInv, FreshCopies, StagesLeave, StsDone, SvcDone, Listed
  <2> QED
    BY <2>1, <2>2, Disturbed DEF Progress
<1>3. ASSUME NEW t \in MachineType, DeliverStatefulSet(t) PROVE Progress'
  <2>1. ~Undisturbed'
    BY <1>3 DEF DeliverStatefulSet, Undisturbed
  <2>2. FreshCopies' /\ StagesLeave'
    BY <1>3 DEF DeliverStatefulSet, IInv, FreshCopies, StagesLeave, StsDone, SvcDone, Listed
  <2> QED
    BY <2>1, <2>2, Disturbed DEF Progress
<1>4. ASSUME NEW t \in MachineType, DeliverService(t) PROVE Progress'
  <2> USE <1>4 DEF DeliverService, IInv
  <2>1. \A u \in MachineType : svc[u] # "absent" => svc'[u] # "absent"
    BY DEF TypeOK
  <2>2. FreshCopies' /\ StagesLeave'
    BY <2>1 DEF FreshCopies, StagesLeave, StsDone, SvcDone, Listed
  <2>3. PoolProgress' /\ StsProgress'
    BY DEF PoolProgress, StsProgress, Undisturbed, PoolAccurate, StsDone,
       Listed, DesiredReplicas
  <2>4. machine.spec.types \subseteq MachineType
    BY SpecsAssumption DEF TypeOK, MachineObject, MachineSpec
  <2>5. ReconciledWith(podsSeen) => ReconciledWith(podsSeen)'
    BY <2>1, <2>4 DEF ReconciledWith, StatusAccurate, PoolAccurate, ReservationsAccurate
  <2>6. IdleProgress'
    BY <2>5 DEF IdleProgress, Undisturbed, StsCached
  <2> QED
    BY <2>2, <2>3, <2>6 DEF Progress
<1>5. ASSUME NEW p \in Pod, DeliverPod(p) PROVE Progress'
  <2> USE <1>5 DEF DeliverPod, IInv
  <2>1. FreshCopies' /\ StagesLeave'
    BY DEF FreshCopies, StagesLeave, StsDone, SvcDone, Listed
  <2>2. CASE ~Undisturbed'
    BY <2>1, <2>2, Disturbed DEF Progress
  <2>3. CASE Undisturbed'
    <3>1. Undisturbed /\ machineSeen = machine /\ TypeOf(p) \notin machine.spec.types
      BY <2>3 DEF Undisturbed, podReconcileRequest, FreshCopies
    <3>2. podsSeen \in [Pod -> PodState] /\ podsSeen' = [podsSeen EXCEPT ![p] = pods[p]]
      BY DEF TypeOK
    <3>3. ASSUME NEW t \in MachineType, t \in machine.spec.types
          PROVE  /\ \A max : UsageOf(podsSeen', ReservationsOf(t), GuestsOf(t), max)
                               = UsageOf(podsSeen, ReservationsOf(t), GuestsOf(t), max)
                 /\ getUnscheduledPodNum(podsSeen', ReservationsOf(t))
                       = getUnscheduledPodNum(podsSeen, ReservationsOf(t))
      BY <3>1, <3>2, <3>3, OtherTypeCounts
    <3>4. PoolProgress'
      BY <3>1 DEF PoolProgress, Undisturbed, PoolAccurate
    <3>5. StsProgress'
      <4>1. ASSUME NEW t \in MachineType, StsDone(t)', stsCache'[t] = "current"
            PROVE  sts'[t] = DesiredReplicas(t)'
        <5>1. StsDone(t) /\ stsCache[t] = "current"
          BY <4>1 DEF StsDone, Listed
        <5>2. m = machine
          BY <3>1, <5>1 DEF FreshCopies, Undisturbed, StsDone
        <5>3. t \in machine.spec.types
          BY <5>1, <5>2 DEF StsDone
        <5>4. sts[t] = DesiredReplicas(t)
          BY <3>1, <5>1 DEF StsProgress
        <5>5. getUnscheduledPodNum(podsSeen', ReservationsOf(t))
                = getUnscheduledPodNum(podsSeen, ReservationsOf(t))
          BY <3>3, <5>3
        <5> QED
          BY <5>4, <5>5 DEF DesiredReplicas
      <4> QED
        BY <4>1 DEF StsProgress
    <3>6. IdleProgress'
      <4>1. SUFFICES ASSUME pc = "idle", poolFresh, StsCached
                     PROVE  ReconciledWith(podsSeen)'
        BY DEF IdleProgress, StsCached
      <4>2. ReconciledWith(podsSeen)
        BY <3>1, <4>1 DEF IdleProgress
      <4>3. StatusAccurate(podsSeen)'
        BY <3>3, <4>2 DEF ReconciledWith, StatusAccurate
      <4>4. machine.spec.types \subseteq MachineType
        BY SpecsAssumption DEF TypeOK, MachineObject, MachineSpec
      <4>5. ReservationsAccurate(podsSeen)'
        BY <3>3, <4>2, <4>4 DEF ReconciledWith, ReservationsAccurate
      <4> QED
        BY <4>2, <4>3, <4>5 DEF ReconciledWith, PoolAccurate
    <3> QED
      BY <2>1, <3>4, <3>5, <3>6 DEF Progress
  <2> QED
    BY <2>2, <2>3
<1> QED
  BY <1>1, <1>2, <1>3, <1>4, <1>5 DEF InformerStep

LEMMA DisturbanceProgress == IInv /\ Disturbance => Progress'
<1> SUFFICES ASSUME IInv, Disturbance PROVE Progress'
  OBVIOUS
<1> USE DEF storeVars, childVars, poolVars, stsVars, podVars, workerVars
<1>1. CASE ChangeSpec
  <2>1. ~Undisturbed'
    BY <1>1 DEF ChangeSpec, Undisturbed
  <2>2. FreshCopies' /\ StagesLeave'
    BY <1>1 DEF ChangeSpec, IInv, FreshCopies, StagesLeave, StsDone, SvcDone, Listed
  <2> QED
    BY <2>1, <2>2, Disturbed DEF Progress
<1>2. CASE \/ \E g \in Guest : CreateGuest(g) \/ FinishGuest(g) \/ DeleteGuest(g)
           \/ \E p \in Reservation : Evict(p)
           \/ \E p \in Pod : LoseReadiness(p)
  BY <1>2, IsPodStep, PodStepProgress DEF IInv
<1>3. CASE WritePool
  <2> USE <1>3 DEF WritePool, IInv
  <2>1. FreshCopies' /\ StagesLeave'
    BY DEF FreshCopies, StagesLeave, StsDone, SvcDone, Listed
  <2>2. PoolProgress' /\ IdleProgress'
    BY DEF PoolProgress, IdleProgress
  <2>3. StsProgress'
    BY DEF StsProgress, Undisturbed, StsDone, Listed, DesiredReplicas
  <2> QED
    BY <2>1, <2>2, <2>3 DEF Progress
<1>4. ASSUME NEW t \in MachineType, WriteStatefulSet(t) PROVE Progress'
  <2> USE <1>4 DEF WriteStatefulSet, IInv
  <2>1. /\ sts'[t] # NoSts /\ sts[t] # NoSts
        /\ stsCache'[t] # "current"
        /\ \A u \in MachineType \ {t} : sts'[u] = sts[u] /\ stsCache'[u] = stsCache[u]
    BY ConstantsLemma DEF TypeOK, NoSts
  <2>2. FreshCopies' /\ StagesLeave'
    BY <2>1 DEF FreshCopies, StagesLeave, StsDone, SvcDone, Listed
  <2>3. PoolProgress'
    BY DEF PoolProgress, Undisturbed, PoolAccurate
  <2>4. StsProgress'
    BY <2>1 DEF StsProgress, Undisturbed, StsDone, Listed, DesiredReplicas
  <2>5. IdleProgress'
    BY <2>1 DEF IdleProgress, StsCached
  <2> QED
    BY <2>2, <2>3, <2>4, <2>5 DEF Progress
<1>5. CASE Resync
  <2>1. ~Undisturbed'
    BY <1>5 DEF Resync, Undisturbed
  <2>2. FreshCopies' /\ StagesLeave'
    BY <1>5 DEF Resync, IInv, FreshCopies, StagesLeave, StsDone, SvcDone, Listed
  <2> QED
    BY <2>1, <2>2, Disturbed DEF Progress
<1>6. CASE FailRequest
  <2>1. CASE pc' = "failed" /\ report' = FALSE /\ UNCHANGED <<m, mFresh, queued>>
    <3>1. pc \in {"pool", "sts", "svc"}
      BY <1>6, <2>1 DEF FailRequest, Return, IInv, StagesLeave
    <3> QED
      BY <1>6, <2>1, <3>1 DEF FailRequest, IInv, Progress, FreshCopies, StagesLeave,
         PoolProgress, StsProgress, IdleProgress, StsDone, SvcDone
  <2>2. CASE Return(TRUE)
    <3>1. ~Undisturbed'
      BY <2>2 DEF Return, Undisturbed
    <3>2. FreshCopies' /\ StagesLeave'
      BY <1>6, <2>2 DEF FailRequest, Return, IInv, FreshCopies, StagesLeave, StsDone, SvcDone
    <3> QED
      BY <3>1, <3>2, Disturbed DEF Progress
  <2> QED
    BY <1>6, <2>1, <2>2 DEF FailRequest
<1>7. CASE Crash
  <2>1. ~Undisturbed'
    BY <1>7 DEF Crash, Return, Undisturbed
  <2>2. FreshCopies' /\ StagesLeave'
    BY <1>7 DEF Crash, Return, FreshCopies, StagesLeave, StsDone, SvcDone
  <2> QED
    BY <2>1, <2>2, Disturbed DEF Progress
<1> QED
  BY <1>1, <1>2, <1>3, <1>4, <1>5, <1>6, <1>7 DEF Disturbance

(* The reconciler, one lemma per stage.                                    *)

LEMMA ReconcileProgress == IInv /\ Reconcile => Progress'
BY DEF IInv, Reconcile, Progress, FreshCopies, StagesLeave, PoolProgress,
   StsProgress, IdleProgress, Undisturbed, StsDone, SvcDone, storeVars,
   childVars, poolVars, stsVars, podVars

LEMMA PoolStageProgress == IInv /\ reconcileMachineNodePool => Progress'
<1> SUFFICES ASSUME IInv, reconcileMachineNodePool PROVE Progress'
  OBVIOUS
<1> USE DEF reconcileMachineNodePool, GoTo, storeVars, stsVars, podVars, poolVars, IInv
<1>1. pc = "pool" /\ pc' \in {"sts", "failed"} /\ m' = m
  OBVIOUS
<1>2. pc' = "sts" => todo' = {t \in m.spec.types \cap m.spec.pooled : Listed(t)}
  BY <1>1
<1>3. \A t \in MachineType : ~StsDone(t)' /\ ~SvcDone(t)'
  BY <1>1, <1>2 DEF StsDone, SvcDone, Listed
<1>4. FreshCopies' /\ StagesLeave'
  BY <1>1, <1>3 DEF FreshCopies, StagesLeave
<1>5. StsProgress' /\ IdleProgress'
  BY <1>1, <1>3 DEF StsProgress, IdleProgress
<1>6. PoolProgress'
  <2>1. SUFFICES ASSUME poolFresh', pc' = "sts" PROVE PoolAccurate(m.spec)'
    BY <1>1 DEF PoolProgress
  <2>2. DesiredPool = poolSeen /\ poolSeen = pool /\ pool' = pool
    BY <2>1 DEF FreshCopies
  <2> QED
    BY <1>1, <2>2 DEF DesiredPool, PoolAccurate
<1> QED
  BY <1>4, <1>5, <1>6 DEF Progress

LEMMA StsStageProgress ==
    ASSUME NEW t \in MachineType, IInv, reconcileStatefulSet(t)
    PROVE  Progress'
<1> USE DEF reconcileStatefulSet, GoTo, storeVars, podVars, poolVars, IInv
<1>1. pc = "sts" /\ pc' \in {"sts", "failed"} /\ m' = m
  OBVIOUS
<1>2. \A u \in MachineType : ~SvcDone(u)'
  BY <1>1 DEF SvcDone
<1>3. \A u \in MachineType \ {t} :
          sts'[u] = sts[u] /\ stsCache'[u] = stsCache[u] /\ (StsDone(u)' => StsDone(u))
  BY <1>1 DEF TypeOK, StsDone, Listed, stsVars
<1>4. StsDone(t)' =>
          /\ sts'[t] = DesiredReplicas(t)
          /\ stsCache'[t] = "current" => DesiredReplicas(t) = DesiredReplicas(t)'
  BY <1>1 DEF TypeOK, StsDone, DesiredReplicas
<1>5. DesiredReplicas(t) # NoSts
  BY DesiredReplicasLemma, ConstantsLemma DEF TypeOK, NoSts
<1>6. FreshCopies'
  BY <1>1 DEF FreshCopies, stsVars
<1>7. StagesLeave'
  BY <1>1, <1>2, <1>3, <1>4, <1>5 DEF StagesLeave
<1>8. PoolProgress'
  BY <1>1 DEF PoolProgress, Undisturbed, PoolAccurate
<1>9. StsProgress'
  <2>1. \A u \in MachineType : DesiredReplicas(u)' = DesiredReplicas(u)
    BY <1>1 DEF DesiredReplicas
  <2> QED
    BY <1>3, <1>4, <2>1 DEF StsProgress, Undisturbed
<1>10. IdleProgress'
  BY <1>1 DEF IdleProgress
<1> QED
  BY <1>6, <1>7, <1>8, <1>9, <1>10 DEF Progress

LEMMA StatefulSetsDoneProgress == IInv /\ StatefulSetsDone => Progress'
<1> SUFFICES ASSUME IInv, StatefulSetsDone PROVE Progress'
  OBVIOUS
<1> USE DEF StatefulSetsDone, GoTo, storeVars, childVars, poolVars, stsVars, podVars, IInv
<1>1. \A t \in MachineType : (StsDone(t)' => StsDone(t)) /\ ~SvcDone(t)'
  BY DEF StsDone, SvcDone, Listed
<1>2. FreshCopies' /\ StagesLeave'
  BY <1>1 DEF FreshCopies, StagesLeave
<1>3. PoolProgress' /\ IdleProgress'
  BY DEF PoolProgress, IdleProgress, Undisturbed, PoolAccurate
<1>4. StsProgress'
  BY <1>1 DEF StsProgress, Undisturbed, DesiredReplicas
<1> QED
  BY <1>2, <1>3, <1>4 DEF Progress

LEMMA SvcStageProgress ==
    ASSUME NEW t \in MachineType, IInv, reconcileService(t)
    PROVE  Progress'
<1> USE DEF reconcileService, GoTo, storeVars, poolVars, stsVars, podVars, IInv
<1>1. pc = "svc" /\ pc' \in {"svc", "failed"} /\ m' = m
  OBVIOUS
<1>2. \A u \in MachineType : StsDone(u)' => StsDone(u)
  BY <1>1 DEF StsDone, Listed
<1>3. ASSUME NEW u \in MachineType, SvcDone(u)'
      PROVE  svc'[u] # "absent" /\ report'
  BY <1>1, <1>3 DEF SvcDone, StagesLeave, Listed, TypeOK
<1>4. FreshCopies' /\ StagesLeave'
  BY <1>1, <1>2, <1>3 DEF FreshCopies, StagesLeave
<1>5. PoolProgress' /\ IdleProgress'
  BY <1>1 DEF PoolProgress, IdleProgress, Undisturbed, PoolAccurate
<1>6. StsProgress'
  BY <1>1, <1>2 DEF StsProgress, Undisturbed, DesiredReplicas
<1> QED
  BY <1>4, <1>5, <1>6 DEF Progress

LEMMA ServicesDoneProgress == IInv /\ ServicesDone => Progress'
<1> SUFFICES ASSUME IInv, ServicesDone PROVE Progress'
  OBVIOUS
<1> USE DEF ServicesDone, GoTo, storeVars, childVars, poolVars, stsVars, podVars, IInv
<1>1. \A t \in MachineType : (StsDone(t)' => StsDone(t)) /\ (SvcDone(t)' => SvcDone(t))
  BY DEF StsDone, SvcDone, Listed
<1>2. FreshCopies' /\ StagesLeave'
  BY <1>1 DEF FreshCopies, StagesLeave
<1>3. PoolProgress' /\ IdleProgress'
  BY DEF PoolProgress, IdleProgress, Undisturbed, PoolAccurate
<1>4. StsProgress'
  BY <1>1 DEF StsProgress, Undisturbed, DesiredReplicas
<1> QED
  BY <1>2, <1>3, <1>4 DEF Progress

LEMMA ReportProgress == IInv /\ updateReconcileConditions => Progress'
<1> SUFFICES ASSUME IInv, updateReconcileConditions PROVE Progress'
  OBVIOUS
<1> USE DEF updateReconcileConditions, StoreStatus, storeVars, childVars,
        poolVars, stsVars, podVars, IInv
<1>1. pc \in {"sts", "svc"}
  BY DEF StagesLeave
<1>2. CASE mFresh
  <2>1. /\ m' = [m EXCEPT !.ready = "True"] /\ machine' = m' /\ m = machine
        /\ pc' = pc /\ todo' = todo /\ report' = FALSE
    BY <1>2 DEF FreshCopies
  <2>2. /\ m'.spec = m.spec /\ m'.status = m.status /\ m'.ready = "True"
    BY <2>1 DEF TypeOK, MachineObject
  <2>3. \A t \in MachineType : (StsDone(t)' => StsDone(t)) /\ (SvcDone(t)' => SvcDone(t))
    BY <2>1, <2>2 DEF StsDone, SvcDone, Listed
  <2>4. FreshCopies'
    BY <1>2, <2>1 DEF FreshCopies
  <2>5. StagesLeave'
    BY <2>1, <2>2, <2>3 DEF StagesLeave
  <2>6. Undisturbed' => Undisturbed
    BY <1>2 DEF Undisturbed
  <2>7. PoolProgress' /\ IdleProgress'
    BY <1>1, <2>1, <2>2, <2>6 DEF PoolProgress, IdleProgress, PoolAccurate
  <2>8. StsProgress'
    BY <2>2, <2>3, <2>6 DEF StsProgress, DesiredReplicas
  <2> QED
    BY <2>4, <2>5, <2>7, <2>8 DEF Progress
<1>3. CASE ~mFresh
  <2>1. pc' = "failed" /\ report' = FALSE
    BY <1>3
  <2> QED
    BY <1>1, <1>3, <2>1 DEF Progress, FreshCopies, StagesLeave, PoolProgress,
       StsProgress, IdleProgress, StsDone, SvcDone
<1> QED
  BY <1>2, <1>3

LEMMA IdleStagesLeave == pc' = "idle" /\ report' = FALSE => StagesLeave'
BY DEF StagesLeave, StsDone, SvcDone

LEMMA StoreStatusSame ==
    ASSUME NEW new, StoreStatus(new)
    PROVE  machineFresh' => machineFresh /\ machine' = machine /\ machineSeen' = machineSeen
BY DEF StoreStatus

LEMMA StatusStageProgress == IInv /\ updateStatus => Progress'
<1> SUFFICES ASSUME IInv, updateStatus PROVE Progress'
  OBVIOUS
<1>0. machineFresh' => machineFresh /\ machineSeen' = machine'
  <2>1. CASE UNCHANGED storeVars
    BY <2>1 DEF storeVars, IInv, FreshCopies
  <2>2. CASE StoreStatus([m EXCEPT !.status = CountedStatus, !.ready = "True"])
    <3>1. machineFresh' => machineFresh /\ machine' = machine /\ machineSeen' = machineSeen
      BY <2>2, StoreStatusSame
    <3> QED
      BY <3>1 DEF IInv, FreshCopies
  <2> QED
    BY <2>1, <2>2 DEF updateStatus
<1> USE DEF updateStatus, Return, storeVars, childVars, poolVars, stsVars,
        podVars, IInv
<1>1. pc = "status" /\ pc' = "idle" /\ report' = FALSE /\ mFresh' = FALSE
  OBVIOUS
<1>2. FreshCopies' /\ StagesLeave'
  <2>1. StagesLeave'
    BY <1>1, IdleStagesLeave
  <2> QED
    BY <1>0, <1>1, <2>1 DEF FreshCopies
<1>3. PoolProgress' /\ StsProgress'
  BY <1>1 DEF PoolProgress, StsProgress, StsDone
<1>4. IdleProgress'
  <2>1. SUFFICES ASSUME Undisturbed', poolFresh, StsCached
                 PROVE  ReconciledWith(podsSeen)'
    BY DEF IdleProgress, StsCached
  <2>2. ~queued /\ machineFresh
    BY <1>0, <2>1 DEF Undisturbed
  <2>3. mFresh /\ m = machine
    BY <1>1, <2>2 DEF FreshCopies
  <2>4. CountedStatus = m.status /\ machine' = machine
    <3>1. CASE CountedStatus = m.status
      BY <3>1, <2>2, <2>3
    <3>2. CASE CountedStatus # m.status
      <4>1. [m EXCEPT !.status = CountedStatus, !.ready = "True"].status # machine.status
        BY <2>3, <3>2 DEF TypeOK, MachineObject
      <4> QED
        BY <2>1, <2>3, <3>2, <4>1 DEF Undisturbed, StoreStatus
    <3> QED
      BY <3>1, <3>2
  <2>5. machine.spec \in MachineSpec
    BY SpecsAssumption DEF TypeOK, MachineObject
  <2>6. \A t \in machine.spec.types :
            machine.status[t] = UsageOf(podsSeen, ReservationsOf(t), GuestsOf(t),
                                        machine.spec.available[t])
    BY <2>3, <2>4, <2>5 DEF CountedStatus, MachineSpec
  <2>7. \A t \in MachineType \ machine.spec.types : machine.status[t].maximum = 0
    BY <2>3, <2>4 DEF CountedStatus, UsageOf, Unlisted
  <2>8. StatusAccurate(podsSeen)'
    BY <2>4, <2>6, <2>7 DEF StatusAccurate
  <2>9. \A t \in machine.spec.types : Listed(t)
    <3>1. \A t \in machine.spec.types : \A max :
              UsageOf(podsSeen, ReservationsOf(t), GuestsOf(t), max).listed
      BY DEF UsageOf
    <3> QED
      BY <2>3, <2>6, <3>1 DEF Listed
  <2>10. PoolAccurate(machine.spec)'
    BY <1>1, <2>1, <2>2, <2>3, <2>4 DEF PoolProgress, Undisturbed, PoolAccurate
  <2>11. ReservationsAccurate(podsSeen)'
    <3>1. ASSUME NEW t \in machine.spec.types \cap machine.spec.pooled
          PROVE  sts[t] = DesiredReplicas(t)
      <4>1. t \in MachineType /\ StsDone(t)
        BY <1>1, <2>3, <2>5, <2>9 DEF StsDone, MachineSpec
      <4>2. stsCache[t] = "current"
        BY <2>1, <4>1 DEF StsCached, StagesLeave
      <4> QED
        BY <2>2, <4>1, <4>2 DEF StsProgress, Undisturbed
    <3> QED
      BY <2>3, <2>4, <3>1 DEF ReservationsAccurate, DesiredReplicas
  <2>12. \A t \in machine.spec.types : svc[t] # "absent" /\ machine.ready = "True"
    <3> SUFFICES ASSUME NEW t \in machine.spec.types
                 PROVE  svc[t] # "absent" /\ machine.ready = "True"
      OBVIOUS
    <3>1. t \in MachineType /\ SvcDone(t)
      BY <1>1, <2>3, <2>5, <2>9 DEF SvcDone, MachineSpec
    <3>2. ~report
      BY <1>1 DEF StagesLeave
    <3> QED
      BY <2>3, <3>1, <3>2 DEF StagesLeave
  <2> QED
    BY <2>4, <2>8, <2>10, <2>11, <2>12 DEF ReconciledWith
<1> QED
  BY <1>2, <1>3, <1>4 DEF Progress

LEMMA FailedProgress == IInv /\ updateReconcileFailedStatus => Progress'
<1> SUFFICES ASSUME IInv, updateReconcileFailedStatus PROVE Progress'
  OBVIOUS
<1> USE DEF updateReconcileFailedStatus, Return, storeVars, childVars, poolVars,
        stsVars, podVars, IInv
<1>1. ~Undisturbed'
  BY DEF Undisturbed
<1>2. FreshCopies'
  <2>1. CASE mFresh
    <3>1. machineFresh' => machineFresh /\ machine' = machine /\ machineSeen' = machineSeen
      BY <2>1
    <3> QED
      BY <3>1 DEF FreshCopies
  <2>2. CASE ~mFresh
    BY <2>2 DEF FreshCopies
  <2> QED
    BY <2>1, <2>2
<1>3. StagesLeave'
  BY IdleStagesLeave
<1> QED
  BY <1>1, <1>2, <1>3, Disturbed DEF Progress

LEMMA ReconcilerProgress == IInv /\ ReconcilerStep => Progress'
BY ReconcileProgress, PoolStageProgress, StsStageProgress,
   StatefulSetsDoneProgress, SvcStageProgress, ServicesDoneProgress,
   ReportProgress, StatusStageProgress, FailedProgress DEF ReconcilerStep

LEMMA StutterProgress == IInv /\ UNCHANGED vars => Progress'
<1> SUFFICES ASSUME IInv, UNCHANGED vars PROVE Progress'
  OBVIOUS
<1>1. PodStep
  BY DEF PodStep, vars, storeVars, childVars, poolVars, stsVars, podVars, workerVars
<1> QED
  BY <1>1, PodStepProgress

LEMMA IInvStep == IInv /\ [Next]_vars => IInv'
<1> SUFFICES ASSUME IInv, [Next]_vars PROVE IInv'
  OBVIOUS
<1>1. TypeOK'
  BY TypeStep DEF IInv
<1>2. Progress'
  <2>1. CASE ReconcilerStep
    BY <2>1, ReconcilerProgress
  <2>2. CASE InformerStep
    BY <2>2, InformerProgress
  <2>3. CASE ClusterStep
    BY <2>3, IsPodStep, PodStepProgress DEF IInv
  <2>4. CASE Disturbance
    BY <2>4, DisturbanceProgress
  <2>5. CASE UNCHANGED vars
    BY <2>5, StutterProgress
  <2> QED
    BY <2>1, <2>2, <2>3, <2>4, <2>5 DEF Next
<1> QED
  BY <1>1, <1>2 DEF IInv, Progress

THEOREM Inductive == Spec => []IInv
<1>1. Init => IInv
  BY TypeInit, ProgressInit DEF IInv, Progress
<1> QED
  BY <1>1, IInvStep, PTL DEF Spec

-----------------------------------------------------------------------------
(* The properties.                                                         *)

(* No wake-up is lost, for any number of types, guests, specs, failures    *)
(* and crashes: when the Machine is not queued, its reconciler idle and    *)
(* every event delivered, then counts, pool, StatefulSets and Services are *)
(* what the spec and the Pods ask for (machine_controller.go, reconcile).  *)
THEOREM NoLostWakeup == Spec => []IdleMeansReconciled
<1>1. IInv => IdleMeansReconciled
  BY DEF IInv, IdleProgress, IdleMeansReconciled, UpToDate, Undisturbed,
     StsCached, Reconciled
<1> QED
  BY <1>1, Inductive, PTL

(* Reservation Pods that run or find no Node are as many as the replicas.  *)
LEMMA PlacedCount ==
    ASSUME NEW t \in MachineType, NEW r \in 0 .. MaxAvailable,
           \A i \in Ordinal :
              pods[<<t, i>>] \in IF i < r THEN {Running, Unschedulable} ELSE {Absent}
    PROVE  /\ NumRunningOrCreating(pods, ReservationsOf(t)) \in Nat
           /\ getUnscheduledPodNum(pods, ReservationsOf(t)) \in Nat
           /\ NumRunningOrCreating(pods, ReservationsOf(t))
                 + getUnscheduledPodNum(pods, ReservationsOf(t)) = r
<1> DEFINE run  == {p \in ReservationsOf(t) : RunningOrCreating(pods[p])}
           wait == {p \in ReservationsOf(t) : NotScheduled(pods[p])}
           f    == [i \in 1 .. r |-> <<t, i - 1>>]
<1>1. MaxAvailable \in Nat
  BY ConstantsLemma
<1>2. run \cup wait = {<<t, i>> : i \in 0 .. r - 1} /\ run \cap wait = {}
  <2>1. /\ RunningOrCreating(Running) /\ ~NotScheduled(Running)
        /\ NotScheduled(Unschedulable) /\ ~RunningOrCreating(Unschedulable)
        /\ ~RunningOrCreating(Absent) /\ ~NotScheduled(Absent)
    BY DEF RunningOrCreating, NotScheduled, Running, Unschedulable, Absent, PodRecord
  <2>2. ReservationsOf(t) = {<<t, i>> : i \in Ordinal}
    BY DEF ReservationsOf, Reservation
  <2>3. \A i \in Ordinal :
           /\ i < r => (<<t, i>> \in run <=> <<t, i>> \notin wait)
           /\ i >= r => <<t, i>> \notin run /\ <<t, i>> \notin wait
    BY <1>1, <2>1, <2>2 DEF Ordinal
  <2>4. \A i \in 0 .. r - 1 : i \in Ordinal
    BY <1>1 DEF Ordinal
  <2>5. \A i \in Ordinal : i < r <=> i \in 0 .. r - 1
    BY <1>1 DEF Ordinal
  <2>6. run \subseteq ReservationsOf(t) /\ wait \subseteq ReservationsOf(t)
    OBVIOUS
  <2> HIDE DEF run, wait
  <2> QED
    BY <2>2, <2>3, <2>4, <2>5, <2>6, <1>1 DEF Ordinal
<1>3. IsFiniteSet(run \cup wait) /\ Cardinality(run \cup wait) = r
  <2> DEFINE T == {<<t, i>> : i \in 0 .. r - 1}
  <2>1. \A q \in T : \E k \in 1 .. r : f[k] = q
    <3>1. ASSUME NEW i \in 0 .. r - 1 PROVE i + 1 \in 1 .. r /\ f[i + 1] = <<t, i>>
      BY <1>1
    <3> QED
      BY <3>1
  <2>2. \A k, l \in 1 .. r : f[k] = f[l] => k = l
    BY <1>1
  <2>3. f \in [1 .. r -> T]
    BY <1>1
  <2>4. IsFiniteSet(1 .. r) /\ Cardinality(1 .. r) = r
    BY <1>1, FS_Interval
  <2> HIDE DEF f, T
  <2>5. f \in Bijection(1 .. r, T)
    BY <2>1, <2>2, <2>3 DEF Bijection, Injection, Surjection, IsInjective
  <2>6. IsFiniteSet(T) /\ Cardinality(T) = r
    BY <2>4, <2>5, FS_Bijection DEF ExistsBijection
  <2> QED
    BY <1>2, <2>6 DEF T
<1> HIDE DEF run, wait
<1>4. IsFiniteSet(run) /\ IsFiniteSet(wait)
  BY <1>3, FS_Subset
<1>5. Cardinality(run) \in Nat /\ Cardinality(wait) \in Nat
  BY <1>4, FS_CardinalityType
<1>6. Cardinality(run \cup wait) = Cardinality(run) + Cardinality(wait)
  <2>1. Cardinality(run \cap wait) = 0
    BY <1>2, FS_EmptySet
  <2>2. Cardinality(run \cup wait)
           = Cardinality(run) + Cardinality(wait) - Cardinality(run \cap wait)
    BY <1>4, FS_Union
  <2> QED
    BY <1>5, <2>1, <2>2
<1> QED
  BY <1>3, <1>5, <1>6 DEF NumRunningOrCreating, getUnscheduledPodNum, run, wait

(* At rest the machines of a type are all spoken for and none twice, but   *)
(* that each reservation without a Node costs two: for any number of       *)
(* types, machines and guests.                                             *)
THEOREM MachinesHeld == Spec => []MachinesHeldAtRest
<1>1. TypeOK /\ IdleMeansReconciled => MachinesHeldAtRest
  <2> SUFFICES ASSUME TypeOK, Reconciled,
                      NEW t \in machine.spec.types \cap machine.spec.pooled,
                      ReservationsPlaced(t)
               PROVE  LET reserved == NumRunningOrCreating(pods, ReservationsOf(t))
                          unplaced == getUnscheduledPodNum(pods, ReservationsOf(t))
                          claimed  == NumRunningOrCreating(pods, GuestsOf(t))
                                         + getUnscheduledPodNum(pods, GuestsOf(t))
                          available == machine.spec.available[t]
                      IN  \/ reserved + claimed + 2 * unplaced = available
                          \/ reserved = 0 /\ unplaced = 0 /\ claimed >= available
    BY DEF IdleMeansReconciled, MachinesHeldAtRest
  <2> DEFINE reserved == NumRunningOrCreating(pods, ReservationsOf(t))
             unplaced == getUnscheduledPodNum(pods, ReservationsOf(t))
             used     == NumRunningOrCreating(pods, GuestsOf(t))
             waiting  == getUnscheduledPodNum(pods, GuestsOf(t))
             available == machine.spec.available[t]
  <2>1. machine.spec \in MachineSpec /\ t \in MachineType
    <3>1. machine.spec \in MachineSpec
      BY SpecsAssumption DEF TypeOK, MachineObject
    <3> QED
      BY <3>1 DEF MachineSpec
  <2>2. machine.status[t] = UsageOf(pods, ReservationsOf(t), GuestsOf(t), available)
    BY <2>1 DEF Reconciled, ReconciledWith, StatusAccurate
  <2>3. sts[t] = StsReplicas(machine.status[t], unplaced)
    BY DEF Reconciled, ReconciledWith, ReservationsAccurate
  <2>4. available \in Nat /\ used \in Nat /\ waiting \in Nat
    <3>1. machine.status[t] \in Usage
      BY <2>1 DEF TypeOK, MachineObject
    <3>2. machine.status[t].used = used /\ machine.status[t].waiting = waiting
      BY <2>2 DEF UsageOf
    <3> QED
      BY <2>1, <3>1, <3>2, ConstantsLemma DEF Usage, MachineSpec
  <2>5. sts[t] \in 0 .. MaxAvailable
    <3>1. unplaced \in 0 .. MaxAvailable
      BY <2>1, ConstantsLemma, ReservationsLemma, CountLemma
    <3>2. machine.status[t] \in Usage
      BY <2>1 DEF TypeOK, MachineObject
    <3> QED
      BY <2>3, <3>1, <3>2, ConstantsLemma, ReplicasLemma
  <2>6. reserved \in Nat /\ unplaced \in Nat /\ reserved + unplaced = sts[t]
    BY <2>1, <2>5, PlacedCount DEF ReservationsPlaced
  <2>7. sts[t] = IF available - (used + waiting + unplaced) < 0 THEN 0
                 ELSE available - (used + waiting + unplaced)
    BY <2>2, <2>3 DEF StsReplicas, UsageOf
  <2> HIDE DEF reserved, unplaced, used, waiting, available
  <2>8. \/ reserved + (used + waiting) + 2 * unplaced = available
        \/ reserved = 0 /\ unplaced = 0 /\ used + waiting >= available
    BY <2>4, <2>6, <2>7
  <2> QED
    BY <2>8 DEF reserved, unplaced, used, waiting, available
<1> QED
  BY <1>1, TypeCorrect, NoLostWakeup, PTL

(* The Pods of type t's StatefulSet when its type has n machines to be     *)
(* reserved: the StatefulSet controller creates them in order and waits    *)
(* for each to run, so that at most one Pod finds no Node.                 *)
FilledUp(t, n) ==
    \A i \in Ordinal :
        pods[<<t, i>>] = CASE i < sts[t] /\ i < n -> Running
                           [] i < sts[t] /\ i = n -> Unschedulable
                           [] i >= sts[t] \/ i > n -> Absent

OneMachineShort(t, n) ==
    machine.spec.available[t]
        = NumRunningOrCreating(pods, GuestsOf(t)) + getUnscheduledPodNum(pods, GuestsOf(t)) + n + 1

(* The replica count can swing for ever, for every quantity: when exactly  *)
(* one machine is missing, the controller asks for one reservation less    *)
(* while the last finds no Node, and for one more once it is gone.         *)
THEOREM NoRestOneMachineShort ==
    Spec => []( pc = "idle" /\ ~queued /\ UpToDate =>
                   \A t \in machine.spec.types \cap machine.spec.pooled, n \in Nat :
                      ~(FilledUp(t, n) /\ OneMachineShort(t, n)) )
<1>1. ASSUME TypeOK, Reconciled, NEW t \in machine.spec.types \cap machine.spec.pooled,
             NEW n \in Nat, FilledUp(t, n), OneMachineShort(t, n)
      PROVE  FALSE
  <2> DEFINE unplaced == {p \in ReservationsOf(t) : NotScheduled(pods[p])}
             used     == NumRunningOrCreating(pods, GuestsOf(t))
             waiting  == getUnscheduledPodNum(pods, GuestsOf(t))
             r        == sts[t]
  <2>1. t \in MachineType
    <3>1. machine.spec \in MachineSpec
      BY <1>1, SpecsAssumption DEF TypeOK, MachineObject
    <3> QED
      BY <3>1 DEF MachineSpec
  <2>2. r = StsReplicas(UsageOf(pods, ReservationsOf(t), GuestsOf(t), machine.spec.available[t]),
                        Cardinality(unplaced))
    BY <1>1, <2>1 DEF Reconciled, ReconciledWith, StatusAccurate, ReservationsAccurate,
                      getUnscheduledPodNum
  <2>3. used \in Nat /\ waiting \in Nat
    <3>1. IsFiniteSet(GuestsOf(t)) /\ Cardinality(GuestsOf(t)) <= Cardinality(Guest)
      BY ConstantsLemma, FS_Subset DEF GuestsOf
    <3> QED
      BY <3>1, ConstantsLemma, CountLemma
  <2>4. machine.spec.available[t] = used + waiting + n + 1
    BY <1>1 DEF OneMachineShort
  <2>5. r \in 0 .. MaxAvailable
    <3>1. UsageOf(pods, ReservationsOf(t), GuestsOf(t), machine.spec.available[t]) \in Usage
      BY <1>1, <2>1 DEF Reconciled, ReconciledWith, StatusAccurate, TypeOK, MachineObject
    <3>2. Cardinality(unplaced) \in Nat
      BY <2>1, ConstantsLemma, ReservationsLemma, CountLemma DEF getUnscheduledPodNum
    <3> QED
      BY <2>2, <3>1, <3>2, ReplicasLemma
  <2>6. unplaced = IF r > n THEN {<<t, n>>} ELSE {}
    <3>1. /\ ~NotScheduled(Running) /\ NotScheduled(Unschedulable) /\ ~NotScheduled(Absent)
      BY DEF NotScheduled, Running, Unschedulable, Absent, PodRecord
    <3>2. ReservationsOf(t) = {<<t, i>> : i \in Ordinal}
      BY <2>1 DEF ReservationsOf, Reservation
    <3>3. \A i \in Ordinal : NotScheduled(pods[<<t, i>>]) <=> i < r /\ i = n
      <4>1. \A i \in Ordinal : i \in Int
        BY ConstantsLemma DEF Ordinal
      <4> QED
        BY <1>1, <2>5, <3>1, <4>1, ConstantsLemma DEF FilledUp
    <3>4. r > n => n \in Ordinal
      BY <2>5, ConstantsLemma DEF Ordinal
    <3> QED
      BY <2>5, <3>2, <3>3, <3>4, ConstantsLemma DEF Ordinal
  <2>7. Cardinality(unplaced) = IF r > n THEN 1 ELSE 0
    BY <2>6, FS_EmptySet, FS_Singleton
  <2>8. r = IF machine.spec.available[t] - (used + waiting + Cardinality(unplaced)) < 0 THEN 0
            ELSE machine.spec.available[t] - (used + waiting + Cardinality(unplaced))
    BY <2>2 DEF StsReplicas, UsageOf
  <2> HIDE DEF used, waiting, r, unplaced
  <2> QED
    BY <2>3, <2>4, <2>5, <2>7, <2>8
<1>2. TypeOK /\ IdleMeansReconciled =>
         (pc = "idle" /\ ~queued /\ UpToDate =>
             \A t \in machine.spec.types \cap machine.spec.pooled, n \in Nat :
                ~(FilledUp(t, n) /\ OneMachineShort(t, n)))
  BY <1>1 DEF IdleMeansReconciled
<1> QED
  BY <1>2, TypeCorrect, NoLostWakeup, PTL

(* No reconcile overwrites the counts with the maximum of an older spec    *)
(* (machine_controller.go, updateStatus and every Status().Update).        *)
THEOREM MaximumIsCurrent == Spec => MaximumFromSpec
<1> DEFINE A == machine'.status # machine.status =>
                   \A t \in MachineType : machine'.status[t].listed =>
                       machine'.status[t].maximum =
                           IF t \in machine.spec.types THEN machine.spec.available[t] ELSE 0
<1>1. IInv /\ [Next]_vars => [A]_vars
  <2> SUFFICES ASSUME IInv, Next PROVE A
    OBVIOUS
  <2>1. CASE updateStatus
    <3>1. SUFFICES ASSUME machine'.status # machine.status
                   PROVE  A
      OBVIOUS
    <3>2. /\ mFresh
          /\ machine' = [m EXCEPT !.status = CountedStatus, !.ready = "True"]
      BY <2>1, <3>1 DEF updateStatus, StoreStatus, storeVars
    <3>3. m = machine /\ machine'.status = CountedStatus
      BY <3>2 DEF IInv, TypeOK, MachineObject, FreshCopies
    <3>4. ASSUME NEW t \in MachineType, CountedStatus[t].listed
          PROVE  CountedStatus[t].maximum =
                     IF t \in m.spec.types THEN m.spec.available[t] ELSE 0
      BY <3>4 DEF CountedStatus, UsageOf, Unlisted
    <3> QED
      BY <3>3, <3>4
  <2>2. CASE updateReconcileConditions
    <3>1. machine' = machine \/ (mFresh /\ machine' = [m EXCEPT !.ready = "True"])
      BY <2>2 DEF updateReconcileConditions, StoreStatus, storeVars
    <3>2. machine'.status = machine.status
      BY <3>1 DEF IInv, TypeOK, MachineObject, FreshCopies
    <3> QED
      BY <3>2
  <2>3. CASE updateReconcileFailedStatus
    <3>1. machine' = machine \/ (mFresh /\ machine' = [m EXCEPT !.ready = "False"])
      BY <2>3 DEF updateReconcileFailedStatus, storeVars
    <3>2. machine'.status = machine.status
      BY <3>1 DEF IInv, TypeOK, MachineObject, FreshCopies
    <3> QED
      BY <3>2
  <2>4. CASE ChangeSpec
    <3>1. machine'.status = machine.status
      BY <2>4 DEF ChangeSpec, IInv, TypeOK, MachineObject
    <3> QED
      BY <3>1
  <2>5. ASSUME machine' = machine PROVE A
    BY <2>5
  <2>6. CASE \/ Reconcile \/ reconcileMachineNodePool
             \/ \E t \in MachineType : reconcileStatefulSet(t)
             \/ StatefulSetsDone
             \/ \E t \in MachineType : reconcileService(t)
             \/ ServicesDone
    BY <2>5, <2>6 DEF Reconcile, reconcileMachineNodePool, reconcileStatefulSet,
       StatefulSetsDone, reconcileService, ServicesDone, storeVars
  <2>7. CASE InformerStep
    BY <2>5, <2>7 DEF InformerStep, DeliverMachine, DeliverPool,
       DeliverStatefulSet, DeliverService, DeliverPod, storeVars
  <2>8. CASE ClusterStep
    BY <2>5, <2>8, IsPodStep DEF PodStep, storeVars, IInv
  <2>9. CASE Disturbance /\ ~ChangeSpec
    <3>1. CASE \/ \E g \in Guest : CreateGuest(g) \/ FinishGuest(g) \/ DeleteGuest(g)
               \/ \E p \in Reservation : Evict(p)
               \/ \E p \in Pod : LoseReadiness(p)
      BY <2>5, <3>1, IsPodStep DEF PodStep, storeVars, IInv
    <3>2. CASE \/ WritePool
               \/ \E t \in MachineType : WriteStatefulSet(t)
               \/ Resync \/ FailRequest \/ Crash
      BY <2>5, <3>2 DEF WritePool, WriteStatefulSet, Resync, FailRequest, Crash, storeVars
    <3> QED
      BY <2>9, <3>1, <3>2 DEF Disturbance
  <2> QED
    BY <2>1, <2>2, <2>3, <2>4, <2>6, <2>7, <2>8, <2>9 DEF Next, ReconcilerStep
<1> QED
  BY <1>1, Inductive, PTL DEF Spec, MaximumFromSpec

(* The pool's stock never loses a machine type, although it is always      *)
(* rewritten from a cached copy (reconcileMachineNodePool).                *)
THEOREM StockGrows == Spec => StockOnlyGrows
<1> DEFINE A == pool.stock \subseteq pool'.stock
<1>1. IInv /\ [Next]_vars => [A]_vars
  <2> SUFFICES ASSUME IInv, Next PROVE A
    OBVIOUS
  <2>1. ASSUME pool' = pool PROVE A
    BY <2>1
  <2>2. CASE reconcileMachineNodePool
    <3>1. pool' = pool \/ (poolFresh /\ pool' = DesiredPool)
      BY <2>2 DEF reconcileMachineNodePool, poolVars
    <3> QED
      BY <3>1 DEF IInv, FreshCopies, DesiredPool
  <2>3. CASE WritePool
    BY <2>3 DEF WritePool, IInv, TypeOK, PoolObject
  <2>4. CASE ReconcilerStep /\ ~reconcileMachineNodePool
    BY <2>1, <2>4 DEF ReconcilerStep, Reconcile, reconcileStatefulSet,
       StatefulSetsDone, reconcileService, ServicesDone,
       updateReconcileConditions, updateStatus, updateReconcileFailedStatus,
       childVars, poolVars
  <2>5. CASE InformerStep
    BY <2>1, <2>5 DEF InformerStep, DeliverMachine, DeliverPool,
       DeliverStatefulSet, DeliverService, DeliverPod, childVars, poolVars
  <2>6. CASE ClusterStep
    BY <2>1, <2>6, IsPodStep DEF PodStep, poolVars, IInv
  <2>7. CASE Disturbance /\ ~WritePool
    <3>1. CASE \/ \E g \in Guest : CreateGuest(g) \/ FinishGuest(g) \/ DeleteGuest(g)
               \/ \E p \in Reservation : Evict(p)
               \/ \E p \in Pod : LoseReadiness(p)
      BY <2>1, <3>1, IsPodStep DEF PodStep, poolVars, IInv
    <3>2. CASE \/ ChangeSpec
               \/ \E t \in MachineType : WriteStatefulSet(t)
               \/ Resync \/ FailRequest \/ Crash
      BY <2>1, <3>2 DEF ChangeSpec, WriteStatefulSet, Resync, FailRequest, Crash,
         childVars, poolVars
    <3> QED
      BY <2>7, <3>1, <3>2 DEF Disturbance
  <2> QED
    BY <2>2, <2>3, <2>4, <2>5, <2>6, <2>7 DEF Next
<1> QED
  BY <1>1, Inductive, PTL DEF Spec, StockOnlyGrows
=============================================================================
