---------------------------- MODULE PlacementProofs ----------------------------
(***************************************************************************)
(* NodePoolController and PodInjection together: on which of the Nodes the *)
(* pool controller marks can the Pods run that imperator makes.  What one  *)
(* controller writes as labels and taints the other one's Pods select and  *)
(* tolerate, and neither knows of the other.                               *)
(***************************************************************************)
EXTENDS NodePoolControllerProofs, SequenceTheorems

CONSTANTS
    MachineGroup,   \* the machine group of the pool
    GPUOf           \* spec.gpu of each machine type

Pods == INSTANCE PodInjection

StatusKey == Pods!MachineStatusKey
TypeKey(t) == Pods!GenerateMachineTypeLabelTaintKey(t)

(* A Node as the scheduler sees it, that carries the pool's marks n and the   *)
(* labels and taints of others.  A label is written over one of the        *)
(* same key, the machine types' after the status.                          *)
AsSeen(n, labels, taints) ==
    LET types == {TypeKey(t) : t \in n.types}
        status == IF n.status = "none" THEN {} ELSE {StatusKey}
    IN  [labels |-> [key \in types \cup status \cup DOMAIN labels |->
                        IF key \in types THEN MachineGroup
                        ELSE IF key \in status THEN n.status ELSE labels[key]],
         taints |-> taints
                    \cup {[key |-> TypeKey(t), value |-> MachineGroup, effect |-> "NoSchedule"] :
                             t \in n.taint.types}
                    \cup {[key |-> StatusKey, value |-> s, effect |-> "NoSchedule"] :
                             s \in {n.taint.status} \ {"none"}}]

(* The Node has the GPU that type t asks for, if it asks for one.          *)
HasGPU(t, labels) ==
    LET gpu == Pods!getGPUSelector(GPUOf[t])
    IN  gpu # <<>> => gpu[1] \in DOMAIN labels /\ labels[gpu[1]] = gpu[2]

(* No machine type is named after the key of the status: its label would   *)
(* take the status's place.                                                *)
NamesApart == \A t \in MachineType : t # "node-pool"

-----------------------------------------------------------------------------
(* The keys of a GPU are no keys of imperator's.                           *)
LEMMA KeysApart ==
    ASSUME NamesApart, NEW t \in MachineType, NEW gpu
    PROVE  /\ StatusKey # TypeKey(t)
           /\ \A u : TypeKey(t) = TypeKey(u) => t = u
           /\ Pods!getGPUSelector(gpu) # <<>> =>
                 /\ Pods!getGPUSelector(gpu)[1] # StatusKey
                 /\ \A u : Pods!getGPUSelector(gpu)[1] # TypeKey(u)
BY DEF NamesApart, StatusKey, TypeKey, Pods!MachineStatusKey,
       Pods!GenerateMachineTypeLabelTaintKey, Pods!getGPUSelector

LEMMA ThreeElements ==
    ASSUME NEW a, NEW b, NEW c
    PROVE  <<a, b>> \o <<c>> = <<a, b, c>>
<1>1. <<a, b>> \in Seq({a, b, c}) /\ <<c>> \in Seq({a, b, c})
  OBVIOUS
<1> DEFINE S == {a, b, c}
           s1 == <<a, b>>
           s2 == <<c>>
<1>2. <<a, b, c>> \in Seq(S)
  OBVIOUS
<1>3. /\ s1 \in Seq(S) /\ s2 \in Seq(S)
      /\ Len(s1) = 2 /\ Len(s2) = 1
      /\ s1[1] = a /\ s1[2] = b /\ s2[1] = c
  BY <1>1
<1>4. ASSUME NEW s, s \in Seq(S), Len(s) = 3, s[1] = a, s[2] = b, s[3] = c
      PROVE  s = <<a, b, c>>
  BY <1>2, <1>4, SeqEqual
<1> HIDE DEF S, s1, s2
<1>5. /\ s1 \o s2 \in Seq(S)
      /\ Len(s1 \o s2) = 3
      /\ \A j \in 1 .. 3 :
            (s1 \o s2)[j] = IF j <= 2 THEN s1[j] ELSE s2[j - 2]
  <2>1. /\ s1 \o s2 \in Seq(S)
        /\ Len(s1 \o s2) = Len(s1) + Len(s2)
        /\ \A j \in 1 .. Len(s1) + Len(s2) :
              (s1 \o s2)[j] = IF j <= Len(s1) THEN s1[j] ELSE s2[j - Len(s1)]
    BY <1>3, ConcatProperties, Zenon
  <2>2. Len(s1) + Len(s2) = 3
    BY <1>3
  <2> QED
    BY <1>3, <2>1, <2>2, Zenon
<1>6. (s1 \o s2)[1] = a /\ (s1 \o s2)[2] = b /\ (s1 \o s2)[3] = c
  BY <1>3, <1>5
<1> QED
  BY <1>4, <1>5, <1>6, Zenon DEF s1, s2

(* What the reservation Pods of a type require of a Node's labels.         *)
LEMMA LabelsRequired ==
    ASSUME NEW t, NEW labels
    PROVE  Pods!MeetsTerm(labels, Pods!GenerateAffinityMatchExpression(t)) <=>
              /\ TypeKey(t) \in DOMAIN labels /\ labels[TypeKey(t)] = MachineGroup
              /\ StatusKey \in DOMAIN labels /\ labels[StatusKey] = "ready"
              /\ HasGPU(t, labels)
<1> DEFINE gpu == Pods!getGPUSelector(GPUOf[t])
           fixed == << Pods!Requirement(TypeKey(t), "In", <<MachineGroup>>),
                       Pods!Requirement(StatusKey, "In", <<"ready">>) >>
           term == Pods!GenerateAffinityMatchExpression(t)
<1>1. \A key, value : Pods!Meets(labels, Pods!Requirement(key, "In", <<value>>)) <=>
                         key \in DOMAIN labels /\ labels[key] = value
  BY DEF Pods!Meets, Pods!Requirement
<1>2. CASE gpu = <<>>
  <2>1. term = fixed
    BY <1>2 DEF Pods!GenerateAffinityMatchExpression, TypeKey, StatusKey
  <2> QED
    BY <1>1, <1>2, <2>1 DEF Pods!MeetsTerm, HasGPU
<1>3. CASE gpu # <<>>
  <2>1. term = << fixed[1], fixed[2], Pods!Requirement(gpu[1], "In", <<gpu[2]>>) >>
    <3> HIDE DEF gpu
    <3>1. term = fixed \o << Pods!Requirement(gpu[1], "In", <<gpu[2]>>) >>
      BY <1>3, Zenon DEF Pods!GenerateAffinityMatchExpression, TypeKey, StatusKey, gpu
    <3> QED
      BY <3>1, ThreeElements, Zenon
  <2> QED
    BY <1>1, <1>3, <2>1 DEF Pods!MeetsTerm, HasGPU
<1> QED
  BY <1>2, <1>3

(* And of its taints.                                                      *)
LEMMA TaintsTolerated ==
    ASSUME NEW t, NEW taint
    PROVE  (\E k \in DOMAIN Pods!GenerateToleration(t) :
               Pods!Tolerates(Pods!GenerateToleration(t)[k], taint)) <=>
              /\ taint.effect = "NoSchedule"
              /\ \/ taint.key = TypeKey(t) /\ taint.value = MachineGroup
                 \/ taint.key = StatusKey /\ taint.value = "ready"
<1>1. DOMAIN Pods!GenerateToleration(t) = {1, 2}
  BY DEF Pods!GenerateToleration
<1> QED
  BY <1>1 DEF Pods!GenerateToleration, Pods!Toleration, Pods!Tolerates, TypeKey, StatusKey

-----------------------------------------------------------------------------
(* Labels, and taints that keep Pods away, whose keys are not imperator's. *)
OfOthers(labels, taints) ==
    /\ \A key \in DOMAIN labels : key # StatusKey /\ \A u : key # TypeKey(u)
    /\ \A taint \in taints : taint.key # StatusKey /\ \A u : taint.key # TypeKey(u)

Fits(t, n, labels, taints) ==
    Pods!Placeable(Pods!GenerateStatefulSet(t), AsSeen(n, labels, taints))

(* The labels of a Node serve the reservations of a type.                  *)
LEMMA LabelsServe ==
    ASSUME NamesApart, NEW t \in MachineType, NEW n, n.types \subseteq MachineType,
           NEW labels, NEW taints, OfOthers(labels, taints)
    PROVE  Pods!MeetsTerm(AsSeen(n, labels, taints).labels,
                          Pods!GenerateAffinityMatchExpression(t)) <=>
              t \in n.types /\ n.status = "ready" /\ HasGPU(t, labels)
<1> DEFINE types == {TypeKey(u) : u \in n.types}
           status == IF n.status = "none" THEN {} ELSE {StatusKey}
           seen == AsSeen(n, labels, taints).labels
<1>1. seen = [key \in types \cup status \cup DOMAIN labels |->
                 IF key \in types THEN MachineGroup
                 ELSE IF key \in status THEN n.status ELSE labels[key]]
  BY DEF AsSeen
<1>2. TypeKey(t) \in types <=> t \in n.types
  BY KeysApart
<1>3. StatusKey \notin types
  BY KeysApart
<1>4. TypeKey(t) \notin status /\ TypeKey(t) \notin DOMAIN labels /\ StatusKey \notin DOMAIN labels
  BY KeysApart DEF OfOthers
<1>5. StatusKey \in status <=> n.status # "none"
  OBVIOUS
<1>6. \A key : key # StatusKey /\ (\A u : key # TypeKey(u)) => key \notin types /\ key \notin status
  OBVIOUS
<1>7. Pods!MeetsTerm(seen, Pods!GenerateAffinityMatchExpression(t)) <=>
         /\ TypeKey(t) \in DOMAIN seen /\ seen[TypeKey(t)] = MachineGroup
         /\ StatusKey \in DOMAIN seen /\ seen[StatusKey] = "ready"
         /\ HasGPU(t, seen)
  BY LabelsRequired
<1> HIDE DEF types, status, seen
<1>8. /\ DOMAIN seen = types \cup status \cup DOMAIN labels
      /\ \A key \in DOMAIN seen :
            seen[key] = IF key \in types THEN MachineGroup
                        ELSE IF key \in status THEN n.status ELSE labels[key]
  BY <1>1
<1>9. TypeKey(t) \in DOMAIN seen /\ seen[TypeKey(t)] = MachineGroup <=> t \in n.types
  BY <1>2, <1>4, <1>8
<1>10. StatusKey \in DOMAIN seen /\ seen[StatusKey] = "ready" <=> n.status = "ready"
  BY <1>3, <1>4, <1>5, <1>8
<1>11. HasGPU(t, seen) <=> HasGPU(t, labels)
  <2> DEFINE gpu == Pods!getGPUSelector(GPUOf[t])
  <2>1. gpu # <<>> => gpu[1] \notin types /\ gpu[1] \notin status
    BY <1>6, KeysApart
  <2> HIDE DEF gpu
  <2>2. gpu # <<>> => /\ gpu[1] \in DOMAIN seen <=> gpu[1] \in DOMAIN labels
                      /\ gpu[1] \in DOMAIN seen => seen[gpu[1]] = labels[gpu[1]]
    BY <1>8, <2>1
  <2> QED
    BY <2>2 DEF HasGPU, gpu
<1> QED
  BY <1>7, <1>9, <1>10, <1>11 DEF seen

(* They tolerate its taints.                                               *)
LEMMA TaintsServe ==
    ASSUME NamesApart, NEW t \in MachineType, NEW n, n.taint.types \subseteq MachineType,
           NEW labels, NEW taints, OfOthers(labels, taints)
    PROVE  (\A taint \in AsSeen(n, labels, taints).taints :
               \E k \in DOMAIN Pods!GenerateToleration(t) :
                  Pods!Tolerates(Pods!GenerateToleration(t)[k], taint)) <=>
              /\ taints = {}
              /\ n.taint.types \subseteq {t}
              /\ n.taint.status \in {"none", "ready"}
<1> DEFINE ofType(u) == [key |-> TypeKey(u), value |-> MachineGroup, effect |-> "NoSchedule"]
           ofStatus(s) == [key |-> StatusKey, value |-> s, effect |-> "NoSchedule"]
           Good(taint) == \E k \in DOMAIN Pods!GenerateToleration(t) :
                             Pods!Tolerates(Pods!GenerateToleration(t)[k], taint)
           seen == AsSeen(n, labels, taints).taints
<1>1. \A taint : taint \in seen <=>
         \/ taint \in taints
         \/ \E u \in n.taint.types : taint = ofType(u)
         \/ n.taint.status # "none" /\ taint = ofStatus(n.taint.status)
  BY DEF AsSeen
<1>2. \A taint \in taints : ~Good(taint)
  BY TaintsTolerated DEF OfOthers
<1>3. \A u \in n.taint.types : Good(ofType(u)) <=> u = t
  BY TaintsTolerated, KeysApart
<1>4. Good(ofStatus(n.taint.status)) <=> n.taint.status = "ready"
  BY TaintsTolerated, KeysApart
<1> HIDE DEF ofType, ofStatus, Good, seen
<1>5. (\A taint \in seen : Good(taint)) <=>
         /\ taints = {}
         /\ n.taint.types \subseteq {t}
         /\ n.taint.status \in {"none", "ready"}
  BY <1>1, <1>2, <1>3, <1>4
<1> QED
  BY <1>5 DEF Good, seen

(* On which Nodes the reservations of a type fit.                          *)
LEMMA WhereItFits ==
    ASSUME NamesApart, NEW t \in MachineType, NEW n \in NodeObject,
           NEW labels, NEW taints, OfOthers(labels, taints)
    PROVE  Fits(t, n, labels, taints) <=>
              /\ t \in n.types /\ n.status = "ready" /\ HasGPU(t, labels)
              /\ taints = {}
              /\ n.taint.types \subseteq {t}
              /\ n.taint.status \in {"none", "ready"}
<1> DEFINE pod == Pods!GenerateStatefulSet(t)
           seen == AsSeen(n, labels, taints)
<1>1. n.types \subseteq MachineType /\ n.taint.types \subseteq MachineType
  BY DEF NodeObject, Taint
<1>2. /\ pod.affinity.level = "required"
      /\ pod.affinity.terms = << Pods!GenerateAffinityMatchExpression(t) >>
      /\ pod.tolerations = Pods!GenerateToleration(t)
  BY DEF Pods!GenerateStatefulSet
<1> HIDE DEF pod, seen
<1>3. Pods!Placeable(pod, seen) <=>
         /\ Pods!MeetsTerm(seen.labels, Pods!GenerateAffinityMatchExpression(t))
         /\ \A taint \in seen.taints : \E k \in DOMAIN Pods!GenerateToleration(t) :
               Pods!Tolerates(Pods!GenerateToleration(t)[k], taint)
  BY <1>2 DEF Pods!Placeable
<1> QED
  BY <1>1, <1>3, LabelsServe, TaintsServe DEF Fits, pod, seen

-----------------------------------------------------------------------------
(* At rest a reservation of a type fits an annotated Node listed for that  *)
(* type exactly when the pool and the Node's taints make it ready, it has  *)
(* the GPU, and it has no taint but the type's own: neither one of others  *)
(* nor one that the controller left from an earlier entry.                 *)
FitsTheReady ==
    (Quiet /\ pool.exists) =>
        \A k \in DOMAIN pool.spec : \A t \in pool.spec[k].types : \A labels, taints :
            LET entry == pool.spec[k]
                n     == node[entry.node]
            IN  n.mine /\ OfOthers(labels, taints) =>
                   (Fits(t, n, labels, taints) <=>
                       /\ StatusValue(n, entry) = "ready"
                       /\ HasGPU(t, labels)
                       /\ taints = {}
                       /\ n.taint.types \subseteq {t}
                       /\ n.taint.status \in {"none", "ready"})

(* At rest an annotated Node whose entry asks for taints takes no          *)
(* reservation of any type but the one it is listed for.                   *)
KeepsOthersOut ==
    (Quiet /\ pool.exists) =>
        \A k \in DOMAIN pool.spec : \A t \in pool.spec[k].types :
            \A u \in MachineType \ {t} : \A labels, taints :
                LET entry == pool.spec[k]
                    n     == node[entry.node]
                IN  n.mine /\ entry.taint /\ OfOthers(labels, taints)
                    => ~Fits(u, n, labels, taints)

(* What holds of an annotated Node at rest.                                *)
LEMMA AtRest ==
    ASSUME TypeOK, IdleMeansMarked, Quiet, pool.exists,
           NEW k \in DOMAIN pool.spec, node[pool.spec[k].node].mine
    PROVE  /\ node[pool.spec[k].node] \in NodeObject
           /\ pool.spec[k].types \subseteq MachineType
           /\ HasMarks(node[pool.spec[k].node], pool.spec[k])
<1>1. pool.spec[k] \in Entry
  BY SpecLemma DEF TypeOK
<1>2. Settled(k)
  BY DEF IdleMeansMarked
<1> QED
  BY <1>1, <1>2 DEF Entry, TypeOK, Settled

(* The two controllers agree on which Nodes serve a type, for every pool.  *)
THEOREM ReservationsFitTheReady == ASSUME NamesApart PROVE Spec => []FitsTheReady
<1>1. TypeOK /\ IdleMeansMarked => FitsTheReady
  <2> SUFFICES ASSUME TypeOK, IdleMeansMarked, Quiet, pool.exists,
                      NEW k \in DOMAIN pool.spec, NEW t \in pool.spec[k].types,
                      NEW labels, NEW taints,
                      node[pool.spec[k].node].mine, OfOthers(labels, taints)
               PROVE  Fits(t, node[pool.spec[k].node], labels, taints) <=>
                         /\ StatusValue(node[pool.spec[k].node], pool.spec[k]) = "ready"
                         /\ HasGPU(t, labels)
                         /\ taints = {}
                         /\ node[pool.spec[k].node].taint.types \subseteq {t}
                         /\ node[pool.spec[k].node].taint.status \in {"none", "ready"}
    BY Zenon DEF FitsTheReady
  <2> DEFINE entry == pool.spec[k]
             n == node[entry.node]
  <2>1. /\ n \in NodeObject /\ t \in MachineType
        /\ t \in n.types /\ n.status = StatusValue(n, entry)
    BY AtRest DEF HasMarks
  <2> HIDE DEF entry, n
  <2>2. Fits(t, n, labels, taints) <=>
           /\ t \in n.types /\ n.status = "ready" /\ HasGPU(t, labels)
           /\ taints = {}
           /\ n.taint.types \subseteq {t}
           /\ n.taint.status \in {"none", "ready"}
    BY <2>1, WhereItFits
  <2> QED
    BY <2>1, <2>2, Zenon DEF entry, n
<1> QED
  BY <1>1, TypeCorrect, RestMeansMarked, PTL

(* Taints keep a Node for its own type.                                    *)
THEOREM TaintsKeepOthersOut == ASSUME NamesApart PROVE Spec => []KeepsOthersOut
<1>1. TypeOK /\ IdleMeansMarked => KeepsOthersOut
  <2> SUFFICES ASSUME TypeOK, IdleMeansMarked, Quiet, pool.exists,
                      NEW k \in DOMAIN pool.spec, NEW t \in pool.spec[k].types,
                      NEW u \in MachineType \ {t}, NEW labels, NEW taints,
                      node[pool.spec[k].node].mine, pool.spec[k].taint,
                      OfOthers(labels, taints)
               PROVE  ~Fits(u, node[pool.spec[k].node], labels, taints)
    BY Zenon DEF KeepsOthersOut
  <2> DEFINE n == node[pool.spec[k].node]
  <2>1. n \in NodeObject /\ t \in n.taint.types
    BY AtRest DEF HasMarks
  <2> HIDE DEF n
  <2>2. Fits(u, n, labels, taints) => n.taint.types \subseteq {u}
    BY <2>1, WhereItFits
  <2> QED
    BY <2>1, <2>2 DEF n
<1> QED
  BY <1>1, TypeCorrect, RestMeansMarked, PTL
=============================================================================
