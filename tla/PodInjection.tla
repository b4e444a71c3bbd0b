---------------------------- MODULE PodInjection ----------------------------
(***************************************************************************)
(* What imperator writes into a Pod so that it runs on a machine: the      *)
(* resources of the machine type, a node affinity and two tolerations, for *)
(* the reservation Pods (GenerateStatefulSet) and, by the Pod resource     *)
(* injector, for guests that may carry constraints of their own.  The      *)
(* module has no state.                                                    *)
(*                                                                         *)
(* A Pod is the part of corev1.Pod that is read or written:                *)
(*   labels       group, type, role and container; "" is an absent label   *)
(*   containers   a sequence of names with resources                       *)
(*   affinity     how much of spec.affinity is there (level), and the node *)
(*                selector terms, each a sequence of requirements          *)
(*   tolerations  a sequence                                               *)
(* Quantities are not looked into: the resources of a machine type are     *)
(* named after it.                                                         *)
(***************************************************************************)
EXTENDS Integers, Sequences

CONSTANTS
    MachineType,    \* the names of the machine types
    MachineGroup,   \* the machine group, a label value
    GPUOf           \* spec.gpu of each type; "" is a field that is not set

ASSUME NamesAssumption ==
    /\ MachineType \subseteq STRING \ {""}
    /\ MachineGroup \in STRING \ {""}

ASSUME GPUAssumption ==
    GPUOf \in [MachineType -> [family : STRING, product : STRING, machine : STRING]]

NoPod == [present |-> FALSE]

PodLabels == [group : {"", MachineGroup}, type : MachineType \cup {""},
              role : STRING, container : STRING]
Resources == {<<"user">>} \cup {<<"machine", t>> : t \in MachineType}
Containers == [name : STRING, resources : Resources]

(* A sequence of whatever the user wrote.                                  *)
IsSequence(s) == Len(s) \in Nat /\ DOMAIN s = 1 .. Len(s)

(* Node selector terms, each a sequence of requirements.                   *)
AreTerms(terms) == IsSequence(terms) /\ \A i \in DOMAIN terms : IsSequence(terms[i])

IsPod(p) ==
    /\ DOMAIN p = {"labels", "containers", "affinity", "tolerations"}
    /\ p.labels \in PodLabels
    /\ p.containers \in Seq(Containers)
    /\ DOMAIN p.affinity = {"level", "terms"}
    /\ p.affinity.level \in {"nil", "noNodeAffinity", "preferred", "required"}
    /\ AreTerms(p.affinity.terms)
    /\ IsSequence(p.tolerations)

Requirement(key, operator, values) ==
    [key |-> key, operator |-> operator, values |-> values]
Toleration(key, value) ==
    [key |-> key, operator |-> "Equal", value |-> value, effect |-> "NoSchedule"]

(* A label key is a domain and a name.                                     *)
MachineStatusKey == <<"imperator.tenzen-y.io", "node-pool">>
GenerateMachineTypeLabelTaintKey(t) == <<"imperator.tenzen-y.io", t>>

getGPUSelector(gpu) ==
    CASE gpu.family # ""  -> <<<<"nvidia.com", "gpu.family">>, gpu.family>>
      [] gpu.family = "" /\ gpu.product # "" ->
                             <<<<"nvidia.com", "gpu.product">>, gpu.product>>
      [] gpu.family = "" /\ gpu.product = "" /\ gpu.machine # "" ->
                             <<<<"nvidia.com", "gpu.machine">>, gpu.machine>>
      [] OTHER            -> <<>>

GenerateAffinityMatchExpression(t) ==
    LET gpu == getGPUSelector(GPUOf[t])
    IN  << Requirement(GenerateMachineTypeLabelTaintKey(t), "In", <<MachineGroup>>),
           Requirement(MachineStatusKey, "In", <<"ready">>) >>
        \o IF gpu = <<>> THEN <<>>
           ELSE << Requirement(gpu[1], "In", <<gpu[2]>>) >>

GenerateToleration(t) ==
    << Toleration(GenerateMachineTypeLabelTaintKey(t), MachineGroup),
       Toleration(MachineStatusKey, "ready") >>

(* CPU, memory and GPUs of the machine type, as requests and as limits.    *)
convertToResourceQuantity(t) == <<"machine", t>>

(* The Pod template of a type's reservation StatefulSet.                   *)
GenerateStatefulSet(t) ==
    [labels      |-> [group |-> MachineGroup, type |-> t, role |-> "reservation",
                      container |-> ""],
     containers  |-> << [name |-> "sleeper", resources |-> convertToResourceQuantity(t)] >>,
     affinity    |-> [level |-> "required",
                      terms |-> << GenerateAffinityMatchExpression(t) >>],
     tolerations |-> GenerateToleration(t)]

-----------------------------------------------------------------------------
(***************************************************************************)
(* Injection into a guest.                                                 *)
(***************************************************************************)

(* The labels that make a Pod a guest.                                     *)
requiredInjection(pod) ==
    /\ pod.labels.group # ""
    /\ pod.labels.type # ""
    /\ pod.labels.role = "guest"

(* The container the label names, otherwise the first.  The API server     *)
(* refuses Pods in which two containers have one name.                     *)
findInjectingTargetContainerIndex(pod) ==
    LET named == {i \in DOMAIN pod.containers : pod.containers[i].name = pod.labels.container}
    IN  IF pod.labels.container # "" /\ named # {} THEN CHOOSE i \in named : TRUE ELSE 1

injectResource(t, containers, idx) ==
    [containers EXCEPT ![idx].resources = convertToResourceQuantity(t)]

(* The value injected for a key, "" for any other key: a Go map, in which  *)
(* the last of two equal keys counts.                                      *)
InjectedValue(required, key) ==
    LET at == {i \in DOMAIN required : required[i].key = key}
    IN  IF at = {} THEN ""
        ELSE required[CHOOSE i \in at : \A j \in at : j <= i].values[1]

(* The test by which a requirement of the user's is thrown out.            *)
Duplicated(required, e) ==
    e.values # <<>> /\ e.values[1] = InjectedValue(required, e.key)

(* Mutant: one requirement more than the duplicate is cut out.             *)
ShiftedCuttingTwo(term, i, k) == term[IF i + 2 * k <= Len(term) THEN i + 2 * k ELSE Len(term)]

(* What is at i after k removals before i: append(s[:i], s[i+1:]...) moves *)
(* the tail of the same array down by one, and the last stays.             *)
Shifted(term, i, k) == term[IF i + k <= Len(term) THEN i + k ELSE Len(term)]

(* The removals up to an element.  The loop ranges over the array it       *)
(* shifts, so it never looks at the element that moved to where it just    *)
(* removed one.                                                            *)
Removals(term, required) ==
    LET removals[i \in 0 .. Len(term)] ==
            IF i = 0 THEN 0
            ELSE LET k == removals[i - 1]
                 IN  IF Duplicated(required, Shifted(term, i, k)) THEN k + 1 ELSE k
    IN  removals

(* Every removal stores one element less than the term had at first, so    *)
(* that the term ends up shorter by one however many were removed.         *)
RemoveDuplicated(term, required) ==
    LET removals == Removals(term, required)
    IN  IF removals[Len(term)] = 0 THEN term
        ELSE [i \in 1 .. Len(term) - 1 |-> Shifted(term, i, removals[i])]

(* An operator without values has no first value to compare.               *)
RemovalPanics(term, required) ==
    \E i \in DOMAIN term :
        Shifted(term, i, Removals(term, required)[i - 1]).values = <<>>

(* Mutant: a user's own terms are taken to be enough.                      *)
injectPodAffinityUnlessTerms(affinity, required) ==
    IF affinity.level = "required" /\ affinity.terms # <<>> THEN affinity
    ELSE [level |-> "required", terms |-> << required >>]

(* The user's terms, less what is duplicated, and the injected term: terms *)
(* are alternatives.                                                       *)
injectPodAffinity(affinity, required) ==
    LET n == IF affinity.level = "required" THEN Len(affinity.terms) ELSE 0
    IN  [level |-> "required",
         terms |-> [i \in 1 .. n + 1 |->
                       IF i <= n THEN RemoveDuplicated(affinity.terms[i], required)
                       ELSE required]]

injectPodAffinityPanics(affinity, required) ==
    \/ affinity.level = "noNodeAffinity"
    \/ /\ affinity.level = "required"
       /\ \E i \in DOMAIN affinity.terms : RemovalPanics(affinity.terms[i], required)

findToleration(tolerations, t, last) ==
    \E i \in 1 .. last : tolerations[i].key = t.key /\ tolerations[i].value = t.value

(* The first toleration of the same key and value is taken out, what       *)
(* follows it moves down, and the injected one comes at the end.           *)
Tolerate(tolerations, t) ==
    LET m == Len(tolerations)
        n == IF findToleration(tolerations, t, m) THEN m ELSE m + 1
    IN  [i \in 1 .. n |->
            IF i = n THEN t
            ELSE IF findToleration(tolerations, t, i) THEN tolerations[i + 1]
            ELSE tolerations[i]]

injectPodToleration(tolerations, injected) ==
    Tolerate(Tolerate(tolerations, injected[1]), injected[2])

requiredMatchExpressions == [t \in MachineType |-> GenerateAffinityMatchExpression(t)]
injectedTolerations == [t \in MachineType |-> GenerateToleration(t)]

InjectionPanics(pod) ==
    \/ pod.containers = <<>>
    \/ injectPodAffinityPanics(pod.affinity, requiredMatchExpressions[pod.labels.type])

(* What injectToPod makes of a guest.                                      *)
Injected(pod) ==
    LET t == pod.labels.type
    IN  [pod EXCEPT
            !.containers  = injectResource(t, @, findInjectingTargetContainerIndex(pod)),
            !.affinity    = injectPodAffinity(@, requiredMatchExpressions[t]),
            !.tolerations = injectPodToleration(@, injectedTolerations[t])]

-----------------------------------------------------------------------------
(***************************************************************************)
(* Where the scheduler may place a Pod: a Node is its labels, a function   *)
(* on some keys, and its taints.                                           *)
(***************************************************************************)
Meets(labels, e) ==
    CASE e.operator = "In" ->
            e.key \in DOMAIN labels
            /\ \E i \in DOMAIN e.values : e.values[i] = labels[e.key]
      [] e.operator = "NotIn" ->
            e.key \in DOMAIN labels
            => \A i \in DOMAIN e.values : e.values[i] # labels[e.key]
      [] e.operator = "Exists"       -> e.key \in DOMAIN labels
      [] e.operator = "DoesNotExist" -> e.key \notin DOMAIN labels

(* A term without requirements matches no Node.                            *)
MeetsTerm(labels, term) ==
    term # <<>> /\ \A i \in DOMAIN term : Meets(labels, term[i])

Tolerates(toleration, taint) ==
    /\ toleration.key = taint.key
    /\ toleration.effect = taint.effect
    /\ toleration.operator = "Exists" \/ toleration.value = taint.value

Placeable(pod, node) ==
    /\ pod.affinity.level = "required" =>
          \E i \in DOMAIN pod.affinity.terms : MeetsTerm(node.labels, pod.affinity.terms[i])
    /\ \A taint \in node.taints :
          \E i \in DOMAIN pod.tolerations : Tolerates(pod.tolerations[i], taint)

(* A guest can run wherever its type has a machine reserved, and takes     *)
(* what the reservation takes: the reservation can give way to it.         *)
FitsReservation(pod, nodes) ==
    LET t == pod.labels.type
        target == findInjectingTargetContainerIndex(pod)
    IN  /\ \A node \in nodes :
              Placeable(GenerateStatefulSet(t), node) => Placeable(pod, node)
        /\ pod.containers[target].resources
              = GenerateStatefulSet(t).containers[1].resources
=============================================================================
