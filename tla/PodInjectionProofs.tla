-------------------------- MODULE PodInjectionProofs --------------------------
(***************************************************************************)
(* Proofs about PodInjection: what the injection does to any Pod, however  *)
(* many containers, tolerations, terms and requirements it has.  The       *)
(* removal of requirements is a loop, which Removals counts by recursion;  *)
(* what it does to a term of any length is proved by induction.            *)
(***************************************************************************)
EXTENDS PodInjection, TLAPS, SequenceTheorems, WellFoundedInduction

-----------------------------------------------------------------------------
(***************************************************************************)
(* Induction over the numbers, for a property that is given as a set.      *)
(***************************************************************************)
Below == {pair \in Nat \X Nat : pair[1] < pair[2]}

(* A set of numbers has a least one.                                       *)
LEMMA LeastNumber ==
    ASSUME NEW S, S \subseteq Nat, S # {}
    PROVE  \E n \in S : \A k \in S : n <= k
<1>1. IsWellFoundedOn(Below, Nat)
  BY NatLessThanWellFounded DEF OpToRel, Below
<1>2. PICK n \in S : \A k \in S : <<k, n>> \notin Below
  BY <1>1, WFMin, Zenon
<1>3. ASSUME NEW k \in S, k < n PROVE FALSE
  <2>1. <<k, n>> \in Below
    BY <1>3 DEF Below
  <2>. QED BY <1>2, <2>1, Zenon
<1>. QED BY <1>3

(* A set with zero and every successor has all the numbers.                *)
LEMMA InductionOverSet ==
    ASSUME NEW S, 0 \in S, \A n \in Nat : n \in S => n + 1 \in S
    PROVE  Nat \subseteq S
<1>. SUFFICES ASSUME Nat \ S # {} PROVE FALSE
  OBVIOUS
<1>1. PICK n \in Nat \ S : \A k \in Nat \ S : n <= k
  BY LeastNumber
<1>2. n - 1 \in Nat /\ n - 1 \in S
  BY <1>1
<1>. QED BY <1>1, <1>2

-----------------------------------------------------------------------------
(***************************************************************************)
(* The removal of duplicated requirements from a user's term.              *)
(***************************************************************************)

(* A function on an initial segment of the numbers is a sequence.          *)
LEMMA Initial ==
    ASSUME NEW n \in Nat, NEW s, DOMAIN s = 1 .. n
    PROVE  IsSequence(s) /\ Len(s) = n
  BY DEF IsSequence

(* The removals after turn i of the loop, k before it.                     *)
Turn(term, required, i, k) ==
    IF Duplicated(required, Shifted(term, i, k)) THEN k + 1 ELSE k

(* The recursion of Removals has a solution: a count for each turn, that   *)
(* follows from the one before.                                            *)
LEMMA RemovalsByTurns ==
    ASSUME NEW term, IsSequence(term), NEW required
    PROVE  LET r == Removals(term, required)
           IN  /\ DOMAIN r = 0 .. Len(term)
               /\ r[0] = 0
               /\ \A i \in 1 .. Len(term) : r[i] = Turn(term, required, i, r[i - 1])
<1>. DEFINE Counts(g, n) ==
                g = [i \in 0 .. n |-> IF i = 0 THEN 0
                                      ELSE Turn(term, required, i, g[i - 1])]
            S == {n \in Nat : \E g : Counts(g, n)}
<1>1. 0 \in S
  <2>1. Counts([i \in 0 .. 0 |-> 0], 0)
    OBVIOUS
  <2>. QED BY <2>1
<1>2. ASSUME NEW n \in Nat, n \in S PROVE n + 1 \in S
  <2>1. PICK g : Counts(g, n)
    BY <1>2
  <2>2. DOMAIN g = 0 .. n
    BY <2>1
  <2>3. \A i \in 0 .. n : g[i] = IF i = 0 THEN 0 ELSE Turn(term, required, i, g[i - 1])
    BY <2>1
  <2>. DEFINE h == [i \in 0 .. n + 1 |-> IF i = n + 1 THEN Turn(term, required, n + 1, g[n])
                                         ELSE g[i]]
  <2>4. \A i \in 0 .. n + 1 : h[i] = IF i = 0 THEN 0 ELSE Turn(term, required, i, h[i - 1])
    <3>. SUFFICES ASSUME NEW i \in 0 .. n + 1
                  PROVE  h[i] = IF i = 0 THEN 0 ELSE Turn(term, required, i, h[i - 1])
      OBVIOUS
    <3>1. CASE i = n + 1
      <4>1. h[i] = Turn(term, required, n + 1, g[n]) /\ i # 0
        BY <3>1
      <4>2. i - 1 = n /\ h[n] = g[n]
        BY <3>1
      <4>. QED BY <3>1, <4>1, <4>2, Zenon
    <3>2. CASE i = 0
      BY <2>3, <3>2
    <3>3. CASE i \in 1 .. n
      <4>1. i \in 0 .. n /\ i # 0 /\ h[i] = g[i] /\ h[i - 1] = g[i - 1]
        BY <3>3
      <4>. QED BY <2>3, <4>1, Zenon
    <3>. QED BY <3>1, <3>2, <3>3
  <2>5. Counts(h, n + 1)
    <3>. DEFINE f == [i \in 0 .. n + 1 |-> IF i = 0 THEN 0 ELSE Turn(term, required, i, h[i - 1])]
    <3>1. h = f
      <4>1. DOMAIN h = DOMAIN f /\ \A i \in DOMAIN h : h[i] = f[i]
        BY <2>4
      <4>2. h = [i \in DOMAIN h |-> h[i]] /\ f = [i \in DOMAIN f |-> f[i]]
        OBVIOUS
      <4>. HIDE DEF h, f
      <4>. QED BY <4>1, <4>2
    <3>. QED BY <3>1
  <2>. HIDE DEF h, Counts
  <2>. QED BY <2>5
<1>. HIDE DEF S
<1>3. Len(term) \in S
  BY <1>1, <1>2, InductionOverSet DEF IsSequence
<1>4. PICK g : Counts(g, Len(term))
  BY <1>3 DEF S
<1>5. Removals(term, required) = CHOOSE f : Counts(f, Len(term))
  BY DEF Removals, Turn
<1>6. Counts(Removals(term, required), Len(term))
  BY <1>4, <1>5
<1>. QED BY <1>6 DEF IsSequence

(* No turn removes more than one, and none forgets a removal.              *)
LEMMA RemovalsBounded ==
    ASSUME NEW term, IsSequence(term), NEW required, NEW i \in 0 .. Len(term)
    PROVE  Removals(term, required)[i] \in 0 .. i
<1>. DEFINE n == Len(term)
            r == Removals(term, required)
            S == {k \in Nat : k <= n => r[k] \in 0 .. k}
<1>1. n \in Nat /\ r[0] = 0 /\ \A k \in 1 .. n : r[k] = Turn(term, required, k, r[k - 1])
  BY RemovalsByTurns DEF IsSequence
<1>. HIDE DEF r
<1>2. 0 \in S
  BY <1>1
<1>3. ASSUME NEW k \in Nat, k \in S PROVE k + 1 \in S
  <2>. SUFFICES ASSUME k + 1 <= n PROVE r[k + 1] \in 0 .. k + 1
    OBVIOUS
  <2>1. r[k] \in 0 .. k /\ k + 1 \in 1 .. n /\ (k + 1) - 1 = k
    BY <1>1, <1>3
  <2>2. r[k + 1] = Turn(term, required, k + 1, r[k])
    BY <1>1, <2>1
  <2>3. r[k + 1] = r[k] \/ r[k + 1] = r[k] + 1
    BY <2>2 DEF Turn
  <2>. QED BY <2>1, <2>3
<1>. HIDE DEF S
<1>4. i \in S
  BY <1>1, <1>2, <1>3, InductionOverSet
<1>. QED BY <1>1, <1>4 DEF S, r

(* What is removed is a requirement that is duplicated: all others are     *)
(* still in the term, although the loop skips the one after each removal   *)
(* and the term ends up one shorter however many there were.               *)
LEMMA RequirementKept ==
    ASSUME NEW term, IsSequence(term), NEW required, NEW j \in DOMAIN term,
           ~Duplicated(required, term[j])
    PROVE  \E k \in DOMAIN RemoveDuplicated(term, required) :
              RemoveDuplicated(term, required)[k] = term[j]
<1>. DEFINE n == Len(term)
            r == Removals(term, required)
            T == {k \in 1 .. n : k + r[k] >= j}
<1>1. /\ n \in Nat /\ j \in 1 .. n
      /\ r[0] = 0
      /\ \A k \in 1 .. n : r[k] = Turn(term, required, k, r[k - 1])
      /\ \A k \in 0 .. n : r[k] \in 0 .. k
  BY RemovalsByTurns, RemovalsBounded DEF IsSequence
<1>2. RemoveDuplicated(term, required)
         = IF r[n] = 0 THEN term ELSE [k \in 1 .. n - 1 |-> Shifted(term, k, r[k])]
  BY DEF RemoveDuplicated
<1>. HIDE DEF r, n
<1>3. CASE r[n] = 0
  BY <1>2, <1>3
<1>4. CASE r[n] # 0
  <2>1. T \subseteq Nat /\ n \in T /\ \A l : l \in T <=> l \in 1 .. n /\ l + r[l] >= j
    BY <1>1
  <2>. HIDE DEF T
  <2>2. PICK k \in T : \A l \in T : k <= l
    BY <2>1, LeastNumber
  <2>3. /\ k \in 1 .. n /\ n \in Nat /\ j \in 1 .. n
        /\ k + r[k] >= j /\ r[k] \in Nat /\ r[k - 1] \in Nat /\ r[n] \in Nat
    BY <1>1, <2>1
  <2>4. (k - 1) + r[k - 1] < j
    <3>1. CASE k = 1
      BY <1>1, <3>1
    <3>2. CASE k # 1
      <4>1. k - 1 \in 1 .. n /\ k - 1 \notin T
        <5>1. k - 1 \in 1 .. n /\ ~(k <= k - 1)
          BY <2>3, <3>2
        <5>. QED BY <2>2, <5>1
      <4>. QED BY <2>1, <2>3, <4>1, <1>1
    <3>. QED BY <3>1, <3>2
  <2>5. r[k] = Turn(term, required, k, r[k - 1])
    BY <1>1, <2>3
  <2>6. j = k + r[k] /\ k \in 1 .. n - 1
    <3>1. CASE Duplicated(required, Shifted(term, k, r[k - 1]))
      <4>1. r[k] = r[k - 1] + 1
        BY <2>5, <3>1 DEF Turn
      <4>2. j = k + r[k - 1] \/ j = k + r[k]
        BY <2>3, <2>4, <4>1
      <4>3. j # k + r[k - 1]
        <5>. SUFFICES ASSUME j = k + r[k - 1] PROVE FALSE
          OBVIOUS
        <5>1. Shifted(term, k, r[k - 1]) = term[j]
          BY <1>1 DEF Shifted, n
        <5>. QED BY <3>1, <5>1
      <4>. QED BY <1>1, <2>3, <4>1, <4>2, <4>3
    <3>2. CASE ~Duplicated(required, Shifted(term, k, r[k - 1]))
      <4>1. r[k] = r[k - 1]
        BY <2>5, <3>2 DEF Turn
      <4>2. j = k + r[k]
        BY <2>3, <2>4, <4>1
      <4>3. k # n
        BY <1>1, <1>4, <2>3, <4>2
      <4>. QED BY <2>3, <4>2, <4>3, <1>1
    <3>. QED BY <3>1, <3>2
  <2>7. Shifted(term, k, r[k]) = term[j]
    BY <1>1, <2>6 DEF Shifted, n
  <2>8. /\ k \in DOMAIN RemoveDuplicated(term, required)
        /\ RemoveDuplicated(term, required)[k] = term[j]
    BY <1>2, <1>4, <2>6, <2>7
  <2>. QED BY <2>8
<1>. QED BY <1>3, <1>4

(* The result is a sequence of the user's requirements: nothing is added.  *)
LEMMA RequirementsOnlyRemoved ==
    ASSUME NEW term, IsSequence(term), NEW required
    PROVE  LET new == RemoveDuplicated(term, required)
           IN  /\ IsSequence(new)
               /\ \A k \in DOMAIN new : \E j \in DOMAIN term : new[k] = term[j]
<1>. DEFINE n == Len(term)
            r == Removals(term, required)
            new == RemoveDuplicated(term, required)
<1>. SUFFICES /\ IsSequence(new)
             /\ \A k \in DOMAIN new : \E j \in DOMAIN term : new[k] = term[j]
  OBVIOUS
<1>1. n \in Nat /\ DOMAIN term = 1 .. n /\ r[0] = 0
  BY RemovalsByTurns DEF IsSequence
<1>2. \A k \in 0 .. n : r[k] \in 0 .. k
  BY RemovalsBounded
<1>3. new = IF r[n] = 0 THEN term ELSE [k \in 1 .. n - 1 |-> Shifted(term, k, r[k])]
  BY DEF RemoveDuplicated
<1>. HIDE DEF r, new
<1>4. CASE r[n] = 0
  BY <1>3, <1>4
<1>5. CASE r[n] # 0
  <2>1. n # 0 /\ n - 1 \in Nat
    BY <1>1, <1>5
  <2>2. DOMAIN new = 1 .. n - 1 /\ \A k \in 1 .. n - 1 : new[k] = Shifted(term, k, r[k])
    BY <1>3, <1>5
  <2>3. IsSequence(new)
    BY <2>1, <2>2, Initial
  <2>4. ASSUME NEW k \in 1 .. n - 1
        PROVE  \E j \in DOMAIN term : Shifted(term, k, r[k]) = term[j]
    <3>1. r[k] \in 0 .. k /\ k \in 1 .. n
      BY <1>1, <1>2, <2>1
    <3>. DEFINE j == IF k + r[k] <= n THEN k + r[k] ELSE n
    <3>2. j \in DOMAIN term
      BY <1>1, <3>1
    <3>3. Shifted(term, k, r[k]) = term[j]
      BY DEF Shifted
    <3>. QED BY <3>2, <3>3
  <2>. QED BY <2>2, <2>3, <2>4
<1>. QED BY <1>4, <1>5

-----------------------------------------------------------------------------
(***************************************************************************)
(* What the injection does to a Pod.                                       *)
(***************************************************************************)

(* Tolerate leaves a sequence in which the toleration is.                  *)
LEMMA TolerateHolds ==
    ASSUME NEW s, IsSequence(s), NEW t
    PROVE  /\ IsSequence(Tolerate(s, t))
           /\ \E i \in DOMAIN Tolerate(s, t) : Tolerate(s, t)[i] = t
<1>. DEFINE n == IF findToleration(s, t, Len(s)) THEN Len(s) ELSE Len(s) + 1
<1>1. n \in Nat /\ n \in 1 .. n
  BY DEF IsSequence, findToleration
<1>2. DOMAIN Tolerate(s, t) = 1 .. n /\ Tolerate(s, t)[n] = t
  BY <1>1 DEF Tolerate
<1>. HIDE DEF n
<1>. QED BY <1>1, <1>2, Initial

(* And every toleration of another key or value is still there.            *)
LEMMA TolerateKeeps ==
    ASSUME NEW s, IsSequence(s), NEW t, NEW i \in DOMAIN s,
           ~(s[i].key = t.key /\ s[i].value = t.value)
    PROVE  \E j \in DOMAIN Tolerate(s, t) : Tolerate(s, t)[j] = s[i]
<1>. USE DEF IsSequence
<1>1. CASE ~findToleration(s, t, i)
  <2>1. i # Len(s) \/ ~findToleration(s, t, Len(s))
    BY <1>1
  <2>. DEFINE n == IF findToleration(s, t, Len(s)) THEN Len(s) ELSE Len(s) + 1
  <2>2. i \in 1 .. n /\ i # n
    BY <2>1
  <2>3. Tolerate(s, t) = [j \in 1 .. n |-> IF j = n THEN t
                                          ELSE IF findToleration(s, t, j) THEN s[j + 1]
                                          ELSE s[j]]
    BY DEF Tolerate
  <2>. HIDE DEF n
  <2>4. i \in DOMAIN Tolerate(s, t) /\ Tolerate(s, t)[i] = s[i]
    BY <1>1, <2>2, <2>3
  <2>. QED BY <2>4
<1>2. CASE findToleration(s, t, i)
  <2>1. PICK k \in 1 .. i : s[k].key = t.key /\ s[k].value = t.value
    BY <1>2 DEF findToleration
  <2>2. k # i /\ i - 1 \in 1 .. Len(s) /\ k \in 1 .. i - 1 /\ i - 1 < Len(s)
    BY <2>1
  <2>3. findToleration(s, t, i - 1) /\ findToleration(s, t, Len(s))
    BY <2>1, <2>2 DEF findToleration
  <2>4. i - 1 \in DOMAIN Tolerate(s, t) /\ Tolerate(s, t)[i - 1] = s[i]
    <3>1. (i - 1) + 1 = i
      OBVIOUS
    <3>. QED BY <2>2, <2>3, <3>1 DEF Tolerate
  <2>. QED BY <2>4
<1>. QED BY <1>1, <1>2

(* Both tolerations of a reservation Pod are injected: the second does not *)
(* replace the first, unless it is the same.                               *)
LEMMA TolerationsInjected ==
    ASSUME NEW s, IsSequence(s), NEW mt \in MachineType
    PROVE  LET new == injectPodToleration(s, GenerateToleration(mt))
           IN  /\ IsSequence(new)
               /\ \A k \in 1 .. 2 : \E j \in DOMAIN new : new[j] = GenerateToleration(mt)[k]
<1>. DEFINE first == GenerateToleration(mt)[1]
            second == GenerateToleration(mt)[2]
            between == Tolerate(s, first)
<1>0. /\ injectPodToleration(s, GenerateToleration(mt)) = Tolerate(between, second)
      /\ first.key = second.key /\ first.value = second.value => first = second
  BY DEF injectPodToleration, GenerateToleration, Toleration
<1>. HIDE DEF first, second
<1>1. IsSequence(between)
  BY TolerateHolds
<1>2. PICK i \in DOMAIN between : between[i] = first
  BY TolerateHolds
<1>. HIDE DEF between
<1>3. IsSequence(Tolerate(between, second))
  BY <1>1, TolerateHolds
<1>4. \E j \in DOMAIN Tolerate(between, second) : Tolerate(between, second)[j] = second
  BY <1>1, TolerateHolds
<1>5. \E j \in DOMAIN Tolerate(between, second) : Tolerate(between, second)[j] = first
  <2>1. CASE first.key = second.key /\ first.value = second.value
    BY <1>0, <1>4, <2>1
  <2>2. CASE ~(first.key = second.key /\ first.value = second.value)
    BY <1>1, <1>2, <2>2, TolerateKeeps
  <2>. QED BY <2>1, <2>2
<1>. QED BY <1>0, <1>3, <1>4, <1>5 DEF first, second

(* The term the injection brings is a sequence.                            *)
LEMMA RequiredIsSequence ==
    ASSUME NEW t \in MachineType
    PROVE  IsSequence(GenerateAffinityMatchExpression(t))
<1>. DEFINE type == Requirement(GenerateMachineTypeLabelTaintKey(t), "In", <<MachineGroup>>)
            status == Requirement(MachineStatusKey, "In", <<"ready">>)
            gpu == getGPUSelector(GPUOf[t])
            selector == Requirement(gpu[1], "In", <<gpu[2]>>)
            S == {type, status, selector}
            third == IF gpu = <<>> THEN <<>> ELSE << selector >>
<1>1. GenerateAffinityMatchExpression(t) = << type, status >> \o third
  BY DEF GenerateAffinityMatchExpression
<1>2. type \in S /\ status \in S /\ selector \in S
  OBVIOUS
<1>. HIDE DEF type, status, gpu, selector, S
<1>3. << type, status >> \in Seq(S) /\ <<>> \in Seq(S) /\ << selector >> \in Seq(S)
  BY <1>2
<1>4. third \in Seq(S)
  BY <1>3
<1>. HIDE DEF third
<1>5. << type, status >> \o third \in Seq(S)
  BY <1>3, <1>4, ConcatProperties
<1>. QED BY <1>1, <1>5, LenProperties DEF IsSequence

(* The injected term comes after the user's, one more than there were.     *)
LEMMA AffinityInjected ==
    ASSUME NEW pod, IsPod(pod), NEW required, IsSequence(required)
    PROVE  LET old == pod.affinity
               new == injectPodAffinity(old, required)
           IN  /\ DOMAIN new = {"level", "terms"}
               /\ new.level = "required"
               /\ AreTerms(new.terms)
               /\ \E i \in DOMAIN new.terms : new.terms[i] = required
               /\ new # old
<1>. DEFINE old == pod.affinity
            new == injectPodAffinity(old, required)
            n == IF old.level = "required" THEN Len(old.terms) ELSE 0
<1>1. n \in Nat /\ \A i \in 1 .. n : IsSequence(old.terms[i])
  BY DEF IsPod, IsSequence, AreTerms
<1>2. /\ DOMAIN new = {"level", "terms"}
      /\ new.level = "required"
      /\ DOMAIN new.terms = 1 .. n + 1
      /\ new.terms[n + 1] = required
      /\ \A i \in 1 .. n : new.terms[i] = RemoveDuplicated(old.terms[i], required)
  BY <1>1 DEF injectPodAffinity
<1>3. n + 1 \in DOMAIN new.terms /\ IsSequence(new.terms)
  BY <1>1, <1>2, Initial
<1>4. new # old
  <2>. SUFFICES ASSUME new = old PROVE FALSE
    OBVIOUS
  <2>1. DOMAIN old.terms = 1 .. n
    BY <1>2 DEF IsPod, AreTerms, IsSequence
  <2>. QED BY <1>1, <1>2, <2>1
<1>. HIDE DEF n, new, old
<1>5. \E i \in DOMAIN new.terms : new.terms[i] = required
  BY <1>2, <1>3
<1>6. ASSUME NEW i \in DOMAIN new.terms PROVE IsSequence(new.terms[i])
  <2>1. CASE i = n + 1
    BY <1>2, <2>1
  <2>2. CASE i # n + 1
    <3>1. i \in 1 .. n
      BY <1>1, <1>2, <2>2
    <3>. QED BY <1>1, <1>2, <3>1, RequirementsOnlyRemoved
  <2>. QED BY <2>1, <2>2
<1>. QED BY <1>2, <1>3, <1>4, <1>5, <1>6 DEF new, old, AreTerms

(* The container that gets the resources is one of the Pod's, and is the   *)
(* one found again in the injected Pod.                                    *)
LEMMA ResourceInjected ==
    ASSUME NEW pod, IsPod(pod), pod.containers # <<>>, NEW t \in MachineType
    PROVE  LET idx == findInjectingTargetContainerIndex(pod)
               new == injectResource(t, pod.containers, idx)
           IN  /\ new \in Seq(Containers)
               /\ idx \in DOMAIN new
               /\ new[idx].resources = convertToResourceQuantity(t)
               /\ DOMAIN new = DOMAIN pod.containers
               /\ \A i \in DOMAIN new : new[i].name = pod.containers[i].name
<1>. DEFINE idx == findInjectingTargetContainerIndex(pod)
            new == injectResource(t, pod.containers, idx)
<1>1. pod.containers \in Seq(Containers)
  BY DEF IsPod
<1>2. 1 \in DOMAIN pod.containers
  BY <1>1
<1>3. idx \in DOMAIN pod.containers
  BY <1>2 DEF findInjectingTargetContainerIndex
<1>. HIDE DEF idx
<1>4. convertToResourceQuantity(t) \in Resources
  BY DEF convertToResourceQuantity, Resources
<1>5. \A i \in DOMAIN pod.containers :
          /\ pod.containers[i] \in Containers
          /\ [pod.containers[i] EXCEPT !.resources = convertToResourceQuantity(t)] \in Containers
  <2>1. \A i \in DOMAIN pod.containers : pod.containers[i] \in Containers
    BY <1>1
  <2>2. \A x \in Containers : [x EXCEPT !.resources = convertToResourceQuantity(t)] \in Containers
    BY <1>4 DEF Containers
  <2>. QED BY <2>1, <2>2
<1>6. /\ DOMAIN new = DOMAIN pod.containers
      /\ \A i \in DOMAIN new :
            new[i] = IF i = idx
                     THEN [pod.containers[i] EXCEPT !.resources = convertToResourceQuantity(t)]
                     ELSE pod.containers[i]
  BY DEF injectResource
<1>7. new \in Seq(Containers)
  <2>1. DOMAIN new = 1 .. Len(pod.containers) /\ Len(pod.containers) \in Nat
    BY <1>1, <1>6
  <2>2. \A i \in 1 .. Len(pod.containers) : new[i] \in Containers
    BY <1>5, <1>6, <2>1
  <2>3. new = [i \in 1 .. Len(pod.containers) |-> new[i]]
    BY <2>1 DEF injectResource
  <2>. HIDE DEF new
  <2>. QED BY <2>1, <2>2, <2>3
<1>8. \A i \in DOMAIN new : new[i].name = pod.containers[i].name
  BY <1>5, <1>6 DEF Containers
<1>9. new[idx].resources = convertToResourceQuantity(t)
  BY <1>3, <1>5, <1>6 DEF Containers
<1>. QED BY <1>3, <1>6, <1>7, <1>8, <1>9 DEF idx

(* A guest that was injected is a Pod with the labels it had, and fits the *)
(* machine they name; its affinity is never the one it came with.          *)
LEMMA InjectedFits ==
    ASSUME NEW pod, IsPod(pod), requiredInjection(pod), ~InjectionPanics(pod), NEW nodes
    PROVE  /\ IsPod(Injected(pod))
           /\ Injected(pod).labels = pod.labels
           /\ Injected(pod).affinity # pod.affinity
           /\ FitsReservation(Injected(pod), nodes)
<1>. DEFINE t == pod.labels.type
            idx == findInjectingTargetContainerIndex(pod)
            required == GenerateAffinityMatchExpression(t)
            new == Injected(pod)
<1>1. t \in MachineType /\ pod.containers # <<>>
  BY DEF IsPod, PodLabels, requiredInjection, InjectionPanics
<1>2. requiredMatchExpressions[t] = required /\ injectedTolerations[t] = GenerateToleration(t)
  BY <1>1 DEF requiredMatchExpressions, injectedTolerations
<1>3. /\ DOMAIN new = {"labels", "containers", "affinity", "tolerations"}
      /\ new.labels = pod.labels
      /\ new.containers = injectResource(t, pod.containers, idx)
      /\ new.affinity = injectPodAffinity(pod.affinity, required)
      /\ new.tolerations = injectPodToleration(pod.tolerations, GenerateToleration(t))
  BY <1>2 DEF Injected, IsPod
<1>. HIDE DEF new
<1>4. /\ DOMAIN new.affinity = {"level", "terms"}
      /\ new.affinity.level = "required"
      /\ AreTerms(new.affinity.terms)
      /\ \E i \in DOMAIN new.affinity.terms : new.affinity.terms[i] = required
      /\ new.affinity # pod.affinity
  BY <1>1, <1>3, AffinityInjected, RequiredIsSequence
<1>5. /\ IsSequence(new.tolerations)
      /\ \A k \in 1 .. 2 : \E j \in DOMAIN new.tolerations :
            new.tolerations[j] = GenerateToleration(t)[k]
  BY <1>1, <1>3, TolerationsInjected DEF IsPod
<1>6. /\ new.containers \in Seq(Containers)
      /\ idx \in DOMAIN new.containers
      /\ new.containers[idx].resources = convertToResourceQuantity(t)
      /\ DOMAIN new.containers = DOMAIN pod.containers
      /\ \A i \in DOMAIN new.containers : new.containers[i].name = pod.containers[i].name
  BY <1>1, <1>3, ResourceInjected
<1>7. IsPod(new)
  BY <1>3, <1>4, <1>5, <1>6 DEF IsPod
<1>8. findInjectingTargetContainerIndex(new) = idx
  <2>. DEFINE Named(p) == {i \in DOMAIN p.containers : p.containers[i].name = p.labels.container}
              Index(name, S) == IF name # "" /\ S # {} THEN CHOOSE i \in S : TRUE ELSE 1
  <2>1. \A p : findInjectingTargetContainerIndex(p) = Index(p.labels.container, Named(p))
    BY DEF findInjectingTargetContainerIndex
  <2>2. Named(new) = Named(pod) /\ new.labels = pod.labels
    BY <1>3, <1>6
  <2>. HIDE DEF Named, Index
  <2>3. Index(new.labels.container, Named(new)) = Index(pod.labels.container, Named(pod))
    BY <2>2
  <2>. QED BY <2>1, <2>3
<1>9. ASSUME NEW node \in nodes, Placeable(GenerateStatefulSet(t), node)
      PROVE  Placeable(new, node)
  <2>1. \E i \in DOMAIN new.affinity.terms : MeetsTerm(node.labels, new.affinity.terms[i])
    <3>1. MeetsTerm(node.labels, required)
      BY <1>9 DEF Placeable, GenerateStatefulSet
    <3>. QED BY <1>4, <3>1
  <2>2. ASSUME NEW taint \in node.taints
        PROVE  \E j \in DOMAIN new.tolerations : Tolerates(new.tolerations[j], taint)
    <3>1. PICK k \in DOMAIN GenerateToleration(t) : Tolerates(GenerateToleration(t)[k], taint)
      BY <1>9, <2>2 DEF Placeable, GenerateStatefulSet
    <3>2. k \in 1 .. 2
      BY <3>1 DEF GenerateToleration
    <3>. QED BY <1>5, <3>1, <3>2
  <2>. QED BY <2>1, <2>2 DEF Placeable
<1>10. FitsReservation(new, nodes)
  <2>1. new.containers[idx].resources = GenerateStatefulSet(t).containers[1].resources
    BY <1>6 DEF GenerateStatefulSet
  <2>. QED BY <1>3, <1>8, <1>9, <2>1 DEF FitsReservation
<1>. QED BY <1>3, <1>4, <1>7, <1>10 DEF new

-----------------------------------------------------------------------------
(***************************************************************************)
(* What becomes of a user's own terms.                                     *)
(***************************************************************************)

(* A requirement whose key is not injected is taken for a duplicate only   *)
(* when its first value is empty.                                          *)
LEMMA DuplicatedByMistake ==
    ASSUME NEW required, NEW e, Duplicated(required, e),
           \A k \in DOMAIN required : required[k].key # e.key
    PROVE  e.values # <<>> /\ e.values[1] = ""
  BY DEF Duplicated, InjectedValue

(* The injection leaves the user's terms in their places, less what is     *)
(* duplicated.                                                             *)
LEMMA TermsInPlace ==
    ASSUME NEW pod, IsPod(pod), requiredInjection(pod), pod.affinity.level = "required",
           NEW i \in DOMAIN pod.affinity.terms
    PROVE  /\ IsSequence(pod.affinity.terms[i])
           /\ Injected(pod).affinity.terms[i]
                = RemoveDuplicated(pod.affinity.terms[i],
                                   GenerateAffinityMatchExpression(pod.labels.type))
<1>. DEFINE old == pod.affinity
            required == GenerateAffinityMatchExpression(pod.labels.type)
<1>1. /\ pod.labels.type \in MachineType
      /\ Len(old.terms) \in Nat /\ i \in 1 .. Len(old.terms) /\ IsSequence(old.terms[i])
  BY DEF IsPod, PodLabels, requiredInjection, AreTerms, IsSequence
<1>2. requiredMatchExpressions[pod.labels.type] = required
  BY <1>1 DEF requiredMatchExpressions
<1>3. Injected(pod).affinity = injectPodAffinity(old, required)
  BY <1>2 DEF Injected, IsPod
<1>. HIDE DEF required
<1>4. injectPodAffinity(old, required).terms[i] = RemoveDuplicated(old.terms[i], required)
  BY <1>1 DEF injectPodAffinity
<1>. QED BY <1>1, <1>3, <1>4 DEF required

(* What is left of a requirement e of the user's in a term that became new *)
(* when machine type t was injected: all of it, or its key is injected, or *)
(* its first value is empty.                                               *)
StillRequired(e, new, t) ==
    LET required == GenerateAffinityMatchExpression(t)
    IN  \/ \E k \in DOMAIN required : required[k].key = e.key
        \/ e.values # <<>> /\ e.values[1] = ""
        \/ \E k \in DOMAIN new : new[k] = e

(* Every requirement of the user's, in a term of any length, is still in   *)
(* its term after the injection, but those on injected keys and those with *)
(* an empty first value.                                                   *)
THEOREM RequirementsKept ==
    ASSUME NEW pod, IsPod(pod), requiredInjection(pod), pod.affinity.level = "required"
    PROVE  \A i \in DOMAIN pod.affinity.terms : \A j \in DOMAIN pod.affinity.terms[i] :
              StillRequired(pod.affinity.terms[i][j], Injected(pod).affinity.terms[i],
                            pod.labels.type)
<1>. SUFFICES ASSUME NEW i \in DOMAIN pod.affinity.terms, NEW j \in DOMAIN pod.affinity.terms[i]
              PROVE  StillRequired(pod.affinity.terms[i][j], Injected(pod).affinity.terms[i],
                                   pod.labels.type)
  OBVIOUS
<1>. DEFINE e == pod.affinity.terms[i][j]
            required == GenerateAffinityMatchExpression(pod.labels.type)
<1>1. CASE Duplicated(required, e)
  BY <1>1, DuplicatedByMistake DEF StillRequired
<1>2. CASE ~Duplicated(required, e)
  <2>1. /\ IsSequence(pod.affinity.terms[i])
        /\ Injected(pod).affinity.terms[i] = RemoveDuplicated(pod.affinity.terms[i], required)
    BY TermsInPlace
  <2>. HIDE DEF required
  <2>2. \E k \in DOMAIN RemoveDuplicated(pod.affinity.terms[i], required) :
           RemoveDuplicated(pod.affinity.terms[i], required)[k] = e
    BY <1>2, <2>1, RequirementKept
  <2>. QED BY <2>1, <2>2 DEF StillRequired
<1>. QED BY <1>1, <1>2

(* What a shortened term asks of a Node: still everything that was not     *)
(* duplicated, and nothing that was not asked before.                      *)
THEOREM ShortenedTermAsksTheRest ==
    ASSUME NEW term, IsSequence(term), NEW required, NEW labels
    PROVE  LET new == RemoveDuplicated(term, required)
           IN  /\ MeetsTerm(labels, new) =>
                     \A j \in DOMAIN term :
                        Duplicated(required, term[j]) \/ Meets(labels, term[j])
               /\ MeetsTerm(labels, term) /\ new # <<>> => MeetsTerm(labels, new)
<1>. DEFINE new == RemoveDuplicated(term, required)
<1>1. \A k \in DOMAIN new : \E j \in DOMAIN term : new[k] = term[j]
  BY RequirementsOnlyRemoved
<1>2. \A j \in DOMAIN term : Duplicated(required, term[j]) \/ \E k \in DOMAIN new : new[k] = term[j]
  BY RequirementKept
<1>. HIDE DEF new
<1>3. MeetsTerm(labels, new) =>
         \A j \in DOMAIN term : Duplicated(required, term[j]) \/ Meets(labels, term[j])
  BY <1>2 DEF MeetsTerm
<1>4. MeetsTerm(labels, term) /\ new # <<>> => MeetsTerm(labels, new)
  BY <1>1 DEF MeetsTerm
<1>. QED BY <1>3, <1>4 DEF new

(* The removals of a term with a single duplicate: none before it, one     *)
(* from there on.                                                          *)
LEMMA SingleRemoval ==
    ASSUME NEW term, IsSequence(term), NEW required, NEW d \in DOMAIN term,
           \A j \in DOMAIN term : Duplicated(required, term[j]) <=> j = d,
           NEW k \in 0 .. Len(term)
    PROVE  Removals(term, required)[k] = IF k < d THEN 0 ELSE 1
<1>. DEFINE n == Len(term)
            r == Removals(term, required)
            S == {l \in Nat : l <= n => r[l] = IF l < d THEN 0 ELSE 1}
<1>1. /\ n \in Nat /\ DOMAIN term = 1 .. n /\ d \in 1 .. n
      /\ r[0] = 0 /\ \A l \in 1 .. n : r[l] = Turn(term, required, l, r[l - 1])
  BY RemovalsByTurns DEF IsSequence
<1>. HIDE DEF r
<1>2. 0 \in S
  BY <1>1
<1>3. ASSUME NEW l \in Nat, l \in S PROVE l + 1 \in S
  <2>. SUFFICES ASSUME l + 1 <= n PROVE r[l + 1] = IF l + 1 < d THEN 0 ELSE 1
    OBVIOUS
  <2>1. /\ l + 1 \in 1 .. n /\ (l + 1) - 1 = l
        /\ r[l] = IF l < d THEN 0 ELSE 1
    BY <1>1, <1>3
  <2>2. r[l + 1] = Turn(term, required, l + 1, r[l])
    BY <1>1, <2>1
  <2>3. CASE l < d
    <3>1. Shifted(term, l + 1, 0) = term[l + 1]
      BY <1>1, <2>1 DEF Shifted
    <3>2. Duplicated(required, term[l + 1]) <=> l + 1 = d
      BY <1>1, <2>1
    <3>3. r[l + 1] = IF l + 1 = d THEN 1 ELSE 0
      BY <2>1, <2>2, <2>3, <3>1, <3>2 DEF Turn
    <3>. QED BY <1>1, <2>1, <2>3, <3>3
  <2>4. CASE ~(l < d)
    <3>. DEFINE x == IF l + 2 <= n THEN l + 2 ELSE n
    <3>1. Shifted(term, l + 1, 1) = term[x]
      BY <1>1, <2>1 DEF Shifted
    <3>2. x \in 1 .. n /\ x # d
      BY <1>1, <2>1, <2>4
    <3>3. ~Duplicated(required, term[x])
      BY <1>1, <3>2
    <3>4. r[l] = 1
      BY <2>1, <2>4
    <3>5. r[l + 1] = 1
      BY <2>2, <3>1, <3>3, <3>4 DEF Turn
    <3>. QED BY <1>1, <2>1, <2>4, <3>5
  <2>. QED BY <2>3, <2>4
<1>. HIDE DEF S
<1>4. k \in S
  BY <1>1, <1>2, <1>3, InductionOverSet
<1>. QED BY <1>1, <1>4 DEF S, r

(* The loop does what it is for when a term has a single duplicate: just   *)
(* that is cut out, and what follows moves up.                             *)
THEOREM SingleDuplicateCutOut ==
    ASSUME NEW term, IsSequence(term), NEW required, NEW d \in DOMAIN term,
           \A j \in DOMAIN term : Duplicated(required, term[j]) <=> j = d
    PROVE  RemoveDuplicated(term, required)
              = [k \in 1 .. Len(term) - 1 |-> IF k < d THEN term[k] ELSE term[k + 1]]
<1>. DEFINE n == Len(term)
            r == Removals(term, required)
<1>1. /\ n \in Nat /\ d \in 1 .. n
      /\ \A k \in 0 .. n : r[k] = IF k < d THEN 0 ELSE 1
  BY SingleRemoval DEF IsSequence
<1>2. r[n] # 0
  BY <1>1
<1>3. RemoveDuplicated(term, required) = [k \in 1 .. n - 1 |-> Shifted(term, k, r[k])]
  BY <1>2 DEF RemoveDuplicated
<1>. HIDE DEF r
<1>4. ASSUME NEW k \in 1 .. n - 1
      PROVE  Shifted(term, k, r[k]) = IF k < d THEN term[k] ELSE term[k + 1]
  <2>1. CASE k < d
    BY <1>1, <2>1 DEF Shifted
  <2>2. CASE ~(k < d)
    BY <1>1, <2>2 DEF Shifted
  <2>. QED BY <2>1, <2>2
<1>. QED BY <1>3, <1>4

(* A guest that brings no required affinity of its own is placed on Nodes  *)
(* of its machine group and type only, and only on those that are marked   *)
(* ready.                                                                  *)
THEOREM OnlyOnReadyMachines ==
    ASSUME NEW pod, IsPod(pod), requiredInjection(pod), pod.affinity.level # "required",
           NEW node, Placeable(Injected(pod), node)
    PROVE  LET type == GenerateMachineTypeLabelTaintKey(pod.labels.type)
           IN  /\ type \in DOMAIN node.labels /\ node.labels[type] = MachineGroup
               /\ MachineStatusKey \in DOMAIN node.labels
               /\ node.labels[MachineStatusKey] = "ready"
<1>. DEFINE t == pod.labels.type
            required == GenerateAffinityMatchExpression(t)
            new == Injected(pod).affinity
<1>1. t \in MachineType
  BY DEF IsPod, PodLabels, requiredInjection
<1>2. requiredMatchExpressions[t] = required
  BY <1>1 DEF requiredMatchExpressions
<1>3. new = injectPodAffinity(pod.affinity, required)
  BY <1>2 DEF Injected, IsPod
<1>4. new.level = "required" /\ new.terms = [i \in 1 .. 1 |-> required]
  BY <1>3 DEF injectPodAffinity
<1>5. MeetsTerm(node.labels, required)
  BY <1>4 DEF Placeable
<1>6. /\ required[1] = Requirement(GenerateMachineTypeLabelTaintKey(t), "In", <<MachineGroup>>)
      /\ required[2] = Requirement(MachineStatusKey, "In", <<"ready">>)
      /\ 1 \in DOMAIN required /\ 2 \in DOMAIN required
  BY DEF GenerateAffinityMatchExpression
<1>. HIDE DEF required
<1>7. \A key, value : Meets(node.labels, Requirement(key, "In", <<value>>)) =>
                         key \in DOMAIN node.labels /\ node.labels[key] = value
  BY DEF Meets, Requirement
<1>8. Meets(node.labels, required[1]) /\ Meets(node.labels, required[2])
  BY <1>5, <1>6 DEF MeetsTerm
<1>. QED BY <1>6, <1>7, <1>8
=============================================================================
