-------------------------- MODULE PodInjectorProofs --------------------------
(***************************************************************************)
(* Proofs about PodInjector: its invariant, that every guest fits the      *)
(* machine it asks for and still asks for what its user required, and that *)
(* it implements GuestPods, for any names, machine types, manifests,       *)
(* clients and Nodes.                                                      *)
(***************************************************************************)
EXTENDS PodInjector, PodInjectionProofs

-----------------------------------------------------------------------------
(***************************************************************************)
(* The inductive invariant.                                                *)
(***************************************************************************)

(* What request r, a request of the client's while the Pods are st, has    *)
(* come to.  The Pod of a guest that is to be stored is what the injection *)
(* makes of the one the client sent.  An update that is still based on the *)
(* stored version differs from it in its labels only, until a guest is     *)
(* injected: from then on its affinity is another one, and the API server  *)
(* will refuse it.                                                         *)
Sound(r, st) ==
    LET updates == r.operation = "update" /\ r.current
    IN  /\ r # NoRequest
        /\ IsRequest(r)
        /\ updates => st[r.name] # NoPod
        /\ updates /\ r.step # "store" => r.pod.affinity = st[r.name].affinity
        /\ r.step # "store" => r.pod = r.object
        /\ r.step = "find" => requiredInjection(r.pod)
        /\ r.step = "store" /\ requiredInjection(r.pod) =>
              /\ IsPod(r.object) /\ requiredInjection(r.object)
              /\ r.pod = Injected(r.object) /\ r.pod.labels = r.object.labels
              /\ FitsReservation(r.pod, Nodes)
              /\ updates => r.pod.affinity # st[r.name].affinity

IInv ==
    /\ TypeOK
    /\ GuestsFitReservations
    /\ \A c \in Client : Active(c) => Sound(request[c], store)

(* The invariant is about the requests and what they find.                 *)
LEMMA RequestsSound ==
    IInv <=> /\ TypeOK
             /\ GuestsFitReservations
             /\ \A c \in Client : request[c] = NoRequest \/ Sound(request[c], store)
  BY DEF IInv, Active

(* A request may go on as any sound request.                               *)
LEMMA ProceedPreserves ==
    ASSUME IInv, NEW c \in Client, NEW r, r = NoRequest \/ Sound(r, store),
           request' = [request EXCEPT ![c] = r],
           UNCHANGED <<store, cached, watch, offered>>,
           budget' \in 0 .. MaxDisturbances
    PROVE  IInv'
<1>1. \A d \in Client : request'[d] = NoRequest \/ Sound(request'[d], store)
  BY RequestsSound DEF TypeOK, IInv
<1>2. \A d \in Client : request'[d] # NoRequest => IsRequest(request'[d])
  BY <1>1 DEF Sound
<1>3. TypeOK'
  BY <1>2 DEF IInv, TypeOK, Stored, Active
<1>4. GuestsFitReservations'
  BY DEF IInv, GuestsFitReservations, IsGuest
<1>5. \A d \in Client : Active(d)' => Sound(request'[d], store')
  BY <1>1 DEF Active
<1>. QED BY <1>3, <1>4, <1>5 DEF IInv

(* A stored Pod may become any Pod that fits when it is a guest, or none.  *)
LEMMA WritePreserves ==
    ASSUME IInv, NEW n \in Name, NEW p, NEW requests,
           p # NoPod => IsPod(p),
           IsGuest(p) => FitsReservation(p, Nodes),
           \A c \in Client : requests[c] = NoRequest \/ Sound(requests[c], store),
           Write(n, p, requests),
           budget' \in 0 .. MaxDisturbances
    PROVE  IInv'
<1>1. /\ DOMAIN store = Name
      /\ store' = [store EXCEPT ![n] = p]
      /\ UNCHANGED <<cached, offered>>
  BY DEF IInv, TypeOK, Write
<1>2. \A m \in Name : store'[m] = IF m = n THEN p ELSE store[m]
  BY <1>1
<1>3. ASSUME NEW c \in Client PROVE request'[c] = NoRequest \/ Sound(request'[c], store')
  <2>1. CASE requests[c] = NoRequest
    BY <2>1 DEF Write
  <2>2. CASE requests[c] # NoRequest /\ requests[c].name = n
    <3>. DEFINE r == requests[c]
    <3>1. request'[c] = [r EXCEPT !.current = FALSE]
      BY <2>2 DEF Write
    <3>. QED BY <2>2, <3>1 DEF Sound, IsRequest
  <2>3. CASE requests[c] # NoRequest /\ requests[c].name # n
    <3>1. request'[c] = requests[c] /\ Sound(requests[c], store)
      BY <2>3 DEF Write
    <3>2. requests[c].name \in Name /\ store'[requests[c].name] = store[requests[c].name]
      BY <1>2, <2>3, <3>1 DEF Sound, IsRequest
    <3>. QED BY <3>1, <3>2 DEF Sound
  <2>. QED BY <2>1, <2>2, <2>3
<1>4. GuestsFitReservations'
  BY <1>2 DEF IInv, GuestsFitReservations
<1>5. TypeOK'
  <2>1. watch' \in [Name -> Seq(BOOLEAN)]
    BY DEF IInv, TypeOK, Write
  <2>2. ASSUME NEW m \in Name
        PROVE  Stored(m)' = IF watch'[m] = <<>> THEN m \in cached' ELSE watch'[m][Len(watch'[m])]
    <3>1. CASE m # n \/ Stored(n) = (p # NoPod)
      <4>1. watch'[m] = watch[m]
        BY <3>1 DEF IInv, TypeOK, Write
      <4>2. Stored(m)' = Stored(m)
        BY <1>2, <3>1 DEF Stored
      <4>. QED BY <1>1, <4>1, <4>2 DEF IInv, TypeOK
    <3>2. CASE m = n /\ Stored(n) # (p # NoPod)
      <4>1. watch[n] \in Seq(BOOLEAN) /\ watch'[n] = Append(watch[n], p # NoPod)
        BY <3>2 DEF IInv, TypeOK, Write
      <4>2. watch'[n] # <<>> /\ watch'[n][Len(watch'[n])] = (p # NoPod)
        BY <4>1
      <4>3. Stored(n)' = (p # NoPod)
        BY <1>2 DEF Stored
      <4>. QED BY <3>2, <4>2, <4>3
    <3>. QED BY <3>1, <3>2
  <2>3. DOMAIN request' = Client
    BY DEF Write
  <2>4. \A c \in Client : Active(c)' => IsRequest(request'[c])
    BY <1>3 DEF Active, Sound
  <2>5. DOMAIN store' = Name /\ \A m \in Name : Stored(m)' => IsPod(store'[m])
    BY <1>1, <1>2 DEF IInv, TypeOK, Stored
  <2>. QED BY <1>1, <2>1, <2>2, <2>3, <2>4, <2>5 DEF IInv, TypeOK
<1>. QED BY <1>3, <1>4, <1>5 DEF IInv, Active

-----------------------------------------------------------------------------
(***************************************************************************)
(* Every step preserves it.                                                *)
(***************************************************************************)

(* A Pod sent for creation is a sound request.                             *)
LEMMA CreationSound ==
    ASSUME NEW n \in Name, NEW p, IsPod(p)
    PROVE  Sound(Review("create", n, p), store)
  BY DEF Sound, Review, IsRequest, Steps, NoRequest

LEMMA CreatePreserves ==
    ASSUME IInv, NEW c \in Client, Create(c)
    PROVE  IInv'
<1>1. PICK n \in Name, p \in Manifests \cup {store[m] : m \in {k \in Name : Stored(k)}} :
         Send(c, Review("create", n, p))
  BY DEF Create
<1>2. IsPod(p)
  BY PodsAssumption DEF IInv, TypeOK
<1>3. Sound(Review("create", n, p), store)
  BY <1>2, CreationSound
<1>4. budget' \in 0 .. MaxDisturbances
  BY MaxAssumption DEF Create, Disturb, IInv, TypeOK
<1>. QED BY <1>1, <1>3, <1>4, ProceedPreserves DEF Send

LEMMA UpdatePreserves ==
    ASSUME IInv, NEW c \in Client, Update(c)
    PROVE  IInv'
<1>1. PICK n \in Name, l \in Labels :
         /\ Stored(n)
         /\ Send(c, Review("update", n, [store[n] EXCEPT !.labels = l]))
  BY DEF Update
<1>. DEFINE p == [store[n] EXCEPT !.labels = l]
<1>2. IsPod(store[n]) /\ l \in PodLabels
  BY <1>1, PodsAssumption DEF IInv, TypeOK
<1>3. IsPod(p) /\ p.affinity = store[n].affinity
  BY <1>2 DEF IsPod
<1>. HIDE DEF p
<1>4. Sound(Review("update", n, p), store)
  BY <1>1, <1>3 DEF Sound, Review, IsRequest, Steps, NoRequest, Stored
<1>5. budget' \in 0 .. MaxDisturbances
  BY MaxAssumption DEF Update, Disturb, IInv, TypeOK
<1>. QED BY <1>1, <1>4, <1>5, ProceedPreserves DEF Send, p

LEMMA RecreatePreserves ==
    ASSUME IInv, Recreate
    PROVE  IInv'
<1>1. Sound(Review("create", OwnedName, Template), store)
  BY CreationSound, ClientAssumption, PodsAssumption
<1>. QED BY <1>1, ClientAssumption, ProceedPreserves DEF Recreate, Send, IInv, TypeOK

LEMMA HandlePreserves ==
    ASSUME IInv, NEW c \in Client, Handle(c)
    PROVE  IInv'
<1>. DEFINE r == request[c]
<1>1. Sound(r, store) /\ r.step = "review" /\ budget \in 0 .. MaxDisturbances
  BY DEF Handle, IInv, TypeOK
<1>2. CASE ~requiredInjection(r.pod) /\ Proceed(c, [r EXCEPT !.step = "store"])
  <2>1. Sound([r EXCEPT !.step = "store"], store)
    BY <1>1, <1>2 DEF Sound, IsRequest, Steps, NoRequest
  <2>. QED BY <1>1, <1>2, <2>1, ProceedPreserves DEF Proceed
<1>3. CASE requiredInjection(r.pod) /\ Proceed(c, [r EXCEPT !.step = "find"])
  <2>1. Sound([r EXCEPT !.step = "find"], store)
    BY <1>1, <1>3 DEF Sound, IsRequest, Steps, NoRequest
  <2>. QED BY <1>1, <1>3, <2>1, ProceedPreserves DEF Proceed
<1>4. CASE Refuse(c)
  BY <1>1, <1>4, ProceedPreserves DEF Refuse, Proceed
<1>. QED BY <1>2, <1>3, <1>4 DEF Handle

LEMMA InjectPreserves ==
    ASSUME IInv, NEW c \in Client, injectToPod(c)
    PROVE  IInv'
<1>. DEFINE r == request[c]
<1>1. Sound(r, store) /\ r.step = "find" /\ budget \in 0 .. MaxDisturbances
  BY DEF injectToPod, IInv, TypeOK
<1>2. CASE /\ ~InjectionPanics(r.pod)
           /\ Proceed(c, [r EXCEPT !.step = "store", !.pod = Injected(r.pod)])
  <2>. DEFINE new == [r EXCEPT !.step = "store", !.pod = Injected(r.pod)]
  <2>1. IsPod(r.pod) /\ requiredInjection(r.pod) /\ r.pod = r.object
    BY <1>1 DEF Sound, IsRequest
  <2>2. /\ IsPod(Injected(r.pod))
        /\ Injected(r.pod).labels = r.pod.labels
        /\ Injected(r.pod).affinity # r.pod.affinity
        /\ FitsReservation(Injected(r.pod), Nodes)
    BY <1>2, <2>1, InjectedFits DEF Injected, IsPod
  <2>3. /\ new.step = "store" /\ new.pod = Injected(r.pod) /\ new.operation = r.operation
        /\ new.name = r.name /\ new.current = r.current /\ new.object = r.object
    BY <1>1 DEF Sound, IsRequest
  <2>. HIDE DEF new
  <2>4. Sound(new, store)
    BY <1>1, <2>1, <2>2, <2>3 DEF Sound, IsRequest, Steps, NoRequest
  <2>. QED BY <1>1, <1>2, <2>4, ProceedPreserves DEF Proceed, new
<1>3. CASE Refuse(c)
  BY <1>1, <1>3, ProceedPreserves DEF Refuse, Proceed
<1>. QED BY <1>2, <1>3 DEF injectToPod

LEMMA StorePreserves ==
    ASSUME IInv, NEW c \in Client, Store(c)
    PROVE  IInv'
<1>. DEFINE r == request[c]
            others == [request EXCEPT ![c] = NoRequest]
<1>1. /\ Sound(r, store) /\ r.step = "store" /\ budget' \in 0 .. MaxDisturbances
      /\ Write(r.name, r.pod, others)
  BY DEF Store, IInv, TypeOK
<1>2. \A d \in Client : others[d] = NoRequest \/ Sound(others[d], store)
  BY RequestsSound DEF IInv, TypeOK
<1>3. r.name \in Name /\ IsPod(r.pod)
  BY <1>1 DEF Sound, IsRequest
<1>4. IsGuest(r.pod) => FitsReservation(r.pod, Nodes)
  BY <1>1 DEF Sound, IsGuest
<1>. HIDE DEF r, others
<1>. QED BY <1>1, <1>2, <1>3, <1>4, WritePreserves

LEMMA RefuseToStorePreserves ==
    ASSUME IInv, NEW c \in Client, RefuseToStore(c)
    PROVE  IInv'
  BY ProceedPreserves DEF RefuseToStore, Refuse, Proceed, IInv, TypeOK

LEMMA DeletePreserves ==
    ASSUME IInv, NEW n \in Name, Delete(n)
    PROVE  IInv'
<1>1. Write(n, NoPod, request)
  BY DEF Delete
<1>2. budget' \in 0 .. MaxDisturbances
  BY MaxAssumption DEF Delete, Disturb, IInv, TypeOK
<1>3. ~IsGuest(NoPod)
  BY DEF IsGuest
<1>. QED BY <1>1, <1>2, <1>3, RequestsSound, WritePreserves

LEMMA DeliverPodPreserves ==
    ASSUME IInv, NEW n \in Name, DeliverPod(n)
    PROVE  IInv'
<1>1. watch[n] \in Seq(BOOLEAN) /\ watch[n] # <<>> /\ DOMAIN watch = Name
  BY DEF DeliverPod, IInv, TypeOK
<1>2. watch' \in [Name -> Seq(BOOLEAN)]
  <2>1. Tail(watch[n]) \in Seq(BOOLEAN)
    BY <1>1, HeadTailProperties
  <2>. QED BY <2>1 DEF DeliverPod, IInv, TypeOK
<1>3. ASSUME NEW m \in Name
      PROVE  Stored(m) = IF watch'[m] = <<>> THEN m \in cached' ELSE watch'[m][Len(watch'[m])]
  <2>1. CASE m # n
    <3>1. watch'[m] = watch[m] /\ (m \in cached' <=> m \in cached)
      BY <2>1 DEF DeliverPod, IInv, TypeOK
    <3>. QED BY <3>1 DEF IInv, TypeOK
  <2>2. CASE m = n
    <3>. DEFINE w == watch[n]
    <3>1. watch'[n] = Tail(w) /\ w \in Seq(BOOLEAN) /\ w # <<>>
      BY <1>1 DEF DeliverPod
    <3>2. n \in cached' <=> Head(w)
      BY DEF DeliverPod
    <3>3. Stored(n) = w[Len(w)]
      BY <1>1 DEF IInv, TypeOK
    <3>. HIDE DEF w
    <3>. /\ Tail(w) \in Seq(BOOLEAN)
         /\ Len(w) \in Nat \ {0}
         /\ Len(Tail(w)) = Len(w) - 1
         /\ \A i \in 1 .. Len(Tail(w)) : Tail(w)[i] = w[i + 1]
         /\ Head(w) = w[1]
      BY <3>1, HeadTailProperties
    <3>4. CASE Len(w) = 1
      <4>1. \A v \in Seq(BOOLEAN) : v # <<>> => Len(v) \in Nat \ {0}
        BY EmptySeq
      <4>2. Tail(w) = <<>>
        <5>1. Len(Tail(w)) = 0
          BY <3>4
        <5>2. Tail(w) # <<>> => Len(Tail(w)) \in Nat \ {0}
          BY <4>1
        <5>. QED BY <5>1, <5>2
      <4>3. Stored(n) <=> n \in cached'
        BY <3>2, <3>3, <3>4
      <4>. QED BY <2>2, <3>1, <4>2, <4>3 DEF Stored
    <3>5. CASE Len(w) # 1
      <4>1. Tail(w) # <<>> /\ Len(Tail(w)) \in 1 .. Len(Tail(w))
        BY <3>5, EmptySeq
      <4>2. Tail(w)[Len(Tail(w))] = w[Len(Tail(w)) + 1] /\ Len(Tail(w)) + 1 = Len(w)
        BY <4>1
      <4>. QED BY <2>2, <3>1, <3>3, <4>1, <4>2
    <3>. QED BY <3>4, <3>5
  <2>. QED BY <2>1, <2>2
<1>4. TypeOK'
  BY <1>2, <1>3 DEF DeliverPod, IInv, TypeOK, Stored, Active
<1>. QED BY <1>4 DEF DeliverPod, IInv, GuestsFitReservations, Active

LEMMA ChangeOfferPreserves ==
    ASSUME IInv, ChangeOffer
    PROVE  IInv'
<1>1. TypeOK'
  BY MaxAssumption DEF ChangeOffer, Disturb, IInv, TypeOK, Stored, Active
<1>. QED BY <1>1 DEF ChangeOffer, IInv, GuestsFitReservations, Active

LEMMA RestartPreserves ==
    ASSUME IInv, Restart
    PROVE  IInv'
<1>1. \A c \in Client : request'[c] = NoRequest \/ Sound(request'[c], store)
  BY RequestsSound DEF Restart
<1>2. watch' \in [Name -> Seq(BOOLEAN)]
  BY DEF Restart
<1>3. \A n \in Name : Stored(n) <=> n \in cached'
  BY DEF Restart
<1>4. \A n \in Name : Stored(n)' = IF watch'[n] = <<>> THEN n \in cached'
                                   ELSE watch'[n][Len(watch'[n])]
  BY <1>3 DEF Restart, Stored
<1>5. \A c \in Client : request'[c] # NoRequest => IsRequest(request'[c])
  BY <1>1 DEF Sound
<1>6. TypeOK'
  BY <1>2, <1>4, <1>5, MaxAssumption DEF Restart, Disturb, IInv, TypeOK, Stored, Active
<1>. QED BY <1>1, <1>6 DEF Restart, IInv, GuestsFitReservations, Active

(* No step of the controller, of a client or of the API server, and no     *)
(* failure breaks the invariant.                                           *)
LEMMA StepPreserves ==
    ASSUME IInv, [Next]_vars
    PROVE  IInv'
<1>1. CASE Next
  BY <1>1, CreatePreserves, UpdatePreserves, RecreatePreserves, HandlePreserves, InjectPreserves,
     StorePreserves, RefuseToStorePreserves, DeletePreserves, DeliverPodPreserves,
     ChangeOfferPreserves, RestartPreserves
     DEF Next, RequestStep
<1>2. CASE UNCHANGED vars
  BY <1>2 DEF vars, IInv, TypeOK, GuestsFitReservations, Stored, Active
<1>. QED BY <1>1, <1>2

LEMMA InitHolds ==
    ASSUME Init
    PROVE  IInv
<1>1. \A n \in Name : ~IsGuest(store[n]) /\ ~Stored(n)
  BY DEF Init, IsGuest, Stored
<1>2. \A c \in Client : ~Active(c)
  BY DEF Init, Active
<1>3. /\ DOMAIN store = Name
      /\ watch \in [Name -> Seq(BOOLEAN)]
      /\ \A n \in Name : watch[n] = <<>> /\ n \notin cached
      /\ DOMAIN request = Client
      /\ cached \subseteq Name /\ offered \in Offers /\ budget \in 0 .. MaxDisturbances
  BY MaxAssumption DEF Init
<1>4. \A n \in Name : Stored(n) = (n \in cached)
  BY <1>1, <1>3 DEF Stored
<1>. QED BY <1>1, <1>2, <1>3, <1>4 DEF IInv, TypeOK, GuestsFitReservations

(* The invariant holds in every reachable state, for any clients, names,   *)
(* manifests, machine types and Nodes.                                     *)
THEOREM Inductive == Spec => []IInv
<1>. QED BY InitHolds, StepPreserves, PTL DEF Spec

(* The state stays well typed, and the webhook's cache with what the watch *)
(* has yet to deliver agrees with the stored Pods.                         *)
THEOREM TypeCorrect == Spec => []TypeOK
<1>1. IInv => TypeOK
  BY DEF IInv
<1>. QED BY <1>1, Inductive, PTL

(* Every stored guest fits the machine its labels name.                    *)
THEOREM GuestsFit == Spec => []GuestsFitReservations
<1>1. IInv => GuestsFitReservations
  BY DEF IInv
<1>. QED BY <1>1, Inductive, PTL

(* Whatever node selector terms users write, what they require of Nodes    *)
(* is still required, but for injected keys and empty values, of every     *)
(* guest that leaves the webhook: it leaves with the injection of what the *)
(* client sent, and RequirementsKept is about that.                        *)
THEOREM RequirementsOfUsersKept == Spec => []UserRequirementsKept
<1>1. ASSUME IInv PROVE UserRequirementsKept
  <2>1. ASSUME NEW c \in Client, Active(c), request[c].step = "store",
               requiredInjection(request[c].pod), request[c].object.affinity.level = "required"
        PROVE  \A i \in DOMAIN request[c].object.affinity.terms :
                  \A j \in DOMAIN request[c].object.affinity.terms[i] :
                     StillRequired(request[c].object.affinity.terms[i][j],
                                   request[c].pod.affinity.terms[i], request[c].pod.labels.type)
    <3>. DEFINE object == request[c].object
                pod == request[c].pod
    <3>1. /\ IsPod(object) /\ requiredInjection(object) /\ object.affinity.level = "required"
          /\ pod = Injected(object) /\ pod.labels = object.labels
      BY <1>1, <2>1 DEF IInv, Sound
    <3>. HIDE DEF object, pod
    <3>2. \A i \in DOMAIN object.affinity.terms : \A j \in DOMAIN object.affinity.terms[i] :
             StillRequired(object.affinity.terms[i][j], Injected(object).affinity.terms[i],
                           object.labels.type)
      BY <3>1, RequirementsKept
    <3>. QED BY <3>1, <3>2, Zenon DEF object, pod
  <2>. QED BY <2>1, Zenon DEF UserRequirementsKept, StillRequired
<1>2. IInv => UserRequirementsKept
  BY <1>1
<1>. QED BY <1>2, Inductive, PTL

-----------------------------------------------------------------------------
(***************************************************************************)
(* The refinement: the stored guests are those of GuestPods.               *)
(***************************************************************************)
guestsBar == [n \in Name |-> IF IsGuest(store[n]) THEN store[n] ELSE NoPod]

(* GuestPods means the same by its notions.                                *)
LEMMA SameNotions ==
    /\ Guests!NoPod = NoPod
    /\ \A p : Guests!FitsReservation(p, Nodes) <=> FitsReservation(p, Nodes)
<1>1. Guests!NoPod = NoPod
  BY DEF Guests!NoPod, NoPod
<1>2. \A t : Guests!GenerateStatefulSet(t) = GenerateStatefulSet(t)
  BY DEF Guests!GenerateStatefulSet, GenerateStatefulSet,
         Guests!GenerateAffinityMatchExpression, GenerateAffinityMatchExpression,
         Guests!GenerateToleration, GenerateToleration, Guests!Toleration, Toleration,
         Guests!Requirement, Requirement, Guests!getGPUSelector, getGPUSelector,
         Guests!convertToResourceQuantity, convertToResourceQuantity,
         Guests!GenerateMachineTypeLabelTaintKey, GenerateMachineTypeLabelTaintKey,
         Guests!MachineStatusKey, MachineStatusKey
<1>3. \A p, node : Guests!Placeable(p, node) <=> Placeable(p, node)
  BY DEF Guests!Placeable, Placeable, Guests!MeetsTerm, MeetsTerm, Guests!Meets, Meets,
         Guests!Tolerates, Tolerates
<1>4. \A p : Guests!findInjectingTargetContainerIndex(p) = findInjectingTargetContainerIndex(p)
  BY DEF Guests!findInjectingTargetContainerIndex, findInjectingTargetContainerIndex
<1>. QED BY <1>1, <1>2, <1>3, <1>4 DEF Guests!FitsReservation, FitsReservation

(* A write changes one guest at most.                                      *)
LEMMA WriteChangesOne ==
    ASSUME IInv, NEW n \in Name, NEW p, NEW requests, Write(n, p, requests)
    PROVE  guestsBar' = [guestsBar EXCEPT ![n] = IF IsGuest(p) THEN p ELSE NoPod]
<1>1. \A m \in Name : store'[m] = IF m = n THEN p ELSE store[m]
  BY DEF Write, IInv, TypeOK
<1>2. \A m \in Name : guestsBar'[m] = IF m = n THEN IF IsGuest(p) THEN p ELSE NoPod
                                      ELSE guestsBar[m]
  BY <1>1 DEF guestsBar
<1>. QED BY <1>2 DEF guestsBar

(* A guest that goes is let go, and a Pod that is none concerns no one.    *)
LEMMA LeaveOrStutter ==
    ASSUME IInv, NEW n \in Name, guestsBar' = [guestsBar EXCEPT ![n] = NoPod]
    PROVE  Guests!Next \/ UNCHANGED guestsBar
<1>1. CASE guestsBar[n] = NoPod
  BY <1>1 DEF guestsBar
<1>2. CASE guestsBar[n] # NoPod
  <2>1. Guests!Leave(n)
    BY <1>2, SameNotions DEF Guests!Leave, guestsBar
  <2>. QED BY <2>1 DEF Guests!Next
<1>. QED BY <1>1, <1>2

(* A guest that comes, and fits, is admitted.                              *)
LEMMA Admitted ==
    ASSUME NEW n \in Name, NEW p, p # NoPod, FitsReservation(p, Nodes), guestsBar[n] = NoPod,
           guestsBar' = [guestsBar EXCEPT ![n] = p]
    PROVE  Guests!Next
<1>1. guestsBar'[n] = p
  BY DEF guestsBar
<1>2. Guests!Admit(n)
  BY <1>1, SameNotions DEF Guests!Admit, guestsBar
<1>. QED BY <1>2 DEF Guests!Next

(* A request that stores a guest admits it: no guest of its name is there  *)
(* before, for an update of a guest is known by its affinity and refused.  *)
LEMMA StoreRefines ==
    ASSUME IInv, NEW c \in Client, Store(c)
    PROVE  Guests!Next \/ UNCHANGED guestsBar
<1>. DEFINE r == request[c]
            n == r.name
            others == [request EXCEPT ![c] = NoRequest]
<1>1. Sound(r, store) /\ r.step = "store" /\ Acceptable(r) /\ Write(n, r.pod, others)
  BY DEF Store, IInv
<1>2. n \in Name /\ r.operation \in {"create", "update"}
  BY <1>1 DEF Sound, IsRequest
<1>. HIDE DEF r, others
<1>3. guestsBar' = [guestsBar EXCEPT ![n] = IF IsGuest(r.pod) THEN r.pod ELSE NoPod]
  BY <1>1, <1>2, WriteChangesOne
<1>4. CASE IsGuest(r.pod)
  <2>1. r.operation = "create"
    BY <1>1, <1>2, <1>4 DEF Sound, Acceptable, SpecKept, IsGuest
  <2>2. guestsBar[n] = NoPod
    BY <1>1, <1>2, <2>1 DEF Acceptable, Stored, guestsBar, IsGuest
  <2>3. r.pod # NoPod /\ FitsReservation(r.pod, Nodes)
    BY <1>1, <1>4 DEF Sound, IsGuest
  <2>. QED BY <1>2, <1>3, <1>4, <2>2, <2>3, Admitted
<1>5. CASE ~IsGuest(r.pod)
  BY <1>2, <1>3, <1>5, LeaveOrStutter
<1>. QED BY <1>4, <1>5

LEMMA StepRefines ==
    ASSUME IInv, [Next]_vars
    PROVE  [Guests!Next]_guestsBar
<1>1. CASE UNCHANGED store
  BY <1>1 DEF guestsBar
<1>2. CASE \E c \in Client : Store(c)
  BY <1>2, StoreRefines
<1>3. CASE \E n \in Name : Delete(n)
  <2>1. PICK n \in Name : Delete(n)
    BY <1>3
  <2>2. Write(n, NoPod, request) /\ ~IsGuest(NoPod)
    BY <2>1 DEF Delete, IsGuest
  <2>3. guestsBar' = [guestsBar EXCEPT ![n] = NoPod]
    BY <2>2, WriteChangesOne
  <2>. QED BY <2>3, LeaveOrStutter
<1>. QED
  BY <1>1, <1>2, <1>3
     DEF Next, RequestStep, Create, Update, Recreate, Send, Handle, injectToPod, RefuseToStore,
         Refuse, Proceed, DeliverPod, ChangeOffer, Restart, vars

(* The injector implements its promise: whatever the interleaving of       *)
(* requests, with a cache that lags behind and is lost, a guest is only    *)
(* ever admitted fitting its machine, and never changed.                   *)
THEOREM Implements == Spec => ImplementsGuestPods
<1>1. Init => Guests!Init
  BY SameNotions DEF Init, Guests!Init, IsGuest
<1>. QED BY <1>1, Inductive, StepRefines, PTL DEF Spec, ImplementsGuestPods, Guests!Spec, guestsBar
=============================================================================
