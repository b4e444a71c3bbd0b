----------------------------- MODULE PodInjector -----------------------------
(***************************************************************************)
(* The Pod resource injector at work: a mutating admission webhook between *)
(* the clients that create and update Pods and the API server that stores  *)
(* them.                                                                   *)
(*                                                                         *)
(* A request passes through the webhook, which looks up the Pod and later  *)
(* the Machine in its informer cache, and is then stored, or refused by    *)
(* the API server.  Any number of requests are under way, each at its own  *)
(* pace, and the cache lags behind: watch holds the changes it has not     *)
(* seen.  One client is a workload controller that creates its Pod again   *)
(* whenever it is gone, under the same name; the others are users, who     *)
(* make at most MaxDisturbances requests, deletions and failures.          *)
(*                                                                         *)
(* Left out: everything of a Pod that neither is injected nor decides      *)
(* about it, and namespaces without the injection label, whose Pods never  *)
(* reach the webhook.                                                      *)
(***************************************************************************)
EXTENDS PodInjection, FiniteSets

CONSTANTS
    Name,             \* names of Pods
    Nodes,            \* the Nodes a Pod may find
    Client,           \* clients of the API server
    Owner,            \* the workload controller, one of them
    OwnedName,        \* the name of its Pod
    Template,         \* and what it asks for
    Manifests,        \* the Pods users write
    Labels,           \* the labels users may give a stored Pod
    Offers,           \* what the cached Machine may say of each type
    MaxDisturbances   \* bound on what users and failures do

(* Of a machine type the webhook finds: no such Machine or type, a type    *)
(* the status does not list yet, none reserved, or some.                   *)
Offer == {"absent", "unlisted", "none", "some"}

ASSUME ClientAssumption == Owner \in Client /\ OwnedName \in Name
ASSUME PodsAssumption ==
    /\ \A p \in Manifests \cup {Template} : IsPod(p)
    /\ requiredInjection(Template)
    /\ Labels \subseteq PodLabels
ASSUME OffersAssumption == Offers # {} /\ Offers \subseteq [MachineType -> Offer]
ASSUME MaxAssumption == MaxDisturbances \in Nat

VARIABLES
    store,      \* the stored Pods
    cached,     \* the names the webhook's cache knows
    watch,      \* per name, the creations and deletions not yet delivered
    offered,    \* the cached Machine, per type
    request,    \* each client's request, or NoRequest
    budget      \* disturbances left

vars == <<store, cached, watch, offered, request, budget>>

NoRequest == [step |-> "none"]
Steps == {"review", "find", "store"}

(* object is what the client sent, pod what the webhook has made of it;    *)
(* current says that an update is based on the stored version.             *)
Review(operation, name, object) ==
    [step |-> "review", operation |-> operation, name |-> name,
     object |-> object, pod |-> object, current |-> TRUE]

Stored(n) == store[n] # NoPod
Active(c) == request[c] # NoRequest

Init ==
    /\ store = [n \in Name |-> NoPod]
    /\ cached = {}
    /\ watch = [n \in Name |-> <<>>]
    /\ offered \in Offers
    /\ request = [c \in Client |-> NoRequest]
    /\ budget = MaxDisturbances

Disturb == budget > 0 /\ budget' = budget - 1

-----------------------------------------------------------------------------
(***************************************************************************)
(* Clients.                                                                *)
(***************************************************************************)
Send(c, r) ==
    /\ ~Active(c)
    /\ request' = [request EXCEPT ![c] = r]
    /\ UNCHANGED <<store, cached, watch, offered>>

(* A user creates a Pod, from a manifest or from a copy of a stored Pod.   *)
Create(c) ==
    /\ c # Owner /\ Disturb
    /\ \E n \in Name : \E p \in Manifests \cup {store[m] : m \in {k \in Name : Stored(k)}} :
          Send(c, Review("create", n, p))

(* A user writes a stored Pod, changing its labels or nothing the webhook  *)
(* looks at.                                                               *)
Update(c) ==
    /\ c # Owner /\ Disturb
    /\ \E n \in Name : \E l \in Labels :
          /\ Stored(n)
          /\ Send(c, Review("update", n, [store[n] EXCEPT !.labels = l]))

Recreate ==
    /\ ~Stored(OwnedName)
    /\ Send(Owner, Review("create", OwnedName, Template))
    /\ UNCHANGED budget

-----------------------------------------------------------------------------
(***************************************************************************)
(* The webhook.                                                            *)
(***************************************************************************)
Proceed(c, r) ==
    /\ request' = [request EXCEPT ![c] = r]
    /\ UNCHANGED <<store, cached, watch, offered, budget>>

Refuse(c) == Proceed(c, NoRequest)

(* Mutant: updates are let through as they are.                            *)
HandlePassingKnown(c) ==
    LET r == request[c] IN
    /\ Active(c) /\ r.step = "review"
    /\ \/ (~requiredInjection(r.pod) \/ r.name \in cached)
          /\ Proceed(c, [r EXCEPT !.step = "store"])
       \/ requiredInjection(r.pod) /\ r.name \notin cached
          /\ Proceed(c, [r EXCEPT !.step = "find"])

(* Mutant: the result of the look-up is taken the wrong way round.         *)
HandleKnownOnly(c) ==
    LET r == request[c] IN
    /\ Active(c) /\ r.step = "review"
    /\ \/ ~requiredInjection(r.pod) /\ Proceed(c, [r EXCEPT !.step = "store"])
       \/ requiredInjection(r.pod) /\ r.name \in cached /\ Proceed(c, [r EXCEPT !.step = "find"])
       \/ requiredInjection(r.pod) /\ r.name \notin cached /\ Refuse(c)

(* A Pod that is no guest passes as it is.  A guest is refused when the    *)
(* cache knows a Pod of its name, for the webhook does not tell a creation *)
(* from an update.                                                         *)
Handle(c) ==
    LET r == request[c] IN
    /\ Active(c) /\ r.step = "review"
    /\ \/ ~requiredInjection(r.pod) /\ Proceed(c, [r EXCEPT !.step = "store"])
       \/ requiredInjection(r.pod) /\ r.name \in cached /\ Refuse(c)
       \/ requiredInjection(r.pod) /\ r.name \notin cached
          /\ Proceed(c, [r EXCEPT !.step = "find"])

(* A nil usage (a type the status does not list) and the panics of the     *)
(* injection end the call; the API server then refuses the Pod as it does  *)
(* when it is denied.                                                      *)
injectToPod(c) ==
    LET r == request[c] IN
    /\ Active(c) /\ r.step = "find"
    /\ \/ /\ offered[r.pod.labels.type] = "some"
          /\ ~InjectionPanics(r.pod)
          /\ Proceed(c, [r EXCEPT !.step = "store", !.pod = Injected(r.pod)])
       \/ /\ offered[r.pod.labels.type] # "some" \/ InjectionPanics(r.pod)
          /\ Refuse(c)

-----------------------------------------------------------------------------
(***************************************************************************)
(* The API server.                                                         *)
(***************************************************************************)

(* Name n gets a new version: p, or NoPod.  What others base on the former *)
(* version is refused.                                                     *)
Write(n, p, requests) ==
    /\ store' = [store EXCEPT ![n] = p]
    /\ request' = [c \in Client |->
                      IF requests[c] # NoRequest /\ requests[c].name = n
                      THEN [requests[c] EXCEPT !.current = FALSE]
                      ELSE requests[c]]
    /\ watch' = IF Stored(n) = (p # NoPod) THEN watch
                ELSE [watch EXCEPT ![n] = Append(@, p # NoPod)]
    /\ UNCHANGED <<cached, offered>>

(* Of a stored Pod's spec only tolerations may change: by addition.        *)
SpecKept(old, new) ==
    /\ new.containers = old.containers
    /\ new.affinity = old.affinity
    /\ \A i \in DOMAIN old.tolerations :
          \E j \in DOMAIN new.tolerations : new.tolerations[j] = old.tolerations[i]

Acceptable(r) ==
    CASE r.operation = "create" -> ~Stored(r.name)
      [] r.operation = "update" -> /\ Stored(r.name) /\ r.current
                                   /\ SpecKept(store[r.name], r.pod)

Store(c) ==
    LET r == request[c]
        others == [request EXCEPT ![c] = NoRequest]
    IN  /\ Active(c) /\ r.step = "store" /\ Acceptable(r)
        /\ Write(r.name, r.pod, others)
        /\ UNCHANGED budget

RefuseToStore(c) ==
    /\ Active(c) /\ request[c].step = "store" /\ ~Acceptable(request[c])
    /\ Refuse(c)

RequestStep(c) == Handle(c) \/ injectToPod(c) \/ Store(c) \/ RefuseToStore(c)

Delete(n) ==
    /\ Disturb
    /\ Stored(n)
    /\ Write(n, NoPod, request)

(* Mutant: the latest change is delivered first.                           *)
DeliverPodOutOfOrder(n) ==
    /\ watch[n] # <<>>
    /\ cached' = IF watch[n][Len(watch[n])] THEN cached \cup {n} ELSE cached \ {n}
    /\ watch' = [watch EXCEPT ![n] = SubSeq(@, 1, Len(@) - 1)]
    /\ UNCHANGED <<store, offered, request, budget>>

(* The watch delivers the next creation or deletion of a name.             *)
DeliverPod(n) ==
    /\ watch[n] # <<>>
    /\ cached' = IF Head(watch[n]) THEN cached \cup {n} ELSE cached \ {n}
    /\ watch' = [watch EXCEPT ![n] = Tail(@)]
    /\ UNCHANGED <<store, offered, request, budget>>

(* The Machine controller publishes new counts, or a spec is changed.      *)
ChangeOffer ==
    /\ Disturb
    /\ offered' \in Offers \ {offered}
    /\ UNCHANGED <<store, cached, watch, request>>

(* The manager restarts: calls under way fail, the cache is listed anew.   *)
Restart ==
    /\ Disturb
    /\ request' = [c \in Client |->
                      IF Active(c) /\ request[c].step # "store" THEN NoRequest
                      ELSE request[c]]
    /\ cached' = {n \in Name : Stored(n)}
    /\ watch' = [n \in Name |-> <<>>]
    /\ UNCHANGED <<store, offered>>

-----------------------------------------------------------------------------
Next ==
    \/ \E c \in Client : Create(c) \/ Update(c) \/ RequestStep(c)
    \/ Recreate
    \/ \E n \in Name : Delete(n) \/ DeliverPod(n)
    \/ ChangeOffer
    \/ Restart

Spec == Init /\ [][Next]_vars

(* A call of the webhook returns, the watch delivers, and the workload     *)
(* controller tries again.                                                 *)
Fairness ==
    /\ \A c \in Client : WF_vars(RequestStep(c))
    /\ \A n \in Name : WF_vars(DeliverPod(n))
    /\ WF_vars(Recreate)

FairSpec == Spec /\ Fairness

-----------------------------------------------------------------------------
(***************************************************************************)
(* Properties.                                                             *)
(***************************************************************************)
IsRequest(r) ==
    /\ r.step \in Steps
    /\ r.operation \in {"create", "update"}
    /\ r.name \in Name
    /\ IsPod(r.pod)
    /\ r.current \in BOOLEAN

IsGuest(p) == p # NoPod /\ requiredInjection(p)

(* Every variable has its type, and what the webhook will have seen once   *)
(* the watch has delivered everything is what is stored: the last          *)
(* undelivered change of a name says whether it exists.                    *)
TypeOK ==
    /\ DOMAIN store = Name
    /\ \A n \in Name : Stored(n) => IsPod(store[n])
    /\ cached \subseteq Name
    /\ watch \in [Name -> Seq(BOOLEAN)]
    /\ \A n \in Name :
          Stored(n) = IF watch[n] = <<>> THEN n \in cached ELSE watch[n][Len(watch[n])]
    /\ offered \in Offers
    /\ DOMAIN request = Client
    /\ \A c \in Client : Active(c) => IsRequest(request[c])
    /\ budget \in 0 .. MaxDisturbances

(* Every stored guest can run wherever a reservation Pod of its type can,  *)
(* and asks for what the reservation holds.  Whichever way it came to be   *)
(* stored - created, updated, relabelled, before or after the cache knew   *)
(* it - it was injected for the type its labels name.                      *)
GuestsFitReservations ==
    \A n \in Name : IsGuest(store[n]) => FitsReservation(store[n], Nodes)

(* What users required of Nodes is still required after the injection,     *)
(* term by term, however often a term had to be shortened: all but         *)
(* requirements on an injected key or, which the code confuses with it,    *)
(* with an empty first value.                                              *)
UserRequirementsKept ==
    \A c \in Client :
        (Active(c) /\ request[c].step = "store" /\ requiredInjection(request[c].pod)
            /\ request[c].object.affinity.level = "required") =>
        LET old == request[c].object.affinity.terms
            new == request[c].pod.affinity.terms
            required == GenerateAffinityMatchExpression(request[c].pod.labels.type)
        IN  \A i \in DOMAIN old : \A j \in DOMAIN old[i] :
                \/ \E k \in DOMAIN required : required[k].key = old[i][j].key
                \/ old[i][j].values # <<>> /\ old[i][j].values[1] = ""
                \/ \E k \in DOMAIN new[i] : new[i][k] = old[i][j]

(* The store of Pods implements GuestPods, with the guests among them.     *)
Guests == INSTANCE GuestPods
             WITH guests <- [n \in Name |-> IF IsGuest(store[n]) THEN store[n] ELSE NoPod]

ImplementsGuestPods == Guests!Spec

(* A workload controller gets its Pod again, although its first tries are  *)
(* refused as updates of the Pod just deleted: when machines of the type   *)
(* are reserved for good, in the end a Pod of that name is there for good. *)
RecreatedInTheEnd ==
    <>[](offered[Template.labels.type] = "some") => <>[]Stored(OwnedName)
=============================================================================
