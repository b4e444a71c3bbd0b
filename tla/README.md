# A verification of imperator's controllers in TLA+

imperator is a Kubernetes operator. A user groups nodes and machine types in a
`Machine`; imperator reserves the machines with placeholder Pods, marks the
nodes, and lets *guest* Pods take the reserved machines. This directory holds
TLA+ modules of its controllers and webhooks, TLC configurations that check them on small
instances, and proofs that TLAPS checks for every instance.

Paths below are relative to `src/`; `MC` is
`pkg/controllers/machine_controller.go`, `NP` is
`pkg/controllers/machinenodepool_controller.go`, `PI` is
`pkg/api/v1alpha1/pod_resource_injector.go`, `WH` is
`pkg/api/v1alpha1/machine_webhook.go`.

## 1. Inventory

| Part | State it keeps | Operations | Modelled in |
|---|---|---|---|
| Machine controller (`MC`, `controller_utils.go`, `util/`) | `Machine.status` (usage counts, `Ready`), the `MachineNodePool`, one StatefulSet and one Service per machine type | `Reconcile` and its four stages; failure report; `podReconcileRequest` | `MachineController`, `PodAccounting` |
| MachineNodePool controller (`NP`, `util/taint.go`) | annotation, labels and taints of Nodes; the pool's finalizer and status | `reconcile` (four branches), `reconcileNode`, `updateStatus`, `cleanupNode`, the Node predicates | `NodePoolController`, `GuardedPool` |
| Pod resource injector (`PI`, `affinity.go`) | none; reads Machines and Pods from the cache | `Handle`: admit or deny a guest, inject resources, affinity, tolerations | `PodInjection`, `PodInjector`, `GuestPods`; in one step in `MachineController` |
| Machine webhook (`WH`) | none; reads Machines and Nodes from the API server | `Default`, `ValidateAllOperation` | `MachineWebhook` |
| Manager (`cmd/imperator-controller/main.go`, controller-runtime) | informer caches, one work queue per controller, leader lock | watches, requeue, resync every 10 minutes, start and takeover | in both controllers; cache and restart in `PodInjector` |
| Names, labels, templates (`util/name.go`, `label.go`, `resource.go`) | none | pure construction | the Pod template in `PodInjection`; names not: a child is identified by its type |
| API types, deep copies, CRDs, constants, manifests, version | none | | no: declarations |

How they interact: the parts share nothing but API objects. The Machine
controller writes the MachineNodePool, which the MachineNodePool controller
reads; the latter marks Nodes, which decides where the scheduler may place
reservation and guest Pods; Pods come back to the Machine controller through
its Pod watch; the injector reads the counts the Machine controller publishes,
and writes into guests what the template of their reservation has; the Machine
webhook stands before every write of a Machine, those of the garbage collector
included.
Outside imperator stand the API server, the StatefulSet controller, the
scheduler, the kubelets, the node lifecycle controller and users.

What is hard in it:

- every read comes from an informer cache that lags behind, separately for each
  object, and deliveries of different objects come in any order;
- a reconcile makes several requests, and anything may happen between two;
- writes from an outdated copy are refused, and the refusal must leave a
  requeue or an event behind;
- each request can fail, the manager can die between any two;
- the controllers cause the events they react to, and must come to rest all the
  same;
- event filters (`podReconcileRequest`, the Node predicates) decide what wakes a
  controller: what they drop is not seen until the next resync;
- a webhook reviews requests side by side, and what it read - a cached Pod, a list
  of Machines - may be different when the request is stored;
- what a user has written into a Pod is merged with what is injected, in place, in
  lists that the loops range over.

What makes each part right: at rest, an up-to-date controller has produced what
the stored spec asks for (no lost wake-up); no stale value is written over a
newer one; disturbances end in convergence; a deletion completes and leaves
nothing behind; a guest that is admitted gets its machine; it can run wherever
its reservation could, whichever way it became a guest; what is stored of a
Machine is what the controller takes for granted. `PROJECT.json` lists
39 hazards of this code with the properties that cover them, and says why
for those that no property covers yet.

## 2. Modules

- `PodAccounting` - which Pods count as reserved, used, waiting, unscheduled,
  and the replica count that follows. Operators only.
- `MachineController` (extends it) - the Machine controller for one Machine,
  with caches, queue, external controllers, guests and disturbances.
- `MachineControllerProofs` - its theorems.
- `GuardedPool` - the abstract specification of the finalizer: which phases a pool
  goes through, and in which of them its Nodes may be marked.
- `NodePoolController` (instantiates `GuardedPool`) - the MachineNodePool controller
  for one pool and the Nodes it lists.
- `NodePoolHistory` (extends it) - a history variable, the Nodes of which the controller
  no longer hears, and the liveness of the marks that speaks of the others.
- `NodePoolControllerProofs` - the theorems of `NodePoolController`.
- `NodePoolGuardProofs` (extends them) - the proof that it implements `GuardedPool`.
- `PodInjection` - what is injected into a Pod and how, the Pod template of a
  reservation, and where the scheduler may place a Pod. Operators only.
- `GuestPods` (extends it) - the abstract specification of the injector: a guest is
  admitted fitting its machine, is never changed, and leaves.
- `PodInjector` (extends `PodInjection`, instantiates `GuestPods`) - calls of the
  injector between clients, the API server and a cache that lags behind.
- `PodInjectionProofs` - theorems about the injection by itself, and the induction
  principles they need.
- `PodInjectorProofs` (extends them) - theorems of the injector, the refinement among
  them.
- `PlacementProofs` (extends `NodePoolControllerProofs`, instantiates `PodInjection`) -
  what the marks of one controller and the Pods of the other come to together.
- `MachineWebhook` - requests for Machines through defaulting and validation to
  storage.
- `MachineWebhookProofs` - its theorems.
- `MCMachineController`, `MCNodePoolController`, `MCNodePoolHistory`, `MCPodInjector`,
  `MCMachineWebhook` - constants for TLC.

### How the code becomes state and actions

The controllers are modelled alike.

- **Stored and cached.** An object `x` has its stored value `x`, its cached copy
  `xSeen` and `xFresh`, "the cached copy is the stored version". A resource
  version only ever decides whether an update is accepted, so a flag replaces
  the number. The flag is cleared also by writes that do not change what the
  model keeps of an object (`Heartbeat`, `TouchSts`): the next update from the
  cached copy is refused all the same. An update that changes nothing leaves the
  version alone, as in the API server. In `MachineController` the StatefulSets
  and Services, whose cached content the code does not use, have only the
  state of their cached copy; Pods are never written by imperator and have no flag.
- **The reconciler** is one worker. `pc` says which request it makes next, `m`
  or `p` is the copy of the object it took from the cache when it started and
  `mFresh`/`pFresh` says whether an update from it would be accepted. One
  request to the API server is one step, so that everything else interleaves
  between two requests. Reads of the cache belong to the step of the write they
  lead to: between the two the code only computes.
- **Informers.** `Deliver...` copies all outstanding changes of one object and
  applies the handlers and predicates of `SetupWithManager`. Objects are
  delivered independently. `NodePoolController` keeps in `nodeEvent` whether
  one of the undelivered changes of a Node passes the predicate, since two
  opposite changes are two events even where the model delivers them together.
- **The queue** holds at most one request per object: a Boolean. A requeue and
  an event during a reconcile set it again.
- **Pods** are one of eight shapes (`PodAccounting`): the fields of `corev1.Pod`
  the code tests, in the combinations a Pod passes through.
- **Nodes** carry what the controller looks at: whether the annotation names the
  pool's group, the status label, the labels of machine types, one flag for the
  taints that mark a Node down, and the pool's own taints with their time of
  addition (`clock`, in seconds, the precision that is stored).
- **Disturbances** are spec changes, deletions, evictions, edits by users, Nodes
  going down or leaving, failed requests, crashes and the resync. A behaviour
  has at most `MaxDisturbances` of them, at any moments, so that it is
  eventually left in peace. Guests' arrival, kubelet heartbeats and the clock
  (at most `MaxClock` ticks) do not count.

And so are the webhooks:

- **A request** belongs to a client, which has one at a time, and goes through
  `step`s: for a Pod `review`, `find` and `store`, for a Machine `default`, `label`,
  `nodes` and `store`. Each read of the cache or of the API server is a step of its
  own, and between two steps everything else may happen; what the code computes
  from one read belongs to the step of that read. The API server stores or refuses
  at the end: a name that exists, a version that is no longer the current one
  (`current`), and, for a Pod, a spec that an update may not change.
- **The cache of the injector** is the set of names it knows and, per name, the
  creations and deletions the watch has yet to deliver, in order. The cached Machine
  is reduced to what the injector learns from it of a type (`Offer`).
- **The injection** is translated as it is, with the removal of elements from the
  array the loop ranges over. `Shifted` and `Removals` say in closed form what the
  array holds at each turn of that loop; the panics of the code are predicates of
  the Pod (`InjectionPanics`), and the API server refuses a Pod on which the webhook
  fails.
- **`GuestPods`** sees of all this the stored guests only: in the refinement mapping
  the guest of a name is the stored Pod if its labels make it one. Its definitions
  stand for no lines of code.

Neither do those of `GuardedPool`, which sees the stored pool and Nodes: the pool as
absent, bare, guarded by its finalizer or waiting to be deleted (`Phase`), the marks of
a Node as a set (`MarksOf`).

`PROJECT.json` maps every definition to the lines it translates. Definitions
whose comment begins "Mutant" are plausible bugs of the code, one for each
property of each passing run, to show that the run would find them; nothing
else uses them.

### What is left out

Of the controllers: deletion of the Machine; two Machines of one group; guests in namespaces
without the injection label, and a change of that label; two pools that list one
Node; marks whose value is another group's; two taints of one key. The Pod
template of a StatefulSet and the Service's ports are data no property tells
apart; what matters of them is that the generated object always differs from
the stored one, because the API server fills in defaults, so each is written in
every reconcile and reported as updated.

Of the webhooks: a change of what a machine type asks for, between the template
of the reservation and the injection; everything of a Pod that is neither read
nor injected; quantities other than the number of GPUs, at which validation does
not look; what the CRD's schema refuses before the webhook is called.

## 3. What TLC checks

`MCMachineController`, on one or two machine types:

| Run | Shows | Bounds |
|---|---|---|
| `one_type` | `TypeOK`, `IdleMeansReconciled`, `MachinesHeldAtRest`, `MaximumFromSpec` | one type, three specs (quantity 1, quantity 0, no node), one guest, one disturbance |
| `two_types` | `IdleMeansReconciled`, `MaximumFromSpec`, `StockOnlyGrows`, `EventuallyReconciled`, `EventuallyAllHeld` | two types over three specs, the first with a machine, one disturbance |
| `guest` | `EventuallyReconciled`, `AdmittedGuestIsBound` | one machine, one guest |

`MCNodePoolController`, and `MCNodePoolHistory` for `np_live`:

| Run | Shows | Bounds |
|---|---|---|
| `np_safety` | `TypeOK`, `IdleMeansMarked`, `NoDownNodeTurnsReady` | two Nodes; three node pools that differ in mode, taint and length; two disturbances, one second |
| `np_live` | `EventuallyMarked`, `DeletionCompletes`, `ImplementsGuardedPool` | one Node whose type and taint change, that goes down, loses any mark, leaves or joins anew; two disturbances, one second |

`MCPodInjector` and `MCMachineWebhook`:

| Run | Shows | Bounds |
|---|---|---|
| `injector` | `TypeOK`, `GuestsFitReservations`, `UserRequirementsKept`, `ImplementsGuestPods`, `RecreatedInTheEnd` | two names, a workload controller and a user, two machine types, 37 manifests, 16 Nodes, two disturbances |
| `webhook` | `TypeOK`, `StoredSpecsValid`, `DeletionCompletes` | three names, one group, two Nodes, two users and the garbage collector, 7 manifests, three disturbances |

- `IdleMeansReconciled`, `IdleMeansMarked`: when the reconciler has nothing to
  do and no event is on its way, what it maintains is what the stored objects ask
  for. Everything that can go missing in the event handling breaks these two.
  `IdleMeansMarked` speaks of Nodes that carry the annotation: the code finds
  the pool of a Node by it, so a Node that has lost it, or has joined anew, is
  not seen (two hazards say so).
- `MachinesHeldAtRest`: what rest comes to for the user. Each machine the Machine asks
  for has a running reservation or a guest that uses or awaits it, and none has two,
  once the StatefulSet controller has nothing to do. A reservation that finds no Node makes
  the controller ask for one less, and so costs two. `IdleMeansReconciled` compares
  each object with what it is computed from; this one adds them up.
- `ImplementsGuardedPool`: whatever is cached, queued or refused, a Node is given marks
  only while the stored pool has its finalizer, and the finalizer is only taken from a
  pool that is being deleted. A pool that goes and comes again under the same name is
  another pool, of which the cache may know nothing yet.
- `MaximumFromSpec`, `StockOnlyGrows`, `NoDownNodeTurnsReady`: action properties
  against stale writes.
- `GuestsFitReservations`: every stored guest can be placed on each Node on which
  its reservation can, and asks for what the reservation holds. It is this that lets
  a reservation give way to a guest. `ImplementsGuestPods` adds that a guest never
  changes while it is one, whatever the cache knew at its update.
- `UserRequirementsKept`: the removal loop takes nothing of a user's terms besides
  requirements on injected keys and, which the code confuses with them, those with an
  empty first value.
- `EventuallyMarked`: every kind of disturbance is in the run, those that take a Node out
  of the controller's sight included. A Node that joins has no annotation, its creation is
  filtered out, and one that has lost only its annotation is not written again: no event
  of either names the pool. `lost` of `NodePoolHistory` collects them until the controller
  comes by for another reason; all others end up annotated, marked and reported.
- `StoredSpecsValid`: what `MachineController` assumes of a spec (its types are a
  set, each entry of its node pool has one of them) holds of every stored Machine. Two
  entries for one Node, each with a type of its own, are not refused.
- `EventuallyReconciled`, `EventuallyMarked`, `EventuallyAllHeld`,
  `AdmittedGuestIsBound`, `RecreatedInTheEnd` and the two `DeletionCompletes`:
  liveness, see below.

The bounds are small and enough for the cases of the code. One
disturbance reaches each single failure, crash or foreign write at each point of
a reconcile; two reach a failure during the recovery from another. Two entries
of a node pool, or two types, exercise the loops from the first, middle and past
the last iteration, and the overwriting of one item's work by another's failure.
One second of clock separates a rewrite of a taint that changes it from one that
does not. The manifests of `injector` have every term of up to two requirements out
of an injected one, another injected one and one of the user's, longer ones with a
last requirement that must survive, requirements with an empty value and with none,
affinities of which a part is absent, and tolerations that are injected too. Its two
disturbances are, for instance, the relabelling of a Pod and the restart of the manager
while the Pod is being created again. The manifests of `webhook` are two good
Machines and one that each validation refuses; two users are enough for two reviews
to overlap. More Nodes,
types, guests or disturbances are covered by the theorems
for the safety properties.

### Disagreements

Five runs violate a property that states what a document, a comment or a test
says:

- `over_admission`: two guests are admitted for one reserved machine, since the
  injector reads a count that admission does not lower.
- `np_delete`: `cleanupNode` returns at the first Node whose *cached* copy is
  clean (`NP`:151). A pool that is deleted just after its Node was marked loses
  its finalizer while the Node keeps its marks. The two Nodes of the run lose more by
  longer ways: the second keeps its marks when the first is clean in the cache, or has
  left.
- `np_marks`: only marks of the present spec are removed (`NP`:170, 231), so a
  changed machine type, or a taint no longer wanted, stays on the Node. The tests
  that expect otherwise change copies of their entries and do not exercise it.
- `unique_groups`: "machineGroup must be set as unique" (`WH`:140), but `ValidateLabel`
  looks before the Machine is stored. Two reviews that overlap let two Machines of one
  group in, after which `podReconcileRequest` drops the group's Pod events.
  `MachineController` is about one Machine per group, and so about users that take turns:
  for one user `GroupsUnique` is a theorem.
- `status_init`: `Default` is to "initialize machineAvailable" (`WH`:59) and writes into
  the status of the object under review. The status is a subresource, so this is never
  stored: the types of a new Machine have no usage until the controller has counted, and
  the injector dereferences nil for a guest that comes before (`PI`:136).

Three more are not runs of their own:

- A StatefulSet asked for one Pod more than its nodes hold swings for ever between two replica
  counts, since the unscheduled Pod it removed was the reason to remove it (`MC`:219).
  The theorem `NoRestOneMachineShort` says that the controller finds no rest there, for
  every quantity.
- `injectPodAffinity` is to "remove matchExpression which has duplicated key" (`PI`:256),
  but compares first values (`PI`:259). A requirement with an injected key and another first
  value stays, and of two duplicates in a row the second does; one with an empty first value
  and a key of the user's goes. What the loop does keep is `RequirementsKept`; that it is
  right on a term with one duplicate, `SingleDuplicateCutOut`.
- `docs/design_v1alpha1.md:74` and `:82-85` count a Pod that is Running and not ready as
  creating, and so as used or reserved. `updateStatus` (`MC`:403) does not count such a
  guest, nor does `UsageOf`: its machine counts as free, and is reserved once more.

### Fairness

Weak fairness of `ReconcilerStep` - one worker serves the queue and a request
to the API server returns; of each delivery - a watch delivers what is
outstanding, and it does so for each Pod and Node separately, because a
busy object must not stand for a quiet one; of the StatefulSet controller, the
scheduler and the kubelet as they act on what they see. Nothing is assumed of
users, failures, the clock or the resync: no property needs the ten-minute
resync to repair a lost event.

In `PodInjector`, weak fairness of each step of a request (a call of a webhook
returns, and the API server answers), of the watch for each name, and of the workload
controller, which creates its Pod again as long as it is not there.
`RecreatedInTheEnd` assumes that in the end machines of its type are reserved. In
`MachineWebhook` the garbage collector tries again for each Machine it has to release;
since it has one request at a time, which can also be refused, this is strong fairness
of `Release` for each name, as the collector's queue serves every object that stays in it.
`DeletionCompletes` there assumes that in the end the Nodes of every stored Machine are
present and groups unique: a Machine whose Node has left, or that shares its group,
cannot be updated, and so not released, for as long as that lasts.

Every change of an object makes writes from older copies fail, so a schedule in
which the cache is always one heartbeat behind refuses every update for ever.
The queue's growing back-off rules this out in practice and is timing the model
does not have; `EventuallyReconciled`, `EventuallyMarked` and
the `DeletionCompletes` of `NodePoolController` therefore assume `Unrefused`: from some point on no update
is refused. Their conclusion still has to be reached by the events the code
reacts to. `EventuallyAllHeld` and `AdmittedGuestIsBound` need no such
assumption.

## 4. What is proved

For all values of the constants that satisfy the modules' assumptions (finite
types, guests and users, quantities and bounds natural numbers, specs and manifests
well formed):

| Theorem | States |
|---|---|
| `MachineControllerProofs!TypeCorrect` | `Spec => []TypeOK` |
| `MachineControllerProofs!Inductive` | `Spec => []IInv` |
| `MachineControllerProofs!NoLostWakeup` | `Spec => []IdleMeansReconciled` |
| `MachineControllerProofs!MaximumIsCurrent` | `Spec => MaximumFromSpec` |
| `MachineControllerProofs!StockGrows` | `Spec => StockOnlyGrows` |
| `MachineControllerProofs!MachinesHeld` | `Spec => []MachinesHeldAtRest` |
| `MachineControllerProofs!NoRestOneMachineShort` | no rest for a type with one machine less than it asks for |
| `NodePoolControllerProofs!TypeCorrect` | `Spec => []TypeOK` |
| `NodePoolControllerProofs!Inductive` | `Spec => []IInv` |
| `NodePoolControllerProofs!RestMeansMarked` | `Spec => []IdleMeansMarked` |
| `NodePoolControllerProofs!ReadyIsCurrent` | `Spec => NoDownNodeTurnsReady` |
| `NodePoolGuardProofs!GuardHolds` | `Spec => []GInv` |
| `NodePoolGuardProofs!Implements` | `Spec => ImplementsGuardedPool` |
| `PlacementProofs!ReservationsFitTheReady` | with `NamesApart`, `Spec => []FitsTheReady` |
| `PlacementProofs!TaintsKeepOthersOut` | with `NamesApart`, `Spec => []KeepsOthersOut` |
| `PodInjectionProofs!RequirementsKept` | what the removal loop leaves in a term, of any length |
| `PodInjectionProofs!ShortenedTermAsksTheRest` | what a term that was shortened asks of a Node |
| `PodInjectionProofs!SingleDuplicateCutOut` | the loop is right on terms with one duplicate |
| `PodInjectionProofs!OnlyOnReadyMachines` | guests without terms of their own go to ready machines of their type |
| `PodInjectorProofs!TypeCorrect` | `Spec => []TypeOK` |
| `PodInjectorProofs!Inductive` | `Spec => []IInv` |
| `PodInjectorProofs!GuestsFit` | `Spec => []GuestsFitReservations` |
| `PodInjectorProofs!RequirementsOfUsersKept` | `Spec => []UserRequirementsKept` |
| `PodInjectorProofs!Implements` | `Spec => ImplementsGuestPods` |
| `MachineWebhookProofs!TypeCorrect` | `Spec => []TypeOK` |
| `MachineWebhookProofs!Inductive` | `Spec => []IInv` |
| `MachineWebhookProofs!UniqueForOneUser` | with one user, `Spec => []GroupsUnique` |
| `MachineWebhookProofs!SpecsValid` | `Spec => []StoredSpecsValid` |

The argument. "At rest all is well" is not inductive: it says nothing of the
moments in between. `IInv` says what holds there: whatever the reconciler
has already passed in the running request is as it should be, *or* something that
will make it look again is outstanding - the queue holds the object, or an event
that will queue it is undelivered. Its parts:

- the copies: a fresh cached copy equals the stored object, and a reconcile that
  nothing has disturbed works on the current object;
- the control state: which branch leads to which `pc`
  (`Branches`; a pool in `node` or `status` has its finalizer and is not being
  deleted);
- progress: for each stage, what the stages before it have established
  (`Progress`; `MarkedOrPending(k)` for the Nodes before the loop index,
  `ReportedOrPending(k)` once the reconciler rests).

The heart of the MachineNodePool proof is `SetNodeCalm`: a new version of an
annotated Node is either the old version or an event for the pool. The report
is computed from cached Nodes, which may be older than what the same reconcile
has just written; the clause of `FreshCopies` that an annotated Node without an
outstanding event is cached as it is stored closes that gap.
`MaximumIsCurrent` and `ReadyIsCurrent` rest on the same invariant: a write is
accepted only from a current copy, so what it was computed from is what is stored.

The injector's invariant says of each request what it has passed (`Sound`): a guest's
request at `store` carries a Pod that fits, and an update of a Pod that is stored as a
guest can only be refused - the cache knows the Pod, or the injection changes its
affinity, which the API server refuses. The last is a fact about lengths: the injection
adds a term. That the injected Pod fits is a chain of lemmas about `PodInjection`: the
required term is there, the tolerations are there, the target container has the
resources.

`UserRequirementsKept` is about the user's terms, and so about the removal loop, a
recursion over a slice of any length. The induction it needs is `InductionOverSet`: a
set of numbers that has 0 and, with each number below n, the next one, has all up to n. It
follows from `LeastNumber` (a set of naturals has a least element), which follows from the
well-founded induction of the library. `RemovalsByTurns` uses it to show that the recursive
function `Removals` satisfies its equation, and the rest is about what one turn does: the
place looked at moves on by one or, after a removal, by two. What is skipped is kept, and
what is looked at goes only if the test matches it; so whatever the test does not match is
still in the term. The invariant carries this to the guests that are stored: a request at
`store` has a Pod that keeps the requirements of the manifest it was made from.

`NoRestOneMachineShort` is about a replica count that swings. Suppose guests have and
await all but n + 1 of the machines asked for, there are n for the StatefulSet, and the
controller rests. Either the StatefulSet asks for more than n, its last Pod finds no
Node and the replica count is to be n; or it asks for n at most, no Pod is without a Node
and the count is to be n + 1. Both contradict `IdleMeansReconciled`. `MachinesHeld` is the same sum where it does
come out.

That `NodePoolController` implements `GuardedPool` rests on `GInv`. The reconciler decides by
a cached pool, and the cache may be behind by a whole life of the pool. But a finalizer is taken
only by a reconcile whose copy shows the deletion and is current, so that a cache that shows a
finalizer and no deletion shows the pool that is stored still to have one
(`CacheSound`), through however many lives. Hence the branch that marks Nodes runs only while
the stored pool has its finalizer, and the branch that takes it only on a pool being deleted
(`BranchSound`). Each action then maps to one of `GuardedPool`'s, or to a stutter.

`PlacementProofs` joins two components. `AsSeen` makes of a Node in
`NodePoolController` the labels and taints `PodInjection` places Pods by, among any labels and
taints of others, and `WhereItFits` says on which of them the reservations of a type fit.
With `RestMeansMarked` this gives: on an annotated Node of its type a reservation fits
when the pool and the taints for "down" make it ready, and it has the GPU - and then only if
no taint of an earlier entry is left on it, which is what the disagreement `np_marks` comes to.
The theorems assume `NamesApart`: no machine type is named `node-pool`, which nothing in
the code refuses.

That one user keeps the groups unique is not inductive: a request that has
passed the check of its label will store its Machine however many others there are by
then. `HoldersBounded` counts both, the stored and the reviewed: never more than users. A
review that passes finds no other Machine of the group, so that what is left is one name
for each user; every other step only moves a Machine from the reviewed to the stored, or
takes one away.

The invariants were first checked by TLC on the instances above. The proofs have
one lemma for each operator (`...Lemma`), one for each group of actions
(`...Type`, `...Inv`), and the theorems at the end.

Only model-checked: the liveness properties (fairness is beyond the prover) and the five
violations. Every invariant, action property and refinement of a passing run is a theorem.

## 5. Plan

Done: the controllers and both webhooks, each with its proofs. What could follow, in
this order:

1. `Imperator` - Machine and MachineNodePool controllers composed over one pool,
   Nodes and Pods: two pools that list one Node; what happens to the Pods on a Node
   that goes down or into maintenance (`PlacementProofs` has where they can go at rest).
2. `ReservationLedger` - an abstract specification of what imperator promises
   about machines (each machine is free, reserved or used; a guest takes a
   reserved one), with `MachineController` shown to implement it.
3. Deletion of the Machine, and Nodes taken out of a pool, in both controllers;
   namespaces that gain and lose the injection label.
4. Two Machines whose children have one name (`util/name.go`:28).

## 6. Running it

    tlc -config MCMachineOneType.cfg MCMachineController.tla
    tlc -config MCNodePoolSafety.cfg MCNodePoolController.tla
    tlc -config MCNodePoolLive.cfg MCNodePoolHistory.tla
    tlc -config MCPodInjector.cfg MCPodInjector.tla
    tlc -config MCMachineWebhook.cfg MCMachineWebhook.tla
    tlapm MachineControllerProofs.tla
    tlapm NodePoolControllerProofs.tla
    tlapm NodePoolGuardProofs.tla
    tlapm PlacementProofs.tla
    tlapm PodInjectionProofs.tla
    tlapm PodInjectorProofs.tla
    tlapm MachineWebhookProofs.tla

Each run of TLC and each proof ends within a few minutes. Deadlock is
not checked: with the disturbances spent and the controller at rest nothing has
to happen any more, and the same is so of the webhooks without requests.
