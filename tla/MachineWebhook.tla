---------------------------- MODULE MachineWebhook ----------------------------
(***************************************************************************)
(* The Machine webhook at work: defaulting and validation of Machines      *)
(* between the clients that write them and the API server that stores      *)
(* them.                                                                   *)
(*                                                                         *)
(* The API server reviews the requests of different clients at the same    *)
(* time.  Unlike the Pod resource injector the webhook reads from the API  *)
(* server and not from a cache, but one list after another, and what it    *)
(* read may have changed when the request is stored.  Any number of users  *)
(* make at most MaxDisturbances requests, deletions, status writes and     *)
(* changes of the cluster's Nodes; the garbage collector releases Machines *)
(* that were deleted in the foreground, by an update of its own.           *)
(*                                                                         *)
(* Left out: quantities other than the number of GPUs, which are not       *)
(* looked at, and what the CRD's schema refuses before the webhook.        *)
(***************************************************************************)
EXTENDS Integers, Sequences, FiniteSets

CONSTANTS
    Name,             \* names of Machines
    Group,            \* machine groups; "" is an absent label
    Node,             \* Nodes that may be in the cluster
    User,             \* clients that write Machines
    Collector,        \* the garbage collector
    Manifests,        \* the Machines users write
    MaxDisturbances   \* bound on what users and the cluster do

Client == User \cup {Collector}

NoMachine == [present |-> FALSE]
NoRequest == [step |-> "none"]
NoGPU == [set |-> FALSE]

(* group is the label; types a sequence of names with their GPU; pool a    *)
(* sequence of Nodes, each with the names of its machine types; status the *)
(* usage of each type, "zeroed" by Default or "counted" by the controller. *)
IsMachine(o) ==
    /\ DOMAIN o = {"group", "types", "pool", "status", "deleting"}
    /\ o.group \in Group \cup {""}
    /\ Len(o.types) \in Nat /\ DOMAIN o.types = 1 .. Len(o.types)
    /\ \A i \in DOMAIN o.pool : o.pool[i].machineType \in Seq(STRING)
    /\ o.deleting \in BOOLEAN

ASSUME ClientAssumption == Collector \notin User /\ IsFiniteSet(User) /\ User # {}
ASSUME GroupAssumption == "" \notin Group
ASSUME ManifestsAssumption ==
    \A o \in Manifests : IsMachine(o) /\ o.status = <<>> /\ ~o.deleting
ASSUME MaxAssumption == MaxDisturbances \in Nat

VARIABLES
    machines,   \* the stored Machine of each name, or NoMachine
    nodes,      \* the Nodes in the cluster
    request,    \* each client's request, or NoRequest
    budget      \* disturbances left

vars == <<machines, nodes, request, budget>>

Stored(n) == machines[n] # NoMachine
Active(c) == request[c] # NoRequest

Review(operation, name, object) ==
    [step |-> "default", operation |-> operation, name |-> name,
     object |-> object, current |-> TRUE]

Init ==
    /\ machines = [n \in Name |-> NoMachine]
    /\ nodes = Node
    /\ request = [c \in Client |-> NoRequest]
    /\ budget = MaxDisturbances

Disturb == budget > 0 /\ budget' = budget - 1

-----------------------------------------------------------------------------
(***************************************************************************)
(* Clients.                                                                *)
(***************************************************************************)
Send(c, r) ==
    /\ ~Active(c)
    /\ request' = [request EXCEPT ![c] = r]
    /\ UNCHANGED <<machines, nodes>>

Create(c) ==
    /\ Disturb
    /\ \E n \in Name : \E o \in Manifests : Send(c, Review("create", n, o))

Update(c) ==
    /\ Disturb
    /\ \E n \in Name : \E o \in Manifests :
          /\ Stored(n)
          /\ Send(c, Review("update", n, [o EXCEPT !.status = machines[n].status,
                                                  !.deleting = machines[n].deleting]))

(* The children of a Machine being deleted are gone: its finalizer is      *)
(* removed, by an update like any other.                                   *)
Release(n) ==
    /\ Stored(n) /\ machines[n].deleting
    /\ Send(Collector, Review("release", n, machines[n]))
    /\ UNCHANGED budget

-----------------------------------------------------------------------------
(***************************************************************************)
(* The webhook.                                                            *)
(***************************************************************************)
Proceed(c, r) ==
    /\ request' = [request EXCEPT ![c] = r]
    /\ UNCHANGED <<machines, nodes, budget>>

Refuse(c) == Proceed(c, NoRequest)

AtStep(c, step) == Active(c) /\ request[c].step = step

(* Every machine type is appended to the status with a usage of zero.      *)
Default(c) ==
    LET types == request[c].object.types
        zeroed == [i \in DOMAIN types |-> [name |-> types[i].name, usage |-> "zeroed"]]
    IN  /\ AtStep(c, "default")
        /\ Proceed(c, [request[c] EXCEPT !.step = "label",
                                         !.object.status = @ \o zeroed])

(* The Machines of a group that a review of Machine n finds besides it.    *)
Others(n, group) == {m \in Name \ {n} : Stored(m) /\ machines[m].group = group}

(* Mutant: the Machine under review is taken for another.                  *)
LabelUniqueAnew(n, o) == o.group # "" /\ Others(n, o.group) = {} /\ ~Stored(n)

LabelUnique(n, o) == o.group # "" /\ Others(n, o.group) = {}

ValidateLabel(c) ==
    LET r == request[c]
    IN  /\ AtStep(c, "label")
        /\ \/ LabelUnique(r.name, r.object) /\ Proceed(c, [r EXCEPT !.step = "nodes"])
           \/ ~LabelUnique(r.name, r.object) /\ Refuse(c)

NodesExist(o) == \A i \in DOMAIN o.pool : o.pool[i].node \in nodes

TypeNames(o) == {o.types[i].name : i \in DOMAIN o.types}

(* Mutant: types that are not in the spec are taken.                       *)
NodePoolTypesSingle(o) == \A i \in DOMAIN o.pool : Len(o.pool[i].machineType) = 1

NodePoolTypesValid(o) ==
    /\ \A i, j \in DOMAIN o.types : o.types[i].name = o.types[j].name => i = j
    /\ \A i \in DOMAIN o.pool :
          /\ Len(o.pool[i].machineType) = 1
          /\ o.pool[i].machineType[1] \in TypeNames(o)

GPUSpecValid(gpu) ==
    gpu # NoGPU =>
        /\ gpu.type # ""
        /\ gpu.num >= 0
        /\ Cardinality({s \in {"family", "product", "machine"} : gpu[s] # ""}) = 1

(* The remaining validations look at no other Machine.                     *)
Valid(o) ==
    /\ NodesExist(o)
    /\ NodePoolTypesValid(o)
    /\ \A i \in DOMAIN o.types : GPUSpecValid(o.types[i].gpu)

ValidateSpec(c) ==
    LET r == request[c]
    IN  /\ AtStep(c, "nodes")
        /\ \/ Valid(r.object) /\ Proceed(c, [r EXCEPT !.step = "store"])
           \/ ~Valid(r.object) /\ Refuse(c)

(* The manager is not there, or a list fails: the API server refuses.      *)
Fail(c) ==
    /\ Disturb
    /\ Active(c)
    /\ request' = [request EXCEPT ![c] = NoRequest]
    /\ UNCHANGED <<machines, nodes>>

-----------------------------------------------------------------------------
(***************************************************************************)
(* The API server.                                                         *)
(***************************************************************************)

(* Mutant: requests based on an older version stay good.                   *)
WriteUnversioned(n, o, requests) ==
    /\ machines' = [machines EXCEPT ![n] = o]
    /\ request' = requests
    /\ UNCHANGED nodes

(* Machine n gets a new version, and requests based on the former one will *)
(* be refused.                                                             *)
Write(n, o, requests) ==
    /\ machines' = [machines EXCEPT ![n] = o]
    /\ request' = [c \in Client |->
                      IF requests[c] # NoRequest /\ requests[c].name = n
                      THEN [requests[c] EXCEPT !.current = FALSE]
                      ELSE requests[c]]
    /\ UNCHANGED nodes

Acceptable(r) ==
    IF r.operation = "create" THEN ~Stored(r.name) ELSE Stored(r.name) /\ r.current

(* The status is a subresource: a request for the Machine does not write   *)
(* it.  A released Machine is gone.                                        *)
Kept(r) ==
    CASE r.operation = "create"  -> [r.object EXCEPT !.status = <<>>]
      [] r.operation = "update"  -> [r.object EXCEPT !.status = machines[r.name].status]
      [] r.operation = "release" -> NoMachine

Store(c) ==
    LET r == request[c]
    IN  /\ AtStep(c, "store") /\ Acceptable(r)
        /\ Write(r.name, Kept(r), [request EXCEPT ![c] = NoRequest])
        /\ UNCHANGED budget

RefuseToStore(c) ==
    /\ AtStep(c, "store") /\ ~Acceptable(request[c])
    /\ Refuse(c)

RequestStep(c) ==
    Default(c) \/ ValidateLabel(c) \/ ValidateSpec(c) \/ Store(c) \/ RefuseToStore(c)

(* In the background a Machine goes at once, in the foreground when the    *)
(* garbage collector releases it.  No validation stands against it.        *)
Delete(n) ==
    /\ Disturb
    /\ Stored(n)
    /\ \/ Write(n, NoMachine, request)
       \/ ~machines[n].deleting /\ Write(n, [machines[n] EXCEPT !.deleting = TRUE], request)

(* The Machine controller writes the status, for which there is no webhook.*)
PublishStatus(n) ==
    LET types == machines[n].types
        counted == [i \in DOMAIN types |-> [name |-> types[i].name, usage |-> "counted"]]
    IN  /\ Disturb
        /\ Stored(n) /\ machines[n].status # counted
        /\ Write(n, [machines[n] EXCEPT !.status = counted], request)

ChangeNodes ==
    /\ Disturb
    /\ \E n \in Node : nodes' = IF n \in nodes THEN nodes \ {n} ELSE nodes \cup {n}
    /\ UNCHANGED <<machines, request>>

-----------------------------------------------------------------------------
Next ==
    \/ \E c \in User : Create(c) \/ Update(c)
    \/ \E c \in Client : RequestStep(c) \/ Fail(c)
    \/ \E n \in Name : Release(n) \/ Delete(n) \/ PublishStatus(n)
    \/ ChangeNodes

Spec == Init /\ [][Next]_vars

(* A review returns, and the garbage collector tries again for each        *)
(* Machine it has to release.                                              *)
Fairness ==
    /\ \A c \in Client : WF_vars(RequestStep(c))
    /\ \A n \in Name : SF_vars(Release(n))

FairSpec == Spec /\ Fairness

-----------------------------------------------------------------------------
(***************************************************************************)
(* Properties.                                                             *)
(***************************************************************************)
IsRequest(r) ==
    /\ DOMAIN r = {"step", "operation", "name", "object", "current"}
    /\ r.step \in {"default", "label", "nodes", "store"}
    /\ r.operation \in {"create", "update", "release"}
    /\ r.name \in Name
    /\ IsMachine(r.object)
    /\ r.current \in BOOLEAN

(* Every variable has its type.  Only the garbage collector releases, only *)
(* what is being deleted, and a request that changes a Machine is the      *)
(* current one only as long as that Machine is stored.                     *)
TypeOK ==
    /\ DOMAIN machines = Name
    /\ \A n \in Name : Stored(n) => IsMachine(machines[n])
    /\ nodes \subseteq Node
    /\ DOMAIN request = Client
    /\ \A c \in Client : Active(c) =>
          /\ IsRequest(request[c])
          /\ (request[c].operation = "release") = (c = Collector)
          /\ (request[c].operation # "create" /\ request[c].current) => Stored(request[c].name)
          /\ (c = Collector /\ request[c].current) =>
                /\ machines[request[c].name].deleting
                /\ machines[request[c].name].group = request[c].object.group
    /\ budget \in 0 .. MaxDisturbances

Members(group) == {n \in Name : Stored(n) /\ machines[n].group = group}

(* What the Machine controller takes for granted of a stored Machine,      *)
(* whatever was being stored and deleted around it: no machine type is     *)
(* listed twice, each entry of the node pool has one type and it is listed *)
(* (of two entries for one Node each by itself), and each GPU can be       *)
(* selected in exactly one way.                                            *)
StoredSpecsValid ==
    \A n \in Name : Stored(n) =>
        /\ machines[n].group # ""
        /\ Cardinality(TypeNames(machines[n])) = Len(machines[n].types)
        /\ \A i \in DOMAIN machines[n].pool :
              \E t \in TypeNames(machines[n]) : machines[n].pool[i].machineType = <<t>>
        /\ \A i \in DOMAIN machines[n].types : GPUSpecValid(machines[n].types[i].gpu)

(* The validation does not stand in the way of a deletion that meets its   *)
(* conditions: when in the end the listed Nodes are there and each group   *)
(* has one Machine, a Machine deleted in the foreground goes, whatever     *)
(* became of the collector's requests before.  (Without those conditions   *)
(* it stays: its release is an update, and refused.)                       *)
DeletionCompletes ==
    <>[](\A n \in Name : Stored(n) =>
            NodesExist(machines[n]) /\ Others(n, machines[n].group) = {})
    => \A n \in Name : (Stored(n) /\ machines[n].deleting)
                          ~> ~(Stored(n) /\ machines[n].deleting)

-----------------------------------------------------------------------------
(***************************************************************************)
(* What the repository says of itself, and the code does not keep.         *)
(***************************************************************************)

(* "machineGroup must be set as unique": no two stored Machines are of one *)
(* group.  ValidateLabel looks before the Machine is stored, and two       *)
(* reviews can look before either is.                                      *)
GroupsUnique ==
    \A m, n \in Name : (Stored(m) /\ Stored(n) /\ machines[m].group \in Group
                           /\ machines[m].group = machines[n].group) => m = n

(* Default is to "initialize machineAvailable": the status of every stored *)
(* Machine has the usage of each type of its spec.  Default writes it into *)
(* the object under review, whose status the API server does not store.    *)
StatusInitialised ==
    \A n \in Name : Stored(n) =>
        LET status == machines[n].status
        IN  TypeNames(machines[n]) \subseteq {status[i].name : i \in DOMAIN status}
=============================================================================
