------------------------- MODULE MachineWebhookProofs -------------------------
(***************************************************************************)
(* Proofs about MachineWebhook: its invariant, what is true of every       *)
(* stored Machine, and that one user keeps the groups unique, for any      *)
(* names, groups, Nodes, users and manifests.                              *)
(***************************************************************************)
EXTENDS MachineWebhook, TLAPS, SequenceTheorems, FiniteSetTheorems

(* What the validation of the spec alone establishes.                      *)
SpecValid(o) ==
    /\ o.group # ""
    /\ NodePoolTypesValid(o)
    /\ \A i \in DOMAIN o.types : GPUSpecValid(o.types[i].gpu)

Passed(c, steps) == Active(c) /\ request[c].step \in steps

(* The Machines of a group: those stored, and those a user's request that  *)
(* passed the check of its label may yet store.                            *)
Reviewed(group) ==
    {request[c].name : c \in {d \in User : Passed(d, {"nodes", "store"})
                                             /\ request[d].object.group = group}}
Holders(group) == Members(group) \cup Reviewed(group)

HoldersBounded ==
    \A group \in Group : /\ IsFiniteSet(Holders(group))
                         /\ Cardinality(Holders(group)) <= Cardinality(User)

(* What is stored: its spec is valid.                                      *)
GoodMachine(o) == IsMachine(o) /\ SpecValid(o)

(* A request of client c, while ms is stored, knows what it has passed.    *)
GoodRequest(c, r, ms) ==
    /\ IsRequest(r)
    /\ (r.operation = "release") = (c = Collector)
    /\ (r.operation # "create" /\ r.current) => ms[r.name] # NoMachine
    /\ (c = Collector /\ r.current) =>
          ms[r.name].deleting /\ ms[r.name].group = r.object.group
    /\ r.step \in {"nodes", "store"} => r.object.group # ""
    /\ r.step = "store" => SpecValid(r.object)

IInv ==
    /\ DOMAIN machines = Name
    /\ \A n \in Name : Stored(n) => GoodMachine(machines[n])
    /\ nodes \subseteq Node
    /\ DOMAIN request = Client
    /\ \A c \in Client : Active(c) => GoodRequest(c, request[c], machines)
    /\ budget \in 0 .. MaxDisturbances
    /\ HoldersBounded

-----------------------------------------------------------------------------
(***************************************************************************)
(* Consequences of the invariant.                                          *)
(***************************************************************************)

(* Names that differ are as many as the entries that carry them.           *)
LEMMA TypesCounted ==
    ASSUME NEW o, IsMachine(o), NodePoolTypesValid(o)
    PROVE  Cardinality(TypeNames(o)) = Len(o.types)
<1>. DEFINE f == [i \in 1 .. Len(o.types) |-> o.types[i].name]
<1>1. Len(o.types) \in Nat /\ DOMAIN o.types = 1 .. Len(o.types)
  BY DEF IsMachine
<1>2. f \in Surjection(1 .. Len(o.types), TypeNames(o))
  BY <1>1 DEF Surjection, TypeNames
<1>3. f \in Injection(1 .. Len(o.types), TypeNames(o))
  BY <1>1, <1>2 DEF Injection, IsInjective, NodePoolTypesValid, TypeNames
<1>4. IsFiniteSet(1 .. Len(o.types)) /\ Cardinality(1 .. Len(o.types)) = Len(o.types)
  <2>1. ASSUME NEW n \in Nat PROVE IsFiniteSet(1 .. n) /\ Cardinality(1 .. n) = n
    <3>1. 1 \in Int /\ n \in Int /\ (IF 1 > n THEN 0 ELSE n - 1 + 1) = n
      OBVIOUS
    <3>. QED BY <3>1, FS_Interval
  <2>. QED BY <1>1, <2>1
<1>. QED BY <1>2, <1>3, <1>4, FS_Surjection

(* What is valid for the webhook is what the Machine controller needs.     *)
LEMMA ValidSpecs ==
    ASSUME IInv
    PROVE  StoredSpecsValid
<1>. SUFFICES ASSUME NEW n \in Name, Stored(n)
              PROVE  /\ machines[n].group # ""
                     /\ Cardinality(TypeNames(machines[n])) = Len(machines[n].types)
                     /\ \A i \in DOMAIN machines[n].pool :
                           \E t \in TypeNames(machines[n]) :
                              machines[n].pool[i].machineType = <<t>>
                     /\ \A i \in DOMAIN machines[n].types : GPUSpecValid(machines[n].types[i].gpu)
  BY DEF StoredSpecsValid
<1>1. IsMachine(machines[n]) /\ SpecValid(machines[n])
  BY DEF IInv, GoodMachine
<1>2. Cardinality(TypeNames(machines[n])) = Len(machines[n].types)
  BY <1>1, TypesCounted DEF SpecValid
<1>3. ASSUME NEW i \in DOMAIN machines[n].pool
      PROVE  \E t \in TypeNames(machines[n]) : machines[n].pool[i].machineType = <<t>>
  <2>. DEFINE s == machines[n].pool[i].machineType
  <2>1. s \in Seq(STRING) /\ Len(s) = 1 /\ s[1] \in TypeNames(machines[n])
    BY <1>1 DEF IsMachine, SpecValid, NodePoolTypesValid
  <2>. HIDE DEF s
  <2>2. s = <<s[1]>>
    BY <2>1
  <2>. QED BY <2>1, <2>2 DEF s
<1>. QED BY <1>1, <1>2, <1>3 DEF SpecValid

LEMMA WellTyped ==
    ASSUME IInv
    PROVE  TypeOK
BY DEF IInv, TypeOK, GoodMachine, GoodRequest, Stored

-----------------------------------------------------------------------------
(***************************************************************************)
(* Every step preserves the invariant.                                     *)
(***************************************************************************)

(* The bound survives whatever only takes Machines from a group.           *)
LEMMA HoldersShrink ==
    ASSUME HoldersBounded, \A group \in Group : Holders(group)' \subseteq Holders(group)
    PROVE  HoldersBounded'
<1>. SUFFICES ASSUME NEW group \in Group
              PROVE  /\ IsFiniteSet(Holders(group)')
                     /\ Cardinality(Holders(group)') <= Cardinality(User)
  BY DEF HoldersBounded
<1>1. IsFiniteSet(Holders(group)) /\ Cardinality(Holders(group)) <= Cardinality(User)
  BY DEF HoldersBounded
<1>2. Holders(group)' \in SUBSET Holders(group)
  OBVIOUS
<1>3. /\ IsFiniteSet(Holders(group)')
      /\ Cardinality(Holders(group)') <= Cardinality(Holders(group))
  BY <1>1, <1>2, FS_Subset
<1>4. /\ Cardinality(Holders(group)') \in Nat /\ Cardinality(Holders(group)) \in Nat
      /\ Cardinality(User) \in Nat
  BY <1>1, <1>3, ClientAssumption, FS_CardinalityType
<1>. QED BY <1>1, <1>3, <1>4

(* A set of names, one of each user's at most, is as small as the users.   *)
LEMMA NamesOfUsers ==
    ASSUME NEW S, NEW f, DOMAIN f = User, \A x \in S : \E c \in User : f[c] = x
    PROVE  IsFiniteSet(S) /\ Cardinality(S) <= Cardinality(User)
<1>. DEFINE T == {f[c] : c \in User}
<1>1. [c \in User |-> f[c]] \in Surjection(User, T)
  BY DEF Surjection
<1>2. IsFiniteSet(T) /\ Cardinality(T) <= Cardinality(User)
  BY <1>1, ClientAssumption, FS_Surjection
<1>3. S \in SUBSET T
  OBVIOUS
<1>4. IsFiniteSet(S) /\ Cardinality(S) <= Cardinality(T)
  BY <1>2, <1>3, FS_Subset
<1>5. Cardinality(S) \in Nat /\ Cardinality(T) \in Nat /\ Cardinality(User) \in Nat
  BY <1>2, <1>4, ClientAssumption, FS_CardinalityType
<1>. QED BY <1>2, <1>4, <1>5

(* A request that is new or went on breaks nothing, if it is a good one.   *)
LEMMA RequestChanges ==
    ASSUME IInv, NEW c \in Client, NEW r,
           request' = [request EXCEPT ![c] = r], machines' = machines,
           nodes' \subseteq Node, budget' \in 0 .. MaxDisturbances,
           r # NoRequest => GoodRequest(c, r, machines), HoldersBounded'
    PROVE  IInv'
<1>1. \A d \in Client : request'[d] = IF d = c THEN r ELSE request[d]
  BY DEF IInv
<1>2. \A d \in Client : Active(d)' => GoodRequest(d, request'[d], machines')
  BY <1>1 DEF IInv, Active
<1>. QED BY <1>2 DEF IInv, Stored

(* Requests of a client that have not passed the check of the label leave  *)
(* the Machines of each group as they are.                                 *)
LEMMA HoldersKept ==
    ASSUME IInv, NEW c \in Client, NEW r,
           request' = [request EXCEPT ![c] = r], machines' = machines,
           (r # NoRequest /\ r.step \in {"nodes", "store"} /\ c \in User) =>
               /\ Passed(c, {"nodes", "store"})
               /\ r.name = request[c].name
               /\ r.object = request[c].object
    PROVE  HoldersBounded'
<1>1. \A d \in Client : request'[d] = IF d = c THEN r ELSE request[d]
  BY DEF IInv
<1>2. ASSUME NEW group \in Group PROVE Holders(group)' \subseteq Holders(group)
  <2>1. Members(group)' = Members(group)
    BY DEF Members, Stored
  <2>2. ASSUME NEW d \in User, Passed(d, {"nodes", "store"})', request'[d].object.group = group
        PROVE  request'[d].name \in Reviewed(group)
    <3>1. CASE d = c
      BY <1>1, <2>2, <3>1 DEF Passed, Active, Reviewed, Client
    <3>2. CASE d # c
      BY <1>1, <2>2, <3>2 DEF Passed, Active, Reviewed, Client
    <3>. QED BY <3>1, <3>2
  <2>3. Reviewed(group)' \subseteq Reviewed(group)
    BY <2>2 DEF Reviewed
  <2>. QED BY <2>1, <2>3 DEF Holders
<1>. QED BY <1>2, HoldersShrink DEF IInv

(* A write of a good Machine, in a group it already held, breaks nothing.  *)
LEMMA WriteChanges ==
    ASSUME IInv, NEW n \in Name, NEW o, NEW requests, Write(n, o, requests),
           o # NoMachine => GoodMachine(o) /\ \A g \in Group : o.group = g => n \in Holders(g),
           \A c \in Client : requests[c] = request[c] \/ requests[c] = NoRequest,
           budget' \in 0 .. MaxDisturbances
    PROVE  IInv'
<1>1. \A m \in Name : machines'[m] = IF m = n THEN o ELSE machines[m]
  BY DEF Write, IInv
<1>2. DOMAIN machines' = Name /\ DOMAIN request' = Client /\ nodes' \subseteq Node
  BY DEF Write, IInv
<1>3. \A m \in Name : Stored(m)' => GoodMachine(machines'[m])
  BY <1>1 DEF IInv, Stored
<1>4. ASSUME NEW c \in Client, Active(c)'
      PROVE  /\ Active(c) /\ GoodRequest(c, request'[c], machines')
             /\ request'[c].name = request[c].name /\ request'[c].step = request[c].step
             /\ request'[c].object = request[c].object
  <2>1. requests[c] = request[c] /\ Active(c)
    BY <1>4 DEF Write, Active
  <2>2. GoodRequest(c, request[c], machines)
    BY <2>1 DEF IInv
  <2>3. CASE request[c].name = n
    <3>1. request'[c] = [request[c] EXCEPT !.current = FALSE]
      BY <2>1, <2>3 DEF Write, Active
    <3>2. /\ DOMAIN request'[c] = DOMAIN request[c]
          /\ request'[c].current = FALSE
          /\ request'[c].step = request[c].step /\ request'[c].operation = request[c].operation
          /\ request'[c].name = request[c].name /\ request'[c].object = request[c].object
      BY <2>2, <3>1 DEF GoodRequest, IsRequest
    <3>3. IsRequest(request'[c])
      BY <2>2, <3>2 DEF GoodRequest, IsRequest
    <3>4. GoodRequest(c, request'[c], machines')
      BY <2>2, <3>2, <3>3 DEF GoodRequest
    <3>. QED BY <2>1, <3>2, <3>4
  <2>4. CASE request[c].name # n
    <3>1. request'[c] = request[c]
      BY <2>1, <2>4 DEF Write, Active
    <3>2. request[c].name \in Name /\ machines'[request[c].name] = machines[request[c].name]
      BY <1>1, <2>2, <2>4 DEF GoodRequest, IsRequest
    <3>. QED BY <2>1, <2>2, <3>1, <3>2 DEF GoodRequest
  <2>. QED BY <2>3, <2>4
<1>5. HoldersBounded'
  <2>1. ASSUME NEW group \in Group PROVE Holders(group)' \subseteq Holders(group)
    <3>1. Members(group)' \subseteq Holders(group)
      BY <1>1 DEF Members, Stored, Holders
    <3>2. Reviewed(group)' \subseteq Reviewed(group)
      BY <1>4 DEF Reviewed, Passed, Client
    <3>. QED BY <3>1, <3>2 DEF Holders
  <2>. QED BY <2>1, HoldersShrink DEF IInv
<1>. QED BY <1>2, <1>3, <1>4, <1>5 DEF IInv

LEMMA BudgetTyped ==
    ASSUME IInv, Disturb
    PROVE  budget' \in 0 .. MaxDisturbances
BY MaxAssumption DEF IInv, Disturb

(* A user's request is a Machine that a user may write.                    *)
LEMMA SentIsGood ==
    ASSUME NEW c \in User, NEW n \in Name, NEW o, IsMachine(o), NEW ms,
           NEW operation \in {"create", "update"},
           operation = "update" => ms[n] # NoMachine
    PROVE  GoodRequest(c, Review(operation, n, o), ms)
BY ClientAssumption DEF GoodRequest, IsRequest, Review

LEMMA CreatePreserves ==
    ASSUME IInv, NEW c \in User, Create(c)
    PROVE  IInv'
<1>1. PICK n \in Name, o \in Manifests : Send(c, Review("create", n, o))
  BY DEF Create
<1>2. GoodRequest(c, Review("create", n, o), machines)
  BY SentIsGood, ManifestsAssumption
<1>3. Review("create", n, o).step = "default"
  BY DEF Review
<1>4. budget' \in 0 .. MaxDisturbances
  BY BudgetTyped DEF Create
<1>. HIDE DEF Review
<1>5. HoldersBounded'
  BY <1>1, <1>3, HoldersKept DEF Send, Client
<1>. QED BY <1>1, <1>2, <1>4, <1>5, RequestChanges DEF Send, Client, IInv

LEMMA UpdatePreserves ==
    ASSUME IInv, NEW c \in User, Update(c)
    PROVE  IInv'
<1>1. PICK n \in Name, o \in Manifests :
         /\ Stored(n)
         /\ Send(c, Review("update", n, [o EXCEPT !.status = machines[n].status,
                                                !.deleting = machines[n].deleting]))
  BY DEF Update
<1>. DEFINE p == [o EXCEPT !.status = machines[n].status, !.deleting = machines[n].deleting]
            r == Review("update", n, p)
<1>2. IsMachine(o) /\ IsMachine(machines[n])
  BY <1>1, ManifestsAssumption DEF IInv, GoodMachine
<1>3. IsMachine(p)
  <2>1. /\ DOMAIN p = DOMAIN o /\ p.group = o.group /\ p.types = o.types
        /\ p.pool = o.pool /\ p.deleting = machines[n].deleting
    BY <1>2 DEF IsMachine
  <2>. HIDE DEF p
  <2>. QED BY <1>2, <2>1 DEF IsMachine
<1>. HIDE DEF p
<1>4. GoodRequest(c, r, machines) /\ r.step = "default"
  BY <1>1, <1>3, SentIsGood DEF Stored, Review
<1>5. budget' \in 0 .. MaxDisturbances
  BY BudgetTyped DEF Update
<1>6. Send(c, r)
  BY <1>1 DEF p
<1>. HIDE DEF r
<1>7. HoldersBounded'
  BY <1>4, <1>6, HoldersKept DEF Send, Client
<1>. QED BY <1>4, <1>5, <1>6, <1>7, RequestChanges DEF Send, Client, IInv

LEMMA ReleasePreserves ==
    ASSUME IInv, NEW n \in Name, Release(n)
    PROVE  IInv'
<1>. DEFINE r == Review("release", n, machines[n])
<1>1. GoodMachine(machines[n]) /\ machines[n].deleting /\ machines[n] # NoMachine
  BY DEF Release, IInv, Stored
<1>2. GoodRequest(Collector, r, machines) /\ r.step = "default"
  BY <1>1 DEF GoodRequest, GoodMachine, IsRequest, Review
<1>3. Send(Collector, r) /\ budget' = budget
  BY DEF Release
<1>. HIDE DEF r
<1>4. HoldersBounded'
  BY <1>2, <1>3, HoldersKept DEF Send, Client
<1>. QED BY <1>2, <1>3, <1>4, RequestChanges DEF Send, Client, IInv

-----------------------------------------------------------------------------

(* Default appends to the status, and to nothing else.                     *)
LEMMA DefaultPreserves ==
    ASSUME IInv, NEW c \in Client, Default(c)
    PROVE  IInv'
<1>. DEFINE types == request[c].object.types
            zeroed == [i \in DOMAIN types |-> [name |-> types[i].name, usage |-> "zeroed"]]
            r == [request[c] EXCEPT !.step = "label", !.object.status = @ \o zeroed]
<1>1. Proceed(c, r) /\ Active(c) /\ GoodRequest(c, request[c], machines)
  BY DEF Default, AtStep, IInv
<1>2. /\ DOMAIN r = DOMAIN request[c] /\ r.step = "label"
      /\ r.operation = request[c].operation /\ r.name = request[c].name
      /\ r.current = request[c].current
      /\ r.object = [request[c].object EXCEPT !.status = @ \o zeroed]
  BY <1>1 DEF GoodRequest, IsRequest
<1>3. /\ DOMAIN r.object = DOMAIN request[c].object
      /\ r.object.group = request[c].object.group /\ r.object.types = request[c].object.types
      /\ r.object.pool = request[c].object.pool /\ r.object.deleting = request[c].object.deleting
  BY <1>1, <1>2 DEF GoodRequest, IsRequest, IsMachine
<1>. HIDE DEF r
<1>4. IsMachine(r.object)
  BY <1>1, <1>3 DEF GoodRequest, IsRequest, IsMachine
<1>5. GoodRequest(c, r, machines)
  BY <1>1, <1>2, <1>3, <1>4 DEF GoodRequest, IsRequest
<1>6. HoldersBounded'
  BY <1>1, <1>2, HoldersKept DEF Proceed
<1>. QED BY <1>1, <1>5, <1>6, RequestChanges DEF Proceed, IInv

LEMMA RefusePreserves ==
    ASSUME IInv, NEW c \in Client, request' = [request EXCEPT ![c] = NoRequest],
           machines' = machines, nodes' = nodes, budget' \in 0 .. MaxDisturbances
    PROVE  IInv'
<1>1. HoldersBounded'
  BY HoldersKept
<1>. QED BY <1>1, RequestChanges DEF IInv

(* When the label passes, the group has no Machine but the reviewed one    *)
(* and those of other users' requests.                                     *)
LEMMA ValidateLabelPreserves ==
    ASSUME IInv, NEW c \in Client, ValidateLabel(c)
    PROVE  IInv'
<1>. DEFINE r == [request[c] EXCEPT !.step = "nodes"]
            g == request[c].object.group
<1>1. Active(c) /\ GoodRequest(c, request[c], machines) /\ request[c].step = "label"
  BY DEF ValidateLabel, AtStep, IInv
<1>2. CASE LabelUnique(request[c].name, request[c].object) /\ Proceed(c, r)
  <2>1. /\ DOMAIN r = {"step", "operation", "name", "object", "current"}
        /\ r.step = "nodes" /\ r.operation = request[c].operation /\ r.name = request[c].name
        /\ r.object = request[c].object /\ r.current = request[c].current
    BY <1>1 DEF GoodRequest, IsRequest
  <2>. HIDE DEF r
  <2>2. g # ""
    BY <1>2 DEF LabelUnique
  <2>3. GoodRequest(c, r, machines)
    BY <1>1, <2>1, <2>2 DEF GoodRequest, IsRequest
  <2>4. \A d \in Client : request'[d] = IF d = c THEN r ELSE request[d]
    BY <1>2 DEF Proceed, IInv
  <2>5. machines' = machines
    BY <1>2 DEF Proceed
  <2>6. ASSUME NEW group \in Group
        PROVE  IsFiniteSet(Holders(group)') /\ Cardinality(Holders(group)') <= Cardinality(User)
    <3>1. CASE c \in User /\ group = g
      <4>. DEFINE f == [d \in User |-> request'[d].name]
      <4>1. Members(group) \subseteq {r.name}
        BY <1>2, <2>1, <3>1 DEF LabelUnique, Others, Members
      <4>2. \A x \in Members(group)' : x = f[c]
        BY <2>4, <2>5, <3>1, <4>1 DEF Members, Stored, Client
      <4>3. \A x \in Reviewed(group)' : \E d \in User : x = f[d]
        BY DEF Reviewed
      <4>4. \A x \in Holders(group)' : \E d \in User : f[d] = x
        BY <3>1, <4>2, <4>3 DEF Holders
      <4>5. DOMAIN f = User
        OBVIOUS
      <4>. HIDE DEF f
      <4>. QED BY <4>4, <4>5, NamesOfUsers
    <3>2. CASE ~(c \in User /\ group = g)
      <4>1. Members(group)' = Members(group)
        BY <2>5 DEF Members, Stored
      <4>2. ASSUME NEW d \in User, Passed(d, {"nodes", "store"})', request'[d].object.group = group
            PROVE  Passed(d, {"nodes", "store"}) /\ request'[d] = request[d]
        BY <2>1, <2>4, <3>2, <4>2 DEF Passed, Active, Client
      <4>3. Reviewed(group)' \subseteq Reviewed(group)
        BY <4>2 DEF Reviewed
      <4>4. Holders(group)' \in SUBSET Holders(group)
        BY <4>1, <4>3 DEF Holders
      <4>5. IsFiniteSet(Holders(group)) /\ Cardinality(Holders(group)) <= Cardinality(User)
        BY DEF IInv, HoldersBounded
      <4>6. /\ IsFiniteSet(Holders(group)')
            /\ Cardinality(Holders(group)') <= Cardinality(Holders(group))
        BY <4>4, <4>5, FS_Subset
      <4>7. /\ Cardinality(Holders(group)') \in Nat /\ Cardinality(Holders(group)) \in Nat
            /\ Cardinality(User) \in Nat
        BY <4>5, <4>6, ClientAssumption, FS_CardinalityType
      <4>. QED BY <4>5, <4>6, <4>7
    <3>. QED BY <3>1, <3>2
  <2>7. HoldersBounded'
    BY <2>6 DEF HoldersBounded
  <2>. QED BY <1>2, <2>3, <2>7, RequestChanges DEF Proceed, IInv
<1>3. CASE Refuse(c)
  BY <1>3, RefusePreserves DEF Refuse, Proceed, IInv
<1>. QED BY <1>2, <1>3 DEF ValidateLabel

LEMMA ValidateSpecPreserves ==
    ASSUME IInv, NEW c \in Client, ValidateSpec(c)
    PROVE  IInv'
<1>. DEFINE r == [request[c] EXCEPT !.step = "store"]
<1>1. Active(c) /\ GoodRequest(c, request[c], machines) /\ request[c].step = "nodes"
  BY DEF ValidateSpec, AtStep, IInv
<1>2. CASE Valid(request[c].object) /\ Proceed(c, r)
  <2>1. /\ DOMAIN r = {"step", "operation", "name", "object", "current"}
        /\ r.step = "store" /\ r.operation = request[c].operation /\ r.name = request[c].name
        /\ r.object = request[c].object /\ r.current = request[c].current
    BY <1>1 DEF GoodRequest, IsRequest
  <2>. HIDE DEF r
  <2>2. SpecValid(request[c].object)
    BY <1>1, <1>2 DEF Valid, SpecValid, GoodRequest
  <2>3. GoodRequest(c, r, machines)
    BY <1>1, <2>1, <2>2 DEF GoodRequest, IsRequest
  <2>4. HoldersBounded'
    BY <1>1, <1>2, <2>1, HoldersKept DEF Proceed, Passed
  <2>. QED BY <1>2, <2>3, <2>4, RequestChanges DEF Proceed, IInv
<1>3. CASE Refuse(c)
  BY <1>3, RefusePreserves DEF Refuse, Proceed, IInv
<1>. QED BY <1>2, <1>3 DEF ValidateSpec

-----------------------------------------------------------------------------
(* A Machine is as good as one it differs from in its status and in its    *)
(* being deleted.                                                          *)
LEMMA SameSpec ==
    ASSUME NEW o, NEW p, IsMachine(o), SpecValid(o),
           DOMAIN p = DOMAIN o, p.group = o.group, p.types = o.types, p.pool = o.pool,
           p.deleting \in BOOLEAN
    PROVE  GoodMachine(p)
<1>1. IsMachine(p)
  BY DEF IsMachine
<1>2. TypeNames(p) = TypeNames(o)
  BY DEF TypeNames
<1>3. NodePoolTypesValid(p)
  BY <1>2 DEF SpecValid, NodePoolTypesValid
<1>4. SpecValid(p)
  BY <1>3 DEF SpecValid
<1>. QED BY <1>1, <1>4 DEF GoodMachine

LEMMA StorePreserves ==
    ASSUME IInv, NEW c \in Client, Store(c)
    PROVE  IInv'
<1>. DEFINE r == request[c]
            others == [request EXCEPT ![c] = NoRequest]
<1>1. /\ Active(c) /\ GoodRequest(c, r, machines) /\ r.step = "store"
      /\ Acceptable(r) /\ Write(r.name, Kept(r), others) /\ budget' = budget
  BY DEF Store, AtStep, IInv
<1>2. r.name \in Name /\ IsMachine(r.object) /\ SpecValid(r.object)
  BY <1>1 DEF GoodRequest, IsRequest
<1>3. \A d \in Client : others[d] = request[d] \/ others[d] = NoRequest
  BY DEF IInv
<1>. HIDE DEF others
<1>4. ASSUME Kept(r) # NoMachine
      PROVE  GoodMachine(Kept(r)) /\ \A g \in Group : Kept(r).group = g => r.name \in Holders(g)
  <2>1. r.operation \in {"create", "update"} /\ c \in User
    BY <1>1, <1>4 DEF GoodRequest, IsRequest, Kept, Client
  <2>. DEFINE status == IF r.operation = "create" THEN <<>> ELSE machines[r.name].status
  <2>2. Kept(r) = [r.object EXCEPT !.status = status]
    BY <2>1 DEF Kept
  <2>. HIDE DEF status
  <2>4. /\ DOMAIN Kept(r) = DOMAIN r.object
        /\ Kept(r).group = r.object.group /\ Kept(r).types = r.object.types
        /\ Kept(r).pool = r.object.pool /\ Kept(r).deleting = r.object.deleting
    BY <1>2, <2>2 DEF IsMachine
  <2>5. Kept(r).deleting \in BOOLEAN
    BY <1>2, <2>4 DEF IsMachine
  <2>6. GoodMachine(Kept(r))
    BY <1>2, <2>4, <2>5, SameSpec
  <2>7. \A g \in Group : Kept(r).group = g => r.name \in Holders(g)
    BY <1>1, <2>1, <2>4 DEF Holders, Reviewed, Passed
  <2>. QED BY <2>6, <2>7
<1>. QED BY <1>1, <1>2, <1>3, <1>4, WriteChanges DEF IInv

LEMMA DeletePreserves ==
    ASSUME IInv, NEW n \in Name, Delete(n)
    PROVE  IInv'
<1>1. Stored(n) /\ GoodMachine(machines[n]) /\ budget' \in 0 .. MaxDisturbances
  BY BudgetTyped DEF Delete, IInv
<1>2. CASE Write(n, NoMachine, request)
  BY <1>1, <1>2, WriteChanges
<1>3. CASE Write(n, [machines[n] EXCEPT !.deleting = TRUE], request)
  <2>. DEFINE o == [machines[n] EXCEPT !.deleting = TRUE]
  <2>1. /\ DOMAIN o = DOMAIN machines[n] /\ o.group = machines[n].group
        /\ o.types = machines[n].types /\ o.pool = machines[n].pool
        /\ o.deleting = TRUE
    BY <1>1 DEF GoodMachine, IsMachine
  <2>2. Write(n, o, request)
    BY <1>3
  <2>. HIDE DEF o
  <2>3. IsMachine(machines[n]) /\ SpecValid(machines[n])
    BY <1>1 DEF GoodMachine
  <2>4. \A g \in Group : o.group = g => n \in Holders(g)
    BY <1>1, <2>1 DEF Holders, Members
  <2>5. GoodMachine(o)
    BY <2>1, <2>3, SameSpec
  <2>. QED BY <1>1, <2>2, <2>4, <2>5, WriteChanges
<1>. QED BY <1>2, <1>3 DEF Delete

LEMMA PublishStatusPreserves ==
    ASSUME IInv, NEW n \in Name, PublishStatus(n)
    PROVE  IInv'
<1>. DEFINE types == machines[n].types
            counted == [i \in DOMAIN types |-> [name |-> types[i].name, usage |-> "counted"]]
            o == [machines[n] EXCEPT !.status = counted]
<1>1. /\ Stored(n) /\ GoodMachine(machines[n]) /\ budget' \in 0 .. MaxDisturbances
      /\ Write(n, o, request)
  BY BudgetTyped DEF PublishStatus, IInv
<1>2. IsMachine(machines[n]) /\ SpecValid(machines[n])
  BY <1>1 DEF GoodMachine
<1>. HIDE DEF counted
<1>3. /\ DOMAIN o = DOMAIN machines[n] /\ o.group = machines[n].group
      /\ o.types = machines[n].types /\ o.pool = machines[n].pool
      /\ o.deleting = machines[n].deleting
  BY <1>1 DEF GoodMachine, IsMachine
<1>. HIDE DEF o
<1>4. o.deleting \in BOOLEAN
  BY <1>1, <1>3 DEF GoodMachine, IsMachine
<1>5. \A g \in Group : o.group = g => n \in Holders(g)
  BY <1>1, <1>3 DEF Holders, Members
<1>6. GoodMachine(o)
  BY <1>2, <1>3, <1>4, SameSpec
<1>. QED BY <1>1, <1>5, <1>6, WriteChanges

LEMMA SameMachinesPreserve ==
    ASSUME IInv, machines' = machines, request' = request, nodes' \subseteq Node,
           budget' \in 0 .. MaxDisturbances
    PROVE  IInv'
<1>1. \A group : Holders(group)' = Holders(group)
  BY DEF Holders, Members, Reviewed, Passed, Active, Stored
<1>2. HoldersBounded'
  BY <1>1 DEF IInv, HoldersBounded
<1>. QED BY <1>2 DEF IInv, Stored, Active

(* No step of a client, of the webhook or of the cluster breaks the        *)
(* invariant.                                                              *)
LEMMA StepPreserves ==
    ASSUME IInv, [Next]_vars
    PROVE  IInv'
<1>1. CASE \E c \in Client : Fail(c)
  BY <1>1, BudgetTyped, RefusePreserves DEF Fail
<1>2. CASE \E c \in Client : RefuseToStore(c)
  BY <1>2, RefusePreserves DEF RefuseToStore, Refuse, Proceed, IInv
<1>3. CASE ChangeNodes
  BY <1>3, BudgetTyped, SameMachinesPreserve DEF ChangeNodes, IInv
<1>4. CASE UNCHANGED vars
  BY <1>4, SameMachinesPreserve DEF vars, IInv
<1>5. CASE \E c \in User : Create(c) \/ Update(c)
  BY <1>5, CreatePreserves, UpdatePreserves
<1>6. CASE \E n \in Name : Release(n) \/ Delete(n) \/ PublishStatus(n)
  BY <1>6, ReleasePreserves, DeletePreserves, PublishStatusPreserves
<1>7. CASE \E c \in Client : Default(c) \/ ValidateLabel(c) \/ ValidateSpec(c) \/ Store(c)
  BY <1>7, DefaultPreserves, ValidateLabelPreserves, ValidateSpecPreserves, StorePreserves
<1>. QED BY <1>1, <1>2, <1>3, <1>4, <1>5, <1>6, <1>7 DEF Next, RequestStep

LEMMA InitHolds ==
    ASSUME Init
    PROVE  IInv
<1>1. (\A n \in Name : ~Stored(n)) /\ (\A c \in Client : ~Active(c))
  BY DEF Init, Stored, Active
<1>2. \A group \in Group : Holders(group) = {}
  BY <1>1 DEF Holders, Members, Reviewed, Passed, Client
<1>3. IsFiniteSet({}) /\ Cardinality({}) = 0 /\ Cardinality(User) \in Nat
  BY FS_EmptySet, ClientAssumption, FS_CardinalityType
<1>4. HoldersBounded
  BY <1>2, <1>3 DEF HoldersBounded
<1>. QED BY <1>1, <1>4, MaxAssumption DEF Init, IInv

-----------------------------------------------------------------------------
(* The invariant holds in every reachable state, for any names, groups,    *)
(* Nodes, users and manifests.                                             *)
THEOREM Inductive == Spec => []IInv
<1>. QED BY InitHolds, StepPreserves, PTL DEF Spec

(* The state stays well typed; only Machines being deleted are released,   *)
(* and a release still good is one of the Machine as it is stored.         *)
THEOREM TypeCorrect == Spec => []TypeOK
<1>. QED BY WellTyped, Inductive, PTL

(* Whatever is stored passed ValidateNodePoolMachineTypeName and           *)
(* ValidateGPUSpec as it is stored.                                        *)
THEOREM SpecsValid == Spec => []StoredSpecsValid
<1>. QED BY ValidSpecs, Inductive, PTL

(* What may be stored of a group is at most one Machine when there is one  *)
(* user only.                                                              *)
LEMMA OneUserOneMachine ==
    ASSUME IInv, NEW u, User = {u}
    PROVE  GroupsUnique
<1>1. Cardinality(User) = 1
  BY FS_Singleton
<1>2. SUFFICES ASSUME NEW m \in Name, NEW n \in Name, Stored(m), Stored(n), m # n,
                      machines[m].group \in Group, machines[m].group = machines[n].group
               PROVE  FALSE
  BY DEF GroupsUnique
<1>. DEFINE group == machines[m].group
<1>3. {m, n} \in SUBSET Holders(group)
  BY <1>2 DEF Holders, Members
<1>4. IsFiniteSet(Holders(group)) /\ Cardinality(Holders(group)) <= 1
  BY <1>1, <1>2 DEF IInv, HoldersBounded
<1>5. Cardinality({m, n}) = 2
  <2>1. IsFiniteSet({m}) /\ Cardinality({m}) = 1 /\ n \notin {m}
    BY <1>2, FS_Singleton
  <2>2. Cardinality({m} \cup {n}) = 2
    BY <2>1, FS_AddElement
  <2>3. {m} \cup {n} = {m, n}
    OBVIOUS
  <2>. QED BY <2>2, <2>3
<1>6. Cardinality({m, n}) <= Cardinality(Holders(group)) /\ Cardinality(Holders(group)) \in Nat
  BY <1>3, <1>4, FS_Subset, FS_CardinalityType
<1>. QED BY <1>4, <1>5, <1>6

(* With a single user of Machines a group has one Machine at most, as      *)
(* ValidateLabel promises: what the run unique_groups shows takes two.     *)
THEOREM UniqueForOneUser ==
    ASSUME NEW CONSTANT u, User = {u}
    PROVE  Spec => []GroupsUnique
<1>1. IInv => GroupsUnique
  BY OneUserOneMachine
<1>. QED BY <1>1, Inductive, PTL
=============================================================================
