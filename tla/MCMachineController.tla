------------------------- MODULE MCMachineController -------------------------
(* Constants for TLC's runs of MachineController.                          *)
EXTENDS MachineController, TLC

CONSTANTS a, b      \* machine types

MCGuestType == [g \in Guest |-> a]
MCCapacity1 == [t \in MachineType |-> 1]

SpecOf(types, n, pooled) ==
    [types |-> types, available |-> [t \in MachineType |-> n], pooled |-> pooled]

(* One type, its quantity raised and lowered, its only node removed.       *)
SpecsOfOneType ==
    {SpecOf({a}, 1, {a}), SpecOf({a}, 0, {a}), SpecOf({a}, 1, {})}
(* One type with a fixed quantity.                                         *)
SpecOneOfA == {SpecOf({a}, 1, {a})}
(* A second type comes, and the first, which has a machine, no longer      *)
(* wants it or goes.  The second has no node, so that few Pods are about.  *)
SpecsOfTwoTypes ==
    {[types |-> {a}, available |-> (a :> 1 @@ b :> 0), pooled |-> {a}],
     [types |-> {a, b}, available |-> (a :> 0 @@ b :> 1), pooled |-> {a}],
     [types |-> {b}, available |-> (a :> 0 @@ b :> 1), pooled |-> {}]}
=============================================================================
