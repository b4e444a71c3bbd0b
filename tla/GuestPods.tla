------------------------------ MODULE GuestPods ------------------------------
(***************************************************************************)
(* What the Pod resource injector promises, whatever requests and caches   *)
(* do: a Pod becomes a guest only by an admission that fits it to its      *)
(* machine, stays as it was admitted for as long as it is a guest, and     *)
(* leaves.  No guest is ever changed, and none changes its machine type.   *)
(***************************************************************************)
EXTENDS PodInjection

CONSTANTS
    Name,   \* names of Pods
    Nodes   \* the Nodes a Pod may find

VARIABLE guests   \* the stored guest of each name, or NoPod

Init == guests = [n \in Name |-> NoPod]

Admit(n) ==
    /\ guests[n] = NoPod
    /\ guests'[n] # NoPod
    /\ FitsReservation(guests'[n], Nodes)
    /\ guests' = [guests EXCEPT ![n] = guests'[n]]

(* It is deleted, or stops being a guest.                                  *)
Leave(n) ==
    /\ guests[n] # NoPod
    /\ guests' = [guests EXCEPT ![n] = NoPod]

Next == \E n \in Name : Admit(n) \/ Leave(n)

Spec == Init /\ [][Next]_guests

(* Every guest fits the machine it asks for.                               *)
GuestsFit == \A n \in Name : guests[n] # NoPod => FitsReservation(guests[n], Nodes)
=============================================================================
