------------------------------ MODULE GuardedPool ------------------------------
(***************************************************************************)
(* What the finalizer of a MachineNodePool promises, whatever is queued,   *)
(* cached or refused: a Node gets a mark of the pool's only while the pool *)
(* is guarded by its finalizer, and a guarded pool goes only after it has  *)
(* been marked for deletion, so that the controller has seen it go.        *)
(*                                                                         *)
(* The pool comes bare, is guarded, waits to be deleted and is gone; what  *)
(* is created afterwards under its name is another pool.                   *)
(***************************************************************************)
CONSTANT Node

VARIABLES
    phase,   \* of the pool: "absent", "bare", "guarded" or "deleting"
    marks    \* the pool's marks on each Node, with their values

vars == <<phase, marks>>

Init == phase = "bare" /\ marks = [n \in Node |-> {}]

Pass(from, to) == phase = from /\ phase' = to /\ UNCHANGED marks

Create  == Pass("absent", "bare")
Guard   == Pass("bare", "guarded")
Delete  == Pass("bare", "absent") \/ Pass("guarded", "deleting")
Release == Pass("deleting", "absent")

Only(n) == marks' = [marks EXCEPT ![n] = marks'[n]] /\ UNCHANGED phase

(* A guarded pool marks a Node, and so does the request that was running   *)
(* when its deletion began.                                                *)
Mark(n) == phase \in {"guarded", "deleting"} /\ Only(n)

(* Anyone takes marks away, at any time.                                   *)
Unmark(n) == marks'[n] \subseteq marks[n] /\ Only(n)

Next ==
    \/ Create
    \/ Guard
    \/ Delete
    \/ Release
    \/ \E n \in Node : Mark(n) \/ Unmark(n)

Spec == Init /\ [][Next]_vars
=============================================================================
