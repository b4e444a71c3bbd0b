---------------------------- MODULE NodePoolHistory ----------------------------
(***************************************************************************)
(* NodePoolController with a history variable: the Nodes whose changes     *)
(* never reach the controller.  The predicates drop the event of a Node    *)
(* that joins, and no event of a Node without the annotation names a pool. *)
(* The liveness of the marks needs them to say which Nodes it speaks of;   *)
(* the variable restricts no step.                                         *)
(***************************************************************************)
EXTENDS NodePoolController

VARIABLE lost   \* Nodes that lost the annotation, or joined anew

(* A Node leaves with its annotation, a user takes it away, or a Node      *)
(* joins.  What the reconciler itself cleans is not lost.                  *)
Lose(n) ==
    /\ UNCHANGED workerVars
    /\ \/ node[n].mine /\ ~node'[n].mine
       \/ ~node[n].exists /\ node'[n].exists

(* A Node that is annotated after all - by a reconcile that something else *)
(* brought about - is found again.                                         *)
Remember == lost' = {n \in Node : ~node'[n].mine /\ (n \in lost \/ Lose(n))}

HistoryInit == Init /\ lost = {}
HistoryNext == Next /\ Remember

HistorySpec == HistoryInit /\ [][HistoryNext]_<<vars, lost>> /\ Fairness

(* However pool and Nodes were disturbed, in the end each Node of the pool *)
(* is annotated, marked and reported as it should be, and stays so.  Only  *)
(* for one that lost its annotation or joined anew, and that the           *)
(* controller did not come by since, nothing is claimed: no event of it    *)
(* names the pool.                                                         *)
EventuallyMarked ==
    Unrefused =>
        <>[](pool.exists =>
                \A k \in DOMAIN pool.spec :
                    pool.spec[k].node \notin lost =>
                        node[pool.spec[k].node].mine /\ Settled(k))
=============================================================================
