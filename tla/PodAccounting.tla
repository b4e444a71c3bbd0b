---------------------------- MODULE PodAccounting ----------------------------
(***************************************************************************)
(* How imperator turns the Pods of a machine type into numbers: which Pods *)
(* count as reserved, used, waiting or unscheduled, and the replica count  *)
(* a reservation StatefulSet gets from them.  The module has no state.     *)
(*                                                                         *)
(* A Pod is the part of corev1.Pod the code looks at:                      *)
(*   phase          "None" (no such Pod), or status.phase                  *)
(*   bound          spec.nodeName is set                                   *)
(*   ready          the ContainersReady condition is True                  *)
(*   unschedulable  the PodScheduled condition is False, "Unschedulable"   *)
(*   deleting       metadata.deletionTimestamp is set                      *)
(***************************************************************************)
EXTENDS Integers, FiniteSets

PodRecord(phase, bound, ready, unschedulable, deleting) ==
    [phase |-> phase, bound |-> bound, ready |-> ready,
     unschedulable |-> unschedulable, deleting |-> deleting]

(* The shapes a Pod passes through.  Only a bound Pod lingers while it is  *)
(* deleted: the API server removes an unbound one at once.                 *)
Absent        == PodRecord("None",      FALSE, FALSE, FALSE, FALSE)
Created       == PodRecord("Pending",   FALSE, FALSE, FALSE, FALSE)
Unschedulable == PodRecord("Pending",   FALSE, FALSE, TRUE,  FALSE)
Creating      == PodRecord("Pending",   TRUE,  FALSE, FALSE, FALSE)
Running       == PodRecord("Running",   TRUE,  TRUE,  FALSE, FALSE)
NotReady      == PodRecord("Running",   TRUE,  FALSE, FALSE, FALSE)
Finished      == PodRecord("Succeeded", TRUE,  FALSE, FALSE, FALSE)
Terminating   == PodRecord("Running",   TRUE,  FALSE, FALSE, TRUE)

PodState == {Absent, Created, Unschedulable, Creating, Running, NotReady,
             Finished, Terminating}

(***************************************************************************)
(* The code's two tests, used for reservation and guest Pods alike.        *)
(***************************************************************************)
RunningOrCreating(p) ==
    /\ ~p.deleting
    /\ \/ p.phase = "Running" /\ p.ready
       \/ p.phase = "Pending" /\ p.bound

NotScheduled(p) ==
    /\ ~p.deleting
    /\ p.phase = "Pending"
    /\ ~p.bound
    /\ p.unschedulable

NumRunningOrCreating(pods, ids) ==
    Cardinality({p \in ids : RunningOrCreating(pods[p])})

getUnscheduledPodNum(pods, ids) ==
    Cardinality({p \in ids : NotScheduled(pods[p])})

(***************************************************************************)
(* One entry of status.availableMachines.  Unlisted stands for no entry.   *)
(***************************************************************************)
Unlisted == [listed |-> FALSE, maximum |-> 0, reserved |-> 0,
             used |-> 0, waiting |-> 0]

(* Mutant: the Pod role is forgotten in the selector of the reserved count.*)
UsageOfAnyRole(pods, reservations, guests, maximum) ==
    [listed   |-> TRUE,
     maximum  |-> maximum,
     reserved |-> NumRunningOrCreating(pods, reservations \cup guests),
     used     |-> NumRunningOrCreating(pods, guests),
     waiting  |-> getUnscheduledPodNum(pods, guests)]

UsageOf(pods, reservations, guests, maximum) ==
    [listed   |-> TRUE,
     maximum  |-> maximum,
     reserved |-> NumRunningOrCreating(pods, reservations),
     used     |-> NumRunningOrCreating(pods, guests),
     waiting  |-> getUnscheduledPodNum(pods, guests)]

(* Mutants: waiting guests are forgotten, or reserved machines subtracted. *)
StsReplicasIgnoringWaiting(usage, unscheduled) ==
    LET rest == usage.maximum - (usage.used + unscheduled)
    IN  IF rest < 0 THEN 0 ELSE rest

StsReplicasLessReserved(usage, unscheduled) ==
    LET rest == usage.maximum - (usage.used + usage.waiting + usage.reserved)
    IN  IF rest < 0 THEN 0 ELSE rest

(* The replica count of a reservation StatefulSet, never below zero.       *)
StsReplicas(usage, unscheduled) ==
    LET rest == usage.maximum - (usage.used + usage.waiting + unscheduled)
    IN  IF rest < 0 THEN 0 ELSE rest
=============================================================================
