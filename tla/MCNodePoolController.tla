------------------------- MODULE MCNodePoolController -------------------------
(* Constants for TLC's runs of NodePoolController.                          *)
EXTENDS NodePoolController

CONSTANTS n1, n2, a, b

MCEntry(n, mode, taint, type) ==
    [node |-> n, mode |-> mode, taint |-> taint, types |-> {type}]

(* One Node goes to maintenance and is tainted; a second joins.            *)
SpecsOfTwoNodes ==
    {<<MCEntry(n1, "ready", TRUE, a)>>,
     <<MCEntry(n1, "maintenance", TRUE, a)>>,
     <<MCEntry(n1, "ready", FALSE, a), MCEntry(n2, "ready", TRUE, b)>>}
SpecTwoNodes == {<<MCEntry(n1, "ready", FALSE, a), MCEntry(n2, "ready", TRUE, b)>>}
(* One Node changes its machine type and loses its taint.                  *)
SpecsOfOneNode == {<<MCEntry(n1, "ready", TRUE, a)>>, <<MCEntry(n1, "ready", FALSE, b)>>}
===============================================================================
