-------------------------- MODULE MCNodePoolHistory --------------------------
(* The constants of MCNodePoolController for TLC's run of NodePoolHistory.  *)
EXTENDS MCNodePoolController, NodePoolHistory
=============================================================================
