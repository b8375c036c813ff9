------------------------------ MODULE MCParts ------------------------------
(* The parts with small constants.  One change is not reported, one is of  *)
(* an object whose namespace is gone, and the last one finds the queue     *)
(* full if the worker is slow.                                             *)
EXTENDS Parts

MCChanges ==
  <<[reason |-> "ready", refs |-> {"x", "y"}], [reason |-> "error", refs |-> {"x"}],
    [reason |-> "ready", refs |-> {"gone"}], [reason |-> "ready", refs |-> {"z"}]>>
=============================================================================
