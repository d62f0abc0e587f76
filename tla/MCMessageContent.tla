-------------------------- MODULE MCMessageContent --------------------------
(* MessageContent on small instances.  The slots are interchangeable; the  *)
(* run with a liveness property does without symmetry.                     *)
EXTENDS MessageContent, TLC

Symmetry == Permutations(Requests) \cup Permutations(Contents)
=============================================================================
