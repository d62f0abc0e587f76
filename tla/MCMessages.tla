----------------------------- MODULE MCMessages -----------------------------
(* Messages for TLC: messages and slots are interchangeable; users are not,*)
(* since some of them post, read or are admins.                            *)
EXTENDS Messages, TLC

Symmetry == Permutations(Messages) \cup Permutations(Requests)
=============================================================================
