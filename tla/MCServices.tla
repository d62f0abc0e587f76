----------------------------- MODULE MCServices -----------------------------
(* Services for TLC: two sockets of one user in one room.                  *)
EXTENDS Services

CONSTANTS alice, bob, s1, s2, k1

Confirmable == {k1, ThumbnailOf(k1)}
OfAlice == [s \in {s1, s2} |-> alice]
=============================================================================
