---- MODULE MCPresence ----
EXTENDS Presence

CONSTANTS alice, s1, s2

Owner == [s \in {s1, s2} |-> alice]
====
