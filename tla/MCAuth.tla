------------------------------- MODULE MCAuth -------------------------------
(* Auth on small instances.  Tokens, sessions and slots are interchangeable*)
(* (users, of whom not all return, and devices are not).                   *)
EXTENDS Auth, TLC

Phone == [ip |-> "home", agent |-> "phone"]
Laptop == [ip |-> "home", agent |-> "laptop"]
NoName == [ip |-> "home", agent |-> NoAgent]
NoNameAtAll == [ip |-> NoAddress, agent |-> NoAgent]

CONSTANT Guest  \* who uses but the device that does not name its agent

(* A device that names its agent, one that does not, one without address.  *)
AllKinds == {Phone, NoName, NoNameAtAll}
KindsUsed == ((Users \ {Guest}) \X AllKinds) \cup {<<Guest, NoName>>}

(* Two agents at one address.                                              *)
TwoAgents == {Phone, Laptop}
AgentsUsed == Users \X TwoAgents

Symmetry ==
  Permutations(Tokens) \cup Permutations(Sessions) \cup Permutations(Requests)
=============================================================================
