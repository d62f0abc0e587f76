-------------------------------- MODULE Post --------------------------------
(***************************************************************************)
(* What the API promises of a message, seen from outside: it is published  *)
(* once, and its text changes, by changes accepted while it was up.  Once  *)
(* taken down it is not found again and no change of it is accepted.  The  *)
(* lists that do not look whether it was taken down have it without text;  *)
(* only a change accepted before puts a text there, and each only once.    *)
(* Nothing is said of searches, which follow in their own time.            *)
(***************************************************************************)
CONSTANTS
  Messages, Contents, Requests,
  NotYet,   \* the message has not been posted
  Gone,     \* it has been taken down
  Empty     \* it has no text

VARIABLES
  shown,    \* what a reader who asks for each message is shown
  listed,   \* its text in the lists that do not look whether it is up
  open      \* the accepted requests to change it or to take it down

Publish(m, c) ==
  /\ shown[m] = NotYet
  /\ shown' = [shown EXCEPT ![m] = c]
  /\ listed' = [listed EXCEPT ![m] = c]
  /\ UNCHANGED open

Accept(m, r) ==
  /\ shown[m] \in Contents
  /\ r \notin open[m]
  /\ open' = [open EXCEPT ![m] = @ \cup {r}]
  /\ UNCHANGED <<shown, listed>>

Closes(m, r) == r \in open[m] /\ open' = [open EXCEPT ![m] = @ \ {r}]

Change(m, r, c) ==
  /\ Closes(m, r)
  /\ shown[m] \in Contents
  /\ shown' = [shown EXCEPT ![m] = c]
  /\ listed' = [listed EXCEPT ![m] = c]

TakeDown(m, r) ==
  /\ Closes(m, r)
  /\ shown' = [shown EXCEPT ![m] = Gone]
  /\ listed' = [listed EXCEPT ![m] = Empty]

ChangeLate(m, r, c) ==
  /\ Closes(m, r)
  /\ shown[m] = Gone
  /\ listed' = [listed EXCEPT ![m] = c]
  /\ UNCHANGED shown

PostInit ==
  /\ shown = [m \in Messages |-> NotYet]
  /\ listed = [m \in Messages |-> Empty]
  /\ open = [m \in Messages |-> {}]

PostNext ==
  \E m \in Messages :
    \/ \E c \in Contents : Publish(m, c)
    \/ \E r \in Requests : Accept(m, r) \/ TakeDown(m, r)
    \/ \E r \in Requests, c \in Contents : Change(m, r, c) \/ ChangeLate(m, r, c)

PostSpec == PostInit /\ [][PostNext]_<<shown, listed, open>>
=============================================================================
