------------------------------ MODULE Transcript ------------------------------
(***************************************************************************)
(* What the staged chats promise: each transcript grows by one reply at a  *)
(* time, up to its last turn, and by none once the submission has closed.  *)
(***************************************************************************)
EXTENDS Integers, Sequences

CONSTANTS Tasks, TurnCount, Keys

VARIABLES
  said,    \* the replies of each chat, known by their idempotency keys
  closed   \* whether the submission has closed

Say(t, key) ==
  /\ ~closed
  /\ Len(said[t]) < TurnCount[t]
  /\ said' = [said EXCEPT ![t] = Append(@, key)]
  /\ UNCHANGED closed

Close == closed' = TRUE /\ UNCHANGED said

Init == said = [t \in Tasks |-> <<>>] /\ closed = FALSE

Next == Close \/ \E t \in Tasks, key \in Keys : Say(t, key)

Spec == Init /\ [][Next]_<<said, closed>>
=============================================================================
