--------------------------- MODULE MCSessionStore ---------------------------
EXTENDS SessionStore

Limits(send, session, reconnect, early, crash, failure, discard) ==
  [send |-> send, session |-> session, reconnect |-> reconnect, early |-> early,
   crash |-> crash, failure |-> failure, discard |-> discard]

(* A crash between the steps; every fault at once; crashes, faults and discards. *)
Scenarios == {Limits(2, 2, 0, 0, 1, 0, 0), Limits(1, 1, 1, 1, 0, 1, 1), Limits(1, 1, 0, 1, 1, 1, 1)}
=============================================================================
