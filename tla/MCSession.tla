----------------------------- MODULE MCSession -----------------------------
(* Bounds for model-checking Session. *)
EXTENDS Session

Bounds(initiator, responder, calls, pairs, failures, idles) ==
  [sends |-> [d \in Device |-> IF d = Initiator THEN initiator ELSE responder],
   opens |-> calls, keys |-> pairs, sealFailures |-> failures, rekeys |-> idles,
   prunes |-> 0, reloads |-> FALSE]

Full(bounds) == [bounds EXCEPT !.prunes = 1]

Stored(bounds) == [Full(bounds) EXCEPT !.reloads = TRUE]

(* Two bodies each way, two opens of one device side by side, and failing seals and an *)
(* idle rekey among two opens or among three sends.  With a full quota: five bodies    *)
(* one way, which run past a window of two held keys; and with restarts too: four one  *)
(* way, and two with an answer, which turns the ratchet.                               *)
Scenarios ==
  {Bounds(2, 2, 1, 2, 0, 0), Bounds(2, 1, 2, 2, 0, 0), Bounds(1, 2, 2, 2, 0, 0),
   Bounds(2, 1, 2, 3, 1, 1), Bounds(3, 1, 1, 2, 1, 1),
   Full(Bounds(5, 0, 1, 1, 0, 0)),
   Stored(Bounds(4, 0, 1, 1, 0, 0)), Stored(Bounds(2, 1, 1, 2, 0, 0))}
=============================================================================
