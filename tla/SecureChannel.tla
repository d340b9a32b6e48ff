--------------------------- MODULE SecureChannel ---------------------------
(***************************************************************************)
(* What a ratchet session promises its two devices, with no key in sight.  *)
(* A body may be lost, delayed or repeated on the way; what is delivered   *)
(* was sent by the peer and is delivered once.                             *)
(***************************************************************************)
EXTENDS Sequences

CONSTANTS
  Device, Peer(_),
  Ids          \* the names a device can give its bodies

VARIABLES
  sent,        \* sent[d]: the ids of the bodies d released
  delivered    \* delivered[d]: the ids of the peer's bodies d read, in order

Init ==
  /\ sent = [d \in Device |-> {}]
  /\ delivered = [d \in Device |-> <<>>]

Send(d) ==
  \E id \in Ids :
    /\ id \notin sent[d]
    /\ sent' = [sent EXCEPT ![d] = @ \cup {id}]
    /\ UNCHANGED delivered

Deliver(d) ==
  \E id \in sent[Peer(d)] :
    /\ \A i \in DOMAIN delivered[d] : delivered[d][i] # id
    /\ delivered' = [delivered EXCEPT ![d] = Append(@, id)]
    /\ UNCHANGED sent

Next == \E d \in Device : Send(d) \/ Deliver(d)

Spec == Init /\ [][Next]_<<sent, delivered>>

=============================================================================
