-------------------------------- MODULE MCFeed --------------------------------
(* Accounts, devices and scenarios for the runs of Feed. *)
EXTENDS Feed, TLC

CONSTANTS alice, bob, a1, a2, b1, thumb, heart

Owners == (a1 :> alice) @@ (a2 :> alice) @@ (b1 :> bob)

Some(bounds) == [what \in Counted |-> IF what \in DOMAIN bounds THEN bounds[what] ELSE 0]

Two == {a1, b1}

All == {a1, a2, b1}

One == {{a1}, {b1}}

Case(kind, on, targets_, bounds) ==
  [channel |-> kind, on |-> on, targets |-> targets_, left |-> Some(bounds)]

(* The passing run.  A direct conversation: histories, corrections and deletions against live      *)
(* messages; handlers of one read; a second screen; a connection lost, a restart, a clock set      *)
(* back; expiry; an envelope; a block.  The public channel: pages, handlers of one read, the       *)
(* weekly clean-up, a reader that stalls, a connection lost.                                       *)
Scenarios ==
  {Case("direct", Two, One, [post |-> 2, page |-> 1, delete |-> 1]),
   Case("direct", Two, One, [post |-> 2, page |-> 1, edit |-> 1]),
   Case("direct", Two, One, [post |-> 1, react |-> 2, page |-> 1]),
   Case("direct", Two, One, [post |-> 1, pair |-> 1, react |-> 1, delete |-> 1, edit |-> 1]),
   Case("direct", Two, One, [post |-> 2, pair |-> 1, quote |-> 1, untrack |-> 1]),
   Case("direct", All, {{a1, a2}, {a2, b1}}, [post |-> 2, page |-> 1]),
   Case("direct", Two, One, [post |-> 1, delete |-> 1, drop |-> 1, connect |-> 1]),
   Case("direct", Two, One, [post |-> 2, restart |-> 1, connect |-> 1, back |-> 1]),
   Case("direct", Two, One, [post |-> 1, reload |-> 1, connect |-> 1, page |-> 1]),
   Case("direct", Two, One, [post |-> 2, ttl |-> 1, expired |-> 1, tick |-> 1]),
   Case("direct", Two, One, [post |-> 1, ttl |-> 1, expired |-> 1, tick |-> 1, edit |-> 1]),
   Case("direct", Two, {{}}, [post |-> 1, edit |-> 1, page |-> 1]),
   Case("direct", Two, One, [post |-> 2, block |-> 2]),
   Case("public", Two, {}, [post |-> 3, page |-> 1, delete |-> 1]),
   Case("public", {a1}, {}, [post |-> 3, page |-> 2, tick |-> 1]),
   Case("public", Two, {}, [post |-> 1, edit |-> 1, react |-> 1, pair |-> 1, delete |-> 1]),
   Case("public", Two, {}, [post |-> 3, week |-> 1]),
   Case("public", Two, {}, [post |-> 2, stall |-> 1, delete |-> 1, page |-> 1]),
   Case("public", Two, {}, [post |-> 1, edit |-> 1, drop |-> 1, connect |-> 1])}
=============================================================================
