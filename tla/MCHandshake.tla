---------------------------- MODULE MCHandshake ----------------------------
(* Accounts, their devices and the scenarios for the runs of Handshake. *)
EXTENDS Handshake, TLC

CONSTANTS alice, bob, a1, a2, b1, b2

Users == {<<alice, a1>>, <<alice, a2>>, <<bob, a1>>, <<bob, b1>>, <<bob, b2>>}

OnA1B1 == (a1 :> alice) @@ (b1 :> bob) @@ [d \in Device |-> None]

OnA1A2B1 == (a2 :> alice) @@ OnA1B1

OnA1B1B2 == (b2 :> bob) @@ OnA1B1

(* Bounds; only on the devices of "on" does anybody sign in again. *)
Bounds(t, p, o, u, c, r, n, on) ==
  [ticks |-> t, posts |-> p, opens |-> o, uploads |-> u, crashes |-> c, reinstalls |-> r,
   calls |-> n] @@ [d \in Device |-> IF d \in on THEN 1 ELSE 0]

(* The passing run: bodies opened side by side; keys rotated and bundles forgotten; keys thrown *)
(* away; a crash and a restart; two screens; another account on the same device.                *)
Scenarios ==
  {[users |-> OnA1B1, left |-> Bounds(0, 2, 3, 0, 0, 0, 2, {})],
   [users |-> OnA1B1, left |-> Bounds(2, 1, 2, 1, 0, 0, 1, {})],
   [users |-> OnA1B1, left |-> Bounds(0, 2, 1, 0, 0, 1, 1, {b1})],
   [users |-> OnA1B1, left |-> Bounds(0, 1, 2, 0, 1, 0, 1, {b1})],
   [users |-> OnA1A2B1, left |-> Bounds(0, 1, 2, 0, 0, 0, 1, {})],
   [users |-> OnA1B1, left |-> Bounds(0, 1, 1, 0, 0, 0, 1, {a1})]}
=============================================================================
