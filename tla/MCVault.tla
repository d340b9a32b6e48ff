------------------------------- MODULE MCVault -------------------------------
EXTENDS Vault

CONSTANTS old, new, m1, m2, m3, c1, c2, c3

Limits(signIn, logOut, reload, failure, changes, send, type) ==
  [signIn |-> signIn, logOut |-> logOut, reload |-> reload, failure |-> failure,
   change |-> changes, send |-> send, type |-> type]

Device(own, drafts, clear, limits) ==
  [own |-> own, drafts |-> drafts, legacy |-> clear, left |-> limits]

(* A send over a sign-out and a full box; a draft typed over a load; the change of password with *)
(* a write refused, with a draft typed, over a reload and over a sign-out; writes refused.       *)
Scenarios ==
  {Device(<<m1, m2>>, <<c1>>, {c2}, Limits(2, 1, 0, 0, 0, 1, 0)),
   Device(<<m1>>, <<c1, c2>>, {}, Limits(2, 1, 0, 0, 0, 0, 1)),
   Device(<<>>, <<c1>>, {}, Limits(1, 0, 0, 1, 1, 0, 0)),
   Device(<<>>, <<c1>>, {}, Limits(1, 0, 0, 0, 1, 0, 1)),
   Device(<<>>, <<>>, {}, Limits(2, 0, 1, 0, 1, 0, 0)),
   Device(<<>>, <<>>, {}, Limits(1, 1, 0, 0, 1, 0, 0)),
   Device(<<m1>>, <<c1>>, {c2}, Limits(1, 0, 0, 2, 0, 1, 1)),
   Device(<<>>, <<c1, c2>>, {c3}, Limits(2, 0, 1, 0, 0, 0, 1))}

(* The change of password and one reload. *)
CutShort == {Device(<<>>, <<>>, {}, Limits(1, 0, 1, 0, 1, 0, 0))}
=============================================================================
