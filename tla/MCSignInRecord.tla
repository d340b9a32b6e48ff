--------------------------- MODULE MCSignInRecord ---------------------------
EXTENDS SignInRecord, TLC

CONSTANTS t1, t2, c1, c2, s1, s2

Limits(signIn, launch, change, signOut, reload, open, request) ==
  [signIn |-> signIn, launch |-> launch, change |-> change, signOut |-> signOut, reload |-> reload,
   open |-> open, request |-> request]

(* Everything in two tabs; sign-ins and launches while accesses fail. *)
Scenarios == {Limits(2, 2, 1, 1, 1, 0, 0), Limits(2, 1, 0, 0, 1, 3, 1), Limits(2, 1, 0, 1, 0, 0, 2)}

Symmetry == Permutations(Tab) \cup Permutations(Call) \cup Permutations(Secret)
=============================================================================
