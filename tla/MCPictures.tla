----------------------------- MODULE MCPictures -----------------------------
EXTENDS Pictures

CONSTANTS m1, m2, b1, b2

Sizes == [m \in {m1, m2} |-> IF m = m1 THEN 3 ELSE 1]

Limits(mount, change, signOut) == [mount |-> mount, change |-> change, signOut |-> signOut]

(* Bubbles coming and going; a message changing under its bubble; a sign-out on the way. *)
Scenarios == {Limits(4, 0, 0), Limits(2, 3, 0), Limits(3, 0, 1), Limits(3, 1, 0)}
=============================================================================
