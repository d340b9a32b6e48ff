--------------------------- MODULE MCAttachments ---------------------------
EXTENDS Attachments

CONSTANTS ann, bob

Limits(file, signIn, signOut, window, crash, cut, deaf) ==
  [file |-> file, signIn |-> signIn, signOut |-> signOut, window |-> window, crash |-> crash,
   cut |-> cut, deaf |-> deaf]

(* Three uploads under way at once; a sign-out over uploads; windows that end; a restart, and a *)
(* second account; a connection cut and a media host that goes.                                 *)
Scenarios ==
  {Limits(3, 1, 0, 0, 0, 0, 0), Limits(2, 1, 1, 0, 0, 0, 0), Limits(2, 1, 0, 1, 0, 0, 0),
   Limits(2, 2, 0, 0, 1, 0, 0), Limits(2, 1, 0, 0, 0, 1, 1)}
=============================================================================
