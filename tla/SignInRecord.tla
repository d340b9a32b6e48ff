---------------------------- MODULE SignInRecord ----------------------------
(***************************************************************************)
(* What a browser profile keeps to sign in again, and the key it is under. *)
(*                                                                         *)
(* The record lies in localStorage, sealed under a key IndexedDB holds and *)
(* nobody can read out, or, where a browser cannot hold one, under a key   *)
(* derived from the browser's own details and a salt beside the record.    *)
(* Every tab of the profile shares the record, the key and the salt; each  *)
(* has its own cached key, its own open database, and calls that wait for  *)
(* IndexedDB, for a derivation or for a cipher between their steps.        *)
(***************************************************************************)
EXTENDS Naturals, Sequences

CONSTANTS
  Tab,       \* pages of one browser profile
  Call,      \* places for a call that runs
  Secret,    \* what a record holds: an account and its password
  Old,       \* the salt of an installation from before the device key
  Scenario,  \* bounds: how often each thing may happen
  None

ASSUME SignInRecordAssumption ==
  /\ None \notin Secret \cup Nat
  /\ None \notin [scheme : {"device", "fingerprint"}, key : Nat \cup {Old}, secret : Secret]
  /\ Old \notin Nat
  /\ None # Old
  /\ Scenario \subseteq [{"signIn", "launch", "change", "signOut", "reload", "open", "request"} -> Nat]

VARIABLES
  canHold,  \* whether this browser has an IndexedDB that can be asked to open
  idb,      \* the wrapping key in IndexedDB
  record,   \* wn_auth
  salt,     \* wn_fingerprint_salt
  tab,      \* what each tab keeps in memory
  call,     \* the calls that run
  made,     \* keys and salts generated so far
  faults,   \* history: what has gone wrong so far
  left      \* what of the scenario's bounds is left

vars == <<canHold, idb, record, salt, tab, call, made, faults, left>>

Spend(what) == left[what] > 0 /\ left' = [left EXCEPT ![what] = @ - 1]

NewTab == [cached |-> None, making |-> "no", open |-> FALSE, blind |-> FALSE]

NoCall ==
  [tab |-> None, op |-> "none", at |-> "done", found |-> None, copy |-> None, answer |-> None,
   new |-> None, todo |-> <<>>, key |-> None]

Boxed(scheme, k, s) == [scheme |-> scheme, key |-> k, secret |-> s]

Init ==
  /\ canHold \in BOOLEAN
  /\ idb = None
  /\ \/ record = None /\ salt = None
     \/ \E s \in Secret : record = Boxed("fingerprint", Old, s) /\ salt = Old
  /\ tab = [t \in Tab |-> NewTab]
  /\ call = [c \in Call |-> NoCall]
  /\ made = 0
  /\ faults = {}
  /\ left \in Scenario

-----------------------------------------------------------------------------
(* The database.  Only one that opened is memoised; an attempt that failed *)
(* is forgotten, and one that cannot be made at all is remembered.         *)

Opens(t) == canHold

FailsToOpen(t) == canHold /\ ~tab[t].open /\ Spend("open") /\ faults' = faults \cup {"open"}

FailsToAnswer(t) == canHold /\ Spend("request") /\ faults' = faults \cup {"request"}

(* An access that comes to nothing, and what the tab remembers of it.      *)
OpenFails(t, m) ==
  \/ ~canHold /\ tab' = [tab EXCEPT ![t].blind = TRUE, ![t].making = m] /\ UNCHANGED <<faults, left>>
  \/ FailsToOpen(t) /\ tab' = [tab EXCEPT ![t].making = m]

AccessFails(t, m) ==
  \/ OpenFails(t, m)
  \/ FailsToAnswer(t) /\ tab' = [tab EXCEPT ![t].open = TRUE, ![t].making = m]

-----------------------------------------------------------------------------
(* A call, from one wait to the next.                                      *)

(* deviceKey: the cached key, or the answer of the one generation in       *)
(* flight, which this call starts if there is none.                        *)
Asking(t) ==
  IF tab[t].cached = None /\ tab[t].making = "no" THEN [tab[t] EXCEPT !.making = "get"] ELSE tab[t]

(* Where storePassword stands with the key it was given.                   *)
(* Mutant: without a key the fallback is taken, whatever the reason.  *)
Storing_Weakly(x, k) == [x EXCEPT !.key = k, !.at = IF k = None THEN "legacy" ELSE "seal"]

Storing(x, k) == [x EXCEPT !.key = k, !.at = IF k = None THEN "works" ELSE "seal"]

(* What readStoredAuth's caller does with the answer: a launch goes on to  *)
(* connect, a change of password stores the new one if the old was right.  *)
Answered(x, a, first) ==
  [x EXCEPT !.copy = None, !.answer = a,
            !.todo = first \o (IF x.op = "change" /\ a # None /\ a # x.new THEN <<x.new>> ELSE <<>>)]

(* A caller of deviceKey gets its answer.                                  *)
Given(x, k) ==
  IF x.copy = None THEN Storing(x, k)
  ELSE LET a == IF k # None /\ k = x.copy.key THEN x.copy.secret ELSE None
           y == Answered(x, a, <<>>)
       IN IF y.todo = <<>> THEN [y EXCEPT !.at = "done"] ELSE Storing(y, k)

Asks(c, x) ==
  /\ tab' = [tab EXCEPT ![x.tab] = Asking(x.tab)]
  /\ call' = [call EXCEPT ![c] =
       IF tab[x.tab].cached # None THEN Given(x, tab[x.tab].cached) ELSE [x EXCEPT !.at = "key"]]

(* A store is over; an upgrade within a change is followed by the new one. *)
Stored(c) ==
  LET x == [call[c] EXCEPT !.todo = Tail(@), !.key = None]
  IN IF x.todo # <<>> THEN Asks(c, x)
     ELSE /\ call' = [call EXCEPT ![c] = [x EXCEPT !.at = IF x.op = "signIn" THEN "retire" ELSE "done"]]
          /\ UNCHANGED tab

-----------------------------------------------------------------------------
(* What the app asks for.                                                  *)

(* The server let this account in, and its password is kept.               *)
SignIn(c, t, s) ==
  /\ call[c].at = "done" /\ Spend("signIn")
  /\ Asks(c, [NoCall EXCEPT !.tab = t, !.op = "signIn", !.todo = <<s>>])
  /\ UNCHANGED <<canHold, idb, record, salt, made, faults>>

(* A page opens, or a password is changed: the record is read.             *)
(* Mutant: a record of the old scheme is read under the device key.  *)
Read_New(c, t, op, s) ==
  LET x == [NoCall EXCEPT !.tab = t, !.op = op, !.new = s, !.found = record, !.copy = record]
  IN /\ call[c].at = "done" /\ record # None
     /\ Asks(c, x)
     /\ UNCHANGED <<canHold, idb, record, salt, made, faults>>

Read(c, t, op, s) ==
  LET x == [NoCall EXCEPT !.tab = t, !.op = op, !.new = s, !.found = record, !.copy = record]
  IN /\ call[c].at = "done" /\ record # None
     /\ IF record.scheme = "device" THEN Asks(c, x)
        ELSE call' = [call EXCEPT ![c] = [x EXCEPT !.at = "oldKey"]] /\ UNCHANGED tab
     /\ UNCHANGED <<canHold, idb, record, salt, made, faults>>

Launch(c, t) == Spend("launch") /\ Read(c, t, "launch", None)

ChangePassword(c, t, s) == Spend("change") /\ Read(c, t, "change", s)

(* clearStoredAuth.                                                        *)
SignOut ==
  /\ record # None /\ Spend("signOut")
  /\ record' = None
  /\ UNCHANGED <<canHold, idb, salt, tab, call, made, faults>>

(* A tab's memory goes, and the calls it was running.                      *)
Reload(t) ==
  /\ tab[t] # NewTab /\ Spend("reload")
  /\ tab' = [tab EXCEPT ![t] = NewTab]
  /\ call' = [c \in Call |-> IF call[c].tab = t THEN NoCall ELSE call[c]]
  /\ UNCHANGED <<canHold, idb, record, salt, made, faults>>

-----------------------------------------------------------------------------
(* The wrapping key.                                                       *)

Waiting(t) == {c \in Call : call[c].tab = t /\ call[c].at = "key"}

Answer(t, k) == call' = [c \in Call |-> IF c \in Waiting(t) THEN Given(call[c], k) ELSE call[c]]

(* The first access: the key that is there.  A failure reads as absence.   *)
KeyFound(t) ==
  /\ tab[t].making = "get" /\ Opens(t) /\ idb # None
  /\ tab' = [tab EXCEPT ![t].cached = idb, ![t].making = "no", ![t].open = TRUE]
  /\ Answer(t, idb)
  /\ UNCHANGED <<canHold, idb, record, salt, made, faults, left>>

KeyMissing(t) ==
  /\ tab[t].making = "get"
  /\ \/ /\ Opens(t) /\ idb = None
        /\ tab' = [tab EXCEPT ![t].making = "put", ![t].open = TRUE]
        /\ faults' = IF \E u \in Tab : tab[u].making = "put" THEN faults \cup {"tabs"} ELSE faults
        /\ UNCHANGED left
     \/ AccessFails(t, "put")
  /\ UNCHANGED <<canHold, idb, record, salt, call, made>>

(* The second access: a key of this tab's own, whatever is there by now.   *)
KeyKept(t) ==
  /\ tab[t].making = "put" /\ Opens(t)
  /\ idb' = made + 1 /\ made' = made + 1
  /\ tab' = [tab EXCEPT ![t].cached = made + 1, ![t].making = "no", ![t].open = TRUE]
  /\ Answer(t, made + 1)
  /\ UNCHANGED <<canHold, record, salt, faults, left>>

KeyRefused(t) ==
  /\ tab[t].making = "put"
  /\ AccessFails(t, "no")
  /\ Answer(t, None)
  /\ UNCHANGED <<canHold, idb, record, salt, made>>

-----------------------------------------------------------------------------
(* Storing.                                                                *)

Seal(c) ==
  /\ call[c].at = "seal"
  /\ record' = Boxed("device", call[c].key, Head(call[c].todo))
  /\ Stored(c)
  /\ UNCHANGED <<canHold, idb, salt, made, faults, left>>

(* deviceKeyStorageWorks: no key, and the database opens: nothing is kept. *)
Refuse(c) ==
  LET t == call[c].tab
      x == [call[c] EXCEPT !.todo = Tail(@)]
  IN /\ call[c].at = "works" /\ Opens(t)
     /\ IF x.todo = <<>>
        THEN /\ tab' = [tab EXCEPT ![t].open = TRUE]
             /\ call' = [call EXCEPT ![c] = [x EXCEPT !.at = IF x.op = "signIn" THEN "retire" ELSE "done"]]
        ELSE /\ tab' = [tab EXCEPT ![t] = [Asking(t) EXCEPT !.open = TRUE]]
             /\ call' = [call EXCEPT ![c] = IF tab[t].cached # None THEN Given(x, tab[t].cached)
                                            ELSE [x EXCEPT !.at = "key"]]
     /\ UNCHANGED <<canHold, idb, record, salt, made, faults, left>>

(* It does not open: this browser is taken for one that cannot hold a key. *)
Despair(c) ==
  /\ call[c].at = "works"
  /\ OpenFails(call[c].tab, tab[call[c].tab].making)
  /\ call' = [call EXCEPT ![c].at = "legacy"]
  /\ UNCHANGED <<canHold, idb, record, salt, made>>

(* fingerprintSalt: the one that is there, or a new one.                   *)
Salted == IF salt = None THEN salt' = made + 1 /\ made' = made + 1 ELSE UNCHANGED <<salt, made>>

Derive(c) ==
  /\ call[c].at = "legacy"
  /\ Salted
  /\ call' = [call EXCEPT ![c].key = salt', ![c].at = "sealOld"]
  /\ UNCHANGED <<canHold, idb, record, tab, faults, left>>

SealOld(c) ==
  /\ call[c].at = "sealOld"
  /\ record' = Boxed("fingerprint", call[c].key, Head(call[c].todo))
  /\ Stored(c)
  /\ UNCHANGED <<canHold, idb, salt, made, faults, left>>

(* retireLegacyFingerprint, once the record is under the device key.       *)
(* Mutant: whatever the record is under.  *)
MayRetire_Any == record # None

MayRetire == record # None /\ record.scheme = "device"

Retire(c) ==
  /\ call[c].at = "retire"
  /\ call' = [call EXCEPT ![c].at = "done"]
  /\ IF MayRetire
     THEN /\ salt' = None
          /\ faults' = IF \E d \in Call : call[d].at = "oldKey" THEN faults \cup {"retired"} ELSE faults
     ELSE UNCHANGED <<salt, faults>>
  /\ UNCHANGED <<canHold, idb, record, tab, made, left>>

-----------------------------------------------------------------------------
(* Reading a record of the old scheme; one that opens is written again.    *)

Upgrade(c) ==
  LET x == call[c]
  IN /\ x.at = "oldKey" /\ salt = x.copy.key
     /\ Asks(c, Answered(x, x.copy.secret, <<x.copy.secret>>))
     /\ UNCHANGED <<canHold, idb, record, salt, made, faults, left>>

Unreadable(c) ==
  /\ call[c].at = "oldKey" /\ salt # call[c].copy.key
  /\ Salted
  /\ call' = [call EXCEPT ![c].at = "done", ![c].copy = None]
  /\ UNCHANGED <<canHold, idb, record, tab, faults, left>>

-----------------------------------------------------------------------------
KeyStep(t) == KeyFound(t) \/ KeyMissing(t) \/ KeyKept(t) \/ KeyRefused(t)

CallStep(c) ==
  Seal(c) \/ Refuse(c) \/ Despair(c) \/ Derive(c) \/ SealOld(c) \/ Retire(c) \/ Upgrade(c) \/ Unreadable(c)

Next ==
  \/ \E c \in Call, t \in Tab, s \in Secret : SignIn(c, t, s) \/ ChangePassword(c, t, s)
  \/ \E c \in Call, t \in Tab : Launch(c, t)
  \/ SignOut
  \/ \E t \in Tab : KeyStep(t) \/ Reload(t)
  \/ \E c \in Call : CallStep(c)

Spec == Init /\ [][Next]_vars

-----------------------------------------------------------------------------
(* Properties.                                                             *)

Keys == Nat \cup {None, Old}

CallType ==
  [tab : Tab \cup {None}, op : {"none", "signIn", "launch", "change"},
   at : {"done", "key", "works", "seal", "legacy", "sealOld", "retire", "oldKey"},
   found : [scheme : {"device", "fingerprint"}, key : Keys, secret : Secret] \cup {None},
   copy : [scheme : {"device", "fingerprint"}, key : Keys, secret : Secret] \cup {None},
   answer : Secret \cup {None}, new : Secret \cup {None}, todo : Seq(Secret), key : Keys]

(* The tab whose database is open does not think there is none, and a call *)
(* that waits for the key waits for a generation that runs.                *)
TypeOK ==
  /\ idb \in Nat \cup {None} /\ salt \in Keys /\ made \in Nat
  /\ \A t \in Tab :
       /\ tab[t].making \in {"no", "get", "put"}
       /\ tab[t].open => canHold
       /\ tab[t].blind => ~canHold
       /\ Waiting(t) # {} => tab[t].making # "no"
  /\ \A c \in Call : call[c] \in CallType

(* Calls overlap in every tab and sign-ins, launches, sign-outs, changes   *)
(* of password and reloads come as they like: as long as no access to      *)
(* IndexedDB fails, no two tabs make a key at the same time and nobody's   *)
(* salt is retired as they read, the record opens under the key that is    *)
(* kept, and no tab caches another.                                        *)
RecordOpens ==
  faults = {} =>
    /\ record # None => record.key = IF record.scheme = "device" THEN idb ELSE salt
    /\ \A t \in Tab : tab[t].cached \in {None, idb}

(* Under the same conditions a record that was there when a page opened    *)
(* tells it what to sign in with, under either scheme.                     *)
ReadsTell ==
  faults = {} =>
    \A c \in Call :
      (call[c].at = "done" /\ call[c].op \in {"launch", "change"}) => call[c].answer = call[c].found.secret

(* A key that could not be read or kept for any reason but a database that *)
(* did not open makes storePassword refuse: the browser that can hold a    *)
(* key writes nothing new under its own details.                           *)
FallbackIsForTheUnable ==
  [][(canHold /\ "open" \notin faults /\ record' # record /\ record' # None) => record'.scheme = "device"]_vars

-----------------------------------------------------------------------------
(* What the comments promise and the code does not keep.  No run checks    *)
(* these; README.md says where they fail.                                  *)

(* A live IndexedDB whose open failed this time is retried rather than     *)
(* believed: only a permanent absence authorises the fallback.             *)
OnlyAbsenceFallsBack ==
  [][(record' # record /\ record' # None /\ record'.scheme = "fingerprint") => ~canHold]_vars

(* The wrapping key is created once per profile.                           *)
KeyIsCreatedOnce == [][idb # None => idb' = idb]_vars

(* The stored password is forgotten, so the next launch asks for it again: *)
(* nothing that was running at the sign-out writes it back.                *)
SignOutForgets ==
  [][(record = None /\ record' # None) =>
       \E c \in Call : call[c].op = "signIn" /\ call[c].at \in {"seal", "sealOld"}]_vars
=============================================================================
