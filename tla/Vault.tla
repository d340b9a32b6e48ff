------------------------------- MODULE Vault -------------------------------
(***************************************************************************)
(* What a device keeps sealed under the account password, through sign-in, *)
(* a change of the password, sign-out and a tab that goes at any moment:   *)
(* the two ratchet stores, the two boxes of module Boxes, the sign-in      *)
(* record and the copy of the account's private key.                       *)
(*                                                                         *)
(* A ratchet store is one salt and the blobs sealed under the key derived  *)
(* from it and the password: the sessions are one blob, the prekeys        *)
(* several, written one after the other.  It opens with a password when    *)
(* every blob is under the key of that password and the salt on the disk.  *)
(* What a store holds is whether it is still what it was at the start:     *)
(* how it changes from message to message is module SessionStore.          *)
(*                                                                         *)
(* One account.  The server compares a sign-in with the hash it made at    *)
(* registration, and no message replaces that hash.                        *)
(***************************************************************************)
EXTENDS Boxes

CONSTANTS
  Registered,   \* the password the account was registered with
  Messages,     \* the ids of the messages it sends
  Channels,     \* the conversations it drafts in
  PreKeyBlobs,  \* how many blobs the prekeys are written as
  Scenario      \* bounds: what the disk holds at first and how often each thing may happen

KeyType == [pass : Password, salt : Nat]

(* A ratchet store whose blobs are those in D, and a change of password. *)
StoreOn(D) == [salt : Nat, blobs : [D -> [key : KeyType, first : BOOLEAN]]]
ChangeOf(D) ==
  [stage : {"sessions", "prekeys", "own", "app", "bundle"}, step : {"derive", "write", "check", "begin"},
   new : Password, undo : [store : StoreOn(D), key : KeyType \cup {None}] \cup {None}]

(* A draft in the box of them. *)
Draft == [key : Channels, text : Int]

ASSUME VaultAssumption ==
  /\ Registered \in Password
  /\ IsFiniteSet(Channels)
  /\ PreKeyBlobs \in Nat \ {0}
  /\ \A D \in SUBSET (1 .. PreKeyBlobs) : None \notin ChangeOf(D)
  /\ Scenario \subseteq
       [own : Seq(Messages), drafts : Seq(Channels), legacy : SUBSET Channels,
        left : [{"signIn", "logOut", "reload", "failure", "change", "send", "type"} -> Nat]]
  /\ \A s \in Scenario : IsInjective(s.drafts)
  /\ None \notin [pass : Password, entries : Seq(Draft)]
  /\ None \notin [pass : Password, generation : Nat, changes : Nat, entries : Seq(Draft)]

VARIABLES
  (* localStorage *)
  store,    \* the ratchet stores: the salt, and each blob's key and whether it is the first one
  record,   \* wn_auth: the password it signs in with
  bundle,   \* wn_pk: the password the private key is sealed under
  (* the tab *)
  auth,     \* authRef: the password of the sign-in, None while signed out
  held,     \* each manager's key, whether it has loaded, what it has of the first contents
  starting, \* startRatchet in flight
  signing,  \* the rest of auth_success in flight
  sending,  \* sends in flight, not yet remembered
  change,   \* a change of password in flight
  (* history *)
  late,     \* the messages remembered while the box had no password
  torn,     \* the stores that a reload or a sign-in met in the middle of a change
  left      \* what of the scenario's bounds is left

stores == <<store, held>>
tab == <<auth, starting, signing, sending>>
vars == <<box, legacy, store, record, bundle, auth, held, starting, signing, sending, change,
          late, torn, left>>

Store == {"sessions", "prekeys"}

Blobs(s) == IF s = "sessions" THEN {1} ELSE 1 .. PreKeyBlobs

Spend(what) == left[what] > 0 /\ left' = [left EXCEPT ![what] = @ - 1]

(* The key derived from a password and a salt. *)
Key(p, salt) == [pass |-> p, salt |-> salt]

Shut == [s \in Store |-> [key |-> None, loaded |-> FALSE, kept |-> {}]]

Entries(ids) == [i \in DOMAIN ids |-> [key |-> ids[i], text |-> 0]]

Sealed(ids) == IF ids = <<>> THEN None ELSE [pass |-> Registered, entries |-> Entries(ids)]

(* A device the account has been used on, its tab not signed in yet. *)
Init ==
  \E s \in Scenario :
    /\ box = [b \in Box |-> Closed(Sealed(IF b = "own" THEN s.own ELSE s.drafts))]
    /\ legacy = s.legacy
    /\ store = [t \in Store |->
                  [salt |-> 0,
                   blobs |-> [i \in Blobs(t) |-> [key |-> Key(Registered, 0), first |-> TRUE]]]]
    /\ record = Registered
    /\ bundle = Registered
    /\ auth = None
    /\ held = Shut
    /\ starting = None
    /\ signing = None
    /\ sending = 0
    /\ change = None
    /\ late = {}
    /\ torn = {}
    /\ left = s.left

-----------------------------------------------------------------------------
(* Signing in.                                                             *)

(* The server takes the registered password only.  What follows the answer *)
(* runs in two strands: startRatchet, which nobody waits for, and the rest *)
(* of the handler.                                                         *)
SignIn ==
  /\ signing = None
  /\ starting = None
  /\ Spend("signIn")
  /\ auth' = Registered
  /\ starting' = [stage |-> "prekeys", salt |-> store["prekeys"].salt]
  /\ signing' = [stage |-> "backup", pass |-> None]
  /\ UNCHANGED <<box, legacy, stores, record, bundle, sending, change, late, torn>>

(* What a load leaves of a store that this key may open or not. *)
Opened(s, key) == {i \in DOMAIN store[s].blobs : store[s].blobs[i].key = key}
Kept(s, key) == {i \in Opened(s, key) : store[s].blobs[i].first}

(* Every blob is written under the key the manager has now. *)
Written(s, key, kept) == [i \in Blobs(s) |-> [key |-> key, first |-> i \in kept]]

(* A sign-in that meets a change of the same store, or comes out after it  *)
(* under the salt from before.                                             *)
Met(s) ==
  IF (change # None /\ change.stage = s) \/ starting.salt # store[s].salt THEN {s} ELSE {}

(* The prekeys are unlocked.  Blobs that do not open are replaced by new   *)
(* ones, and saved when the identity is one of them.                       *)
PreKeysStarted ==
  /\ starting # None
  /\ starting.stage = "prekeys"
  /\ LET key == Key(Registered, starting.salt)
         kept == Kept("prekeys", key)
     IN /\ held' = [held EXCEPT !["prekeys"] = [key |-> key, loaded |-> TRUE, kept |-> kept]]
        /\ store' = IF 1 \in Opened("prekeys", key) THEN store
                    ELSE [store EXCEPT !["prekeys"].blobs = Written("prekeys", key, kept)]
  /\ starting' = [stage |-> "sessions", salt |-> store["sessions"].salt]
  /\ torn' = torn \cup Met("prekeys")
  /\ UNCHANGED <<box, legacy, record, bundle, auth, signing, sending, change, late, left>>

(* The sessions are unlocked.  A store that does not open is removed when  *)
(* the tab holds no session, and otherwise left as it is.                  *)
SessionsStarted ==
  /\ starting # None
  /\ starting.stage = "sessions"
  /\ LET key == Key(Registered, starting.salt)
         opens == Opened("sessions", key) # {}
     IN /\ held' = [held EXCEPT !["sessions"] =
                      [key |-> key, loaded |-> TRUE,
                       kept |-> IF opens THEN Kept("sessions", key) ELSE @.kept]]
        /\ store' = IF opens \/ held["sessions"].kept # {} THEN store
                    ELSE [store EXCEPT !["sessions"].blobs = <<>>]
  /\ starting' = None
  /\ torn' = torn \cup Met("sessions")
  /\ UNCHANGED <<box, legacy, record, bundle, auth, signing, sending, change, late, left>>

(* A manager saves, under the key it has; without one it removes what is   *)
(* there. *)
Save(s) ==
  /\ held[s].loaded
  /\ store' = [store EXCEPT ![s].blobs =
                 IF held[s].key = None THEN <<>> ELSE Written(s, held[s].key, held[s].kept)]
  /\ UNCHANGED <<box, legacy, record, bundle, tab, held, change, late, torn, left>>

(* The key backup has come, or has not.  It is the one uploaded at the     *)
(* first sign-in; then the sign-in record is sealed.                       *)
Fetched ==
  /\ signing # None
  /\ signing.stage = "backup"
  /\ bundle' = IF auth = Registered THEN Registered ELSE bundle
  /\ signing' = IF auth = None THEN None ELSE [stage |-> "record", pass |-> auth]
  /\ UNCHANGED <<box, legacy, stores, record, auth, starting, sending, change, late, torn, left>>

(* The record is written, and the boxes are unlocked if the account is     *)
(* still the one signed in.                                                *)
Recorded ==
  /\ signing # None
  /\ signing.stage = "record"
  /\ record' = signing.pass
  /\ box' = IF auth = None THEN box
            ELSE [own |-> SetOwnPassword(box.own, auth),
                  drafts |-> SetDraftsPassword(box.drafts, auth)]
  /\ signing' = None
  /\ UNCHANGED <<legacy, stores, bundle, auth, starting, sending, change, late, torn, left>>

-----------------------------------------------------------------------------
(* Sending and typing.                                                     *)

(* sendDmPackage up to its awaits. *)
Send ==
  /\ auth # None
  /\ Spend("send")
  /\ sending' = sending + 1
  /\ UNCHANGED <<box, legacy, stores, record, bundle, auth, starting, signing, change, late, torn>>

(* The message has gone out, and its words are kept: whether or not the    *)
(* account is still signed in.                                             *)
Remember ==
  \E id \in Messages \ ({e.key : e \in Range(box.own.tab)} \cup late) :
    /\ sending > 0
    /\ sending' = sending - 1
    /\ box' = [box EXCEPT !.own = RememberOwnMessageText(@, id)]
    /\ late' = IF box.own.pass = None THEN late \cup {id} ELSE late
    /\ UNCHANGED <<legacy, stores, record, bundle, auth, starting, signing, change, torn, left>>

(* A keystroke in a conversation, or the composer cleared. *)
Type ==
  \E c \in Channels, text \in {None, left["type"]} :
    /\ auth # None
    /\ Spend("type")
    /\ box' = [box EXCEPT !.drafts = SetDraft(@, c, text)]
    /\ UNCHANGED <<legacy, stores, record, bundle, tab, change, late, torn>>

-----------------------------------------------------------------------------
(* Changing the password.                                                  *)

Saved(s) == [store |-> store[s], key |-> held[s].key]

(* The old password is checked against the record, and the sessions' rekey *)
(* takes its snapshot.                                                     *)
ChangeBegin ==
  \E p \in Password \ {record} :
    /\ auth # None
    /\ record = auth
    /\ change = None
    /\ Spend("change")
    /\ change' = [stage |-> "sessions", step |-> "derive", new |-> p, undo |-> Saved("sessions")]
    /\ UNCHANGED <<box, legacy, stores, record, bundle, tab, late, torn>>

(* The new key is derived and put in charge. *)
NewSalt(s) == store[s].salt + 1

Derived(s) ==
  /\ change # None
  /\ change.stage = s /\ change.step = "derive"
  /\ held' = [held EXCEPT ![s].key = Key(change.new, NewSalt(s))]
  /\ change' = [change EXCEPT !.step = "write"]
  /\ UNCHANGED <<box, legacy, store, record, bundle, tab, late, torn, left>>

(* doSave: the blobs in their order, up to the first the disk refuses.  A  *)
(* manager that has not loaded has no identity to write.                   *)
Rewrap(s) ==
  \E n \in 0 .. Cardinality(Blobs(s)) :
    LET written == {i \in 1 .. n : held[s].loaded \/ s = "sessions" \/ i > 1} IN
    /\ change # None
    /\ change.stage = s /\ change.step = "write"
    /\ IF n = Cardinality(Blobs(s)) THEN UNCHANGED left ELSE Spend("failure")
    /\ store' = [store EXCEPT ![s].blobs =
                   [i \in DOMAIN @ \cup written |->
                      IF i \in written THEN [key |-> held[s].key, first |-> i \in held[s].kept]
                      ELSE @[i]]]
    /\ change' = [change EXCEPT !.step = "check"]
    /\ UNCHANGED <<box, legacy, record, bundle, tab, held, late, torn>>

(* What follows a store that has moved. *)
Moved(s) ==
  IF s = "sessions"
  THEN [change EXCEPT !.stage = "prekeys", !.step = "derive", !.undo = Saved("prekeys")]
  ELSE [change EXCEPT !.stage = "own", !.step = "begin", !.undo = None]

(* Mutant: the salt goes down whether or not every blob reads back. *)
ReadsBack_Assumed(s) == TRUE

(* Every blob there is opens under the key in charge. *)
ReadsBack(s) == \A i \in DOMAIN store[s].blobs : store[s].blobs[i].key = held[s].key

(* The blobs are read back, and the salt commits them. *)
Commit(s) ==
  /\ change # None
  /\ change.stage = s /\ change.step = "check"
  /\ ReadsBack(s)
  /\ s = "sessions" => DOMAIN store[s].blobs # {}
  /\ store' = [store EXCEPT ![s].salt = NewSalt(s)]
  /\ change' = Moved(s)
  /\ UNCHANGED <<box, legacy, record, bundle, tab, held, late, torn, left>>

(* A blob that was not written, or a salt that is refused: this store is   *)
(* put back, and the change is over.                                       *)
Rollback(s) ==
  /\ change # None
  /\ change.stage = s /\ change.step = "check"
  /\ IF ReadsBack(s) /\ (s = "sessions" => DOMAIN store[s].blobs # {})
     THEN Spend("failure") ELSE UNCHANGED left
  /\ store' = [store EXCEPT ![s] = change.undo.store]
  /\ held' = [held EXCEPT ![s].key = change.undo.key]
  /\ change' = None
  /\ UNCHANGED <<box, legacy, record, bundle, tab, late, torn>>

(* rekeyOwnMessageCache. *)
OwnRekeyed ==
  /\ change # None
  /\ change.stage = "own" /\ change.step = "begin"
  /\ box' = [box EXCEPT !.own = RekeyOwnMessageCache(@, change.new)]
  /\ change' = [change EXCEPT !.step = "write"]
  /\ UNCHANGED <<legacy, stores, record, bundle, tab, late, torn, left>>

(* Once its write is over the sign-in record is sealed: when there is no   *)
(* key to seal it with the change throws, everything else moved.           *)
RecordMoved ==
  /\ change # None
  /\ change.stage = "own" /\ change.step = "write"
  /\ box.own.pending = <<>> /\ box.own.writer = None
  /\ \/ /\ record' = change.new
        /\ change' = [change EXCEPT !.stage = "app"]
        /\ UNCHANGED left
     \/ /\ Spend("failure")
        /\ change' = None
        /\ UNCHANGED record
  /\ UNCHANGED <<box, legacy, stores, bundle, tab, late, torn>>

(* changePassword in the app: what the tab believes the password is. *)
AppMoved ==
  /\ change # None
  /\ change.stage = "app"
  /\ auth' = IF auth = None THEN None ELSE change.new
  /\ box' = [own |-> SetOwnPassword(box.own, change.new),
             drafts |-> SetDraftsPassword(box.drafts, change.new)]
  /\ change' = [change EXCEPT !.stage = "bundle"]
  /\ UNCHANGED <<legacy, stores, record, bundle, starting, signing, sending, late, torn, left>>

(* The copy of the private key is sealed again, last. *)
BundleMoved ==
  /\ change # None
  /\ change.stage = "bundle"
  /\ bundle' = change.new
  /\ change' = None
  /\ UNCHANGED <<box, legacy, stores, record, tab, late, torn, left>>

-----------------------------------------------------------------------------
(* Leaving.                                                                *)

(* logout.  The ratchet managers stay as they are. *)
LogOut ==
  /\ auth # None
  /\ Spend("logOut")
  /\ auth' = None
  /\ record' = None
  /\ box' = [own |-> Flush(SetOwnPassword(ForgetOwnMessages(box.own), None)),
             drafts |-> Flush(SetDraftsPassword(ForgetDrafts(box.drafts), None))]
  /\ UNCHANGED <<legacy, stores, bundle, starting, signing, sending, change, late, torn>>

(* The tab goes: what is on the disk stays. *)
Reload ==
  /\ Spend("reload")
  /\ box' = [b \in Box |-> Closed(box[b].disk)]
  /\ auth' = None
  /\ held' = Shut
  /\ starting' = None
  /\ signing' = None
  /\ sending' = 0
  /\ change' = None
  /\ late' = {}
  /\ torn' = torn \cup (IF change # None /\ change.stage \in Store THEN {change.stage} ELSE {})
  /\ UNCHANGED <<legacy, store, record, bundle>>

BoxSteps ==
  /\ \E b \in Box :
       \/ TimerFires(b) \/ NextJob(b) \/ Hydrated(b)
  /\ UNCHANGED left

BoxWrites ==
  \E b \in Box, saved \in BOOLEAN :
    /\ Persisted(b, saved)
    /\ IF saved THEN UNCHANGED left ELSE Spend("failure")

Next ==
  \/ SignIn \/ PreKeysStarted \/ SessionsStarted \/ Fetched \/ Recorded
  \/ Send \/ Remember \/ Type
  \/ ChangeBegin \/ OwnRekeyed \/ RecordMoved \/ AppMoved \/ BundleMoved
  \/ \E s \in Store : Save(s) \/ Derived(s) \/ Rewrap(s) \/ Commit(s) \/ Rollback(s)
  \/ LogOut \/ Reload
  \/ /\ BoxSteps \/ BoxWrites
     /\ UNCHANGED <<stores, record, bundle, tab, change, late, torn>>

Spec == Init /\ [][Next]_vars

-----------------------------------------------------------------------------
(* Properties.                                                             *)

(* Every variable keeps its shape, and neither box outgrows its cap by     *)
(* more than a load brings in. *)
TypeOK ==
  /\ \A b \in Box :
       /\ box[b].pass \in Password \cup {None}
       /\ box[b].disk = None \/ box[b].disk.pass \in Password
       /\ IsInjective([i \in DOMAIN box[b].tab |-> box[b].tab[i].key])
  /\ legacy \subseteq Channels
  /\ \A s \in Store : DOMAIN store[s].blobs \subseteq Blobs(s)
  /\ {record, bundle, auth} \subseteq Password \cup {None}
  /\ sending \in Nat
  /\ late \subseteq Messages
  /\ torn \subseteq Store

(* Nothing of this box is under way. *)
AtRest(b) ==
  ~box[b].timer /\ box[b].pending = <<>> /\ box[b].writer = None /\ box[b].readers = {}

(* Signing out is the last word on a box: no write or load that was inside *)
(* its derivation puts a word back into the tab or onto the disk.  What a  *)
(* send under way remembers afterwards stays in the tab, and so does a     *)
(* draft found in the clear; neither is written.                           *)
(* ownMessageCache.ts:28-37, drafts.ts:119-130. *)
SignOutIsTheLastWord ==
  \A b \in Box : auth = None /\ box[b].pass = None /\ box[b].generation > 0 =>
    /\ \A e \in Range(box[b].tab) : IF b = "own" THEN e.key \in late ELSE e.text = Swept
    /\ AtRest(b) => box[b].disk = None

(* The disk holds every draft the tab does, under the password of now, and *)
(* what else it holds is what a load had no room for.                      *)
OnDisk(x) ==
  /\ x.disk # None /\ x.disk.pass = x.pass
  /\ IsPrefix(x.tab, x.disk.entries)
  /\ Len(x.tab) < MaxEntries => x.tab = x.disk.entries

(* Once nothing is under way the box holds every draft the tab does, in    *)
(* its latest words, their order and under the password of now: whatever   *)
(* was typed during a load, a write or a change, and after any refused     *)
(* write short of the last one tried.  It holds no other, unless drafts    *)
(* found in the clear once took it past the cap.  drafts.ts:103-117,       *)
(* 264-287. *)
DraftsAreKept ==
  LET x == box["drafts"] IN
  AtRest("drafts") /\ x.pass # None /\ x.tab # <<>> /\ x.failures < MaxTries => OnDisk(x)

OpensWith(s, p) ==
  \A i \in DOMAIN store[s].blobs : store[s].blobs[i].key = Key(p, store[s].salt)

(* A ratchet store opens with some password whenever no change is under    *)
(* way, and whatever writes the disk refused: a change either moved every  *)
(* blob and the salt or put them all back.  session.ts:635-659,            *)
(* prekey.ts:550-570.  Only a store that a reload or a sign-in met in the  *)
(* middle of a change may be under a key no salt names. *)
StoresOpen ==
  change = None => \A s \in Store \ torn : \E p \in Password : OpensWith(s, p)

-----------------------------------------------------------------------------
(* What the comments promise and the code does not keep.  One of these is  *)
(* checked by a run that ends in its violation; README.md says where the   *)
(* others fail.                                                            *)

(* "an interruption at any point leaves the device readable with the       *)
(* password it was readable with before" (changePassword.ts:22-23). *)
InterruptionIsHarmless == change = None => \A s \in Store : \E p \in Password : OpensWith(s, p)

(* "Every piece of state this device holds that is keyed by the password   *)
(* has to move at once" (integration.ts:41). *)
StoresMoveTogether ==
  change = None => \E p \in Password : \A s \in Store \ torn : OpensWith(s, p)

(* The box of sent words: "The flag is given up only once the box actually *)
(* holds this snapshot, and only if nothing was added while it was being   *)
(* written" (ownMessageCache.ts:108-109). *)
OwnWordsAreKept ==
  LET x == box["own"] IN
  AtRest("own") /\ x.pass # None /\ x.tab # <<>> =>
    x.disk = [pass |-> x.pass, entries |-> Newest(x.tab)]
=============================================================================
