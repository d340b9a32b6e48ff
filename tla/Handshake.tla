------------------------------ MODULE Handshake ------------------------------
(***************************************************************************)
(* How two devices come to share a session, and how one message is sealed  *)
(* for all the devices that should read it: src/src/signal/prekey.ts and   *)
(* integration.ts, x3dh.ts and keys.ts, src/src/dmCrypto.ts, and the       *)
(* prekey tables of the server.                                            *)
(*                                                                         *)
(* A device keeps an identity key, a signed prekey with those it rotated   *)
(* away from, and a supply of one-time prekeys; it publishes one of each   *)
(* as a bundle.  A sender builds a handshake on the bundle it was handed,  *)
(* and sends it along with the first message of the session, once.  What   *)
(* the two ends share afterwards (chains, message keys) is Session.        *)
(*                                                                         *)
(* A key is the number it was minted under.  A session is the secret it    *)
(* was derived from: a body opens under it when it was sealed under the    *)
(* same secret and was not opened there before.                            *)
(***************************************************************************)
EXTENDS Integers, FiniteSets

CONSTANTS
  Account, Device,
  MayUse,         \* which account signs in on which device: a set of pairs
  None,
  MinOpks,        \* MIN_ONE_TIME_PREKEYS
  MaxOpks,        \* MAX_ONE_TIME_PREKEYS
  RotateAge,      \* SIGNED_PREKEY_ROTATION_MS, in ticks of the clock
  HistoryAge,     \* SPK_HISTORY_MAX_AGE_MS, in ticks
  HistoryMax,     \* SPK_HISTORY_MAX
  BundleAge,      \* the age at which the server forgets a bundle, in ticks
  Scenario        \* bound: who is signed in where at the start, and how often each thing may happen

Bounded == {"ticks", "posts", "opens", "uploads", "crashes", "reinstalls", "calls"}

ASSUME HandshakeAssumption ==
  /\ None \notin Nat \cup Account \cup (Device \X Nat)
  /\ None \notin [id : Nat, key : Nat] \cup [id : Nat, key : Nat, at : Nat]
  /\ MayUse \subseteq Account \X Device
  /\ MinOpks \in Nat \ {0}
  /\ MaxOpks \in Nat /\ MinOpks <= MaxOpks
  /\ {RotateAge, HistoryAge, HistoryMax, BundleAge} \subseteq Nat
  /\ Scenario \subseteq [users : [Device -> Account \cup {None}], left : [Bounded \cup Device -> Nat]]

VARIABLES
  \* in the memory of a device
  user,       \* user[d]: the account that is signed in
  keys,       \* keys[d]: what the prekey manager holds
  saving,     \* saving[d]: its debounced write is due
  sessions,   \* sessions[d]: the session filed under each remote name
  borrowed,   \* borrowed[d]: pendingOneTimePreKeys, by remote name
  known,      \* known[d]: preKeyBundles, by account and device
  own,        \* own[d]: ownBundles, by device
  givenUp,    \* givenUp[d]: ratchetUnavailable
  changed,    \* changed[d]: identityChanged
  opening,    \* opening[d]: bodies being opened
  \* in the storage of a device
  stored,     \* stored[d]: the prekey store, with the account whose password seals it
  filed,      \* filed[d]: the session store
  \* on the server
  published,  \* published[c]: the prekeys table
  issued,     \* issued[c]: the prekey_issued table
  posts,      \* the messages it holds
  \* everywhere
  clock,
  minted,     \* minted[d]: keys generated so far on a device
  left,       \* what may still happen, of what is bounded
  \* remembered for checking
  lossy       \* devices that lost what was in memory and not yet in storage

device == <<user, keys, saving, sessions, borrowed, known, own, givenUp, changed, opening>>
storage == <<stored, filed>>
server == <<published, issued, posts>>
vars == <<device, storage, server, clock, minted, left, lossy>>

(* remoteNameFor: the far end of a session is an account and a device. *)
Remote == Account \X Device

NoSessions == [r \in Remote |-> None]

Blank == [ik |-> None, spk |-> None, history |-> {}, opks |-> {}, published |-> None, next |-> 1]

-----------------------------------------------------------------------------
(* A device's prekeys.                                                     *)

(* The keys one action may mint on a device: an identity, a signed prekey, a supply. *)
Block == MaxOpks + 2

Draw(what) == left[what] > 0 /\ left' = [left EXCEPT ![what] = @ - 1]

Ids(records) == {k.id : k \in records}

ById(records, id) == CHOOSE k \in records : k.id = id

Lowest(records) == CHOOSE k \in records : \A j \in records : k.id <= j.id

Newest(records, n) == {k \in records : Cardinality({j \in records : j.id > k.id}) < n}

(* generateOneTimePreKeys: a run of ids. *)
Run(first, n, key) == {[id |-> first + i, key |-> key + i] : i \in 0 .. n - 1}

(* initialize: an account that has no identity key on this device. *)
NewMaterial(d, n) ==
  [ik |-> <<d, n + 1>>,
   spk |-> [id |-> 1, key |-> n + 2, at |-> clock],
   history |-> {},
   opks |-> Run(1, MaxOpks, n + 3),
   published |-> None,
   next |-> MaxOpks + 1]

(* pruneSignedPreKeyHistory. *)
Retained(records) == Newest({k \in records : clock - k.at <= HistoryAge}, HistoryMax)

(* rotateSignedPreKey, when the signed prekey is old enough. *)
Rotated(m, n) ==
  IF m.ik = None \/ m.spk = None THEN m
  ELSE IF clock - m.spk.at <= RotateAge THEN m
  ELSE [m EXCEPT !.history = Retained(@ \cup {m.spk}),
                 !.spk = [id |-> m.spk.id + 1, key |-> n + 1, at |-> clock]]

(* Mutant: ids taken from how many keys there are, which repeats the ids of keys still held. *)
Replenished_ByCount(m, n) ==
  IF m.ik = None \/ Cardinality(m.opks) >= MinOpks THEN m
  ELSE LET needed == MaxOpks - Cardinality(m.opks) IN
       [m EXCEPT !.opks = @ \cup Run(Cardinality(m.opks) + 1, needed, n + 2),
                 !.next = Cardinality(m.opks) + needed + 1]

(* replenishOneTimePreKeys, below the minimum: the run comes off the counter and moves it. *)
Replenished(m, n) ==
  IF m.ik = None \/ Cardinality(m.opks) >= MinOpks THEN m
  ELSE LET needed == MaxOpks - Cardinality(m.opks) IN
       [m EXCEPT !.opks = @ \cup Run(m.next, needed, n + 2), !.next = @ + needed]

(* maybeRotatePreKeys. *)
Upkept(m, n) == Replenished(Rotated(m, n), n)

(* selectPublishedOpk: the published key stays until it is spent. *)
Selected(m) ==
  IF m.published \in Ids(m.opks) \/ m.opks = {} THEN m
  ELSE [m EXCEPT !.published = Lowest(m.opks).id]

(* getPublicKeyForServer. *)
Bundle(m) ==
  [ik |-> m.ik, spk |-> m.spk, at |-> clock,
   opk |-> IF m.published \in Ids(m.opks) THEN ById(m.opks, m.published) ELSE None]

(* Everybody has signed in once, on every device they use, and published. *)
Init ==
  /\ clock = 0
  /\ \E s \in Scenario : user = s.users /\ left = s.left
  /\ keys = [d \in Device |-> IF user[d] = None THEN Blank ELSE Selected(NewMaterial(d, 0))]
  /\ saving = [d \in Device |-> FALSE]
  /\ sessions = [d \in Device |-> NoSessions]
  /\ borrowed = [d \in Device |-> NoSessions]
  /\ known = [d \in Device |-> [r \in Remote |-> None]]
  /\ published = [r \in Remote |-> IF user[r[2]] = r[1] THEN Bundle(keys[r[2]]) ELSE None]
  /\ own = [d \in Device |-> [e \in Device |-> IF user[d] = None THEN None ELSE published[<<user[d], e>>]]]
  /\ givenUp = [d \in Device |-> {}]
  /\ changed = [d \in Device |-> {}]
  /\ opening = [d \in Device |-> {}]
  /\ stored = [d \in Device |-> IF user[d] = None THEN None ELSE [owner |-> user[d], material |-> keys[d]]]
  /\ filed = [d \in Device |-> NoSessions]
  /\ issued = [r \in Remote |-> {}]
  /\ posts = {}
  /\ minted = [d \in Device |-> Block]
  /\ lossy = {}

-----------------------------------------------------------------------------
(* Signing in, publishing, saving.                                         *)

(* loadEncrypted: a store sealed under another password leaves nothing in memory. *)
Loaded(d, u) ==
  IF stored[d] = None THEN Blank
  ELSE IF stored[d].owner # u THEN Blank
  ELSE [stored[d].material EXCEPT !.history = Retained(@)]

(* init, then initialize. *)
Started(d, u) ==
  LET m == Upkept(Loaded(d, u), minted[d]) IN
  IF m.ik = None THEN NewMaterial(d, minted[d]) ELSE m

Minting(d, before, after) ==
  minted' = IF after = before THEN minted ELSE [minted EXCEPT ![d] = @ + Block]

(* A bundle that arrives clears the record of what was issued. *)
Uploaded(u, d, m) ==
  /\ published' = [published EXCEPT ![<<u, d>>] = IF m.ik = None \/ m.spk = None THEN @ ELSE Bundle(m)]
  /\ issued' = [issued EXCEPT ![<<u, d>>] = IF m.ik = None \/ m.spk = None THEN @ ELSE {}]

(* What a reload forgets. *)
Unsaved(d) == saving[d] \/ filed[d] # sessions[d]

(* startRatchet forgets what it knew of other people; rememberOwnBundles reads the other screens. *)
Forgotten(u, d) ==
  /\ known' = [known EXCEPT ![d] = [r \in Remote |-> None]]
  /\ own' = [own EXCEPT ![d] = [e \in Device |-> published[<<u, e>>]]]
  /\ givenUp' = [givenUp EXCEPT ![d] = {}]
  /\ changed' = [changed EXCEPT ![d] = {}]

(* startRatchet, rememberOwnBundles and publishBundle, on every auth_success: a launch, a reconnect, *)
(* another account.                                                                                  *)
SignIn(u, d) ==
  LET m == Selected(Started(d, u)) IN
  /\ <<u, d>> \in MayUse
  /\ user[d] = u \/ opening[d] = {}
  /\ Draw(d)
  /\ user' = [user EXCEPT ![d] = u]
  /\ keys' = [keys EXCEPT ![d] = m]
  /\ saving' = [saving EXCEPT ![d] = @ \/ m # Loaded(d, u)]
  /\ Minting(d, Loaded(d, u), Started(d, u))
  /\ sessions' = [sessions EXCEPT ![d] =
       IF stored[d] # None /\ stored[d].owner # u THEN NoSessions ELSE filed[d]]
  /\ filed' = [filed EXCEPT ![d] =
       IF stored[d] # None /\ stored[d].owner # u THEN NoSessions ELSE @]
  /\ Forgotten(u, d)
  /\ Uploaded(u, d, m)
  /\ lossy' = IF Unsaved(d) THEN lossy \cup {d} ELSE lossy
  /\ UNCHANGED <<borrowed, opening, stored, posts, clock>>

(* The hourly prekey_upload. *)
Publish(d) ==
  LET m == Selected(Upkept(keys[d], minted[d])) IN
  /\ user[d] # None /\ Draw("uploads")
  /\ keys' = [keys EXCEPT ![d] = m]
  /\ saving' = [saving EXCEPT ![d] = @ \/ m # keys[d]]
  /\ Minting(d, keys[d], Upkept(keys[d], minted[d]))
  /\ Uploaded(user[d], d, m)
  /\ UNCHANGED <<user, sessions, borrowed, known, own, givenUp, changed, opening, storage, posts,
                 clock, lossy>>

(* The rotation timer. *)
Upkeep(d) ==
  /\ user[d] # None
  /\ Upkept(keys[d], minted[d]) # keys[d]
  /\ keys' = [keys EXCEPT ![d] = Upkept(keys[d], minted[d])]
  /\ saving' = [saving EXCEPT ![d] = TRUE]
  /\ Minting(d, keys[d], Upkept(keys[d], minted[d]))
  /\ UNCHANGED <<user, sessions, borrowed, known, own, givenUp, changed, opening, storage, server,
                 clock, left, lossy>>

(* doSave writes the four blobs one after the other. *)
Written(d, n) ==
  LET old == Loaded(d, user[d])
      new == keys[d] IN
  [owner |-> user[d],
   material |-> [ik |-> IF n >= 1 THEN new.ik ELSE old.ik,
                 spk |-> IF n >= 2 THEN new.spk ELSE old.spk,
                 history |-> IF n >= 3 THEN new.history ELSE old.history,
                 opks |-> IF n >= 4 THEN new.opks ELSE old.opks,
                 published |-> IF n >= 4 THEN new.published ELSE old.published,
                 next |-> IF n >= 4 THEN new.next ELSE old.next]]

(* Bound: nothing is written that no launch or crash within the bounds will look at. *)
ReadBack(d) == left[d] > 0 \/ left.crashes > 0

(* The debounced writes of both managers, or flushSignalState when the page is left. *)
Save(d) ==
  /\ user[d] # None /\ ReadBack(d)
  /\ Unsaved(d)
  /\ stored' = [stored EXCEPT ![d] = Written(d, 4)]
  /\ filed' = [filed EXCEPT ![d] = sessions[d]]
  /\ saving' = [saving EXCEPT ![d] = FALSE]
  /\ UNCHANGED <<user, keys, sessions, borrowed, known, own, givenUp, changed, opening, server,
                 clock, minted, left, lossy>>

(* What a device that is not running has in memory. *)
Stopped(d) ==
  /\ user' = [user EXCEPT ![d] = None]
  /\ keys' = [keys EXCEPT ![d] = Blank]
  /\ saving' = [saving EXCEPT ![d] = FALSE]
  /\ sessions' = [sessions EXCEPT ![d] = NoSessions]
  /\ borrowed' = [borrowed EXCEPT ![d] = NoSessions]
  /\ known' = [known EXCEPT ![d] = [r \in Remote |-> None]]
  /\ own' = [own EXCEPT ![d] = [e \in Device |-> None]]
  /\ givenUp' = [givenUp EXCEPT ![d] = {}]
  /\ changed' = [changed EXCEPT ![d] = {}]
  /\ opening' = [opening EXCEPT ![d] = {}]

(* The app is killed, perhaps in the middle of a write. *)
Crash(d) ==
  /\ user[d] # None
  /\ Draw("crashes")
  /\ Stopped(d)
  /\ \/ UNCHANGED stored
     \/ saving[d] /\ \E n \in 1 .. 3 : stored' = [stored EXCEPT ![d] = Written(d, n)]
  /\ lossy' = IF Unsaved(d) \/ borrowed[d] # NoSessions THEN lossy \cup {d} ELSE lossy
  /\ UNCHANGED <<filed, server, clock, minted>>

(* resetEncryptionIdentity, or a browser profile that was wiped. *)
Reinstall(d) ==
  /\ user[d] # None
  /\ Draw("reinstalls")
  /\ Stopped(d)
  /\ stored' = [stored EXCEPT ![d] = None]
  /\ filed' = [filed EXCEPT ![d] = NoSessions]
  /\ UNCHANGED <<server, clock, minted, lossy>>

Tick ==
  /\ Draw("ticks")
  /\ clock' = clock + 1
  /\ UNCHANGED <<device, storage, server, minted, lossy>>

(* cleanupExpiredPreKeys: a bundle nobody refreshed, and the record that belongs to it. *)
ForgetBundles ==
  LET stale == {r \in Remote : published[r] # None /\ clock - published[r].at > BundleAge} IN
  /\ stale # {}
  /\ published' = [r \in Remote |-> IF r \in stale THEN None ELSE published[r]]
  /\ issued' = [r \in Remote |-> IF published'[r] = None THEN {} ELSE issued[r]]
  /\ UNCHANGED <<device, storage, posts, clock, minted, left, lossy>>

-----------------------------------------------------------------------------
(* Fetching a bundle.                                                      *)

(* takePreKeyBundlesForSender: an issued one-time key is left out. *)
Handout(r) ==
  LET b == published[r] IN
  IF b = None \/ b.opk = None THEN b
  ELSE IF b.opk.id \in issued[r] THEN [b EXCEPT !.opk = None] ELSE b

KnowsPeer(d, u) == \E e \in Device : known[d][<<u, e>>] # None

(* rememberBundles. *)
Remembered(d, rows) == [r \in Remote |-> IF r \in rows THEN Handout(r) ELSE known[d][r]]

(* requestPeerBundle, handlePreKeyFetch and rememberBundles.  What is issued stays issued when the *)
(* answer is late or lost; nothing that is known is replaced by an empty list.                     *)
Fetch(d, u) ==
  LET rows == {<<u, e>> : e \in {f \in Device : published[<<u, f>>] # None}} IN
  /\ user[d] \notin {None, u}
  /\ ~KnowsPeer(d, u)
  /\ rows # {}
  /\ issued' = [r \in Remote |->
       IF r \in rows /\ Handout(r).opk # None THEN issued[r] \cup {Handout(r).opk.id} ELSE issued[r]]
  /\ known' = [known EXCEPT ![d] = Remembered(d, rows)]
  /\ UNCHANGED <<user, keys, saving, sessions, borrowed, own, givenUp, changed, opening, storage,
                 published, posts, clock, minted, left, lossy>>

-----------------------------------------------------------------------------
(* Sealing.                                                                *)

(* x3dhInit: a fresh base key, and what the responder needs to derive the same secret.  The ids of *)
(* the responder's keys travel; the keys themselves are what the secret is made of.                *)
Initiated(ik, bundle, base) ==
  [secret |-> [base |-> base, from |-> ik, to |-> bundle.ik, spk |-> bundle.spk.key,
               opk |-> IF bundle.opk = None THEN None ELSE bundle.opk.key],
   x3dh |-> [base |-> base, from |-> ik, spk |-> bundle.spk,
             opk |-> IF bundle.opk = None THEN None ELSE bundle.opk.id]]

(* createInitiatorSession: pinned to the identity key of the bundle. *)
Begun(secret, ik) == [secret |-> secret, pinned |-> ik, read |-> {}]

(* Every device a message is sealed for: the peer's, and the account's own others. *)
Targets(d, to) ==
  {r \in Remote : r[1] = to /\ known[d][r] # None}
    \cup {<<user[d], e>> : e \in {f \in Device \ {d} : own[d][f] # None}}

BundleOf(d, r) == IF r[1] = user[d] THEN own[d][r[2]] ELSE known[d][r]

(* An identity key other than the one the session was pinned to. *)
Replaced(d, r) == sessions[d][r] # None /\ sessions[d][r].pinned # BundleOf(d, r).ik

(* sealForDevice: a message goes under the session that is there; one that starts a session carries *)
(* the handshake.                                                                                   *)
Sealed(d, r, n) ==
  IF sessions[d][r] # None /\ ~Replaced(d, r)
  THEN [secret |-> sessions[d][r].secret, x3dh |-> None]
  ELSE Initiated(keys[d].ik, BundleOf(d, r), <<n, r[2]>>)

(* forPeer: whether anything was sealed for the person it was written to. *)
Reaches(bodies, to) == \E r \in bodies : r[1] = to

Posted(d, to, kind, bodies) ==
  posts' = posts \cup
    {[n |-> Cardinality(posts) + 1, from |-> <<user[d], d>>, to |-> to, kind |-> kind,
      known |-> KnowsPeer(d, to), bodies |-> bodies]}

(* sealForDevices and dm_send.  A target whose bundle cannot be used (its signature does not *)
(* verify) gets no body.  A message sealed for nobody is sent as an envelope.                *)
Send(d, to) ==
  LET n == Cardinality(posts) + 1 IN
  /\ user[d] \notin {None, to}
  /\ keys[d].ik # None
  /\ Draw("posts")
  /\ \/ /\ Targets(d, to) = {} \/ to \in givenUp[d]
        /\ Posted(d, to, "envelope", <<>>)
        /\ UNCHANGED <<sessions, givenUp, changed>>
     \/ /\ Targets(d, to) # {} /\ to \notin givenUp[d]
        /\ \E done \in SUBSET Targets(d, to) :
             /\ \A r \in Targets(d, to) \ done : sessions[d][r] = None \/ Replaced(d, r)
             /\ sessions' = [sessions EXCEPT ![d] = [r \in Remote |->
                  IF r \notin Targets(d, to) THEN @[r]
                  ELSE IF r \in done /\ Sealed(d, r, n).x3dh # None
                  THEN Begun(Sealed(d, r, n).secret, BundleOf(d, r).ik)
                  ELSE IF Replaced(d, r) THEN None ELSE @[r]]]
             /\ changed' = [changed EXCEPT ![d] =
                  @ \cup {r[1] : r \in {q \in Targets(d, to) : Replaced(d, q)}}]
             /\ \/ /\ Reaches(done, to)
                   /\ Posted(d, to, IF Cardinality(done) = 1 THEN "bare" ELSE "devices",
                             [r \in done |-> Sealed(d, r, n)])
                   /\ UNCHANGED givenUp
                \/ /\ ~Reaches(done, to)
                   /\ Posted(d, to, "envelope", <<>>)
                   /\ givenUp' = [givenUp EXCEPT ![d] = @ \cup {to}]
  /\ UNCHANGED <<user, keys, saving, borrowed, known, own, opening, storage, published, issued,
                 clock, minted, lossy>>

-----------------------------------------------------------------------------
(* Opening.                                                                *)

(* sessionIdsFor and candidateRemotes, in the order they are tried. *)
Candidates(d, peer) ==
  LET mine == {e \in Device : own[d][e] # None} IN
  {<<peer, d>>} \cup {<<peer, e>> : e \in mine} \cup {<<user[d], e>> : e \in mine}
    \cup {r \in Remote : r[1] = peer /\ known[d][r] # None}

Rank(d, peer, r) ==
  IF r = <<peer, d>> THEN 1
  ELSE IF r[1] = peer /\ own[d][r[2]] # None THEN 2
  ELSE IF r[1] = peer THEN 3 ELSE 4

Peer(d, p) == IF p.from[1] = user[d] THEN p.to ELSE p.from[1]

(* The body a device is given: a bare one goes to every screen of both accounts. *)
BodyFor(d, p) ==
  IF p.kind = "bare" THEN LET r == CHOOSE q \in DOMAIN p.bodies : TRUE IN p.bodies[r]
  ELSE p.bodies[<<user[d], d>>]

(* openFor: the frame when it is live, and again whenever the history is loaded. *)
StartOpen(d, p) ==
  /\ user[d] \in {p.to, p.from[1]} /\ user[d] # None
  /\ p.kind = "bare" \/ <<user[d], d>> \in DOMAIN p.bodies
  /\ Cardinality(opening[d]) < left.calls
  /\ Draw("opens")
  /\ opening' = [opening EXCEPT ![d] = @ \cup
       {[post |-> p, todo |-> Candidates(d, Peer(d, p)), at |-> None, behind |-> {}, created |-> {},
         call |-> CHOOSE i \in 1 .. left.calls : \A c \in @ : c.call # i]}]
  /\ UNCHANGED <<user, keys, saving, sessions, borrowed, known, own, givenUp, changed, storage,
                 server, clock, minted, lossy>>

(* Mutant: a message built against a rotated key is answered with the current one. *)
SignedById_Current(m, id) == m.spk

(* getSignedPreKeyById. *)
SignedById(m, id) ==
  IF m.spk.id # id /\ id \in Ids(m.history) THEN ById(m.history, id) ELSE m.spk

(* x3dhRespond: a one-time key that is not in the supply contributes nothing. *)
Answered(m, x) ==
  [base |-> x.base, from |-> x.from, to |-> m.ik, spk |-> SignedById(m, x.spk.id).key,
   opk |-> IF x.opk \in Ids(m.opks) THEN ById(m.opks, x.opk).key ELSE None]

(* createResponderSessionFromMessage: pinned to the identity key the handshake carries. *)
Joined(secret, ik) == [secret |-> secret, pinned |-> ik, read |-> {}]

(* createResponderSession, then decryptMessage joins the queue of the session.  The one-time key is *)
(* borrowed, not spent.                                                                             *)
Try(d, c) ==
  LET x == BodyFor(d, c.post).x3dh
      peer == Peer(d, c.post) IN
  /\ c.at = None
  /\ \E r \in c.todo :
       /\ \A q \in c.todo : Rank(d, peer, r) <= Rank(d, peer, q)
       /\ LET builds == x # None /\ sessions[d][r] = None /\ keys[d].ik # None /\ keys[d].spk # None
              ahead == {b.call : b \in {o \in opening[d] : o.at = r}} IN
          /\ sessions' = IF ~builds THEN sessions
                         ELSE [sessions EXCEPT ![d][r] =
                                Joined(Answered(keys[d], x), x.from)]
          /\ borrowed' = IF builds /\ x.opk \in Ids(keys[d].opks)
                         THEN [borrowed EXCEPT ![d][r] = x.opk] ELSE borrowed
          /\ opening' = [opening EXCEPT ![d] = (@ \ {c}) \cup
               {[c EXCEPT !.at = r, !.behind = ahead, !.todo = @ \ {r},
                          !.created = IF builds THEN @ \cup {r} ELSE @]}]
  /\ UNCHANGED <<user, keys, saving, known, own, givenUp, changed, storage, server, clock, minted,
                 left, lossy>>

(* A body opens once, at the far end of the session it was sealed under. *)
Opens(d, c) ==
  /\ sessions[d][c.at] # None
  /\ c.post.from[2] # d
  /\ sessions[d][c.at].secret = BodyFor(d, c.post).secret
  /\ c.post.n \notin sessions[d][c.at].read

(* Its call is over, and the calls behind it in the queue move up. *)
Over(d, c, rest) ==
  opening' = [opening EXCEPT ![d] =
    {[b EXCEPT !.behind = @ \ {c.call}] : b \in @ \ {c}} \cup rest]

(* Mutant: the key is given back before it is spent. *)
Borrowed_GivenBack(d, r) == None

(* Mutant: every open takes a key off the front of the supply. *)
Borrowed_Front(d, r) == IF keys[d].opks = {} THEN None ELSE Lowest(keys[d].opks).id

(* pendingOneTimePreKeys.get: the borrow of this conversation. *)
Borrowed(d, r) == borrowed[d][r]

(* The body opened: commitResponderPreKey and consumeOneTimePreKey. *)
Opened(d, c) ==
  LET id == Borrowed(d, c.at)
      spends == id \in Ids(keys[d].opks) IN
  /\ c.at # None /\ c.behind = {}
  /\ Opens(d, c)
  /\ sessions' = [sessions EXCEPT ![d][c.at].read = @ \cup {c.post.n}]
  /\ borrowed' = [borrowed EXCEPT ![d][c.at] = None]
  /\ keys' = IF ~spends THEN keys
             ELSE [keys EXCEPT ![d].opks = @ \ {ById(@, id)},
                               ![d].published = IF @ = id THEN None ELSE @]
  /\ saving' = IF spends THEN [saving EXCEPT ![d] = TRUE] ELSE saving
  /\ Over(d, c, {})
  /\ UNCHANGED <<user, known, own, givenUp, changed, storage, server, clock, minted, left, lossy>>

(* The sessions this call built from a handshake that did not open. *)
Worthless(d, c) == c.created

(* It did not: releaseResponderPreKey, and the next candidate or the end. *)
Failed(d, c) ==
  /\ c.at # None /\ c.behind = {}
  /\ ~Opens(d, c)
  /\ borrowed' = [borrowed EXCEPT ![d][c.at] = None]
  /\ \/ /\ c.todo # {}
        /\ Over(d, c, {[c EXCEPT !.at = None]})
        /\ UNCHANGED <<sessions, givenUp>>
     \/ /\ c.todo = {}
        /\ Over(d, c, {})
        /\ sessions' = [sessions EXCEPT ![d] =
             [r \in Remote |-> IF r \in Worthless(d, c) THEN None ELSE @[r]]]
        /\ givenUp' = [givenUp EXCEPT ![d] = @ \ {Peer(d, c.post)}]
  /\ UNCHANGED <<user, keys, saving, known, own, changed, storage, server, clock, minted, left,
                 lossy>>

-----------------------------------------------------------------------------

DeviceStep(d) ==
  \/ \E u \in Account : SignIn(u, d) \/ Fetch(d, u) \/ Send(d, u)
  \/ Publish(d) \/ Upkeep(d) \/ Save(d) \/ Crash(d) \/ Reinstall(d)
  \/ \E p \in posts : StartOpen(d, p)
  \/ \E c \in opening[d] : Try(d, c) \/ Opened(d, c) \/ Failed(d, c)

Next == Tick \/ ForgetBundles \/ \E d \in Device : DeviceStep(d)

Spec == Init /\ [][Next]_vars

-----------------------------------------------------------------------------
(* Properties.                                                             *)

Record == [id : Nat, key : Nat]

TypeOK ==
  /\ user \in [Device -> Account \cup {None}]
  /\ saving \in [Device -> BOOLEAN]
  /\ lossy \subseteq Device
  /\ \A d \in Device :
       /\ keys[d].opks \subseteq Record
       /\ {<<k.id, k.key>> : k \in keys[d].history} \subseteq Nat \X Nat
       /\ keys[d].next \in Nat
       /\ Cardinality(keys[d].opks) <= MaxOpks
       /\ Cardinality(keys[d].history) <= HistoryMax

(* An id names one key: what a bundle calls by id is what the device finds under it. *)
(* The supply is filled from a counter and spent from the front (prekey.ts, nextOpkKeyId). *)
IdsNameOneKey ==
  \A d \in Device :
    /\ \A j, k \in keys[d].opks : j.id = k.id => j = k
    /\ \A k \in keys[d].opks : k.id < keys[d].next
    /\ \A k \in keys[d].history : k.id < keys[d].spk.id

(* The handshakes that were sent to a device. *)
SentTo(d) ==
  {b \in UNION {{p.bodies[r] : r \in {q \in DOMAIN p.bodies : q[2] = d}} : p \in posts} : b.x3dh # None}

(* A handshake that was built on a bundle of this device is answered with the secret it was sealed *)
(* under, for as long as the device means to keep the keys: while its signed prekey is in the      *)
(* retention window and its one-time key is not spent, unless an unsaved write was lost.           *)
RightAnswer ==
  \A d \in Device \ lossy : \A b \in SentTo(d) :
    (/\ b.secret.to = keys[d].ik
     /\ b.x3dh.spk.id >= keys[d].spk.id - HistoryMax
     /\ clock - b.x3dh.spk.at <= HistoryAge
     /\ b.x3dh.opk = None \/ b.secret.opk \in {k.key : k \in keys[d].opks})
    => Answered(keys[d], b.x3dh) = b.secret

(* A one-time prekey leaves the supply when a body opens under it, and by nothing else: a handshake *)
(* that does not open costs the account no key (integration.ts, commitResponderPreKey).             *)
OnlyOpenedSpends ==
  [][\A d \in Device :
       (user'[d] = user[d] /\ left'[d] = left[d]) =>
         \A k \in keys[d].opks \ keys'[d].opks :
           \E r \in Remote :
             /\ sessions[d][r] # None /\ sessions'[d][r] # sessions[d][r]
             /\ sessions[d][r].secret.opk = k.key]_vars

(* And it does leave: once a body has opened under a one-time prekey the device no longer has it, so *)
(* the handshake cannot be answered a second time.                                                   *)
OpenedIsSpent ==
  left.calls = 1 => \A d \in Device \ lossy : \A r \in Remote :
    (sessions[d][r] # None /\ sessions[d][r].read # {} /\ sessions[d][r].secret.to = keys[d].ik) =>
      sessions[d][r].secret.opk \notin {k.key : k \in keys[d].opks}

-----------------------------------------------------------------------------
(* What the comments promise and the code does not keep.  No run checks    *)
(* these; README.md says where they fail.                                  *)

(* Opening a body takes away no session that was there before, and none that ever opened anything: *)
(* a body that was meant for another screen, or an echo of the device's own, leaves every          *)
(* conversation as it was (dmCrypto.ts, openOne).                                                  *)
OpeningKeepsSessions ==
  [][\A d \in Device : \A r \in Remote :
       (/\ sessions[d][r] # None /\ sessions'[d][r] = None
        /\ user'[d] = user[d] /\ posts' = posts /\ left'[d] = left[d]) =>
         sessions[d][r].read = {} /\ sessions[d][r].secret.to = keys[d].ik]_vars

(* dmCrypto.ts 70-71: a peer is shown as having a new identity key when the key it publishes stopped *)
(* matching the one the session was built on.  False: a session is filed under the first free name,  *)
(* not under the device it is with.                                                                  *)
ChangedMeansReinstalled ==
  left.reinstalls = 0 /\ lossy = {} => \A d \in Device : changed[d] = {}

(* database.ts 796-800: no two senders are handed the same one-time prekey. *)
OneTimeKeysAreHandedOnce ==
  \A p, q \in posts : \A r \in DOMAIN p.bodies, s \in DOMAIN q.bodies :
    LET x == p.bodies[r].secret
        y == q.bodies[s].secret IN
    (p.bodies[r].x3dh # None /\ q.bodies[s].x3dh # None /\ x.opk # None /\ x.opk = y.opk) => x = y

(* dmCrypto.ts 43: the envelope is a floor for a peer that has published no bundle at all. *)
EnvelopeIsAFloor ==
  \A p \in posts : p.kind = "envelope" => ~p.known

=============================================================================
