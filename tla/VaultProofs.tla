---------------------------- MODULE VaultProofs ----------------------------
(***************************************************************************)
(* Proofs about Vault!Spec, for any passwords, messages, channels, blobs,  *)
(* caps and scenarios.                                                     *)
(*                                                                         *)
(* StoresInv: a ratchet store that no reload and no sign-in met in the     *)
(* middle of its change is sealed, blob for blob, under one password and   *)
(* the salt on the disk, and so is the copy a change would put back.       *)
(* BoxesInv: once a box has no password, what is still under way in it     *)
(* belongs to an earlier generation or has nothing to bring.               *)
(* DraftsInv: a draft that is not on the disk is on its way there, in a    *)
(* write that is due or in one begun after the last keystroke, as the      *)
(* chain keeps loads and writes apart.                                     *)
(***************************************************************************)
EXTENDS Vault, FiniteSetTheorems, SequenceTheorems, TLAPS

(* Every blob is under one password and the salt of the store. *)
Under(x) == \E p \in Password : \A i \in DOMAIN x.blobs : x.blobs[i].key = Key(p, x.salt)

(* What a manager that has loaded would save would be so too. *)
InTune(k, salt, loaded) == loaded => \E p \in Password : k = Key(p, salt)

(* Store s is x on the disk and h in its manager, while y is the change under way.  Between the     *)
(* derivation and the salt the manager has the key of the salt to come, and the copy is what counts. *)
Sound(s, x, h, y) ==
  /\ IF y # None /\ y.stage = s /\ y.step # "derive"
     THEN h.key = Key(y.new, x.salt + 1)
     ELSE Under(x) /\ InTune(h.key, x.salt, h.loaded)
  /\ y # None /\ y.stage = s =>
       Under(y.undo.store) /\ InTune(y.undo.key, y.undo.store.salt, h.loaded)

Places == 1 .. PreKeyBlobs

HeldType == [key : KeyType \cup {None}, loaded : BOOLEAN, kept : SUBSET Places]

StoreTyped(x) == DOMAIN x.blobs \subseteq Places /\ x \in StoreOn(DOMAIN x.blobs)

ChangeTyped(y) ==
  /\ \E D \in SUBSET Places : y \in ChangeOf(D)
  /\ y.stage \in Store => /\ y.step \in {"derive", "write", "check"}
                          /\ y.undo \in [store : {y.undo.store}, key : KeyType \cup {None}]
                          /\ StoreTyped(y.undo.store)

TypeInv ==
  /\ DOMAIN store = Store /\ \A s \in Store : StoreTyped(store[s])
  /\ held \in [Store -> HeldType]
  /\ starting # None => starting.stage \in Store /\ starting.salt \in Nat
  /\ change # None => /\ ChangeTyped(change)
                      /\ change.stage \in Store /\ change.step # "derive"
                           => held[change.stage].key \in KeyType

StoresInv == TypeInv /\ \A s \in Store \ torn : Sound(s, store[s], held[s], change)

-----------------------------------------------------------------------------
(* Keys, blobs and stores.                                                 *)

LEMMA KeyTyped ==
  ASSUME NEW p \in Password, NEW salt \in Nat
  PROVE  Key(p, salt) \in KeyType /\ Key(p, salt).pass = p /\ Key(p, salt).salt = salt
BY DEF Key, KeyType

LEMMA BlobsInPlaces ==
  ASSUME NEW s \in Store
  PROVE  /\ Blobs(s) \subseteq Places /\ 1 \in Blobs(s)
         /\ \A n \in 0 .. Cardinality(Blobs(s)) : 1 .. n \subseteq Places
<1>1. PreKeyBlobs \in Nat \ {0}  BY VaultAssumption
<1>2. CASE s = "sessions"
  <2>1. Blobs(s) = {1}  BY <1>2 DEF Blobs
  <2>2. Cardinality({1}) = 1  BY FS_Singleton
  <2> QED  BY <1>1, <2>1, <2>2 DEF Places
<1>3. CASE s = "prekeys"
  <2>1. Blobs(s) = 1 .. PreKeyBlobs  BY <1>3 DEF Blobs
  <2>2. Cardinality(1 .. PreKeyBlobs) = PreKeyBlobs  BY <1>1, FS_Interval
  <2> QED  BY <1>1, <2>1, <2>2 DEF Places
<1> QED  BY <1>2, <1>3 DEF Store

(* Blobs that are all written at once, under one key. *)
LEMMA WrittenOK ==
  ASSUME NEW s \in Store, NEW k \in KeyType, NEW kept
  PROVE  LET w == Written(s, k, kept) IN
         /\ DOMAIN w = Blobs(s) /\ w \in [Blobs(s) -> [key : KeyType, first : BOOLEAN]]
         /\ \A i \in DOMAIN w : w[i].key = k
BY DEF Written

LEMMA NoBlobs ==
  /\ DOMAIN <<>> = {}
  /\ <<>> \in [{} -> [key : KeyType, first : BOOLEAN]]
<1> DEFINE B == [key : KeyType, first : BOOLEAN]
           e == <<>>
<1>1. e \in Seq(B) /\ Len(e) = 0  BY EmptySeq
<1> HIDE DEF B, e
<1>2. e \in [1 .. Len(e) -> B] /\ DOMAIN e = 1 .. Len(e)  BY <1>1, LenProperties
<1>3. 1 .. Len(e) = {}  BY <1>1
<1>4. e \in [{} -> B] /\ DOMAIN e = {}  BY <1>2, <1>3
<1> QED  BY <1>4 DEF B, e

(* A store whose blobs are replaced, or whose salt is. *)
LEMMA ReplacedOK ==
  ASSUME NEW s \in Store, StoreTyped(store[s]), DOMAIN store = Store
  PROVE  /\ \A b, D : (/\ D \subseteq Places /\ DOMAIN b = D
                       /\ b \in [D -> [key : KeyType, first : BOOLEAN]]) =>
              LET x == [store EXCEPT ![s].blobs = b] IN
              /\ DOMAIN x = Store /\ \A t \in Store \ {s} : x[t] = store[t]
              /\ x[s].blobs = b /\ x[s].salt = store[s].salt /\ StoreTyped(x[s])
         /\ \A n \in Nat :
              LET x == [store EXCEPT ![s].salt = n] IN
              /\ DOMAIN x = Store /\ \A t \in Store \ {s} : x[t] = store[t]
              /\ x[s].blobs = store[s].blobs /\ x[s].salt = n /\ StoreTyped(x[s])
BY DEF StoreTyped, StoreOn

-----------------------------------------------------------------------------
(* A step that touches one store, and what is then owed.                   *)

LEMMA StepOK ==
  ASSUME StoresInv, NEW s \in Store,
         DOMAIN store' = Store, StoreTyped(store'[s]), \A t \in Store \ {s} : store'[t] = store[t],
         NEW h \in HeldType, held' = [held EXCEPT ![s] = h],
         starting' # None => starting'.stage \in Store /\ starting'.salt \in Nat,
         torn \subseteq torn',
         change' # None => /\ ChangeTyped(change')
                           /\ change'.stage \in Store /\ change'.step # "derive"
                                => held'[change'.stage].key \in KeyType,
         s \notin torn' => Sound(s, store'[s], h, change'),
         \A t \in Store \ {s} : t \notin torn' /\ Sound(t, store[t], held[t], change)
                                  => Sound(t, store[t], held[t], change')
  PROVE  StoresInv'
<1>1. held'[s] = h /\ held' \in [Store -> HeldType] /\ \A t \in Store \ {s} : held'[t] = held[t]
  BY DEF StoresInv, TypeInv
<1>2. \A t \in Store : StoreTyped(store'[t])  BY DEF StoresInv, TypeInv
<1>3. \A t \in Store \ torn' : Sound(t, store'[t], held'[t], change')
  BY <1>1 DEF StoresInv
<1>4. TypeInv'
  <2>1. \A t \in Store : StoreTyped(store[t])'
    <3> SUFFICES ASSUME NEW t \in Store PROVE StoreTyped(store'[t])  BY DEF StoreTyped, StoreOn
    <3> QED  BY <1>2
  <2>2. change' # None => /\ ChangeTyped(change)'
                          /\ (change.stage \in Store /\ change.step # "derive"
                               => held[change.stage].key \in KeyType)'
    BY DEF ChangeTyped, StoreTyped
  <2> QED  BY <1>1, <2>1, <2>2 DEF TypeInv
<1>5. \A t \in Store \ torn' : Sound(t, store[t], held[t], change)'
  <2> SUFFICES ASSUME NEW t \in Store \ torn'
               PROVE  Sound(t, store'[t], held'[t], change')
    BY DEF Sound, Under, InTune
  <2> QED  BY <1>3
<1> QED  BY <1>4, <1>5 DEF StoresInv

(* Nothing of the stores changes. *)
LEMMA StoresStay ==
  ASSUME StoresInv, UNCHANGED <<store, held, starting, change, torn>>
  PROVE  StoresInv'
<1>1. TypeInv'  BY DEF StoresInv, TypeInv, ChangeTyped, StoreTyped
<1>2. \A t \in Store \ torn' : Sound(t, store[t], held[t], change)'
  BY DEF StoresInv, Sound, Under, InTune
<1> QED  BY <1>1, <1>2 DEF StoresInv

(* A change that has left the stores behind goes on or ends. *)
LEMMA ChangeGoesOn ==
  ASSUME StoresInv, UNCHANGED <<store, held, starting, torn>>, change # None, change.stage \notin Store,
         change' = None \/ (ChangeTyped(change') /\ change'.stage \notin Store)
  PROVE  StoresInv'
<1>1. TypeInv'
  <2>1. change' # None => ChangeTyped(change)'  BY DEF ChangeTyped, StoreTyped
  <2> QED  BY <2>1 DEF StoresInv, TypeInv, StoreTyped
<1>2. \A t \in Store \ torn' : Sound(t, store[t], held[t], change')
  BY DEF StoresInv, Sound
<1>3. \A t \in Store \ torn' : Sound(t, store[t], held[t], change)'
  BY <1>2 DEF Sound, Under, InTune
<1> QED  BY <1>1, <1>3 DEF StoresInv

(* A change keeps its type when its place moves. *)
LEMMA ChangeFields ==
  ASSUME NEW y, ChangeTyped(y)
  PROVE  /\ y.new \in Password /\ DOMAIN y = {"stage", "step", "new", "undo"}
         /\ y.step \in {"derive", "write", "check", "begin"}
<1>1. PICK D \in SUBSET Places : y \in ChangeOf(D)  BY DEF ChangeTyped
<1> DEFINE U == [store : StoreOn(D), key : KeyType \cup {None}] \cup {None}
<1>2. ChangeOf(D) = [stage : {"sessions", "prekeys", "own", "app", "bundle"},
                     step : {"derive", "write", "check", "begin"}, new : Password, undo : U]
  BY DEF ChangeOf
<1> HIDE DEF U
<1> QED  BY <1>1, <1>2

LEMMA ChangeMoves ==
  ASSUME NEW y, ChangeTyped(y),
         NEW st \in {"sessions", "prekeys", "own", "app", "bundle"},
         NEW sp \in {"derive", "write", "check", "begin"}
  PROVE  LET z == [stage |-> st, step |-> sp, new |-> y.new, undo |-> y.undo] IN
         z # None /\ \E D \in SUBSET Places : z \in ChangeOf(D)
<1> DEFINE z == [stage |-> st, step |-> sp, new |-> y.new, undo |-> y.undo]
<1>1. PICK D \in SUBSET Places : y \in ChangeOf(D)  BY DEF ChangeTyped
<1> DEFINE U == [store : StoreOn(D), key : KeyType \cup {None}] \cup {None}
<1>2. ChangeOf(D) = [stage : {"sessions", "prekeys", "own", "app", "bundle"},
                     step : {"derive", "write", "check", "begin"}, new : Password, undo : U]
  BY DEF ChangeOf
<1> HIDE DEF U
<1>3. y.new \in Password /\ y.undo \in U  BY <1>1, <1>2
<1>4. z \in ChangeOf(D)  BY <1>2, <1>3
<1> HIDE DEF z
<1>5. z # None  BY <1>4, VaultAssumption DEF Places
<1> QED  BY <1>4, <1>5 DEF z

-----------------------------------------------------------------------------
(* Signing in and saving.                                                  *)

LEMMA SignInStores ==
  ASSUME StoresInv, SignIn
  PROVE  StoresInv'
<1>1. /\ starting' = [stage |-> "prekeys", salt |-> store["prekeys"].salt]
      /\ UNCHANGED <<store, held, change, torn>>
  BY DEF SignIn, stores
<1>2. starting'.stage \in Store /\ starting'.salt \in Nat
  <2>1. StoreTyped(store["prekeys"])  BY DEF StoresInv, TypeInv, Store
  <2>2. store["prekeys"].salt \in Nat  BY <2>1 DEF StoreTyped, StoreOn
  <2> QED  BY <1>1, <2>2 DEF Store
<1>3. TypeInv'  BY <1>1, <1>2 DEF StoresInv, TypeInv, ChangeTyped, StoreTyped
<1>4. \A t \in Store \ torn' : Sound(t, store[t], held[t], change)'
  BY <1>1 DEF StoresInv, Sound, Under, InTune
<1> QED  BY <1>3, <1>4 DEF StoresInv

LEMMA PreKeysStartedStores ==
  ASSUME StoresInv, PreKeysStarted
  PROVE  StoresInv'
<1> DEFINE s == "prekeys"
           k == Key(Registered, starting.salt)
           kept == Kept(s, k)
           h == [key |-> k, loaded |-> TRUE, kept |-> kept]
           w == Written(s, k, kept)
<1>1. /\ starting # None
      /\ held' = [held EXCEPT ![s] = h]
      /\ store' = IF 1 \in Opened(s, k) THEN store ELSE [store EXCEPT ![s].blobs = w]
      /\ starting' = [stage |-> "sessions", salt |-> store["sessions"].salt]
      /\ torn' = torn \cup Met(s)
      /\ change' = change
  BY DEF PreKeysStarted
<1>2. /\ DOMAIN store = Store /\ \A t \in Store : StoreTyped(store[t])
      /\ starting.salt \in Nat
      /\ change # None => /\ ChangeTyped(change)
                          /\ change.stage \in Store /\ change.step # "derive"
                               => held[change.stage].key \in KeyType
      /\ held \in [Store -> HeldType]
  BY <1>1 DEF StoresInv, TypeInv
<1>3. s \in Store /\ "sessions" \in Store  BY DEF Store
<1>4. k \in KeyType  BY <1>2, KeyTyped, VaultAssumption
<1>5. kept \subseteq Places  BY <1>2, <1>3 DEF Kept, Opened, StoreTyped
<1>6. /\ DOMAIN w = Blobs(s) /\ w \in [Blobs(s) -> [key : KeyType, first : BOOLEAN]]
      /\ \A i \in DOMAIN w : w[i].key = k
  BY <1>3, <1>4, WrittenOK
<1>7. s \notin torn' => s \notin torn /\ ~ (change # None /\ change.stage = s)
                        /\ starting.salt = store[s].salt
  BY <1>1 DEF Met
<1>k. k = Key(Registered, starting.salt)  OBVIOUS
<1> HIDE DEF k, w, kept
<1>8. h \in HeldType /\ h.key = k /\ h.loaded = TRUE  BY <1>4, <1>5 DEF HeldType
<1>9. /\ DOMAIN store' = Store /\ StoreTyped(store'[s])
      /\ \A t \in Store \ {s} : store'[t] = store[t]
      /\ store'[s].salt = store[s].salt
      /\ s \notin torn' => Under(store'[s])
  <2>1. CASE 1 \in Opened(s, k)
    <3>1. store' = store  BY <1>1, <2>1
    <3>2. s \notin torn' => Under(store[s])  BY <1>3, <1>7 DEF StoresInv, Sound
    <3> QED  BY <1>2, <1>3, <3>1, <3>2
  <2>2. CASE 1 \notin Opened(s, k)
    <3>1. store' = [store EXCEPT ![s].blobs = w]  BY <1>1, <2>2
    <3>2. /\ DOMAIN store' = Store /\ \A t \in Store \ {s} : store'[t] = store[t]
          /\ store'[s].blobs = w /\ store'[s].salt = store[s].salt /\ StoreTyped(store'[s])
      BY <1>2, <1>3, <1>6, <3>1, ReplacedOK, BlobsInPlaces
    <3>3. s \notin torn' => Under(store'[s])  BY <1>6, <1>7, <1>k, <3>2, VaultAssumption DEF Under
    <3> QED  BY <3>2, <3>3
  <2> QED  BY <2>1, <2>2
<1>10. s \notin torn' => Sound(s, store'[s], h, change')
  <2>1. s \notin torn' => InTune(h.key, store'[s].salt, h.loaded)
    BY <1>7, <1>8, <1>9, <1>k, VaultAssumption DEF InTune
  <2> QED  BY <1>1, <1>7, <1>9, <2>1 DEF Sound
<1>11. starting'.stage \in Store /\ starting'.salt \in Nat
  <2>1. store["sessions"].salt \in Nat  BY <1>2, <1>3 DEF StoreTyped, StoreOn
  <2> QED  BY <1>1, <1>3, <2>1
<1>12. torn \subseteq torn'  BY <1>1
<1>13. change' # None => (change'.stage \in Store /\ change'.step # "derive"
                           => held'[change'.stage].key \in KeyType)
  BY <1>1, <1>2, <1>4, <1>8
<1> HIDE DEF s, h
<1> QED  BY <1>1, <1>2, <1>3, <1>8, <1>9, <1>10, <1>11, <1>12, <1>13, StepOK DEF s

LEMMA SessionsStartedStores ==
  ASSUME StoresInv, SessionsStarted
  PROVE  StoresInv'
<1> DEFINE s == "sessions"
           k == Key(Registered, starting.salt)
           opens == Opened(s, k) # {}
           kept == IF opens THEN Kept(s, k) ELSE held[s].kept
           h == [key |-> k, loaded |-> TRUE, kept |-> kept]
           w == <<>>
<1>1. /\ starting # None /\ starting' = None
      /\ held' = [held EXCEPT ![s] = h]
      /\ store' = IF opens \/ held[s].kept # {} THEN store ELSE [store EXCEPT ![s].blobs = w]
      /\ torn' = torn \cup Met(s)
      /\ change' = change
  BY DEF SessionsStarted, StoresInv, TypeInv, Store
<1>2. /\ DOMAIN store = Store /\ \A t \in Store : StoreTyped(store[t])
      /\ starting.salt \in Nat
      /\ change # None => /\ ChangeTyped(change)
                          /\ change.stage \in Store /\ change.step # "derive"
                               => held[change.stage].key \in KeyType
      /\ held \in [Store -> HeldType]
  BY <1>1 DEF StoresInv, TypeInv
<1>3. s \in Store  BY DEF Store
<1>4. k \in KeyType  BY <1>2, KeyTyped, VaultAssumption
<1>5. kept \subseteq Places
  <2>1. Kept(s, k) \subseteq Places  BY <1>2, <1>3 DEF Kept, Opened, StoreTyped
  <2>2. held[s].kept \subseteq Places  BY <1>2, <1>3 DEF HeldType
  <2> QED  BY <2>1, <2>2
<1>6. s \notin torn' => s \notin torn /\ ~ (change # None /\ change.stage = s)
                        /\ starting.salt = store[s].salt
  BY <1>1 DEF Met
<1>7. k = Key(Registered, starting.salt)  OBVIOUS
<1> HIDE DEF k, kept, opens, s
<1>8. h \in HeldType /\ h.key = k /\ h.loaded = TRUE  BY <1>4, <1>5 DEF HeldType
<1>9. /\ DOMAIN store' = Store /\ StoreTyped(store'[s])
      /\ \A t \in Store \ {s} : store'[t] = store[t]
      /\ store'[s].salt = store[s].salt
      /\ s \notin torn' => Under(store'[s])
  <2>1. CASE store' = store
    <3>1. s \notin torn' => Under(store[s])  BY <1>3, <1>6 DEF StoresInv, Sound
    <3> QED  BY <1>2, <1>3, <2>1, <3>1
  <2>2. CASE store' = [store EXCEPT ![s].blobs = w]
    <3>1. DOMAIN w = {} /\ w \in [{} -> [key : KeyType, first : BOOLEAN]]  BY NoBlobs
    <3> HIDE DEF w
    <3>2. DOMAIN w \subseteq Places /\ w \in [DOMAIN w -> [key : KeyType, first : BOOLEAN]]
      BY <3>1
    <3>3. /\ DOMAIN store' = Store /\ \A t \in Store \ {s} : store'[t] = store[t]
          /\ store'[s].blobs = w /\ store'[s].salt = store[s].salt /\ StoreTyped(store'[s])
      BY <1>2, <1>3, <2>2, <3>2, ReplacedOK
    <3>4. Under(store'[s])  BY <3>1, <3>3, VaultAssumption DEF Under
    <3> QED  BY <3>3, <3>4
  <2> QED  BY <1>1, <2>1, <2>2
<1>10. s \notin torn' => Sound(s, store'[s], h, change')
  <2>1. s \notin torn' => InTune(h.key, store'[s].salt, h.loaded)
    BY <1>6, <1>7, <1>8, <1>9, VaultAssumption DEF InTune
  <2> QED  BY <1>1, <1>6, <1>9, <2>1 DEF Sound
<1>11. torn \subseteq torn'  BY <1>1
<1>12. change' # None => (change'.stage \in Store /\ change'.step # "derive"
                           => held'[change'.stage].key \in KeyType)
  BY <1>1, <1>2, <1>4, <1>8
<1> HIDE DEF h
<1> QED  BY <1>1, <1>2, <1>3, <1>8, <1>9, <1>10, <1>11, <1>12, StepOK

LEMMA SaveStores ==
  ASSUME StoresInv, NEW s \in Store, Save(s)
  PROVE  StoresInv'
<1> DEFINE h == held[s]
           w == IF h.key = None THEN <<>> ELSE Written(s, h.key, h.kept)
<1>1. /\ h.loaded /\ store' = [store EXCEPT ![s].blobs = w]
      /\ UNCHANGED <<held, starting, change, torn>>
  BY DEF Save, tab
<1>2. /\ DOMAIN store = Store /\ \A t \in Store : StoreTyped(store[t])
      /\ starting # None => starting.stage \in Store /\ starting.salt \in Nat
      /\ change # None => /\ ChangeTyped(change)
                          /\ change.stage \in Store /\ change.step # "derive"
                               => held[change.stage].key \in KeyType
      /\ held \in [Store -> HeldType]
  BY <1>1 DEF StoresInv, TypeInv
<1>3. h \in HeldType /\ held' = [held EXCEPT ![s] = h]  BY <1>1, <1>2
<1>4. /\ DOMAIN w \subseteq Places /\ w \in [DOMAIN w -> [key : KeyType, first : BOOLEAN]]
      /\ \A i \in DOMAIN w : w[i].key = h.key
  <2>1. CASE h.key = None
    <3>1. w = <<>>  BY <2>1
    <3>2. DOMAIN w = {} /\ w \in [{} -> [key : KeyType, first : BOOLEAN]]  BY <3>1, NoBlobs
    <3> QED  BY <3>2
  <2>2. CASE h.key # None
    <3>1. w = Written(s, h.key, h.kept) /\ h.key \in KeyType  BY <1>3, <2>2 DEF HeldType
    <3> HIDE DEF w, h
    <3> QED  BY <3>1, WrittenOK, BlobsInPlaces
  <2> QED  BY <2>1, <2>2
<1>5. s \notin torn => Sound(s, store[s], h, change)  BY DEF StoresInv
<1> HIDE DEF w, h
<1>6. /\ DOMAIN store' = Store /\ \A t \in Store \ {s} : store'[t] = store[t]
      /\ store'[s].blobs = w /\ store'[s].salt = store[s].salt /\ StoreTyped(store'[s])
  BY <1>1, <1>2, <1>4, ReplacedOK
<1>7. s \notin torn => Sound(s, store'[s], h, change)
  <2> SUFFICES ASSUME s \notin torn PROVE Sound(s, store'[s], h, change)  OBVIOUS
  <2>1. CASE change # None /\ change.stage = s /\ change.step # "derive"
    BY <1>5, <1>6, <2>1 DEF Sound
  <2>2. CASE ~ (change # None /\ change.stage = s /\ change.step # "derive")
    <3>1. InTune(h.key, store[s].salt, h.loaded)  BY <1>5, <2>2 DEF Sound
    <3>2. Under(store'[s])  BY <1>1, <1>4, <1>6, <3>1 DEF InTune, Under
    <3> QED  BY <1>5, <1>6, <2>2, <3>1, <3>2 DEF Sound
  <2> QED  BY <2>1, <2>2
<1>8. change' # None => /\ ChangeTyped(change')
                        /\ change'.stage \in Store /\ change'.step # "derive"
                             => held'[change'.stage].key \in KeyType
  BY <1>1, <1>2
<1>9. s \notin torn' => Sound(s, store'[s], h, change')  BY <1>1, <1>7
<1>10. starting' # None => starting'.stage \in Store /\ starting'.salt \in Nat  BY <1>1, <1>2
<1>11. torn \subseteq torn' /\ change' = change  BY <1>1
<1> QED  BY <1>3, <1>6, <1>8, <1>9, <1>10, <1>11, StepOK

-----------------------------------------------------------------------------
(* A change of password, one store after the other.                        *)

(* What the next store's rekey starts from. *)
LEMMA BegunOK ==
  ASSUME StoresInv, NEW s \in Store, NEW p \in Password
  PROVE  LET y == [stage |-> s, step |-> "derive", new |-> p, undo |-> Saved(s)] IN
         /\ ChangeTyped(y) /\ y # None /\ y.stage = s /\ y.step = "derive"
         /\ y.undo.store = store[s] /\ y.undo.key = held[s].key
<1> DEFINE D == DOMAIN store[s].blobs
           u == Saved(s)
           y == [stage |-> s, step |-> "derive", new |-> p, undo |-> u]
<1>1. StoreTyped(store[s]) /\ held[s].key \in KeyType \cup {None}
  BY DEF StoresInv, TypeInv, HeldType
<1>2. D \in SUBSET Places /\ store[s] \in StoreOn(D)  BY <1>1 DEF StoreTyped
<1> HIDE DEF D
<1>3. u = [store |-> store[s], key |-> held[s].key]  BY DEF Saved
<1> HIDE DEF u
<1>4. /\ u.store = store[s] /\ u.key = held[s].key
      /\ u \in [store : StoreOn(D), key : KeyType \cup {None}]
      /\ u \in [store : {u.store}, key : KeyType \cup {None}]
  BY <1>1, <1>2, <1>3
<1>5. /\ y.stage = s /\ y.step = "derive" /\ y.undo = u
      /\ y \in ChangeOf(D)
  BY <1>4 DEF ChangeOf, Store
<1> HIDE DEF y
<1>6. y # None  BY <1>2, <1>5, VaultAssumption DEF Places
<1>7. ChangeTyped(y)  BY <1>1, <1>2, <1>4, <1>5 DEF ChangeTyped
<1> QED  BY <1>4, <1>5, <1>6, <1>7 DEF y, u

LEMMA ChangeBeginStores ==
  ASSUME StoresInv, ChangeBegin
  PROVE  StoresInv'
<1>1. PICK p \in Password \ {record} :
        /\ change = None
        /\ change' = [stage |-> "sessions", step |-> "derive", new |-> p, undo |-> Saved("sessions")]
  BY DEF ChangeBegin
<1>2. UNCHANGED <<store, held, starting, torn>>  BY DEF ChangeBegin, stores, tab
<1> DEFINE s == "sessions"
           h == held[s]
<1>3. /\ DOMAIN store = Store /\ \A t \in Store : StoreTyped(store[t])
      /\ starting # None => starting.stage \in Store /\ starting.salt \in Nat
      /\ held \in [Store -> HeldType] /\ s \in Store
  BY DEF StoresInv, TypeInv, Store
<1>4. h \in HeldType /\ held' = [held EXCEPT ![s] = h]  BY <1>2, <1>3
<1>5. change' = [stage |-> s, step |-> "derive", new |-> p, undo |-> Saved(s)]  BY <1>1
<1>6. \A t \in Store \ torn : Sound(t, store[t], held[t], change)  BY DEF StoresInv
<1> HIDE DEF s
<1>7. /\ ChangeTyped(change') /\ change' # None /\ change'.stage = s /\ change'.step = "derive"
      /\ change'.undo.store = store[s] /\ change'.undo.key = h.key
  BY <1>3, <1>5, BegunOK
<1> HIDE DEF h
<1>8. s \notin torn => Sound(s, store[s], h, change')
  <2>1. s \notin torn => Sound(s, store[s], h, change)  BY <1>3, <1>6 DEF h
  <2> QED  BY <1>1, <1>7, <2>1 DEF Sound
<1>9. \A t \in Store \ {s} : t \notin torn /\ Sound(t, store[t], held[t], change)
                               => Sound(t, store[t], held[t], change')
  BY <1>1, <1>7 DEF Sound
<1>10. DOMAIN store' = Store /\ StoreTyped(store'[s]) /\ \A t \in Store \ {s} : store'[t] = store[t]
  BY <1>2, <1>3
<1> QED  BY <1>2, <1>3, <1>4, <1>7, <1>8, <1>9, <1>10, StepOK

(* Where a change of store s stands. *)
LEMMA ChangingFacts ==
  ASSUME StoresInv, NEW s \in Store, change # None, change.stage = s
  PROVE  /\ DOMAIN store = Store /\ \A t \in Store : StoreTyped(store[t])
         /\ starting # None => starting.stage \in Store /\ starting.salt \in Nat
         /\ held \in [Store -> HeldType] /\ held[s] \in HeldType
         /\ ChangeTyped(change)
         /\ change.new \in Password /\ store[s].salt \in Nat
         /\ change.step # "derive" => held[s].key \in KeyType
         /\ s \notin torn => Sound(s, store[s], held[s], change)
<1>1. TypeInv  BY DEF StoresInv
<1>2. ChangeTyped(change) /\ StoreTyped(store[s])  BY <1>1 DEF TypeInv
<1>3. change.new \in Password  BY <1>2, ChangeFields
<1>4. store[s].salt \in Nat  BY <1>2 DEF StoreTyped, StoreOn
<1> QED  BY <1>1, <1>2, <1>3, <1>4 DEF TypeInv, StoresInv

LEMMA StepMoves ==
  ASSUME NEW s \in Store, NEW y, ChangeTyped(y), y # None, y.stage = s,
         NEW sp \in {"derive", "write", "check"},
         NEW z, z = [y EXCEPT !.step = sp]
  PROVE  ChangeTyped(z) /\ z # None /\ z.stage = s /\ z.step = sp /\ z.new = y.new /\ z.undo = y.undo
<1>1. s \in {"sessions", "prekeys", "own", "app", "bundle"}
      /\ sp \in {"derive", "write", "check", "begin"}
  BY DEF Store
<1>2. DOMAIN y = {"stage", "step", "new", "undo"}  BY ChangeFields
<1>3. z = [stage |-> s, step |-> sp, new |-> y.new, undo |-> y.undo]  BY <1>2
<1>4. z # None /\ \E D \in SUBSET Places : z \in ChangeOf(D)
  <2>1. LET v == [stage |-> s, step |-> sp, new |-> y.new, undo |-> y.undo] IN
        v # None /\ \E D \in SUBSET Places : v \in ChangeOf(D)
    BY <1>1, ChangeMoves, ZenonT(40)
  <2> QED  BY <1>3, <2>1
<1>5. z.stage = s /\ z.step = sp /\ z.new = y.new /\ z.undo = y.undo  BY <1>3
<1>6. ChangeTyped(z)  BY <1>4, <1>5 DEF ChangeTyped
<1> QED  BY <1>4, <1>5, <1>6

LEMMA DerivedStores ==
  ASSUME StoresInv, NEW s \in Store, Derived(s)
  PROVE  StoresInv'
<1> DEFINE k == Key(change.new, NewSalt(s))
           h == [held[s] EXCEPT !.key = k]
<1>1. /\ change # None /\ change.stage = s /\ change.step = "derive"
      /\ change' = [change EXCEPT !.step = "write"]
      /\ UNCHANGED <<store, starting, torn>>
  BY DEF Derived, tab
<1>2. /\ DOMAIN store = Store /\ \A t \in Store : StoreTyped(store[t])
      /\ starting # None => starting.stage \in Store /\ starting.salt \in Nat
      /\ held \in [Store -> HeldType] /\ held[s] \in HeldType
      /\ ChangeTyped(change)
      /\ change.new \in Password /\ store[s].salt \in Nat
      /\ s \notin torn => Sound(s, store[s], held[s], change)
  BY <1>1, ChangingFacts
<1>3. held' = [held EXCEPT ![s] = h]  BY <1>2 DEF Derived
<1>4. k \in KeyType  BY <1>2, KeyTyped DEF NewSalt
<1>5. k = Key(change.new, store[s].salt + 1)  BY DEF NewSalt
<1> HIDE DEF k
<1>6. h \in HeldType /\ h.key = k /\ h.loaded = held[s].loaded  BY <1>2, <1>4 DEF HeldType
<1> HIDE DEF h
<1>7. /\ ChangeTyped(change') /\ change' # None /\ change'.stage = s /\ change'.step = "write"
      /\ change'.new = change.new /\ change'.undo = change.undo
  BY <1>1, <1>2, StepMoves
<1>8. s \notin torn => Sound(s, store[s], h, change')
  BY <1>1, <1>2, <1>5, <1>6, <1>7 DEF Sound
<1>9. \A t \in Store \ {s} : t \notin torn /\ Sound(t, store[t], held[t], change)
                               => Sound(t, store[t], held[t], change')
  BY <1>1, <1>7 DEF Sound
<1>10. DOMAIN store' = Store /\ StoreTyped(store'[s]) /\ \A t \in Store \ {s} : store'[t] = store[t]
  BY <1>1, <1>2
<1>11. held'[change'.stage].key \in KeyType  BY <1>2, <1>3, <1>4, <1>6, <1>7
<1> QED  BY <1>1, <1>2, <1>3, <1>6, <1>7, <1>8, <1>9, <1>10, <1>11, StepOK

LEMMA RewrapStores ==
  ASSUME StoresInv, NEW s \in Store, Rewrap(s)
  PROVE  StoresInv'
<1> DEFINE h == held[s]
           written(n) == {i \in 1 .. n : h.loaded \/ s = "sessions" \/ i > 1}
           b(n) == [i \in DOMAIN store[s].blobs \cup written(n) |->
                      IF i \in written(n) THEN [key |-> h.key, first |-> i \in h.kept]
                      ELSE store[s].blobs[i]]
<1>1. change # None /\ change.stage = s /\ change.step = "write"  BY DEF Rewrap
<1>2. /\ DOMAIN store = Store /\ \A t \in Store : StoreTyped(store[t])
      /\ starting # None => starting.stage \in Store /\ starting.salt \in Nat
      /\ held \in [Store -> HeldType] /\ h \in HeldType
      /\ ChangeTyped(change)
      /\ h.key \in KeyType
      /\ s \notin torn => Sound(s, store[s], h, change)
  BY <1>1, ChangingFacts
<1>3. PICK n \in 0 .. Cardinality(Blobs(s)) : store' = [store EXCEPT ![s].blobs = b(n)]
  BY <1>2 DEF Rewrap
<1>4. change' = [change EXCEPT !.step = "check"] /\ UNCHANGED <<held, starting, torn>>
  BY DEF Rewrap, tab
<1>5. written(n) \subseteq Places  BY BlobsInPlaces
<1> DEFINE w == b(n)
           D == DOMAIN store[s].blobs \cup written(n)
<1>6. D \subseteq Places /\ DOMAIN w = D /\ w \in [D -> [key : KeyType, first : BOOLEAN]]
  BY <1>2, <1>5 DEF StoreTyped, StoreOn
<1>7. store' = [store EXCEPT ![s].blobs = w]  BY <1>3
<1>8. held' = [held EXCEPT ![s] = h]  BY <1>2, <1>4
<1>9. h = held[s]  OBVIOUS
<1> HIDE DEF w, D, h
<1>10. /\ DOMAIN store' = Store /\ \A t \in Store \ {s} : store'[t] = store[t]
       /\ store'[s].salt = store[s].salt /\ StoreTyped(store'[s])
  BY <1>2, <1>6, <1>7, ReplacedOK
<1>11. /\ ChangeTyped(change') /\ change' # None /\ change'.stage = s /\ change'.step = "check"
       /\ change'.new = change.new /\ change'.undo = change.undo
  BY <1>1, <1>2, <1>4, StepMoves
<1>12. s \notin torn => Sound(s, store'[s], h, change')
  BY <1>1, <1>2, <1>10, <1>11 DEF Sound
<1>13. \A t \in Store \ {s} : t \notin torn /\ Sound(t, store[t], held[t], change)
                                => Sound(t, store[t], held[t], change')
  BY <1>1, <1>11 DEF Sound
<1>14. held'[change'.stage].key \in KeyType  BY <1>2, <1>4, <1>9, <1>11
<1>15. starting' # None => starting'.stage \in Store /\ starting'.salt \in Nat  BY <1>2, <1>4
<1>16. torn \subseteq torn' /\ (s \notin torn' => Sound(s, store'[s], h, change'))  BY <1>4, <1>12
<1>17. \A t \in Store \ {s} : t \notin torn' /\ Sound(t, store[t], held[t], change)
                               => Sound(t, store[t], held[t], change')
  BY <1>4, <1>13
<1> QED  BY <1>2, <1>8, <1>10, <1>11, <1>14, <1>15, <1>16, <1>17, StepOK

(* What a change goes on to once store s has moved. *)
LEMMA MovedOK ==
  ASSUME StoresInv, NEW s \in Store, change # None, change.stage = s
  PROVE  /\ ChangeTyped(Moved(s)) /\ Moved(s) # None /\ Moved(s).stage # s
         /\ Moved(s).stage \in Store =>
              /\ Moved(s).step = "derive"
              /\ Moved(s).undo.store = store[Moved(s).stage]
              /\ Moved(s).undo.key = held[Moved(s).stage].key
<1>1. ChangeTyped(change)  BY ChangingFacts
<1>2. change.new \in Password /\ DOMAIN change = {"stage", "step", "new", "undo"}
  BY <1>1, ChangeFields
<1>3. CASE s = "sessions"
  <2> DEFINE t == "prekeys"
             u == Saved(t)
  <2>1. Moved(s) = [change EXCEPT !.stage = t, !.step = "derive", !.undo = u]
    BY <1>3 DEF Moved
  <2>2. t \in Store /\ t # s  BY <1>3 DEF Store
  <2> HIDE DEF u, t
  <2>3. Moved(s) = [stage |-> t, step |-> "derive", new |-> change.new, undo |-> u]
    BY <1>2, <2>1
  <2>4. Moved(s) = [stage |-> t, step |-> "derive", new |-> change.new, undo |-> Saved(t)]
    BY <2>3 DEF u
  <2>5. /\ ChangeTyped(Moved(s)) /\ Moved(s) # None /\ Moved(s).stage = t
        /\ Moved(s).step = "derive"
        /\ Moved(s).undo.store = store[t] /\ Moved(s).undo.key = held[t].key
    BY <1>2, <2>2, <2>4, BegunOK
  <2> QED  BY <2>2, <2>5
<1>4. CASE s # "sessions"
  <2>1. Moved(s) = [change EXCEPT !.stage = "own", !.step = "begin", !.undo = None]
    BY <1>4 DEF Moved
  <2>2. Moved(s) = [stage |-> "own", step |-> "begin", new |-> change.new, undo |-> None]
    BY <1>2, <2>1
  <2>3. Moved(s) \in ChangeOf({})  BY <1>2, <2>2 DEF ChangeOf
  <2>4. Moved(s) # None  BY <2>3, VaultAssumption
  <2>5. Moved(s).stage = "own"  BY <2>2
  <2>6. Moved(s).stage \notin Store  BY <2>5 DEF Store
  <2>7. ChangeTyped(Moved(s))  BY <2>3, <2>6 DEF ChangeTyped
  <2> QED  BY <2>4, <2>6, <2>7
<1> QED  BY <1>3, <1>4

LEMMA CommitStores ==
  ASSUME StoresInv, NEW s \in Store, Commit(s)
  PROVE  StoresInv'
<1> DEFINE h == held[s]
           n == NewSalt(s)
<1>1. /\ change # None /\ change.stage = s /\ change.step = "check"
      /\ \A i \in DOMAIN store[s].blobs : store[s].blobs[i].key = h.key
      /\ store' = [store EXCEPT ![s].salt = n]
      /\ change' = Moved(s)
      /\ UNCHANGED <<held, starting, torn>>
  BY DEF Commit, ReadsBack, tab
<1>2. /\ DOMAIN store = Store /\ \A t \in Store : StoreTyped(store[t])
      /\ starting # None => starting.stage \in Store /\ starting.salt \in Nat
      /\ held \in [Store -> HeldType] /\ h \in HeldType
      /\ change.new \in Password /\ store[s].salt \in Nat
      /\ s \notin torn => Sound(s, store[s], h, change)
  BY <1>1, ChangingFacts
<1>3. n \in Nat /\ n = store[s].salt + 1  BY <1>2 DEF NewSalt
<1>4. held' = [held EXCEPT ![s] = h]  BY <1>1, <1>2
<1>5. h = held[s]  OBVIOUS
<1> HIDE DEF h, n
<1>6. /\ DOMAIN store' = Store /\ \A t \in Store \ {s} : store'[t] = store[t]
      /\ store'[s].blobs = store[s].blobs /\ store'[s].salt = n /\ StoreTyped(store'[s])
  BY <1>1, <1>2, <1>3, ReplacedOK
<1>7. /\ ChangeTyped(change') /\ change' # None /\ change'.stage # s
      /\ change'.stage \in Store => /\ change'.step = "derive"
                                    /\ change'.undo.store = store[change'.stage]
                                    /\ change'.undo.key = held[change'.stage].key
  BY <1>1, MovedOK
<1>8. s \notin torn => Sound(s, store'[s], h, change')
  <2> SUFFICES ASSUME s \notin torn PROVE Sound(s, store'[s], h, change')  OBVIOUS
  <2>1. h.key = Key(change.new, n)  BY <1>1, <1>2, <1>3 DEF Sound
  <2>2. Under(store'[s])  BY <1>1, <1>2, <1>6, <2>1 DEF Under
  <2>3. InTune(h.key, store'[s].salt, h.loaded)  BY <1>2, <1>6, <2>1 DEF InTune
  <2> QED  BY <1>7, <2>2, <2>3 DEF Sound
<1>9. \A t \in Store \ {s} : t \notin torn /\ Sound(t, store[t], held[t], change)
                               => Sound(t, store[t], held[t], change')
  <2> SUFFICES ASSUME NEW t \in Store \ {s}, Sound(t, store[t], held[t], change)
               PROVE  Sound(t, store[t], held[t], change')
    OBVIOUS
  <2>1. Under(store[t]) /\ InTune(held[t].key, store[t].salt, held[t].loaded)
    BY <1>1 DEF Sound
  <2> QED  BY <1>7, <2>1 DEF Sound
<1>10. starting' # None => starting'.stage \in Store /\ starting'.salt \in Nat  BY <1>1, <1>2
<1>11. torn \subseteq torn' /\ (s \notin torn' => Sound(s, store'[s], h, change'))  BY <1>1, <1>8
<1>12. \A t \in Store \ {s} : t \notin torn' /\ Sound(t, store[t], held[t], change)
                                => Sound(t, store[t], held[t], change')
  BY <1>1, <1>9
<1> QED  BY <1>2, <1>4, <1>6, <1>7, <1>10, <1>11, <1>12, StepOK

LEMMA RollbackStores ==
  ASSUME StoresInv, NEW s \in Store, Rollback(s)
  PROVE  StoresInv'
<1> DEFINE u == change.undo
           h == [held[s] EXCEPT !.key = u.key]
<1>1. /\ change # None /\ change.stage = s /\ change.step = "check"
      /\ store' = [store EXCEPT ![s] = u.store]
      /\ change' = None
      /\ UNCHANGED <<starting, torn>>
  BY DEF Rollback, tab
<1>2. /\ DOMAIN store = Store /\ \A t \in Store : StoreTyped(store[t])
      /\ starting # None => starting.stage \in Store /\ starting.salt \in Nat
      /\ held \in [Store -> HeldType] /\ held[s] \in HeldType
      /\ ChangeTyped(change)
      /\ s \notin torn => Sound(s, store[s], held[s], change)
  BY <1>1, ChangingFacts
<1>3. held' = [held EXCEPT ![s] = h]  BY <1>2 DEF Rollback
<1>4. /\ StoreTyped(u.store)
      /\ u \in [store : {u.store}, key : KeyType \cup {None}]
  BY <1>1, <1>2 DEF ChangeTyped
<1>5. u.key \in KeyType \cup {None}  BY <1>4
<1>6. s \notin torn => Under(u.store) /\ InTune(u.key, u.store.salt, held[s].loaded)
  BY <1>1, <1>2 DEF Sound
<1> HIDE DEF u
<1>7. h \in HeldType /\ h.key = u.key /\ h.loaded = held[s].loaded  BY <1>2, <1>5 DEF HeldType
<1> HIDE DEF h
<1>8. /\ DOMAIN store' = Store /\ store'[s] = u.store /\ StoreTyped(store'[s])
      /\ \A t \in Store \ {s} : store'[t] = store[t]
  BY <1>1, <1>2, <1>4
<1>9. s \notin torn' => Sound(s, store'[s], h, change')  BY <1>1, <1>6, <1>7, <1>8 DEF Sound
<1>10. \A t \in Store \ {s} : t \notin torn' /\ Sound(t, store[t], held[t], change)
                                => Sound(t, store[t], held[t], change')
  BY <1>1 DEF Sound
<1>11. starting' # None => starting'.stage \in Store /\ starting'.salt \in Nat  BY <1>1, <1>2
<1>12. torn \subseteq torn'  BY <1>1
<1> QED  BY <1>1, <1>2, <1>3, <1>7, <1>8, <1>9, <1>10, <1>11, <1>12, StepOK

(* The steps of a change that come after the stores. *)
LEMMA AfterStores ==
  ASSUME StoresInv, OwnRekeyed \/ RecordMoved \/ AppMoved \/ BundleMoved
  PROVE  StoresInv'
<1>1. /\ change # None /\ change.stage \in {"own", "app", "bundle"}
      /\ UNCHANGED <<store, held, starting, torn>>
  BY DEF OwnRekeyed, RecordMoved, AppMoved, BundleMoved, stores, tab
<1>2. ChangeTyped(change) /\ change.stage \notin Store
  BY <1>1 DEF StoresInv, TypeInv, Store
<1>3. /\ change.new \in Password /\ DOMAIN change = {"stage", "step", "new", "undo"}
      /\ change.step \in {"derive", "write", "check", "begin"}
  BY <1>2, ChangeFields
<1>4. ASSUME NEW st \in {"own", "app", "bundle"}, NEW sp \in {"derive", "write", "check", "begin"},
             change' = [stage |-> st, step |-> sp, new |-> change.new, undo |-> change.undo]
      PROVE  ChangeTyped(change') /\ change'.stage \notin Store
  <2>1. LET v == [stage |-> st, step |-> sp, new |-> change.new, undo |-> change.undo] IN
        v # None /\ \E D \in SUBSET Places : v \in ChangeOf(D)
    BY <1>2, ChangeMoves
  <2>2. change'.stage \notin Store  BY <1>4 DEF Store
  <2> QED  BY <1>4, <2>1, <2>2 DEF ChangeTyped
<1>5. \/ change' = None
      \/ \E st \in {"own", "app", "bundle"}, sp \in {"derive", "write", "check", "begin"} :
           change' = [stage |-> st, step |-> sp, new |-> change.new, undo |-> change.undo]
  <2>1. CASE OwnRekeyed
    <3>1. change' = [change EXCEPT !.step = "write"] /\ change.stage = "own"
      BY <2>1 DEF OwnRekeyed
    <3>2. change' = [stage |-> "own", step |-> "write", new |-> change.new, undo |-> change.undo]
      BY <1>3, <3>1
    <3> QED  BY <3>2
  <2>2. CASE RecordMoved
    <3>1. change' = None \/ change' = [change EXCEPT !.stage = "app"]  BY <2>2 DEF RecordMoved
    <3>2. CASE change' = [change EXCEPT !.stage = "app"]
      <4>1. change' = [stage |-> "app", step |-> change.step, new |-> change.new,
                       undo |-> change.undo]
        BY <1>3, <3>2
      <4> QED  BY <1>3, <4>1
    <3> QED  BY <3>1, <3>2
  <2>3. CASE AppMoved
    <3>1. change' = [change EXCEPT !.stage = "bundle"]  BY <2>3 DEF AppMoved
    <3>2. change' = [stage |-> "bundle", step |-> change.step, new |-> change.new,
                     undo |-> change.undo]
      BY <1>3, <3>1
    <3> QED  BY <1>3, <3>2
  <2>4. CASE BundleMoved  BY <2>4 DEF BundleMoved
  <2> QED  BY <2>1, <2>2, <2>3, <2>4
<1>6. change' = None \/ (ChangeTyped(change') /\ change'.stage \notin Store)
  BY <1>4, <1>5
<1> QED  BY <1>1, <1>2, <1>6, ChangeGoesOn

LEMMA ReloadStores ==
  ASSUME StoresInv, Reload
  PROVE  StoresInv'
<1>1. /\ store' = store /\ held' = Shut /\ starting' = None /\ change' = None
      /\ torn' = torn \cup (IF change # None /\ change.stage \in Store THEN {change.stage} ELSE {})
  BY DEF Reload
<1>2. Shut \in [Store -> HeldType]  BY DEF Shut, HeldType
<1>3. TypeInv'
  <2>1. \A s \in Store : StoreTyped(store[s])'  BY <1>1 DEF StoresInv, TypeInv, StoreTyped
  <2> QED  BY <1>1, <1>2, <2>1 DEF StoresInv, TypeInv
<1>4. \A s \in Store \ torn' : Sound(s, store[s], Shut[s], None)
  <2> SUFFICES ASSUME NEW s \in Store \ torn' PROVE Sound(s, store[s], Shut[s], None)
    OBVIOUS
  <2>1. s \notin torn /\ ~ (change # None /\ change.stage = s)  BY <1>1
  <2>2. Under(store[s])  BY <2>1 DEF StoresInv, Sound
  <2>3. Shut[s] = [key |-> None, loaded |-> FALSE, kept |-> {}]  BY DEF Shut
  <2> QED  BY <2>2, <2>3 DEF Sound, InTune
<1>5. \A s \in Store \ torn' : Sound(s, store[s], held[s], change)'
  BY <1>1, <1>4 DEF Sound, Under, InTune
<1> QED  BY <1>3, <1>5 DEF StoresInv

LEMMA InitStores ==
  ASSUME Init
  PROVE  StoresInv
<1> DEFINE b(t) == [i \in Blobs(t) |-> [key |-> Key(Registered, 0), first |-> TRUE]]
<1>1. /\ store = [t \in Store |-> [salt |-> 0, blobs |-> b(t)]]
      /\ held = Shut /\ starting = None /\ change = None /\ torn = {}
  BY DEF Init
<1>2. Registered \in Password  BY VaultAssumption
<1>3. Key(Registered, 0) \in KeyType  BY <1>2, KeyTyped
<1>4. \A t \in Store : /\ store[t].salt = 0 /\ store[t].blobs = b(t)
                       /\ store[t] = [salt |-> 0, blobs |-> b(t)]
  BY <1>1
<1>5. \A t \in Store : /\ DOMAIN b(t) = Blobs(t) /\ DOMAIN b(t) \subseteq Places
                       /\ b(t) \in [Blobs(t) -> [key : KeyType, first : BOOLEAN]]
                       /\ \A i \in DOMAIN b(t) : b(t)[i].key = Key(Registered, 0)
  BY <1>3, BlobsInPlaces
<1> HIDE DEF b
<1>6. \A t \in Store : StoreTyped(store[t]) /\ Under(store[t])
  <2> SUFFICES ASSUME NEW t \in Store PROVE StoreTyped(store[t]) /\ Under(store[t])
    OBVIOUS
  <2>1. store[t] \in StoreOn(Blobs(t))
    <3>1. b(t) \in [Blobs(t) -> [key : KeyType, first : BOOLEAN]]  BY <1>5
    <3>2. store[t] = [salt |-> 0, blobs |-> b(t)]  BY <1>4
    <3> QED  BY <3>1, <3>2 DEF StoreOn
  <2>2. StoreTyped(store[t])  BY <1>4, <1>5, <2>1 DEF StoreTyped
  <2>3. Under(store[t])  BY <1>2, <1>4, <1>5 DEF Under
  <2> QED  BY <2>2, <2>3
<1>7. held \in [Store -> HeldType] /\ \A t \in Store : ~held[t].loaded
  BY <1>1 DEF Shut, HeldType
<1>8. TypeInv  BY <1>1, <1>6, <1>7 DEF TypeInv
<1>9. \A t \in Store : Sound(t, store[t], held[t], change)
  BY <1>1, <1>6, <1>7 DEF Sound, InTune
<1> QED  BY <1>1, <1>8, <1>9 DEF StoresInv

LEMMA NextStores ==
  ASSUME StoresInv, [Next]_vars
  PROVE  StoresInv'
<1>1. CASE SignIn  BY <1>1, SignInStores
<1>2. CASE PreKeysStarted  BY <1>2, PreKeysStartedStores
<1>3. CASE SessionsStarted  BY <1>3, SessionsStartedStores
<1>4. CASE Fetched \/ Recorded \/ Send \/ Remember \/ Type \/ LogOut
  <2>1. UNCHANGED <<store, held, starting, change, torn>>
    BY <1>4 DEF Fetched, Recorded, Send, Remember, Type, LogOut, stores, tab
  <2> QED  BY <2>1, StoresStay
<1>5. CASE ChangeBegin  BY <1>5, ChangeBeginStores
<1>6. CASE OwnRekeyed \/ RecordMoved \/ AppMoved \/ BundleMoved  BY <1>6, AfterStores
<1>7. CASE \E s \in Store : Save(s) \/ Derived(s) \/ Rewrap(s) \/ Commit(s) \/ Rollback(s)
  BY <1>7, SaveStores, DerivedStores, RewrapStores, CommitStores, RollbackStores
<1>8. CASE Reload  BY <1>8, ReloadStores
<1>9. CASE UNCHANGED <<stores, record, bundle, tab, change, late, torn>>
  BY <1>9, StoresStay DEF stores, tab
<1>10. CASE UNCHANGED vars
  <2>1. UNCHANGED <<store, held, starting, change, torn>>  BY <1>10 DEF vars
  <2> QED  BY <2>1, StoresStay
<1> QED  BY <1>1, <1>2, <1>3, <1>4, <1>5, <1>6, <1>7, <1>8, <1>9, <1>10 DEF Next

-----------------------------------------------------------------------------
(* A box, call by call.                                                    *)

Fields == {"tab", "pass", "dirty", "generation", "changes", "timer", "failures", "pending",
           "writer", "readers", "disk"}

(* Whatever is under way in a box began no later than its generation; if the box has no password, *)
(* what began in this generation brings nothing, and nothing is on the disk once it was left.     *)
LastOK(x) ==
  /\ DOMAIN x = Fields
  /\ x.generation \in Nat
  /\ \A r \in x.readers :
       /\ r.generation \in Nat /\ r.generation <= x.generation
       /\ x.pass = None /\ r.generation = x.generation => r.stored = None
  /\ x.writer # None =>
       /\ x.writer.generation \in Nat /\ x.writer.generation <= x.generation
       /\ x.pass = None => x.writer.generation # x.generation
  /\ x.pass = None /\ x.generation > 0 => x.disk = None

(* The words in the tab while the box has no password. *)
OwnWords(x, l) == x.pass = None => \E S : x.tab \in Seq(S) /\ \A e \in S : e.key \in l

DraftWords(x, a) ==
  x.pass = None /\ a = None => \E S : x.tab \in Seq(S) /\ \A e \in S : e.text = Swept

BoxesInv ==
  /\ DOMAIN box = Box
  /\ \A b \in Box : LastOK(box[b])
  /\ OwnWords(box["own"], late)
  /\ DraftWords(box["drafts"], auth)
  /\ legacy \subseteq Channels

(* A step within a generation that ends something, or takes the box off the disk. *)
LEMMA SameBox ==
  ASSUME NEW x, LastOK(x), NEW z, DOMAIN z = Fields,
         z.generation = x.generation, z.pass = x.pass, z.readers \subseteq x.readers,
         z.writer \in {x.writer, None}, z.disk \in {x.disk, None}
  PROVE  LastOK(z)
BY DEF LastOK

(* A new generation. *)
LEMMA LaterBox ==
  ASSUME NEW x, LastOK(x), NEW z, DOMAIN z = Fields,
         z.generation = x.generation + 1, z.readers = x.readers, z.writer = x.writer,
         z.pass # None \/ z.disk = None
  PROVE  LastOK(z)
BY DEF LastOK

(* A load that begins. *)
LEMMA HydratingBox ==
  ASSUME NEW x, LastOK(x), NEW p, x.pass # None \/ p = None
  PROVE  /\ LastOK(Hydrating(x, p))
         /\ Hydrating(x, p).pass = x.pass /\ Hydrating(x, p).tab = x.tab
<1> DEFINE r == [generation |-> x.generation, stored |-> SecureGet(x, p)]
           z == Hydrating(x, p)
<1>1. p = None => SecureGet(x, p) = None  BY DEF SecureGet
<1>2. r.generation = x.generation /\ r.stored = SecureGet(x, p)  OBVIOUS
<1>3. z = [x EXCEPT !.readers = @ \cup {r}]  BY DEF Hydrating
<1>4. DOMAIN x = Fields  BY DEF LastOK
<1> HIDE DEF r, z
<1>5. /\ DOMAIN z = Fields /\ z.generation = x.generation /\ z.pass = x.pass /\ z.tab = x.tab
      /\ z.readers = x.readers \cup {r} /\ z.writer = x.writer /\ z.disk = x.disk
  BY <1>3, <1>4 DEF Fields
<1>6. LastOK(z)  BY <1>1, <1>2, <1>5 DEF LastOK
<1> QED  BY <1>5, <1>6 DEF z

(* What only a timer, a queue or a flag learns of. *)
LEMMA QueueBox ==
  ASSUME NEW x, LastOK(x)
  PROVE  /\ \A job : /\ LastOK(Queue(x, job))
                     /\ Queue(x, job).pass = x.pass /\ Queue(x, job).tab = x.tab
         /\ LastOK(Flush(x)) /\ Flush(x).pass = x.pass /\ Flush(x).tab = x.tab
         /\ LastOK(SchedulePersist(x))
         /\ SchedulePersist(x).pass = x.pass /\ SchedulePersist(x).tab = x.tab
<1>1. DOMAIN x = Fields  BY DEF LastOK
<1>2. ASSUME NEW z, DOMAIN z = Fields, z.generation = x.generation, z.pass = x.pass,
             z.readers = x.readers, z.writer = x.writer, z.disk = x.disk, z.tab = x.tab
      PROVE  LastOK(z) /\ z.pass = x.pass /\ z.tab = x.tab
  BY <1>2, SameBox
<1>3. ASSUME NEW job
      PROVE  LastOK(Queue(x, job)) /\ Queue(x, job).pass = x.pass /\ Queue(x, job).tab = x.tab
  <2> DEFINE z == Queue(x, job)
  <2>1. /\ DOMAIN z = Fields /\ z.generation = x.generation /\ z.pass = x.pass
        /\ z.readers = x.readers /\ z.writer = x.writer /\ z.disk = x.disk /\ z.tab = x.tab
    BY <1>1 DEF Queue, Fields
  <2> HIDE DEF z
  <2>2. LastOK(z) /\ z.pass = x.pass /\ z.tab = x.tab  BY <1>2, <2>1
  <2> QED  BY <2>2 DEF z
<1>4. LastOK(Flush(x)) /\ Flush(x).pass = x.pass /\ Flush(x).tab = x.tab
  <2> DEFINE z == Flush(x)
  <2>1. /\ DOMAIN z = Fields /\ z.generation = x.generation /\ z.pass = x.pass
        /\ z.readers = x.readers /\ z.writer = x.writer /\ z.disk = x.disk /\ z.tab = x.tab
    BY <1>1 DEF Flush, Queue, Fields
  <2> HIDE DEF z
  <2>2. LastOK(z) /\ z.pass = x.pass /\ z.tab = x.tab  BY <1>2, <2>1
  <2> QED  BY <2>2 DEF z
<1>5. /\ LastOK(SchedulePersist(x))
      /\ SchedulePersist(x).pass = x.pass /\ SchedulePersist(x).tab = x.tab
  <2> DEFINE z == SchedulePersist(x)
  <2>1. /\ DOMAIN z = Fields /\ z.generation = x.generation /\ z.pass = x.pass
        /\ z.readers = x.readers /\ z.writer = x.writer /\ z.disk = x.disk /\ z.tab = x.tab
    BY <1>1 DEF SchedulePersist, Fields
  <2> HIDE DEF z
  <2>2. LastOK(z) /\ z.pass = x.pass /\ z.tab = x.tab  BY <1>2, <2>1
  <2> QED  BY <2>2 DEF z
<1> QED  BY <1>3, <1>4, <1>5

(* Signing in and out of a box, and a change of its password. *)
LEMMA SetOwnOK ==
  ASSUME NEW x, LastOK(x), NEW p
  PROVE  /\ LastOK(SetOwnPassword(x, p)) /\ SetOwnPassword(x, p).pass = p
         /\ p = None /\ x.tab = <<>> => SetOwnPassword(x, p).tab = <<>>
<1> DEFINE moved == [x EXCEPT !.generation = @ + 1, !.timer = FALSE, !.pass = p]
           gone == SecureRemove([moved EXCEPT !.tab = <<>>, !.dirty = FALSE])
<1>1. SetOwnPassword(x, p) = IF p = x.pass THEN x
                             ELSE IF p # None THEN Hydrating(moved, p) ELSE gone
  BY DEF SetOwnPassword
<1>2. DOMAIN x = Fields  BY DEF LastOK
<1>3. /\ DOMAIN moved = Fields /\ moved.generation = x.generation + 1 /\ moved.pass = p
      /\ moved.readers = x.readers /\ moved.writer = x.writer /\ moved.disk = x.disk
  BY <1>2 DEF Fields
<1>4. gone = SecureRemove([moved EXCEPT !.tab = <<>>, !.dirty = FALSE])  OBVIOUS
<1> HIDE DEF moved, gone
<1>5. CASE p = x.pass  BY <1>1, <1>5
<1>6. CASE p # x.pass /\ p # None
  <2>1. LastOK(moved)  BY <1>3, <1>6, LaterBox
  <2>2. LastOK(Hydrating(moved, p)) /\ Hydrating(moved, p).pass = moved.pass
    BY <1>3, <1>6, <2>1, HydratingBox
  <2> QED  BY <1>1, <1>3, <1>6, <2>2
<1>7. CASE p # x.pass /\ p = None
  <2>1. /\ DOMAIN gone = Fields /\ gone.generation = x.generation + 1 /\ gone.pass = None
        /\ gone.readers = x.readers /\ gone.writer = x.writer /\ gone.disk = None
        /\ gone.tab = <<>>
    BY <1>3, <1>4, <1>7 DEF SecureRemove, Fields
  <2>2. LastOK(gone)  BY <2>1, LaterBox
  <2> QED  BY <1>1, <1>7, <2>1, <2>2
<1> QED  BY <1>5, <1>6, <1>7

LEMMA SetDraftsOK ==
  ASSUME NEW x, LastOK(x), NEW p
  PROVE  /\ LastOK(SetDraftsPassword(x, p)) /\ SetDraftsPassword(x, p).pass = p
         /\ p = None /\ x.tab = <<>> => SetDraftsPassword(x, p).tab = <<>>
<1> DEFINE moved == [x EXCEPT !.generation = @ + 1, !.pass = p]
           loading == Queue(moved, "hydrate")
           again == [loading EXCEPT !.dirty = TRUE]
           gone == SecureRemove([moved EXCEPT !.tab = <<>>, !.dirty = FALSE])
<1>1. SetDraftsPassword(x, p) = IF p = x.pass THEN x
                                ELSE IF p = None THEN gone
                                ELSE IF x.tab = <<>> THEN loading ELSE SchedulePersist(again)
  BY DEF SetDraftsPassword
<1>2. DOMAIN x = Fields  BY DEF LastOK
<1>3. /\ DOMAIN moved = Fields /\ moved.generation = x.generation + 1 /\ moved.pass = p
      /\ moved.readers = x.readers /\ moved.writer = x.writer /\ moved.disk = x.disk
  BY <1>2 DEF Fields
<1>4. /\ gone = SecureRemove([moved EXCEPT !.tab = <<>>, !.dirty = FALSE])
      /\ loading = Queue(moved, "hydrate") /\ again = [loading EXCEPT !.dirty = TRUE]
  OBVIOUS
<1> HIDE DEF moved, gone, loading, again
<1>5. CASE p = x.pass  BY <1>1, <1>5
<1>6. CASE p # x.pass /\ p # None
  <2>1. LastOK(moved)  BY <1>3, <1>6, LaterBox
  <2>2. LastOK(loading) /\ loading.pass = p  BY <1>3, <1>4, <2>1, QueueBox
  <2>3. DOMAIN loading = Fields  BY <2>2 DEF LastOK
  <2>4. /\ DOMAIN again = Fields /\ again.generation = loading.generation
        /\ again.pass = loading.pass /\ again.readers = loading.readers
        /\ again.writer = loading.writer /\ again.disk = loading.disk
    BY <1>4, <2>3 DEF Fields
  <2>5. LastOK(again)  BY <2>2, <2>4, SameBox
  <2>6. LastOK(SchedulePersist(again)) /\ SchedulePersist(again).pass = p
    BY <2>2, <2>4, <2>5, QueueBox
  <2> QED  BY <1>1, <1>6, <2>2, <2>6
<1>7. CASE p # x.pass /\ p = None
  <2>1. /\ DOMAIN gone = Fields /\ gone.generation = x.generation + 1 /\ gone.pass = None
        /\ gone.readers = x.readers /\ gone.writer = x.writer /\ gone.disk = None
        /\ gone.tab = <<>>
    BY <1>3, <1>4, <1>7 DEF SecureRemove, Fields
  <2>2. LastOK(gone)  BY <2>1, LaterBox
  <2> QED  BY <1>1, <1>7, <2>1, <2>2
<1> QED  BY <1>5, <1>6, <1>7

LEMMA ForgetOK ==
  ASSUME NEW x, LastOK(x)
  PROVE  /\ LastOK(ForgetOwnMessages(x)) /\ ForgetOwnMessages(x).tab = <<>>
         /\ LastOK(ForgetDrafts(x)) /\ ForgetDrafts(x).tab = <<>>
<1>1. DOMAIN x = Fields  BY DEF LastOK
<1>2. ASSUME NEW z, DOMAIN z = Fields, z.generation = x.generation + 1,
             z.readers = x.readers, z.writer = x.writer, z.disk = None, z.tab = <<>>
      PROVE  LastOK(z) /\ z.tab = <<>>
  BY <1>2, LaterBox
<1>3. LastOK(ForgetOwnMessages(x)) /\ ForgetOwnMessages(x).tab = <<>>
  <2> DEFINE z == ForgetOwnMessages(x)
  <2>1. /\ DOMAIN z = Fields /\ z.generation = x.generation + 1
        /\ z.readers = x.readers /\ z.writer = x.writer /\ z.disk = None /\ z.tab = <<>>
    BY <1>1 DEF ForgetOwnMessages, SecureRemove, Fields
  <2> HIDE DEF z
  <2>2. LastOK(z) /\ z.tab = <<>>  BY <1>2, <2>1
  <2> QED  BY <2>2 DEF z
<1>4. LastOK(ForgetDrafts(x)) /\ ForgetDrafts(x).tab = <<>>
  <2> DEFINE z == ForgetDrafts(x)
  <2>1. /\ DOMAIN z = Fields /\ z.generation = x.generation + 1
        /\ z.readers = x.readers /\ z.writer = x.writer /\ z.disk = None /\ z.tab = <<>>
    BY <1>1 DEF ForgetDrafts, SecureRemove, Fields
  <2> HIDE DEF z
  <2>2. LastOK(z) /\ z.tab = <<>>  BY <1>2, <2>1
  <2> QED  BY <2>2 DEF z
<1> QED  BY <1>3, <1>4

LEMMA RekeyOK ==
  ASSUME NEW x, LastOK(x), NEW p, p # None
  PROVE  LastOK(RekeyOwnMessageCache(x, p)) /\ RekeyOwnMessageCache(x, p).pass = p
<1> DEFINE y == [x EXCEPT !.generation = @ + 1, !.timer = FALSE, !.pass = p, !.dirty = TRUE]
<1>1. RekeyOwnMessageCache(x, p) = Queue(y, "persist")  BY DEF RekeyOwnMessageCache
<1>2. DOMAIN x = Fields  BY DEF LastOK
<1>3. /\ DOMAIN y = Fields /\ y.generation = x.generation + 1 /\ y.pass = p
      /\ y.readers = x.readers /\ y.writer = x.writer
  BY <1>2 DEF Fields
<1> HIDE DEF y
<1>4. LastOK(y)  BY <1>3, LaterBox
<1> QED  BY <1>1, <1>3, <1>4, QueueBox

-----------------------------------------------------------------------------
(* The words of a box.                                                     *)

LEMMA PutWords ==
  ASSUME NEW S, NEW q \in Seq(S), NEW k, NEW text
  PROVE  Put(q, k, text) \in Seq(S \cup {[key |-> k, text |-> text]})
<1> DEFINE e == [key |-> k, text |-> text]
           T == S \cup {e}
           w == [i \in DOMAIN q |-> IF q[i].key = k THEN e ELSE q[i]]
<1>1. Put(q, k, text) = w \/ Put(q, k, text) = Append(q, e)  BY DEF Put
<1>2. DOMAIN q = 1 .. Len(q) /\ Len(q) \in Nat /\ \A i \in 1 .. Len(q) : q[i] \in S
  BY ElementOfSeq, LenProperties
<1>3. e \in T /\ S \subseteq T  OBVIOUS
<1> HIDE DEF e, T
<1>4. w \in Seq(T)
  <2>1. w = [i \in 1 .. Len(q) |-> IF q[i].key = k THEN e ELSE q[i]]  BY <1>2
  <2>2. \A i \in 1 .. Len(q) : (IF q[i].key = k THEN e ELSE q[i]) \in T  BY <1>2, <1>3
  <2> QED  BY <1>2, <2>1, <2>2
<1>5. Append(q, e) \in Seq(T)
  <2>1. q \in Seq(T)  BY <1>2, <1>3
  <2> QED  BY <1>3, <2>1, AppendProperties
<1> QED  BY <1>1, <1>4, <1>5 DEF e, T

LEMMA NewestWords ==
  ASSUME NEW S, NEW q \in Seq(S)
  PROVE  Newest(q) \in Seq(S)
<1>1. Len(q) \in Nat /\ MaxEntries \in Nat  BY BoxesAssumption, LenProperties
<1>2. ASSUME NEW n \in 1 .. Len(q) + 1 PROVE SubSeq(q, n, Len(q)) \in Seq(S)
  BY <1>1, <1>2, SubSeqProperties
<1>3. 1 + (IF Len(q) > MaxEntries THEN Len(q) - MaxEntries ELSE 0) \in 1 .. Len(q) + 1
  BY <1>1
<1> QED  BY <1>2, <1>3 DEF Newest

(* A message remembered, a draft typed: nothing but the tab and its flags. *)
LEMMA RememberOK ==
  ASSUME NEW x, LastOK(x), NEW id
  PROVE  /\ LastOK(RememberOwnMessageText(x, id)) /\ RememberOwnMessageText(x, id).pass = x.pass
         /\ RememberOwnMessageText(x, id).tab = Newest(Put(x.tab, id, 0))
<1> DEFINE t == Newest(Put(x.tab, id, 0))
           y == [x EXCEPT !.tab = t, !.changes = @ + 1, !.dirty = TRUE]
<1>1. RememberOwnMessageText(x, id) = SchedulePersist(y)  BY DEF RememberOwnMessageText
<1>2. DOMAIN x = Fields  BY DEF LastOK
<1> HIDE DEF t
<1>3. /\ DOMAIN y = Fields /\ y.generation = x.generation /\ y.pass = x.pass /\ y.tab = t
      /\ y.readers = x.readers /\ y.writer = x.writer /\ y.disk = x.disk
  BY <1>2 DEF Fields
<1> HIDE DEF y
<1>4. LastOK(y)  BY <1>3, SameBox
<1> QED  BY <1>1, <1>3, <1>4, QueueBox DEF t

LEMMA SetDraftOK ==
  ASSUME NEW x, LastOK(x), NEW c, NEW text
  PROVE  LastOK(SetDraft(x, c, text)) /\ SetDraft(x, c, text).pass = x.pass
<1> DEFINE rest == Without(x.tab, c)
           t == IF text = None THEN rest ELSE Newest(Put(rest, c, text))
           typed == [x EXCEPT !.tab = t]
           y == [typed EXCEPT !.changes = @ + 1, !.dirty = TRUE, !.failures = 0]
<1>1. SetDraft(x, c, text) = IF x.pass = None THEN typed ELSE SchedulePersist(y)
  BY DEF SetDraft
<1>2. DOMAIN x = Fields  BY DEF LastOK
<1> HIDE DEF t
<1>3. /\ DOMAIN typed = Fields /\ typed.generation = x.generation /\ typed.pass = x.pass
      /\ typed.readers = x.readers /\ typed.writer = x.writer /\ typed.disk = x.disk
  BY <1>2 DEF Fields
<1>4. y = [typed EXCEPT !.changes = @ + 1, !.dirty = TRUE, !.failures = 0]  OBVIOUS
<1> HIDE DEF typed, y
<1>5. /\ DOMAIN y = Fields /\ y.generation = typed.generation /\ y.pass = typed.pass
      /\ y.readers = typed.readers /\ y.writer = typed.writer /\ y.disk = typed.disk
  BY <1>3, <1>4 DEF Fields
<1>6. LastOK(typed)  BY <1>3, SameBox
<1>7. LastOK(y)  BY <1>5, <1>6, SameBox
<1>8. LastOK(SchedulePersist(y)) /\ SchedulePersist(y).pass = x.pass
  BY <1>3, <1>5, <1>7, QueueBox
<1> QED  BY <1>1, <1>3, <1>6, <1>8

(* The drafts left in the clear go in behind what is there. *)
LEMMA SweepOK ==
  ASSUME NEW x, LastOK(x), legacy \subseteq Channels
  PROVE  /\ LastOK(SweepLegacyDrafts(x)) /\ SweepLegacyDrafts(x).pass = x.pass
         /\ \A S : x.tab \in Seq(S) /\ (\A e \in S : e.text = Swept) =>
              \E T : SweepLegacyDrafts(x).tab \in Seq(T) /\ \A e \in T : e.text = Swept
<1> DEFINE swept == {c \in legacy : c \notin {e.key : e \in Range(x.tab)}}
           n == Cardinality(swept)
           q == [i \in 1 .. n |-> [key |-> SetToSeq(swept)[i], text |-> Swept]]
           y == [x EXCEPT !.dirty = TRUE, !.tab = @ \o q]
<1>1. SweepLegacyDrafts(x) = IF swept = {} THEN x ELSE SchedulePersist(y)
  BY DEF SweepLegacyDrafts
<1>2. DOMAIN x = Fields  BY DEF LastOK
<1>3. n \in Nat
  <2>1. swept \subseteq Channels /\ IsFiniteSet(Channels)  BY VaultAssumption
  <2> HIDE DEF swept
  <2>2. IsFiniteSet(swept)  BY <2>1, FS_Subset
  <2> QED  BY <2>2, FS_CardinalityType
<1> DEFINE Q == {[key |-> SetToSeq(swept)[i], text |-> Swept] : i \in 1 .. n}
<1>4. q \in Seq(Q) /\ \A e \in Q : e.text = Swept
  <2> HIDE DEF swept, n
  <2>1. \A i \in 1 .. n : [key |-> SetToSeq(swept)[i], text |-> Swept] \in Q  OBVIOUS
  <2>2. \A e \in Q : e.text = Swept  OBVIOUS
  <2> HIDE DEF Q
  <2>3. q \in [1 .. n -> Q]  BY <2>1
  <2> QED  BY <1>3, <2>2, <2>3
<1> HIDE DEF swept, n, q, Q
<1>5. /\ DOMAIN y = Fields /\ y.generation = x.generation /\ y.pass = x.pass
      /\ y.readers = x.readers /\ y.writer = x.writer /\ y.disk = x.disk
      /\ y.tab = x.tab \o q
  BY <1>2 DEF Fields
<1> HIDE DEF y
<1>6. LastOK(y)  BY <1>5, SameBox
<1>7. /\ LastOK(SchedulePersist(y)) /\ SchedulePersist(y).pass = x.pass
      /\ SchedulePersist(y).tab = x.tab \o q
  BY <1>5, <1>6, QueueBox
<1>8. ASSUME NEW S, x.tab \in Seq(S), \A e \in S : e.text = Swept
      PROVE  \E T : SweepLegacyDrafts(x).tab \in Seq(T) /\ \A e \in T : e.text = Swept
  <2>1. x.tab \in Seq(S \cup Q) /\ q \in Seq(S \cup Q)
    <3>1. /\ Len(x.tab) \in Nat /\ x.tab \in [1 .. Len(x.tab) -> S]
          /\ Len(q) \in Nat /\ q \in [1 .. Len(q) -> Q]
      BY <1>4, <1>8, LenProperties
    <3> QED  BY <3>1
  <2>2. x.tab \o q \in Seq(S \cup Q)  BY <2>1, ConcatProperties
  <2>3. \A e \in S \cup Q : e.text = Swept  BY <1>4, <1>8
  <2> QED  BY <1>1, <1>7, <1>8, <2>2, <2>3
<1> QED  BY <1>1, <1>6, <1>7, <1>8

(* A load that has its answer. *)
LEMMA HydratedOK ==
  ASSUME NEW x, LastOK(x), NEW r \in x.readers, legacy \subseteq Channels
  PROVE  /\ LastOK(OwnHydrated(x, r)) /\ OwnHydrated(x, r).pass = x.pass
         /\ x.pass = None => OwnHydrated(x, r).tab = x.tab
         /\ LastOK(DraftsHydrated(x, r)) /\ DraftsHydrated(x, r).pass = x.pass
         /\ x.pass = None =>
              \A S : x.tab \in Seq(S) /\ (\A e \in S : e.text = Swept) =>
                \E T : DraftsHydrated(x, r).tab \in Seq(T) /\ \A e \in T : e.text = Swept
<1> DEFINE done == [x EXCEPT !.readers = @ \ {r}]
           ownT == FoldLeft(LAMBDA tab1, e : Put(tab1, e.key, e.text), done.tab, r.stored)
           own == [done EXCEPT !.tab = ownT]
           draftT == Merged(x, r.stored)
           draft == [done EXCEPT !.tab = draftT]
<1>1. /\ OwnHydrated(x, r) = IF r.stored = None \/ r.generation # x.generation THEN done ELSE own
      /\ DraftsHydrated(x, r) = IF r.generation # x.generation THEN done
                                ELSE SweepLegacyDrafts(IF r.stored = None THEN done ELSE draft)
  BY DEF OwnHydrated, DraftsHydrated
<1>2. DOMAIN x = Fields  BY DEF LastOK
<1>3. x.pass = None /\ r.generation = x.generation => r.stored = None  BY DEF LastOK
<1> HIDE DEF ownT, draftT
<1>4. /\ DOMAIN done = Fields /\ done.generation = x.generation /\ done.pass = x.pass
      /\ done.readers \subseteq x.readers /\ done.writer = x.writer /\ done.disk = x.disk
      /\ done.tab = x.tab
  BY <1>2 DEF Fields
<1>5. own = [done EXCEPT !.tab = ownT] /\ draft = [done EXCEPT !.tab = draftT]  OBVIOUS
<1> HIDE DEF done, own, draft
<1>6. /\ DOMAIN own = Fields /\ own.generation = done.generation /\ own.pass = done.pass
      /\ own.readers = done.readers /\ own.writer = done.writer /\ own.disk = done.disk
      /\ DOMAIN draft = Fields /\ draft.generation = done.generation /\ draft.pass = done.pass
      /\ draft.readers = done.readers /\ draft.writer = done.writer /\ draft.disk = done.disk
  BY <1>4, <1>5 DEF Fields
<1>7. LastOK(done)  BY <1>4, SameBox
<1>8. LastOK(own) /\ LastOK(draft)  BY <1>6, <1>7, SameBox
<1>9. LastOK(OwnHydrated(x, r)) /\ OwnHydrated(x, r).pass = x.pass
  BY <1>1, <1>4, <1>6, <1>7, <1>8
<1>10. x.pass = None => OwnHydrated(x, r).tab = x.tab  BY <1>1, <1>3, <1>4
<1> DEFINE got == IF r.stored = None THEN done ELSE draft
<1>11. LastOK(got) /\ got.pass = x.pass /\ (x.pass = None /\ r.generation = x.generation => got = done)
  BY <1>3, <1>4, <1>6, <1>7, <1>8
<1>12. DraftsHydrated(x, r) = IF r.generation # x.generation THEN done ELSE SweepLegacyDrafts(got)
  BY <1>1
<1> HIDE DEF got
<1>13. /\ LastOK(SweepLegacyDrafts(got)) /\ SweepLegacyDrafts(got).pass = got.pass
       /\ \A S : got.tab \in Seq(S) /\ (\A e \in S : e.text = Swept) =>
            \E T : SweepLegacyDrafts(got).tab \in Seq(T) /\ \A e \in T : e.text = Swept
  BY <1>11, SweepOK
<1>14. LastOK(DraftsHydrated(x, r)) /\ DraftsHydrated(x, r).pass = x.pass
  BY <1>4, <1>7, <1>11, <1>12, <1>13
<1>15. ASSUME x.pass = None, NEW S, x.tab \in Seq(S), \A e \in S : e.text = Swept
       PROVE  \E T : DraftsHydrated(x, r).tab \in Seq(T) /\ \A e \in T : e.text = Swept
  <2>1. CASE r.generation # x.generation  BY <1>4, <1>12, <1>15, <2>1
  <2>2. CASE r.generation = x.generation
    <3>1. got = done /\ DraftsHydrated(x, r) = SweepLegacyDrafts(got)
      BY <1>11, <1>12, <1>15, <2>2
    <3> QED  BY <1>4, <1>13, <1>15, <3>1
  <2> QED  BY <2>1, <2>2
<1> QED  BY <1>9, <1>10, <1>14, <1>15

-----------------------------------------------------------------------------
(* The steps a box takes by itself.                                        *)

LEMMA PersistingOK ==
  ASSUME NEW b, NEW x, LastOK(x)
  PROVE  LastOK(Persisting(b, x)) /\ Persisting(b, x).pass = x.pass /\ Persisting(b, x).tab = x.tab
<1> DEFINE w == [pass |-> x.pass, generation |-> x.generation, changes |-> x.changes,
                 entries |-> IF b = "own" THEN Newest(x.tab) ELSE x.tab]
           y == [x EXCEPT !.writer = w]
<1>1. Persisting(b, x) = IF x.pass = None \/ ~x.dirty THEN x ELSE y  BY DEF Persisting
<1>2. DOMAIN x = Fields  BY DEF LastOK
<1>3. w.generation = x.generation  OBVIOUS
<1> HIDE DEF w
<1>4. /\ DOMAIN y = Fields /\ y.generation = x.generation /\ y.pass = x.pass /\ y.tab = x.tab
      /\ y.readers = x.readers /\ y.writer = w /\ y.disk = x.disk
  BY <1>2 DEF Fields
<1> HIDE DEF y
<1>5. x.pass # None => LastOK(y)  BY <1>3, <1>4 DEF LastOK
<1> QED  BY <1>1, <1>4, <1>5

LEMMA SettledOK ==
  ASSUME NEW b, NEW x, LastOK(x), NEW w, NEW saved
  PROVE  /\ LastOK(Settled(b, x, w, saved))
         /\ Settled(b, x, w, saved).pass = x.pass /\ Settled(b, x, w, saved).tab = x.tab
<1> DEFINE y == [x EXCEPT !.dirty = FALSE, !.failures = 0]
           v == [x EXCEPT !.failures = @ + 1]
<1>1. Settled(b, x, w, saved) \in {x, y, SchedulePersist(x), SchedulePersist(v)}
  BY DEF Settled, TryAgain
<1>2. DOMAIN x = Fields  BY DEF LastOK
<1>3. /\ DOMAIN y = Fields /\ y.generation = x.generation /\ y.pass = x.pass /\ y.tab = x.tab
      /\ y.readers = x.readers /\ y.writer = x.writer /\ y.disk = x.disk
      /\ DOMAIN v = Fields /\ v.generation = x.generation /\ v.pass = x.pass /\ v.tab = x.tab
      /\ v.readers = x.readers /\ v.writer = x.writer /\ v.disk = x.disk
  BY <1>2 DEF Fields
<1> HIDE DEF y, v
<1>4. LastOK(y) /\ LastOK(v)  BY <1>3, SameBox
<1>5. /\ LastOK(SchedulePersist(x)) /\ LastOK(SchedulePersist(v))
      /\ SchedulePersist(x).pass = x.pass /\ SchedulePersist(x).tab = x.tab
      /\ SchedulePersist(v).pass = v.pass /\ SchedulePersist(v).tab = v.tab
  BY <1>4, QueueBox
<1> QED  BY <1>1, <1>3, <1>4, <1>5

(* A write that has its answer. *)
LEMMA PersistedOK ==
  ASSUME NEW b \in Box, BoxesInv, NEW saved \in BOOLEAN, Persisted(b, saved)
  PROVE  \E z : /\ box' = [box EXCEPT ![b] = z] /\ LastOK(z)
                /\ z.pass = box[b].pass /\ z.tab = box[b].tab
<1> DEFINE x == [box[b] EXCEPT !.writer = None]
           w == box[b].writer
           d == [pass |-> w.pass, entries |-> w.entries]
           put == [x EXCEPT !.disk = d]
           landed == IF saved THEN put ELSE x
           z == IF w.generation # x.generation THEN SecureRemove(landed)
                ELSE Settled(b, landed, w, saved)
<1>1. w # None /\ box' = [box EXCEPT ![b] = z]  BY DEF Persisted
<1>2. LastOK(box[b])  BY DEF BoxesInv
<1>3. DOMAIN box[b] = Fields  BY <1>2 DEF LastOK
<1>4. /\ DOMAIN x = Fields /\ x.generation = box[b].generation /\ x.pass = box[b].pass
      /\ x.tab = box[b].tab /\ x.readers = box[b].readers /\ x.writer = None /\ x.disk = box[b].disk
  BY <1>3 DEF Fields
<1>5. put = [x EXCEPT !.disk = d]  OBVIOUS
<1>6. w.generation = x.generation => x.pass # None  BY <1>1, <1>2, <1>4 DEF LastOK
<1>w. w = box[b].writer  OBVIOUS
<1> HIDE DEF x, d, put
<1>7. LastOK(x)  BY <1>2, <1>4, SameBox
<1>8. /\ DOMAIN put = Fields /\ put.generation = x.generation /\ put.pass = x.pass
      /\ put.tab = x.tab /\ put.readers = x.readers /\ put.writer = x.writer /\ put.disk = d
  BY <1>4, <1>5 DEF Fields
<1>9. x.pass # None => LastOK(put)  BY <1>7, <1>8 DEF LastOK
<1>10. /\ DOMAIN landed = Fields /\ landed.generation = x.generation /\ landed.pass = x.pass
       /\ landed.tab = x.tab /\ landed.readers = x.readers /\ landed.writer = x.writer
       /\ x.pass # None => LastOK(landed)
  BY <1>4, <1>7, <1>8, <1>9
<1>z. z = IF w.generation # x.generation THEN SecureRemove(landed) ELSE Settled(b, landed, w, saved)
  OBVIOUS
<1> HIDE DEF landed, w, z
<1>11. CASE w.generation # x.generation
  <2>1. z = [landed EXCEPT !.disk = None]  BY <1>z, <1>11 DEF SecureRemove
  <2>2. /\ DOMAIN z = Fields /\ z.generation = x.generation /\ z.pass = x.pass /\ z.tab = x.tab
        /\ z.readers = x.readers /\ z.writer = x.writer /\ z.disk = None
    BY <1>10, <2>1 DEF Fields
  <2>3. LastOK(z)  BY <1>7, <2>2, SameBox
  <2> QED  BY <1>1, <1>4, <2>2, <2>3
<1>12. CASE w.generation = x.generation
  <2>1. LastOK(landed)  BY <1>6, <1>10, <1>12
  <2>2. LastOK(z) /\ z.pass = landed.pass /\ z.tab = landed.tab  BY <1>z, <1>12, <2>1, SettledOK
  <2> QED  BY <1>1, <1>4, <1>10, <2>2
<1> QED  BY <1>11, <1>12

(* The chain moves on. *)
LEMMA NextJobOK ==
  ASSUME NEW b \in Box, BoxesInv, NextJob(b)
  PROVE  \E z : /\ box' = [box EXCEPT ![b] = z] /\ LastOK(z)
                /\ z.pass = box[b].pass /\ z.tab = box[b].tab
<1> DEFINE x == [box[b] EXCEPT !.pending = Tail(@)]
           z == IF Head(box[b].pending) = "persist" THEN Persisting(b, x) ELSE Hydrating(x, x.pass)
<1>1. box' = [box EXCEPT ![b] = z]  BY DEF NextJob
<1>2. LastOK(box[b])  BY DEF BoxesInv
<1>3. DOMAIN box[b] = Fields  BY <1>2 DEF LastOK
<1>4. /\ DOMAIN x = Fields /\ x.generation = box[b].generation /\ x.pass = box[b].pass
      /\ x.tab = box[b].tab /\ x.readers = box[b].readers /\ x.writer = box[b].writer
      /\ x.disk = box[b].disk
  BY <1>3 DEF Fields
<1>5. z = Persisting(b, x) \/ z = Hydrating(x, x.pass)  OBVIOUS
<1> HIDE DEF x, z
<1>6. LastOK(x)  BY <1>2, <1>4, SameBox
<1>7. /\ LastOK(Persisting(b, x)) /\ Persisting(b, x).pass = x.pass
      /\ Persisting(b, x).tab = x.tab
  BY <1>6, PersistingOK
<1>8. /\ LastOK(Hydrating(x, x.pass)) /\ Hydrating(x, x.pass).pass = x.pass
      /\ Hydrating(x, x.pass).tab = x.tab
  BY <1>6, HydratingBox
<1>9. LastOK(z) /\ z.pass = box[b].pass /\ z.tab = box[b].tab  BY <1>4, <1>5, <1>7, <1>8
<1> QED  BY <1>1, <1>9

LEMMA TimerOK ==
  ASSUME NEW b \in Box, BoxesInv, TimerFires(b)
  PROVE  \E z : /\ box' = [box EXCEPT ![b] = z] /\ LastOK(z)
                /\ z.pass = box[b].pass /\ z.tab = box[b].tab
<1>1. box' = [box EXCEPT ![b] = Flush(box[b])]
  BY DEF TimerFires, Flush
<1>2. LastOK(box[b])  BY DEF BoxesInv
<1>3. /\ LastOK(Flush(box[b])) /\ Flush(box[b]).pass = box[b].pass
      /\ Flush(box[b]).tab = box[b].tab
  BY <1>2, QueueBox
<1> QED  BY <1>1, <1>3

-----------------------------------------------------------------------------
(* Both boxes, step by step.                                               *)

LEMMA BoxesOK ==
  ASSUME DOMAIN box' = Box, \A b \in Box : LastOK(box'[b]),
         OwnWords(box'["own"], late'), DraftWords(box'["drafts"], auth'), legacy' \subseteq Channels
  PROVE  BoxesInv'
<1>1. \A b \in Box : LastOK(box[b])'
  <2> SUFFICES ASSUME NEW b \in Box PROVE LastOK(box'[b])  BY DEF LastOK
  <2> QED  OBVIOUS
<1>2. OwnWords(box["own"], late)'
  <2> SUFFICES OwnWords(box'["own"], late')  BY DEF OwnWords
  <2> QED  OBVIOUS
<1>3. DraftWords(box["drafts"], auth)'
  <2> SUFFICES DraftWords(box'["drafts"], auth')  BY DEF DraftWords
  <2> QED  OBVIOUS
<1> QED  BY <1>1, <1>2, <1>3 DEF BoxesInv

(* One box alone takes a step. *)
LEMMA OneBoxOK ==
  ASSUME BoxesInv, NEW b \in Box, NEW z, box' = [box EXCEPT ![b] = z], LastOK(z),
         b = "own" => OwnWords(z, late'),
         b = "drafts" => DraftWords(z, auth'),
         late \subseteq late', auth' = auth, legacy' \subseteq Channels
  PROVE  BoxesInv'
<1>1. DOMAIN box' = Box /\ box'[b] = z /\ \A c \in Box \ {b} : box'[c] = box[c]
  BY DEF BoxesInv
<1>2. \A c \in Box : LastOK(box'[c])  BY <1>1 DEF BoxesInv
<1>3. OwnWords(box'["own"], late')
  <2>1. CASE b = "own"  BY <1>1, <2>1
  <2>2. CASE b # "own"
    <3>1. box'["own"] = box["own"]  BY <1>1, <2>2 DEF Box
    <3>2. OwnWords(box["own"], late)  BY DEF BoxesInv
    <3> QED  BY <3>1, <3>2 DEF OwnWords
  <2> QED  BY <2>1, <2>2
<1>4. DraftWords(box'["drafts"], auth')
  <2>1. CASE b = "drafts"  BY <1>1, <2>1
  <2>2. CASE b # "drafts"
    <3>1. box'["drafts"] = box["drafts"]  BY <1>1, <2>2 DEF Box
    <3>2. DraftWords(box["drafts"], auth)  BY DEF BoxesInv
    <3> QED  BY <3>1, <3>2
  <2> QED  BY <2>1, <2>2
<1> QED  BY <1>1, <1>2, <1>3, <1>4, BoxesOK

(* Neither box changes: an account that signs in is owed nothing. *)
LEMMA BoxesStay ==
  ASSUME BoxesInv, UNCHANGED <<box, legacy, late>>, auth' = None => auth = None
  PROVE  BoxesInv'
<1>1. DraftWords(box["drafts"], auth')  BY DEF BoxesInv, DraftWords
<1> QED  BY <1>1, BoxesOK DEF BoxesInv

LEMMA RememberBoxes ==
  ASSUME BoxesInv, Remember
  PROVE  BoxesInv'
<1> DEFINE x == box["own"]
<1>1. PICK id : /\ box' = [box EXCEPT !["own"] = RememberOwnMessageText(@, id)]
                /\ late' = IF x.pass = None THEN late \cup {id} ELSE late
                /\ UNCHANGED <<legacy, auth>>
  BY DEF Remember
<1> DEFINE z == RememberOwnMessageText(x, id)
<1>2. "own" \in Box /\ LastOK(x) /\ DOMAIN box = Box /\ OwnWords(x, late) /\ legacy \subseteq Channels
  BY DEF BoxesInv, Box
<1>3. box' = [box EXCEPT !["own"] = z]  BY <1>1, <1>2
<1> HIDE DEF x
<1>4. LastOK(z) /\ z.pass = x.pass /\ z.tab = Newest(Put(x.tab, id, 0))  BY <1>2, RememberOK
<1> HIDE DEF z
<1>5. OwnWords(z, late')
  <2> SUFFICES ASSUME z.pass = None
               PROVE  \E S : z.tab \in Seq(S) /\ \A e \in S : e.key \in late'
    BY DEF OwnWords
  <2>1. PICK S : x.tab \in Seq(S) /\ \A e \in S : e.key \in late
    BY <1>2, <1>4 DEF OwnWords
  <2> DEFINE T == S \cup {[key |-> id, text |-> 0]}
  <2>2. Put(x.tab, id, 0) \in Seq(T)  BY <2>1, PutWords
  <2>3. \A e \in T : e.key \in late'
    <3>1. late' = late \cup {id}  BY <1>1, <1>4
    <3> QED  BY <2>1, <3>1
  <2> HIDE DEF T
  <2>4. z.tab \in Seq(T)  BY <1>4, <2>2, NewestWords
  <2> QED  BY <2>3, <2>4
<1>6. late \subseteq late'  BY <1>1
<1> QED  BY <1>1, <1>2, <1>3, <1>4, <1>5, <1>6, OneBoxOK

LEMMA TypeBoxes ==
  ASSUME BoxesInv, Type
  PROVE  BoxesInv'
<1> DEFINE x == box["drafts"]
<1>1. PICK c, text : /\ box' = [box EXCEPT !["drafts"] = SetDraft(@, c, text)]
                     /\ auth # None /\ UNCHANGED <<legacy, auth, late>>
  BY DEF Type, tab
<1> DEFINE z == SetDraft(x, c, text)
<1>2. "drafts" \in Box /\ LastOK(x) /\ DOMAIN box = Box /\ legacy \subseteq Channels
  BY DEF BoxesInv, Box
<1>3. box' = [box EXCEPT !["drafts"] = z]  BY <1>1, <1>2
<1> HIDE DEF x
<1>4. LastOK(z)  BY <1>2, SetDraftOK
<1> HIDE DEF z
<1>5. DraftWords(z, auth')  BY <1>1 DEF DraftWords
<1> QED  BY <1>1, <1>2, <1>3, <1>4, <1>5, OneBoxOK

LEMMA OwnRekeyedBoxes ==
  ASSUME StoresInv, BoxesInv, OwnRekeyed
  PROVE  BoxesInv'
<1> DEFINE x == box["own"]
           z == RekeyOwnMessageCache(x, change.new)
<1>1. /\ box' = [box EXCEPT !["own"] = RekeyOwnMessageCache(@, change.new)]
      /\ change # None /\ UNCHANGED <<legacy, auth, late>>
  BY DEF OwnRekeyed, tab
<1>2. "own" \in Box /\ LastOK(x) /\ DOMAIN box = Box /\ legacy \subseteq Channels
  BY DEF BoxesInv, Box
<1>3. box' = [box EXCEPT !["own"] = z]  BY <1>1, <1>2
<1>4. change.new # None
  <2>1. ChangeTyped(change)  BY <1>1 DEF StoresInv, TypeInv
  <2> QED  BY <2>1, ChangeFields, BoxesAssumption
<1> HIDE DEF x
<1>5. LastOK(z) /\ z.pass = change.new  BY <1>2, <1>4, RekeyOK
<1> HIDE DEF z
<1>6. OwnWords(z, late')  BY <1>4, <1>5 DEF OwnWords
<1> QED  BY <1>1, <1>2, <1>3, <1>5, <1>6, OneBoxOK

(* The account's password, the same in both boxes. *)
LEMMA BothBoxes ==
  ASSUME BoxesInv, NEW p, p # None,
         box' = [own |-> SetOwnPassword(box["own"], p), drafts |-> SetDraftsPassword(box["drafts"], p)],
         UNCHANGED <<legacy, late>>
  PROVE  BoxesInv'
<1> DEFINE y == SetOwnPassword(box["own"], p)
           z == SetDraftsPassword(box["drafts"], p)
<1>1. LastOK(box["own"]) /\ LastOK(box["drafts"]) /\ legacy' \subseteq Channels
  BY DEF BoxesInv, Box
<1>2. LastOK(y) /\ y.pass = p /\ LastOK(z) /\ z.pass = p  BY <1>1, SetOwnOK, SetDraftsOK
<1>3. box' = [own |-> y, drafts |-> z]  OBVIOUS
<1> HIDE DEF y, z
<1>4. DOMAIN box' = Box /\ box'["own"] = y /\ box'["drafts"] = z  BY <1>3 DEF Box
<1>5. \A b \in Box : LastOK(box'[b])  BY <1>2, <1>4 DEF Box
<1>6. OwnWords(box'["own"], late')  BY <1>2, <1>4 DEF OwnWords
<1>7. DraftWords(box'["drafts"], auth')  BY <1>2, <1>4 DEF DraftWords
<1> QED  BY <1>1, <1>4, <1>5, <1>6, <1>7, BoxesOK

LEMMA RecordedBoxes ==
  ASSUME BoxesInv, Recorded
  PROVE  BoxesInv'
<1>1. /\ box' = IF auth = None THEN box
                ELSE [own |-> SetOwnPassword(box["own"], auth),
                      drafts |-> SetDraftsPassword(box["drafts"], auth)]
      /\ UNCHANGED <<legacy, auth, late>>
  BY DEF Recorded
<1>2. CASE auth = None  BY <1>1, <1>2, BoxesStay
<1>3. CASE auth # None  BY <1>1, <1>3, BothBoxes
<1> QED  BY <1>2, <1>3

LEMMA AppMovedBoxes ==
  ASSUME StoresInv, BoxesInv, AppMoved
  PROVE  BoxesInv'
<1>1. /\ change # None
      /\ box' = [own |-> SetOwnPassword(box["own"], change.new),
                 drafts |-> SetDraftsPassword(box["drafts"], change.new)]
      /\ UNCHANGED <<legacy, late>>
  BY DEF AppMoved
<1>2. change.new # None
  <2>1. ChangeTyped(change)  BY <1>1 DEF StoresInv, TypeInv
  <2> QED  BY <2>1, ChangeFields, BoxesAssumption
<1> QED  BY <1>1, <1>2, BothBoxes

LEMMA NoWords == \A S : <<>> \in Seq(S)
BY EmptySeq

LEMMA LogOutBoxes ==
  ASSUME BoxesInv, LogOut
  PROVE  BoxesInv'
<1> DEFINE u == ForgetOwnMessages(box["own"])
           v == ForgetDrafts(box["drafts"])
           y == SetOwnPassword(u, None)
           z == SetDraftsPassword(v, None)
<1>1. box' = [own |-> Flush(y), drafts |-> Flush(z)] /\ UNCHANGED <<legacy, late>>
  BY DEF LogOut
<1>2. LastOK(box["own"]) /\ LastOK(box["drafts"]) /\ legacy' \subseteq Channels
  BY <1>1 DEF BoxesInv, Box
<1>3. LastOK(u) /\ u.tab = <<>> /\ LastOK(v) /\ v.tab = <<>>  BY <1>2, ForgetOK
<1>y. y = SetOwnPassword(u, None)  OBVIOUS
<1>z. z = SetDraftsPassword(v, None)  OBVIOUS
<1> HIDE DEF u, v, y, z
<1>4. LastOK(y) /\ y.tab = <<>> /\ LastOK(z) /\ z.tab = <<>>
  BY <1>3, <1>y, <1>z, SetOwnOK, SetDraftsOK
<1>5. LastOK(Flush(y)) /\ Flush(y).tab = <<>> /\ LastOK(Flush(z)) /\ Flush(z).tab = <<>>
  BY <1>4, QueueBox
<1>6. DOMAIN box' = Box /\ box'["own"] = Flush(y) /\ box'["drafts"] = Flush(z)  BY <1>1 DEF Box
<1>7. \A b \in Box : LastOK(box'[b])  BY <1>5, <1>6 DEF Box
<1>8. \E S : <<>> \in Seq(S) /\ S = {}  BY NoWords
<1>9. OwnWords(box'["own"], late')  BY <1>5, <1>6, <1>8 DEF OwnWords
<1>10. DraftWords(box'["drafts"], auth')  BY <1>5, <1>6, <1>8 DEF DraftWords
<1> QED  BY <1>2, <1>6, <1>7, <1>9, <1>10, BoxesOK

LEMMA ClosedOK ==
  ASSUME NEW disk
  PROVE  /\ LastOK(Closed(disk))
         /\ \A l : OwnWords(Closed(disk), l)
         /\ \A a : DraftWords(Closed(disk), a)
<1> DEFINE x == Closed(disk)
<1>1. /\ DOMAIN x = Fields /\ x.generation = 0 /\ x.readers = {} /\ x.writer = None
      /\ x.tab = <<>>
  BY DEF Closed, Fields
<1> HIDE DEF x
<1>2. LastOK(x)  BY <1>1 DEF LastOK
<1>3. \E S : <<>> \in Seq(S) /\ S = {}  BY NoWords
<1>4. \A l : OwnWords(x, l)  BY <1>1, <1>3 DEF OwnWords
<1>5. \A a : DraftWords(x, a)  BY <1>1, <1>3 DEF DraftWords
<1> QED  BY <1>2, <1>4, <1>5 DEF x

LEMMA ReloadBoxes ==
  ASSUME BoxesInv, Reload
  PROVE  BoxesInv'
<1>1. box' = [b \in Box |-> Closed(box[b].disk)] /\ UNCHANGED legacy  BY DEF Reload
<1>2. DOMAIN box' = Box /\ \A b \in Box : box'[b] = Closed(box[b].disk)  BY <1>1
<1>3. \A b \in Box : LastOK(box'[b])  BY <1>2, ClosedOK
<1>4. OwnWords(box'["own"], late')  BY <1>2, ClosedOK DEF Box
<1>5. DraftWords(box'["drafts"], auth')  BY <1>2, ClosedOK DEF Box
<1> QED  BY <1>1, <1>2, <1>3, <1>4, <1>5, BoxesOK DEF BoxesInv

LEMMA InitBoxes ==
  ASSUME Init
  PROVE  BoxesInv
<1>1. PICK s \in Scenario :
        /\ box = [b \in Box |-> Closed(Sealed(IF b = "own" THEN s.own ELSE s.drafts))]
        /\ legacy = s.legacy
  BY DEF Init
<1>2. \A b \in Box : LastOK(box[b])  BY <1>1, ClosedOK
<1>3. OwnWords(box["own"], late)  BY <1>1, ClosedOK DEF Box
<1>4. DraftWords(box["drafts"], auth)  BY <1>1, ClosedOK DEF Box
<1>5. legacy \subseteq Channels  BY <1>1, VaultAssumption
<1> QED  BY <1>1, <1>2, <1>3, <1>4, <1>5 DEF BoxesInv

(* What a box does by itself. *)
LEMMA AloneBoxes ==
  ASSUME BoxesInv, BoxSteps \/ BoxWrites, UNCHANGED <<auth, late>>
  PROVE  BoxesInv'
<1>1. PICK b \in Box : \/ TimerFires(b) \/ NextJob(b) \/ Hydrated(b)
                       \/ \E saved \in BOOLEAN : Persisted(b, saved)
  BY DEF BoxSteps, BoxWrites
<1> DEFINE x == box[b]
<1>2. LastOK(x) /\ legacy \subseteq Channels  BY DEF BoxesInv
<1>3. (b = "own" => OwnWords(x, late)) /\ (b = "drafts" => DraftWords(x, auth))  BY DEF BoxesInv
<1>4. CASE TimerFires(b) \/ NextJob(b) \/ \E saved \in BOOLEAN : Persisted(b, saved)
  <2>1. UNCHANGED legacy  BY <1>4 DEF TimerFires, NextJob, Persisted
  <2>2. PICK z : /\ box' = [box EXCEPT ![b] = z] /\ LastOK(z)
                 /\ z.pass = x.pass /\ z.tab = x.tab
    BY <1>4, TimerOK, NextJobOK, PersistedOK
  <2> HIDE DEF x
  <2>3. b = "own" => OwnWords(z, late')  BY <1>3, <2>2 DEF OwnWords
  <2>4. b = "drafts" => DraftWords(z, auth')  BY <1>3, <2>2 DEF DraftWords
  <2> QED  BY <1>2, <2>1, <2>2, <2>3, <2>4, OneBoxOK
<1>5. CASE Hydrated(b)
  <2>1. PICK r \in x.readers :
          IF b = "own" THEN box' = [box EXCEPT ![b] = OwnHydrated(@, r)] /\ UNCHANGED legacy
          ELSE /\ box' = [box EXCEPT ![b] = DraftsHydrated(@, r)]
               /\ legacy' = IF r.generation = box[b].generation THEN {} ELSE legacy
    BY <1>5 DEF Hydrated
  <2>2. legacy' \subseteq Channels  BY <1>2, <2>1
  <2>3. /\ b = "own" => box' = [box EXCEPT ![b] = OwnHydrated(x, r)]
        /\ b # "own" => box' = [box EXCEPT ![b] = DraftsHydrated(x, r)]
    BY <2>1 DEF BoxesInv
  <2>4. /\ LastOK(OwnHydrated(x, r)) /\ OwnHydrated(x, r).pass = x.pass
        /\ x.pass = None => OwnHydrated(x, r).tab = x.tab
        /\ LastOK(DraftsHydrated(x, r)) /\ DraftsHydrated(x, r).pass = x.pass
        /\ x.pass = None =>
             \A S : x.tab \in Seq(S) /\ (\A e \in S : e.text = Swept) =>
               \E T : DraftsHydrated(x, r).tab \in Seq(T) /\ \A e \in T : e.text = Swept
    BY <1>2, <2>1, HydratedOK
  <2> HIDE DEF x
  <2>5. CASE b = "own"
    <3>1. OwnWords(OwnHydrated(x, r), late')  BY <1>3, <2>4, <2>5 DEF OwnWords
    <3> QED  BY <2>2, <2>3, <2>4, <2>5, <3>1, OneBoxOK
  <2>6. CASE b # "own"
    <3>1. DraftWords(DraftsHydrated(x, r), auth')
      <4> SUFFICES ASSUME x.pass = None, auth' = None
                   PROVE  \E T : /\ DraftsHydrated(x, r).tab \in Seq(T)
                                 /\ \A e \in T : e.text = Swept
        BY <2>4 DEF DraftWords
      <4>1. b = "drafts" /\ auth = None  BY <2>6 DEF Box
      <4>2. PICK S : x.tab \in Seq(S) /\ \A e \in S : e.text = Swept
        BY <1>3, <4>1 DEF DraftWords
      <4> QED  BY <2>4, <4>2
    <3> QED  BY <2>2, <2>3, <2>4, <2>6, <3>1, OneBoxOK
  <2> QED  BY <2>5, <2>6
<1> QED  BY <1>1, <1>4, <1>5

LEMMA NextBoxes ==
  ASSUME StoresInv, BoxesInv, [Next]_vars
  PROVE  BoxesInv'
<1>1. CASE SignIn
  <2>1. auth' # None  BY <1>1, VaultAssumption, BoxesAssumption DEF SignIn
  <2> QED  BY <1>1, <2>1, BoxesStay DEF SignIn
<1>2. CASE \/ PreKeysStarted \/ SessionsStarted \/ Fetched \/ Send
           \/ ChangeBegin \/ RecordMoved \/ BundleMoved
  <2>1. UNCHANGED <<box, legacy, late, auth>>
    BY <1>2 DEF PreKeysStarted, SessionsStarted, Fetched, Send, ChangeBegin, RecordMoved,
                BundleMoved, tab
  <2> QED  BY <2>1, BoxesStay
<1>3. CASE \E s \in Store : Save(s) \/ Derived(s) \/ Rewrap(s) \/ Commit(s) \/ Rollback(s)
  <2>1. UNCHANGED <<box, legacy, late, auth>>
    BY <1>3 DEF Save, Derived, Rewrap, Commit, Rollback, tab
  <2> QED  BY <2>1, BoxesStay
<1>4. CASE Recorded  BY <1>4, RecordedBoxes
<1>5. CASE Remember  BY <1>5, RememberBoxes
<1>6. CASE Type  BY <1>6, TypeBoxes
<1>7. CASE OwnRekeyed  BY <1>7, OwnRekeyedBoxes
<1>8. CASE AppMoved  BY <1>8, AppMovedBoxes
<1>9. CASE LogOut  BY <1>9, LogOutBoxes
<1>10. CASE Reload  BY <1>10, ReloadBoxes
<1>11. CASE (BoxSteps \/ BoxWrites) /\ UNCHANGED <<stores, record, bundle, tab, change, late, torn>>
  <2>1. UNCHANGED <<auth, late>>  BY <1>11 DEF tab
  <2> QED  BY <1>11, <2>1, AloneBoxes
<1>12. CASE UNCHANGED vars
  <2>1. UNCHANGED <<box, legacy, late, auth>>  BY <1>12 DEF vars
  <2> QED  BY <2>1, BoxesStay
<1> QED
  BY <1>1, <1>2, <1>3, <1>4, <1>5, <1>6, <1>7, <1>8, <1>9, <1>10, <1>11, <1>12 DEF Next

-----------------------------------------------------------------------------
(* The entries of a box: those of a Map, no key twice.                     *)

Tidy(q) == q \in Seq(Draft) /\ \A i, j \in DOMAIN q : q[i].key = q[j].key => i = j

LEMMA TidyFacts ==
  ASSUME NEW q, Tidy(q)
  PROVE  /\ Len(q) \in Nat /\ DOMAIN q = 1 .. Len(q)
         /\ \A i \in DOMAIN q : /\ q[i] \in Draft /\ q[i].key \in Channels /\ q[i].text \in Int
                               /\ q[i] = [key |-> q[i].key, text |-> q[i].text]
<1>1. Len(q) \in Nat /\ DOMAIN q = 1 .. Len(q)  BY LenProperties DEF Tidy
<1>2. \A i \in DOMAIN q : q[i] \in Draft  BY <1>1, ElementOfSeq DEF Tidy
<1>3. \A e \in Draft : e.key \in Channels /\ e.text \in Int /\ e = [key |-> e.key, text |-> e.text]
  BY DEF Draft
<1> QED  BY <1>1, <1>2, <1>3

LEMMA PutTidy ==
  ASSUME NEW q, Tidy(q), NEW k \in Channels, NEW text \in Int
  PROVE  Tidy(Put(q, k, text))
<1> DEFINE e == [key |-> k, text |-> text]
           w == [i \in DOMAIN q |-> IF q[i].key = k THEN e ELSE q[i]]
<1>1. q \in Seq(Draft) /\ e \in Draft  BY DEF Tidy, Draft
<1>2. Put(q, k, text) \in Seq(Draft)
  <2>1. Put(q, k, text) \in Seq(Draft \cup {e})  BY <1>1, PutWords
  <2>2. Draft \cup {e} = Draft  BY <1>1
  <2> HIDE DEF e
  <2> QED  BY <2>1, <2>2
<1>3. Len(q) \in Nat /\ DOMAIN q = 1 .. Len(q)  BY TidyFacts
<1>e. e.key = k  OBVIOUS
<1>4. CASE \E f \in Range(q) : f.key = k
  <2>1. Put(q, k, text) = w  BY <1>4 DEF Put
  <2> HIDE DEF e
  <2>2. DOMAIN w = DOMAIN q /\ \A i \in DOMAIN q : w[i].key = q[i].key  BY <1>e
  <2> HIDE DEF w
  <2> QED  BY <1>2, <2>1, <2>2 DEF Tidy
<1>5. CASE ~ \E f \in Range(q) : f.key = k
  <2>1. Put(q, k, text) = Append(q, e)  BY <1>5 DEF Put
  <2>2. \A i \in DOMAIN q : q[i].key # k
    <3> SUFFICES ASSUME NEW i \in DOMAIN q PROVE q[i].key # k  OBVIOUS
    <3>1. q[i] \in Range(q)  BY DEF Range
    <3> QED  BY <1>5, <3>1
  <2> HIDE DEF e
  <2> DEFINE a == Append(q, e)
  <2>3. /\ Len(a) = Len(q) + 1 /\ a[Len(q) + 1] = e
        /\ \A i \in 1 .. Len(q) : a[i] = q[i]
    BY <1>1, AppendProperties
  <2>4. a \in Seq(Draft) /\ DOMAIN a = 1 .. Len(q) + 1  BY <1>2, <2>1, <2>3, LenProperties
  <2> HIDE DEF a
  <2>5. \A i, j \in DOMAIN a : a[i].key = a[j].key => i = j
    <3> SUFFICES ASSUME NEW i \in DOMAIN a, NEW j \in DOMAIN a, a[i].key = a[j].key
                 PROVE  i = j
      OBVIOUS
    <3>1. CASE i \in DOMAIN q /\ j \in DOMAIN q  BY <1>3, <2>3, <3>1 DEF Tidy
    <3>2. CASE i \notin DOMAIN q /\ j \notin DOMAIN q  BY <1>3, <2>4, <3>2
    <3>3. CASE i \in DOMAIN q /\ j \notin DOMAIN q
      <4>1. j = Len(q) + 1  BY <1>3, <2>4, <3>3
      <4> QED  BY <1>3, <1>e, <2>2, <2>3, <3>3, <4>1
    <3>4. CASE i \notin DOMAIN q /\ j \in DOMAIN q
      <4>1. i = Len(q) + 1  BY <1>3, <2>4, <3>4
      <4> QED  BY <1>3, <1>e, <2>2, <2>3, <3>4, <4>1
    <3> QED  BY <3>1, <3>2, <3>3, <3>4
  <2> QED  BY <2>1, <2>4, <2>5 DEF a, Tidy
<1> QED  BY <1>4, <1>5

(* A piece of the entries. *)
LEMMA PieceTidy ==
  ASSUME NEW q, Tidy(q), NEW m \in 1 .. Len(q) + 1, NEW n \in m - 1 .. Len(q)
  PROVE  Tidy(SubSeq(q, m, n))
<1>1. q \in Seq(Draft)  BY DEF Tidy
<1>2. Len(q) \in Nat /\ DOMAIN q = 1 .. Len(q) /\ \A i \in m .. n : q[i] \in Draft
  BY <1>1, TidyFacts, ElementOfSeq
<1> DEFINE p == SubSeq(q, m, n)
<1>3. p \in Seq(Draft) /\ Len(p) = n - m + 1 /\ \A i \in 1 .. n - m + 1 : p[i] = q[m + i - 1]
  <2>1. m \in Int /\ n \in Int  BY <1>2
  <2>2. /\ p \in Seq(Draft) /\ Len(p) = IF m <= n THEN n - m + 1 ELSE 0
        /\ \A i \in 1 .. n - m + 1 : p[i] = q[m + i - 1]
    BY <1>2, <2>1, SubSeqProperties
  <2> HIDE DEF p
  <2> QED  BY <1>2, <2>2
<1>4. DOMAIN p = 1 .. n - m + 1  BY <1>3, LenProperties
<1> HIDE DEF p
<1>5. \A i, j \in DOMAIN p : p[i].key = p[j].key => i = j
  <2> SUFFICES ASSUME NEW i \in DOMAIN p, NEW j \in DOMAIN p, p[i].key = p[j].key
               PROVE  i = j
    OBVIOUS
  <2>1. m + i - 1 \in DOMAIN q /\ m + j - 1 \in DOMAIN q  BY <1>2, <1>4
  <2>2. q[m + i - 1].key = q[m + j - 1].key  BY <1>3, <1>4
  <2>3. m + i - 1 = m + j - 1  BY <2>1, <2>2 DEF Tidy
  <2> QED  BY <1>2, <1>4, <2>3
<1> QED  BY <1>3, <1>5 DEF p, Tidy

(* Entries and others of other keys. *)
LEMMA JoinedTidy ==
  ASSUME NEW p, Tidy(p), NEW q, Tidy(q),
         \A i \in DOMAIN p, j \in DOMAIN q : p[i].key # q[j].key
  PROVE  Tidy(p \o q)
<1>3. p \in Seq(Draft) /\ q \in Seq(Draft)  BY DEF Tidy
<1>4. /\ Len(p) \in Nat /\ DOMAIN p = 1 .. Len(p)
      /\ Len(q) \in Nat /\ DOMAIN q = 1 .. Len(q)
  BY TidyFacts
<1> DEFINE r == p \o q
<1>5. /\ r \in Seq(Draft) /\ Len(r) = Len(p) + Len(q)
      /\ \A i \in 1 .. Len(p) + Len(q) : r[i] = IF i <= Len(p) THEN p[i] ELSE q[i - Len(p)]
  BY <1>3, ConcatProperties
<1>6. DOMAIN r = 1 .. Len(p) + Len(q)  BY <1>5, LenProperties
<1> HIDE DEF r
<1>7. \A i, j \in DOMAIN r : r[i].key = r[j].key => i = j
  <2> SUFFICES ASSUME NEW i \in DOMAIN r, NEW j \in DOMAIN r, r[i].key = r[j].key
               PROVE  i = j
    OBVIOUS
  <2>1. CASE i <= Len(p) /\ j <= Len(p)
    <3>1. i \in DOMAIN p /\ j \in DOMAIN p /\ r[i] = p[i] /\ r[j] = p[j]  BY <1>4, <1>5, <1>6, <2>1
    <3> QED  BY <3>1 DEF Tidy
  <2>2. CASE ~ (i <= Len(p)) /\ ~ (j <= Len(p))
    <3>1. /\ i - Len(p) \in DOMAIN q /\ j - Len(p) \in DOMAIN q
          /\ r[i] = q[i - Len(p)] /\ r[j] = q[j - Len(p)]
      BY <1>4, <1>5, <1>6, <2>2
    <3>2. i - Len(p) = j - Len(p)  BY <3>1 DEF Tidy
    <3> QED  BY <1>4, <1>6, <3>2
  <2>3. CASE i <= Len(p) /\ ~ (j <= Len(p))
    <3>1. /\ i \in DOMAIN p /\ j - Len(p) \in DOMAIN q
          /\ r[i] = p[i] /\ r[j] = q[j - Len(p)]
      BY <1>4, <1>5, <1>6, <2>3
    <3> QED  BY <3>1
  <2>4. CASE ~ (i <= Len(p)) /\ j <= Len(p)
    <3>1. /\ j \in DOMAIN p /\ i - Len(p) \in DOMAIN q
          /\ r[j] = p[j] /\ r[i] = q[i - Len(p)]
      BY <1>4, <1>5, <1>6, <2>4
    <3> QED  BY <3>1
  <2> QED  BY <2>1, <2>2, <2>3, <2>4
<1> QED  BY <1>5, <1>7 DEF r, Tidy

LEMMA WithoutTidy ==
  ASSUME NEW q, Tidy(q), NEW k
  PROVE  Tidy(Without(q, k))
<1>1. CASE ~ \E i \in DOMAIN q : q[i].key = k  BY <1>1 DEF Without
<1>2. CASE \E i \in DOMAIN q : q[i].key = k
  <2> DEFINE c == CHOOSE i \in DOMAIN q : q[i].key = k
  <2>1. c \in DOMAIN q  BY <1>2
  <2>2. Without(q, k) = SubSeq(q, 1, c - 1) \o SubSeq(q, c + 1, Len(q))
    BY <1>2 DEF Without, RemoveAt
  <2> HIDE DEF c
  <2>3. Len(q) \in Nat /\ DOMAIN q = 1 .. Len(q)  BY TidyFacts
  <2>4. q \in Seq(Draft)  BY DEF Tidy
  <2> DEFINE p == SubSeq(q, 1, c - 1)
             r == SubSeq(q, c + 1, Len(q))
  <2>5. Tidy(p)
    <3>1. 1 \in 1 .. Len(q) + 1 /\ c - 1 \in 1 - 1 .. Len(q)  BY <2>1, <2>3
    <3> QED  BY <3>1, PieceTidy
  <2>6. Tidy(r)
    <3>1. c + 1 \in 1 .. Len(q) + 1 /\ Len(q) \in (c + 1) - 1 .. Len(q)  BY <2>1, <2>3
    <3> QED  BY <3>1, PieceTidy
  <2>7. DOMAIN p = 1 .. c - 1 /\ \A i \in 1 .. c - 1 : p[i] = q[i]
    <3>1. 1 \in Int /\ c - 1 \in Int /\ \A i \in 1 .. c - 1 : q[i] \in Draft
      BY <2>1, <2>3, <2>4, ElementOfSeq
    <3>2. /\ Len(p) = IF 1 <= c - 1 THEN c - 1 - 1 + 1 ELSE 0
          /\ \A i \in 1 .. c - 1 - 1 + 1 : p[i] = q[1 + i - 1]
      BY <3>1, SubSeqProperties
    <3>3. DOMAIN p = 1 .. Len(p)  BY <2>5, TidyFacts
    <3> HIDE DEF p
    <3> QED  BY <2>1, <2>3, <3>2, <3>3
  <2>8. DOMAIN r = 1 .. Len(q) - c /\ \A j \in 1 .. Len(q) - c : r[j] = q[c + j]
    <3>1. c + 1 \in Int /\ Len(q) \in Int /\ \A i \in c + 1 .. Len(q) : q[i] \in Draft
      BY <2>1, <2>3, <2>4, ElementOfSeq
    <3>2. /\ Len(r) = IF c + 1 <= Len(q) THEN Len(q) - (c + 1) + 1 ELSE 0
          /\ \A i \in 1 .. Len(q) - (c + 1) + 1 : r[i] = q[c + 1 + i - 1]
      BY <3>1, SubSeqProperties
    <3>3. DOMAIN r = 1 .. Len(r)  BY <2>6, TidyFacts
    <3> HIDE DEF r
    <3>4. DOMAIN r = 1 .. Len(q) - c  BY <2>1, <2>3, <3>2, <3>3
    <3>5. \A j \in 1 .. Len(q) - c : c + 1 + j - 1 = c + j /\ j \in 1 .. Len(q) - (c + 1) + 1
      BY <2>1, <2>3
    <3> QED  BY <3>2, <3>4, <3>5
  <2> HIDE DEF p, r
  <2>9. \A i \in DOMAIN p, j \in DOMAIN r : p[i].key # r[j].key
    <3> SUFFICES ASSUME NEW i \in DOMAIN p, NEW j \in DOMAIN r, p[i].key = r[j].key
                 PROVE  FALSE
      OBVIOUS
    <3>1. i \in DOMAIN q /\ c + j \in DOMAIN q /\ i # c + j  BY <2>1, <2>3, <2>7, <2>8
    <3>2. q[i].key = q[c + j].key  BY <2>7, <2>8
    <3> QED  BY <3>1, <3>2 DEF Tidy
  <2> QED  BY <2>2, <2>5, <2>6, <2>9, JoinedTidy DEF p, r
<1> QED  BY <1>1, <1>2

LEMMA NewestTidy ==
  ASSUME NEW q, Tidy(q)
  PROVE  Tidy(Newest(q))
<1>1. Len(q) \in Nat /\ MaxEntries \in Nat \ {0}  BY TidyFacts, BoxesAssumption
<1> DEFINE m == 1 + (IF Len(q) > MaxEntries THEN Len(q) - MaxEntries ELSE 0)
<1>2. m \in 1 .. Len(q) + 1 /\ Len(q) \in m - 1 .. Len(q)  BY <1>1
<1>3. Newest(q) = SubSeq(q, m, Len(q))  BY DEF Newest
<1> HIDE DEF m
<1> QED  BY <1>2, <1>3, PieceTidy

-----------------------------------------------------------------------------
(* The drafts left in the clear.                                           *)

LEMMA SetToSeqOK ==
  ASSUME NEW S, IsFiniteSet(S)
  PROVE  /\ Cardinality(S) \in Nat
         /\ SetToSeq(S) \in [1 .. Cardinality(S) -> S]
         /\ \A i, j \in 1 .. Cardinality(S) : SetToSeq(S)[i] = SetToSeq(S)[j] => i = j
<1> DEFINE n == Cardinality(S)
<1>1. n \in Nat /\ ExistsBijection(1 .. n, S)  BY FS_CardinalityType
<1> HIDE DEF n
<1>2. \E f \in [1 .. n -> S] : IsInjective(f)
  BY <1>1 DEF ExistsBijection, Bijection, Injection
<1>3. SetToSeq(S) = CHOOSE f \in [1 .. n -> S] : IsInjective(f)  BY DEF SetToSeq, n
<1>4. SetToSeq(S) \in [1 .. n -> S] /\ IsInjective(SetToSeq(S))  BY <1>2, <1>3
<1> QED  BY <1>1, <1>4 DEF IsInjective, n

(* The drafts left in the clear have channels of their own. *)
LEMMA SweepTidy ==
  ASSUME NEW x, DOMAIN x = Fields, Tidy(x.tab), legacy \subseteq Channels
  PROVE  LET z == SweepLegacyDrafts(x) IN
         z = x \/ \E t : Tidy(t) /\ z = SchedulePersist([x EXCEPT !.dirty = TRUE, !.tab = t])
<1> DEFINE swept == {c \in legacy : c \notin {e.key : e \in Range(x.tab)}}
           n == Cardinality(swept)
           q == [i \in 1 .. n |-> [key |-> SetToSeq(swept)[i], text |-> Swept]]
           t == x.tab \o q
<1>1. SweepLegacyDrafts(x) = IF swept = {} THEN x
                             ELSE SchedulePersist([x EXCEPT !.dirty = TRUE, !.tab = @ \o q])
  BY DEF SweepLegacyDrafts
<1>2. [x EXCEPT !.dirty = TRUE, !.tab = @ \o q] = [x EXCEPT !.dirty = TRUE, !.tab = t]
  BY DEF Fields
<1>3. swept \subseteq Channels /\ IsFiniteSet(Channels)  BY VaultAssumption
<1>4. \A c \in swept : c \notin {e.key : e \in Range(x.tab)}  OBVIOUS
<1> HIDE DEF swept
<1>5. IsFiniteSet(swept)  BY <1>3, FS_Subset
<1> DEFINE f == SetToSeq(swept)
<1>6. /\ n \in Nat /\ f \in [1 .. n -> swept]
      /\ \A i, j \in 1 .. n : f[i] = f[j] => i = j
  BY <1>5, SetToSeqOK
<1>q. q = [i \in 1 .. n |-> [key |-> f[i], text |-> Swept]]  OBVIOUS
<1> HIDE DEF n, f, q
<1>7. DOMAIN q = 1 .. n /\ \A i \in 1 .. n : q[i] = [key |-> f[i], text |-> Swept]  BY <1>q
<1>8. \A i \in 1 .. n : q[i].key = f[i] /\ f[i] \in swept  BY <1>6, <1>7
<1>9. Tidy(q)
  <2>1. \A i \in 1 .. n : [key |-> f[i], text |-> Swept] \in Draft  BY <1>3, <1>6 DEF Draft, Swept
  <2>2. q \in Seq(Draft)  BY <1>6, <1>q, <2>1
  <2> QED  BY <1>6, <1>7, <1>8, <2>2 DEF Tidy
<1>10. \A i \in DOMAIN x.tab, j \in DOMAIN q : x.tab[i].key # q[j].key
  <2> SUFFICES ASSUME NEW i \in DOMAIN x.tab, NEW j \in DOMAIN q, x.tab[i].key = q[j].key
               PROVE  FALSE
    OBVIOUS
  <2>1. x.tab[i] \in Range(x.tab)  BY DEF Range
  <2>2. q[j].key \in swept  BY <1>7, <1>8
  <2> QED  BY <1>4, <2>1, <2>2
<1>11. Tidy(t)  BY <1>9, <1>10, JoinedTidy
<1> HIDE DEF t
<1> QED  BY <1>1, <1>2, <1>11

-----------------------------------------------------------------------------
(* The loop of hydrate.                                                    *)

LEMMA LeastExists ==
  ASSUME NEW T, T \subseteq Nat, T # {}
  PROVE  \E x \in T : \A y \in T : x <= y
<1> DEFINE R == OpToRel(<, Nat)
<1>1. \A x, y \in Nat : x < y => <<x, y>> \in R  BY Zenon DEF OpToRel
<1>2. IsWellFoundedOn(R, Nat)  BY NatLessThanWellFounded
<1> HIDE DEF R
<1>3. PICK x \in T : \A y \in T : ~ (<<y, x>> \in R)  BY <1>2, WFMin
<1>4. \A y \in T : ~ (y < x)  BY <1>1, <1>3
<1> QED  BY <1>3, <1>4

(* One more of the stored drafts, over what the earlier ones left. *)
Put1(q, stored, g, n) ==
  IF n = 0 THEN q
  ELSE IF n > 1 /\ Len(g[n - 1]) >= MaxEntries THEN g[n - 1]
  ELSE Put(g[n - 1], stored[n].key, stored[n].text)

LEMMA LoopExists ==
  ASSUME NEW q, NEW stored, Len(stored) \in Nat
  PROVE  \E g : g = [n \in 0 .. Len(stored) |-> Put1(q, stored, g, n)]
<1> DEFINE L == Len(stored)
           Good(g, k) == DOMAIN g = 0 .. k /\ \A n \in 0 .. k : g[n] = Put1(q, stored, g, n)
           Bad == {k \in 0 .. L : ~ \E g : Good(g, k)}
<1>l. L \in Nat  OBVIOUS
<1> HIDE DEF L
<1>1. Bad = {}
  <2> SUFFICES ASSUME Bad # {} PROVE FALSE  OBVIOUS
  <2>1. Bad \subseteq Nat  BY <1>l
  <2>2. PICK k \in Bad : \A j \in Bad : k <= j  BY <2>1, LeastExists
  <2>3. k \in 0 .. L /\ ~ \E g : Good(g, k)  BY <2>2
  <2>4. CASE k = 0
    <3> DEFINE g == [n \in 0 .. 0 |-> q]
    <3>1. DOMAIN g = 0 .. 0 /\ \A n \in 0 .. 0 : g[n] = q /\ n = 0  OBVIOUS
    <3> HIDE DEF g
    <3>2. \A n \in 0 .. 0 : g[n] = Put1(q, stored, g, n)  BY <3>1 DEF Put1
    <3> QED  BY <2>3, <2>4, <3>1, <3>2
  <2>5. CASE k # 0
    <3>1. k - 1 \in 0 .. L /\ k \in Nat /\ ~ (k <= k - 1)  BY <1>l, <2>3, <2>5
    <3>2. k - 1 \notin Bad  BY <2>2, <3>1
    <3>3. PICK g : Good(g, k - 1)  BY <3>1, <3>2
    <3> DEFINE v == Put1(q, stored, g, k)
    <3> HIDE DEF v
    <3> DEFINE h == [n \in 0 .. k |-> IF n = k THEN v ELSE g[n]]
    <3>4. /\ DOMAIN h = 0 .. k /\ h[k] = v
          /\ \A n \in 0 .. k - 1 : h[n] = g[n]
      BY <3>1
    <3> HIDE DEF h
    <3>5. \A n \in 0 .. k : Put1(q, stored, h, n) = Put1(q, stored, g, n)
      <4> SUFFICES ASSUME NEW n \in 0 .. k, n # 0
                   PROVE  Put1(q, stored, h, n) = Put1(q, stored, g, n)
        BY DEF Put1
      <4>1. n - 1 \in 0 .. k - 1  BY <3>1
      <4>2. h[n - 1] = g[n - 1]  BY <3>4, <4>1
      <4> QED  BY <4>2 DEF Put1
    <3>6. \A n \in 0 .. k : h[n] = Put1(q, stored, h, n)
      <4> SUFFICES ASSUME NEW n \in 0 .. k PROVE h[n] = Put1(q, stored, g, n)  BY <3>5
      <4>1. CASE n = k  BY <3>4, <4>1 DEF v
      <4>2. CASE n # k
        <5>1. n \in 0 .. k - 1  BY <3>1, <4>2
        <5> QED  BY <3>3, <3>4, <5>1
      <4> QED  BY <4>1, <4>2
    <3> QED  BY <2>3, <3>4, <3>6
  <2> QED  BY <2>4, <2>5
<1>2. PICK g : Good(g, L)
  <2>1. L \in 0 .. L /\ L \notin Bad  BY <1>l, <1>1
  <2> QED  BY <2>1
<1> DEFINE f == [n \in 0 .. L |-> g[n]]
<1>3. DOMAIN f = 0 .. L /\ \A n \in 0 .. L : f[n] = g[n]  OBVIOUS
<1>4. f = [n \in 0 .. L |-> f[n]]  OBVIOUS
<1> HIDE DEF f
<1>5. \A n \in 0 .. L : f[n] = Put1(q, stored, f, n)
  <2> SUFFICES ASSUME NEW n \in 0 .. L PROVE g[n] = Put1(q, stored, f, n)  BY <1>3
  <2>1. g[n] = Put1(q, stored, g, n)  BY <1>2
  <2>2. CASE n = 0  BY <2>1, <2>2 DEF Put1
  <2>3. CASE n # 0
    <3>1. n - 1 \in 0 .. L  BY <1>l, <2>3
    <3>2. f[n - 1] = g[n - 1]  BY <1>3, <3>1
    <3> QED  BY <2>1, <2>3, <3>2 DEF Put1
  <2> QED  BY <2>2, <2>3
<1>6. f = [n \in 0 .. L |-> Put1(q, stored, f, n)]  BY <1>4, <1>5
<1> QED  BY <1>6 DEF L

LEMMA MergingOK ==
  ASSUME NEW q, NEW stored, Len(stored) \in Nat
  PROVE  \A n \in 0 .. Len(stored) :
           Merging(q, stored)[n] = Put1(q, stored, Merging(q, stored), n)
<1> DEFINE Loop(g) == g = [n \in 0 .. Len(stored) |-> Put1(q, stored, g, n)]
           m == Merging(q, stored)
<1>1. m = CHOOSE g : Loop(g)  BY DEF Merging, Put1
<1>2. \E g : Loop(g)  BY LoopExists
<1>3. Loop(m)  BY <1>1, <1>2
<1> HIDE DEF m
<1> QED  BY <1>3 DEF m

(* What a load leaves in the tab has no key twice. *)
LEMMA MergedTidy ==
  ASSUME NEW x, Tidy(x.tab), NEW stored, Tidy(stored)
  PROVE  Tidy(Merged(x, stored))
<1> DEFINE L == Len(stored)
           g == Merging(x.tab, stored)
           Bad == {n \in 0 .. L : ~ Tidy(g[n])}
<1>1. L \in Nat /\ DOMAIN stored = 1 .. L  BY TidyFacts
<1>2. \A n \in 0 .. L : g[n] = Put1(x.tab, stored, g, n)  BY <1>1, MergingOK
<1>3. Merged(x, stored) = g[L]  BY DEF Merged
<1> HIDE DEF L, g
<1>4. Bad = {}
  <2> SUFFICES ASSUME Bad # {} PROVE FALSE  OBVIOUS
  <2>1. Bad \subseteq Nat  BY <1>1
  <2>2. PICK k \in Bad : \A j \in Bad : k <= j  BY <2>1, LeastExists
  <2>3. k \in 0 .. L /\ ~ Tidy(g[k]) /\ g[k] = Put1(x.tab, stored, g, k)  BY <1>2, <2>2
  <2>4. k # 0  BY <2>3 DEF Put1
  <2>5. k - 1 \in 0 .. L /\ ~ (k <= k - 1)  BY <1>1, <2>3, <2>4
  <2>6. Tidy(g[k - 1])  BY <2>2, <2>5
  <2>7. Tidy(Put(g[k - 1], stored[k].key, stored[k].text))
    <3>1. k \in DOMAIN stored  BY <1>1, <2>3, <2>4
    <3>2. stored[k].key \in Channels /\ stored[k].text \in Int  BY <3>1, TidyFacts
    <3> QED  BY <2>6, <3>2, PutTidy
  <2> QED  BY <2>3, <2>4, <2>6, <2>7 DEF Put1
<1>5. L \in 0 .. L  BY <1>1
<1> QED  BY <1>3, <1>4, <1>5

(* A load of the disk into a tab that has its first entries leaves those, and as many more as   *)
(* there is room for.                                                                           *)
LEMMA MergedPrefix ==
  ASSUME NEW x, NEW stored, Tidy(stored), NEW m \in 0 .. Len(stored),
         x.tab = SubSeq(stored, 1, m)
  PROVE  \E n \in 0 .. Len(stored) :
           Merged(x, stored) = SubSeq(stored, 1, n) /\ (n = Len(stored) \/ n >= MaxEntries)
<1> DEFINE L == Len(stored)
           g == Merging(x.tab, stored)
           M == MaxEntries
           First(p) == SubSeq(stored, 1, p)
           OK(n) == \E p \in 0 .. L : g[n] = First(p) /\ (p >= n \/ p >= M)
           Bad == {n \in 0 .. L : ~ OK(n)}
<1>1. L \in Nat /\ DOMAIN stored = 1 .. L  BY TidyFacts
<1>2. \A n \in 0 .. L : g[n] = Put1(x.tab, stored, g, n)  BY <1>1, MergingOK
<1>3. Merged(x, stored) = g[L]  BY DEF Merged
<1>4. M \in Nat /\ M >= 1  BY BoxesAssumption
<1>5. stored \in Seq(Draft)  BY DEF Tidy
<1>6. \A p \in 0 .. L : /\ First(p) \in Seq(Draft) /\ Len(First(p)) = p /\ DOMAIN First(p) = 1 .. p
                        /\ \A i \in 1 .. p : First(p)[i] = stored[i]
  <2> SUFFICES ASSUME NEW p \in 0 .. L
               PROVE  /\ First(p) \in Seq(Draft) /\ Len(First(p)) = p /\ DOMAIN First(p) = 1 .. p
                      /\ \A i \in 1 .. p : First(p)[i] = stored[i]
    OBVIOUS
  <2>1. 1 \in Int /\ p \in Int /\ \A i \in 1 .. p : stored[i] \in Draft
    BY <1>1, <1>5, ElementOfSeq
  <2> DEFINE q == First(p)
  <2>2. /\ q \in Seq(Draft) /\ Len(q) = IF 1 <= p THEN p - 1 + 1 ELSE 0
        /\ \A i \in 1 .. p - 1 + 1 : q[i] = stored[1 + i - 1]
    BY <2>1, SubSeqProperties
  <2>3. DOMAIN q = 1 .. Len(q)  BY <2>2, LenProperties
  <2> HIDE DEF q
  <2>4. q \in Seq(Draft) /\ Len(q) = p /\ DOMAIN q = 1 .. p /\ \A i \in 1 .. p : q[i] = stored[i]
    BY <1>1, <2>2, <2>3
  <2> QED  BY <2>4 DEF q
<1>x. x.tab = First(m) /\ m \in 0 .. L  OBVIOUS
<1> HIDE DEF L, g, M, First
<1>7. Bad = {}
  <2> SUFFICES ASSUME Bad # {} PROVE FALSE  OBVIOUS
  <2>1. Bad \subseteq Nat  BY <1>1
  <2>2. PICK n \in Bad : \A j \in Bad : n <= j  BY <2>1, LeastExists
  <2>3. n \in 0 .. L /\ ~ OK(n) /\ g[n] = Put1(x.tab, stored, g, n)  BY <1>2, <2>2
  <2>4. n # 0
    <3> SUFFICES ASSUME n = 0 PROVE FALSE  OBVIOUS
    <3>1. g[n] = First(m) /\ m >= n  BY <1>1, <1>x, <2>3 DEF Put1
    <3> QED  BY <1>x, <2>3, <3>1
  <2>5. n - 1 \in 0 .. L /\ ~ (n <= n - 1) /\ n \in 1 .. L  BY <1>1, <2>3, <2>4
  <2>6. PICK p \in 0 .. L : g[n - 1] = First(p) /\ (p >= n - 1 \/ p >= M)
    <3>1. n - 1 \notin Bad  BY <2>2, <2>5
    <3> QED  BY <2>5, <3>1
  <2>7. Len(First(p)) = p  BY <1>6
  <2>8. CASE n > 1 /\ p >= M
    <3>1. g[n] = First(p)  BY <2>3, <2>4, <2>6, <2>7, <2>8 DEF Put1, M
    <3> QED  BY <2>3, <2>8, <3>1
  <2>9. CASE ~ (n > 1 /\ p >= M)
    <3> DEFINE k == stored[n].key
               u == stored[n].text
    <3>1. g[n] = Put(First(p), k, u)  BY <2>3, <2>4, <2>6, <2>7, <2>9 DEF Put1, M
    <3>2. stored[n] = [key |-> k, text |-> u]  BY <1>1, <2>5, TidyFacts
    <3>3. \A i \in 1 .. L : stored[i].key = k => i = n  BY <1>1, <2>5 DEF Tidy
    <3> HIDE DEF k, u
    <3> DEFINE q == First(p)
    <3>4. q \in Seq(Draft) /\ Len(q) = p /\ DOMAIN q = 1 .. p /\ \A i \in 1 .. p : q[i] = stored[i]
      BY <1>6
    <3>q. q = First(p)  OBVIOUS
    <3> HIDE DEF q
    <3>5. CASE p >= n
      <4>1. q[n] \in Range(q) /\ q[n].key = k
        <5>1. n \in DOMAIN q /\ q[n] = stored[n]  BY <2>5, <3>4, <3>5
        <5> QED  BY <5>1 DEF Range, k
      <4>2. Put(q, k, u) = [i \in DOMAIN q |-> IF q[i].key = k THEN [key |-> k, text |-> u] ELSE q[i]]
        BY <4>1 DEF Put
      <4>3. \A i \in DOMAIN q : q[i].key = k => q[i] = [key |-> k, text |-> u]
        <5> SUFFICES ASSUME NEW i \in DOMAIN q, q[i].key = k PROVE q[i] = [key |-> k, text |-> u]
          OBVIOUS
        <5>1. i \in 1 .. L /\ q[i] = stored[i]  BY <1>1, <3>4
        <5> QED  BY <3>2, <3>3, <5>1
      <4>4. q = [i \in DOMAIN q |-> q[i]]
        <5>1. q \in [1 .. Len(q) -> Draft]  BY <3>4, LenProperties
        <5> QED  BY <3>4, <5>1
      <4>5. Put(q, k, u) = q  BY <4>2, <4>3, <4>4
      <4> QED  BY <2>3, <3>1, <3>5, <3>q, <4>5
    <3>6. CASE ~ (p >= n)
      <4>1. p = n - 1  BY <1>1, <1>4, <2>5, <2>6, <2>9, <3>6
      <4>2. \A i \in 1 .. p : q[i].key # k
        <5> SUFFICES ASSUME NEW i \in 1 .. p, q[i].key = k PROVE FALSE  OBVIOUS
        <5>1. i \in 1 .. L /\ stored[i].key = k /\ i # n  BY <1>1, <2>5, <3>4, <4>1
        <5> QED  BY <3>3, <5>1
      <4>3. ~ \E e \in Range(q) : e.key = k  BY <3>4, <4>2 DEF Range
      <4>4. Put(q, k, u) = Append(q, stored[n])  BY <3>2, <4>3 DEF Put
      <4>5. stored[n] \in Draft  BY <1>1, <1>5, <2>5, ElementOfSeq DEF L
      <4> DEFINE a == Append(q, stored[n])
      <4>6. /\ a \in Seq(Draft) /\ Len(a) = p + 1 /\ a[p + 1] = stored[n]
            /\ \A i \in 1 .. p : a[i] = stored[i]
        <5>1. /\ a \in Seq(Draft) /\ Len(a) = Len(q) + 1 /\ a[Len(q) + 1] = stored[n]
              /\ \A i \in 1 .. Len(q) : a[i] = q[i]
          BY <3>4, <4>5, AppendProperties
        <5> HIDE DEF a
        <5> QED  BY <3>4, <5>1
      <4> HIDE DEF a
      <4>7. /\ First(n) \in Seq(Draft) /\ Len(First(n)) = n
            /\ \A i \in 1 .. n : First(n)[i] = stored[i]
        BY <1>6, <2>5
      <4>8. Len(a) = Len(First(n)) /\ \A i \in 1 .. Len(a) : a[i] = First(n)[i]
        BY <2>5, <4>1, <4>6, <4>7
      <4>9. a = First(n)  BY <4>6, <4>7, <4>8, SeqEqual
      <4>10. g[n] = First(n) /\ n \in 0 .. L /\ n >= n
        BY <2>3, <2>5, <3>1, <3>q, <4>4, <4>9 DEF a
      <4> QED  BY <2>3, <4>10
    <3> QED  BY <3>5, <3>6
  <2> QED  BY <2>8, <2>9
<1>8. L \in 0 .. L  BY <1>1
<1>9. PICK p \in 0 .. L : g[L] = First(p) /\ (p >= L \/ p >= M)  BY <1>7, <1>8
<1>10. p = L \/ p >= M  BY <1>1, <1>9
<1> QED  BY <1>3, <1>9, <1>10 DEF L, M, First

-----------------------------------------------------------------------------
(* What the drafts' box owes the disk.                                     *)

(* A write is due. *)
Waiting(x) == x.timer \/ \E i \in DOMAIN x.pending : x.pending[i] = "persist"

(* The write in flight is of this generation, and of what the tab has now. *)
Ours(x) == x.writer # None /\ x.writer.generation = x.generation
Fresh(x) == Ours(x) /\ x.writer.changes = x.changes

(* There is nothing to write, and nothing to load. *)
Bare(x) == x.tab = <<>> /\ ~Ours(x) /\ (x.writer # None \/ x.disk = None)

ShapeOK(x) ==
  /\ x.pass \in Password \cup {None}
  /\ x.dirty \in BOOLEAN /\ x.timer \in BOOLEAN /\ x.changes \in Nat
  /\ x.pending \in Seq({"persist", "hydrate"})
  /\ Tidy(x.tab)
  /\ x.disk # None => Tidy(x.disk.entries)

(* A load brings what is on the disk, as the chain lets no write by; a write that no key was pressed *)
(* during has what the tab has.                                                                      *)
FlightOK(x) ==
  /\ \A r \in x.readers : /\ r.stored # None => Tidy(r.stored)
                          /\ r.generation = x.generation => r.stored = SecureGet(x, x.pass)
  /\ x.writer # None => /\ x.readers = {} /\ Tidy(x.writer.entries)
                        /\ x.writer.changes \in Nat /\ x.writer.changes <= x.changes
  /\ Ours(x) => x.dirty /\ x.writer.pass = x.pass
  /\ Fresh(x) => x.writer.entries = x.tab

(* Until somebody signs in. *)
StillOK(x) ==
  x.generation = 0 => x.pass = None /\ ~x.dirty /\ ~x.timer /\ x.pending = <<>> /\ x.readers = {}

(* What is not on the disk is on its way there. *)
OwedOK(x) ==
  x.pass # None =>
    /\ x.dirty /\ x.failures < MaxTries => Waiting(x) \/ Fresh(x) \/ Bare(x)
    /\ ~x.dirty /\ x.tab # <<>> => x.writer = None /\ OnDisk(x)

DraftsOK(x) == ShapeOK(x) /\ FlightOK(x) /\ StillOK(x) /\ OwedOK(x)

LEMMA NothingTidy == Tidy(<<>>)
<1> DEFINE e == <<>>
<1>1. e \in Seq({}) /\ Len(e) = 0  BY EmptySeq
<1> HIDE DEF e
<1>2. DOMAIN e = {}  BY <1>1, LenProperties
<1>3. Tidy(e)  BY <1>1, <1>2 DEF Tidy
<1> QED  BY <1>3 DEF e

(* A box that is due to be written owes nothing else. *)
LEMMA ScheduleKept ==
  ASSUME NEW y, DOMAIN y = Fields, ShapeOK(y), FlightOK(y), y.dirty, y.generation # 0
  PROVE  DraftsOK(SchedulePersist(y))
<1> DEFINE z == SchedulePersist(y)
<1>1. /\ z.tab = y.tab /\ z.pass = y.pass /\ z.dirty = y.dirty /\ z.generation = y.generation
      /\ z.changes = y.changes /\ z.timer = TRUE /\ z.failures = y.failures
      /\ z.pending = y.pending /\ z.writer = y.writer /\ z.readers = y.readers /\ z.disk = y.disk
  BY DEF SchedulePersist, Fields
<1> HIDE DEF z
<1>2. ShapeOK(z)  BY <1>1 DEF ShapeOK
<1>3. FlightOK(z)
  <2>1. SecureGet(z, z.pass) = SecureGet(y, y.pass)  BY <1>1 DEF SecureGet
  <2> QED  BY <1>1, <2>1 DEF FlightOK, Ours, Fresh
<1>4. StillOK(z)  BY <1>1 DEF StillOK
<1>5. OwedOK(z)  BY <1>1 DEF OwedOK, Waiting
<1> QED  BY <1>2, <1>3, <1>4, <1>5 DEF DraftsOK, z

(* A job joins the chain. *)
LEMMA QueueKept ==
  ASSUME NEW x, DOMAIN x = Fields, DraftsOK(x), NEW job \in {"persist", "hydrate"},
         x.generation # 0
  PROVE  /\ DraftsOK(Queue(x, job))
         /\ Waiting(x) => Waiting(Queue(x, job))
<1> DEFINE z == Queue(x, job)
           J == {"persist", "hydrate"}
<1>1. /\ z.tab = x.tab /\ z.pass = x.pass /\ z.dirty = x.dirty /\ z.generation = x.generation
      /\ z.changes = x.changes /\ z.timer = x.timer /\ z.failures = x.failures
      /\ z.pending = Append(x.pending, job) /\ z.writer = x.writer /\ z.readers = x.readers
      /\ z.disk = x.disk
  BY DEF Queue, Fields
<1> HIDE DEF z
<1>2. x.pending \in Seq(J)  BY DEF DraftsOK, ShapeOK
<1> HIDE DEF J
<1>3. job \in J  BY DEF J
<1>4. /\ z.pending \in Seq(J) /\ Len(z.pending) = Len(x.pending) + 1
      /\ \A i \in 1 .. Len(x.pending) : z.pending[i] = x.pending[i]
  BY <1>1, <1>2, <1>3, AppendProperties
<1>5. \A i \in DOMAIN x.pending : i \in DOMAIN z.pending /\ z.pending[i] = x.pending[i]
  BY <1>2, <1>4, LenProperties
<1>6. Waiting(x) => Waiting(z)  BY <1>1, <1>5 DEF Waiting
<1>7. ShapeOK(z)  BY <1>1, <1>4 DEF DraftsOK, ShapeOK, J
<1>8. FlightOK(z)
  <2>1. SecureGet(z, z.pass) = SecureGet(x, x.pass)  BY <1>1 DEF SecureGet
  <2> QED  BY <1>1, <2>1 DEF DraftsOK, FlightOK, Ours, Fresh
<1>9. StillOK(z)  BY <1>1 DEF StillOK
<1>10. OwedOK(z)  BY <1>1, <1>6 DEF DraftsOK, OwedOK, Fresh, Ours, Bare, OnDisk
<1> QED  BY <1>6, <1>7, <1>8, <1>9, <1>10 DEF DraftsOK, z

(* The timer comes due, or a sign-out flushes: what was waiting is on the chain. *)
LEMMA FlushKept ==
  ASSUME NEW x, DOMAIN x = Fields, DraftsOK(x), x.generation # 0
  PROVE  DraftsOK(Flush(x))
<1> DEFINE z == Flush(x)
           J == {"persist", "hydrate"}
<1>1. /\ z.tab = x.tab /\ z.pass = x.pass /\ z.dirty = x.dirty /\ z.generation = x.generation
      /\ z.changes = x.changes /\ z.timer = FALSE /\ z.failures = x.failures
      /\ z.pending = Append(x.pending, "persist") /\ z.writer = x.writer /\ z.readers = x.readers
      /\ z.disk = x.disk
  BY DEF Flush, Queue, Fields
<1> HIDE DEF z
<1>2. x.pending \in Seq(J) /\ "persist" \in J  BY DEF DraftsOK, ShapeOK
<1> HIDE DEF J
<1>3. /\ z.pending \in Seq(J) /\ Len(z.pending) = Len(x.pending) + 1
      /\ z.pending[Len(x.pending) + 1] = "persist"
  BY <1>1, <1>2, AppendProperties
<1>4. Waiting(z)
  <2>1. Len(x.pending) + 1 \in DOMAIN z.pending  BY <1>2, <1>3, LenProperties
  <2> QED  BY <1>3, <2>1 DEF Waiting
<1>5. ShapeOK(z)  BY <1>1, <1>3 DEF DraftsOK, ShapeOK, J
<1>6. FlightOK(z)
  <2>1. SecureGet(z, z.pass) = SecureGet(x, x.pass)  BY <1>1 DEF SecureGet
  <2> QED  BY <1>1, <2>1 DEF DraftsOK, FlightOK, Ours, Fresh
<1>7. StillOK(z)  BY <1>1 DEF StillOK
<1>8. OwedOK(z)  BY <1>1, <1>4 DEF DraftsOK, OwedOK, OnDisk
<1> QED  BY <1>5, <1>6, <1>7, <1>8 DEF DraftsOK, z

(* A new generation: nothing in flight is of it. *)
LEMMA LaterKept ==
  ASSUME NEW x, LastOK(x), DraftsOK(x), NEW z, z.generation = x.generation + 1,
         z.readers = x.readers, z.writer = x.writer, z.changes = x.changes,
         ShapeOK(z), OwedOK(z)
  PROVE  DraftsOK(z) /\ ~Ours(z)
<1>1. x.generation \in Nat  BY DEF LastOK
<1>2. ~Ours(z)  BY <1>1 DEF LastOK, Ours
<1>3. \A r \in z.readers : r.generation # z.generation  BY <1>1 DEF LastOK
<1>4. FlightOK(z)  BY <1>2, <1>3 DEF DraftsOK, FlightOK, Fresh
<1>5. StillOK(z)  BY <1>1 DEF StillOK
<1> QED  BY <1>2, <1>4, <1>5 DEF DraftsOK

(* The drafts' box as it is signed in or out of, or its password changes. *)
LEMMA SetDraftsKept ==
  ASSUME NEW x, LastOK(x), DraftsOK(x), NEW p \in Password \cup {None}
  PROVE  DraftsOK(SetDraftsPassword(x, p))
<1> DEFINE moved == [x EXCEPT !.generation = @ + 1, !.pass = p]
           loading == Queue(moved, "hydrate")
           again == [loading EXCEPT !.dirty = TRUE]
           gone == SecureRemove([moved EXCEPT !.tab = <<>>, !.dirty = FALSE])
           J == {"persist", "hydrate"}
<1>1. SetDraftsPassword(x, p) = IF p = x.pass THEN x
                                ELSE IF p = None THEN gone
                                ELSE IF x.tab = <<>> THEN loading ELSE SchedulePersist(again)
  BY DEF SetDraftsPassword
<1>2. DOMAIN x = Fields /\ x.generation \in Nat  BY DEF LastOK
<1>3. /\ DOMAIN moved = Fields
      /\ moved.tab = x.tab /\ moved.pass = p /\ moved.dirty = x.dirty
      /\ moved.generation = x.generation + 1 /\ moved.changes = x.changes
      /\ moved.timer = x.timer /\ moved.failures = x.failures /\ moved.pending = x.pending
      /\ moved.writer = x.writer /\ moved.readers = x.readers /\ moved.disk = x.disk
  BY <1>2 DEF Fields
<1>4. /\ gone = SecureRemove([moved EXCEPT !.tab = <<>>, !.dirty = FALSE])
      /\ loading = Queue(moved, "hydrate") /\ again = [loading EXCEPT !.dirty = TRUE]
  OBVIOUS
<1> HIDE DEF moved, gone, loading, again
<1>5. CASE p = x.pass  BY <1>1, <1>5
<1>6. CASE p # x.pass /\ p = None
  <2>1. /\ gone.tab = <<>> /\ gone.pass = None /\ gone.dirty = FALSE
        /\ gone.generation = x.generation + 1 /\ gone.changes = x.changes
        /\ gone.timer = x.timer /\ gone.pending = x.pending
        /\ gone.writer = x.writer /\ gone.readers = x.readers /\ gone.disk = None
    BY <1>3, <1>4, <1>6 DEF SecureRemove, Fields
  <2>2. ShapeOK(gone)  BY <2>1, NothingTidy DEF DraftsOK, ShapeOK
  <2>3. OwedOK(gone)  BY <2>1 DEF OwedOK
  <2>4. DraftsOK(gone)  BY <2>1, <2>2, <2>3, LaterKept
  <2> QED  BY <1>1, <1>6, <2>4
<1>7. CASE p # x.pass /\ p # None
  <2>1. x.pending \in Seq(J) /\ "hydrate" \in J  BY DEF DraftsOK, ShapeOK
  <2> HIDE DEF J
  <2>2. /\ DOMAIN loading = Fields
        /\ loading.tab = x.tab /\ loading.pass = p /\ loading.dirty = x.dirty
        /\ loading.generation = x.generation + 1 /\ loading.changes = x.changes
        /\ loading.timer = x.timer /\ loading.failures = x.failures
        /\ loading.pending = Append(x.pending, "hydrate")
        /\ loading.writer = x.writer /\ loading.readers = x.readers /\ loading.disk = x.disk
    BY <1>3, <1>4 DEF Queue, Fields
  <2>3. /\ loading.pending \in Seq(J) /\ Len(loading.pending) = Len(x.pending) + 1
        /\ \A i \in 1 .. Len(x.pending) : loading.pending[i] = x.pending[i]
    BY <2>1, <2>2, AppendProperties
  <2>4. \A i \in DOMAIN x.pending : i \in DOMAIN loading.pending /\ loading.pending[i] = x.pending[i]
    BY <2>1, <2>3, LenProperties
  <2>5. ShapeOK(loading)  BY <2>2, <2>3 DEF DraftsOK, ShapeOK, J
  <2>6. CASE x.tab = <<>>
    <3>1. ~Ours(loading)  BY <1>2, <2>2 DEF LastOK, Ours
    <3>2. ASSUME x.dirty, x.failures < MaxTries PROVE Waiting(loading) \/ Bare(loading)
      <4>1. CASE Waiting(x)  BY <2>2, <2>4, <4>1 DEF Waiting
      <4>2. CASE x.writer # None  BY <2>2, <2>6, <3>1, <4>2 DEF Bare
      <4>3. CASE ~Waiting(x) /\ x.writer = None
        <5>1. x.disk = None
          <6>1. CASE x.pass = None
            <7>1. x.generation > 0  BY <1>2, <3>2 DEF DraftsOK, StillOK
            <7> QED  BY <6>1, <7>1 DEF LastOK
          <6>2. CASE x.pass # None
            BY <3>2, <4>3, <6>2 DEF DraftsOK, OwedOK, Fresh, Ours, Bare
          <6> QED  BY <6>1, <6>2
        <5> QED  BY <2>2, <2>6, <3>1, <5>1 DEF Bare
      <4> QED  BY <4>1, <4>2, <4>3
    <3>3. OwedOK(loading)  BY <2>2, <2>6, <3>2 DEF OwedOK
    <3>4. DraftsOK(loading)  BY <2>2, <2>5, <3>3, LaterKept
    <3> QED  BY <1>1, <1>7, <2>6, <3>4
  <2>7. CASE x.tab # <<>>
    <3>1. /\ DOMAIN again = Fields
          /\ again.tab = x.tab /\ again.pass = p /\ again.dirty = TRUE
          /\ again.generation = x.generation + 1 /\ again.changes = x.changes
          /\ again.timer = x.timer /\ again.pending = loading.pending
          /\ again.writer = x.writer /\ again.readers = x.readers /\ again.disk = x.disk
      BY <1>4, <2>2 DEF Fields
    <3>2. ShapeOK(again)  BY <2>5, <2>2, <3>1 DEF ShapeOK
    <3>3. ~Ours(again) /\ \A r \in again.readers : r.generation # again.generation
      BY <1>2, <3>1 DEF LastOK, Ours
    <3>4. FlightOK(again)  BY <3>1, <3>3 DEF DraftsOK, FlightOK, Fresh
    <3>5. again.generation # 0  BY <1>2, <3>1
    <3>6. DraftsOK(SchedulePersist(again))  BY <3>1, <3>2, <3>4, <3>5, ScheduleKept
    <3> QED  BY <1>1, <1>7, <2>7, <3>6
  <2> QED  BY <2>6, <2>7
<1> QED  BY <1>5, <1>6, <1>7

LEMMA ForgetKept ==
  ASSUME NEW x, LastOK(x), DraftsOK(x)
  PROVE  DraftsOK(ForgetDrafts(x)) /\ ForgetDrafts(x).generation # 0
<1> DEFINE z == ForgetDrafts(x)
<1>1. DOMAIN x = Fields /\ x.generation \in Nat  BY DEF LastOK
<1>2. /\ z.tab = <<>> /\ z.pass = x.pass /\ z.dirty = FALSE
      /\ z.generation = x.generation + 1 /\ z.changes = x.changes
      /\ z.timer = FALSE /\ z.pending = x.pending
      /\ z.writer = x.writer /\ z.readers = x.readers /\ z.disk = None
  BY <1>1 DEF ForgetDrafts, SecureRemove, Fields
<1> HIDE DEF z
<1>3. ShapeOK(z)  BY <1>2, NothingTidy DEF DraftsOK, ShapeOK
<1>4. OwedOK(z)  BY <1>2 DEF OwedOK
<1>5. DraftsOK(z) /\ z.generation # 0  BY <1>1, <1>2, <1>3, <1>4, LaterKept
<1> QED  BY <1>5 DEF z

(* A keystroke. *)
LEMMA SetDraftKept ==
  ASSUME NEW x, LastOK(x), DraftsOK(x), NEW c \in Channels, NEW text,
         text # None => text \in Int
  PROVE  DraftsOK(SetDraft(x, c, text))
<1> DEFINE rest == Without(x.tab, c)
           t == IF text = None THEN rest ELSE Newest(Put(rest, c, text))
           typed == [x EXCEPT !.tab = t]
           y == [typed EXCEPT !.changes = @ + 1, !.dirty = TRUE, !.failures = 0]
<1>1. SetDraft(x, c, text) = IF x.pass = None THEN typed ELSE SchedulePersist(y)
  BY DEF SetDraft
<1>2. DOMAIN x = Fields  BY DEF LastOK
<1>3. Tidy(t)
  <2>1. Tidy(x.tab)  BY DEF DraftsOK, ShapeOK
  <2>2. Tidy(rest)  BY <2>1, WithoutTidy
  <2> HIDE DEF rest
  <2>3. text # None => Tidy(Newest(Put(rest, c, text)))  BY <2>2, PutTidy, NewestTidy
  <2> QED  BY <2>2, <2>3
<1> HIDE DEF t
<1>4. /\ DOMAIN typed = Fields
      /\ typed.tab = t /\ typed.pass = x.pass /\ typed.dirty = x.dirty
      /\ typed.generation = x.generation /\ typed.changes = x.changes
      /\ typed.timer = x.timer /\ typed.pending = x.pending
      /\ typed.writer = x.writer /\ typed.readers = x.readers /\ typed.disk = x.disk
  BY <1>2 DEF Fields
<1>5. y = [typed EXCEPT !.changes = @ + 1, !.dirty = TRUE, !.failures = 0]  OBVIOUS
<1> HIDE DEF typed, y
<1>6. CASE x.pass = None
  <2>1. ShapeOK(typed)  BY <1>3, <1>4 DEF DraftsOK, ShapeOK
  <2>2. ~Ours(x)  BY <1>6 DEF LastOK, Ours
  <2>3. SecureGet(typed, typed.pass) = SecureGet(x, x.pass)  BY <1>4 DEF SecureGet
  <2>4. FlightOK(typed)  BY <1>4, <2>2, <2>3 DEF DraftsOK, FlightOK, Ours, Fresh
  <2>5. StillOK(typed)  BY <1>4 DEF DraftsOK, StillOK
  <2>6. OwedOK(typed)  BY <1>4, <1>6 DEF OwedOK
  <2> QED  BY <1>1, <1>6, <2>1, <2>4, <2>5, <2>6 DEF DraftsOK
<1>7. CASE x.pass # None
  <2>1. /\ DOMAIN y = Fields
        /\ y.tab = t /\ y.pass = x.pass /\ y.dirty = TRUE
        /\ y.generation = x.generation /\ y.changes = x.changes + 1
        /\ y.timer = x.timer /\ y.pending = x.pending
        /\ y.writer = x.writer /\ y.readers = x.readers /\ y.disk = x.disk
    BY <1>4, <1>5 DEF Fields
  <2>2. x.changes \in Nat  BY DEF DraftsOK, ShapeOK
  <2>c. y.changes \in Nat  BY <2>1, <2>2
  <2>d. y.dirty \in BOOLEAN  BY <2>1, Zenon
  <2>3. ShapeOK(y)  BY <1>3, <2>1, <2>c, <2>d, Zenon DEF DraftsOK, ShapeOK
  <2>4. SecureGet(y, y.pass) = SecureGet(x, x.pass)  BY <2>1 DEF SecureGet
  <2>5. ~Fresh(y)
    <3>1. y.writer # None => x.writer.changes \in Nat /\ x.writer.changes <= x.changes
      BY <2>1 DEF DraftsOK, FlightOK
    <3> QED  BY <2>1, <2>2, <3>1 DEF Fresh, Ours
  <2>6. y.writer # None => x.writer.changes \in Nat /\ x.writer.changes <= y.changes
    BY <2>1, <2>2 DEF DraftsOK, FlightOK
  <2>7. FlightOK(y)  BY <2>1, <2>4, <2>5, <2>6 DEF DraftsOK, FlightOK, Ours
  <2>8. y.generation # 0  BY <1>7, <2>1 DEF DraftsOK, StillOK
  <2>9. DraftsOK(SchedulePersist(y))  BY <2>1, <2>3, <2>7, <2>8, ScheduleKept
  <2> QED  BY <1>1, <1>7, <2>9
<1> QED  BY <1>6, <1>7

(* A load that comes too late is gone without a trace. *)
LEMMA ReaderDone ==
  ASSUME NEW x, DraftsOK(x), NEW z, z.readers \subseteq x.readers,
         z.tab = x.tab, z.pass = x.pass, z.dirty = x.dirty, z.generation = x.generation,
         z.changes = x.changes, z.timer = x.timer, z.failures = x.failures, z.pending = x.pending,
         z.writer = x.writer, z.disk = x.disk
  PROVE  DraftsOK(z)
<1>1. ShapeOK(z)  BY DEF DraftsOK, ShapeOK
<1>2. FlightOK(z)
  <2>1. SecureGet(z, z.pass) = SecureGet(x, x.pass)  BY DEF SecureGet
  <2> QED  BY <2>1 DEF DraftsOK, FlightOK, Ours, Fresh
<1>3. StillOK(z)  BY DEF DraftsOK, StillOK
<1>4. OwedOK(z)  BY DEF DraftsOK, OwedOK, Waiting, Fresh, Ours, Bare, OnDisk
<1> QED  BY <1>1, <1>2, <1>3, <1>4 DEF DraftsOK

(* What a load of this generation brings into a tab with nothing of its own to write. *)
LEMMA LoadedOnDisk ==
  ASSUME NEW x, ShapeOK(x), x.disk # None, x.disk.pass = x.pass,
         x.tab = <<>> \/ OnDisk(x),
         NEW z, z.tab = Merged(x, x.disk.entries), z.pass = x.pass, z.disk = x.disk
  PROVE  OnDisk(z)
<1> DEFINE q == x.disk.entries
           L == Len(q)
<1>1. Tidy(q) /\ Tidy(x.tab)  BY DEF ShapeOK
<1> HIDE DEF q
<1>2. L \in Nat /\ DOMAIN q = 1 .. L /\ Len(x.tab) \in Nat  BY <1>1, TidyFacts
<1>3. PICK S : q \in Seq(S)  BY <1>1 DEF Tidy
<1>4. \E m \in 0 .. L : x.tab = SubSeq(q, 1, m)
  <2>1. CASE x.tab = <<>>
    <3>1. SubSeq(q, 1, 0) = <<>>  BY SubSeqEmpty
    <3> QED  BY <1>2, <2>1, <3>1
  <2>2. CASE OnDisk(x)
    <3>1. PICK T : x.tab \in Seq(T)  BY <1>1 DEF Tidy
    <3>2. SubSeq(x.tab, 1, Len(x.tab)) = x.tab  BY <3>1, SubSeqFull
    <3>3. Len(x.tab) <= L /\ x.tab = SubSeq(q, 1, Len(x.tab))
      BY <2>2, <3>2 DEF OnDisk, IsPrefix, q
    <3> QED  BY <1>2, <3>3
  <2> QED  BY <2>1, <2>2
<1>5. PICK n \in 0 .. L : z.tab = SubSeq(q, 1, n) /\ (n = L \/ n >= MaxEntries)
  <2>1. PICK m \in 0 .. L : x.tab = SubSeq(q, 1, m)  BY <1>4
  <2>2. z.tab = Merged(x, q)  BY DEF q
  <2> QED  BY <1>1, <2>1, <2>2, MergedPrefix
<1>6. z.tab \in Seq(S) /\ Len(z.tab) = n
  <2>1. 1 \in Int /\ n \in Int /\ \A i \in 1 .. n : q[i] \in S  BY <1>2, <1>3, ElementOfSeq
  <2>2. z.tab \in Seq(S) /\ Len(z.tab) = IF 1 <= n THEN n - 1 + 1 ELSE 0
    BY <1>5, <2>1, SubSeqProperties
  <2> QED  BY <1>2, <2>2
<1>7. SubSeq(z.tab, 1, Len(z.tab)) = z.tab  BY <1>6, SubSeqFull
<1>8. IsPrefix(z.tab, q)
  <2>1. Len(z.tab) <= Len(q)  BY <1>2, <1>6
  <2>2. SubSeq(q, 1, Len(z.tab)) = z.tab  BY <1>5, <1>6
  <2> QED  BY <1>7, <2>1, <2>2 DEF IsPrefix
<1>9. Len(z.tab) < MaxEntries => z.tab = q
  <2> SUFFICES ASSUME Len(z.tab) < MaxEntries PROVE z.tab = q  OBVIOUS
  <2>1. n < MaxEntries  BY <1>6
  <2>2. MaxEntries \in Nat  BY BoxesAssumption
  <2>3. n = L \/ n >= MaxEntries  BY <1>5
  <2>4. n \in Nat  BY <1>2
  <2> HIDE DEF L
  <2>5. n = L  BY <2>1, <2>2, <2>3, <2>4
  <2> QED  BY <1>3, <1>5, <2>5, SubSeqFull DEF L
<1> QED  BY <1>8, <1>9 DEF OnDisk, q

LEMMA HydratedKept ==
  ASSUME NEW x, LastOK(x), DraftsOK(x), NEW r \in x.readers, legacy \subseteq Channels
  PROVE  DraftsOK(DraftsHydrated(x, r))
<1> DEFINE done == [x EXCEPT !.readers = @ \ {r}]
           t == Merged(x, r.stored)
           draft == [done EXCEPT !.tab = t]
           got == IF r.stored = None THEN done ELSE draft
<1>1. DraftsHydrated(x, r) = IF r.generation # x.generation THEN done ELSE SweepLegacyDrafts(got)
  BY DEF DraftsHydrated
<1>2. DOMAIN x = Fields  BY DEF LastOK
<1> HIDE DEF t
<1>3. /\ DOMAIN done = Fields
      /\ done.tab = x.tab /\ done.pass = x.pass /\ done.dirty = x.dirty
      /\ done.generation = x.generation /\ done.changes = x.changes /\ done.timer = x.timer
      /\ done.failures = x.failures /\ done.pending = x.pending
      /\ done.writer = x.writer /\ done.readers \subseteq x.readers /\ done.disk = x.disk
  BY <1>2 DEF Fields
<1>4. draft = [done EXCEPT !.tab = t]  OBVIOUS
<1> HIDE DEF done, draft
<1>5. /\ DOMAIN draft = Fields
      /\ draft.tab = t /\ draft.pass = x.pass /\ draft.dirty = x.dirty
      /\ draft.generation = x.generation /\ draft.changes = x.changes /\ draft.timer = x.timer
      /\ draft.failures = x.failures /\ draft.pending = x.pending
      /\ draft.writer = x.writer /\ draft.readers \subseteq x.readers /\ draft.disk = x.disk
  BY <1>3, <1>4 DEF Fields
<1>6. DraftsOK(done)  BY <1>3, ReaderDone
<1>7. CASE r.generation # x.generation  BY <1>1, <1>6, <1>7
<1>8. CASE r.generation = x.generation
  <2>1. x.writer = None /\ r.stored = SecureGet(x, x.pass) /\ (r.stored # None => Tidy(r.stored))
    BY <1>8 DEF DraftsOK, FlightOK
  <2>2. x.generation # 0  BY DEF DraftsOK, StillOK
  <2>3. ASSUME r.stored # None PROVE DraftsOK(draft)
    <3>1. /\ x.pass # None /\ x.disk # None /\ x.disk.pass = x.pass /\ r.stored = x.disk.entries
      BY <2>1, <2>3 DEF SecureGet
    <3>2. Tidy(t)  BY <2>1, <2>3, MergedTidy DEF DraftsOK, ShapeOK, t
    <3>3. ShapeOK(draft)  BY <1>5, <3>2 DEF DraftsOK, ShapeOK
    <3>4. SecureGet(draft, draft.pass) = SecureGet(x, x.pass)  BY <1>5 DEF SecureGet
    <3>5. FlightOK(draft)  BY <1>5, <2>1, <3>4 DEF DraftsOK, FlightOK, Ours, Fresh
    <3>6. StillOK(draft)  BY <1>5, <2>2 DEF StillOK
    <3>7. OwedOK(draft)
      <4>1. CASE x.dirty
        <5>1. x.failures < MaxTries => Waiting(x)
          BY <2>1, <3>1, <4>1 DEF DraftsOK, OwedOK, Fresh, Ours, Bare
        <5> QED  BY <1>5, <4>1, <5>1 DEF OwedOK, Waiting
      <4>2. CASE ~x.dirty
        <5>1. x.tab = <<>> \/ OnDisk(x)  BY <3>1, <4>2 DEF DraftsOK, OwedOK
        <5>2. draft.tab = Merged(x, x.disk.entries)  BY <1>5, <3>1 DEF t
        <5>3. OnDisk(draft)  BY <1>5, <3>1, <5>1, <5>2, LoadedOnDisk DEF DraftsOK
        <5> QED  BY <1>5, <2>1, <4>2, <5>3 DEF OwedOK
      <4> QED  BY <4>1, <4>2
    <3> QED  BY <3>3, <3>5, <3>6, <3>7 DEF DraftsOK
  <2>4. /\ DraftsOK(got) /\ DOMAIN got = Fields /\ got.generation # 0 /\ got.writer = None
    BY <1>3, <1>5, <1>6, <2>1, <2>2, <2>3
  <2> HIDE DEF got
  <2>5. Tidy(got.tab)  BY <2>4 DEF DraftsOK, ShapeOK
  <2> DEFINE z == SweepLegacyDrafts(got)
  <2>6. z = got \/ \E u : Tidy(u) /\ z = SchedulePersist([got EXCEPT !.dirty = TRUE, !.tab = u])
    BY <2>4, <2>5, SweepTidy
  <2> HIDE DEF z
  <2>7. CASE z = got  BY <1>1, <1>8, <2>4, <2>7 DEF z
  <2>8. ASSUME NEW u, Tidy(u), z = SchedulePersist([got EXCEPT !.dirty = TRUE, !.tab = u])
        PROVE  DraftsOK(z)
    <3> DEFINE y == [got EXCEPT !.dirty = TRUE, !.tab = u]
    <3>1. /\ DOMAIN y = Fields
          /\ y.tab = u /\ y.pass = got.pass /\ y.dirty = TRUE
          /\ y.generation = got.generation /\ y.changes = got.changes /\ y.timer = got.timer
          /\ y.pending = got.pending
          /\ y.writer = got.writer /\ y.readers = got.readers /\ y.disk = got.disk
      BY <2>4 DEF Fields
    <3>2. z = SchedulePersist(y)  BY <2>8
    <3> HIDE DEF y
    <3>3. ShapeOK(y)  BY <2>4, <2>8, <3>1 DEF DraftsOK, ShapeOK
    <3>4. SecureGet(y, y.pass) = SecureGet(got, got.pass)  BY <3>1 DEF SecureGet
    <3>5. FlightOK(y)  BY <2>4, <3>1, <3>4 DEF DraftsOK, FlightOK, Ours, Fresh
    <3> QED  BY <2>4, <3>1, <3>2, <3>3, <3>5, ScheduleKept
  <2> QED  BY <1>1, <1>8, <2>6, <2>7, <2>8 DEF z
<1> QED  BY <1>7, <1>8

(* The chain moves on: to a write, or to a load. *)
LEMMA NextJobKept ==
  ASSUME NEW x, LastOK(x), DraftsOK(x), x.writer = None, x.readers = {}, x.pending # <<>>
  PROVE  LET y == [x EXCEPT !.pending = Tail(@)] IN
         DraftsOK(IF Head(x.pending) = "persist" THEN Persisting("drafts", y)
                  ELSE Hydrating(y, y.pass))
<1> DEFINE y == [x EXCEPT !.pending = Tail(@)]
           J == {"persist", "hydrate"}
           w == [pass |-> y.pass, generation |-> y.generation, changes |-> y.changes,
                 entries |-> y.tab]
           r == [generation |-> y.generation, stored |-> SecureGet(y, y.pass)]
<1>1. DOMAIN x = Fields /\ x.generation \in Nat  BY DEF LastOK
<1>2. x.pending \in Seq(J) /\ x.changes \in Nat  BY DEF DraftsOK, ShapeOK
<1>3. /\ DOMAIN y = Fields
      /\ y.tab = x.tab /\ y.pass = x.pass /\ y.dirty = x.dirty
      /\ y.generation = x.generation /\ y.changes = x.changes /\ y.timer = x.timer
      /\ y.failures = x.failures /\ y.pending = Tail(x.pending)
      /\ y.writer = None /\ y.readers = {} /\ y.disk = x.disk
  BY <1>1 DEF Fields
<1> HIDE DEF J
<1>4. /\ Tail(x.pending) \in Seq(J) /\ Head(x.pending) = x.pending[1]
      /\ Len(Tail(x.pending)) = Len(x.pending) - 1
      /\ \A i \in 1 .. Len(Tail(x.pending)) : Tail(x.pending)[i] = x.pending[i + 1]
  BY <1>2, HeadTailProperties
<1>5. x.generation # 0  BY DEF DraftsOK, StillOK
<1>6. ASSUME Head(x.pending) # "persist", Waiting(x) PROVE Waiting(y)
  <2>1. CASE x.timer  BY <1>3, <2>1 DEF Waiting
  <2>2. CASE \E i \in DOMAIN x.pending : x.pending[i] = "persist"
    <3>1. PICK i \in DOMAIN x.pending : x.pending[i] = "persist"  BY <2>2
    <3>2. i \in 1 .. Len(x.pending) /\ Len(x.pending) \in Nat  BY <1>2, LenProperties
    <3>3. i # 1  BY <1>4, <1>6, <3>1
    <3>4. i - 1 \in 1 .. Len(Tail(x.pending)) /\ (i - 1) + 1 = i  BY <1>4, <3>2, <3>3
    <3>5. Tail(x.pending)[i - 1] = "persist"  BY <1>4, <3>1, <3>4
    <3>6. i - 1 \in DOMAIN Tail(x.pending)  BY <1>4, <3>4, LenProperties
    <3> QED  BY <1>3, <3>5, <3>6 DEF Waiting
  <2> QED  BY <1>6, <2>1, <2>2 DEF Waiting
<1>7. /\ ShapeOK(y) /\ StillOK(y)
  BY <1>3, <1>4, <1>5 DEF DraftsOK, ShapeOK, StillOK, J
<1>8. FlightOK(y)  BY <1>3 DEF FlightOK, Ours, Fresh
<1>p. /\ Persisting("drafts", y) = IF y.pass = None \/ ~y.dirty THEN y ELSE [y EXCEPT !.writer = w]
      /\ Hydrating(y, y.pass) = [y EXCEPT !.readers = @ \cup {r}]
  BY DEF Persisting, Hydrating
<1>w. w.pass = y.pass /\ w.generation = y.generation /\ w.changes = y.changes /\ w.entries = y.tab
  OBVIOUS
<1>r. r.generation = y.generation /\ r.stored = SecureGet(y, y.pass)  OBVIOUS
<1>n. ASSUME y.pass # None PROVE w # None
  <2>1. y.pass \in Password /\ y.tab \in Seq(Draft)  BY <1>3, <1>n DEF DraftsOK, ShapeOK, Tidy
  <2>2. y.generation \in Nat /\ y.changes \in Nat  BY <1>1, <1>2, <1>3
  <2>3. w \in [pass : Password, generation : Nat, changes : Nat, entries : Seq(Draft)]  BY <2>1, <2>2
  <2> HIDE DEF w
  <2> QED  BY <2>3, VaultAssumption
<1> HIDE DEF y, w, r
<1>9. CASE Head(x.pending) = "persist" /\ (y.pass = None \/ ~y.dirty)
  <2>1. OwedOK(y)  BY <1>3, <1>9 DEF DraftsOK, OwedOK, OnDisk
  <2> QED  BY <1>7, <1>8, <1>9, <1>p, <2>1 DEF DraftsOK, y
<1>10. CASE Head(x.pending) = "persist" /\ ~(y.pass = None \/ ~y.dirty)
  <2> DEFINE z == [y EXCEPT !.writer = w]
  <2>1. /\ z.tab = y.tab /\ z.pass = y.pass /\ z.dirty = y.dirty
        /\ z.generation = y.generation /\ z.changes = y.changes /\ z.timer = y.timer
        /\ z.failures = y.failures /\ z.pending = y.pending
        /\ z.writer = w /\ z.readers = {} /\ z.disk = y.disk
    BY <1>3 DEF Fields
  <2> HIDE DEF z
  <2>2. Fresh(z) /\ Ours(z)  BY <1>10, <1>n, <1>w, <2>1 DEF Fresh, Ours
  <2>3. ShapeOK(z) /\ StillOK(z)  BY <1>7, <2>1 DEF ShapeOK, StillOK
  <2>4. FlightOK(z)  BY <1>2, <1>3, <1>7, <1>10, <1>w, <2>1 DEF ShapeOK, FlightOK
  <2>5. OwedOK(z)  BY <1>10, <2>1, <2>2 DEF OwedOK
  <2> QED  BY <1>10, <1>p, <2>3, <2>4, <2>5 DEF DraftsOK, y, z
<1>11. CASE Head(x.pending) # "persist"
  <2> DEFINE z == [y EXCEPT !.readers = @ \cup {r}]
  <2>1. /\ z.tab = y.tab /\ z.pass = y.pass /\ z.dirty = y.dirty
        /\ z.generation = y.generation /\ z.changes = y.changes /\ z.timer = y.timer
        /\ z.failures = y.failures /\ z.pending = y.pending
        /\ z.writer = None /\ z.readers = {r} /\ z.disk = y.disk
    BY <1>3 DEF Fields
  <2> HIDE DEF z
  <2>2. SecureGet(z, z.pass) = SecureGet(y, y.pass)  BY <2>1 DEF SecureGet
  <2>3. r.stored # None => Tidy(r.stored)  BY <1>7, <1>r DEF SecureGet, ShapeOK
  <2>4. FlightOK(z)  BY <1>r, <2>1, <2>2, <2>3 DEF FlightOK, Ours, Fresh
  <2>5. ShapeOK(z) /\ StillOK(z)  BY <1>3, <1>5, <1>7, <2>1 DEF ShapeOK, StillOK
  <2>6. OwedOK(z)
    <3>1. Waiting(x) => Waiting(z)  BY <1>6, <1>11, <2>1 DEF Waiting
    <3> QED  BY <1>3, <2>1, <3>1 DEF DraftsOK, OwedOK, Fresh, Ours, Bare, OnDisk
  <2> QED  BY <1>11, <1>p, <2>4, <2>5, <2>6 DEF DraftsOK, y, z
<1> QED  BY <1>9, <1>10, <1>11

(* A write has its answer. *)
LEMMA PersistedKept ==
  ASSUME NEW x, LastOK(x), DraftsOK(x), x.writer # None, NEW saved \in BOOLEAN
  PROVE  LET y == [x EXCEPT !.writer = None]
             w == x.writer
             landed == IF saved THEN [y EXCEPT !.disk = [pass |-> w.pass, entries |-> w.entries]]
                       ELSE y
         IN DraftsOK(IF w.generation # y.generation THEN SecureRemove(landed)
                     ELSE Settled("drafts", landed, w, saved))
<1> DEFINE y == [x EXCEPT !.writer = None]
           w == x.writer
           d == [pass |-> w.pass, entries |-> w.entries]
           landed == IF saved THEN [y EXCEPT !.disk = d] ELSE y
<1>1. DOMAIN x = Fields /\ x.generation \in Nat  BY DEF LastOK
<1>2. x.readers = {} /\ Tidy(w.entries) /\ Tidy(x.tab)  BY DEF DraftsOK, FlightOK, ShapeOK
<1>3. d.pass = w.pass /\ d.entries = w.entries  OBVIOUS
<1>d. ASSUME w.pass \in Password PROVE d # None
  <2>1. w.entries \in Seq(Draft)  BY <1>2 DEF Tidy
  <2>2. d \in [pass : Password, entries : Seq(Draft)]  BY <1>d, <2>1
  <2> HIDE DEF d
  <2> QED  BY <2>2, VaultAssumption
<1> HIDE DEF d
<1>4. /\ DOMAIN y = Fields
      /\ y.tab = x.tab /\ y.pass = x.pass /\ y.dirty = x.dirty
      /\ y.generation = x.generation /\ y.changes = x.changes /\ y.timer = x.timer
      /\ y.failures = x.failures /\ y.pending = x.pending
      /\ y.writer = None /\ y.readers = {} /\ y.disk = x.disk
  BY <1>1, <1>2 DEF Fields
<1>l. landed = IF saved THEN [y EXCEPT !.disk = d] ELSE y  OBVIOUS
<1> HIDE DEF y, landed, w
<1>5. /\ DOMAIN landed = Fields
      /\ landed.tab = x.tab /\ landed.pass = x.pass /\ landed.dirty = x.dirty
      /\ landed.generation = x.generation /\ landed.changes = x.changes /\ landed.timer = x.timer
      /\ landed.failures = x.failures /\ landed.pending = x.pending
      /\ landed.writer = None /\ landed.readers = {}
      /\ landed.disk = IF saved THEN d ELSE x.disk
  BY <1>4, <1>l DEF Fields
<1>6. ShapeOK(landed)  BY <1>2, <1>3, <1>5 DEF DraftsOK, ShapeOK
<1>7. FlightOK(landed)  BY <1>5 DEF FlightOK, Ours, Fresh
<1>8. CASE w.generation # y.generation
  <2> DEFINE z == SecureRemove(landed)
  <2>1. /\ z.tab = x.tab /\ z.pass = x.pass /\ z.dirty = x.dirty
        /\ z.generation = x.generation /\ z.changes = x.changes /\ z.timer = x.timer
        /\ z.failures = x.failures /\ z.pending = x.pending
        /\ z.writer = None /\ z.readers = {} /\ z.disk = None
    BY <1>5 DEF SecureRemove, Fields
  <2> HIDE DEF z
  <2>2. ~Ours(x)  BY <1>4, <1>8 DEF Ours, w
  <2>3. ShapeOK(z)  BY <2>1 DEF DraftsOK, ShapeOK
  <2>4. FlightOK(z)  BY <2>1 DEF FlightOK, Ours, Fresh
  <2>5. StillOK(z)  BY <2>1 DEF DraftsOK, StillOK
  <2>6. OwedOK(z)
    <3>1. Waiting(x) => Waiting(z)  BY <2>1 DEF Waiting
    <3>2. Bare(x) => Bare(z)  BY <2>1 DEF Bare, Ours
    <3> QED  BY <2>1, <2>2, <3>1, <3>2 DEF DraftsOK, OwedOK, Fresh
  <2> QED  BY <1>8, <2>3, <2>4, <2>5, <2>6 DEF DraftsOK, y, w, z, landed, d
<1>9. CASE w.generation = y.generation
  <2>1. Ours(x) /\ x.dirty /\ w.pass = x.pass  BY <1>4, <1>9 DEF Ours, DraftsOK, FlightOK, w
  <2>2. x.pass # None /\ x.pass \in Password  BY <2>1 DEF LastOK, Ours, DraftsOK, ShapeOK
  <2>3. x.generation # 0  BY <2>2 DEF DraftsOK, StillOK
  <2>4. StillOK(landed)  BY <1>5, <2>3 DEF StillOK
  <2> DEFINE z == Settled("drafts", landed, w, saved)
             clean == [landed EXCEPT !.dirty = FALSE, !.failures = 0]
             more == [landed EXCEPT !.failures = @ + 1]
  <2>5. z = IF w.changes # landed.changes THEN landed
            ELSE IF saved THEN clean
            ELSE IF landed.failures < MaxTries THEN SchedulePersist(more) ELSE landed
    BY DEF Settled, TryAgain
  <2>6. /\ clean.tab = x.tab /\ clean.pass = x.pass /\ clean.dirty = FALSE
        /\ clean.generation = x.generation /\ clean.changes = x.changes /\ clean.timer = x.timer
        /\ clean.pending = x.pending
        /\ clean.writer = None /\ clean.readers = {} /\ clean.disk = landed.disk
    BY <1>5 DEF Fields
  <2>7. /\ DOMAIN more = Fields
        /\ more.tab = x.tab /\ more.pass = x.pass /\ more.dirty = x.dirty
        /\ more.generation = x.generation /\ more.changes = x.changes /\ more.timer = x.timer
        /\ more.pending = x.pending
        /\ more.writer = None /\ more.readers = {} /\ more.disk = landed.disk
    BY <1>5 DEF Fields
  <2> HIDE DEF z, clean, more
  <2>8. ASSUME w.changes # landed.changes PROVE DraftsOK(z)
    <3>1. ~Fresh(x) /\ ~Bare(x)  BY <1>5, <2>1, <2>8 DEF Fresh, Bare, w
    <3>2. Waiting(x) => Waiting(landed)  BY <1>5 DEF Waiting
    <3>3. OwedOK(landed)  BY <1>5, <2>1, <2>2, <3>1, <3>2 DEF DraftsOK, OwedOK
    <3>4. z = landed  BY <2>5, <2>8
    <3> QED  BY <1>6, <1>7, <2>4, <3>3, <3>4 DEF DraftsOK
  <2>9. ASSUME w.changes = landed.changes, saved PROVE DraftsOK(z)
    <3>1. Fresh(x)  BY <1>5, <2>1, <2>9 DEF Fresh, w
    <3>2. w.entries = x.tab  BY <3>1 DEF DraftsOK, FlightOK, w
    <3>3. ShapeOK(clean) /\ StillOK(clean)  BY <1>5, <1>6, <2>3, <2>6 DEF ShapeOK, StillOK
    <3>4. FlightOK(clean)  BY <2>6 DEF FlightOK, Ours, Fresh
    <3>5. clean.disk = d  BY <1>5, <2>6, <2>9
    <3>6. Len(x.tab) \in Nat  BY <1>2, TidyFacts
    <3>7. IsPrefix(x.tab, x.tab)  BY <3>6 DEF IsPrefix
    <3>8. OnDisk(clean)  BY <1>3, <1>d, <2>1, <2>2, <2>6, <3>2, <3>5, <3>7 DEF OnDisk
    <3>9. OwedOK(clean)  BY <2>6, <3>8 DEF OwedOK
    <3>10. z = clean  BY <2>5, <2>9
    <3> QED  BY <3>3, <3>4, <3>9, <3>10 DEF DraftsOK
  <2>10. ASSUME w.changes = landed.changes, ~saved, landed.failures < MaxTries PROVE DraftsOK(z)
    <3>1. ShapeOK(more)  BY <1>5, <1>6, <2>7 DEF ShapeOK
    <3>2. FlightOK(more)  BY <2>7 DEF FlightOK, Ours, Fresh
    <3>3. DraftsOK(SchedulePersist(more))  BY <2>1, <2>3, <2>7, <3>1, <3>2, ScheduleKept
    <3> QED  BY <2>5, <2>10, <3>3
  <2>11. ASSUME w.changes = landed.changes, ~saved, ~(landed.failures < MaxTries) PROVE DraftsOK(z)
    <3>1. OwedOK(landed)  BY <1>5, <2>1, <2>11 DEF OwedOK
    <3>2. z = landed  BY <2>5, <2>11
    <3> QED  BY <1>6, <1>7, <2>4, <3>1, <3>2 DEF DraftsOK
  <2>12. DraftsOK(z)  BY <2>8, <2>9, <2>10, <2>11
  <2> QED  BY <1>9, <2>12 DEF y, w, z, landed, d
<1> QED  BY <1>8, <1>9

LEMMA ClosedKept ==
  ASSUME NEW disk, disk # None => Tidy(disk.entries)
  PROVE  DraftsOK(Closed(disk))
<1> DEFINE x == Closed(disk)
<1>1. /\ x.tab = <<>> /\ x.pass = None /\ x.dirty = FALSE /\ x.generation = 0 /\ x.changes = 0
      /\ x.timer = FALSE /\ x.pending = <<>> /\ x.writer = None /\ x.readers = {} /\ x.disk = disk
  BY DEF Closed
<1> HIDE DEF x
<1>2. ShapeOK(x)
  <2>1. x.pending \in Seq({"persist", "hydrate"})  BY <1>1, EmptySeq
  <2>2. Tidy(x.tab) /\ (x.disk # None => Tidy(x.disk.entries))  BY <1>1, NothingTidy
  <2>3. x.dirty \in BOOLEAN /\ x.timer \in BOOLEAN  BY <1>1
  <2>4. x.changes \in Nat /\ x.pass \in Password \cup {None}  BY <1>1
  <2> QED  BY <2>1, <2>2, <2>3, <2>4 DEF ShapeOK
<1>3. FlightOK(x)  BY <1>1 DEF FlightOK, Ours, Fresh
<1>4. StillOK(x) /\ OwedOK(x)  BY <1>1 DEF StillOK, OwedOK
<1> QED  BY <1>2, <1>3, <1>4 DEF DraftsOK, x

-----------------------------------------------------------------------------
(* The steps of the drafts' box.                                          *)

Limit == {"signIn", "logOut", "reload", "failure", "change", "send", "type"}

DraftsInv ==
  /\ left \in [Limit -> Nat]
  /\ auth \in Password \cup {None}
  /\ DraftsOK(box["drafts"])

(* A bound is spent one at a time. *)
LEMMA LeftStays ==
  ASSUME left \in [Limit -> Nat], [Next]_vars
  PROVE  left' \in [Limit -> Nat]
<1>1. CASE UNCHANGED left  BY <1>1
<1>2. CASE \E what : Spend(what)
  <2>1. PICK what : left[what] > 0 /\ left' = [left EXCEPT ![what] = @ - 1]  BY <1>2 DEF Spend
  <2>2. CASE what \in Limit
    <3>1. left[what] \in Nat /\ left[what] - 1 \in Nat  BY <2>1, <2>2
    <3> QED  BY <2>1, <2>2, <3>1
  <2>3. CASE what \notin Limit
    <3>1. left' = left  BY <2>1, <2>3
    <3> QED  BY <3>1
  <2> QED  BY <2>2, <2>3
<1>3. UNCHANGED left \/ \E what : Spend(what)
  <2>1. CASE SignIn \/ Send \/ Type \/ LogOut \/ Reload \/ ChangeBegin
    BY <2>1 DEF SignIn, Send, Type, LogOut, Reload, ChangeBegin
  <2>2. CASE \/ PreKeysStarted \/ SessionsStarted \/ Fetched \/ Recorded \/ Remember
             \/ OwnRekeyed \/ RecordMoved \/ AppMoved \/ BundleMoved
    BY <2>2 DEF PreKeysStarted, SessionsStarted, Fetched, Recorded, Remember, OwnRekeyed,
                RecordMoved, AppMoved, BundleMoved
  <2>3. CASE \E s \in Store : Save(s) \/ Derived(s) \/ Rewrap(s) \/ Commit(s) \/ Rollback(s)
    BY <2>3 DEF Save, Derived, Rewrap, Commit, Rollback
  <2>4. CASE BoxSteps \/ BoxWrites  BY <2>4 DEF BoxSteps, BoxWrites
  <2>5. CASE UNCHANGED vars  BY <2>5 DEF vars
  <2> QED  BY <2>1, <2>2, <2>3, <2>4, <2>5 DEF Next
<1> QED  BY <1>1, <1>2, <1>3

LEMMA AuthStays ==
  ASSUME StoresInv, auth \in Password \cup {None}, [Next]_vars
  PROVE  auth' \in Password \cup {None}
<1>1. CASE SignIn  BY <1>1, VaultAssumption DEF SignIn
<1>2. CASE AppMoved
  <2>1. ChangeTyped(change)  BY <1>2 DEF AppMoved, StoresInv, TypeInv
  <2>2. change.new \in Password  BY <2>1, ChangeFields
  <2> QED  BY <1>2, <2>2 DEF AppMoved
<1>3. CASE LogOut \/ Reload  BY <1>3 DEF LogOut, Reload
<1>4. CASE \/ PreKeysStarted \/ SessionsStarted \/ Fetched \/ Recorded \/ Send \/ Remember \/ Type
           \/ ChangeBegin \/ OwnRekeyed \/ RecordMoved \/ BundleMoved
  BY <1>4 DEF PreKeysStarted, SessionsStarted, Fetched, Recorded, Send, Remember, Type,
              ChangeBegin, OwnRekeyed, RecordMoved, BundleMoved, tab
<1>5. CASE \E s \in Store : Save(s) \/ Derived(s) \/ Rewrap(s) \/ Commit(s) \/ Rollback(s)
  BY <1>5 DEF Save, Derived, Rewrap, Commit, Rollback, tab
<1>6. CASE UNCHANGED tab  BY <1>6 DEF tab
<1>7. CASE UNCHANGED vars  BY <1>7 DEF vars
<1> QED  BY <1>1, <1>2, <1>3, <1>4, <1>5, <1>6, <1>7 DEF Next

(* One box alone takes a step. *)
LEMMA OneBoxDrafts ==
  ASSUME BoxesInv, DraftsOK(box["drafts"]), NEW b \in Box, NEW z, box' = [box EXCEPT ![b] = z],
         b = "drafts" => DraftsOK(z)
  PROVE  DraftsOK(box'["drafts"])
<1>1. box'["drafts"] = IF b = "drafts" THEN z ELSE box["drafts"]  BY DEF BoxesInv, Box
<1> QED  BY <1>1

LEMMA TypeDrafts ==
  ASSUME BoxesInv, DraftsInv, Type
  PROVE  DraftsOK(box'["drafts"])
<1> DEFINE x == box["drafts"]
<1>1. PICK c \in Channels, text \in {None, left["type"]} :
        box' = [box EXCEPT !["drafts"] = SetDraft(@, c, text)]
  BY DEF Type
<1>2. "drafts" \in Box /\ LastOK(x) /\ DraftsOK(x) /\ DOMAIN box = Box
  BY DEF BoxesInv, DraftsInv, Box
<1>3. text # None => text \in Int
  <2>1. left["type"] \in Nat  BY DEF DraftsInv, Limit
  <2> QED  BY <2>1
<1>4. box' = [box EXCEPT !["drafts"] = SetDraft(x, c, text)]  BY <1>1, <1>2
<1> HIDE DEF x
<1>5. DraftsOK(SetDraft(x, c, text))  BY <1>2, <1>3, SetDraftKept
<1>6. DraftsOK(box["drafts"])  BY DEF DraftsInv
<1> QED  BY <1>2, <1>4, <1>5, <1>6, OneBoxDrafts

LEMMA LogOutDrafts ==
  ASSUME BoxesInv, DraftsInv, LogOut
  PROVE  DraftsOK(box'["drafts"])
<1> DEFINE x == box["drafts"]
           v == ForgetDrafts(x)
           z == SetDraftsPassword(v, None)
<1>1. LastOK(x) /\ DraftsOK(x)  BY DEF BoxesInv, DraftsInv, Box
<1>2. box'["drafts"] = Flush(z)  BY DEF LogOut
<1> HIDE DEF x
<1>3. LastOK(v) /\ DraftsOK(v) /\ v.generation # 0  BY <1>1, ForgetOK, ForgetKept
<1>4. z = SetDraftsPassword(v, None)  OBVIOUS
<1> HIDE DEF v
<1>5. LastOK(z) /\ DraftsOK(z)  BY <1>3, <1>4, SetDraftsOK, SetDraftsKept
<1>6. z.generation # 0
  <2>1. DOMAIN v = Fields /\ v.generation \in Nat  BY <1>3 DEF LastOK
  <2>2. CASE v.pass = None  BY <1>3, <1>4, <2>2 DEF SetDraftsPassword
  <2>3. CASE v.pass # None
    <3>1. z.generation = v.generation + 1
      BY <1>4, <2>1, <2>3 DEF SetDraftsPassword, SecureRemove, Fields
    <3> QED  BY <2>1, <3>1
  <2> QED  BY <2>2, <2>3
<1> HIDE DEF z
<1>7. DraftsOK(Flush(z))  BY <1>5, <1>6, FlushKept DEF LastOK
<1> QED  BY <1>2, <1>7

(* What the box does by itself. *)
LEMMA AloneDrafts ==
  ASSUME BoxesInv, DraftsInv, BoxSteps \/ BoxWrites
  PROVE  DraftsOK(box'["drafts"])
<1>1. PICK b \in Box : \/ TimerFires(b) \/ NextJob(b) \/ Hydrated(b)
                       \/ \E saved \in BOOLEAN : Persisted(b, saved)
  BY DEF BoxSteps, BoxWrites
<1> DEFINE x == box["drafts"]
<1>2. /\ LastOK(x) /\ DraftsOK(x) /\ DOMAIN box = Box /\ legacy \subseteq Channels
      /\ DOMAIN x = Fields
  BY DEF BoxesInv, DraftsInv, Box, LastOK
<1>3. CASE b # "drafts"
  <2>1. PICK z : box' = [box EXCEPT ![b] = z]
    BY <1>1 DEF TimerFires, NextJob, Hydrated, Persisted
  <2>2. DraftsOK(box["drafts"])  BY <1>2
  <2> QED  BY <1>3, <2>1, <2>2, OneBoxDrafts
<1>4. ASSUME b = "drafts", NEW z, box' = [box EXCEPT !["drafts"] = z], DraftsOK(z)
      PROVE  DraftsOK(box'["drafts"])
  <2>1. DraftsOK(box["drafts"])  BY <1>2
  <2> QED  BY <1>4, <2>1, OneBoxDrafts DEF Box
<1>5. CASE b = "drafts" /\ TimerFires(b)
  <2>1. x.timer /\ box' = [box EXCEPT !["drafts"] = Queue([@ EXCEPT !.timer = FALSE], "persist")]
    BY <1>5 DEF TimerFires
  <2>2. box' = [box EXCEPT !["drafts"] = Flush(x)]  BY <1>2, <2>1 DEF Flush
  <2> HIDE DEF x
  <2>3. x.generation # 0  BY <1>2, <2>1 DEF DraftsOK, StillOK
  <2>4. DraftsOK(Flush(x))  BY <1>2, <2>3, FlushKept
  <2> QED  BY <1>4, <1>5, <2>2, <2>4
<1>6. CASE b = "drafts" /\ NextJob(b)
  <2> DEFINE y == [x EXCEPT !.pending = Tail(@)]
             z == IF Head(x.pending) = "persist" THEN Persisting("drafts", y)
                  ELSE Hydrating(y, y.pass)
  <2>1. /\ x.writer = None /\ x.readers = {} /\ x.pending # <<>>
        /\ box' = [box EXCEPT !["drafts"] = z]
    BY <1>6 DEF NextJob, Busy
  <2> HIDE DEF x
  <2>2. DraftsOK(z)  BY <1>2, <2>1, NextJobKept
  <2> HIDE DEF z
  <2> QED  BY <1>4, <1>6, <2>1, <2>2
<1>7. CASE b = "drafts" /\ Hydrated(b)
  <2>1. PICK r \in x.readers : box' = [box EXCEPT !["drafts"] = DraftsHydrated(@, r)]
    BY <1>7 DEF Hydrated
  <2>2. box' = [box EXCEPT !["drafts"] = DraftsHydrated(x, r)]  BY <1>2, <2>1
  <2> HIDE DEF x
  <2>3. DraftsOK(DraftsHydrated(x, r))  BY <1>2, <2>1, HydratedKept
  <2> QED  BY <1>4, <1>7, <2>2, <2>3
<1>8. CASE b = "drafts" /\ \E saved \in BOOLEAN : Persisted(b, saved)
  <2>1. PICK saved \in BOOLEAN : Persisted("drafts", saved)  BY <1>8
  <2> DEFINE y == [x EXCEPT !.writer = None]
             w == x.writer
             landed == IF saved THEN [y EXCEPT !.disk = [pass |-> w.pass, entries |-> w.entries]]
                       ELSE y
             z == IF w.generation # y.generation THEN SecureRemove(landed)
                  ELSE Settled("drafts", landed, w, saved)
  <2>2. w # None /\ box' = [box EXCEPT !["drafts"] = z]  BY <2>1 DEF Persisted
  <2> HIDE DEF x
  <2>3. DraftsOK(z)  BY <1>2, <2>2, PersistedKept
  <2> HIDE DEF z
  <2> QED  BY <1>4, <1>8, <2>2, <2>3
<1> QED  BY <1>1, <1>3, <1>5, <1>6, <1>7, <1>8

LEMMA NextDrafts ==
  ASSUME StoresInv, BoxesInv, DraftsInv, [Next]_vars
  PROVE  DraftsInv'
<1> DEFINE x == box["drafts"]
<1>1. LastOK(x) /\ DraftsOK(x)  BY DEF BoxesInv, DraftsInv, Box
<1>2. DraftsOK(box'["drafts"])
  <2>1. CASE \/ SignIn \/ PreKeysStarted \/ SessionsStarted \/ Fetched \/ Send
             \/ ChangeBegin \/ RecordMoved \/ BundleMoved
    <3>1. UNCHANGED box
      BY <2>1 DEF SignIn, PreKeysStarted, SessionsStarted, Fetched, Send, ChangeBegin, RecordMoved,
                  BundleMoved
    <3> QED  BY <1>1, <3>1
  <2>2. CASE \E s \in Store : Save(s) \/ Derived(s) \/ Rewrap(s) \/ Commit(s) \/ Rollback(s)
    <3>1. UNCHANGED box  BY <2>2 DEF Save, Derived, Rewrap, Commit, Rollback
    <3> QED  BY <1>1, <3>1
  <2>3. CASE Recorded
    <3>1. box'["drafts"] = IF auth = None THEN x ELSE SetDraftsPassword(x, auth)
      BY <2>3 DEF Recorded
    <3> HIDE DEF x
    <3>2. auth \in Password \cup {None}  BY DEF DraftsInv
    <3>3. DraftsOK(SetDraftsPassword(x, auth))  BY <1>1, <3>2, SetDraftsKept
    <3> QED  BY <1>1, <3>1, <3>3
  <2>4. CASE Remember \/ OwnRekeyed
    <3>1. box'["drafts"] = box["drafts"]
      <4>1. PICK z : box' = [box EXCEPT !["own"] = z]  BY <2>4 DEF Remember, OwnRekeyed
      <4> QED  BY <4>1 DEF BoxesInv, Box
    <3> QED  BY <1>1, <3>1
  <2>5. CASE Type  BY <2>5, TypeDrafts
  <2>6. CASE AppMoved
    <3>1. box'["drafts"] = SetDraftsPassword(x, change.new)  BY <2>6 DEF AppMoved
    <3> HIDE DEF x
    <3>2. ChangeTyped(change)  BY <2>6 DEF AppMoved, StoresInv, TypeInv
    <3>3. change.new \in Password \cup {None}  BY <3>2, ChangeFields
    <3>4. DraftsOK(SetDraftsPassword(x, change.new))  BY <1>1, <3>3, SetDraftsKept
    <3> QED  BY <3>1, <3>4
  <2>7. CASE LogOut  BY <2>7, LogOutDrafts
  <2>8. CASE Reload
    <3>1. box'["drafts"] = Closed(x.disk)  BY <2>8 DEF Reload, Box
    <3> HIDE DEF x
    <3>2. x.disk # None => Tidy(x.disk.entries)  BY <1>1 DEF DraftsOK, ShapeOK
    <3> QED  BY <3>1, <3>2, ClosedKept
  <2>9. CASE BoxSteps \/ BoxWrites  BY <2>9, AloneDrafts
  <2>10. CASE UNCHANGED vars
    <3>1. UNCHANGED box  BY <2>10 DEF vars
    <3> QED  BY <1>1, <3>1
  <2> QED  BY <2>1, <2>2, <2>3, <2>4, <2>5, <2>6, <2>7, <2>8, <2>9, <2>10 DEF Next
<1>3. DraftsOK(box["drafts"])'
  BY <1>2 DEF DraftsOK, ShapeOK, FlightOK, StillOK, OwedOK, Waiting, Fresh, Ours, Bare, OnDisk,
              Tidy, SecureGet, Draft
<1>4. left' \in [Limit -> Nat] /\ auth' \in Password \cup {None}
  BY LeftStays, AuthStays DEF DraftsInv
<1> QED  BY <1>3, <1>4 DEF DraftsInv

LEMMA InitDrafts ==
  ASSUME Init
  PROVE  DraftsInv
<1>1. PICK s \in Scenario :
        /\ box = [b \in Box |-> Closed(Sealed(IF b = "own" THEN s.own ELSE s.drafts))]
        /\ left = s.left /\ auth = None
  BY DEF Init
<1> DEFINE ids == s.drafts
           q == Entries(ids)
           d == Sealed(ids)
<1>2. ids \in Seq(Channels) /\ IsInjective(ids) /\ left \in [Limit -> Nat]
  BY <1>1, VaultAssumption DEF Limit
<1>3. box["drafts"] = Closed(d)  BY <1>1 DEF Box
<1> HIDE DEF ids
<1>4. Tidy(q)
  <2>1. Len(ids) \in Nat /\ DOMAIN ids = 1 .. Len(ids) /\ \A i \in 1 .. Len(ids) : ids[i] \in Channels
    BY <1>2, LenProperties, ElementOfSeq
  <2>2. q = [i \in 1 .. Len(ids) |-> [key |-> ids[i], text |-> 0]]  BY <2>1 DEF Entries
  <2>3. \A i \in 1 .. Len(ids) : [key |-> ids[i], text |-> 0] \in Draft  BY <2>1 DEF Draft
  <2>4. q \in Seq(Draft)  BY <2>1, <2>2, <2>3
  <2>5. DOMAIN q = DOMAIN ids /\ \A i \in DOMAIN ids : q[i].key = ids[i]  BY <2>1, <2>2
  <2> HIDE DEF q
  <2>6. \A i, j \in DOMAIN q : q[i].key = q[j].key => i = j  BY <1>2, <2>5 DEF IsInjective
  <2> QED  BY <2>4, <2>6 DEF Tidy
<1>5. d # None => Tidy(d.entries)
  <2>1. d = IF ids = <<>> THEN None ELSE [pass |-> Registered, entries |-> q]  BY DEF Sealed
  <2> HIDE DEF d, q
  <2> QED  BY <1>4, <2>1
<1> HIDE DEF d
<1>6. DraftsOK(Closed(d))  BY <1>5, ClosedKept
<1> QED  BY <1>1, <1>2, <1>3, <1>6 DEF DraftsInv

-----------------------------------------------------------------------------
(* What the specification promises.                                        *)

LEMMA BothStay ==
  Spec => [](StoresInv /\ BoxesInv)
<1>1. Init => StoresInv /\ BoxesInv  BY InitStores, InitBoxes
<1>2. StoresInv /\ BoxesInv /\ [Next]_vars => (StoresInv /\ BoxesInv)'
  BY NextStores, NextBoxes
<1> QED  BY <1>1, <1>2, PTL DEF Spec

(* No change of the password leaves a ratchet store that nothing opens: whenever none is under way, *)
(* either every blob and the salt have moved or all of them are back, whatever write the disk       *)
(* refused.  Only a store that a reload or a sign-in met in the middle of its change is excepted.   *)
(* session.ts:635-659, prekey.ts:550-570.                                                           *)
THEOREM StoresAlwaysOpen == Spec => []StoresOpen
<1>1. StoresInv => StoresOpen
  <2> SUFFICES ASSUME StoresInv, change = None, NEW s \in Store \ torn
               PROVE  \E p \in Password : OpensWith(s, p)
    BY DEF StoresOpen
  <2>1. Under(store[s])  BY DEF StoresInv, Sound
  <2> QED  BY <2>1 DEF Under, OpensWith
<1> QED  BY <1>1, BothStay, PTL

(* Signing out is the last word on the words kept on a device: no write and no load that was under *)
(* way brings any of them back, into the tab or onto the disk, for any number of sign-ins, loads   *)
(* and writes in flight.  ownMessageCache.ts:28-37, drafts.ts:119-130.                             *)
THEOREM SigningOutIsLast == Spec => []SignOutIsTheLastWord
<1>1. BoxesInv => SignOutIsTheLastWord
  <2> SUFFICES ASSUME BoxesInv, NEW b \in Box, auth = None, box[b].pass = None, box[b].generation > 0
               PROVE  /\ \A e \in Range(box[b].tab) :
                           IF b = "own" THEN e.key \in late ELSE e.text = Swept
                      /\ AtRest(b) => box[b].disk = None
    BY DEF SignOutIsTheLastWord
  <2>1. box[b].disk = None  BY DEF BoxesInv, LastOK
  <2>2. CASE b = "own"
    <3>1. PICK S : box[b].tab \in Seq(S) /\ \A e \in S : e.key \in late
      BY <2>2 DEF BoxesInv, OwnWords
    <3>2. Range(box[b].tab) \subseteq S  BY <3>1, RangeOfSeq
    <3> QED  BY <2>1, <2>2, <3>1, <3>2
  <2>3. CASE b # "own"
    <3>1. b = "drafts"  BY <2>3 DEF Box
    <3>2. PICK S : box[b].tab \in Seq(S) /\ \A e \in S : e.text = Swept
      BY <3>1 DEF BoxesInv, DraftWords
    <3>3. Range(box[b].tab) \subseteq S  BY <3>2, RangeOfSeq
    <3> QED  BY <2>1, <2>3, <3>2, <3>3
  <2> QED  BY <2>2, <2>3
<1> QED  BY <1>1, BothStay, PTL

(* What was typed is not lost: once nothing of the drafts is under way, the disk holds what the tab   *)
(* does, in its latest words and under the password of now, for any number of loads, writes, changes *)
(* of the password and sign-outs, and after any refused write short of the last one tried.           *)
(* drafts.ts:103-117, 264-287.                                                                       *)
THEOREM DraftsReachTheDisk == Spec => []DraftsAreKept
<1>1. StoresInv /\ BoxesInv /\ DraftsInv => DraftsAreKept
  <2> SUFFICES ASSUME DraftsInv, AtRest("drafts"), box["drafts"].pass # None,
                      box["drafts"].tab # <<>>, box["drafts"].failures < MaxTries
               PROVE  OnDisk(box["drafts"])
    BY DEF DraftsAreKept
  <2> DEFINE x == box["drafts"]
  <2>1. /\ DraftsOK(x) /\ x.pass # None /\ x.tab # <<>> /\ x.failures < MaxTries
        /\ ~x.timer /\ x.pending = <<>> /\ x.writer = None
    BY DEF DraftsInv, AtRest
  <2> HIDE DEF x
  <2>2. ~Waiting(x)
    <3> DEFINE e == <<>>
    <3>1. e \in Seq({}) /\ Len(e) = 0  BY EmptySeq
    <3>2. x.pending = e  BY <2>1
    <3> HIDE DEF e
    <3>3. DOMAIN x.pending = {}  BY <3>1, <3>2, LenProperties
    <3> QED  BY <2>1, <3>3 DEF Waiting
  <2>3. ~Fresh(x) /\ ~Bare(x)  BY <2>1 DEF Fresh, Ours, Bare
  <2>4. x.dirty \in BOOLEAN  BY <2>1 DEF DraftsOK, ShapeOK
  <2>5. OnDisk(x)  BY <2>1, <2>2, <2>3, <2>4 DEF DraftsOK, OwedOK
  <2> QED  BY <2>5 DEF x
<1>2. Init => StoresInv /\ BoxesInv /\ DraftsInv  BY InitStores, InitBoxes, InitDrafts
<1>3. StoresInv /\ BoxesInv /\ DraftsInv /\ [Next]_vars => (StoresInv /\ BoxesInv /\ DraftsInv)'
  BY NextStores, NextBoxes, NextDrafts
<1> QED  BY <1>1, <1>2, <1>3, PTL DEF Spec
=============================================================================
