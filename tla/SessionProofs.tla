--------------------------- MODULE SessionProofs ---------------------------
(***************************************************************************)
(* Session for every bound: its type invariant; that no device seals two   *)
(* messages under one message key; that a header names the chain its key   *)
(* belongs to; that the key of an opened body is gone; that the window of  *)
(* held keys gives up its oldest and no others; that the two devices       *)
(* implement SecureChannel; and that what is in flight on the chains in    *)
(* use opens, until a seal fails, an idle rekey runs or a quota is full.   *)
(*                                                                         *)
(* Key uniqueness is not inductive alone.  A send takes the key the live   *)
(* sending chain points at, and that pointer is also written by an open    *)
(* that adopts its draft and by a seal that puts its capture back.  So     *)
(* KeysInv says of each of the three pointers that its key is still        *)
(* unused: of a draft and of a capture only while no send has bumped the   *)
(* epoch since, which is the condition the code adopts or restores under.  *)
(* A step and a rekey point at a chain nobody has sealed on, because it is *)
(* derived from a key pair that did not exist before.                      *)
(*                                                                         *)
(* The channel rests on ReadInv: whatever state a device is in or about to *)
(* adopt, the keys of the bodies it opened are not held there, lie behind  *)
(* the receiving chain, and belong to chains named with no more secrets    *)
(* than the root, so no chain to come is one of theirs.  That a second     *)
(* delivery cannot bring the key back needs LockInv (one draft at a time), *)
(* BodiesInv (an id has one key) and ApartInv (a key this device sealed    *)
(* with, which a header can make it find, never opens what it reads).      *)
(*                                                                         *)
(* What the window gives up is a matter of places on the receiving chain,  *)
(* in the live state and in every draft: WindowInv says that beside a      *)
(* place neither held nor spent nothing as old is held, and how far the    *)
(* chain has run past it.  That an unread body is not among the spent is   *)
(* the uniqueness of keys.                                                 *)
(*                                                                         *)
(* That a body in flight opens rests on AgreeInv: at most one end has not  *)
(* seen the other's latest ratchet key, and it derives the chain its peer  *)
(* sends on when it does; every body is on the chain its header names; and *)
(* what a receiving chain has passed is held or was spent.  A draft that   *)
(* turned can only have followed the peer's latest turn, because the chain *)
(* it turned to has one secret more than the root it left.                 *)
(***************************************************************************)
EXTENDS Session, FiniteSetTheorems, FunctionTheorems, SequenceTheorems, TLAPS

-----------------------------------------------------------------------------
(* What the transitions of Ratchet return, for every state and every bound. *)

(* Advancing a chain key (chainKDF) yields a chain key. *)
LEMMA AdvanceType ==
  ASSUME NEW ck \in ChainKey, NEW i \in Nat
  PROVE  Advance(ck, i) \in ChainKey
BY DEF Advance, ChainKey

(* dhRatchet mixes one secret of two ratchet keys into the root. *)
LEMMA DhType ==
  ASSUME NEW root \in RootKey, NEW priv \in Keys, NEW pub \in Keys
  PROVE  DhRatchet(root, priv, pub) \in RootKey
<1>1. SharedSecret(priv, pub) \in SUBSET Keys  BY DEF SharedSecret
<1> QED  BY <1>1 DEF DhRatchet, RootKey

LEMMA ChainFromType ==
  ASSUME NEW root \in RootKey
  PROVE  ChainFrom(root) \in ChainKey
BY DEF ChainFrom, ChainKey

(* Trimming a map drops entries and invents none. *)
LEMMA NewestSubset ==
  ASSUME NEW entries, NEW max
  PROVE  Newest(entries, max) \subseteq entries
BY DEF Newest

LEMMA AdvanceSendingType ==
  ASSUME NEW s \in SessionState
  PROVE  AdvanceSendingChain(s) \in SessionState
<1>1. Advance(s.sendingChainKey, 1) \in ChainKey  BY AdvanceType DEF SessionState
<1>2. s.sendingMessageNumber + 1 \in Nat  BY DEF SessionState
<1> QED  BY <1>1, <1>2 DEF AdvanceSendingChain, SessionState

LEMMA RecordType ==
  ASSUME NEW s \in SessionState, NEW n \in Nat, NEW key \in ChainKey
  PROVE  RecordSentMessageKey(s, n, key) \in SessionState
<1> DEFINE all == {e \in s.sentMessageKeys : e.num # n} \cup {[num |-> n, key |-> key]}
<1>1. all \in SUBSET Entry  BY DEF SessionState, Entry
<1>2. Newest(all, MaxSentKeys) \in SUBSET Entry  BY <1>1, NewestSubset
<1> QED  BY <1>2 DEF RecordSentMessageKey, SessionState

LEMMA StepType ==
  ASSUME NEW s \in SessionState, NEW remote \in Keys, NEW fresh \in Keys
  PROVE  RatchetStep(s, remote, fresh) \in SessionState
<1> DEFINE recvd == DhRatchet(s.rootKey, s.sendingRatchetKey, remote)
           sent  == DhRatchet(recvd, fresh, remote)
<1>1. recvd \in RootKey  BY DhType DEF SessionState
<1>2. sent \in RootKey  BY <1>1, DhType
<1>3. ChainFrom(recvd) \in ChainKey /\ ChainFrom(sent) \in ChainKey
  BY <1>1, <1>2, ChainFromType
<1> HIDE DEF recvd, sent
<1> QED  BY <1>1, <1>2, <1>3 DEF RatchetStep, SessionState, recvd, sent

LEMMA NextKeyType ==
  ASSUME NEW s \in SessionState, NEW n \in Nat, NEW r \in NextKey(s, n)
  PROVE  r.key \in ChainKey /\ r.state \in SessionState
<1> DEFINE gap    == n - s.receivingMessageNumber
           passed == {[num |-> s.receivingMessageNumber + i,
                       key |-> Advance(s.receivingChainKey, i)] : i \in 0 .. gap - 1}
           after  == [s EXCEPT
               !.receivingChainKey = Advance(s.receivingChainKey, gap + 1),
               !.receivingMessageNumber = n + 1,
               !.skippedMessageKeys = Newest(@ \cup passed, MaxSkippedKeys)]
<1>1. s.receivingChainKey \in ChainKey /\ gap \in Nat
  BY BoundsAssumption DEF NextKey, SessionState
<1>2. /\ r.key = Advance(s.receivingChainKey, gap)
      /\ r.state = after
  BY DEF NextKey
<1>3. s.receivingMessageNumber \in Nat  BY DEF SessionState
<1>4. passed \in SUBSET Entry
  <2>1. ASSUME NEW i \in 0 .. gap - 1
        PROVE  [num |-> s.receivingMessageNumber + i,
                key |-> Advance(s.receivingChainKey, i)] \in Entry
    <3>1. i \in Nat  BY <1>1
    <3>2. Advance(s.receivingChainKey, i) \in ChainKey  BY <1>1, <3>1, AdvanceType
    <3> QED  BY <1>3, <3>1, <3>2 DEF Entry
  <2> QED  BY <2>1
<1>5. Newest(s.skippedMessageKeys \cup passed, MaxSkippedKeys) \in SUBSET Entry
  BY <1>4, NewestSubset DEF SessionState
<1>6. /\ Advance(s.receivingChainKey, gap) \in ChainKey
      /\ Advance(s.receivingChainKey, gap + 1) \in ChainKey
  BY <1>1, AdvanceType
<1>7. n + 1 \in Nat  OBVIOUS
<1> HIDE DEF gap, passed
<1>8. after \in SessionState  BY <1>5, <1>6, <1>7 DEF SessionState
<1> QED  BY <1>2, <1>6, <1>8

LEMMA HeldKeyType ==
  ASSUME NEW s \in SessionState, NEW n \in Nat, NEW r \in HeldKey(s, n)
  PROVE  r.key \in ChainKey /\ r.state \in SessionState
BY DEF HeldKey, SessionState, Entry

LEMMA TakePreviousType ==
  ASSUME NEW s \in SessionState, NEW rk, NEW n \in Nat,
         NEW r \in TakePreviousChainKey(s, rk, n) \cup TakePreviousReceivingKey(s, rk, n)
  PROVE  r.key \in ChainKey /\ r.state \in SessionState
BY DEF TakePreviousChainKey, TakePreviousReceivingKey, SessionState, Entry

(* Whatever header decryptMessage is given, the key it finds is a message  *)
(* key and the draft it leaves is a session state.                         *)
LEMMA FindType ==
  ASSUME NEW s \in SessionState, NEW rk \in Keys, NEW n \in Nat, NEW fresh \in Keys,
         NEW r \in FindMessageKey(s, rk, n, fresh)
  PROVE  r.key \in ChainKey /\ r.state \in SessionState
<1> DEFINE stepped == IF NeedsStep(s, rk, n) THEN RatchetStep(s, rk, fresh) ELSE s
<1>1. stepped \in SessionState  BY StepType
<1>2. \/ r \in TakePreviousChainKey(s, rk, n) \cup TakePreviousReceivingKey(s, rk, n)
      \/ r \in HeldKey(stepped, n)
      \/ r \in NextKey(stepped, n)
  BY DEF FindMessageKey, AdvanceReceivingChain
<1> HIDE DEF stepped
<1> QED  BY <1>1, <1>2, TakePreviousType, HeldKeyType, NextKeyType

(* The draft of an open either leaves everything a send depends on as it   *)
(* was, or steps: then it sends on a chain derived from the new key pair.  *)
SameSending(s, t) ==
  /\ t.rootKey = s.rootKey
  /\ t.sendingChainKey = s.sendingChainKey
  /\ t.sendingMessageNumber = s.sendingMessageNumber
  /\ t.sentMessageKeys = s.sentMessageKeys
  /\ t.sendingRatchetKey = s.sendingRatchetKey
  /\ t.receivingRatchetPublicKey = s.receivingRatchetPublicKey

Stepped(s, t, rk, fresh) ==
  LET root == DhRatchet(DhRatchet(s.rootKey, s.sendingRatchetKey, rk), fresh, rk)
  IN  /\ t.rootKey = root
      /\ t.sendingChainKey = ChainFrom(root)
      /\ t.sendingMessageNumber = 0
      /\ t.sentMessageKeys = {}
      /\ t.sendingRatchetKey = fresh
      /\ t.receivingRatchetPublicKey = rk

LEMMA StepSending ==
  ASSUME NEW s \in SessionState, NEW rk \in Keys, NEW fresh \in Keys
  PROVE  Stepped(s, RatchetStep(s, rk, fresh), rk, fresh)
BY DEF Stepped, RatchetStep, SessionState

LEMMA NextKeySending ==
  ASSUME NEW s \in SessionState, NEW n \in Nat, NEW r \in HeldKey(s, n) \cup NextKey(s, n)
  PROVE  SameSending(s, r.state)
<1>1. CASE r \in HeldKey(s, n)  BY <1>1 DEF HeldKey, SameSending, SessionState
<1>2. CASE r \in NextKey(s, n)
  <2> DEFINE gap    == n - s.receivingMessageNumber
             passed == {[num |-> s.receivingMessageNumber + i,
                         key |-> Advance(s.receivingChainKey, i)] : i \in 0 .. gap - 1}
             chain  == Advance(s.receivingChainKey, gap + 1)
             held   == Newest(s.skippedMessageKeys \cup passed, MaxSkippedKeys)
  <2>1. r.state = [s EXCEPT !.receivingChainKey = chain,
                            !.receivingMessageNumber = n + 1,
                            !.skippedMessageKeys = held]
    BY <1>2 DEF NextKey
  <2> HIDE DEF chain, held
  <2> QED  BY <2>1 DEF SameSending, SessionState
<1> QED  BY <1>1, <1>2

LEMMA FindSending ==
  ASSUME NEW s \in SessionState, NEW rk \in Keys, NEW n \in Nat, NEW fresh \in Keys,
         NEW r \in FindMessageKey(s, rk, n, fresh)
  PROVE  \/ SameSending(s, r.state)
         \/ NeedsStep(s, rk, n) /\ Stepped(s, r.state, rk, fresh)
<1> DEFINE step == RatchetStep(s, rk, fresh)
<1>1. CASE r \in TakePreviousChainKey(s, rk, n) \cup TakePreviousReceivingKey(s, rk, n)
  BY <1>1 DEF TakePreviousChainKey, TakePreviousReceivingKey, SameSending, SessionState
<1>2. CASE NeedsStep(s, rk, n) /\ r \in AdvanceReceivingChain(step, n)
  <2>1. step \in SessionState /\ Stepped(s, step, rk, fresh)  BY StepType, StepSending
  <2> HIDE DEF step
  <2>2. SameSending(step, r.state)
    BY <1>2, <2>1, NextKeySending DEF AdvanceReceivingChain
  <2> QED  BY <1>2, <2>1, <2>2 DEF SameSending, Stepped
<1>3. CASE r \in AdvanceReceivingChain(s, n)
  BY <1>3, NextKeySending DEF AdvanceReceivingChain
<1> QED  BY <1>1, <1>2, <1>3 DEF FindMessageKey

(* The idle rekey and the adoption of a draft yield session states. *)
LEMMA RekeyType ==
  ASSUME NEW s \in SessionState, s.receivingRatchetPublicKey # None, NEW fresh \in Keys
  PROVE  IdleRekeyed(s, fresh) \in SessionState
<1> DEFINE root == DhRatchet(s.rootKey, fresh, s.receivingRatchetPublicKey)
<1>1. root \in RootKey  BY DhType DEF SessionState
<1>2. ChainFrom(root) \in ChainKey  BY <1>1, ChainFromType
<1> HIDE DEF root
<1> QED  BY <1>1, <1>2 DEF IdleRekeyed, SessionState, root

LEMMA AdoptedType ==
  ASSUME NEW live \in SessionState, NEW draft \in SessionState, NEW overtaken \in BOOLEAN
  PROVE  Adopted(live, draft, overtaken) \in SessionState
BY DEF Adopted, SessionState

-----------------------------------------------------------------------------
(* Maps that are trimmed.                                                  *)

LEMMA LeastExists ==
  ASSUME NEW T, T \subseteq Nat, T # {}
  PROVE  \E x \in T : \A y \in T : x <= y
<1> DEFINE R == OpToRel(<, Nat)
<1>1. \A x, y \in Nat : x < y => <<x, y>> \in R  BY Zenon DEF OpToRel
<1>2. IsWellFoundedOn(R, Nat)  BY NatLessThanWellFounded
<1> HIDE DEF R
<1>3. PICK x \in T : \A y \in T : ~ (<<y, x>> \in R)  BY <1>2, WFMin
<1>4. \A y \in T : ~(y < x)  BY <1>1, <1>3
<1> QED  BY <1>3, <1>4

(* A map: no number has two keys. *)
OneKeyEach(entries) == \A e, f \in entries : e.num = f.num => e = f

(* A map keeps at most what it is trimmed to. *)
LEMMA NewestBounded ==
  ASSUME NEW S \in SUBSET Entry, NEW max \in Nat, IsFiniteSet(S), OneKeyEach(S)
  PROVE  /\ IsFiniteSet(Newest(S, max))
         /\ Cardinality(Newest(S, max)) <= max
<1> DEFINE N == Newest(S, max)
<1>1. N \subseteq S /\ IsFiniteSet(N)  BY FS_Subset, NewestSubset
<1>2. CASE N = {}
  <2>1. Cardinality({}) = 0  BY FS_EmptySet
  <2> QED  BY <1>1, <1>2, <2>1
<1>3. CASE N # {}
  <2> DEFINE Nums == {e.num : e \in N}
  <2>1. Nums \subseteq Nat  BY <1>1 DEF Entry
  <2>2. Nums # {}  BY <1>3
  <2>3. PICK n \in Nums : \A j \in Nums : n <= j  BY <2>1, <2>2, LeastExists
  <2>4. PICK e \in N : e.num = n  BY <2>3
  <2> DEFINE later == {f \in S : f.num > e.num}
  <2>5. N \ {e} \subseteq later
    <3> SUFFICES ASSUME NEW f \in N, f # e PROVE f.num > e.num  BY <1>1
    <3>1. f.num \in Nums /\ e.num <= f.num /\ f.num \in Nat /\ e.num \in Nat
      BY <2>1, <2>3, <2>4
    <3>2. f.num # e.num  BY <1>1 DEF OneKeyEach
    <3> QED  BY <3>1, <3>2
  <2>6. IsFiniteSet(later)  BY FS_Subset
  <2>7. Cardinality(later) < max  BY <2>4 DEF Newest
  <2>8. Cardinality(N \ {e}) <= Cardinality(later)  BY <2>5, <2>6, FS_Subset
  <2>9. Cardinality(N \ {e}) = Cardinality(N) - 1  BY <1>1, <2>4, FS_RemoveElement
  <2>10. Cardinality(N) \in Nat /\ Cardinality(later) \in Nat
    BY <1>1, <2>6, FS_CardinalityType
  <2> QED  BY <1>1, <2>7, <2>8, <2>9, <2>10
<1> QED  BY <1>2, <1>3

(* A map that is within its limit is not trimmed. *)
LEMMA NewestSame ==
  ASSUME NEW S \in SUBSET Entry, NEW max \in Nat, IsFiniteSet(S), Cardinality(S) <= max
  PROVE  Newest(S, max) = S
<1> SUFFICES ASSUME NEW e \in S PROVE Cardinality({f \in S : f.num > e.num}) < max
  BY DEF Newest
<1> DEFINE later == {f \in S : f.num > e.num}
<1>1. later \subseteq S \ {e}  BY DEF Entry
<1>2. IsFiniteSet(S \ {e}) /\ Cardinality(S \ {e}) = Cardinality(S) - 1  BY FS_RemoveElement
<1> HIDE DEF later
<1>3. IsFiniteSet(later) /\ Cardinality(later) <= Cardinality(S \ {e})  BY <1>1, <1>2, FS_Subset
<1>4. Cardinality(later) \in Nat /\ Cardinality(S) \in Nat  BY <1>3, FS_CardinalityType
<1>5. Cardinality(later) < max  BY <1>2, <1>3, <1>4
<1> QED  BY <1>5 DEF later

(* What a full store and one that is read back have in common: a part of   *)
(* each map stays, and the rest of the state is as it was.                 *)
Trimmed(s, t) ==
  /\ t \in SessionState
  /\ t.rootKey = s.rootKey
  /\ t.sendingChainKey = s.sendingChainKey
  /\ t.receivingChainKey = s.receivingChainKey
  /\ t.sendingRatchetKey = s.sendingRatchetKey
  /\ t.receivingRatchetPublicKey = s.receivingRatchetPublicKey
  /\ t.sendingMessageNumber = s.sendingMessageNumber
  /\ t.receivingMessageNumber = s.receivingMessageNumber
  /\ t.skippedMessageKeys \subseteq s.skippedMessageKeys
  /\ t.sentMessageKeys \subseteq s.sentMessageKeys
  /\ t.previousSendingRatchetKey = s.previousSendingRatchetKey
  /\ t.previousSendingChainLength = s.previousSendingChainLength
  /\ t.previousSendingKeys \subseteq s.previousSendingKeys
  /\ t.previousReceivingRatchetKey = s.previousReceivingRatchetKey
  /\ t.previousReceivingLength = s.previousReceivingLength
  /\ t.previousReceivingKeys \subseteq s.previousReceivingKeys

LEMMA TrimmedMaps ==
  ASSUME NEW s \in SessionState
  PROVE  Trimmed(s, Pruned(s)) /\ Trimmed(s, Loaded(s))
<1>1. ASSUME NEW a \in SUBSET s.previousSendingKeys, NEW b \in SUBSET s.previousReceivingKeys,
             NEW c \in SUBSET s.skippedMessageKeys, NEW e \in SUBSET s.sentMessageKeys
      PROVE  /\ Trimmed(s, [s EXCEPT !.previousSendingKeys = a, !.previousReceivingKeys = b,
                                     !.skippedMessageKeys = c])
             /\ Trimmed(s, [s EXCEPT !.previousSendingKeys = a, !.sentMessageKeys = e,
                                     !.skippedMessageKeys = c, !.previousReceivingKeys = b])
  BY DEF SessionState, Trimmed
<1>2. \A entries, max : Newest(entries, max) \in SUBSET entries  BY NewestSubset
<1>3. \A entries : Halved(entries) \in SUBSET entries  BY <1>2 DEF Halved
<1> QED  BY <1>1, <1>2, <1>3 DEF Pruned, Loaded

-----------------------------------------------------------------------------
(* The receiving half.                                                     *)

(* The receiving chain stands at its counter, and what is held are the     *)
(* keys it has passed: those of this chain, and those of one before it,    *)
(* which was named with fewer secrets.                                     *)
ReceiveInv(s) ==
  /\ s.receivingChainKey = None =>
       s.skippedMessageKeys = {} /\ s.previousReceivingKeys = {}
  /\ s.receivingChainKey # None =>
       /\ s.receivingChainKey.pos = s.receivingMessageNumber
       /\ Len(s.receivingChainKey.chain) <= Len(s.rootKey)
       /\ \A e \in s.skippedMessageKeys :
            /\ e.key.chain = s.receivingChainKey.chain
            /\ e.key.pos = e.num
            /\ e.num < s.receivingMessageNumber
       /\ \A e \in s.previousReceivingKeys :
            /\ Len(e.key.chain) < Len(s.receivingChainKey.chain)
            /\ e.key.pos = e.num

(* No header makes this state yield the key, now or later: it is not held, *)
(* the chain is past it, and chains still to come are named with more      *)
(* secrets.                                                                *)
Forgotten(s, key) ==
  /\ \A e \in s.skippedMessageKeys \cup s.previousReceivingKeys : e.key # key
  /\ s.receivingChainKey # None =>
       ~(/\ s.receivingChainKey.chain = key.chain
         /\ s.receivingChainKey.pos <= key.pos)
  /\ Len(key.chain) <= Len(s.rootKey)

(* The receiving half and the root it was derived under. *)
SameReceiving(s, t) ==
  /\ t.receivingChainKey = s.receivingChainKey
  /\ t.receivingMessageNumber = s.receivingMessageNumber
  /\ t.skippedMessageKeys = s.skippedMessageKeys
  /\ t.previousReceivingKeys = s.previousReceivingKeys

LEMMA ReceivingKept ==
  ASSUME NEW s, NEW t, SameReceiving(s, t), t.rootKey = s.rootKey
  PROVE  /\ ReceiveInv(s) => ReceiveInv(t)
         /\ \A k : Forgotten(s, k) => Forgotten(t, k)
BY DEF SameReceiving, ReceiveInv, Forgotten

(* A step onto a new receiving chain. *)
LEMMA StepReceive ==
  ASSUME NEW s \in SessionState, NEW rk \in Keys, NEW fresh \in Keys, ReceiveInv(s)
  PROVE  /\ ReceiveInv(RatchetStep(s, rk, fresh))
         /\ \A k \in ChainKey : Forgotten(s, k) => Forgotten(RatchetStep(s, rk, fresh), k)
<1> DEFINE recvd == DhRatchet(s.rootKey, s.sendingRatchetKey, rk)
           sent  == DhRatchet(recvd, fresh, rk)
           t     == RatchetStep(s, rk, fresh)
<1>1. /\ t.rootKey = sent
      /\ t.receivingChainKey = ChainFrom(recvd)
      /\ t.receivingMessageNumber = 0
      /\ t.skippedMessageKeys = {}
      /\ t.previousReceivingKeys = s.skippedMessageKeys
  BY DEF RatchetStep, SessionState
<1>2. s.rootKey \in Seq(SUBSET Keys) /\ s.sendingRatchetKey \in Keys
  BY DEF SessionState, RootKey
<1>3. recvd \in Seq(SUBSET Keys) /\ Len(recvd) = Len(s.rootKey) + 1
  BY <1>2 DEF DhRatchet, SharedSecret
<1> HIDE DEF recvd
<1>4. sent \in Seq(SUBSET Keys) /\ Len(sent) = Len(recvd) + 1
  BY <1>3 DEF DhRatchet, SharedSecret
<1>5. Len(s.rootKey) \in Nat /\ Len(recvd) \in Nat  BY <1>2, <1>3
<1>6. /\ ChainFrom(recvd).chain = recvd /\ ChainFrom(recvd).pos = 0
      /\ ChainFrom(recvd) # None
  BY <1>3, NoneAssumption, ChainFromType DEF ChainFrom, RootKey
<1>7. \A e \in s.skippedMessageKeys :
        /\ e.key.pos = e.num
        /\ e.key.chain \in Seq(SUBSET Keys)
        /\ Len(e.key.chain) <= Len(s.rootKey)
  BY DEF ReceiveInv, SessionState, Entry, ChainKey, RootKey
<1> HIDE DEF sent, t
<1>8. ReceiveInv(t)  BY <1>1, <1>3, <1>4, <1>5, <1>6, <1>7 DEF ReceiveInv
<1>9. ASSUME NEW k \in ChainKey, Forgotten(s, k)
      PROVE  Forgotten(t, k)
  <2>1. Len(k.chain) <= Len(s.rootKey)  BY <1>9 DEF Forgotten
  <2>2. k.chain \in Seq(SUBSET Keys) /\ Len(k.chain) \in Nat  BY DEF ChainKey, RootKey
  <2>3. Len(k.chain) <= Len(sent) /\ recvd # k.chain  BY <1>3, <1>4, <1>5, <2>1, <2>2
  <2>4. \A e \in s.skippedMessageKeys : e.key # k  BY <1>9 DEF Forgotten
  <2> QED  BY <1>1, <1>6, <2>3, <2>4 DEF Forgotten
<1> QED  BY <1>8, <1>9 DEF t

(* What handing a key out of the receiving half leaves behind: the key is  *)
(* one the state had not forgotten, and it is forgotten now.               *)
Consumed(s, r) ==
  /\ ReceiveInv(r.state)
  /\ \A k \in ChainKey : Forgotten(s, k) => Forgotten(r.state, k)
  /\ Forgotten(r.state, r.key)
  /\ ~Forgotten(s, r.key)

LEMMA HeldReceive ==
  ASSUME NEW s \in SessionState, NEW n \in Nat, NEW r \in HeldKey(s, n), ReceiveInv(s)
  PROVE  Consumed(s, r)
<1>1. PICK e \in s.skippedMessageKeys :
        /\ e.num = n
        /\ r = [key |-> e.key, state |-> [s EXCEPT !.skippedMessageKeys = @ \ {e}]]
  BY DEF HeldKey
<1>2. /\ r.key = e.key
      /\ r.state.rootKey = s.rootKey
      /\ r.state.receivingChainKey = s.receivingChainKey
      /\ r.state.receivingMessageNumber = s.receivingMessageNumber
      /\ r.state.skippedMessageKeys = s.skippedMessageKeys \ {e}
      /\ r.state.previousReceivingKeys = s.previousReceivingKeys
  BY <1>1 DEF SessionState
<1>3. s.receivingChainKey # None /\ s.receivingChainKey \in ChainKey
  BY <1>1 DEF ReceiveInv, SessionState
<1>4. /\ s.skippedMessageKeys \in SUBSET Entry /\ s.previousReceivingKeys \in SUBSET Entry
      /\ s.receivingMessageNumber \in Nat
      /\ Len(s.receivingChainKey.chain) \in Nat /\ Len(s.rootKey) \in Nat
  BY <1>3 DEF SessionState, ChainKey, RootKey
<1>5. ReceiveInv(r.state)  BY <1>2, <1>3 DEF ReceiveInv
<1>6. \A k \in ChainKey : Forgotten(s, k) => Forgotten(r.state, k)  BY <1>2 DEF Forgotten
<1>7. \A f \in s.skippedMessageKeys : f.key = e.key => f = e
  BY <1>3, <1>4 DEF ReceiveInv, Entry
<1>8. \A f \in s.previousReceivingKeys : f.key # e.key
  BY <1>3, <1>4 DEF ReceiveInv, Entry, ChainKey, RootKey
<1>9. e.key.pos < s.receivingChainKey.pos /\ Len(e.key.chain) <= Len(s.rootKey)
      /\ e.key.pos \in Nat /\ s.receivingChainKey.pos \in Nat
  BY <1>3, <1>4 DEF ReceiveInv, Entry
<1>10. Forgotten(r.state, r.key)  BY <1>2, <1>7, <1>8, <1>9 DEF Forgotten
<1>11. ~Forgotten(s, r.key)  BY <1>2 DEF Forgotten
<1> QED  BY <1>5, <1>6, <1>10, <1>11 DEF Consumed

LEMMA LateReceive ==
  ASSUME NEW s \in SessionState, NEW rk, NEW n \in Nat,
         NEW r \in TakePreviousReceivingKey(s, rk, n), ReceiveInv(s)
  PROVE  Consumed(s, r)
<1>1. PICK e \in s.previousReceivingKeys :
        /\ e.num = n
        /\ r = [key |-> e.key, state |-> [s EXCEPT !.previousReceivingKeys = @ \ {e}]]
  BY DEF TakePreviousReceivingKey
<1>2. /\ r.key = e.key
      /\ r.state.rootKey = s.rootKey
      /\ r.state.receivingChainKey = s.receivingChainKey
      /\ r.state.receivingMessageNumber = s.receivingMessageNumber
      /\ r.state.skippedMessageKeys = s.skippedMessageKeys
      /\ r.state.previousReceivingKeys = s.previousReceivingKeys \ {e}
  BY <1>1 DEF SessionState
<1>3. s.receivingChainKey # None /\ s.receivingChainKey \in ChainKey
  BY <1>1 DEF ReceiveInv, SessionState
<1>4. /\ s.skippedMessageKeys \in SUBSET Entry /\ s.previousReceivingKeys \in SUBSET Entry
      /\ Len(s.receivingChainKey.chain) \in Nat /\ Len(s.rootKey) \in Nat
      /\ Len(e.key.chain) \in Nat
  <2>1. /\ s.skippedMessageKeys \in SUBSET Entry /\ s.previousReceivingKeys \in SUBSET Entry
        /\ s.rootKey \in RootKey
    BY DEF SessionState
  <2>2. e.key \in ChainKey  BY <2>1 DEF Entry
  <2> QED  BY <1>3, <2>1, <2>2 DEF ChainKey, RootKey
<1>5. ReceiveInv(r.state)  BY <1>2, <1>3 DEF ReceiveInv
<1>6. \A k \in ChainKey : Forgotten(s, k) => Forgotten(r.state, k)  BY <1>2 DEF Forgotten
<1>7. \A f \in s.previousReceivingKeys : f.num # n \/ f.key # e.key \/ f = e
  BY <1>1, <1>4 DEF Entry
<1>8. \A f \in s.previousReceivingKeys : f.key = e.key => f = e
  BY <1>1, <1>3, <1>7 DEF ReceiveInv
<1>9. Len(e.key.chain) < Len(s.receivingChainKey.chain)
  BY <1>1, <1>3 DEF ReceiveInv
<1>10. \A f \in s.skippedMessageKeys : f.key # e.key
  BY <1>3, <1>4, <1>9 DEF ReceiveInv
<1>11. s.receivingChainKey.chain # e.key.chain /\ Len(e.key.chain) <= Len(s.rootKey)
  BY <1>3, <1>4, <1>9 DEF ReceiveInv
<1>12. Forgotten(r.state, r.key)  BY <1>2, <1>8, <1>10, <1>11 DEF Forgotten
<1>13. ~Forgotten(s, r.key)  BY <1>2 DEF Forgotten
<1> QED  BY <1>5, <1>6, <1>12, <1>13 DEF Consumed

LEMMA NextReceive ==
  ASSUME NEW s \in SessionState, NEW n \in Nat, NEW r \in NextKey(s, n), ReceiveInv(s)
  PROVE  Consumed(s, r)
<1> DEFINE gap    == n - s.receivingMessageNumber
           passed == {[num |-> s.receivingMessageNumber + i,
                       key |-> Advance(s.receivingChainKey, i)] : i \in 0 .. gap - 1}
           all    == s.skippedMessageKeys \cup passed
           held   == Newest(all, MaxSkippedKeys)
           key    == Advance(s.receivingChainKey, gap)
           next   == Advance(s.receivingChainKey, gap + 1)
<1>1. /\ s.receivingChainKey \in ChainKey /\ s.receivingChainKey # None
      /\ gap \in 0 .. MaxSkip /\ s.receivingMessageNumber \in Nat
  BY BoundsAssumption DEF NextKey, SessionState
<1>2. /\ r.key = key
      /\ r.state = [s EXCEPT !.receivingChainKey = next,
                             !.receivingMessageNumber = n + 1,
                             !.skippedMessageKeys = held]
  BY DEF NextKey
<1>3. /\ s.receivingChainKey.pos = s.receivingMessageNumber
      /\ s.receivingChainKey.pos \in Nat
      /\ s.receivingChainKey.chain \in RootKey
  BY <1>1 DEF ReceiveInv, ChainKey
<1>4. /\ key \in ChainKey /\ key.chain = s.receivingChainKey.chain /\ key.pos = n
      /\ next \in ChainKey /\ next # None
      /\ next.chain = s.receivingChainKey.chain /\ next.pos = n + 1
  <2>1. gap \in Nat /\ gap + 1 \in Nat  BY <1>1, BoundsAssumption
  <2>2. key \in ChainKey /\ next \in ChainKey  BY <1>1, <2>1, AdvanceType
  <2>3. next # None  BY <2>2, NoneAssumption
  <2>4. s.receivingChainKey.pos + gap = n /\ s.receivingChainKey.pos + (gap + 1) = n + 1
    BY <1>1, <1>3
  <2> QED  BY <2>2, <2>3, <2>4 DEF Advance
<1>5. ASSUME NEW e \in all
      PROVE  /\ e.key.chain = s.receivingChainKey.chain
             /\ e.key.pos = e.num
             /\ e.num \in Nat /\ e.num < n + 1 /\ e.key.pos # n
  <2>1. CASE e \in s.skippedMessageKeys
    <3>1. e \in Entry  BY <2>1 DEF SessionState
    <3> QED  BY <1>1, <1>3, <2>1, <3>1 DEF ReceiveInv, Entry
  <2>2. CASE e \in passed
    <3>1. PICK i \in 0 .. gap - 1 : e = [num |-> s.receivingMessageNumber + i,
                                         key |-> Advance(s.receivingChainKey, i)]
      BY <2>2
    <3> QED  BY <1>1, <1>3, <3>1 DEF Advance
  <2> QED  BY <2>1, <2>2
<1>6. held \subseteq all  BY NewestSubset
<1>7. /\ r.state.rootKey = s.rootKey
      /\ r.state.receivingChainKey = next
      /\ r.state.receivingMessageNumber = n + 1
      /\ r.state.skippedMessageKeys = held
      /\ r.state.previousReceivingKeys = s.previousReceivingKeys
  <2> HIDE DEF next, held
  <2> QED  BY <1>2 DEF SessionState
<1> HIDE DEF key, next, all, held, gap
<1>8. ReceiveInv(r.state)
  <2>1. /\ Len(next.chain) <= Len(r.state.rootKey)
        /\ \A e \in held : /\ e.key.chain = next.chain /\ e.key.pos = e.num
                           /\ e.num < n + 1
    BY <1>1, <1>4, <1>5, <1>6, <1>7 DEF ReceiveInv
  <2>2. \A e \in s.previousReceivingKeys : Len(e.key.chain) < Len(next.chain) /\ e.key.pos = e.num
    BY <1>1, <1>4 DEF ReceiveInv
  <2> QED  BY <1>4, <1>7, <2>1, <2>2 DEF ReceiveInv
<1>9. ASSUME NEW k \in ChainKey, Forgotten(s, k)
      PROVE  Forgotten(r.state, k)
  <2>1. s.receivingChainKey.chain = k.chain => k.pos < s.receivingChainKey.pos
    BY <1>1, <1>3, <1>9 DEF Forgotten, ChainKey
  <2>2. k.pos \in Nat /\ s.receivingMessageNumber <= n
    BY <1>1 DEF ChainKey, gap
  <2>3. next.chain = k.chain => ~(next.pos <= k.pos)
    BY <1>1, <1>3, <1>4, <2>1, <2>2
  <2>4. ASSUME NEW e \in all PROVE e.key # k
    <3>1. CASE e \in s.skippedMessageKeys  BY <1>9, <3>1 DEF Forgotten
    <3>2. CASE e \in passed
      <4>1. e.key.chain = s.receivingChainKey.chain  BY <1>5
      <4>2. e.key.pos = e.num /\ e.num >= s.receivingMessageNumber  BY <1>1, <1>5, <3>2 DEF gap
      <4> QED  BY <1>1, <1>3, <2>1, <2>2, <4>1, <4>2
    <3> QED  BY <3>1, <3>2 DEF all
  <2>5. \A e \in s.previousReceivingKeys : e.key # k  BY <1>9 DEF Forgotten
  <2> QED  BY <1>6, <1>7, <1>9, <2>3, <2>4, <2>5 DEF Forgotten
<1>10. Forgotten(r.state, r.key)
  <2>1. \A e \in held : e.key # key  BY <1>4, <1>5, <1>6
  <2>2. \A e \in s.previousReceivingKeys : e.key # key
    <3>1. Len(key.chain) \in Nat  BY <1>4 DEF ChainKey, RootKey
    <3>2. \A e \in s.previousReceivingKeys : Len(e.key.chain) < Len(key.chain)
      BY <1>1, <1>4 DEF ReceiveInv
    <3> QED  BY <3>1, <3>2
  <2>3. Len(key.chain) <= Len(s.rootKey)  BY <1>1, <1>4 DEF ReceiveInv
  <2>4. ~(next.pos <= key.pos)  BY <1>4
  <2> QED  BY <1>2, <1>7, <2>1, <2>2, <2>3, <2>4 DEF Forgotten
<1>11. ~Forgotten(s, r.key)
  <2>1. s.receivingChainKey.pos <= key.pos  BY <1>1, <1>3, <1>4 DEF gap
  <2> QED  BY <1>1, <1>2, <1>4, <2>1 DEF Forgotten
<1> QED  BY <1>8, <1>9, <1>10, <1>11 DEF Consumed

(* The key decryptMessage finds is either one this side sealed with itself *)
(* (a header that names its own last chain), and then the receiving half   *)
(* is untouched, or one that was not forgotten and is forgotten now.       *)
LEMMA FindReceive ==
  ASSUME NEW s \in SessionState, NEW rk \in Keys, NEW n \in Nat, NEW fresh \in Keys,
         NEW r \in FindMessageKey(s, rk, n, fresh), ReceiveInv(s)
  PROVE  /\ ReceiveInv(r.state)
         /\ \A k \in ChainKey : Forgotten(s, k) => Forgotten(r.state, k)
         /\ \/ \E e \in s.previousSendingKeys : e.key = r.key
            \/ Forgotten(r.state, r.key) /\ ~Forgotten(s, r.key)
<1> DEFINE step == RatchetStep(s, rk, fresh)
<1>1. CASE r \in TakePreviousChainKey(s, rk, n)
  <2>1. /\ \E e \in s.previousSendingKeys : e.key = r.key
        /\ SameReceiving(s, r.state) /\ r.state.rootKey = s.rootKey
    BY <1>1 DEF TakePreviousChainKey, SameReceiving, SessionState
  <2> QED  BY <2>1, ReceivingKept
<1>2. CASE r \in TakePreviousReceivingKey(s, rk, n)
  BY <1>2, LateReceive DEF Consumed
<1>3. CASE r \in AdvanceReceivingChain(s, n)
  BY <1>3, HeldReceive, NextReceive DEF AdvanceReceivingChain, Consumed
<1>4. CASE r \in AdvanceReceivingChain(step, n)
  <2>1. /\ step \in SessionState /\ ReceiveInv(step)
        /\ \A k \in ChainKey : Forgotten(s, k) => Forgotten(step, k)
    BY StepType, StepReceive
  <2> HIDE DEF step
  <2>2. Consumed(step, r) /\ r.key \in ChainKey
    BY <1>4, <2>1, HeldReceive, NextReceive, HeldKeyType, NextKeyType DEF AdvanceReceivingChain
  <2> QED  BY <2>1, <2>2 DEF Consumed
<1> QED  BY <1>1, <1>2, <1>3, <1>4 DEF FindMessageKey

(* The keys a draft keeps of what this side sent are keys the state kept.  *)
LEMMA FindSentKeys ==
  ASSUME NEW s \in SessionState, NEW rk \in Keys, NEW n \in Nat, NEW fresh \in Keys,
         NEW r \in FindMessageKey(s, rk, n, fresh)
  PROVE  r.state.sentMessageKeys \cup r.state.previousSendingKeys
           \subseteq s.sentMessageKeys \cup s.previousSendingKeys
<1> DEFINE step == RatchetStep(s, rk, fresh)
<1>1. CASE r \in TakePreviousChainKey(s, rk, n) \cup TakePreviousReceivingKey(s, rk, n)
  BY <1>1 DEF TakePreviousChainKey, TakePreviousReceivingKey, SessionState
<1>2. ASSUME NEW t \in SessionState, r \in AdvanceReceivingChain(t, n)
      PROVE  /\ r.state.sentMessageKeys = t.sentMessageKeys
             /\ r.state.previousSendingKeys = t.previousSendingKeys
  <2>1. CASE r \in HeldKey(t, n)  BY <2>1 DEF HeldKey, SessionState
  <2>2. CASE r \in NextKey(t, n)
    <3> DEFINE gap    == n - t.receivingMessageNumber
               passed == {[num |-> t.receivingMessageNumber + i,
                           key |-> Advance(t.receivingChainKey, i)] : i \in 0 .. gap - 1}
               chain  == Advance(t.receivingChainKey, gap + 1)
               held   == Newest(t.skippedMessageKeys \cup passed, MaxSkippedKeys)
    <3>1. r.state = [t EXCEPT !.receivingChainKey = chain,
                              !.receivingMessageNumber = n + 1,
                              !.skippedMessageKeys = held]
      BY <2>2 DEF NextKey
    <3> HIDE DEF chain, held
    <3> QED  BY <3>1 DEF SessionState
  <2> QED  BY <1>2, <2>1, <2>2 DEF AdvanceReceivingChain
<1>3. CASE r \in AdvanceReceivingChain(s, n)  BY <1>2, <1>3
<1>4. CASE r \in AdvanceReceivingChain(step, n)
  <2>1. step.sentMessageKeys = {} /\ step.previousSendingKeys = s.sentMessageKeys
    BY DEF RatchetStep, SessionState
  <2>2. step \in SessionState  BY StepType
  <2> HIDE DEF step
  <2> QED  BY <1>2, <1>4, <2>1, <2>2
<1> QED  BY <1>1, <1>3, <1>4 DEF FindMessageKey

-----------------------------------------------------------------------------
(* The bounds on the maps.                                                 *)

SkippedBounded(s) ==
  /\ IsFiniteSet(s.skippedMessageKeys)
  /\ Cardinality(s.skippedMessageKeys) <= MaxSkippedKeys

SentBounded(entries) ==
  /\ IsFiniteSet(entries)
  /\ Cardinality(entries) <= MaxSentKeys
  /\ OneKeyEach(entries)

LEMMA NoneHeld ==
  /\ \A s : s.skippedMessageKeys = {} => SkippedBounded(s)
  /\ SentBounded({})
BY FS_EmptySet, BoundsAssumption DEF SkippedBounded, SentBounded, OneKeyEach

(* A key is recorded: it replaces the one under its number. *)
LEMMA RecordBounded ==
  ASSUME NEW s \in SessionState, NEW n \in Nat, NEW key \in ChainKey,
         SentBounded(s.sentMessageKeys)
  PROVE  SentBounded(RecordSentMessageKey(s, n, key).sentMessageKeys)
<1> DEFINE others == {e \in s.sentMessageKeys : e.num # n}
           entry  == [num |-> n, key |-> key]
           all    == others \cup {entry}
           kept   == Newest(all, MaxSentKeys)
<1>1. s.sentMessageKeys \in SUBSET Entry  BY DEF SessionState
<1>2. entry \in Entry /\ entry.num = n  BY DEF Entry
<1>3. all \in SUBSET Entry  BY <1>1, <1>2
<1>4. IsFiniteSet(others)  BY FS_Subset DEF SentBounded
<1> HIDE DEF entry
<1>5. IsFiniteSet(all)  BY <1>4, FS_AddElement
<1>6. OneKeyEach(all)  BY <1>2 DEF OneKeyEach, SentBounded
<1>7. RecordSentMessageKey(s, n, key).sentMessageKeys = kept
  BY DEF RecordSentMessageKey, SessionState, entry
<1> HIDE DEF all
<1>8. IsFiniteSet(kept) /\ Cardinality(kept) <= MaxSentKeys /\ kept \subseteq all
  BY <1>3, <1>5, <1>6, BoundsAssumption, NewestBounded, NewestSubset
<1> QED  BY <1>6, <1>7, <1>8 DEF SentBounded, OneKeyEach

(* The keys a body runs ahead of are finitely many. *)
LEMMA PassedFinite ==
  ASSUME NEW start \in Nat, NEW ck \in ChainKey, NEW gap \in Nat
  PROVE  IsFiniteSet({[num |-> start + i, key |-> Advance(ck, i)] : i \in 0 .. gap - 1})
<1> DEFINE S == 0 .. gap - 1
           T == {[num |-> start + i, key |-> Advance(ck, i)] : i \in S}
           f == [i \in S |-> [num |-> start + i, key |-> Advance(ck, i)]]
<1>1. IsFiniteSet(S)  BY FS_Interval
<1>2. f \in [S -> T] /\ \A t \in T : \E i \in S : f[i] = t  OBVIOUS
<1>3. f \in Surjection(S, T)  BY <1>2, Fun_IsSurj
<1> QED  BY <1>1, <1>3, FS_Surjection

LEMMA NextBounded ==
  ASSUME NEW s \in SessionState, NEW n \in Nat, NEW r \in NextKey(s, n),
         ReceiveInv(s), SkippedBounded(s)
  PROVE  SkippedBounded(r.state)
<1> DEFINE gap    == n - s.receivingMessageNumber
           passed == {[num |-> s.receivingMessageNumber + i,
                       key |-> Advance(s.receivingChainKey, i)] : i \in 0 .. gap - 1}
           all    == s.skippedMessageKeys \cup passed
           held   == Newest(all, MaxSkippedKeys)
           next   == Advance(s.receivingChainKey, gap + 1)
<1>1. /\ s.receivingChainKey \in ChainKey /\ s.receivingChainKey # None
      /\ gap \in Nat /\ s.receivingMessageNumber \in Nat
      /\ s.skippedMessageKeys \in SUBSET Entry
  BY BoundsAssumption DEF NextKey, SessionState
<1>2. r.state = [s EXCEPT !.receivingChainKey = next,
                          !.receivingMessageNumber = n + 1,
                          !.skippedMessageKeys = held]
  BY DEF NextKey
<1>3. r.state.skippedMessageKeys = held
  <2> HIDE DEF next, held
  <2> QED  BY <1>2 DEF SessionState
<1>4. IsFiniteSet(passed)
  <2> HIDE DEF gap
  <2> QED  BY <1>1, PassedFinite
<1>5. /\ s.receivingChainKey.pos = s.receivingMessageNumber
      /\ \A e \in s.skippedMessageKeys :
           e.key.chain = s.receivingChainKey.chain /\ e.key.pos = e.num
  BY <1>1 DEF ReceiveInv
<1>6. \A e \in all : e \in Entry /\ e.key.chain = s.receivingChainKey.chain /\ e.key.pos = e.num
  <2>1. ASSUME NEW e \in passed
        PROVE  e \in Entry /\ e.key.chain = s.receivingChainKey.chain /\ e.key.pos = e.num
    <3>1. PICK i \in 0 .. gap - 1 : e = [num |-> s.receivingMessageNumber + i,
                                         key |-> Advance(s.receivingChainKey, i)]
      BY <2>1
    <3>2. i \in Nat /\ s.receivingMessageNumber + i \in Nat  BY <1>1
    <3>3. Advance(s.receivingChainKey, i) \in ChainKey  BY <1>1, <3>2, AdvanceType
    <3>4. e \in Entry  BY <3>1, <3>2, <3>3 DEF Entry
    <3> QED  BY <1>5, <3>1, <3>4 DEF Advance
  <2> QED  BY <1>1, <1>5, <2>1
<1>7. OneKeyEach(all)
  <2>1. SUFFICES ASSUME NEW e \in all, NEW f \in all, e.num = f.num PROVE e = f
    BY DEF OneKeyEach
  <2>2. e.key \in ChainKey /\ f.key \in ChainKey /\ e \in Entry /\ f \in Entry
    BY <1>6 DEF Entry
  <2>3. e.key.chain = f.key.chain /\ e.key.pos = f.key.pos  BY <1>6, <2>1
  <2>4. e.key = f.key  BY <2>2, <2>3 DEF ChainKey
  <2> QED  BY <2>1, <2>2, <2>4 DEF Entry
<1>8. IsFiniteSet(all)  BY <1>4, FS_Union DEF SkippedBounded
<1>9. all \in SUBSET Entry  BY <1>6
<1> HIDE DEF all
<1>10. IsFiniteSet(held) /\ Cardinality(held) <= MaxSkippedKeys
  BY <1>7, <1>8, <1>9, BoundsAssumption, NewestBounded
<1> QED  BY <1>3, <1>10 DEF SkippedBounded

LEMMA HeldBounded ==
  ASSUME NEW s \in SessionState, NEW n \in Nat, NEW r \in HeldKey(s, n), SkippedBounded(s)
  PROVE  SkippedBounded(r.state)
<1>1. /\ r.state.skippedMessageKeys \subseteq s.skippedMessageKeys
  BY DEF HeldKey, SessionState
<1>2. /\ IsFiniteSet(r.state.skippedMessageKeys)
      /\ Cardinality(r.state.skippedMessageKeys) <= Cardinality(s.skippedMessageKeys)
  BY <1>1, FS_Subset DEF SkippedBounded
<1>3. /\ Cardinality(r.state.skippedMessageKeys) \in Nat
      /\ Cardinality(s.skippedMessageKeys) \in Nat
  BY <1>2, FS_CardinalityType DEF SkippedBounded
<1> QED  BY <1>2, <1>3, BoundsAssumption DEF SkippedBounded

(* No header makes the held keys outgrow their bound. *)
LEMMA FindBounded ==
  ASSUME NEW s \in SessionState, NEW rk \in Keys, NEW n \in Nat, NEW fresh \in Keys,
         NEW r \in FindMessageKey(s, rk, n, fresh), ReceiveInv(s), SkippedBounded(s)
  PROVE  SkippedBounded(r.state)
<1> DEFINE step == RatchetStep(s, rk, fresh)
<1>1. CASE r \in TakePreviousChainKey(s, rk, n) \cup TakePreviousReceivingKey(s, rk, n)
  <2>1. r.state.skippedMessageKeys = s.skippedMessageKeys
    BY <1>1 DEF TakePreviousChainKey, TakePreviousReceivingKey, SessionState
  <2> QED  BY <2>1 DEF SkippedBounded
<1>2. CASE r \in AdvanceReceivingChain(s, n)
  BY <1>2, HeldBounded, NextBounded DEF AdvanceReceivingChain
<1>3. CASE r \in AdvanceReceivingChain(step, n)
  <2>1. step \in SessionState /\ ReceiveInv(step)  BY StepType, StepReceive
  <2>2. step.skippedMessageKeys = {}  BY DEF RatchetStep, SessionState
  <2> HIDE DEF step
  <2>3. SkippedBounded(step)  BY <2>2, NoneHeld
  <2> QED  BY <1>3, <2>1, <2>3, HeldBounded, NextBounded DEF AdvanceReceivingChain
<1> QED  BY <1>1, <1>2, <1>3 DEF FindMessageKey

-----------------------------------------------------------------------------
(* The invariants.                                                         *)

(* The ratchet key pairs that have been generated, and the roots of those. *)
UsedKeys == {k \in Keys : k[2] < nextKey[k[1]]}

Derived == Seq(SUBSET UsedKeys)

FromUsedKeys(s) ==
  /\ s.rootKey \in Derived
  /\ s.sendingChainKey.chain \in Derived
  /\ s.sendingRatchetKey \in UsedKeys
  /\ s.receivingRatchetPublicKey \in UsedKeys \cup {None}

(* Device d has not sealed with ck, nor with a later key of its chain. *)
Unused(d, ck) ==
  \A i \in DOMAIN sealed[d] : sealed[d][i].chain = ck.chain => sealed[d][i].pos < ck.pos

LiveInv(d) ==
  /\ FromUsedKeys(state[d])
  /\ Unused(d, state[d].sendingChainKey)

SealsInv(d) ==
  \A s \in seals[d] :
    /\ s.body.rk \in UsedKeys
    /\ s.restore.sendingChainKey.chain \in Derived
    /\ s.epoch <= sendEpoch[d]
    /\ s.epoch = sendEpoch[d] => Unused(d, s.restore.sendingChainKey)

CallInv(d, c) ==
  /\ c.rk \in UsedKeys
  /\ c.epochAtStart <= sendEpoch[d]
  /\ ~Waiting(c) =>
       /\ FromUsedKeys(c.draft)
       /\ c.epochAtStart = sendEpoch[d] => Unused(d, c.draft.sendingChainKey)

OpensInv(d) == \A i \in DOMAIN opens[d] : CallInv(d, opens[d][i])

SealedInv(d) == \A i \in DOMAIN sealed[d] : sealed[d][i].chain \in Derived

NetworkInv == \A b \in network : b.rk \in UsedKeys

KeysInv ==
  /\ \A d \in Device : LiveInv(d) /\ SealsInv(d) /\ OpensInv(d) /\ SealedInv(d)
  /\ NetworkInv
  /\ NoMessageKeySealedTwice

-----------------------------------------------------------------------------
(* Type correctness.                                                       *)

LEMMA StartTypes ==
  /\ InitiatorState(KeyOf(Initiator, 0)) \in SessionState
  /\ ResponderState(KeyOf(Responder, 0), KeyOf(Initiator, 0)) \in SessionState
<1> DEFINE root == DhRatchet(HandshakeRoot, KeyOf(Responder, 0), KeyOf(Initiator, 0))
<1>1. /\ HandshakeRoot \in RootKey
      /\ KeyOf(Initiator, 0) \in Keys
      /\ KeyOf(Responder, 0) \in Keys
  BY DEF HandshakeRoot, RootKey, KeyOf, Keys, Device
<1>2. root \in RootKey  BY <1>1, DhType
<1>3. ChainFrom(HandshakeRoot) \in ChainKey /\ ChainFrom(root) \in ChainKey
  BY <1>1, <1>2, ChainFromType
<1> HIDE DEF root
<1>4. FreshState(root, ChainFrom(root), KeyOf(Responder, 0)) \in SessionState
  BY <1>1, <1>2, <1>3 DEF FreshState, SessionState
<1>5. InitiatorState(KeyOf(Initiator, 0)) \in SessionState
  BY <1>1, <1>3 DEF InitiatorState, FreshState, SessionState
<1> DEFINE fresh == FreshState(root, ChainFrom(root), KeyOf(Responder, 0))
<1>6. ResponderState(KeyOf(Responder, 0), KeyOf(Initiator, 0)) =
        [fresh EXCEPT !.receivingChainKey = ChainFrom(HandshakeRoot),
                      !.receivingRatchetPublicKey = KeyOf(Initiator, 0)]
  BY DEF ResponderState, root
<1>7. fresh \in SessionState  BY <1>4
<1> HIDE DEF fresh
<1> QED  BY <1>1, <1>3, <1>5, <1>6, <1>7 DEF SessionState

LEMMA WithoutType ==
  ASSUME NEW calls \in Seq(Call), NEW i \in DOMAIN calls
  PROVE  /\ Without(calls, i) \in Seq(Call)
         /\ \A j \in DOMAIN Without(calls, i) :
              \E k \in DOMAIN calls : Without(calls, i)[j] = calls[k]
<1> DEFINE n == Len(calls) - 1
<1>1. n \in Nat /\ DOMAIN calls = 1 .. n + 1  BY LenProperties
<1>2. \A j \in 1 .. n : j \in DOMAIN calls /\ j + 1 \in DOMAIN calls  BY <1>1
<1>3. \A j \in 1 .. n : calls[j] \in Call /\ calls[j + 1] \in Call
  BY <1>1, <1>2, ElementOfSeq
<1>4. Without(calls, i) \in [1 .. n -> Call]  BY <1>3 DEF Without
<1>5. Without(calls, i) \in Seq(Call)  BY <1>1, <1>4, SeqDef
<1>6. DOMAIN Without(calls, i) = 1 .. n  BY <1>4
<1>7. ASSUME NEW j \in 1 .. n
      PROVE  \E k \in DOMAIN calls : Without(calls, i)[j] = calls[k]
  <2>1. CASE j < i  BY <1>2, <2>1 DEF Without
  <2>2. CASE ~(j < i)  BY <1>2, <2>2 DEF Without
  <2> QED  BY <2>1, <2>2
<1> QED  BY <1>5, <1>6, <1>7

LEMMA CallAt ==
  ASSUME TypeOK, NEW d \in Device, NEW i \in DOMAIN opens[d]
  PROVE  /\ opens[d] \in Seq(Call)
         /\ i \in 1 .. Len(opens[d])
         /\ opens[d][i] \in Call
<1>1. opens[d] \in Seq(Call)  BY DEF TypeOK
<1>2. i \in 1 .. Len(opens[d])  BY <1>1, LenProperties
<1> QED  BY <1>1, <1>2, ElementOfSeq

LEMMA FreshType ==
  ASSUME TypeOK, NEW d \in Device
  PROVE  KeyOf(d, nextKey[d]) \in Keys
BY DEF TypeOK, KeyOf, Keys

(* What encryptMessage computes before its first await is well typed.      *)
LEMMA EncryptTypes ==
  ASSUME TypeOK, NEW d \in Device
  PROVE  LET key   == state[d].sendingChainKey
             moved == AdvanceSendingChain(state[d])
             num   == moved.sendingMessageNumber - 1
             after == RecordSentMessageKey(moved, num, key)
         IN  /\ key \in ChainKey
             /\ num \in Nat
             /\ after \in SessionState
             /\ state[d].sendingRatchetKey \in Keys
<1>1. state[d] \in SessionState  BY DEF TypeOK
<1>2. AdvanceSendingChain(state[d]) \in SessionState  BY <1>1, AdvanceSendingType
<1>3. AdvanceSendingChain(state[d]).sendingMessageNumber = state[d].sendingMessageNumber + 1
  BY <1>1 DEF AdvanceSendingChain, SessionState
<1>4. AdvanceSendingChain(state[d]).sendingMessageNumber - 1 \in Nat
  BY <1>1, <1>3 DEF SessionState
<1>5. state[d].sendingChainKey \in ChainKey /\ state[d].sendingRatchetKey \in Keys
  BY <1>1 DEF SessionState
<1> QED  BY <1>2, <1>4, <1>5, RecordType

LEMMA PutBackType ==
  ASSUME NEW s \in SessionState, NEW r \in Restore
  PROVE  PutBack(s, r) \in SessionState
BY DEF PutBack, SessionState, Restore

LEMMA TypeInit == Init => TypeOK
<1> SUFFICES ASSUME Init PROVE TypeOK  OBVIOUS
<1>1. state \in [Device -> SessionState]  BY StartTypes DEF Init
<1>2. opens \in [Device -> Seq(Call)]  BY EmptySeq DEF Init
<1>3. sealed \in [Device -> Seq(ChainKey)] /\ opened \in [Device -> Seq(Nat)]
  BY EmptySeq DEF Init
<1> QED  BY <1>1, <1>2, <1>3 DEF Init, TypeOK

LEMMA TypeSend ==
  ASSUME TypeOK, NEW d \in Device, EncryptBegin(d) \/ SealOk(d) \/ SealFail(d)
  PROVE  TypeOK'
<1>1. CASE EncryptBegin(d)
  <2> DEFINE key   == state[d].sendingChainKey
             moved == AdvanceSendingChain(state[d])
             num   == moved.sendingMessageNumber - 1
             after == RecordSentMessageKey(moved, num, key)
             body  == [from |-> d, id |-> Len(sealed[d]) + 1,
                       rk |-> state[d].sendingRatchetKey, num |-> num, key |-> key]
             capture == [sendingChainKey |-> after.sendingChainKey,
                         sendingMessageNumber |-> after.sendingMessageNumber,
                         sentMessageKeys |-> after.sentMessageKeys]
             seal  == [body |-> body, epoch |-> sendEpoch[d] + 1, restore |-> capture]
  <2>1. /\ key \in ChainKey /\ num \in Nat /\ after \in SessionState
        /\ state[d].sendingRatchetKey \in Keys
    BY EncryptTypes
  <2>2. /\ state' = [state EXCEPT ![d] = after]
        /\ seals' = [seals EXCEPT ![d] = @ \cup {seal}]
        /\ sealed' = [sealed EXCEPT ![d] = Append(@, key)]
        /\ sendEpoch' = [sendEpoch EXCEPT ![d] = @ + 1]
    BY <1>1 DEF EncryptBegin
  <2> HIDE DEF key, num, after
  <2>3. Len(sealed[d]) + 1 \in Nat /\ sendEpoch[d] + 1 \in Nat
    BY LenProperties DEF TypeOK
  <2>4. body \in Body  BY <2>1, <2>3 DEF Body
  <2>5. capture \in Restore  BY <2>1 DEF Restore, SessionState
  <2>6. seal \in Seal  BY <2>3, <2>4, <2>5 DEF Seal
  <2> HIDE DEF seal
  <2>7. state' \in [Device -> SessionState]  BY <2>1, <2>2 DEF TypeOK
  <2>8. seals' \in [Device -> SUBSET Seal]  BY <2>2, <2>6 DEF TypeOK
  <2>9. sealed' \in [Device -> Seq(ChainKey)]
    <3>1. Append(sealed[d], key) \in Seq(ChainKey)  BY <2>1, AppendProperties DEF TypeOK
    <3> QED  BY <2>2, <3>1 DEF TypeOK
  <2>10. sendEpoch' \in [Device -> Nat]  BY <2>2, <2>3 DEF TypeOK
  <2> QED  BY <1>1, <2>7, <2>8, <2>9, <2>10 DEF TypeOK, EncryptBegin
<1>2. CASE SealOk(d)
  <2>1. PICK s \in seals[d] : network' = network \cup {s.body}  BY <1>2 DEF SealOk
  <2>2. s.body \in Body  BY DEF TypeOK, Seal
  <2>3. seals' \in [Device -> SUBSET Seal]  BY <1>2 DEF SealOk, TypeOK
  <2> QED  BY <1>2, <2>1, <2>2, <2>3 DEF SealOk, TypeOK
<1>3. CASE SealFail(d)
  <2>1. PICK s \in seals[d] : state' = IF StillNewest(d, s)
                                      THEN [state EXCEPT ![d] = PutBack(@, s.restore)]
                                      ELSE state
    BY <1>3 DEF SealFail
  <2>2. s.restore \in Restore  BY DEF TypeOK, Seal
  <2>3. PutBack(state[d], s.restore) \in SessionState
    BY <2>2, PutBackType DEF TypeOK
  <2>4. state' \in [Device -> SessionState]  BY <2>1, <2>3 DEF TypeOK
  <2>5. seals' \in [Device -> SUBSET Seal]  BY <1>3 DEF SealFail, TypeOK
  <2> QED  BY <1>3, <2>4, <2>5 DEF SealFail, TypeOK
<1> QED  BY <1>1, <1>2, <1>3

LEMMA TypeOpen ==
  ASSUME TypeOK, NEW d \in Device,
         \/ \E body, header \in network : OpenCall(d, body, header)
         \/ \E i \in DOMAIN opens[d] : Running(d, i)
  PROVE  TypeOK'
<1>1. CASE \E body, header \in network : OpenCall(d, body, header)
  <2>1. PICK body \in network, header \in network : OpenCall(d, body, header)  BY <1>1
  <2> DEFINE call == [body |-> body, rk |-> header.rk, num |-> header.num,
                      epochAtStart |-> sendEpoch[d], draft |-> None, key |-> None]
  <2>2. call \in Call  BY DEF TypeOK, Body, Call
  <2>3. opens' = [opens EXCEPT ![d] = Append(@, call)]  BY <2>1 DEF OpenCall
  <2> HIDE DEF call
  <2>4. opens' \in [Device -> Seq(Call)]  BY <2>2, <2>3 DEF TypeOK
  <2> QED  BY <2>1, <2>4 DEF OpenCall, TypeOK
<1>2. ASSUME NEW i \in DOMAIN opens[d], OpenStart(d, i)
      PROVE  TypeOK'
  <2> DEFINE c == opens[d][i]
  <2>1. /\ opens[d] \in Seq(Call) /\ i \in 1 .. Len(opens[d]) /\ c \in Call  BY CallAt
  <2>2. PICK r \in Found(d, c) :
          opens' = [opens EXCEPT ![d][i] = [c EXCEPT !.draft = r.state, !.key = r.key]]
    BY <1>2 DEF OpenStart
  <2>3. r.key \in ChainKey /\ r.state \in SessionState
    BY <2>1, FindType, FreshType DEF Found, TypeOK, Call
  <2> DEFINE called == [c EXCEPT !.draft = r.state, !.key = r.key]
  <2>4. called \in Call  BY <2>1, <2>3 DEF Call
  <2>5. opens' = [opens EXCEPT ![d] = [opens[d] EXCEPT ![i] = called]]  BY <2>2
  <2> HIDE DEF c, called
  <2>6. opens' \in [Device -> Seq(Call)]  BY <2>1, <2>4, <2>5, ExceptSeq DEF TypeOK
  <2>7. nextKey' \in [Device -> Nat]  BY <1>2 DEF OpenStart, TypeOK
  <2> QED  BY <1>2, <2>6, <2>7 DEF OpenStart, TypeOK
<1>3. ASSUME NEW i \in DOMAIN opens[d], OpenNoKey(d, i) \/ OpenReject(d, i)
      PROVE  TypeOK'
  <2>1. opens[d] \in Seq(Call)  BY CallAt
  <2>2. Without(opens[d], i) \in Seq(Call)  BY <2>1, WithoutType
  <2>3. opens' \in [Device -> Seq(Call)]  BY <1>3, <2>2 DEF OpenNoKey, OpenReject, TypeOK
  <2> QED  BY <1>3, <2>3 DEF OpenNoKey, OpenReject, TypeOK
<1>4. ASSUME NEW i \in DOMAIN opens[d], OpenAdopt(d, i)
      PROVE  TypeOK'
  <2> DEFINE c == opens[d][i]
  <2>1. opens[d] \in Seq(Call) /\ c \in Call  BY CallAt
  <2>2. Without(opens[d], i) \in Seq(Call)  BY <2>1, WithoutType
  <2>3. c.draft \in SessionState  BY <1>4, <2>1 DEF OpenAdopt, Waiting, Call
  <2>4. Adopted(state[d], c.draft, c.epochAtStart # sendEpoch[d]) \in SessionState
    BY <2>3, AdoptedType DEF TypeOK
  <2>5. state' \in [Device -> SessionState]  BY <1>4, <2>4 DEF OpenAdopt, TypeOK
  <2>6. opens' \in [Device -> Seq(Call)]  BY <1>4, <2>2 DEF OpenAdopt, TypeOK
  <2>7. c.body.id \in Nat  BY <2>1 DEF Call, Body
  <2>8. opened' \in [Device -> Seq(Nat)]  BY <1>4, <2>7 DEF OpenAdopt, TypeOK
  <2> QED  BY <1>4, <2>5, <2>6, <2>8 DEF OpenAdopt, TypeOK
<1> QED  BY <1>1, <1>2, <1>3, <1>4 DEF Running

LEMMA TypeRekey ==
  ASSUME TypeOK, NEW d \in Device, IdleRekey(d)
  PROVE  TypeOK'
<1>1. IdleRekeyed(state[d], KeyOf(d, nextKey[d])) \in SessionState
  BY RekeyType, FreshType DEF IdleRekey, HasPeerKey, TypeOK
<1>2. state' \in [Device -> SessionState]  BY <1>1 DEF IdleRekey, TypeOK
<1> QED  BY <1>2 DEF IdleRekey, TypeOK

(* What the maps give up, of a store that is full or read back, and what   *)
(* that leaves alone.                                                      *)
Trim(d) == PruneForQuota(d) \/ Reload(d)

LEMMA TrimEffect ==
  ASSUME TypeOK, NEW d \in Device, Trim(d)
  PROVE  /\ Trimmed(state[d], state'[d])
         /\ state' = [state EXCEPT ![d] = state'[d]]
         /\ \A e \in Device : e # d => state'[e] = state[e]
         /\ UNCHANGED <<seals, opens, nextKey, network, sealed, opened, sealFailures,
                        rekeys, limits>>
         /\ \/ sendEpoch' = sendEpoch
            \/ /\ sendEpoch' = [sendEpoch EXCEPT ![d] = 0]
               /\ seals[d] = {} /\ opens[d] = <<>>
<1>1. state[d] \in SessionState  BY DEF TypeOK
<1>2. \/ state' = [state EXCEPT ![d] = Pruned(state[d])]
      \/ state' = [state EXCEPT ![d] = Loaded(state[d])]
  BY DEF Trim, PruneForQuota, Reload
<1>3. Trimmed(state[d], Pruned(state[d])) /\ Trimmed(state[d], Loaded(state[d]))
  BY <1>1, TrimmedMaps
<1>4. /\ Trimmed(state[d], state'[d])
      /\ state' = [state EXCEPT ![d] = state'[d]]
      /\ \A e \in Device : e # d => state'[e] = state[e]
  BY <1>2, <1>3 DEF TypeOK
<1>5. CASE PruneForQuota(d)  BY <1>4, <1>5 DEF PruneForQuota
<1>6. CASE Reload(d)  BY <1>4, <1>6 DEF Reload
<1> QED  BY <1>5, <1>6 DEF Trim

LEMMA TypeTrim ==
  ASSUME TypeOK, NEW d \in Device, Trim(d)
  PROVE  TypeOK'
<1>1. state' \in [Device -> SessionState]
  <2>1. state'[d] \in SessionState /\ state' = [state EXCEPT ![d] = state'[d]]
    BY TrimEffect DEF Trimmed
  <2> QED  BY <2>1 DEF TypeOK
<1>2. sendEpoch' \in [Device -> Nat]
  <2>1. sendEpoch' = sendEpoch \/ sendEpoch' = [sendEpoch EXCEPT ![d] = 0]
    BY TrimEffect
  <2>2. sendEpoch \in [Device -> Nat]  BY DEF TypeOK
  <2> QED  BY <2>1, <2>2
<1>3. prunes' \in Nat  BY DEF Trim, PruneForQuota, Reload, TypeOK
<1> QED  BY <1>1, <1>2, <1>3, TrimEffect DEF TypeOK

LEMMA TypeNext == TypeOK /\ [Next]_vars => TypeOK'
<1>1. CASE UNCHANGED vars  BY <1>1 DEF vars, TypeOK
<1>2. CASE Next  BY <1>2, TypeSend, TypeOpen, TypeRekey, TypeTrim DEF Next, Trim
<1> QED  BY <1>1, <1>2

(* Every state the two managers reach holds what the declarations of       *)
(* session.ts and types.ts allow.                                          *)
THEOREM TypeCorrect == Spec => []TypeOK
BY TypeInit, TypeNext, PTL DEF Spec

-----------------------------------------------------------------------------
(* No message key is sealed with twice.                                    *)

(* Mixing two ratchet keys of a set into a root stays within the set. *)
LEMMA DhWithin ==
  ASSUME NEW K, NEW root \in Seq(SUBSET K), NEW a \in K, NEW b \in K
  PROVE  DhRatchet(root, a, b) \in Seq(SUBSET K)
<1>1. {a, b} \in SUBSET K  OBVIOUS
<1> QED  BY <1>1, AppendProperties DEF DhRatchet, SharedSecret

(* The secret that was mixed in last is at the end of the name. *)
LEMMA DhLast ==
  ASSUME NEW root \in RootKey, NEW a \in Keys, NEW b \in Keys,
         NEW chain, chain = DhRatchet(root, a, b)
  PROVE  Len(chain) \in 1 .. Len(chain) /\ chain[Len(chain)] = {a, b}
<1>1. {a, b} \in SUBSET Keys /\ root \in Seq(SUBSET Keys)  BY DEF RootKey
<1>2. chain = Append(root, {a, b})  BY DEF DhRatchet, SharedSecret
<1>3. Len(chain) = Len(root) + 1 /\ chain[Len(chain)] = {a, b}  BY <1>1, <1>2, AppendProperties
<1>4. Len(root) \in Nat  BY <1>1, LenProperties
<1> QED  BY <1>3, <1>4

(* Key pairs are only ever added. *)
LEMMA KeysGrow ==
  ASSUME TypeOK, TypeOK', \A d \in Device : nextKey'[d] >= nextKey[d]
  PROVE  UsedKeys \subseteq UsedKeys' /\ Derived \subseteq Derived'
<1>1. UsedKeys \subseteq UsedKeys'
  <2>1. \A d \in Device : nextKey[d] \in Nat /\ nextKey'[d] \in Nat  BY DEF TypeOK
  <2> QED  BY <2>1 DEF UsedKeys, Keys
<1> HIDE DEF UsedKeys
<1>2. SUBSET UsedKeys \subseteq SUBSET UsedKeys'  BY <1>1
<1>3. ASSUME NEW s \in Seq(SUBSET UsedKeys)
      PROVE  s \in Seq(SUBSET UsedKeys')
  <2>1. PICK n \in Nat : s \in [1 .. n -> SUBSET UsedKeys]  BY SeqDef
  <2>2. s \in [1 .. n -> SUBSET UsedKeys']  BY <1>2, <2>1
  <2> QED  BY <2>2, SeqDef
<1> QED  BY <1>1, <1>3 DEF Derived

(* A chain derived from a key pair that did not exist carries no sealed key. *)
LEMMA FreshChainUnused ==
  ASSUME TypeOK, NEW d \in Device, SealedInv(d), NEW root \in RootKey, NEW pub \in Keys
  PROVE  Unused(d, ChainFrom(DhRatchet(root, KeyOf(d, nextKey[d]), pub)))
<1> DEFINE fresh == KeyOf(d, nextKey[d])
           chain == DhRatchet(root, fresh, pub)
<1>1. fresh \in Keys /\ fresh \notin UsedKeys  BY FreshType DEF UsedKeys, KeyOf, TypeOK
<1> HIDE DEF fresh
<1>2. Len(chain) \in 1 .. Len(chain) /\ chain[Len(chain)] = {fresh, pub}  BY <1>1, DhLast
<1> HIDE DEF chain
<1>3. chain \notin Derived
  <2>1. SUFFICES ASSUME chain \in Seq(SUBSET UsedKeys) PROVE FALSE  BY DEF Derived
  <2>2. chain[Len(chain)] \in SUBSET UsedKeys  BY <1>2, <2>1, ElementOfSeq
  <2> QED  BY <1>1, <1>2, <2>2
<1>4. \A i \in DOMAIN sealed[d] : sealed[d][i].chain # chain  BY <1>3 DEF SealedInv
<1> QED  BY <1>4 DEF Unused, ChainFrom, chain, fresh

Grown ==
  /\ UsedKeys \subseteq UsedKeys'
  /\ Derived \subseteq Derived'

(* What a step leaves alone still satisfies its part of the invariant.     *)
LEMMA Kept ==
  ASSUME NEW e \in Device, KeysInv, Grown, sealed'[e] = sealed[e]
  PROVE  /\ SealedInv(e)'
         /\ state'[e] = state[e] => LiveInv(e)'
         /\ seals'[e] \subseteq seals[e] /\ sendEpoch'[e] = sendEpoch[e] => SealsInv(e)'
         /\ /\ \A i \in DOMAIN opens'[e] :
                 \E k \in DOMAIN opens[e] : opens'[e][i] = opens[e][k]
            /\ sendEpoch'[e] = sendEpoch[e]
            => OpensInv(e)'
<1> USE DEF Grown, KeysInv
<1>1. SealedInv(e)'  BY DEF SealedInv
<1>2. ASSUME state'[e] = state[e] PROVE LiveInv(e)'
  BY <1>2 DEF LiveInv, FromUsedKeys, Unused
<1>3. ASSUME seals'[e] \subseteq seals[e], sendEpoch'[e] = sendEpoch[e] PROVE SealsInv(e)'
  BY <1>3 DEF SealsInv, Unused
<1>4. ASSUME \A i \in DOMAIN opens'[e] :
               \E k \in DOMAIN opens[e] : opens'[e][i] = opens[e][k],
             sendEpoch'[e] = sendEpoch[e]
      PROVE  OpensInv(e)'
  <2>1. SUFFICES ASSUME NEW i \in DOMAIN opens'[e] PROVE CallInv(e, opens[e][i])'
    BY DEF OpensInv
  <2>2. PICK k \in DOMAIN opens[e] : opens'[e][i] = opens[e][k]  BY <1>4
  <2>3. CallInv(e, opens[e][k])  BY DEF OpensInv
  <2> QED  BY <1>4, <2>2, <2>3 DEF CallInv, FromUsedKeys, Unused, Waiting
<1> QED  BY <1>1, <1>2, <1>3, <1>4

LEMMA KeysInit == Init => KeysInv
<1> SUFFICES ASSUME Init PROVE KeysInv  OBVIOUS
<1> DEFINE i0 == KeyOf(Initiator, 0)
           r0 == KeyOf(Responder, 0)
           root == DhRatchet(HandshakeRoot, r0, i0)
<1>1. i0 \in UsedKeys /\ r0 \in UsedKeys
  BY DEF Init, UsedKeys, KeyOf, Keys, Device
<1> HIDE DEF i0, r0
<1>2. HandshakeRoot \in Derived  BY EmptySeq DEF HandshakeRoot, Derived
<1>3. root \in Derived  BY <1>1, <1>2, DhWithin DEF Derived
<1> HIDE DEF root
<1>4. FromUsedKeys(InitiatorState(i0))
  BY <1>1, <1>2 DEF FromUsedKeys, InitiatorState, FreshState, ChainFrom
<1>5. FromUsedKeys(ResponderState(r0, i0))
  BY <1>1, <1>3 DEF FromUsedKeys, ResponderState, FreshState, ChainFrom, root
<1>6. \A d \in Device : FromUsedKeys(state[d])
  BY <1>4, <1>5, DeviceAssumption DEF Init, Device, i0, r0
<1>7. \A d \in Device : seals[d] = {} /\ opens[d] = <<>> /\ sealed[d] = <<>>  BY DEF Init
<1>8. network = {}  BY DEF Init
<1> QED  BY <1>6, <1>7, <1>8 DEF KeysInv, LiveInv, Unused, SealsInv, OpensInv, SealedInv,
                                  NetworkInv, NoMessageKeySealedTwice

LEMMA Appended ==
  ASSUME NEW keys \in Seq(ChainKey), NEW key \in ChainKey
  PROVE  \A i \in DOMAIN Append(keys, key) :
           \/ i = Len(keys) + 1 /\ Append(keys, key)[i] = key
           \/ i \in DOMAIN keys /\ Append(keys, key)[i] = keys[i] /\ keys[i] \in ChainKey
<1>1. /\ DOMAIN keys = 1 .. Len(keys)
      /\ DOMAIN Append(keys, key) = 1 .. Len(keys) + 1
      /\ \A i \in 1 .. Len(keys) : Append(keys, key)[i] = keys[i]
      /\ Append(keys, key)[Len(keys) + 1] = key
      /\ Len(keys) \in Nat
  BY AppendProperties, LenProperties
<1>2. \A i \in DOMAIN keys : keys[i] \in ChainKey  BY ElementOfSeq, <1>1
<1> QED  BY <1>1, <1>2

(* A send uses the key its chain points at and moves the pointer past it.  *)
LEMMA KeysEncrypt ==
  ASSUME TypeOK, TypeOK', KeysInv, NEW d \in Device, EncryptBegin(d)
  PROVE  KeysInv'
<1> DEFINE key   == state[d].sendingChainKey
           moved == AdvanceSendingChain(state[d])
           num   == moved.sendingMessageNumber - 1
           after == RecordSentMessageKey(moved, num, key)
           body  == [from |-> d, id |-> Len(sealed[d]) + 1,
                     rk |-> state[d].sendingRatchetKey, num |-> num, key |-> key]
           capture == [sendingChainKey |-> after.sendingChainKey,
                       sendingMessageNumber |-> after.sendingMessageNumber,
                       sentMessageKeys |-> after.sentMessageKeys]
           seal  == [body |-> body, epoch |-> sendEpoch[d] + 1, restore |-> capture]
<1>1. /\ state' = [state EXCEPT ![d] = after]
      /\ seals' = [seals EXCEPT ![d] = @ \cup {seal}]
      /\ sealed' = [sealed EXCEPT ![d] = Append(@, key)]
      /\ sendEpoch' = [sendEpoch EXCEPT ![d] = @ + 1]
      /\ UNCHANGED <<opens, nextKey, network>>
  BY DEF EncryptBegin
<1>2. /\ after.rootKey = state[d].rootKey
      /\ after.sendingRatchetKey = state[d].sendingRatchetKey
      /\ after.receivingRatchetPublicKey = state[d].receivingRatchetPublicKey
      /\ after.sendingChainKey = Advance(key, 1)
  BY DEF RecordSentMessageKey, AdvanceSendingChain, TypeOK, SessionState
<1>3. /\ key \in ChainKey /\ key.chain \in Derived
      /\ FromUsedKeys(state[d]) /\ sealed[d] \in Seq(ChainKey)
      /\ \A i \in DOMAIN sealed[d] : sealed[d][i].chain = key.chain => sealed[d][i].pos < key.pos
  BY DEF TypeOK, SessionState, KeysInv, LiveInv, FromUsedKeys, Unused
<1>4. /\ seal.body.rk = state[d].sendingRatchetKey
      /\ seal.epoch = sendEpoch[d] + 1
      /\ seal.restore.sendingChainKey = after.sendingChainKey
  OBVIOUS
<1> HIDE DEF key, after, seal
<1>5. Grown  BY <1>1 DEF Grown, UsedKeys, Derived
<1>6. /\ state'[d] = after /\ seals'[d] = seals[d] \cup {seal}
      /\ sealed'[d] = Append(sealed[d], key) /\ sendEpoch'[d] = sendEpoch[d] + 1
      /\ opens' = opens /\ network' = network /\ sendEpoch[d] \in Nat
  BY <1>1 DEF TypeOK
<1>7. after.sendingChainKey.chain = key.chain /\ after.sendingChainKey.pos = key.pos + 1
  BY <1>2 DEF Advance
<1>8. /\ \A i \in DOMAIN sealed'[d] : sealed'[d][i].chain = after.sendingChainKey.chain
                                        => sealed'[d][i].pos < after.sendingChainKey.pos
      /\ \A i \in DOMAIN sealed'[d] : \/ sealed'[d][i] = key
                                      \/ i \in DOMAIN sealed[d] /\ sealed'[d][i] = sealed[d][i]
      /\ \A i, j \in DOMAIN sealed'[d] : sealed'[d][i] = sealed'[d][j] => i = j
  <2>1. \A i \in DOMAIN sealed'[d] :
          \/ i = Len(sealed[d]) + 1 /\ sealed'[d][i] = key
          \/ i \in DOMAIN sealed[d] /\ sealed'[d][i] = sealed[d][i] /\ sealed[d][i] \in ChainKey
    BY <1>3, <1>6, Appended
  <2>2. key.pos \in Nat /\ \A i \in DOMAIN sealed[d] : sealed[d][i] \in ChainKey => sealed[d][i].pos \in Nat
    BY <1>3 DEF ChainKey
  <2>3. \A i \in DOMAIN sealed[d] : sealed[d][i] \in ChainKey => sealed[d][i] # key
    BY <1>3, <2>2
  <2>4. \A i, j \in DOMAIN sealed'[d] : sealed'[d][i] = sealed'[d][j] => i = j
    <3>1. \A i, j \in DOMAIN sealed[d] : sealed[d][i] = sealed[d][j] => i = j
      BY DEF KeysInv, NoMessageKeySealedTwice
    <3> QED  BY <2>1, <2>3, <3>1
  <2>5. ASSUME NEW i \in DOMAIN sealed'[d], sealed'[d][i].chain = key.chain
        PROVE  sealed'[d][i].pos < key.pos + 1
    <3>1. CASE sealed'[d][i] = key  BY <2>2, <3>1
    <3>2. CASE i \in DOMAIN sealed[d] /\ sealed'[d][i] = sealed[d][i] /\ sealed[d][i] \in ChainKey
      <4>1. sealed[d][i].pos \in Nat /\ sealed[d][i].pos < key.pos
        BY <1>3, <2>2, <2>5, <3>2
      <4> QED  BY <2>2, <3>2, <4>1
    <3> QED  BY <2>1, <3>1, <3>2
  <2> QED  BY <1>7, <2>1, <2>4, <2>5
<1>9. UsedKeys \subseteq UsedKeys' /\ Derived \subseteq Derived'  BY <1>5 DEF Grown
<1>10. LiveInv(d)'
  BY <1>2, <1>3, <1>6, <1>7, <1>8, <1>9 DEF LiveInv, FromUsedKeys, Unused
<1>11. SealsInv(d)'
  <2>1. SUFFICES ASSUME NEW s \in seals'[d]
                 PROVE  /\ s.body.rk \in UsedKeys'
                        /\ s.restore.sendingChainKey.chain \in Derived'
                        /\ s.epoch <= sendEpoch'[d]
                        /\ s.epoch = sendEpoch'[d] =>
                             \A i \in DOMAIN sealed'[d] :
                               sealed'[d][i].chain = s.restore.sendingChainKey.chain
                                 => sealed'[d][i].pos < s.restore.sendingChainKey.pos
    BY DEF SealsInv, Unused
  <2>2. CASE s = seal
    BY <1>3, <1>4, <1>6, <1>7, <1>8, <1>9, <2>2 DEF FromUsedKeys
  <2>3. CASE s \in seals[d]
    <3>1. /\ s.body.rk \in UsedKeys /\ s.restore.sendingChainKey.chain \in Derived
          /\ s.epoch <= sendEpoch[d]
      BY <2>3 DEF KeysInv, SealsInv
    <3>2. s.epoch \in Nat  BY <2>3 DEF TypeOK, Seal
    <3> QED  BY <1>6, <1>9, <3>1, <3>2
  <2> QED  BY <1>6, <2>2, <2>3
<1>12. OpensInv(d)'
  <2>1. SUFFICES ASSUME NEW i \in DOMAIN opens[d] PROVE CallInv(d, opens[d][i])'
    BY <1>6 DEF OpensInv
  <2>2. CallInv(d, opens[d][i])  BY DEF KeysInv, OpensInv
  <2>3. opens[d][i].epochAtStart \in Nat  BY CallAt DEF Call
  <2> QED  BY <1>6, <1>9, <2>2, <2>3 DEF CallInv, FromUsedKeys, Waiting
<1>13. SealedInv(d)'
  BY <1>3, <1>8, <1>9 DEF KeysInv, SealedInv, FromUsedKeys, key
<1>14. ASSUME NEW e \in Device, e # d
       PROVE  /\ LiveInv(e)' /\ SealsInv(e)' /\ OpensInv(e)' /\ SealedInv(e)'
              /\ sealed'[e] = sealed[e]
  <2>1. /\ state'[e] = state[e] /\ seals'[e] = seals[e] /\ opens'[e] = opens[e]
        /\ sealed'[e] = sealed[e] /\ sendEpoch'[e] = sendEpoch[e]
    BY <1>1, <1>14 DEF TypeOK
  <2> QED  BY <1>5, <2>1, Kept
<1>15. NoMessageKeySealedTwice'
  BY <1>8, <1>14 DEF KeysInv, NoMessageKeySealedTwice
<1>16. NetworkInv'  BY <1>6, <1>9 DEF KeysInv, NetworkInv
<1> QED  BY <1>10, <1>11, <1>12, <1>13, <1>14, <1>15, <1>16 DEF KeysInv

(* A seal settles.  What a failed one puts back is unused while its epoch  *)
(* is the newest.                                                          *)
LEMMA KeysSettle ==
  ASSUME TypeOK, TypeOK', KeysInv, NEW d \in Device, SealOk(d) \/ SealFail(d)
  PROVE  KeysInv'
<1>1. /\ UNCHANGED <<opens, nextKey, sealed, sendEpoch>>
      /\ \A e \in Device : seals'[e] \subseteq seals[e]
      /\ \A e \in Device : e # d => state'[e] = state[e]
  <2>1. state \in [Device -> SessionState] /\ seals \in [Device -> SUBSET Seal]  BY DEF TypeOK
  <2>2. CASE SealOk(d)  BY <2>1, <2>2 DEF SealOk
  <2>3. CASE SealFail(d)  BY <2>1, <2>3 DEF SealFail
  <2> QED  BY <2>2, <2>3
<1>2. Grown  BY <1>1 DEF Grown, UsedKeys, Derived
<1>3. ASSUME NEW e \in Device
      PROVE  SealsInv(e)' /\ OpensInv(e)' /\ SealedInv(e)'
  BY <1>1, <1>2, Kept
<1>4. ASSUME NEW e \in Device, state'[e] = state[e]
      PROVE  LiveInv(e)'
  BY <1>1, <1>2, <1>4, Kept
<1>5. LiveInv(d)'
  <2>1. CASE state'[d] = state[d]  BY <1>4, <2>1
  <2>2. CASE state'[d] # state[d]
    <3>1. PICK s \in seals[d] : StillNewest(d, s) /\ state'[d] = PutBack(state[d], s.restore)
      BY <2>2 DEF SealOk, SealFail, TypeOK
    <3>2. /\ s.restore.sendingChainKey.chain \in Derived
          /\ Unused(d, s.restore.sendingChainKey)
          /\ FromUsedKeys(state[d])
      BY <3>1 DEF KeysInv, LiveInv, SealsInv, StillNewest
    <3>3. /\ state'[d].rootKey = state[d].rootKey
          /\ state'[d].sendingRatchetKey = state[d].sendingRatchetKey
          /\ state'[d].receivingRatchetPublicKey = state[d].receivingRatchetPublicKey
          /\ state'[d].sendingChainKey = s.restore.sendingChainKey
      BY <3>1 DEF PutBack, TypeOK, SessionState
    <3>4. UsedKeys' = UsedKeys /\ Derived' = Derived  BY <1>1 DEF UsedKeys, Derived
    <3> QED  BY <1>1, <3>2, <3>3, <3>4 DEF LiveInv, FromUsedKeys, Unused
  <2> QED  BY <2>1, <2>2
<1>6. NetworkInv'
  <2>1. \A s \in seals[d] : s.body.rk \in UsedKeys  BY DEF KeysInv, SealsInv
  <2>2. UsedKeys' = UsedKeys  BY <1>1 DEF UsedKeys
  <2> QED  BY <2>1, <2>2 DEF SealOk, SealFail, KeysInv, NetworkInv
<1>7. NoMessageKeySealedTwice'  BY <1>1 DEF KeysInv, NoMessageKeySealedTwice
<1> QED  BY <1>1, <1>3, <1>4, <1>5, <1>6, <1>7 DEF KeysInv

(* A call joins the queue, or leaves it without having opened its body. *)
LEMMA KeysQueue ==
  ASSUME TypeOK, TypeOK', KeysInv, NEW d \in Device,
         \/ \E body, header \in network : OpenCall(d, body, header)
         \/ \E i \in DOMAIN opens[d] : OpenNoKey(d, i) \/ OpenReject(d, i)
  PROVE  KeysInv'
<1>1. /\ UNCHANGED <<state, sendEpoch, seals, nextKey, network, sealed>>
      /\ \A e \in Device : e # d => opens'[e] = opens[e]
  BY DEF OpenCall, OpenNoKey, OpenReject, TypeOK
<1>2. UsedKeys' = UsedKeys /\ Derived' = Derived /\ Grown
  BY <1>1 DEF Grown, UsedKeys, Derived
<1>3. ASSUME NEW e \in Device
      PROVE  LiveInv(e)' /\ SealsInv(e)' /\ SealedInv(e)' /\ (opens'[e] = opens[e] => OpensInv(e)')
  BY <1>1, <1>2, Kept
<1>4. OpensInv(d)'
  <2>1. CASE \E body, header \in network : OpenCall(d, body, header)
    <3>1. PICK body \in network, header \in network : OpenCall(d, body, header)  BY <2>1
    <3> DEFINE call == [body |-> body, rk |-> header.rk, num |-> header.num,
                        epochAtStart |-> sendEpoch[d], draft |-> None, key |-> None]
    <3>2. opens'[d] = Append(opens[d], call) /\ opens[d] \in Seq(Call)
      BY <3>1 DEF OpenCall, TypeOK
    <3>3. header.rk \in UsedKeys  BY DEF KeysInv, NetworkInv
    <3>4. sendEpoch[d] \in Nat  BY DEF TypeOK
    <3>5. CallInv(d, call)  BY <3>3, <3>4 DEF CallInv, Waiting
    <3>6. \A i \in DOMAIN opens[d] : CallInv(d, opens[d][i])  BY DEF KeysInv, OpensInv
    <3> HIDE DEF call
    <3>7. \A i \in DOMAIN opens'[d] :
            opens'[d][i] = call \/ (i \in DOMAIN opens[d] /\ opens'[d][i] = opens[d][i])
      <4>1. call \in Call  BY <3>2, AppendProperties, LenProperties DEF TypeOK, call, Call, Body
      <4> QED  BY <3>2, <4>1, AppendProperties, LenProperties
    <3>8. SUFFICES ASSUME NEW i \in DOMAIN opens'[d] PROVE CallInv(d, opens[d][i])'
      BY DEF OpensInv
    <3>9. CASE opens'[d][i] = call
      BY <1>1, <1>2, <3>5, <3>9 DEF CallInv, FromUsedKeys, Unused, Waiting
    <3>10. CASE i \in DOMAIN opens[d] /\ opens'[d][i] = opens[d][i]
      BY <1>1, <1>2, <3>6, <3>10 DEF CallInv, FromUsedKeys, Unused, Waiting
    <3> QED  BY <3>7, <3>9, <3>10
  <2>2. CASE \E i \in DOMAIN opens[d] : OpenNoKey(d, i) \/ OpenReject(d, i)
    <3>1. PICK i \in DOMAIN opens[d] : OpenNoKey(d, i) \/ OpenReject(d, i)  BY <2>2
    <3>2. opens'[d] = Without(opens[d], i) /\ opens[d] \in Seq(Call)
      BY <3>1 DEF OpenNoKey, OpenReject, TypeOK
    <3>3. \A j \in DOMAIN opens'[d] : \E k \in DOMAIN opens[d] : opens'[d][j] = opens[d][k]
      BY <3>2, WithoutType
    <3> QED  BY <1>1, <1>2, <3>3, Kept
  <2> QED  BY <2>1, <2>2
<1>5. NetworkInv'  BY <1>1, <1>2 DEF KeysInv, NetworkInv
<1>6. NoMessageKeySealedTwice'  BY <1>1 DEF KeysInv, NoMessageKeySealedTwice
<1> QED  BY <1>1, <1>3, <1>4, <1>5, <1>6 DEF KeysInv

(* A call finds its key: its draft is the state of the moment, or one step *)
(* on from it, whose sending chain nobody has used.                        *)
LEMMA KeysStart ==
  ASSUME TypeOK, TypeOK', KeysInv, NEW d \in Device, NEW i \in DOMAIN opens[d], OpenStart(d, i)
  PROVE  KeysInv'
<1> DEFINE c == opens[d][i]
           fresh == KeyOf(d, nextKey[d])
<1>1. PICK r \in Found(d, c) :
        opens' = [opens EXCEPT ![d][i] = [c EXCEPT !.draft = r.state, !.key = r.key]]
  BY DEF OpenStart
<1>2. /\ UNCHANGED <<state, sendEpoch, seals, network, sealed>>
      /\ nextKey' = [nextKey EXCEPT ![d] = IF NeedsStep(state[d], c.rk, c.num) THEN @ + 1 ELSE @]
  BY DEF OpenStart
<1>3. /\ c \in Call /\ c.rk \in Keys /\ c.num \in Nat /\ fresh \in Keys
      /\ state[d] \in SessionState /\ opens[d] \in Seq(Call) /\ nextKey[d] \in Nat
  BY CallAt, FreshType DEF TypeOK, Call
<1>4. ASSUME NEW e \in Device
      PROVE  nextKey'[e] >= nextKey[e]
  <2>1. nextKey[e] \in Nat /\ nextKey \in [Device -> Nat]  BY DEF TypeOK
  <2>2. nextKey'[e] = nextKey[e] \/ nextKey'[e] = nextKey[e] + 1
    <3>1. CASE NeedsStep(state[d], c.rk, c.num)  BY <1>2, <2>1, <3>1
    <3>2. CASE ~NeedsStep(state[d], c.rk, c.num)  BY <1>2, <2>1, <3>2
    <3> QED  BY <3>1, <3>2
  <2> QED  BY <2>1, <2>2
<1>5. UsedKeys \subseteq UsedKeys' /\ Derived \subseteq Derived'  BY <1>4, KeysGrow
<1>6. Grown  BY <1>5 DEF Grown
<1>7. CallInv(d, c)  BY DEF KeysInv, OpensInv
<1>8. FromUsedKeys(state[d]) /\ Unused(d, state[d].sendingChainKey) /\ SealedInv(d)
  BY DEF KeysInv, LiveInv
<1> HIDE DEF fresh
<1>9. FromUsedKeys(r.state)' /\ Unused(d, r.state.sendingChainKey)
  <2>1. CASE SameSending(state[d], r.state)
    BY <1>5, <1>8, <2>1 DEF SameSending, FromUsedKeys, Unused
  <2>2. CASE NeedsStep(state[d], c.rk, c.num) /\ Stepped(state[d], r.state, c.rk, fresh)
    <3> DEFINE recvd == DhRatchet(state[d].rootKey, state[d].sendingRatchetKey, c.rk)
               root  == DhRatchet(recvd, fresh, c.rk)
    <3>1. nextKey'[d] = nextKey[d] + 1  BY <1>2, <2>2 DEF TypeOK
    <3>2. fresh \in UsedKeys'  BY <1>3, <3>1 DEF UsedKeys, KeyOf, fresh
    <3>3. c.rk \in UsedKeys' /\ state[d].sendingRatchetKey \in UsedKeys'
          /\ state[d].rootKey \in Seq(SUBSET UsedKeys')
      BY <1>5, <1>7, <1>8 DEF CallInv, FromUsedKeys, Derived
    <3>4. recvd \in Seq(SUBSET UsedKeys')  BY <3>3, DhWithin
    <3>5. recvd \in RootKey  BY <1>3, DhType DEF SessionState
    <3> HIDE DEF recvd
    <3>6. root \in Seq(SUBSET UsedKeys')  BY <3>2, <3>3, <3>4, DhWithin
    <3>7. root \in Derived'  BY <3>6 DEF Derived
    <3>8. Unused(d, ChainFrom(root))  BY <1>3, <1>8, <3>5, FreshChainUnused DEF fresh
    <3>9. /\ r.state.rootKey = root /\ r.state.sendingChainKey = ChainFrom(root)
          /\ r.state.sendingRatchetKey = fresh /\ r.state.receivingRatchetPublicKey = c.rk
      BY <2>2 DEF Stepped, recvd
    <3> HIDE DEF root
    <3> QED  BY <3>2, <3>3, <3>7, <3>8, <3>9 DEF FromUsedKeys, ChainFrom
  <2>3. r \in FindMessageKey(state[d], c.rk, c.num, fresh)  BY DEF Found, fresh
  <2> HIDE DEF c
  <2>4. SameSending(state[d], r.state)
        \/ (NeedsStep(state[d], c.rk, c.num) /\ Stepped(state[d], r.state, c.rk, fresh))
    BY <1>3, <2>3, FindSending
  <2> QED  BY <2>1, <2>2, <2>4
<1>10. OpensInv(d)'
  <2> DEFINE called == [c EXCEPT !.draft = r.state, !.key = r.key]
  <2>1. opens'[d] = [opens[d] EXCEPT ![i] = called]  BY <1>1 DEF TypeOK
  <2>2. called.rk = c.rk /\ called.epochAtStart = c.epochAtStart /\ called.draft = r.state
    BY <1>3 DEF Call
  <2> HIDE DEF called, c
  <2>3. SUFFICES ASSUME NEW j \in DOMAIN opens'[d] PROVE CallInv(d, opens[d][j])'
    BY DEF OpensInv
  <2>4. CASE j = i
    <3>1. opens'[d][j] = called  BY <1>3, <2>1, <2>4
    <3> QED  BY <1>2, <1>5, <1>7, <1>9, <2>2, <3>1 DEF CallInv, FromUsedKeys, Unused, Waiting
  <2>5. CASE j # i
    <3>1. opens'[d][j] = opens[d][j] /\ j \in DOMAIN opens[d]  BY <1>3, <2>1, <2>5
    <3>2. CallInv(d, opens[d][j])  BY <3>1 DEF KeysInv, OpensInv
    <3> QED  BY <1>2, <1>5, <3>1, <3>2 DEF CallInv, FromUsedKeys, Unused, Waiting
  <2> QED  BY <2>4, <2>5
<1>11. ASSUME NEW e \in Device
       PROVE  LiveInv(e)' /\ SealsInv(e)' /\ SealedInv(e)' /\ (e # d => OpensInv(e)')
  <2>1. e # d => opens'[e] = opens[e]  BY <1>1 DEF TypeOK
  <2> QED  BY <1>2, <1>6, <2>1, Kept
<1>12. NetworkInv'  BY <1>2, <1>5 DEF KeysInv, NetworkInv
<1>13. NoMessageKeySealedTwice'  BY <1>2 DEF KeysInv, NoMessageKeySealedTwice
<1> QED  BY <1>10, <1>11, <1>12, <1>13 DEF KeysInv

(* The draft of a body that opened is adopted: whole while no send has     *)
(* bumped the epoch, without its sending half otherwise.                   *)
LEMMA KeysAdopt ==
  ASSUME TypeOK, TypeOK', KeysInv, NEW d \in Device, NEW i \in DOMAIN opens[d], OpenAdopt(d, i)
  PROVE  KeysInv'
<1> DEFINE c == opens[d][i]
<1>1. /\ UNCHANGED <<sendEpoch, seals, nextKey, network, sealed>>
      /\ state' = [state EXCEPT ![d] = Adopted(@, c.draft, c.epochAtStart # sendEpoch[d])]
      /\ opens' = [opens EXCEPT ![d] = Without(@, i)]
      /\ ~Waiting(c)
  BY DEF OpenAdopt
<1>2. UsedKeys' = UsedKeys /\ Derived' = Derived /\ Grown
  BY <1>1 DEF Grown, UsedKeys, Derived
<1>3. /\ c \in Call /\ c.draft \in SessionState /\ state[d] \in SessionState
      /\ opens[d] \in Seq(Call)
  BY <1>1, CallAt DEF TypeOK, Call, Waiting
<1>4. /\ FromUsedKeys(c.draft) /\ FromUsedKeys(state[d])
      /\ c.epochAtStart = sendEpoch[d] => Unused(d, c.draft.sendingChainKey)
      /\ Unused(d, state[d].sendingChainKey)
  BY <1>1 DEF KeysInv, LiveInv, OpensInv, CallInv
<1>5. LiveInv(d)'
  <2>1. CASE c.epochAtStart = sendEpoch[d]
    <3>1. state'[d] = c.draft  BY <1>1, <2>1 DEF Adopted, TypeOK
    <3> QED  BY <1>1, <1>2, <1>4, <2>1, <3>1 DEF LiveInv, FromUsedKeys, Unused
  <2>2. CASE c.epochAtStart # sendEpoch[d]
    <3> DEFINE half == Adopted(state[d], c.draft, TRUE)
    <3>1. state'[d] = half  BY <1>1, <2>2 DEF TypeOK
    <3>2. /\ half.rootKey = c.draft.rootKey
          /\ half.receivingRatchetPublicKey = c.draft.receivingRatchetPublicKey
          /\ half.sendingChainKey = state[d].sendingChainKey
          /\ half.sendingRatchetKey = state[d].sendingRatchetKey
      BY <1>3 DEF Adopted, SessionState
    <3> HIDE DEF half
    <3> QED  BY <1>1, <1>2, <1>4, <3>1, <3>2 DEF LiveInv, FromUsedKeys, Unused
  <2> QED  BY <2>1, <2>2
<1>6. ASSUME NEW e \in Device
      PROVE  SealsInv(e)' /\ OpensInv(e)' /\ SealedInv(e)' /\ (e # d => LiveInv(e)')
  <2>1. e # d => state'[e] = state[e] /\ opens'[e] = opens[e]  BY <1>1 DEF TypeOK
  <2>2. \A j \in DOMAIN opens'[e] : \E k \in DOMAIN opens[e] : opens'[e][j] = opens[e][k]
    <3>1. CASE e = d  BY <1>1, <1>3, <3>1, WithoutType DEF TypeOK
    <3>2. CASE e # d  BY <2>1, <3>2
    <3> QED  BY <3>1, <3>2
  <2> QED  BY <1>1, <1>2, <2>1, <2>2, Kept
<1>7. NetworkInv'  BY <1>1, <1>2 DEF KeysInv, NetworkInv
<1>8. NoMessageKeySealedTwice'  BY <1>1 DEF KeysInv, NoMessageKeySealedTwice
<1> QED  BY <1>5, <1>6, <1>7, <1>8 DEF KeysInv

(* A rekey points at a chain nobody has used; every draft and every capture *)
(* is stale from then on.                                                   *)
LEMMA KeysRekey ==
  ASSUME TypeOK, TypeOK', KeysInv, NEW d \in Device, IdleRekey(d)
  PROVE  KeysInv'
<1> DEFINE fresh == KeyOf(d, nextKey[d])
           peer  == state[d].receivingRatchetPublicKey
           root  == DhRatchet(state[d].rootKey, fresh, peer)
           after == IdleRekeyed(state[d], fresh)
<1>1. /\ state' = [state EXCEPT ![d] = after]
      /\ nextKey' = [nextKey EXCEPT ![d] = @ + 1]
      /\ sendEpoch' = [sendEpoch EXCEPT ![d] = @ + 1]
      /\ UNCHANGED <<seals, opens, network, sealed>>
      /\ seals[d] = {}
  BY DEF IdleRekey
<1>2. /\ state[d] \in SessionState /\ peer \in Keys /\ fresh \in Keys
      /\ nextKey[d] \in Nat /\ sendEpoch[d] \in Nat /\ state[d].rootKey \in RootKey
  BY FreshType DEF IdleRekey, HasPeerKey, TypeOK, SessionState
<1>3. \A e \in Device : nextKey'[e] >= nextKey[e]
  <2>1. nextKey \in [Device -> Nat] /\ nextKey' = [nextKey EXCEPT ![d] = @ + 1]
    BY <1>1 DEF TypeOK
  <2> HIDE DEF after, root, peer, fresh
  <2> QED  BY ONLY <2>1, d \in Device
<1>4. UsedKeys \subseteq UsedKeys' /\ Derived \subseteq Derived'  BY <1>3, KeysGrow
<1>5. Grown  BY <1>4 DEF Grown
<1>6. FromUsedKeys(state[d]) /\ SealedInv(d)  BY DEF KeysInv, LiveInv
<1> HIDE DEF fresh
<1>7. after.rootKey = root /\ after.sendingChainKey = ChainFrom(root)
      /\ after.sendingRatchetKey = fresh /\ after.receivingRatchetPublicKey = peer
  BY <1>2 DEF IdleRekeyed, SessionState
<1>8. Unused(d, ChainFrom(root))  BY <1>2, <1>6, FreshChainUnused DEF fresh
<1>9. fresh \in UsedKeys'
  <2>1. nextKey'[d] = nextKey[d] + 1  BY <1>1 DEF TypeOK
  <2> QED  BY <1>2, <2>1 DEF UsedKeys, KeyOf, fresh
<1>10. root \in Derived'
  <2>1. state[d].rootKey \in Seq(SUBSET UsedKeys') /\ peer \in UsedKeys'
    BY <1>2, <1>4, <1>6, NoneAssumption DEF FromUsedKeys, Derived
  <2> QED  BY <1>9, <2>1, DhWithin DEF Derived
<1>11. state'[d] = after /\ sendEpoch'[d] = sendEpoch[d] + 1  BY <1>1 DEF TypeOK
<1> HIDE DEF after, root
<1>12. LiveInv(d)'
  BY <1>1, <1>4, <1>6, <1>7, <1>8, <1>9, <1>10, <1>11
  DEF LiveInv, FromUsedKeys, Unused, ChainFrom
<1>13. SealsInv(d)'  BY <1>1 DEF SealsInv
<1>14. OpensInv(d)'
  <2>1. SUFFICES ASSUME NEW i \in DOMAIN opens[d] PROVE CallInv(d, opens[d][i])'
    BY <1>1 DEF OpensInv
  <2>2. CallInv(d, opens[d][i])  BY DEF KeysInv, OpensInv
  <2>3. opens[d][i].epochAtStart \in Nat  BY CallAt DEF Call
  <2> QED  BY <1>1, <1>2, <1>4, <1>11, <2>2, <2>3 DEF CallInv, FromUsedKeys, Waiting
<1>15. SealedInv(d)'  BY <1>1, <1>5, Kept
<1>16. ASSUME NEW e \in Device, e # d
       PROVE  LiveInv(e)' /\ SealsInv(e)' /\ OpensInv(e)' /\ SealedInv(e)'
  <2>1. state'[e] = state[e] /\ sendEpoch'[e] = sendEpoch[e]  BY <1>1, <1>16 DEF TypeOK
  <2> QED  BY <1>1, <1>5, <2>1, Kept
<1>17. NetworkInv'  BY <1>1, <1>4 DEF KeysInv, NetworkInv
<1>18. NoMessageKeySealedTwice'  BY <1>1 DEF KeysInv, NoMessageKeySealedTwice
<1> QED  BY <1>12, <1>13, <1>14, <1>15, <1>16, <1>17, <1>18 DEF KeysInv

(* The pointers stay where they are.  A device that was read back counts   *)
(* its epochs from zero, and has no draft and no capture from before.      *)
LEMMA KeysTrim ==
  ASSUME TypeOK, TypeOK', KeysInv, NEW d \in Device, Trim(d)
  PROVE  KeysInv'
<1>1. /\ Trimmed(state[d], state'[d])
      /\ \A e \in Device : e # d => state'[e] = state[e]
      /\ UNCHANGED <<seals, opens, nextKey, network, sealed>>
      /\ \/ sendEpoch' = sendEpoch
         \/ /\ sendEpoch' = [sendEpoch EXCEPT ![d] = 0]
            /\ seals[d] = {} /\ opens[d] = <<>>
  BY TrimEffect
<1>2. UsedKeys' = UsedKeys /\ Grown  BY <1>1 DEF Grown, UsedKeys, Derived
<1>3. LiveInv(d)'
  BY <1>1, <1>2 DEF KeysInv, LiveInv, FromUsedKeys, Unused, Trimmed, Grown
<1>4. \A e \in Device : e # d => LiveInv(e)'  BY <1>1, <1>2, Kept
<1>5. \A e \in Device : SealedInv(e)'  BY <1>1, <1>2, Kept
<1>6. ASSUME NEW e \in Device, sendEpoch'[e] = sendEpoch[e]
      PROVE  SealsInv(e)' /\ OpensInv(e)'
  BY <1>1, <1>2, <1>6, Kept
<1>7. ASSUME NEW e \in Device, sendEpoch'[e] # sendEpoch[e]
      PROVE  SealsInv(e)' /\ OpensInv(e)'
  <2>1. seals'[e] = {} /\ opens'[e] = <<>>  BY <1>1, <1>7 DEF TypeOK
  <2> QED  BY <2>1 DEF SealsInv, OpensInv
<1>8. NetworkInv' /\ NoMessageKeySealedTwice'
  BY <1>1, <1>2 DEF KeysInv, NetworkInv, NoMessageKeySealedTwice
<1> QED  BY <1>3, <1>4, <1>5, <1>6, <1>7, <1>8 DEF KeysInv

LEMMA KeysNext == TypeOK /\ TypeOK' /\ KeysInv /\ [Next]_vars => KeysInv'
<1> SUFFICES ASSUME TypeOK, TypeOK', KeysInv, [Next]_vars PROVE KeysInv'  OBVIOUS
<1>1. CASE UNCHANGED vars
  <2>1. UNCHANGED <<state, sendEpoch, seals, opens, nextKey, network, sealed>>
    BY <1>1 DEF vars
  <2>2. UsedKeys' = UsedKeys /\ Grown  BY <2>1 DEF Grown, UsedKeys, Derived
  <2>3. \A d \in Device : LiveInv(d)' /\ SealsInv(d)' /\ OpensInv(d)' /\ SealedInv(d)'
    BY <2>1, <2>2, Kept
  <2> QED  BY <2>1, <2>2, <2>3 DEF KeysInv, NetworkInv, NoMessageKeySealedTwice
<1>2. ASSUME NEW d \in Device, NEW i \in DOMAIN opens[d], Running(d, i)
      PROVE  KeysInv'
  BY <1>2, KeysQueue, KeysStart, KeysAdopt DEF Running
<1>3. CASE Next
  BY <1>2, <1>3, KeysEncrypt, KeysSettle, KeysQueue, KeysRekey, KeysTrim DEF Next, Trim
<1> QED  BY <1>1, <1>3

(* No device seals two messages under one message key, for any number of   *)
(* messages, of opens in flight, of failures and of rekeys.                *)
THEOREM MessageKeysAreUnique == Spec => []NoMessageKeySealedTwice
<1>1. KeysInv => NoMessageKeySealedTwice  BY DEF KeysInv
<1> QED  BY <1>1, TypeInit, TypeNext, KeysInit, KeysNext, PTL DEF Spec

-----------------------------------------------------------------------------
(* What the actions do, in the terms of the invariants below.              *)

(* The sending half of a state. *)
SameSendingHalf(s, t) ==
  /\ t.sendingChainKey = s.sendingChainKey
  /\ t.sendingRatchetKey = s.sendingRatchetKey
  /\ t.sendingMessageNumber = s.sendingMessageNumber
  /\ t.sentMessageKeys = s.sentMessageKeys

(* encryptMessage touches the sending half alone and captures what it has  *)
(* left there.                                                             *)
LEMMA EncryptEffect ==
  ASSUME TypeOK, NEW d \in Device, EncryptBegin(d)
  PROVE  \E seal \in Seal :
           /\ seals' = [seals EXCEPT ![d] = @ \cup {seal}]
           /\ sealed' = [sealed EXCEPT ![d] = Append(@, seal.body.key)]
           /\ \A e \in Device : e # d => state'[e] = state[e]
           /\ seal.body.from = d
           /\ seal.body.id = Len(sealed[d]) + 1
           /\ seal.body.key = state[d].sendingChainKey
           /\ seal.restore.sendingChainKey = state'[d].sendingChainKey
           /\ seal.restore.sentMessageKeys = state'[d].sentMessageKeys
           /\ state'[d].sendingChainKey = Advance(state[d].sendingChainKey, 1)
           /\ state'[d].sendingMessageNumber = state[d].sendingMessageNumber + 1
           /\ state'[d].sendingRatchetKey = state[d].sendingRatchetKey
           /\ state'[d].rootKey = state[d].rootKey
           /\ state'[d].previousSendingKeys = state[d].previousSendingKeys
           /\ SameReceiving(state[d], state'[d])
           /\ \A e \in state'[d].sentMessageKeys :
                e \in state[d].sentMessageKeys \/ e.key = seal.body.key
           /\ SentBounded(state[d].sentMessageKeys) => SentBounded(state'[d].sentMessageKeys)
<1> DEFINE key   == state[d].sendingChainKey
           moved == AdvanceSendingChain(state[d])
           num   == moved.sendingMessageNumber - 1
           after == RecordSentMessageKey(moved, num, key)
           body  == [from |-> d, id |-> Len(sealed[d]) + 1,
                     rk |-> state[d].sendingRatchetKey, num |-> num, key |-> key]
           capture == [sendingChainKey |-> after.sendingChainKey,
                       sendingMessageNumber |-> after.sendingMessageNumber,
                       sentMessageKeys |-> after.sentMessageKeys]
           seal  == [body |-> body, epoch |-> sendEpoch[d] + 1, restore |-> capture]
<1>1. /\ state' = [state EXCEPT ![d] = after]
      /\ seals' = [seals EXCEPT ![d] = @ \cup {seal}]
      /\ sealed' = [sealed EXCEPT ![d] = Append(@, key)]
  BY DEF EncryptBegin
<1>2. state'[d] = after  BY <1>1 DEF TypeOK
<1>3. /\ moved \in SessionState
      /\ moved.sentMessageKeys = state[d].sentMessageKeys
      /\ moved.sendingChainKey = Advance(key, 1)
      /\ moved.sendingMessageNumber = state[d].sendingMessageNumber + 1
      /\ moved.sendingRatchetKey = state[d].sendingRatchetKey
      /\ moved.rootKey = state[d].rootKey
      /\ moved.previousSendingKeys = state[d].previousSendingKeys
      /\ SameReceiving(state[d], moved)
  <2>1. state[d] \in SessionState  BY DEF TypeOK
  <2>2. moved \in SessionState  BY <2>1, AdvanceSendingType
  <2> QED  BY <2>1, <2>2 DEF AdvanceSendingChain, SessionState, SameReceiving
<1>4. key \in ChainKey /\ num \in Nat /\ after \in SessionState
      /\ state[d].sendingRatchetKey \in Keys
  BY EncryptTypes
<1> HIDE DEF moved, num
<1>5. /\ after.sendingChainKey = moved.sendingChainKey
      /\ after.sendingMessageNumber = moved.sendingMessageNumber
      /\ after.sendingRatchetKey = moved.sendingRatchetKey
      /\ after.rootKey = moved.rootKey
      /\ after.previousSendingKeys = moved.previousSendingKeys
      /\ SameReceiving(moved, after)
      /\ after.sentMessageKeys =
           Newest({e \in moved.sentMessageKeys : e.num # num}
                    \cup {[num |-> num, key |-> key]}, MaxSentKeys)
  BY <1>3 DEF RecordSentMessageKey, SessionState, SameReceiving
<1>6. \A e \in after.sentMessageKeys : e \in moved.sentMessageKeys \/ e.key = key
  BY <1>5, NewestSubset
<1>7. SentBounded(moved.sentMessageKeys) => SentBounded(after.sentMessageKeys)
  BY <1>3, <1>4, RecordBounded
<1> HIDE DEF key, after
<1>8. Len(sealed[d]) + 1 \in Nat /\ sendEpoch[d] + 1 \in Nat  BY LenProperties DEF TypeOK
<1>9. body \in Body /\ capture \in Restore  BY <1>4, <1>8 DEF Body, Restore, SessionState
<1>10. seal \in Seal  BY <1>8, <1>9 DEF Seal
<1>11. /\ seal.body.from = d /\ seal.body.id = Len(sealed[d]) + 1 /\ seal.body.key = key
       /\ seal.restore.sendingChainKey = after.sendingChainKey
       /\ seal.restore.sentMessageKeys = after.sentMessageKeys
  OBVIOUS
<1> HIDE DEF seal
<1>12. SameReceiving(state[d], after)  BY <1>3, <1>5 DEF SameReceiving
<1>13. \A e \in Device : e # d => state'[e] = state[e]  BY <1>1 DEF TypeOK
<1> WITNESS seal \in Seal
<1> QED
  BY <1>1, <1>2, <1>3, <1>5, <1>6, <1>7, <1>10, <1>11, <1>12, <1>13 DEF key

(* A seal that settles leaves the state alone or puts its capture back. *)
LEMMA SettleEffect ==
  ASSUME TypeOK, NEW d \in Device, SealOk(d) \/ SealFail(d)
  PROVE  \E s \in seals[d] :
           /\ seals' = [seals EXCEPT ![d] = @ \ {s}]
           /\ network' \subseteq network \cup {s.body}
           /\ \A e \in Device : e # d => state'[e] = state[e]
           /\ \/ state'[d] = state[d]
              \/ /\ state'[d].sendingChainKey = s.restore.sendingChainKey
                 /\ state'[d].sentMessageKeys = s.restore.sentMessageKeys
                 /\ state'[d].rootKey = state[d].rootKey
                 /\ state'[d].previousSendingKeys = state[d].previousSendingKeys
                 /\ SameReceiving(state[d], state'[d])
<1>1. CASE SealOk(d)
  <2>1. PICK s \in seals[d] : /\ seals' = [seals EXCEPT ![d] = @ \ {s}]
                              /\ network' = network \cup {s.body}
                              /\ state' = state
    BY <1>1 DEF SealOk
  <2> QED  BY <1>1, <2>1 DEF TypeOK
<1>2. CASE SealFail(d)
  <2>1. PICK s \in seals[d] : /\ seals' = [seals EXCEPT ![d] = @ \ {s}]
                              /\ state' = IF StillNewest(d, s)
                                          THEN [state EXCEPT ![d] = PutBack(@, s.restore)]
                                          ELSE state
    BY <1>2 DEF SealFail
  <2>2. network' = network  BY <1>2 DEF SealFail
  <2>3. state[d] \in SessionState  BY DEF TypeOK
  <2> DEFINE back == PutBack(state[d], s.restore)
  <2>4. /\ back.sendingChainKey = s.restore.sendingChainKey
        /\ back.sentMessageKeys = s.restore.sentMessageKeys
        /\ back.rootKey = state[d].rootKey
        /\ back.previousSendingKeys = state[d].previousSendingKeys
        /\ SameReceiving(state[d], back)
    BY <2>3 DEF PutBack, SessionState, SameReceiving
  <2> HIDE DEF back
  <2>5. CASE StillNewest(d, s)
    <3>1. state' = [state EXCEPT ![d] = back]  BY <2>1, <2>5 DEF back
    <3>2. state'[d] = back /\ \A e \in Device : e # d => state'[e] = state[e]
      BY <3>1 DEF TypeOK
    <3> QED  BY <2>1, <2>2, <2>4, <3>2
  <2>6. CASE ~StillNewest(d, s)  BY <2>1, <2>2, <2>6 DEF TypeOK
  <2> QED  BY <2>5, <2>6
<1> QED  BY <1>1, <1>2

(* A rekey replaces the sending half and keeps the receiving one. *)
LEMMA RekeyEffect ==
  ASSUME TypeOK, NEW d \in Device, IdleRekey(d)
  PROVE  \E pub \in Keys :
           /\ \A e \in Device : e # d => state'[e] = state[e]
           /\ state'[d].rootKey = DhRatchet(state[d].rootKey, KeyOf(d, nextKey[d]), pub)
           /\ state'[d].sendingChainKey = ChainFrom(state'[d].rootKey)
           /\ state'[d].sendingRatchetKey = KeyOf(d, nextKey[d])
           /\ state'[d].sendingMessageNumber = 0
           /\ state'[d].sentMessageKeys = {}
           /\ state'[d].previousSendingKeys
                \subseteq state[d].sentMessageKeys \cup state[d].previousSendingKeys
           /\ SameReceiving(state[d], state'[d])
<1> DEFINE fresh == KeyOf(d, nextKey[d])
           pub   == state[d].receivingRatchetPublicKey
           after == IdleRekeyed(state[d], fresh)
<1>1. state[d] \in SessionState /\ pub \in Keys
  BY DEF IdleRekey, HasPeerKey, TypeOK, SessionState
<1>2. state' = [state EXCEPT ![d] = after] /\ state'[d] = after
  BY DEF IdleRekey, TypeOK
<1>3. /\ after.rootKey = DhRatchet(state[d].rootKey, fresh, pub)
      /\ after.sendingChainKey = ChainFrom(DhRatchet(state[d].rootKey, fresh, pub))
      /\ after.sendingRatchetKey = fresh
      /\ after.sendingMessageNumber = 0
      /\ after.sentMessageKeys = {}
      /\ after.previousSendingKeys
           \subseteq state[d].sentMessageKeys \cup state[d].previousSendingKeys
      /\ SameReceiving(state[d], after)
  <2> HIDE DEF fresh
  <2> QED  BY <1>1 DEF IdleRekeyed, SessionState, SameReceiving
<1> HIDE DEF after
<1> QED  BY <1>1, <1>2, <1>3

(* A draft brings its receiving half; the sending half is the draft's or   *)
(* the live one.                                                           *)
LEMMA AdoptEffect ==
  ASSUME NEW live \in SessionState, NEW draft \in SessionState, NEW overtaken \in BOOLEAN
  PROVE  /\ Adopted(live, draft, overtaken).rootKey = draft.rootKey
         /\ SameReceiving(draft, Adopted(live, draft, overtaken))
         /\ Adopted(live, draft, overtaken).previousSendingKeys = draft.previousSendingKeys
         /\ \/ SameSendingHalf(draft, Adopted(live, draft, overtaken))
            \/ SameSendingHalf(live, Adopted(live, draft, overtaken))
BY DEF Adopted, SessionState, SameReceiving, SameSendingHalf

-----------------------------------------------------------------------------
(* The lock: the calls in flight, and the one that has its draft.          *)

(* The calls that hold a draft, and the bodies of all. *)
Drafted(d) == {opens[d][i] : i \in {j \in DOMAIN opens[d] : ~Waiting(opens[d][j])}}

Asked(d) == {opens[d][i].body : i \in DOMAIN opens[d]}

(* Only the call at the head of the queue has its draft. *)
LockInv == \A d \in Device : \A i \in DOMAIN opens[d] : ~Waiting(opens[d][i]) => i = 1

LEMMA QueueUnchanged ==
  ASSUME NEW e \in Device, opens'[e] = opens[e]
  PROVE  Drafted(e)' = Drafted(e) /\ Asked(e)' = Asked(e)
BY DEF Drafted, Asked, Waiting

LEMMA CallEffect ==
  ASSUME TypeOK, LockInv, NEW d \in Device, NEW body \in network, NEW header \in network,
         OpenCall(d, body, header)
  PROVE  /\ LockInv'
         /\ \A e \in Device : Drafted(e)' \subseteq Drafted(e)
         /\ \A e \in Device : e # d => Asked(e)' = Asked(e)
         /\ Asked(d)' \subseteq Asked(d) \cup {body}
<1> DEFINE call == [body |-> body, rk |-> header.rk, num |-> header.num,
                    epochAtStart |-> sendEpoch[d], draft |-> None, key |-> None]
<1>1. opens' = [opens EXCEPT ![d] = Append(@, call)]  BY DEF OpenCall
<1>2. call \in Call /\ Waiting(call) /\ call.body = body  BY DEF TypeOK, Body, Call, Waiting
<1> HIDE DEF call
<1>3. opens'[d] = Append(opens[d], call) /\ opens[d] \in Seq(Call)  BY <1>1 DEF TypeOK
<1>4. \A e \in Device : e # d => opens'[e] = opens[e]  BY <1>1 DEF TypeOK
<1>5. \A i \in DOMAIN opens'[d] :
        opens'[d][i] = call \/ (i \in DOMAIN opens[d] /\ opens'[d][i] = opens[d][i])
  BY <1>2, <1>3, AppendProperties, LenProperties
<1>6. Drafted(d)' \subseteq Drafted(d) /\ Asked(d)' \subseteq Asked(d) \cup {body}
  BY <1>2, <1>5 DEF Drafted, Asked, Waiting
<1>7. LockInv'  BY <1>2, <1>4, <1>5 DEF LockInv, Waiting
<1> QED  BY <1>4, <1>6, <1>7, QueueUnchanged

LEMMA StartEffect ==
  ASSUME TypeOK, LockInv, NEW d \in Device, NEW i \in DOMAIN opens[d], OpenStart(d, i)
  PROVE  /\ LockInv'
         /\ \A e \in Device : Asked(e)' = Asked(e)
         /\ \A e \in Device : e # d => Drafted(e)' = Drafted(e)
         /\ Drafted(d) = {}
         /\ \E r \in Found(d, opens[d][i]) : \A c \in Drafted(d)' :
              /\ c.draft = r.state /\ c.key = r.key
              /\ c.body = opens[d][i].body /\ c.rk = opens[d][i].rk
         /\ \A j \in DOMAIN opens'[d] :
              /\ j \in DOMAIN opens[d]
              /\ opens'[d][j].rk = opens[d][j].rk /\ opens'[d][j].num = opens[d][j].num
<1> DEFINE c == opens[d][i]
<1>1. PICK r \in Found(d, c) :
        opens' = [opens EXCEPT ![d][i] = [c EXCEPT !.draft = r.state, !.key = r.key]]
  BY DEF OpenStart
<1>2. i = 1 /\ Waiting(c)  BY DEF OpenStart, MyTurn
<1> DEFINE called == [c EXCEPT !.draft = r.state, !.key = r.key]
<1>3. c \in Call /\ opens[d] \in Seq(Call) /\ i \in 1 .. Len(opens[d])  BY CallAt
<1>4. /\ called.draft = r.state /\ called.key = r.key /\ called.body = c.body
      /\ called.rk = c.rk /\ called.num = c.num
  BY <1>3 DEF Call
<1>5. opens'[d] = [opens[d] EXCEPT ![i] = called]  BY <1>1 DEF TypeOK
<1>6. \A e \in Device : e # d => opens'[e] = opens[e]  BY <1>1 DEF TypeOK
<1> HIDE DEF called, c
<1>7. /\ DOMAIN opens'[d] = DOMAIN opens[d]
      /\ opens'[d][i] = called
      /\ \A j \in DOMAIN opens[d] : j # i => opens'[d][j] = opens[d][j]
  BY <1>3, <1>5
<1>8. \A j \in DOMAIN opens[d] : Waiting(opens[d][j])
  BY <1>2 DEF LockInv, c
<1>9. Drafted(d) = {}  BY <1>8 DEF Drafted
<1>10. \A x \in Drafted(d)' : x = called  BY <1>7, <1>8 DEF Drafted, Waiting
<1>11. Asked(d)' = Asked(d)
  <2>1. \A j \in DOMAIN opens[d] : opens'[d][j].body = opens[d][j].body
    BY <1>4, <1>7 DEF c
  <2> QED  BY <1>7, <2>1 DEF Asked
<1>12. LockInv'  BY <1>2, <1>6, <1>7, <1>8 DEF LockInv, Waiting
<1>13. \A j \in DOMAIN opens'[d] :
         /\ j \in DOMAIN opens[d]
         /\ opens'[d][j].rk = opens[d][j].rk /\ opens'[d][j].num = opens[d][j].num
  BY <1>4, <1>7 DEF c
<1>14. \A x \in Drafted(d)' : /\ x.draft = r.state /\ x.key = r.key
                              /\ x.body = opens[d][i].body /\ x.rk = opens[d][i].rk
  BY <1>4, <1>10 DEF c
<1> QED
  BY <1>6, <1>9, <1>11, <1>12, <1>13, <1>14, QueueUnchanged DEF c

LEMMA DoneEffect ==
  ASSUME TypeOK, LockInv, NEW d \in Device, NEW i \in DOMAIN opens[d],
         OpenNoKey(d, i) \/ OpenAdopt(d, i) \/ OpenReject(d, i)
  PROVE  /\ LockInv'
         /\ \A e \in Device : Asked(e)' \subseteq Asked(e)
         /\ \A e \in Device : e # d => Drafted(e)' = Drafted(e)
         /\ Drafted(d)' = {}
<1>1. i = 1  BY DEF OpenNoKey, OpenAdopt, OpenReject, MyTurn, LockInv
<1>2. opens' = [opens EXCEPT ![d] = Without(@, i)]
  BY DEF OpenNoKey, OpenAdopt, OpenReject
<1>3. /\ opens'[d] = Without(opens[d], 1) /\ opens[d] \in Seq(Call)
      /\ \A e \in Device : e # d => opens'[e] = opens[e]
  BY <1>1, <1>2 DEF TypeOK
<1>4. Len(opens[d]) - 1 \in Nat /\ DOMAIN opens[d] = 1 .. (Len(opens[d]) - 1) + 1
  BY <1>3, LenProperties
<1>5. \A j \in DOMAIN opens'[d] : /\ j + 1 \in DOMAIN opens[d] /\ j + 1 # 1
                                  /\ opens'[d][j] = opens[d][j + 1]
  <2>1. DOMAIN opens'[d] = 1 .. Len(opens[d]) - 1  BY <1>3 DEF Without
  <2>2. \A j \in 1 .. Len(opens[d]) - 1 : j + 1 \in DOMAIN opens[d] /\ j + 1 # 1 /\ ~(j < 1)
    BY <1>4
  <2> QED  BY <1>3, <2>1, <2>2 DEF Without
<1>6. \A j \in DOMAIN opens'[d] : Waiting(opens'[d][j])  BY <1>5 DEF LockInv
<1>7. Drafted(d)' = {}  BY <1>6 DEF Drafted, Waiting
<1>8. Asked(d)' \subseteq Asked(d)  BY <1>5 DEF Asked
<1>9. LockInv'  BY <1>3, <1>6 DEF LockInv, Waiting
<1> QED  BY <1>3, <1>7, <1>8, <1>9, QueueUnchanged

LEMMA LockInit == Init => LockInv
<1> SUFFICES ASSUME Init PROVE LockInv  OBVIOUS
<1>1. \A d \in Device : opens[d] = <<>>  BY DEF Init
<1> QED  BY <1>1 DEF LockInv

LEMMA LockNext == TypeOK /\ LockInv /\ [Next]_vars => LockInv'
<1> SUFFICES ASSUME TypeOK, LockInv, [Next]_vars PROVE LockInv'  OBVIOUS
<1>1. CASE opens' = opens  BY <1>1 DEF LockInv, Waiting
<1>2. ASSUME NEW d \in Device, NEW i \in DOMAIN opens[d], Running(d, i)
      PROVE  LockInv'
  BY <1>2, StartEffect, DoneEffect DEF Running
<1>3. ASSUME NEW d \in Device,
             EncryptBegin(d) \/ SealOk(d) \/ SealFail(d) \/ IdleRekey(d) \/ Trim(d)
      PROVE  opens' = opens
  BY <1>3 DEF EncryptBegin, SealOk, SealFail, IdleRekey, Trim, PruneForQuota, Reload
<1>4. CASE UNCHANGED vars  BY <1>1, <1>4 DEF vars
<1>5. CASE Next  BY <1>1, <1>2, <1>3, <1>5, CallEffect DEF Next, Trim
<1> QED  BY <1>4, <1>5

-----------------------------------------------------------------------------
(* A header names the chain its key belongs to.                            *)

Names(s) ==
  LET c == s.sendingChainKey.chain
  IN  /\ s.sendingChainKey.pos = s.sendingMessageNumber
      /\ IF c = HandshakeRoot THEN s.sendingRatchetKey = KeyOf(Initiator, 0)
         ELSE s.sendingRatchetKey \in c[Len(c)]

(* Until a seal fails, of the live state and of every draft. *)
NamesInv ==
  sealFailures = 0 => \A d \in Device :
    /\ Names(state[d])
    /\ \A c \in Drafted(d) : Names(c.draft)

LEMMA NamesKept ==
  ASSUME NEW s, NEW t, SameSendingHalf(s, t), Names(s)
  PROVE  Names(t)
BY DEF SameSendingHalf, Names

(* A chain derived with a key pair is named by it. *)
LEMMA NamesFresh ==
  ASSUME NEW root \in RootKey, NEW fresh \in Keys, NEW pub \in Keys, NEW t,
         t.sendingChainKey = ChainFrom(DhRatchet(root, fresh, pub)),
         t.sendingMessageNumber = 0, t.sendingRatchetKey = fresh
  PROVE  Names(t)
<1> DEFINE c == DhRatchet(root, fresh, pub)
<1>1. Len(c) \in 1 .. Len(c) /\ c[Len(c)] = {fresh, pub}  BY DhLast
<1> HIDE DEF c
<1>2. c # HandshakeRoot  BY <1>1 DEF HandshakeRoot
<1>3. t.sendingChainKey.chain = c /\ t.sendingChainKey.pos = 0  BY DEF ChainFrom, c
<1> QED  BY <1>1, <1>2, <1>3 DEF Names

LEMMA NamesInit == Init => NamesInv
<1> SUFFICES ASSUME Init, NEW d \in Device
             PROVE  Names(state[d]) /\ Drafted(d) = {}
  BY DEF NamesInv
<1>1. Drafted(d) = {}  BY DEF Init, Drafted
<1>2. CASE d = Initiator
  <2>1. state[d] = InitiatorState(KeyOf(Initiator, 0))  BY <1>2 DEF Init
  <2> QED
    BY <1>1, <1>2, <2>1 DEF InitiatorState, FreshState, ChainFrom, HandshakeRoot, Names
<1>3. CASE d = Responder
  <2> DEFINE fresh == KeyOf(Responder, 0)
             root == DhRatchet(HandshakeRoot, fresh, KeyOf(Initiator, 0))
             t == ResponderState(fresh, KeyOf(Initiator, 0))
  <2>1. state[d] = t  BY <1>3, DeviceAssumption DEF Init
  <2>2. /\ t.sendingChainKey = ChainFrom(root)
        /\ t.sendingMessageNumber = 0 /\ t.sendingRatchetKey = fresh
    BY DEF ResponderState, FreshState
  <2>3. HandshakeRoot \in RootKey /\ fresh \in Keys /\ KeyOf(Initiator, 0) \in Keys
    BY EmptySeq DEF HandshakeRoot, RootKey, KeyOf, Keys, Device
  <2> HIDE DEF t, fresh
  <2> QED  BY <1>1, <2>1, <2>2, <2>3, NamesFresh
<1> QED  BY <1>2, <1>3 DEF Device

(* What most steps leave alone.                                            *)
LEMMA CountersStep ==
  ASSUME [Next]_vars
  PROVE  /\ limits' = limits
         /\ (sealFailures' = sealFailures \/ sealFailures' = sealFailures + 1)
         /\ (sealed' = sealed \/ \E d \in Device : EncryptBegin(d))
<1> DEFINE Now == /\ limits' = limits
                  /\ (sealFailures' = sealFailures \/ sealFailures' = sealFailures + 1)
                  /\ (sealed' = sealed \/ \E d \in Device : EncryptBegin(d))
<1>1. ASSUME NEW d \in Device, EncryptBegin(d) PROVE Now  BY <1>1 DEF EncryptBegin
<1>2. ASSUME NEW d \in Device, SealOk(d) \/ SealFail(d) PROVE Now  BY <1>2 DEF SealOk, SealFail
<1>3. ASSUME NEW d \in Device, IdleRekey(d) \/ PruneForQuota(d) \/ Reload(d) PROVE Now
  BY <1>3 DEF IdleRekey, PruneForQuota, Reload
<1>4. ASSUME NEW d \in Device, NEW body, NEW header, OpenCall(d, body, header) PROVE Now
  BY <1>4 DEF OpenCall
<1>5. ASSUME NEW d \in Device, NEW i, Running(d, i) PROVE Now
  <2>1. CASE OpenStart(d, i)  BY <2>1 DEF OpenStart
  <2>2. CASE OpenNoKey(d, i)  BY <2>2 DEF OpenNoKey
  <2>3. CASE OpenAdopt(d, i)  BY <2>3 DEF OpenAdopt
  <2>4. CASE OpenReject(d, i)  BY <2>4 DEF OpenReject
  <2> QED  BY <1>5, <2>1, <2>2, <2>3, <2>4 DEF Running
<1>6. CASE UNCHANGED vars  BY <1>6 DEF vars
<1>7. CASE Next
  <2>1. PICK d \in Device : \/ EncryptBegin(d) \/ SealOk(d) \/ SealFail(d)
                            \/ IdleRekey(d) \/ PruneForQuota(d) \/ Reload(d)
                            \/ \E body, header \in network : OpenCall(d, body, header)
                            \/ \E i \in DOMAIN opens[d] : Running(d, i)
    BY <1>7 DEF Next
  <2> HIDE DEF Now
  <2>2. Now  BY <1>1, <1>2, <1>3, <1>4, <1>5, <2>1
  <2> QED  BY <2>2 DEF Now
<1> QED  BY <1>6, <1>7

LEMMA NamesNext == TypeOK /\ LockInv /\ NamesInv /\ [Next]_vars => NamesInv'
<1> SUFFICES ASSUME TypeOK, LockInv, NamesInv, [Next]_vars, sealFailures' = 0,
                    NEW e \in Device
             PROVE  Names(state'[e]) /\ \A c \in Drafted(e)' : Names(c.draft)
  BY DEF NamesInv
<1>1. sealFailures = 0
  <2>1. sealFailures' = sealFailures \/ sealFailures' = sealFailures + 1
    BY CountersStep
  <2>2. sealFailures \in Nat /\ sealFailures' = 0  BY DEF TypeOK
  <2> QED  BY <2>1, <2>2
<1>2. Names(state[e]) /\ \A c \in Drafted(e) : Names(c.draft)  BY <1>1 DEF NamesInv
<1>3. ASSUME state'[e] = state[e], Drafted(e)' \subseteq Drafted(e)
      PROVE  Names(state'[e]) /\ \A c \in Drafted(e)' : Names(c.draft)
  BY <1>2, <1>3
<1>4. CASE UNCHANGED vars  BY <1>3, <1>4, QueueUnchanged DEF vars
<1>5. ASSUME NEW d \in Device, EncryptBegin(d)
      PROVE  Names(state'[e]) /\ \A c \in Drafted(e)' : Names(c.draft)
  <2>1. Drafted(e)' = Drafted(e)  BY <1>5, QueueUnchanged DEF EncryptBegin
  <2>2. /\ \A x \in Device : x # d => state'[x] = state[x]
        /\ state'[d].sendingChainKey = Advance(state[d].sendingChainKey, 1)
        /\ state'[d].sendingMessageNumber = state[d].sendingMessageNumber + 1
        /\ state'[d].sendingRatchetKey = state[d].sendingRatchetKey
    BY <1>5, EncryptEffect
  <2>3. CASE e = d  BY <1>2, <2>1, <2>2, <2>3 DEF Names, Advance
  <2>4. CASE e # d
    <3>1. state'[e] = state[e]  BY <2>2, <2>4
    <3> QED  BY <1>3, <2>1, <3>1
  <2> QED  BY <2>3, <2>4
<1>6. ASSUME NEW d \in Device, SealOk(d) \/ SealFail(d)
      PROVE  Names(state'[e]) /\ \A c \in Drafted(e)' : Names(c.draft)
  <2>1. SealOk(d)  BY <1>1, <1>6 DEF SealFail
  <2> QED  BY <1>3, <2>1, QueueUnchanged DEF SealOk
<1>7. ASSUME NEW d \in Device, IdleRekey(d)
      PROVE  Names(state'[e]) /\ \A c \in Drafted(e)' : Names(c.draft)
  <2>1. Drafted(e)' = Drafted(e)  BY <1>7, QueueUnchanged DEF IdleRekey
  <2>2. PICK pub \in Keys :
          /\ \A x \in Device : x # d => state'[x] = state[x]
          /\ state'[d].rootKey = DhRatchet(state[d].rootKey, KeyOf(d, nextKey[d]), pub)
          /\ state'[d].sendingChainKey = ChainFrom(state'[d].rootKey)
          /\ state'[d].sendingRatchetKey = KeyOf(d, nextKey[d])
          /\ state'[d].sendingMessageNumber = 0
    BY <1>7, RekeyEffect
  <2>3. state[d].rootKey \in RootKey /\ KeyOf(d, nextKey[d]) \in Keys
    BY FreshType DEF TypeOK, SessionState
  <2>4. CASE e = d
    <3>1. Names(state'[d])  BY <2>2, <2>3, NamesFresh
    <3> QED  BY <1>2, <2>1, <2>4, <3>1
  <2>5. CASE e # d
    <3>1. state'[e] = state[e]  BY <2>2, <2>5
    <3> QED  BY <1>3, <2>1, <3>1
  <2> QED  BY <2>4, <2>5
<1>8. ASSUME NEW d \in Device, NEW body \in network, NEW header \in network,
             OpenCall(d, body, header)
      PROVE  Names(state'[e]) /\ \A c \in Drafted(e)' : Names(c.draft)
  <2>1. state' = state  BY <1>8 DEF OpenCall
  <2> QED  BY <1>3, <1>8, <2>1, CallEffect
<1>9. ASSUME NEW d \in Device, NEW i \in DOMAIN opens[d], OpenNoKey(d, i) \/ OpenReject(d, i)
      PROVE  Names(state'[e]) /\ \A c \in Drafted(e)' : Names(c.draft)
  <2>1. state' = state  BY <1>9 DEF OpenNoKey, OpenReject
  <2>2. Drafted(e)' \subseteq Drafted(e)  BY <1>9, DoneEffect
  <2> QED  BY <1>3, <2>1, <2>2
<1>10. ASSUME NEW d \in Device, NEW i \in DOMAIN opens[d], OpenStart(d, i)
       PROVE  Names(state'[e]) /\ \A c \in Drafted(e)' : Names(c.draft)
  <2>1. state' = state  BY <1>10 DEF OpenStart
  <2>2. CASE e # d
    <3>1. Drafted(e)' = Drafted(e)  BY <1>10, <2>2, StartEffect
    <3> QED  BY <1>3, <2>1, <3>1
  <2>3. CASE e = d
    <3> DEFINE call == opens[d][i]
               fresh == KeyOf(d, nextKey[d])
    <3>1. PICK r \in Found(d, call) : \A c \in Drafted(d)' : c.draft = r.state
      BY <1>10, StartEffect
    <3>2. /\ state[d] \in SessionState /\ call.rk \in Keys /\ call.num \in Nat /\ fresh \in Keys
      BY CallAt, FreshType DEF TypeOK, Call
    <3>3. r \in FindMessageKey(state[d], call.rk, call.num, fresh)  BY DEF Found
    <3> HIDE DEF call, fresh
    <3>4. \/ SameSending(state[d], r.state)
          \/ Stepped(state[d], r.state, call.rk, fresh)
      BY <3>2, <3>3, FindSending
    <3>5. CASE SameSending(state[d], r.state)
      BY <1>2, <2>1, <2>3, <3>1, <3>5 DEF SameSending, Names
    <3>6. CASE Stepped(state[d], r.state, call.rk, fresh)
      <4> DEFINE recvd == DhRatchet(state[d].rootKey, state[d].sendingRatchetKey, call.rk)
      <4>1. recvd \in RootKey  BY <3>2, DhType DEF SessionState
      <4>2. /\ r.state.sendingChainKey = ChainFrom(DhRatchet(recvd, fresh, call.rk))
            /\ r.state.sendingMessageNumber = 0 /\ r.state.sendingRatchetKey = fresh
        BY <3>6 DEF Stepped
      <4> HIDE DEF recvd
      <4>3. Names(r.state)  BY <3>2, <4>1, <4>2, NamesFresh
      <4> QED  BY <1>2, <2>1, <2>3, <3>1, <4>3
    <3> QED  BY <3>4, <3>5, <3>6
  <2> QED  BY <2>2, <2>3
<1>11. ASSUME NEW d \in Device, NEW i \in DOMAIN opens[d], OpenAdopt(d, i)
       PROVE  Names(state'[e]) /\ \A c \in Drafted(e)' : Names(c.draft)
  <2> DEFINE c == opens[d][i]
             after == Adopted(state[d], c.draft, c.epochAtStart # sendEpoch[d])
  <2>1. state' = [state EXCEPT ![d] = after] /\ ~Waiting(c)  BY <1>11 DEF OpenAdopt
  <2>2. CASE e # d
    <3>1. Drafted(e)' = Drafted(e)  BY <1>11, <2>2, DoneEffect
    <3>2. state'[e] = state[e]  BY <2>1, <2>2 DEF TypeOK
    <3> QED  BY <1>3, <3>1, <3>2
  <2>3. CASE e = d
    <3>1. Drafted(d)' = {}  BY <1>11, DoneEffect
    <3>2. c \in Drafted(d)  BY <2>1 DEF Drafted
    <3>3. c.draft \in SessionState /\ state[d] \in SessionState
      BY <2>1, CallAt DEF Waiting, Call, TypeOK
    <3>4. state'[d] = after  BY <2>1 DEF TypeOK
    <3>5. SameSendingHalf(c.draft, after) \/ SameSendingHalf(state[d], after)
      BY <3>3, AdoptEffect
    <3> HIDE DEF c, after
    <3>6. Names(after)  BY <1>2, <2>3, <3>2, <3>5, NamesKept
    <3> QED  BY <2>3, <3>1, <3>4, <3>6
  <2> QED  BY <2>2, <2>3
<1>12. ASSUME NEW d \in Device, Trim(d)
       PROVE  Names(state'[e]) /\ \A c \in Drafted(e)' : Names(c.draft)
  <2>1. Drafted(e)' = Drafted(e)  BY <1>12, TrimEffect, QueueUnchanged
  <2>2. CASE e = d
    <3>1. Trimmed(state[d], state'[d])  BY <1>12, TrimEffect
    <3>2. Names(state'[d])  BY <1>2, <2>2, <3>1 DEF Names, Trimmed
    <3> QED  BY <1>2, <2>1, <2>2, <3>2
  <2>3. CASE e # d
    <3>1. state'[e] = state[e]  BY <1>12, <2>3, TrimEffect
    <3> QED  BY <1>3, <2>1, <3>1
  <2> QED  BY <2>2, <2>3
<1>13. CASE Next
  BY <1>5, <1>6, <1>7, <1>8, <1>9, <1>10, <1>11, <1>12, <1>13 DEF Next, Running, Trim
<1> QED  BY <1>4, <1>13

(* Until a seal fails, the header a send would announce is that of the key *)
(* it would use, for every bound, however opens and rekeys interleave with *)
(* sends.                                                                  *)
THEOREM HeadersNameTheirChain == Spec => []HeaderNamesChain
<1>1. NamesInv => HeaderNamesChain  BY DEF NamesInv, HeaderNamesChain, Names
<1> QED
  BY <1>1, TypeInit, TypeNext, LockInit, LockNext, NamesInit, NamesNext, PTL DEF Spec

-----------------------------------------------------------------------------
(* The bodies and the keys they were sealed with.                          *)

Known(b) == b.id \in DOMAIN sealed[b.from] /\ sealed[b.from][b.id] = b.key

(* A body is released once, under the id and with the key its writer       *)
(* recorded; what is asked for and what was opened has been released.      *)
BodiesInv ==
  /\ \A b \in network : Known(b)
  /\ \A d \in Device : \A s \in seals[d] :
       /\ s.body.from = d
       /\ Known(s.body)
       /\ \A b \in network : b.from = d => b.id # s.body.id
       /\ \A t \in seals[d] : t.body.id = s.body.id => t = s
  /\ \A d \in Device : \A b \in Asked(d) : b \in network /\ b.from = Peer(d)
  /\ \A d \in Device : \A i \in DOMAIN opened[d] :
       \E b \in network : b.from = Peer(d) /\ b.id = opened[d][i]

(* The bounds of a run are never exceeded. *)
LimitsInv ==
  /\ limits \in Scenario
  /\ \A d \in Device : Len(sealed[d]) <= limits.sends[d]

LEMMA PeerType == \A d \in Device : Peer(d) \in Device /\ Peer(d) # d /\ Peer(Peer(d)) = d
BY DeviceAssumption DEF Device, Peer

(* What a device sealed stays sealed. *)
LEMMA SealedGrows ==
  ASSUME TypeOK, [Next]_vars, NEW d \in Device
  PROVE  \A i \in DOMAIN sealed[d] : i \in DOMAIN sealed'[d] /\ sealed'[d][i] = sealed[d][i]
<1>1. CASE sealed' = sealed  BY <1>1
<1>2. CASE \E e \in Device : EncryptBegin(e)
  <2>1. PICK e \in Device : EncryptBegin(e)  BY <1>2
  <2>2. PICK seal \in Seal : sealed' = [sealed EXCEPT ![e] = Append(@, seal.body.key)]
    BY <2>1, EncryptEffect
  <2>3. CASE e = d
    <3>1. sealed[d] \in Seq(ChainKey) /\ seal.body.key \in ChainKey
      BY DEF TypeOK, Seal, Body
    <3>2. sealed'[d] = Append(sealed[d], seal.body.key)  BY <2>2, <2>3 DEF TypeOK
    <3> QED  BY <3>1, <3>2, AppendProperties, LenProperties
  <2>4. CASE e # d
    <3>1. sealed'[d] = sealed[d]  BY <2>2, <2>4 DEF TypeOK
    <3> QED  BY <3>1
  <2> QED  BY <2>3, <2>4
<1>3. CASE Next /\ ~\E e \in Device : EncryptBegin(e)
  <2>1. sealed' = sealed  BY <1>3, CountersStep
  <2> QED  BY <1>1, <2>1
<1>4. CASE UNCHANGED vars  BY <1>1, <1>4 DEF vars
<1> QED  BY <1>2, <1>3, <1>4

LEMMA BodiesInit == Init => BodiesInv /\ LimitsInv
<1> SUFFICES ASSUME Init PROVE BodiesInv /\ LimitsInv  OBVIOUS
<1>1. /\ network = {} /\ limits \in Scenario
      /\ \A d \in Device : /\ seals[d] = {} /\ opens[d] = <<>>
                           /\ opened[d] = <<>> /\ sealed[d] = <<>>
  BY DEF Init
<1>2. \A d \in Device : Asked(d) = {}  BY <1>1 DEF Asked
<1>3. \A d \in Device : Len(sealed[d]) = 0 /\ limits.sends[d] \in Nat
  BY <1>1, SessionBoundsAssumption DEF Limits
<1> QED  BY <1>1, <1>2, <1>3 DEF BodiesInv, LimitsInv

LEMMA LimitsNext == TypeOK /\ LimitsInv /\ [Next]_vars => LimitsInv'
<1> SUFFICES ASSUME TypeOK, LimitsInv, [Next]_vars PROVE LimitsInv'  OBVIOUS
<1>1. limits' = limits  BY CountersStep
<1>2. CASE sealed' = sealed  BY <1>1, <1>2 DEF LimitsInv
<1>3. ASSUME NEW d \in Device, EncryptBegin(d) PROVE LimitsInv'
  <2>1. sealed' = [sealed EXCEPT ![d] = Append(@, state[d].sendingChainKey)]
        /\ Len(sealed[d]) < limits.sends[d]
    BY <1>3 DEF EncryptBegin
  <2>2. sealed[d] \in Seq(ChainKey) /\ state[d].sendingChainKey \in ChainKey
    BY DEF TypeOK, SessionState
  <2>3. Len(sealed'[d]) = Len(sealed[d]) + 1 /\ Len(sealed[d]) \in Nat
    BY <2>1, <2>2, AppendProperties, LenProperties DEF TypeOK
  <2>4. limits.sends[d] \in Nat  BY SessionBoundsAssumption DEF LimitsInv, Limits
  <2>5. \A e \in Device : e # d => sealed'[e] = sealed[e]  BY <2>1 DEF TypeOK
  <2> QED  BY <1>1, <2>1, <2>3, <2>4, <2>5 DEF LimitsInv
<1>4. CASE UNCHANGED vars  BY <1>2, <1>4 DEF vars
<1>5. CASE Next /\ ~\E e \in Device : EncryptBegin(e)
  <2>1. sealed' = sealed  BY <1>5, CountersStep
  <2> QED  BY <1>2, <2>1
<1> QED  BY <1>3, <1>4, <1>5

LEMMA KnownKept ==
  ASSUME TypeOK, [Next]_vars, NEW b \in Body, Known(b)
  PROVE  Known(b)'
BY SealedGrows DEF Known, Body

(* What a step that neither seals nor releases leaves of the invariant. *)
LEMMA BodiesKept ==
  ASSUME TypeOK, BodiesInv, [Next]_vars, seals' = seals, network' = network,
         \A d \in Device : \A b \in Asked(d)' : b \in network /\ b.from = Peer(d),
         \A d \in Device : \A i \in DOMAIN opened'[d] :
           \E b \in network : b.from = Peer(d) /\ b.id = opened'[d][i]
  PROVE  BodiesInv'
<1>1. \A b \in network : Known(b)'  BY KnownKept DEF BodiesInv, TypeOK
<1>2. ASSUME NEW d \in Device, NEW s \in seals[d] PROVE Known(s.body)'
  <2>1. s.body \in Body  BY DEF TypeOK, Seal
  <2> QED  BY <2>1, KnownKept DEF BodiesInv
<1> QED  BY <1>1, <1>2 DEF BodiesInv

LEMMA BodiesNext == TypeOK /\ LockInv /\ BodiesInv /\ [Next]_vars => BodiesInv'
<1> SUFFICES ASSUME TypeOK, LockInv, BodiesInv, [Next]_vars PROVE BodiesInv'  OBVIOUS
<1>1. ASSUME seals' = seals, network' = network, opened' = opened,
             \A d \in Device : Asked(d)' \subseteq Asked(d)
      PROVE  BodiesInv'
  BY <1>1, BodiesKept DEF BodiesInv
<1>2. CASE UNCHANGED vars  BY <1>1, <1>2, QueueUnchanged DEF vars
<1>3. ASSUME NEW d \in Device, EncryptBegin(d) PROVE BodiesInv'
  <2>1. PICK seal \in Seal :
          /\ seals' = [seals EXCEPT ![d] = @ \cup {seal}]
          /\ sealed' = [sealed EXCEPT ![d] = Append(@, seal.body.key)]
          /\ seal.body.from = d
          /\ seal.body.id = Len(sealed[d]) + 1
    BY <1>3, EncryptEffect
  <2>2. UNCHANGED <<network, opened, opens>>  BY <1>3 DEF EncryptBegin
  <2>3. /\ seals'[d] = seals[d] \cup {seal}
        /\ \A e \in Device : e # d => seals'[e] = seals[e]
        /\ sealed'[d] = Append(sealed[d], seal.body.key)
    BY <2>1 DEF TypeOK
  <2>4. sealed[d] \in Seq(ChainKey) /\ seal.body.key \in ChainKey
    BY DEF TypeOK, Seal, Body
  <2>5. Known(seal.body)'
    BY <2>1, <2>3, <2>4, AppendProperties, LenProperties DEF Known
  <2>6. Len(sealed[d]) \in Nat /\ DOMAIN sealed[d] = 1 .. Len(sealed[d])
    BY <2>4, LenProperties
  <2>7. seal.body.id \notin DOMAIN sealed[d]  BY <2>1, <2>6
  <2>8. \A b \in network : b.from = d => b.id # seal.body.id
    BY <2>7 DEF BodiesInv, Known
  <2>9. \A s \in seals[d] : s.body.id # seal.body.id
    BY <2>7 DEF BodiesInv, Known
  <2>10. \A b \in network : Known(b)'  BY KnownKept DEF BodiesInv, TypeOK
  <2>11. ASSUME NEW e \in Device, NEW s \in seals[e] PROVE Known(s.body)'
    <3>1. s.body \in Body  BY DEF TypeOK, Seal
    <3> QED  BY <3>1, KnownKept DEF BodiesInv
  <2>12. ASSUME NEW e \in Device, NEW s \in seals'[e]
         PROVE  /\ s.body.from = e
                /\ Known(s.body)'
                /\ \A b \in network' : b.from = e => b.id # s.body.id
                /\ \A t \in seals'[e] : t.body.id = s.body.id => t = s
    <3>1. CASE s \in seals[e]
      BY <2>2, <2>3, <2>9, <2>11, <3>1 DEF BodiesInv
    <3>2. CASE e = d /\ s = seal
      BY <2>1, <2>2, <2>3, <2>5, <2>8, <2>9, <3>2
    <3> QED  BY <2>3, <3>1, <3>2
  <2>13. \A e \in Device : Asked(e)' = Asked(e)  BY <2>2, QueueUnchanged
  <2> QED  BY <2>2, <2>10, <2>12, <2>13 DEF BodiesInv
<1>4. ASSUME NEW d \in Device, SealOk(d) \/ SealFail(d) PROVE BodiesInv'
  <2>1. PICK s \in seals[d] :
          /\ seals' = [seals EXCEPT ![d] = @ \ {s}]
          /\ network' \subseteq network \cup {s.body}
    BY <1>4, SettleEffect
  <2>2. UNCHANGED <<opened, opens, sealed>> /\ network \subseteq network'
    BY <1>4 DEF SealOk, SealFail
  <2>3. /\ seals'[d] = seals[d] \ {s}
        /\ \A e \in Device : e # d => seals'[e] = seals[e]
    BY <2>1 DEF TypeOK
  <2>4. \A e \in Device : Asked(e)' = Asked(e)  BY <2>2, QueueUnchanged
  <2>5. \A b : Known(b) => Known(b)'  BY <2>2 DEF Known
  <2>6. s.body.from = d /\ Known(s.body)  BY DEF BodiesInv
  <2>7. \A b \in network' : Known(b)'  BY <2>1, <2>5, <2>6 DEF BodiesInv
  <2>8. ASSUME NEW e \in Device, NEW t \in seals'[e]
        PROVE  /\ t.body.from = e /\ Known(t.body)'
               /\ \A b \in network' : b.from = e => b.id # t.body.id
               /\ \A u \in seals'[e] : u.body.id = t.body.id => u = t
    <3>1. t \in seals[e] /\ (e = d => t # s)  BY <2>3
    <3>2. e = d => s.body.id # t.body.id  BY <3>1 DEF BodiesInv
    <3> QED  BY <2>1, <2>3, <2>5, <2>6, <3>1, <3>2 DEF BodiesInv
  <2>9. \A e \in Device : \A i \in DOMAIN opened'[e] :
          \E b \in network' : b.from = Peer(e) /\ b.id = opened'[e][i]
    BY <2>2 DEF BodiesInv
  <2>10. \A e \in Device : \A b \in Asked(e)' : b \in network' /\ b.from = Peer(e)
    BY <2>2, <2>4 DEF BodiesInv
  <2> QED  BY <2>7, <2>8, <2>9, <2>10 DEF BodiesInv
<1>5. ASSUME NEW d \in Device, IdleRekey(d) PROVE BodiesInv'
  BY <1>1, <1>5, QueueUnchanged DEF IdleRekey
<1>6. ASSUME NEW d \in Device, NEW body \in network, NEW header \in network,
             OpenCall(d, body, header)
      PROVE  BodiesInv'
  <2>1. UNCHANGED <<seals, network, opened>> /\ body.from = Peer(d)
    BY <1>6 DEF OpenCall
  <2>2. /\ \A e \in Device : e # d => Asked(e)' = Asked(e)
        /\ Asked(d)' \subseteq Asked(d) \cup {body}
    BY <1>6, CallEffect
  <2>3. ASSUME NEW e \in Device, NEW b \in Asked(e)' PROVE b \in network /\ b.from = Peer(e)
    <3>1. b \in Asked(e) \/ (e = d /\ b = body)  BY <2>2
    <3> QED  BY <2>1, <3>1 DEF BodiesInv
  <2>4. \A e \in Device : \A i \in DOMAIN opened'[e] :
           \E b \in network : b.from = Peer(e) /\ b.id = opened'[e][i]
    BY <2>1 DEF BodiesInv
  <2> QED  BY <2>1, <2>3, <2>4, BodiesKept
<1>7. ASSUME NEW d \in Device, NEW i \in DOMAIN opens[d],
             OpenStart(d, i) \/ OpenNoKey(d, i) \/ OpenReject(d, i)
      PROVE  BodiesInv'
  <2>1. UNCHANGED <<seals, network, opened>>  BY <1>7 DEF OpenStart, OpenNoKey, OpenReject
  <2>2. \A e \in Device : Asked(e)' \subseteq Asked(e)  BY <1>7, StartEffect, DoneEffect
  <2> QED  BY <1>1, <2>1, <2>2
<1>8. ASSUME NEW d \in Device, NEW i \in DOMAIN opens[d], OpenAdopt(d, i)
      PROVE  BodiesInv'
  <2> DEFINE id == opens[d][i].body.id
  <2>1. UNCHANGED <<seals, network>> /\ opened' = [opened EXCEPT ![d] = Append(@, id)]
    BY <1>8 DEF OpenAdopt
  <2>2. \A e \in Device : Asked(e)' \subseteq Asked(e)  BY <1>8, DoneEffect
  <2>3. opens[d][i].body \in network /\ opens[d][i].body.from = Peer(d)
    BY DEF BodiesInv, Asked
  <2>4. id \in Nat /\ opened[d] \in Seq(Nat)  BY <2>3 DEF TypeOK, Body
  <2>5. opened'[d] = Append(opened[d], id) /\ \A e \in Device : e # d => opened'[e] = opened[e]
    BY <2>1 DEF TypeOK
  <2>6. \A j \in DOMAIN opened'[d] :
          opened'[d][j] = id \/ (j \in DOMAIN opened[d] /\ opened'[d][j] = opened[d][j])
    <3> HIDE DEF id
    <3> QED  BY <2>4, <2>5, AppendProperties, LenProperties
  <2>7. ASSUME NEW e \in Device, NEW j \in DOMAIN opened'[e]
        PROVE  \E b \in network : b.from = Peer(e) /\ b.id = opened'[e][j]
    <3>1. CASE e = d
      <4>1. CASE opened'[d][j] = id  BY <2>3, <3>1, <4>1
      <4>2. CASE j \in DOMAIN opened[d] /\ opened'[d][j] = opened[d][j]
        BY <3>1, <4>2 DEF BodiesInv
      <4> QED  BY <2>6, <3>1, <4>1, <4>2
    <3>2. CASE e # d  BY <2>5, <3>2 DEF BodiesInv
    <3> QED  BY <3>1, <3>2
  <2>8. \A e \in Device : \A b \in Asked(e)' : b \in network /\ b.from = Peer(e)
    BY <2>2 DEF BodiesInv
  <2> QED  BY <2>1, <2>7, <2>8, BodiesKept
<1>9. ASSUME NEW d \in Device, Trim(d) PROVE BodiesInv'
  <2>1. UNCHANGED <<seals, network, opened, opens>>  BY <1>9, TrimEffect
  <2> QED  BY <1>1, <2>1, QueueUnchanged
<1>10. CASE Next
  BY <1>3, <1>4, <1>5, <1>6, <1>7, <1>8, <1>9, <1>10 DEF Next, Running, Trim
<1> QED  BY <1>2, <1>10

-----------------------------------------------------------------------------
(* The two devices never send on one chain.                                *)

(* The chains d sealed on, sends on, or may be put back on. *)
Sends(d, chain) ==
  \/ chain = state[d].sendingChainKey.chain
  \/ \E i \in DOMAIN sealed[d] : chain = sealed[d][i].chain
  \/ \E s \in seals[d] : chain = s.restore.sendingChainKey.chain
  \/ \E c \in Drafted(d) : chain = c.draft.sendingChainKey.chain

ApartInv == \A chain : ~(Sends(Initiator, chain) /\ Sends(Responder, chain))

LEMMA SendsDerived ==
  ASSUME KeysInv, NEW d \in Device, NEW chain, Sends(d, chain)
  PROVE  chain \in Derived
BY DEF KeysInv, LiveInv, SealsInv, OpensInv, SealedInv, CallInv, FromUsedKeys, Sends, Drafted

(* A chain derived with a key pair that did not exist is nobody's.         *)
LEMMA FreshChainNobodys ==
  ASSUME TypeOK, KeysInv, NEW d \in Device, NEW root \in RootKey, NEW pub \in Keys,
         NEW e \in Device
  PROVE  ~Sends(e, DhRatchet(root, KeyOf(d, nextKey[d]), pub))
<1> DEFINE fresh == KeyOf(d, nextKey[d])
           chain == DhRatchet(root, fresh, pub)
<1>1. fresh \in Keys /\ fresh \notin UsedKeys  BY FreshType DEF UsedKeys, KeyOf, TypeOK
<1> HIDE DEF fresh
<1>2. Len(chain) \in 1 .. Len(chain) /\ chain[Len(chain)] = {fresh, pub}  BY <1>1, DhLast
<1> HIDE DEF chain
<1>3. chain \notin Derived
  <2>1. SUFFICES ASSUME chain \in Seq(SUBSET UsedKeys) PROVE FALSE  BY DEF Derived
  <2>2. chain[Len(chain)] \in SUBSET UsedKeys  BY <1>2, <2>1, ElementOfSeq
  <2> QED  BY <1>1, <1>2, <2>2
<1> QED  BY <1>3, SendsDerived DEF chain, fresh

(* A step of one device that adds at most a chain nobody sends on.         *)
LEMMA ApartStep ==
  ASSUME ApartInv, NEW d \in Device, NEW new, \A e \in Device : ~Sends(e, new),
         \A chain : Sends(d, chain)' => Sends(d, chain) \/ chain = new,
         \A e \in Device : e # d => \A chain : Sends(e, chain)' => Sends(e, chain)
  PROVE  ApartInv'
<1>1. d = Initiator \/ d = Responder  BY DEF Device
<1>2. Initiator \in Device /\ Responder \in Device  BY DEF Device
<1>3. CASE d = Initiator  BY <1>2, <1>3, DeviceAssumption DEF ApartInv
<1>4. CASE d = Responder  BY <1>2, <1>4, DeviceAssumption DEF ApartInv
<1> QED  BY <1>1, <1>3, <1>4

LEMMA ApartKept ==
  ASSUME ApartInv, \A e \in Device : \A chain : Sends(e, chain)' => Sends(e, chain)
  PROVE  ApartInv'
BY DEF ApartInv, Device

LEMMA ApartInit == Init => ApartInv
<1> SUFFICES ASSUME Init PROVE ApartInv  OBVIOUS
<1>1. \A d \in Device : /\ sealed[d] = <<>> /\ seals[d] = {} /\ Drafted(d) = {}
  BY DEF Init, Drafted
<1>2. state[Initiator].sendingChainKey.chain = HandshakeRoot
  BY DeviceAssumption DEF Init, Device, InitiatorState, FreshState, ChainFrom
<1>3. state[Responder].sendingChainKey.chain
        = DhRatchet(HandshakeRoot, KeyOf(Responder, 0), KeyOf(Initiator, 0))
  BY DeviceAssumption DEF Init, Device, ResponderState, FreshState, ChainFrom
<1>4. state[Responder].sendingChainKey.chain # HandshakeRoot
  <2>1. HandshakeRoot \in RootKey /\ KeyOf(Responder, 0) \in Keys /\ KeyOf(Initiator, 0) \in Keys
    BY EmptySeq DEF HandshakeRoot, RootKey, KeyOf, Keys, Device
  <2>2. Len(state[Responder].sendingChainKey.chain) \in 1 .. Len(state[Responder].sendingChainKey.chain)
    BY <1>3, <2>1, DhLast
  <2>3. Len(<<>>) = 0  OBVIOUS
  <2> QED  BY <2>2, <2>3 DEF HandshakeRoot
<1> QED  BY <1>1, <1>2, <1>4 DEF ApartInv, Sends, Device

LEMMA ApartNext ==
  TypeOK /\ TypeOK' /\ LockInv /\ KeysInv /\ ApartInv /\ [Next]_vars => ApartInv'
<1> SUFFICES ASSUME TypeOK, TypeOK', LockInv, KeysInv, ApartInv, [Next]_vars
             PROVE  ApartInv'
  OBVIOUS
<1>1. ASSUME NEW e \in Device, state'[e] = state[e], seals'[e] \subseteq seals[e],
             sealed'[e] = sealed[e], Drafted(e)' \subseteq Drafted(e)
      PROVE  \A chain : Sends(e, chain)' => Sends(e, chain)
  BY <1>1 DEF Sends
<1>2. CASE UNCHANGED vars  BY <1>1, <1>2, ApartKept, QueueUnchanged DEF vars
<1>3. ASSUME NEW d \in Device, EncryptBegin(d) PROVE ApartInv'
  <2>1. PICK seal \in Seal :
          /\ seals' = [seals EXCEPT ![d] = @ \cup {seal}]
          /\ sealed' = [sealed EXCEPT ![d] = Append(@, seal.body.key)]
          /\ \A e \in Device : e # d => state'[e] = state[e]
          /\ seal.body.key = state[d].sendingChainKey
          /\ seal.restore.sendingChainKey = state'[d].sendingChainKey
          /\ state'[d].sendingChainKey = Advance(state[d].sendingChainKey, 1)
    BY <1>3, EncryptEffect
  <2>2. \A e \in Device : Drafted(e)' = Drafted(e)  BY <1>3, QueueUnchanged DEF EncryptBegin
  <2>3. \A e \in Device : e # d => seals'[e] = seals[e] /\ sealed'[e] = sealed[e]
    BY <2>1 DEF TypeOK
  <2>4. state'[d].sendingChainKey.chain = state[d].sendingChainKey.chain
    BY <2>1 DEF Advance
  <2>5. seals'[d] = seals[d] \cup {seal} /\ sealed'[d] = Append(sealed[d], seal.body.key)
        /\ sealed[d] \in Seq(ChainKey) /\ seal.body.key \in ChainKey
    BY <2>1 DEF TypeOK, Seal, Body
  <2>6. \A i \in DOMAIN sealed'[d] :
          sealed'[d][i] = seal.body.key \/ (i \in DOMAIN sealed[d] /\ sealed'[d][i] = sealed[d][i])
    BY <2>5, Appended
  <2>7. ASSUME NEW chain, Sends(d, chain)' PROVE Sends(d, chain)
    BY <2>1, <2>2, <2>4, <2>5, <2>6, <2>7 DEF Sends
  <2>8. \A e \in Device : e # d => \A chain : Sends(e, chain)' => Sends(e, chain)
    BY <1>1, <2>1, <2>2, <2>3
  <2> QED  BY <2>7, <2>8, ApartKept
<1>4. ASSUME NEW d \in Device, SealOk(d) \/ SealFail(d) PROVE ApartInv'
  <2>1. PICK s \in seals[d] :
          /\ seals' = [seals EXCEPT ![d] = @ \ {s}]
          /\ \A e \in Device : e # d => state'[e] = state[e]
          /\ \/ state'[d] = state[d]
             \/ state'[d].sendingChainKey = s.restore.sendingChainKey
    BY <1>4, SettleEffect
  <2>2. sealed' = sealed /\ \A e \in Device : Drafted(e)' = Drafted(e)
    BY <1>4, QueueUnchanged DEF SealOk, SealFail
  <2>3. \A e \in Device : seals'[e] \subseteq seals[e]  BY <2>1 DEF TypeOK
  <2>4. \A chain : Sends(d, chain)' => Sends(d, chain)
    BY <2>1, <2>2, <2>3 DEF Sends
  <2> QED  BY <1>1, <2>1, <2>2, <2>3, <2>4, ApartKept
<1>5. ASSUME NEW d \in Device, IdleRekey(d) PROVE ApartInv'
  <2>1. PICK pub \in Keys :
          /\ \A e \in Device : e # d => state'[e] = state[e]
          /\ state'[d].rootKey = DhRatchet(state[d].rootKey, KeyOf(d, nextKey[d]), pub)
          /\ state'[d].sendingChainKey = ChainFrom(state'[d].rootKey)
    BY <1>5, RekeyEffect
  <2>2. UNCHANGED <<sealed, seals>> /\ \A e \in Device : Drafted(e)' = Drafted(e)
    BY <1>5, QueueUnchanged DEF IdleRekey
  <2>3. \A e \in Device : ~Sends(e, state'[d].rootKey)
    BY <2>1, FreshChainNobodys DEF TypeOK, SessionState
  <2>4. state'[d].sendingChainKey.chain = state'[d].rootKey  BY <2>1 DEF ChainFrom
  <2>5. \A chain : Sends(d, chain)' => Sends(d, chain) \/ chain = state'[d].rootKey
    BY <2>2, <2>4 DEF Sends
  <2>6. \A e \in Device : e # d => \A chain : Sends(e, chain)' => Sends(e, chain)
    BY <1>1, <2>1, <2>2
  <2> QED  BY <2>3, <2>5, <2>6, ApartStep
<1>6. ASSUME NEW d \in Device, NEW body \in network, NEW header \in network,
             OpenCall(d, body, header)
      PROVE  ApartInv'
  <2>1. UNCHANGED <<state, sealed, seals>>  BY <1>6 DEF OpenCall
  <2> QED  BY <1>1, <1>6, <2>1, CallEffect, ApartKept
<1>7. ASSUME NEW d \in Device, NEW i \in DOMAIN opens[d], OpenNoKey(d, i) \/ OpenReject(d, i)
      PROVE  ApartInv'
  <2>1. UNCHANGED <<state, sealed, seals>>  BY <1>7 DEF OpenNoKey, OpenReject
  <2>2. \A e \in Device : Drafted(e)' \subseteq Drafted(e)  BY <1>7, DoneEffect
  <2> QED  BY <1>1, <2>1, <2>2, ApartKept
<1>8. ASSUME NEW d \in Device, NEW i \in DOMAIN opens[d], OpenStart(d, i)
      PROVE  ApartInv'
  <2> DEFINE call == opens[d][i]
             fresh == KeyOf(d, nextKey[d])
  <2>1. UNCHANGED <<state, sealed, seals>>  BY <1>8 DEF OpenStart
  <2>2. \A e \in Device : e # d => Drafted(e)' = Drafted(e)  BY <1>8, StartEffect
  <2>3. PICK r \in Found(d, call) : \A c \in Drafted(d)' : c.draft = r.state
    BY <1>8, StartEffect
  <2>4. /\ state[d] \in SessionState /\ call.rk \in Keys /\ call.num \in Nat /\ fresh \in Keys
    BY CallAt, FreshType DEF TypeOK, Call
  <2>5. r \in FindMessageKey(state[d], call.rk, call.num, fresh)  BY DEF Found
  <2>6. \A chain : Sends(d, chain)' => Sends(d, chain) \/ chain = r.state.sendingChainKey.chain
    BY <2>1, <2>3 DEF Sends
  <2>7. \A e \in Device : e # d => \A chain : Sends(e, chain)' => Sends(e, chain)
    BY <1>1, <2>1, <2>2
  <2> HIDE DEF call
  <2>8. CASE SameSending(state[d], r.state)
    <3>1. r.state.sendingChainKey = state[d].sendingChainKey  BY <2>8 DEF SameSending
    <3>2. Sends(d, r.state.sendingChainKey.chain)  BY <3>1 DEF Sends
    <3>3. \A chain : Sends(d, chain)' => Sends(d, chain)  BY <2>6, <3>2
    <3> QED  BY <2>7, <3>3, ApartKept
  <2>9. CASE Stepped(state[d], r.state, call.rk, fresh)
    <3> DEFINE recvd == DhRatchet(state[d].rootKey, state[d].sendingRatchetKey, call.rk)
               root  == DhRatchet(recvd, fresh, call.rk)
    <3>1. recvd \in RootKey  BY <2>4, DhType DEF SessionState
    <3>2. r.state.sendingChainKey.chain = root  BY <2>9 DEF Stepped, ChainFrom
    <3> HIDE DEF recvd
    <3>3. \A e \in Device : ~Sends(e, root)  BY <2>4, <3>1, FreshChainNobodys
    <3> QED  BY <2>6, <2>7, <3>2, <3>3, ApartStep
  <2> HIDE DEF fresh
  <2> QED  BY <2>4, <2>5, <2>8, <2>9, FindSending
<1>9. ASSUME NEW d \in Device, NEW i \in DOMAIN opens[d], OpenAdopt(d, i)
      PROVE  ApartInv'
  <2> DEFINE c == opens[d][i]
             after == Adopted(state[d], c.draft, c.epochAtStart # sendEpoch[d])
  <2>1. state' = [state EXCEPT ![d] = after] /\ ~Waiting(c) /\ UNCHANGED <<sealed, seals>>
    BY <1>9 DEF OpenAdopt
  <2>2. Drafted(d)' = {} /\ \A e \in Device : e # d => Drafted(e)' = Drafted(e)
    BY <1>9, DoneEffect
  <2>3. c \in Drafted(d)  BY <2>1 DEF Drafted
  <2>4. c.draft \in SessionState /\ state[d] \in SessionState
    BY <2>1, CallAt DEF Waiting, Call, TypeOK
  <2>5. state'[d] = after /\ \A e \in Device : e # d => state'[e] = state[e]
    BY <2>1 DEF TypeOK
  <2>6. SameSendingHalf(c.draft, after) \/ SameSendingHalf(state[d], after)
    BY <2>4, AdoptEffect
  <2> HIDE DEF c, after
  <2>7. \A chain : Sends(d, chain)' => Sends(d, chain)
    BY <2>1, <2>2, <2>3, <2>5, <2>6 DEF Sends, SameSendingHalf
  <2>8. \A e \in Device : e # d => \A chain : Sends(e, chain)' => Sends(e, chain)
    BY <1>1, <2>1, <2>2, <2>5
  <2> QED  BY <2>7, <2>8, ApartKept
<1>10. ASSUME NEW d \in Device, Trim(d) PROVE ApartInv'
  <2>1. UNCHANGED <<seals, sealed, opens>>  BY <1>10, TrimEffect
  <2>2. \A e \in Device : state'[e].sendingChainKey = state[e].sendingChainKey
    BY <1>10, TrimEffect DEF Trimmed
  <2>3. \A e \in Device : Drafted(e)' = Drafted(e)  BY <2>1, QueueUnchanged
  <2> QED  BY <2>1, <2>2, <2>3, ApartKept DEF Sends
<1>11. CASE Next
  BY <1>3, <1>4, <1>5, <1>6, <1>7, <1>8, <1>9, <1>10, <1>11 DEF Next, Running, Trim
<1> QED  BY <1>2, <1>11

-----------------------------------------------------------------------------
(* What is read, and what is kept of it.                                   *)

(* The keys of the bodies d opened, and the keys d sealed with. *)
Spent(d) == {sealed[Peer(d)][opened[d][i]] : i \in DOMAIN opened[d]}

Own(d) == {sealed[d][i] : i \in DOMAIN sealed[d]}

(* A state of d, live or a draft: it yields no key a second time, what it  *)
(* keeps of its own keys it sealed with, and its maps are within bounds.   *)
StateInv(d, s) ==
  /\ ReceiveInv(s)
  /\ \A k \in Spent(d) : Forgotten(s, k)
  /\ \A e \in s.sentMessageKeys \cup s.previousSendingKeys : e.key \in Own(d)
  /\ SkippedBounded(s)
  /\ SentBounded(s.sentMessageKeys)

(* The key a call is about to try is one of the device's own, which opens  *)
(* nothing of the peer's, or was never spent and is gone from the draft.   *)
DraftInv(d, c) ==
  /\ StateInv(d, c.draft)
  /\ \/ c.key \in Own(d)
     \/ Forgotten(c.draft, c.key) /\ c.key \notin Spent(d)

RestoreInv(d, s) ==
  /\ \A e \in s.restore.sentMessageKeys : e.key \in Own(d)
  /\ SentBounded(s.restore.sentMessageKeys)

ReadInv ==
  \A d \in Device :
    /\ StateInv(d, state[d])
    /\ \A s \in seals[d] : RestoreInv(d, s)
    /\ \A c \in Drafted(d) : DraftInv(d, c)

(* Histories only grow, and the key of an opened body never changes.       *)
LEMMA OwnGrows ==
  ASSUME TypeOK, [Next]_vars, NEW d \in Device
  PROVE  Own(d) \subseteq Own(d)'
BY SealedGrows DEF Own

LEMMA SpentKept ==
  ASSUME TypeOK, BodiesInv, [Next]_vars, NEW d \in Device, opened'[d] = opened[d]
  PROVE  Spent(d)' = Spent(d)
<1>1. Peer(d) \in Device  BY PeerType
<1>2. \A i \in DOMAIN opened[d] : opened[d][i] \in DOMAIN sealed[Peer(d)]
  BY DEF BodiesInv, Known
<1>3. \A i \in DOMAIN opened[d] : sealed'[Peer(d)][opened[d][i]] = sealed[Peer(d)][opened[d][i]]
  BY <1>1, <1>2, SealedGrows
<1> QED  BY <1>3 DEF Spent, Peer

LEMMA SpentType ==
  ASSUME TypeOK, BodiesInv, NEW d \in Device
  PROVE  Spent(d) \subseteq ChainKey
<1>1. Peer(d) \in Device /\ sealed[Peer(d)] \in Seq(ChainKey)  BY PeerType DEF TypeOK
<1>2. \A i \in DOMAIN opened[d] : opened[d][i] \in DOMAIN sealed[Peer(d)]
  BY DEF BodiesInv, Known
<1>3. \A j \in DOMAIN sealed[Peer(d)] : sealed[Peer(d)][j] \in ChainKey
  BY <1>1, ElementOfSeq, LenProperties
<1> QED  BY <1>2, <1>3 DEF Spent

(* What a device sealed with opens nothing it reads. *)
LEMMA OwnOpensNothing ==
  ASSUME ApartInv, NEW d \in Device, NEW k \in Own(d)
  PROVE  k \notin Own(Peer(d))
<1>1. \A e \in Device : \A key \in Own(e) : Sends(e, key.chain)  BY DEF Own, Sends
<1>2. Peer(d) \in Device  BY PeerType
<1>3. CASE d = Initiator  BY <1>1, <1>2, <1>3 DEF ApartInv, Peer, Device
<1>4. CASE d = Responder  BY <1>1, <1>2, <1>4, DeviceAssumption DEF ApartInv, Peer, Device
<1> QED  BY <1>3, <1>4 DEF Device

LEMMA StateKept ==
  ASSUME TypeOK, BodiesInv, [Next]_vars, NEW d \in Device, opened'[d] = opened[d],
         NEW s, StateInv(d, s)
  PROVE  StateInv(d, s)'
BY OwnGrows, SpentKept DEF StateInv

LEMMA DraftKept ==
  ASSUME TypeOK, BodiesInv, [Next]_vars, NEW d \in Device, opened'[d] = opened[d],
         NEW c, DraftInv(d, c)
  PROVE  DraftInv(d, c)'
BY OwnGrows, SpentKept, StateKept DEF DraftInv

LEMMA RestoreKept ==
  ASSUME TypeOK, [Next]_vars, NEW d \in Device, NEW s, RestoreInv(d, s)
  PROVE  RestoreInv(d, s)'
BY OwnGrows DEF RestoreInv

(* The receiving half decides what is forgotten; the sending half may move *)
(* to other keys the device sealed with.                                   *)
LEMMA SendingMoved ==
  ASSUME NEW d \in Device, NEW s, NEW t, StateInv(d, s), SameReceiving(s, t),
         t.rootKey = s.rootKey,
         \A e \in t.sentMessageKeys \cup t.previousSendingKeys : e.key \in Own(d),
         SentBounded(t.sentMessageKeys)
  PROVE  StateInv(d, t)
<1>1. ReceiveInv(t) /\ \A k \in Spent(d) : Forgotten(t, k)
  BY ReceivingKept DEF StateInv
<1>2. SkippedBounded(t)  BY DEF StateInv, SkippedBounded, SameReceiving
<1> QED  BY <1>1, <1>2 DEF StateInv

(* Mixing a secret into the root leaves what is forgotten forgotten. *)
LEMMA RootMoved ==
  ASSUME NEW s \in SessionState, NEW t, ReceiveInv(s), SameReceiving(s, t),
         NEW a \in Keys, NEW b \in Keys, t.rootKey = DhRatchet(s.rootKey, a, b)
  PROVE  ReceiveInv(t) /\ \A k \in ChainKey : Forgotten(s, k) => Forgotten(t, k)
<1>1. s.rootKey \in Seq(SUBSET Keys)  BY DEF SessionState, RootKey
<1>2. Len(t.rootKey) = Len(s.rootKey) + 1 /\ Len(s.rootKey) \in Nat
  BY <1>1 DEF DhRatchet, SharedSecret
<1>3. s.receivingChainKey # None => Len(s.receivingChainKey.chain) \in Nat
  BY DEF SessionState, ChainKey, RootKey
<1>4. ReceiveInv(t)  BY <1>2, <1>3 DEF ReceiveInv, SameReceiving
<1>5. ASSUME NEW k \in ChainKey, Forgotten(s, k) PROVE Forgotten(t, k)
  <2>1. Len(k.chain) \in Nat  BY DEF ChainKey, RootKey
  <2>2. Len(k.chain) <= Len(t.rootKey)  BY <1>2, <1>5, <2>1 DEF Forgotten
  <2> QED  BY <1>5, <2>2 DEF Forgotten, SameReceiving
<1> QED  BY <1>4, <1>5

LEMMA ReadInit == Init => ReadInv
<1> SUFFICES ASSUME Init, NEW d \in Device
             PROVE  StateInv(d, state[d]) /\ seals[d] = {} /\ Drafted(d) = {}
  BY DEF ReadInv
<1>1. seals[d] = {} /\ Drafted(d) = {} /\ opened[d] = <<>>  BY DEF Init, Drafted
<1>2. Spent(d) = {}  BY <1>1 DEF Spent
<1>3. CASE d = Initiator
  <2>1. state[d] = InitiatorState(KeyOf(Initiator, 0))  BY <1>3 DEF Init
  <2>2. /\ state[d].receivingChainKey = None
        /\ state[d].skippedMessageKeys = {} /\ state[d].previousReceivingKeys = {}
        /\ state[d].sentMessageKeys = {} /\ state[d].previousSendingKeys = {}
    BY <2>1 DEF InitiatorState, FreshState
  <2> QED  BY <1>1, <1>2, <2>2, NoneHeld DEF StateInv, ReceiveInv
<1>4. CASE d = Responder
  <2> DEFINE fresh == KeyOf(Responder, 0)
             pub   == KeyOf(Initiator, 0)
             root  == DhRatchet(HandshakeRoot, fresh, pub)
  <2>1. state[d] = ResponderState(fresh, pub)  BY <1>4, DeviceAssumption DEF Init
  <2>2. HandshakeRoot \in RootKey /\ fresh \in Keys /\ pub \in Keys
    BY EmptySeq DEF HandshakeRoot, RootKey, KeyOf, Keys, Device
  <2>3. /\ state[d].receivingChainKey = ChainFrom(HandshakeRoot)
        /\ state[d].receivingMessageNumber = 0
        /\ state[d].rootKey = root
        /\ state[d].skippedMessageKeys = {} /\ state[d].previousReceivingKeys = {}
        /\ state[d].sentMessageKeys = {} /\ state[d].previousSendingKeys = {}
    BY <2>1 DEF ResponderState, FreshState
  <2>4. ChainFrom(HandshakeRoot) # None /\ root \in RootKey
    BY <2>2, ChainFromType, DhType, NoneAssumption
  <2>5. Len(HandshakeRoot) = 0 /\ Len(root) >= 0
    BY <2>4, LenProperties DEF HandshakeRoot, RootKey
  <2>6. /\ ChainFrom(HandshakeRoot).pos = 0
        /\ ChainFrom(HandshakeRoot).chain = HandshakeRoot
    BY DEF ChainFrom
  <2> HIDE DEF root
  <2>7. ReceiveInv(state[d])  BY <2>3, <2>4, <2>5, <2>6 DEF ReceiveInv
  <2> QED  BY <1>1, <1>2, <2>3, <2>7, NoneHeld DEF StateInv
<1> QED  BY <1>3, <1>4 DEF Device

(* What a step that leaves one device's part alone leaves of the invariant. *)
LEMMA ReadKept ==
  ASSUME TypeOK, BodiesInv, ReadInv, [Next]_vars, NEW d \in Device, opened'[d] = opened[d]
  PROVE  /\ state'[d] = state[d] => StateInv(d, state[d])'
         /\ seals'[d] \subseteq seals[d] => \A s \in seals'[d] : RestoreInv(d, s)'
         /\ Drafted(d)' \subseteq Drafted(d) => \A c \in Drafted(d)' : DraftInv(d, c)'
<1>1. StateInv(d, state[d])  BY DEF ReadInv
<1>2. state'[d] = state[d] => StateInv(d, state[d])'  BY <1>1, StateKept DEF StateInv
<1>3. \A s \in seals[d] : RestoreInv(d, s)'  BY RestoreKept DEF ReadInv
<1>4. \A c \in Drafted(d) : DraftInv(d, c)'  BY DraftKept DEF ReadInv
<1> QED  BY <1>2, <1>3, <1>4

LEMMA ReadEncrypt ==
  ASSUME TypeOK, BodiesInv, ReadInv, [Next]_vars, NEW d \in Device, EncryptBegin(d)
  PROVE  ReadInv'
<1>1. PICK seal \in Seal :
        /\ seals' = [seals EXCEPT ![d] = @ \cup {seal}]
        /\ sealed' = [sealed EXCEPT ![d] = Append(@, seal.body.key)]
        /\ \A e \in Device : e # d => state'[e] = state[e]
        /\ seal.restore.sentMessageKeys = state'[d].sentMessageKeys
        /\ state'[d].rootKey = state[d].rootKey
        /\ state'[d].previousSendingKeys = state[d].previousSendingKeys
        /\ SameReceiving(state[d], state'[d])
        /\ \A e \in state'[d].sentMessageKeys :
             e \in state[d].sentMessageKeys \/ e.key = seal.body.key
        /\ SentBounded(state[d].sentMessageKeys) => SentBounded(state'[d].sentMessageKeys)
  BY EncryptEffect
<1>2. opened' = opened /\ \A e \in Device : Drafted(e)' = Drafted(e)
  BY QueueUnchanged DEF EncryptBegin
<1>3. /\ seals'[d] = seals[d] \cup {seal} /\ \A e \in Device : e # d => seals'[e] = seals[e]
      /\ sealed'[d] = Append(sealed[d], seal.body.key)
      /\ sealed[d] \in Seq(ChainKey) /\ seal.body.key \in ChainKey
  BY <1>1 DEF TypeOK, Seal, Body
<1>4. Own(d) \subseteq Own(d)' /\ seal.body.key \in Own(d)'
  <2>1. Len(sealed'[d]) \in DOMAIN sealed'[d] /\ sealed'[d][Len(sealed'[d])] = seal.body.key
    BY <1>3, AppendProperties, LenProperties
  <2> QED  BY <2>1, OwnGrows DEF Own
<1>5. StateInv(d, state[d])  BY DEF ReadInv
<1>6. \A e \in state'[d].sentMessageKeys \cup state'[d].previousSendingKeys : e.key \in Own(d)'
  BY <1>1, <1>4, <1>5 DEF StateInv
<1>7. SentBounded(state'[d].sentMessageKeys)  BY <1>1, <1>5 DEF StateInv
<1>8. StateInv(d, state[d])'
  <2>1. Spent(d)' = Spent(d)  BY <1>2, SpentKept
  <2>2. ReceiveInv(state'[d]) /\ \A k \in Spent(d) : Forgotten(state'[d], k)
    BY <1>1, <1>5, ReceivingKept DEF StateInv
  <2>3. SkippedBounded(state'[d])
    BY <1>1, <1>5 DEF StateInv, SkippedBounded, SameReceiving
  <2> QED  BY <1>6, <1>7, <2>1, <2>2, <2>3 DEF StateInv
<1>9. RestoreInv(d, seal)'  BY <1>1, <1>6, <1>7 DEF RestoreInv
<1>10. \A s \in seals[d] : RestoreInv(d, s)'  BY RestoreKept DEF ReadInv
<1>11. \A c \in Drafted(d)' : DraftInv(d, c)'  BY <1>2, ReadKept
<1>12. ASSUME NEW e \in Device, e # d
       PROVE  /\ StateInv(e, state[e])'
              /\ \A s \in seals'[e] : RestoreInv(e, s)'
              /\ \A c \in Drafted(e)' : DraftInv(e, c)'
  BY <1>1, <1>2, <1>3, <1>12, ReadKept
<1> QED  BY <1>3, <1>8, <1>9, <1>10, <1>11, <1>12 DEF ReadInv

LEMMA ReadSettle ==
  ASSUME TypeOK, BodiesInv, ReadInv, [Next]_vars, NEW d \in Device, SealOk(d) \/ SealFail(d)
  PROVE  ReadInv'
<1>1. PICK s \in seals[d] :
        /\ seals' = [seals EXCEPT ![d] = @ \ {s}]
        /\ \A e \in Device : e # d => state'[e] = state[e]
        /\ \/ state'[d] = state[d]
           \/ /\ state'[d].sentMessageKeys = s.restore.sentMessageKeys
              /\ state'[d].rootKey = state[d].rootKey
              /\ state'[d].previousSendingKeys = state[d].previousSendingKeys
              /\ SameReceiving(state[d], state'[d])
  BY SettleEffect
<1>2. UNCHANGED <<opened, sealed>> /\ \A e \in Device : Drafted(e)' = Drafted(e)
  BY QueueUnchanged DEF SealOk, SealFail
<1>3. \A e \in Device : seals'[e] \subseteq seals[e]  BY <1>1 DEF TypeOK
<1>4. StateInv(d, state[d])'
  <2>1. CASE state'[d] = state[d]  BY <1>2, <2>1, ReadKept
  <2>2. CASE state'[d] # state[d]
    <3>1. StateInv(d, state[d]) /\ RestoreInv(d, s)  BY DEF ReadInv
    <3>2. StateInv(d, state'[d])
      BY <1>1, <2>2, <3>1, SendingMoved DEF StateInv, RestoreInv
    <3>3. Spent(d)' = Spent(d) /\ Own(d)' = Own(d)  BY <1>2, SpentKept DEF Own
    <3> QED  BY <3>2, <3>3 DEF StateInv
  <2> QED  BY <2>1, <2>2
<1>5. ASSUME NEW e \in Device
      PROVE  /\ (e # d => StateInv(e, state[e])')
             /\ \A x \in seals'[e] : RestoreInv(e, x)'
             /\ \A c \in Drafted(e)' : DraftInv(e, c)'
  BY <1>1, <1>2, <1>3, ReadKept
<1> QED  BY <1>4, <1>5 DEF ReadInv

LEMMA ReadRekey ==
  ASSUME TypeOK, BodiesInv, ReadInv, [Next]_vars, NEW d \in Device, IdleRekey(d)
  PROVE  ReadInv'
<1>1. PICK pub \in Keys :
        /\ \A e \in Device : e # d => state'[e] = state[e]
        /\ state'[d].rootKey = DhRatchet(state[d].rootKey, KeyOf(d, nextKey[d]), pub)
        /\ state'[d].sentMessageKeys = {}
        /\ state'[d].previousSendingKeys
             \subseteq state[d].sentMessageKeys \cup state[d].previousSendingKeys
        /\ SameReceiving(state[d], state'[d])
  BY RekeyEffect
<1>2. UNCHANGED <<opened, sealed, seals>> /\ \A e \in Device : Drafted(e)' = Drafted(e)
  BY QueueUnchanged DEF IdleRekey
<1>3. StateInv(d, state[d]) /\ state[d] \in SessionState /\ KeyOf(d, nextKey[d]) \in Keys
  BY FreshType DEF ReadInv, TypeOK
<1>4. /\ ReceiveInv(state'[d])
      /\ \A k \in ChainKey : Forgotten(state[d], k) => Forgotten(state'[d], k)
  BY <1>1, <1>3, RootMoved DEF StateInv
<1>5. Spent(d)' = Spent(d) /\ Own(d)' = Own(d) /\ Spent(d) \subseteq ChainKey
  BY <1>2, SpentKept, SpentType DEF Own
<1>6. SkippedBounded(state'[d]) /\ SentBounded(state'[d].sentMessageKeys)
  BY <1>1, <1>3, NoneHeld DEF StateInv, SkippedBounded, SameReceiving
<1>7. StateInv(d, state[d])'  BY <1>1, <1>3, <1>4, <1>5, <1>6 DEF StateInv
<1>8. ASSUME NEW e \in Device
      PROVE  /\ (e # d => StateInv(e, state[e])')
             /\ \A x \in seals'[e] : RestoreInv(e, x)'
             /\ \A c \in Drafted(e)' : DraftInv(e, c)'
  BY <1>1, <1>2, ReadKept
<1> QED  BY <1>7, <1>8 DEF ReadInv

LEMMA ReadQueue ==
  ASSUME TypeOK, BodiesInv, LockInv, ReadInv, [Next]_vars, NEW d \in Device,
         \/ \E body, header \in network : OpenCall(d, body, header)
         \/ \E i \in DOMAIN opens[d] : OpenNoKey(d, i) \/ OpenReject(d, i)
  PROVE  ReadInv'
<1>1. UNCHANGED <<state, opened, sealed, seals>>  BY DEF OpenCall, OpenNoKey, OpenReject
<1>2. \A e \in Device : Drafted(e)' \subseteq Drafted(e)
  <2>1. CASE \E body, header \in network : OpenCall(d, body, header)
    BY <2>1, CallEffect
  <2>2. ASSUME NEW i \in DOMAIN opens[d], OpenNoKey(d, i) \/ OpenReject(d, i)
        PROVE  \A e \in Device : Drafted(e)' \subseteq Drafted(e)
    BY <2>2, DoneEffect
  <2> QED  BY <2>1, <2>2
<1> QED  BY <1>1, <1>2, ReadKept DEF ReadInv

LEMMA ReadStart ==
  ASSUME TypeOK, BodiesInv, LockInv, ReadInv, [Next]_vars,
         NEW d \in Device, NEW i \in DOMAIN opens[d], OpenStart(d, i)
  PROVE  ReadInv'
<1> DEFINE call  == opens[d][i]
           fresh == KeyOf(d, nextKey[d])
<1>1. UNCHANGED <<state, opened, sealed, seals>>  BY DEF OpenStart
<1>2. \A e \in Device : e # d => Drafted(e)' = Drafted(e)  BY StartEffect
<1>3. PICK r \in Found(d, call) : \A c \in Drafted(d)' : c.draft = r.state /\ c.key = r.key
  BY StartEffect
<1>4. /\ state[d] \in SessionState /\ call.rk \in Keys /\ call.num \in Nat /\ fresh \in Keys
  BY CallAt, FreshType DEF TypeOK, Call
<1>5. r \in FindMessageKey(state[d], call.rk, call.num, fresh)  BY DEF Found
<1> HIDE DEF call, fresh
<1>6. StateInv(d, state[d])  BY DEF ReadInv
<1>7. /\ ReceiveInv(r.state)
      /\ \A k \in ChainKey : Forgotten(state[d], k) => Forgotten(r.state, k)
      /\ \/ \E e \in state[d].previousSendingKeys : e.key = r.key
         \/ Forgotten(r.state, r.key) /\ ~Forgotten(state[d], r.key)
  BY <1>4, <1>5, <1>6, FindReceive DEF StateInv
<1>8. r.state.sentMessageKeys \cup r.state.previousSendingKeys
        \subseteq state[d].sentMessageKeys \cup state[d].previousSendingKeys
  BY <1>4, <1>5, FindSentKeys
<1>9. SkippedBounded(r.state)  BY <1>4, <1>5, <1>6, FindBounded DEF StateInv
<1>10. SentBounded(r.state.sentMessageKeys)
  <2>1. SameSending(state[d], r.state) \/ Stepped(state[d], r.state, call.rk, fresh)
    BY <1>4, <1>5, FindSending
  <2>2. r.state.sentMessageKeys = state[d].sentMessageKeys \/ r.state.sentMessageKeys = {}
    BY <2>1 DEF SameSending, Stepped
  <2> QED  BY <1>6, <2>2, NoneHeld DEF StateInv
<1>11. Spent(d) \subseteq ChainKey  BY SpentType
<1>12. StateInv(d, r.state)
  BY <1>6, <1>7, <1>8, <1>9, <1>10, <1>11 DEF StateInv
<1>13. r.key \in Own(d) \/ (Forgotten(r.state, r.key) /\ r.key \notin Spent(d))
  BY <1>6, <1>7 DEF StateInv
<1>14. ASSUME NEW c \in Drafted(d)' PROVE DraftInv(d, c)'
  <2>1. DraftInv(d, c)  BY <1>3, <1>12, <1>13 DEF DraftInv
  <2> QED  BY <1>1, <2>1, DraftKept
<1>15. ASSUME NEW e \in Device
       PROVE  /\ StateInv(e, state[e])'
              /\ \A x \in seals'[e] : RestoreInv(e, x)'
              /\ (e # d => \A c \in Drafted(e)' : DraftInv(e, c)')
  BY <1>1, <1>2, ReadKept
<1> QED  BY <1>14, <1>15 DEF ReadInv

(* What OpenAdopt may rely on: the body was released by the peer, no body  *)
(* opened before has its key, and the draft has forgotten that key.        *)
LEMMA AdoptSound ==
  ASSUME TypeOK, BodiesInv, ApartInv, ReadInv,
         NEW d \in Device, NEW i \in DOMAIN opens[d], OpenAdopt(d, i)
  PROVE  LET c == opens[d][i]
         IN  /\ c \in Drafted(d)
             /\ c.body \in network /\ c.body.from = Peer(d)
             /\ c.key = sealed[Peer(d)][c.body.id]
             /\ c.key \in ChainKey
             /\ c.key \notin Spent(d)
             /\ Forgotten(c.draft, c.key)
<1> DEFINE c == opens[d][i]
<1>1. c \in Drafted(d) /\ c.body \in Asked(d) /\ c.key = c.body.key
  BY DEF OpenAdopt, Drafted, Asked, Authenticates
<1> HIDE DEF c
<1>2. c.body \in network /\ c.body.from = Peer(d)  BY <1>1 DEF BodiesInv
<1>3. c.body.id \in DOMAIN sealed[Peer(d)] /\ sealed[Peer(d)][c.body.id] = c.body.key
  BY <1>2 DEF BodiesInv, Known
<1>4. c.key \in Own(Peer(d)) /\ c.key \in ChainKey
  BY <1>1, <1>2, <1>3 DEF Own, TypeOK, Body
<1>5. c.key \notin Own(d)
  BY <1>4, OwnOpensNothing
<1>6. DraftInv(d, c)  BY <1>1 DEF ReadInv
<1> QED  BY <1>1, <1>2, <1>3, <1>4, <1>5, <1>6 DEF DraftInv, c

LEMMA ReadAdopt ==
  ASSUME TypeOK, BodiesInv, LockInv, ApartInv, ReadInv, [Next]_vars,
         NEW d \in Device, NEW i \in DOMAIN opens[d], OpenAdopt(d, i)
  PROVE  ReadInv'
<1> DEFINE c     == opens[d][i]
           after == Adopted(state[d], c.draft, c.epochAtStart # sendEpoch[d])
<1>1. /\ state' = [state EXCEPT ![d] = after]
      /\ opened' = [opened EXCEPT ![d] = Append(@, c.body.id)]
      /\ ~Waiting(c) /\ UNCHANGED <<sealed, seals>>
  BY DEF OpenAdopt
<1>2. Drafted(d)' = {} /\ \A e \in Device : e # d => Drafted(e)' = Drafted(e)
  BY DoneEffect
<1>3. c.draft \in SessionState /\ state[d] \in SessionState /\ c.body.id \in Nat
  BY <1>1, CallAt DEF Waiting, Call, TypeOK, Body
<1>4. /\ c \in Drafted(d)
      /\ c.key = sealed[Peer(d)][c.body.id]
      /\ Forgotten(c.draft, c.key)
  BY AdoptSound
<1>5. /\ state'[d] = after /\ opened'[d] = Append(opened[d], c.body.id)
      /\ \A e \in Device : e # d => state'[e] = state[e] /\ opened'[e] = opened[e]
      /\ opened[d] \in Seq(Nat)
  BY <1>1 DEF TypeOK
<1>6. /\ after.rootKey = c.draft.rootKey
      /\ SameReceiving(c.draft, after)
      /\ after.previousSendingKeys = c.draft.previousSendingKeys
      /\ SameSendingHalf(c.draft, after) \/ SameSendingHalf(state[d], after)
  BY <1>3, AdoptEffect
<1> HIDE DEF after, c
<1>7. StateInv(d, c.draft) /\ StateInv(d, state[d])  BY <1>4 DEF ReadInv, DraftInv
<1>8. StateInv(d, after)
  <2>1. after.sentMessageKeys = c.draft.sentMessageKeys
        \/ after.sentMessageKeys = state[d].sentMessageKeys
    BY <1>6 DEF SameSendingHalf
  <2>2. SentBounded(after.sentMessageKeys)
    BY <1>7, <2>1 DEF StateInv
  <2>3. \A e \in after.sentMessageKeys \cup after.previousSendingKeys : e.key \in Own(d)
    BY <1>6, <1>7, <2>1 DEF StateInv
  <2> QED  BY <1>6, <1>7, <2>2, <2>3, SendingMoved
<1>9. Forgotten(after, c.key)  BY <1>4, <1>6, ReceivingKept
<1>10. Spent(d)' \subseteq Spent(d) \cup {c.key}
  <2>1. \A j \in DOMAIN opened'[d] :
          opened'[d][j] = c.body.id \/ (j \in DOMAIN opened[d] /\ opened'[d][j] = opened[d][j])
    BY <1>3, <1>5, AppendProperties, LenProperties
  <2> QED  BY <1>1, <1>4, <2>1 DEF Spent, Peer
<1>11. Own(d)' = Own(d)  BY <1>1 DEF Own
<1>12. StateInv(d, state[d])'
  BY <1>5, <1>8, <1>9, <1>10, <1>11 DEF StateInv
<1>13. \A s \in seals'[d] : RestoreInv(d, s)'  BY <1>1, RestoreKept DEF ReadInv
<1>14. ASSUME NEW e \in Device, e # d
       PROVE  /\ StateInv(e, state[e])'
              /\ \A x \in seals'[e] : RestoreInv(e, x)'
              /\ \A x \in Drafted(e)' : DraftInv(e, x)'
  BY <1>1, <1>2, <1>5, <1>14, ReadKept
<1> QED  BY <1>2, <1>12, <1>13, <1>14 DEF ReadInv

(* A map that gives up entries brings no key back.                         *)
LEMMA ReadTrim ==
  ASSUME TypeOK, BodiesInv, ReadInv, [Next]_vars, NEW d \in Device, Trim(d)
  PROVE  ReadInv'
<1> DEFINE s == state[d]
           t == state'[d]
<1>1. /\ Trimmed(s, t)
      /\ \A e \in Device : e # d => state'[e] = state[e]
      /\ UNCHANGED <<seals, opens, sealed, opened>>
  BY TrimEffect
<1>2. StateInv(d, s)  BY DEF ReadInv
<1> HIDE DEF s, t
<1>3. ReceiveInv(t) /\ \A k \in Spent(d) : Forgotten(t, k)
  BY <1>1, <1>2 DEF StateInv, ReceiveInv, Forgotten, Trimmed
<1>4. SkippedBounded(t) /\ SentBounded(t.sentMessageKeys)
  <2>1. SkippedBounded(s) /\ SentBounded(s.sentMessageKeys)  BY <1>2 DEF StateInv
  <2>2. /\ IsFiniteSet(t.skippedMessageKeys)
        /\ Cardinality(t.skippedMessageKeys) <= Cardinality(s.skippedMessageKeys)
        /\ IsFiniteSet(t.sentMessageKeys)
        /\ Cardinality(t.sentMessageKeys) <= Cardinality(s.sentMessageKeys)
    BY <1>1, <2>1, FS_Subset DEF SkippedBounded, SentBounded, Trimmed
  <2>3. /\ Cardinality(t.skippedMessageKeys) \in Nat /\ Cardinality(s.skippedMessageKeys) \in Nat
        /\ Cardinality(t.sentMessageKeys) \in Nat /\ Cardinality(s.sentMessageKeys) \in Nat
    BY <2>1, <2>2, FS_CardinalityType DEF SkippedBounded, SentBounded
  <2>4. OneKeyEach(t.sentMessageKeys)
    BY <1>1, <2>1 DEF SentBounded, OneKeyEach, Trimmed
  <2> QED  BY <2>1, <2>2, <2>3, <2>4, BoundsAssumption DEF SkippedBounded, SentBounded
<1>5. StateInv(d, t)
  <2>1. \A e \in t.sentMessageKeys \cup t.previousSendingKeys : e.key \in Own(d)
    BY <1>1, <1>2 DEF StateInv, Trimmed
  <2> QED  BY <1>3, <1>4, <2>1 DEF StateInv
<1>6. StateInv(d, state[d])'
  BY <1>1, <1>5, StateKept DEF t, StateInv, Own, Spent, Peer
<1>7. \A e \in Device : Drafted(e)' = Drafted(e)  BY <1>1, QueueUnchanged
<1> QED  BY <1>1, <1>6, <1>7, ReadKept DEF ReadInv

LEMMA ReadNext ==
  TypeOK /\ BodiesInv /\ LockInv /\ ApartInv /\ ReadInv /\ [Next]_vars => ReadInv'
<1> SUFFICES ASSUME TypeOK, BodiesInv, LockInv, ApartInv, ReadInv, [Next]_vars
             PROVE  ReadInv'
  OBVIOUS
<1>1. CASE UNCHANGED vars
  <2>1. UNCHANGED <<state, opened, sealed, seals, opens>>  BY <1>1 DEF vars
  <2> QED  BY <2>1, QueueUnchanged, ReadKept DEF ReadInv
<1>2. ASSUME NEW d \in Device, NEW i \in DOMAIN opens[d], Running(d, i)
      PROVE  ReadInv'
  BY <1>2, ReadStart, ReadQueue, ReadAdopt DEF Running
<1>3. CASE Next
  BY <1>2, <1>3, ReadEncrypt, ReadSettle, ReadRekey, ReadQueue, ReadTrim DEF Next, Trim
<1> QED  BY <1>1, <1>3

(* The key of a body that was opened can be had from the state no more:    *)
(* for every order, repetition and relabelling of deliveries, every        *)
(* interleaving with sends, failures and rekeys, and every bound.          *)
THEOREM SpentKeysStayForgotten == Spec => []SpentKeysForgotten
<1>1. ReadInv => SpentKeysForgotten
  BY DEF ReadInv, StateInv, Spent, Forgotten, SpentKeysForgotten
<1> QED
  BY <1>1, TypeInit, TypeNext, LockInit, LockNext, KeysInit, KeysNext, BodiesInit, BodiesNext,
     ApartInit, ApartNext, ReadInit, ReadNext, PTL DEF Spec

-----------------------------------------------------------------------------
(* The window of held keys.                                                *)

(* What a map gives up is older than what it keeps. *)
LEMMA NewestOlder ==
  ASSUME NEW S \in SUBSET Entry, IsFiniteSet(S), NEW max \in Nat,
         NEW x \in S, x \notin Newest(S, max), NEW e \in Newest(S, max)
  PROVE  e.num > x.num
<1> DEFINE After(y) == {f \in S : f.num > y.num}
<1>1. e \in S /\ Cardinality(After(e)) < max /\ ~(Cardinality(After(x)) < max)
  BY DEF Newest
<1>2. e.num \in Nat /\ x.num \in Nat /\ \A f \in S : f.num \in Nat  BY <1>1 DEF Entry
<1>3. IsFiniteSet(After(e)) /\ IsFiniteSet(After(x))  BY FS_Subset
<1>4. Cardinality(After(e)) \in Nat /\ Cardinality(After(x)) \in Nat
  BY <1>3, FS_CardinalityType
<1> SUFFICES ASSUME e.num <= x.num PROVE FALSE  BY <1>2
<1>5. After(x) \subseteq After(e)  BY <1>2
<1>6. Cardinality(After(x)) <= Cardinality(After(e))  BY <1>3, <1>5, FS_Subset
<1> HIDE DEF After
<1> QED  BY <1>1, <1>4, <1>6

(* Between two numbers there are at most as many entries as numbers. *)
LEMMA LaterFew ==
  ASSUME NEW S \in SUBSET Entry, OneKeyEach(S), NEW m \in Nat, NEW n \in Nat, m < n,
         \A e \in S : e.num < n
  PROVE  /\ IsFiniteSet({f \in S : f.num > m})
         /\ Cardinality({f \in S : f.num > m}) <= n - 1 - m
<1> DEFINE later == {f \in S : f.num > m}
           above == m + 1 .. n - 1
           g == [f \in later |-> f.num]
<1>1. \A f \in S : f.num \in Nat  BY DEF Entry
<1>2. IsFiniteSet(above) /\ Cardinality(above) = n - 1 - m
  <2>1. /\ m + 1 \in Int /\ n - 1 \in Int
        /\ (m + 1 > n - 1 => n - 1 - m = 0) /\ n - 1 - (m + 1) + 1 = n - 1 - m
    OBVIOUS
  <2> QED  BY <2>1, FS_Interval
<1>3. g \in [later -> above]  BY <1>1
<1>4. \A f, h \in later : g[f] = g[h] => f = h  BY DEF OneKeyEach
<1>5. g \in Injection(later, above)  BY <1>3, <1>4, Fun_IsInj
<1> QED  BY <1>2, <1>5, FS_Injection

(* A number the chain is past whose key is neither held nor in keys: nothing as old is held, and,   *)
(* unless the quota was full, the chain has run past more than the window after it.                 *)
GaveWay(s, n) ==
  /\ \A e \in s.skippedMessageKeys : e.num > n
  /\ prunes = 0 => s.receivingMessageNumber > n + MaxSkippedKeys + 1

Window(s, keys) ==
  s.receivingChainKey # None =>
    \A n \in Nat : n < s.receivingMessageNumber =>
      LET k == [chain |-> s.receivingChainKey.chain, pos |-> n]
      IN  [num |-> n, key |-> k] \in s.skippedMessageKeys \/ k \in keys \/ GaveWay(s, n)

WindowOf(d) ==
  /\ Window(state[d], Spent(d))
  /\ \A c \in Drafted(d) : Window(c.draft, Spent(d) \cup {c.key})

WindowInv == \A d \in Device : WindowOf(d)

LEMMA HeldWindow ==
  ASSUME NEW s \in SessionState, NEW n \in Nat, NEW r \in HeldKey(s, n), NEW keys, Window(s, keys)
  PROVE  Window(r.state, keys \cup {r.key})
<1>1. PICK e \in s.skippedMessageKeys :
        r = [key |-> e.key, state |-> [s EXCEPT !.skippedMessageKeys = @ \ {e}]]
  BY DEF HeldKey
<1>2. /\ r.key = e.key
      /\ r.state.receivingChainKey = s.receivingChainKey
      /\ r.state.receivingMessageNumber = s.receivingMessageNumber
      /\ r.state.skippedMessageKeys = s.skippedMessageKeys \ {e}
  BY <1>1 DEF SessionState
<1> SUFFICES ASSUME s.receivingChainKey # None, NEW m \in Nat, m < s.receivingMessageNumber
             PROVE  LET k == [chain |-> s.receivingChainKey.chain, pos |-> m]
                    IN  \/ [num |-> m, key |-> k] \in r.state.skippedMessageKeys
                        \/ k \in keys \cup {r.key}
                        \/ GaveWay(r.state, m)
  BY <1>2 DEF Window
<1> DEFINE k == [chain |-> s.receivingChainKey.chain, pos |-> m]
           x == [num |-> m, key |-> k]
<1>3. x \in s.skippedMessageKeys \/ k \in keys \/ GaveWay(s, m)  BY DEF Window
<1>4. x.key = k  OBVIOUS
<1> HIDE DEF k, x
<1>5. GaveWay(s, m) => GaveWay(r.state, m)  BY <1>2 DEF GaveWay
<1>6. x \in r.state.skippedMessageKeys \/ k \in keys \cup {r.key} \/ GaveWay(r.state, m)
  BY <1>2, <1>3, <1>4, <1>5
<1> QED  BY <1>6 DEF k, x

LEMMA NextWindow ==
  ASSUME NEW s \in SessionState, NEW n \in Nat, NEW r \in NextKey(s, n), ReceiveInv(s),
         SkippedBounded(s), NEW keys, Window(s, keys)
  PROVE  Window(r.state, keys \cup {r.key})
<1> DEFINE gap    == n - s.receivingMessageNumber
           passed == {[num |-> s.receivingMessageNumber + i,
                       key |-> Advance(s.receivingChainKey, i)] : i \in 0 .. gap - 1}
           all    == s.skippedMessageKeys \cup passed
           held   == Newest(all, MaxSkippedKeys)
           key    == Advance(s.receivingChainKey, gap)
           next   == Advance(s.receivingChainKey, gap + 1)
           chain  == s.receivingChainKey.chain
           start  == s.receivingMessageNumber
<1>1. /\ s.receivingChainKey \in ChainKey /\ s.receivingChainKey # None
      /\ gap \in Nat /\ start \in Nat /\ s.receivingChainKey.pos = start
      /\ n = start + gap
  BY BoundsAssumption DEF NextKey, SessionState, ReceiveInv
<1>2. /\ r.key = key
      /\ r.state = [s EXCEPT !.receivingChainKey = next,
                             !.receivingMessageNumber = n + 1,
                             !.skippedMessageKeys = held]
  BY DEF NextKey
<1>3. \A i \in Nat : Advance(s.receivingChainKey, i) = [chain |-> chain, pos |-> start + i]
  BY <1>1 DEF Advance
<1>4. passed \subseteq Entry /\ s.skippedMessageKeys \subseteq Entry
  <2>1. ASSUME NEW i \in 0 .. gap - 1
        PROVE  [num |-> start + i, key |-> Advance(s.receivingChainKey, i)] \in Entry
    <3>1. i \in Nat  BY <1>1
    <3> QED  BY <1>1, <3>1, AdvanceType DEF Entry
  <2> QED  BY <2>1 DEF SessionState
<1>5. /\ \A e \in s.skippedMessageKeys : e.key = [chain |-> chain, pos |-> e.num] /\ e.num < start
      /\ \A e \in passed : e.key = [chain |-> chain, pos |-> e.num] /\ e.num >= start /\ e.num < n
  <2>1. ASSUME NEW e \in s.skippedMessageKeys
        PROVE  e.key = [chain |-> chain, pos |-> e.num] /\ e.num < start
    <3>1. e.key \in ChainKey /\ e.num \in Nat  BY <1>4 DEF Entry
    <3>2. e.key.chain = chain /\ e.key.pos = e.num /\ e.num < start
      BY <1>1, <2>1 DEF ReceiveInv
    <3> QED  BY <3>1, <3>2 DEF ChainKey
  <2>2. ASSUME NEW e \in passed
        PROVE  e.key = [chain |-> chain, pos |-> e.num] /\ e.num >= start /\ e.num < n
    <3>1. PICK i \in 0 .. gap - 1 : e = [num |-> start + i, key |-> Advance(s.receivingChainKey, i)]
      BY <2>2
    <3>2. i \in Nat /\ start + i < n /\ start + i >= start  BY <1>1
    <3> QED  BY <1>3, <3>1, <3>2
  <2> QED  BY <2>1, <2>2
<1>6. /\ all \in SUBSET Entry /\ IsFiniteSet(all) /\ OneKeyEach(all)
      /\ \A e \in all : e.num < n /\ e.num \in Nat
  <2>1. IsFiniteSet(passed)
    <3> HIDE DEF gap
    <3> QED  BY <1>1, PassedFinite
  <2>2. IsFiniteSet(all)  BY <2>1, FS_Union DEF SkippedBounded
  <2>3. \A e \in all : e \in Entry /\ e.num < n /\ e.key = [chain |-> chain, pos |-> e.num]
    <3> HIDE DEF passed, gap
    <3> QED  BY <1>1, <1>4, <1>5 DEF Entry
  <2> HIDE DEF all
  <2>4. ASSUME NEW e \in all, NEW f \in all, e.num = f.num
        PROVE  e = f
    <3>1. e.key = f.key  BY <2>3, <2>4
    <3>2. e \in Entry /\ f \in Entry  BY <2>3
    <3> QED  BY <2>4, <3>1, <3>2 DEF Entry
  <2>5. OneKeyEach(all)  BY <2>4 DEF OneKeyEach
  <2> QED  BY <2>2, <2>3, <2>5 DEF Entry
<1>7. /\ r.state.receivingChainKey = next
      /\ r.state.receivingMessageNumber = n + 1
      /\ r.state.skippedMessageKeys = held
  <2> HIDE DEF next, held
  <2> QED  BY <1>2 DEF SessionState
<1>8. next.chain = chain  BY DEF Advance
<1>9. ASSUME NEW x \in all, x \notin held PROVE GaveWay(r.state, x.num)
  <2> HIDE DEF all
  <2> DEFINE later == {f \in all : f.num > x.num}
  <2>1. \A e \in held : e.num > x.num  BY <1>6, <1>9, BoundsAssumption, NewestOlder
  <2>2. x.num \in Nat /\ x.num < n  BY <1>6
  <2>3. IsFiniteSet(later) /\ Cardinality(later) <= n - 1 - x.num
    BY <1>6, <2>2, LaterFew
  <2>4. ~(Cardinality(later) < MaxSkippedKeys)  BY <1>9 DEF Newest
  <2>5. Cardinality(later) \in Nat  BY <2>3, FS_CardinalityType
  <2> HIDE DEF later, held
  <2>6. n + 1 > x.num + MaxSkippedKeys + 1
    BY <2>2, <2>3, <2>4, <2>5, BoundsAssumption
  <2> QED  BY <1>7, <2>1, <2>6 DEF GaveWay
<1>10. ASSUME NEW m \in Nat, m < n + 1
       PROVE  LET k == [chain |-> chain, pos |-> m]
              IN  [num |-> m, key |-> k] \in held \/ k \in keys \cup {r.key} \/ GaveWay(r.state, m)
  <2> DEFINE k == [chain |-> chain, pos |-> m]
             x == [num |-> m, key |-> k]
  <2>1. ASSUME x \in all PROVE x \in held \/ GaveWay(r.state, m)
    <3>1. x.num = m  OBVIOUS
    <3> HIDE DEF x, all, held
    <3> QED  BY <1>9, <2>1, <3>1
  <2>2. CASE m < start
    <3>1. x \in s.skippedMessageKeys \/ k \in keys \/ GaveWay(s, m)  BY <1>1, <2>2 DEF Window
    <3>2. ASSUME GaveWay(s, m) PROVE GaveWay(r.state, m)
      <4>1. held \subseteq all  BY NewestSubset
      <4>2. ASSUME NEW e \in all PROVE e.num > m
        <5>1. CASE e \in s.skippedMessageKeys  BY <3>2, <5>1 DEF GaveWay
        <5>2. CASE e \in passed
          <6>1. e.num >= start /\ e.num \in Nat  BY <1>5, <1>6, <5>2
          <6> HIDE DEF gap
          <6> QED  BY <1>1, <2>2, <6>1
        <5> QED  BY <5>1, <5>2
      <4>3. start > m + MaxSkippedKeys + 1 => n + 1 > m + MaxSkippedKeys + 1
        <5> HIDE DEF gap
        <5> QED  BY <1>1, BoundsAssumption
      <4> HIDE DEF all, held
      <4> QED  BY <1>7, <3>2, <4>1, <4>2, <4>3 DEF GaveWay
    <3> QED  BY <2>1, <3>1, <3>2
  <2>3. CASE m >= start /\ m < n
    <3> DEFINE i == m - start
    <3>1. i \in 0 .. gap - 1 /\ i \in Nat /\ start + i = m  BY <1>1, <2>3
    <3>2. [num |-> start + i, key |-> Advance(s.receivingChainKey, i)] \in passed  BY <3>1
    <3>3. Advance(s.receivingChainKey, i) = k  BY <1>3, <3>1
    <3>4. x \in all  BY <3>1, <3>2, <3>3
    <3> QED  BY <2>1, <3>4
  <2>4. CASE m = n
    <3>1. key = k  BY <1>1, <1>3, <2>4
    <3> QED  BY <1>2, <3>1
  <2>5. m < start \/ (m >= start /\ m < n) \/ m = n
    <3> HIDE DEF gap
    <3> QED  BY <1>1, <1>10
  <2> QED  BY <2>2, <2>3, <2>4, <2>5
<1> HIDE DEF all, held, next, chain
<1> QED  BY <1>7, <1>8, <1>10 DEF Window

(* Whatever key is found, the window of the draft gave up its oldest. *)
LEMMA FindWindow ==
  ASSUME NEW s \in SessionState, NEW rk \in Keys, NEW n \in Nat, NEW fresh \in Keys,
         NEW r \in FindMessageKey(s, rk, n, fresh), ReceiveInv(s), SkippedBounded(s),
         NEW keys, Window(s, keys)
  PROVE  Window(r.state, keys \cup {r.key})
<1> DEFINE step == RatchetStep(s, rk, fresh)
<1>1. CASE r \in TakePreviousChainKey(s, rk, n) \cup TakePreviousReceivingKey(s, rk, n)
  <2>1. /\ r.state.receivingChainKey = s.receivingChainKey
        /\ r.state.receivingMessageNumber = s.receivingMessageNumber
        /\ r.state.skippedMessageKeys = s.skippedMessageKeys
    BY <1>1 DEF TakePreviousChainKey, TakePreviousReceivingKey, SessionState
  <2> QED  BY <2>1 DEF Window, GaveWay
<1>2. CASE r \in AdvanceReceivingChain(s, n)
  BY <1>2, HeldWindow, NextWindow DEF AdvanceReceivingChain
<1>3. CASE r \in AdvanceReceivingChain(step, n)
  <2>1. step \in SessionState /\ ReceiveInv(step)  BY StepType, StepReceive
  <2>2. step.receivingMessageNumber = 0 /\ step.skippedMessageKeys = {}
    BY DEF RatchetStep, SessionState
  <2> HIDE DEF step
  <2>3. Window(step, keys) /\ SkippedBounded(step)  BY <2>2, NoneHeld DEF Window
  <2> QED  BY <1>3, <2>1, <2>3, HeldWindow, NextWindow DEF AdvanceReceivingChain
<1> QED  BY <1>1, <1>2, <1>3 DEF FindMessageKey

LEMMA WindowInit == Init => WindowInv
<1> SUFFICES ASSUME Init, NEW d \in Device
             PROVE  Window(state[d], Spent(d)) /\ Drafted(d) = {}
  BY DEF WindowInv, WindowOf
<1>1. state[d].receivingMessageNumber = 0
  <2>1. \/ state[d] = InitiatorState(KeyOf(Initiator, 0))
        \/ state[d] = ResponderState(KeyOf(Responder, 0), KeyOf(Initiator, 0))
    BY DEF Init
  <2>2. InitiatorState(KeyOf(Initiator, 0)).receivingMessageNumber = 0
    BY DEF InitiatorState, FreshState
  <2>3. ResponderState(KeyOf(Responder, 0), KeyOf(Initiator, 0)).receivingMessageNumber = 0
    <3> DEFINE root == DhRatchet(HandshakeRoot, KeyOf(Responder, 0), KeyOf(Initiator, 0))
    <3>1. ResponderState(KeyOf(Responder, 0), KeyOf(Initiator, 0))
            = [FreshState(root, ChainFrom(root), KeyOf(Responder, 0)) EXCEPT
                 !.receivingChainKey = ChainFrom(HandshakeRoot),
                 !.receivingRatchetPublicKey = KeyOf(Initiator, 0)]
      BY DEF ResponderState
    <3> HIDE DEF root
    <3> QED  BY <3>1 DEF FreshState
  <2> QED  BY <2>1, <2>2, <2>3
<1> QED  BY <1>1 DEF Init, Drafted, Window

(* What a step that leaves a device's receiving half alone leaves of it. *)
LEMMA WindowKept ==
  ASSUME NEW d \in Device, WindowOf(d), SameReceiving(state[d], state'[d]),
         Drafted(d)' \subseteq Drafted(d), Spent(d)' = Spent(d), prunes' = prunes
  PROVE  WindowOf(d)'
<1>1. Window(state[d], Spent(d))'  BY DEF WindowOf, Window, GaveWay, SameReceiving
<1>2. ASSUME NEW c \in Drafted(d)' PROVE Window(c.draft, Spent(d) \cup {c.key})'
  <2>1. Window(c.draft, Spent(d) \cup {c.key})  BY DEF WindowOf
  <2> QED  BY <2>1 DEF Window, GaveWay
<1> QED  BY <1>1, <1>2 DEF WindowOf

LEMMA WindowStart ==
  ASSUME TypeOK, BodiesInv, LockInv, ReadInv, WindowInv, [Next]_vars,
         NEW d \in Device, NEW i \in DOMAIN opens[d], OpenStart(d, i)
  PROVE  WindowInv'
<1> DEFINE call  == opens[d][i]
           fresh == KeyOf(d, nextKey[d])
<1>1. UNCHANGED <<state, opened, sealed, prunes>>  BY DEF OpenStart
<1>2. \A e \in Device : e # d => Drafted(e)' = Drafted(e)  BY StartEffect
<1>3. PICK r \in Found(d, call) : \A c \in Drafted(d)' : c.draft = r.state /\ c.key = r.key
  BY StartEffect
<1>4. /\ state[d] \in SessionState /\ call.rk \in Keys /\ call.num \in Nat /\ fresh \in Keys
  BY CallAt, FreshType DEF TypeOK, Call
<1>5. r \in FindMessageKey(state[d], call.rk, call.num, fresh)  BY DEF Found
<1> HIDE DEF call, fresh
<1>6. StateInv(d, state[d])  BY DEF ReadInv
<1>7. Window(state[d], Spent(d))  BY DEF WindowInv, WindowOf
<1>8. Window(r.state, Spent(d) \cup {r.key})
  BY <1>4, <1>5, <1>6, <1>7, FindWindow DEF StateInv
<1>9. \A e \in Device : Spent(e)' = Spent(e)  BY <1>1, SpentKept
<1>10. WindowOf(d)'
  <2>1. Window(state[d], Spent(d))'  BY <1>1, <1>7, <1>9 DEF Window, GaveWay
  <2>2. ASSUME NEW c \in Drafted(d)' PROVE Window(c.draft, Spent(d) \cup {c.key})'
    <3>1. Window(c.draft, Spent(d) \cup {c.key})  BY <1>3, <1>8
    <3> QED  BY <1>1, <1>9, <3>1 DEF Window, GaveWay
  <2> QED  BY <2>1, <2>2 DEF WindowOf
<1>11. ASSUME NEW e \in Device, e # d PROVE WindowOf(e)'
  BY <1>1, <1>2, <1>9, <1>11, WindowKept DEF WindowInv, SameReceiving
<1> QED  BY <1>10, <1>11 DEF WindowInv

LEMMA WindowAdopt ==
  ASSUME TypeOK, BodiesInv, LockInv, ApartInv, ReadInv, WindowInv, [Next]_vars,
         NEW d \in Device, NEW i \in DOMAIN opens[d], OpenAdopt(d, i)
  PROVE  WindowInv'
<1> DEFINE c     == opens[d][i]
           after == Adopted(state[d], c.draft, c.epochAtStart # sendEpoch[d])
<1>1. /\ state' = [state EXCEPT ![d] = after]
      /\ opened' = [opened EXCEPT ![d] = Append(@, c.body.id)]
      /\ ~Waiting(c) /\ UNCHANGED <<sealed, prunes>>
  BY DEF OpenAdopt
<1>2. Drafted(d)' = {} /\ \A e \in Device : e # d => Drafted(e)' = Drafted(e)
  BY DoneEffect
<1>3. c.draft \in SessionState /\ state[d] \in SessionState /\ c.body.id \in Nat
  BY <1>1, CallAt DEF Waiting, Call, TypeOK, Body
<1>4. c \in Drafted(d) /\ c.key = sealed[Peer(d)][c.body.id]  BY AdoptSound
<1>5. /\ state'[d] = after /\ opened'[d] = Append(opened[d], c.body.id)
      /\ \A e \in Device : e # d => state'[e] = state[e] /\ opened'[e] = opened[e]
      /\ opened[d] \in Seq(Nat)
  BY <1>1 DEF TypeOK
<1>6. SameReceiving(c.draft, after)  BY <1>3, AdoptEffect
<1> HIDE DEF after, c
<1>7. Spent(d) \cup {c.key} \subseteq Spent(d)'
  <2>1. /\ \A j \in DOMAIN opened[d] : j \in DOMAIN opened'[d] /\ opened'[d][j] = opened[d][j]
        /\ Len(opened[d]) + 1 \in DOMAIN opened'[d]
        /\ opened'[d][Len(opened[d]) + 1] = c.body.id
    BY <1>3, <1>5, AppendProperties, LenProperties
  <2> QED  BY <1>1, <1>4, <2>1 DEF Spent
<1>8. Window(c.draft, Spent(d) \cup {c.key})  BY <1>4 DEF WindowInv, WindowOf
<1>9. Window(state[d], Spent(d))'
  BY <1>1, <1>5, <1>6, <1>7, <1>8 DEF Window, GaveWay, SameReceiving
<1>10. WindowOf(d)'  BY <1>2, <1>9 DEF WindowOf
<1>11. ASSUME NEW e \in Device, e # d PROVE WindowOf(e)'
  BY <1>1, <1>2, <1>5, <1>11, SpentKept, WindowKept DEF WindowInv, SameReceiving
<1> QED  BY <1>10, <1>11 DEF WindowInv

(* A full quota takes the older half; what is read back is within the cap already. *)
LEMMA WindowTrim ==
  ASSUME TypeOK, BodiesInv, ReadInv, WindowInv, [Next]_vars, NEW d \in Device, Trim(d)
  PROVE  WindowInv'
<1> DEFINE s    == state[d]
           t    == state'[d]
           held == s.skippedMessageKeys
<1>1. /\ Trimmed(s, t)
      /\ \A e \in Device : e # d => state'[e] = state[e]
      /\ UNCHANGED <<opens, sealed, opened>>
  BY TrimEffect
<1>2. \A e \in Device : Drafted(e)' = Drafted(e) /\ Spent(e)' = Spent(e)
  BY <1>1, QueueUnchanged, SpentKept
<1>3. /\ held \in SUBSET Entry /\ IsFiniteSet(held) /\ Cardinality(held) <= MaxSkippedKeys
      /\ Cardinality(held) \in Nat
  BY FS_CardinalityType DEF ReadInv, StateInv, SkippedBounded, TypeOK, SessionState
<1>4. CASE PruneForQuota(d)
  <2>1. prunes' # 0  BY <1>4 DEF PruneForQuota, TypeOK
  <2>2. t.skippedMessageKeys = Halved(held)
    BY <1>4 DEF PruneForQuota, Pruned, TypeOK, SessionState
  <2> DEFINE max == (Cardinality(held) + 1) \div 2
  <2>3. max \in Nat /\ t.skippedMessageKeys = Newest(held, max)
    BY <1>3, <2>2 DEF Halved
  <2> HIDE DEF s, t, max, held
  <2>4. ASSUME NEW x \in held, x \notin t.skippedMessageKeys
        PROVE  \A e \in t.skippedMessageKeys : e.num > x.num
    BY <1>3, <2>3, <2>4, NewestOlder
  <2>5. Window(s, Spent(d))  BY DEF WindowInv, WindowOf, s
  <2>6. ASSUME s.receivingChainKey # None, NEW n \in Nat, n < s.receivingMessageNumber
        PROVE  LET k == [chain |-> s.receivingChainKey.chain, pos |-> n]
               IN  \/ [num |-> n, key |-> k] \in t.skippedMessageKeys
                   \/ k \in Spent(d)
                   \/ \A e \in t.skippedMessageKeys : e.num > n
    <3> DEFINE k == [chain |-> s.receivingChainKey.chain, pos |-> n]
               x == [num |-> n, key |-> k]
    <3>1. x \in held \/ k \in Spent(d) \/ GaveWay(s, n)  BY <2>5, <2>6 DEF Window, held
    <3>2. x.num = n  OBVIOUS
    <3> HIDE DEF x, k
    <3>3. GaveWay(s, n) => \A e \in t.skippedMessageKeys : e.num > n
      BY <1>1 DEF GaveWay, Trimmed
    <3>4. x \in t.skippedMessageKeys \/ k \in Spent(d)
            \/ \A e \in t.skippedMessageKeys : e.num > n
      BY <2>4, <3>1, <3>2, <3>3
    <3> QED  BY <3>4 DEF x, k
  <2>7. Window(state[d], Spent(d))'
    BY <1>1, <1>2, <2>1, <2>6 DEF Window, GaveWay, Trimmed, t
  <2>8. ASSUME NEW e \in Device PROVE WindowOf(e)'
    <3>1. WindowOf(e)  BY DEF WindowInv
    <3>2. ASSUME NEW c \in Drafted(e)' PROVE Window(c.draft, Spent(e) \cup {c.key})'
      <4>1. Window(c.draft, Spent(e) \cup {c.key})  BY <1>2, <3>1 DEF WindowOf
      <4> QED  BY <1>2, <2>1, <4>1 DEF Window, GaveWay
    <3>3. e # d => Window(state[e], Spent(e))'
      BY <1>1, <1>2, <2>1, <3>1 DEF WindowOf, Window, GaveWay
    <3> QED  BY <2>7, <3>2, <3>3 DEF WindowOf
  <2> QED  BY <2>8 DEF WindowInv
<1>5. CASE Reload(d)
  <2>1. prunes' = prunes  BY <1>5 DEF Reload
  <2>2. t.skippedMessageKeys = Newest(held, MaxSkippedKeys)
    BY <1>5 DEF Reload, Loaded, TypeOK, SessionState
  <2>3. t.skippedMessageKeys = held
    <3> HIDE DEF held, t
    <3> QED  BY <1>3, <2>2, BoundsAssumption, NewestSame
  <2>4. Window(state[d], Spent(d)) /\ \A e \in Device : WindowOf(e)
    BY DEF WindowInv, WindowOf
  <2>5. Window(state[d], Spent(d))'
    BY <1>1, <1>2, <2>1, <2>3, <2>4 DEF Window, GaveWay, Trimmed
  <2>6. WindowOf(d)'
    <3> SUFFICES ASSUME NEW c \in Drafted(d)' PROVE Window(c.draft, Spent(d) \cup {c.key})'
      BY <2>5 DEF WindowOf
    <3>1. Window(c.draft, Spent(d) \cup {c.key})  BY <1>2, <2>4 DEF WindowOf
    <3> QED  BY <1>2, <2>1, <3>1 DEF Window, GaveWay
  <2>7. ASSUME NEW e \in Device, e # d PROVE WindowOf(e)'
    BY <1>1, <1>2, <2>1, <2>4, <2>7, WindowKept DEF SameReceiving
  <2> QED  BY <2>6, <2>7 DEF WindowInv
<1> QED  BY <1>4, <1>5 DEF Trim

LEMMA WindowNext ==
  TypeOK /\ BodiesInv /\ LockInv /\ ApartInv /\ ReadInv /\ WindowInv /\ [Next]_vars => WindowInv'
<1> SUFFICES ASSUME TypeOK, BodiesInv, LockInv, ApartInv, ReadInv, WindowInv, [Next]_vars
             PROVE  WindowInv'
  OBVIOUS
<1>1. ASSUME UNCHANGED <<opened, prunes>>,
             \A e \in Device : /\ SameReceiving(state[e], state'[e])
                               /\ Drafted(e)' \subseteq Drafted(e)
      PROVE  WindowInv'
  BY <1>1, SpentKept, WindowKept DEF WindowInv
<1>2. \A s : SameReceiving(s, s)  BY DEF SameReceiving
<1>3. CASE UNCHANGED vars  BY <1>1, <1>2, <1>3, QueueUnchanged DEF vars
<1>4. ASSUME NEW d \in Device, EncryptBegin(d) PROVE WindowInv'
  <2>1. UNCHANGED <<opens, opened, prunes>>  BY <1>4 DEF EncryptBegin
  <2>2. \A e \in Device : SameReceiving(state[e], state'[e])
    <3>1. /\ SameReceiving(state[d], state'[d])
          /\ \A e \in Device : e # d => state'[e] = state[e]
      BY <1>4, EncryptEffect
    <3> QED  BY <1>2, <3>1
  <2> QED  BY <1>1, <2>1, <2>2, QueueUnchanged
<1>5. ASSUME NEW d \in Device, SealOk(d) \/ SealFail(d) PROVE WindowInv'
  <2>1. UNCHANGED <<opens, opened, prunes>>  BY <1>5 DEF SealOk, SealFail
  <2>2. \A e \in Device : SameReceiving(state[e], state'[e])
    <3>1. /\ SameReceiving(state[d], state'[d]) \/ state'[d] = state[d]
          /\ \A e \in Device : e # d => state'[e] = state[e]
      BY <1>5, SettleEffect
    <3> QED  BY <1>2, <3>1
  <2> QED  BY <1>1, <2>1, <2>2, QueueUnchanged
<1>6. ASSUME NEW d \in Device, IdleRekey(d) PROVE WindowInv'
  <2>1. UNCHANGED <<opens, opened, prunes>>  BY <1>6 DEF IdleRekey
  <2>2. \A e \in Device : SameReceiving(state[e], state'[e])
    <3>1. /\ SameReceiving(state[d], state'[d])
          /\ \A e \in Device : e # d => state'[e] = state[e]
      BY <1>6, RekeyEffect
    <3> QED  BY <1>2, <3>1
  <2> QED  BY <1>1, <2>1, <2>2, QueueUnchanged
<1>7. ASSUME NEW d \in Device, NEW body \in network, NEW header \in network,
             OpenCall(d, body, header)
      PROVE  WindowInv'
  <2>1. UNCHANGED <<state, opened, prunes>>  BY <1>7 DEF OpenCall
  <2> QED  BY <1>1, <1>2, <1>7, <2>1, CallEffect
<1>8. ASSUME NEW d \in Device, NEW i \in DOMAIN opens[d], OpenNoKey(d, i) \/ OpenReject(d, i)
      PROVE  WindowInv'
  <2>1. UNCHANGED <<state, opened, prunes>>  BY <1>8 DEF OpenNoKey, OpenReject
  <2>2. \A e \in Device : Drafted(e)' \subseteq Drafted(e)  BY <1>8, DoneEffect
  <2> QED  BY <1>1, <1>2, <2>1, <2>2
<1>9. ASSUME NEW d \in Device, NEW i \in DOMAIN opens[d], Running(d, i) PROVE WindowInv'
  BY <1>8, <1>9, WindowStart, WindowAdopt DEF Running
<1>10. CASE Next
  BY <1>4, <1>5, <1>6, <1>7, <1>9, <1>10, WindowTrim DEF Next, Trim
<1> QED  BY <1>3, <1>10

(* The key of a body that was not read is not among those that were. *)
LEMMA UnreadUnspent ==
  ASSUME KeysInv, BodiesInv, NEW d \in Device, NEW b \in network, b.from = Peer(d),
         \A i \in DOMAIN opened[d] : opened[d][i] # b.id
  PROVE  b.key \notin Spent(d)
<1> SUFFICES ASSUME NEW i \in DOMAIN opened[d], b.key = sealed[Peer(d)][opened[d][i]]
             PROVE  FALSE
  BY DEF Spent
<1>1. b.id \in DOMAIN sealed[Peer(d)] /\ sealed[Peer(d)][b.id] = b.key
  BY DEF BodiesInv, Known
<1>2. opened[d][i] \in DOMAIN sealed[Peer(d)]  BY DEF BodiesInv, Known
<1>3. opened[d][i] = b.id
  BY <1>1, <1>2, PeerType DEF KeysInv, NoMessageKeySealedTwice
<1> QED  BY <1>3

(* A receiving chain keeps the keys it runs past in a window that gives up *)
(* its oldest: an unread body is lost only when more than the window was   *)
(* run past after it or the quota was full, and never before an older one; *)
(* for every bound and order of reads, caps, halvings and restarts.        *)
THEOREM OldestGivesWayFirst == Spec => []OldestGiveWayFirst
<1>1. ASSUME TypeOK, KeysInv, BodiesInv, ReadInv, WindowInv PROVE OldestGiveWayFirst
  <2> SUFFICES ASSUME NEW d \in Device
               PROVE  /\ Cardinality(state[d].skippedMessageKeys) <= MaxSkippedKeys
                      /\ \A b \in PassedBy(d) : ~Keeps(d, b) =>
                           /\ prunes = 0 =>
                                state[d].receivingChainKey.pos > b.key.pos + MaxSkippedKeys + 1
                           /\ \A c \in PassedBy(d) : c.key.pos < b.key.pos => ~Keeps(d, c)
    BY DEF OldestGiveWayFirst
  <2>1. /\ ReceiveInv(state[d]) /\ Cardinality(state[d].skippedMessageKeys) <= MaxSkippedKeys
        /\ state[d] \in SessionState
    BY <1>1 DEF ReadInv, StateInv, SkippedBounded, TypeOK
  <2>2. ASSUME NEW b \in PassedBy(d), ~Keeps(d, b) PROVE GaveWay(state[d], b.key.pos)
    <3> DEFINE s == state[d]
               n == b.key.pos
    <3>1. /\ b \in network /\ b.from = Peer(d) /\ b \in Body
          /\ \A i \in DOMAIN opened[d] : opened[d][i] # b.id
          /\ s.receivingChainKey # None /\ b.key.chain = s.receivingChainKey.chain
          /\ n < s.receivingMessageNumber
      BY <1>1, <2>1 DEF PassedBy, TypeOK, ReceiveInv
    <3>2. n \in Nat /\ b.key = [chain |-> s.receivingChainKey.chain, pos |-> n]
      BY <3>1 DEF Body, ChainKey
    <3>3. b.key \notin Spent(d)  BY <1>1, <3>1, UnreadUnspent
    <3> DEFINE x == [num |-> n, key |-> b.key]
    <3>4. x \notin s.skippedMessageKeys
      <4>1. x.key = b.key  OBVIOUS
      <4> HIDE DEF x
      <4> QED  BY <2>2, <4>1 DEF Keeps
    <3>5. Window(s, Spent(d))  BY <1>1 DEF WindowInv, WindowOf
    <3> QED  BY <3>1, <3>2, <3>3, <3>4, <3>5 DEF Window
  <2>3. ASSUME NEW b \in PassedBy(d), ~Keeps(d, b), prunes = 0
        PROVE  state[d].receivingChainKey.pos > b.key.pos + MaxSkippedKeys + 1
    BY <2>1, <2>2, <2>3 DEF GaveWay, PassedBy, ReceiveInv
  <2>4. ASSUME NEW b \in PassedBy(d), ~Keeps(d, b), NEW c \in PassedBy(d),
               c.key.pos < b.key.pos, Keeps(d, c)
        PROVE  FALSE
    <3>1. PICK e \in state[d].skippedMessageKeys : e.key = c.key  BY <2>4 DEF Keeps
    <3>2. e.num > b.key.pos /\ e.key.pos = e.num
      BY <2>1, <2>2, <2>4 DEF GaveWay, PassedBy, ReceiveInv
    <3>3. b.key.pos \in Nat /\ c.key.pos \in Nat
      BY <1>1 DEF PassedBy, TypeOK, Body, ChainKey
    <3> QED  BY <2>4, <3>1, <3>2, <3>3
  <2> QED  BY <2>1, <2>3, <2>4
<1> QED
  BY <1>1, TypeInit, TypeNext, LockInit, LockNext, KeysInit, KeysNext, BodiesInit, BodiesNext,
     ApartInit, ApartNext, ReadInit, ReadNext, WindowInit, WindowNext, PTL DEF Spec

-----------------------------------------------------------------------------
(* A session is a channel.                                                 *)

LEMMA ChannelInit == Init => Channel!Init
<1> SUFFICES ASSUME Init PROVE Channel!Init  OBVIOUS
<1>1. \A d \in Device : ReleasedBy(d) = {}  BY DEF Init, ReleasedBy
<1> QED  BY <1>1 DEF Init, Channel!Init

ChannelVars == <<[d \in Device |-> ReleasedBy(d)], opened>>

(* A seal that succeeds is a send. *)
LEMMA ChannelSend ==
  ASSUME TypeOK, BodiesInv, LimitsInv, NEW d \in Device, SealOk(d)
  PROVE  Channel!Send(d)
<1>1. PICK s \in seals[d] : network' = network \cup {s.body}  BY DEF SealOk
<1>2. opened' = opened  BY DEF SealOk
<1>3. /\ s.body.from = d
      /\ s.body.id \in DOMAIN sealed[d]
      /\ \A b \in network : b.from = d => b.id # s.body.id
  BY DEF BodiesInv, Known
<1>4. s.body.id \in 1 .. MaxBodies
  <2>1. s.body.id \in 1 .. Len(sealed[d]) /\ Len(sealed[d]) \in Nat
    BY <1>3, LenProperties DEF TypeOK
  <2>2. /\ limits.sends[Initiator] \in Nat /\ limits.sends[Responder] \in Nat
        /\ limits.sends[Initiator] + limits.sends[Responder] <= MaxBodies
        /\ MaxBodies \in Nat
    BY SessionBoundsAssumption DEF LimitsInv, Limits, Device
  <2>3. limits.sends[d] <= MaxBodies /\ limits.sends[d] \in Nat  BY <2>2 DEF Device
  <2>4. Len(sealed[d]) <= limits.sends[d]  BY DEF LimitsInv
  <2> QED  BY <2>1, <2>2, <2>3, <2>4
<1>5. s.body.id \notin ReleasedBy(d)  BY <1>3 DEF ReleasedBy
<1>6. /\ ReleasedBy(d)' = ReleasedBy(d) \cup {s.body.id}
      /\ \A e \in Device : e # d => ReleasedBy(e)' = ReleasedBy(e)
  BY <1>1, <1>3 DEF ReleasedBy
<1>7. [e \in Device |-> ReleasedBy(e)']
        = [[e \in Device |-> ReleasedBy(e)] EXCEPT ![d] = @ \cup {s.body.id}]
  BY <1>6
<1> QED  BY <1>2, <1>4, <1>5, <1>7 DEF Channel!Send

(* An open that adopts its draft delivers a body the peer released and     *)
(* this device had not read.                                               *)
LEMMA ChannelDeliver ==
  ASSUME TypeOK, BodiesInv, ApartInv, ReadInv,
         NEW d \in Device, NEW i \in DOMAIN opens[d], OpenAdopt(d, i)
  PROVE  Channel!Deliver(d)
<1> DEFINE c == opens[d][i]
<1>1. opened' = [opened EXCEPT ![d] = Append(@, c.body.id)] /\ network' = network
  BY DEF OpenAdopt
<1>2. /\ c.body \in network /\ c.body.from = Peer(d)
      /\ c.key = sealed[Peer(d)][c.body.id]
      /\ c.key \notin Spent(d)
  BY AdoptSound
<1> HIDE DEF c
<1>3. c.body.id \in ReleasedBy(Peer(d)) /\ Peer(d) \in Device
  BY <1>2, PeerType DEF ReleasedBy
<1>4. \A j \in DOMAIN opened[d] : opened[d][j] # c.body.id  BY <1>2 DEF Spent
<1>5. [e \in Device |-> ReleasedBy(e)'] = [e \in Device |-> ReleasedBy(e)]
  BY <1>1 DEF ReleasedBy
<1> QED  BY <1>1, <1>3, <1>4, <1>5 DEF Channel!Deliver

LEMMA ChannelStep ==
  ASSUME TypeOK, BodiesInv, LimitsInv, ApartInv, ReadInv, [Next]_vars
  PROVE  Channel!Next \/ UNCHANGED ChannelVars
<1>1. ASSUME UNCHANGED <<network, opened>> PROVE UNCHANGED ChannelVars
  BY <1>1 DEF ChannelVars, ReleasedBy
<1>2. CASE UNCHANGED vars  BY <1>1, <1>2 DEF vars
<1>3. ASSUME NEW d \in Device, SealOk(d) PROVE Channel!Next
  BY <1>3, ChannelSend DEF Channel!Next
<1>4. ASSUME NEW d \in Device, NEW i \in DOMAIN opens[d], OpenAdopt(d, i)
      PROVE  Channel!Next
  BY <1>4, ChannelDeliver DEF Channel!Next
<1>5. ASSUME NEW d \in Device,
             \/ EncryptBegin(d) \/ SealFail(d) \/ IdleRekey(d) \/ PruneForQuota(d) \/ Reload(d)
             \/ \E body, header \in network : OpenCall(d, body, header)
             \/ \E i \in DOMAIN opens[d] : OpenStart(d, i) \/ OpenNoKey(d, i) \/ OpenReject(d, i)
      PROVE  UNCHANGED ChannelVars
  <2>1. UNCHANGED <<network, opened>>
    BY <1>5 DEF EncryptBegin, SealFail, IdleRekey, PruneForQuota, Reload,
                OpenCall, OpenStart, OpenNoKey, OpenReject
  <2> QED  BY <1>1, <2>1
<1>6. CASE Next
  BY <1>3, <1>4, <1>5, <1>6 DEF Next, Running
<1> QED  BY <1>2, <1>6

(* Two devices that run the session implement a secure channel: what one   *)
(* reads the other released, and it reads it once, however often, late or  *)
(* under whatever header the server delivers it, for every bound.          *)
THEOREM SessionImplementsChannel == Spec => ImplementsChannel
<1>1. TypeOK /\ BodiesInv /\ LimitsInv /\ ApartInv /\ ReadInv /\ [Next]_vars
        => [Channel!Next]_<<[d \in Device |-> ReleasedBy(d)], opened>>
  BY ChannelStep DEF ChannelVars
<1> QED
  BY <1>1, ChannelInit, TypeInit, TypeNext, LockInit, LockNext, KeysInit, KeysNext,
     BodiesInit, BodiesNext, LimitsNext, ApartInit, ApartNext, ReadInit, ReadNext,
     PTL DEF Spec, ImplementsChannel, Channel!Spec

-----------------------------------------------------------------------------
(* What a chain has passed.                                                *)

(* The keys a state's receiving chain has passed are held, or in keys. *)
HoldsAll(s, keys) ==
  s.receivingChainKey # None =>
    \A n \in Nat : n < s.receivingMessageNumber =>
      LET k == [chain |-> s.receivingChainKey.chain, pos |-> n]
      IN  [num |-> n, key |-> k] \in s.skippedMessageKeys \/ k \in keys

(* A map whose numbers are few is not trimmed. *)
LEMMA NewestAll ==
  ASSUME NEW S \in SUBSET Entry, NEW n \in Nat, NEW max \in Nat \ {0}, n <= max,
         OneKeyEach(S), \A e \in S : e.num < n
  PROVE  Newest(S, max) = S
<1> SUFFICES ASSUME NEW e \in S PROVE Cardinality({f \in S : f.num > e.num}) < max
  BY DEF Newest
<1> DEFINE later == {f \in S : f.num > e.num}
<1>1. e.num \in Nat /\ e.num < n  BY DEF Entry
<1>2. IsFiniteSet(later) /\ Cardinality(later) <= n - 1 - e.num  BY <1>1, LaterFew
<1>3. Cardinality(later) \in Nat  BY <1>2, FS_CardinalityType
<1> HIDE DEF later
<1>4. Cardinality(later) < max  BY <1>1, <1>2, <1>3
<1> QED  BY <1>4 DEF later

LEMMA HeldHolds ==
  ASSUME NEW s \in SessionState, NEW n \in Nat, NEW r \in HeldKey(s, n), NEW keys, HoldsAll(s, keys)
  PROVE  HoldsAll(r.state, keys \cup {r.key})
<1>1. PICK e \in s.skippedMessageKeys :
        r = [key |-> e.key, state |-> [s EXCEPT !.skippedMessageKeys = @ \ {e}]]
  BY DEF HeldKey
<1>2. /\ r.key = e.key
      /\ r.state.receivingChainKey = s.receivingChainKey
      /\ r.state.receivingMessageNumber = s.receivingMessageNumber
      /\ r.state.skippedMessageKeys = s.skippedMessageKeys \ {e}
  BY <1>1 DEF SessionState
<1> SUFFICES ASSUME s.receivingChainKey # None, NEW m \in Nat, m < s.receivingMessageNumber
             PROVE  LET k == [chain |-> s.receivingChainKey.chain, pos |-> m]
                    IN  [num |-> m, key |-> k] \in r.state.skippedMessageKeys
                          \/ k \in keys \cup {r.key}
  BY <1>2 DEF HoldsAll
<1> DEFINE k == [chain |-> s.receivingChainKey.chain, pos |-> m]
           x == [num |-> m, key |-> k]
<1>3. x \in s.skippedMessageKeys \/ k \in keys  BY DEF HoldsAll
<1>4. x.key = k  OBVIOUS
<1> HIDE DEF k, x
<1>5. x \in r.state.skippedMessageKeys \/ k \in keys \cup {r.key}  BY <1>2, <1>3, <1>4
<1> QED  BY <1>5 DEF k, x

LEMMA NextHolds ==
  ASSUME NEW s \in SessionState, NEW n \in Nat, NEW r \in NextKey(s, n), ReceiveInv(s),
         n <= MaxSkippedKeys, NEW keys, HoldsAll(s, keys)
  PROVE  HoldsAll(r.state, keys \cup {r.key})
<1> DEFINE gap    == n - s.receivingMessageNumber
           passed == {[num |-> s.receivingMessageNumber + i,
                       key |-> Advance(s.receivingChainKey, i)] : i \in 0 .. gap - 1}
           all    == s.skippedMessageKeys \cup passed
           held   == Newest(all, MaxSkippedKeys)
           key    == Advance(s.receivingChainKey, gap)
           next   == Advance(s.receivingChainKey, gap + 1)
           chain  == s.receivingChainKey.chain
           start  == s.receivingMessageNumber
<1>1. /\ s.receivingChainKey \in ChainKey /\ s.receivingChainKey # None
      /\ gap \in Nat /\ start \in Nat /\ s.receivingChainKey.pos = start
      /\ n = start + gap
  BY BoundsAssumption DEF NextKey, SessionState, ReceiveInv
<1>2. /\ r.key = key
      /\ r.state = [s EXCEPT !.receivingChainKey = next,
                             !.receivingMessageNumber = n + 1,
                             !.skippedMessageKeys = held]
  BY DEF NextKey
<1>3. \A i \in Nat : Advance(s.receivingChainKey, i) = [chain |-> chain, pos |-> start + i]
  BY <1>1 DEF Advance
<1>4. all \in SUBSET Entry
  <2>1. passed \subseteq Entry
    <3> SUFFICES ASSUME NEW i \in 0 .. gap - 1
                 PROVE  [num |-> start + i, key |-> Advance(s.receivingChainKey, i)] \in Entry
      OBVIOUS
    <3>1. i \in Nat  BY <1>1
    <3> QED  BY <1>1, <3>1, AdvanceType DEF Entry
  <2>2. s.skippedMessageKeys \subseteq Entry  BY DEF SessionState
  <2> QED  BY <2>1, <2>2
<1>5. ASSUME NEW e \in all PROVE e.key = [chain |-> chain, pos |-> e.num] /\ e.num < n
  <2>1. CASE e \in s.skippedMessageKeys
    <3>1. e.key \in ChainKey /\ e.num \in Nat  BY <1>4 DEF Entry
    <3>2. e.key.chain = chain /\ e.key.pos = e.num /\ e.num < start
      BY <1>1, <2>1 DEF ReceiveInv
    <3> QED  BY <1>1, <3>1, <3>2 DEF ChainKey
  <2>2. CASE e \in passed
    <3>1. PICK i \in 0 .. gap - 1 : e = [num |-> start + i, key |-> Advance(s.receivingChainKey, i)]
      BY <2>2
    <3>2. i \in Nat /\ start + i < n  BY <1>1
    <3> QED  BY <1>3, <3>1, <3>2
  <2> QED  BY <2>1, <2>2
<1>6. OneKeyEach(all)
  <2> SUFFICES ASSUME NEW e \in all, NEW f \in all, e.num = f.num PROVE e = f  BY DEF OneKeyEach
  <2>1. e.key = f.key  BY <1>5
  <2>2. e \in Entry /\ f \in Entry  BY <1>4
  <2> QED  BY <2>1, <2>2 DEF Entry
<1>7. held = all
  <2>1. MaxSkippedKeys \in Nat \ {0}  BY BoundsAssumption
  <2>2. \A e \in all : e.num < n  BY <1>5
  <2> HIDE DEF all
  <2> QED  BY <1>4, <1>6, <2>1, <2>2, NewestAll
<1>8. /\ r.state.receivingChainKey = next
      /\ r.state.receivingMessageNumber = n + 1
      /\ r.state.skippedMessageKeys = all
  <2> HIDE DEF next, held
  <2> QED  BY <1>2, <1>7 DEF SessionState
<1>9. next.chain = chain  BY DEF Advance
<1>10. ASSUME NEW m \in Nat, m < n + 1
       PROVE  LET k == [chain |-> chain, pos |-> m]
              IN  [num |-> m, key |-> k] \in all \/ k \in keys \cup {r.key}
  <2>1. CASE m < start
    BY <1>1, <2>1 DEF HoldsAll
  <2>2. CASE m >= start /\ m < n
    <3> DEFINE i == m - start
    <3>1. i \in 0 .. gap - 1 /\ i \in Nat /\ start + i = m  BY <1>1, <2>2
    <3>2. [num |-> start + i, key |-> Advance(s.receivingChainKey, i)] \in passed  BY <3>1
    <3>3. Advance(s.receivingChainKey, i) = [chain |-> chain, pos |-> m]  BY <1>3, <3>1
    <3> QED  BY <3>1, <3>2, <3>3
  <2>3. CASE m = n
    <3>1. key = [chain |-> chain, pos |-> m]  BY <1>1, <1>3, <2>3
    <3> QED  BY <1>2, <3>1
  <2>4. m < start \/ (m >= start /\ m < n) \/ m = n
    <3> HIDE DEF gap
    <3> QED  BY <1>1, <1>10
  <2> QED  BY <2>1, <2>2, <2>3, <2>4
<1> HIDE DEF all, next, chain
<1> QED  BY <1>8, <1>9, <1>10 DEF HoldsAll

(* Whatever key is found, what the chain of the draft has passed is held, or is that key. *)
LEMMA FindHolds ==
  ASSUME NEW s \in SessionState, NEW rk \in Keys, NEW n \in Nat, NEW fresh \in Keys,
         NEW r \in FindMessageKey(s, rk, n, fresh), ReceiveInv(s),
         n <= MaxSkippedKeys, NEW keys, HoldsAll(s, keys)
  PROVE  HoldsAll(r.state, keys \cup {r.key})
<1> DEFINE step == RatchetStep(s, rk, fresh)
<1>1. CASE r \in TakePreviousChainKey(s, rk, n) \cup TakePreviousReceivingKey(s, rk, n)
  <2>1. /\ r.state.receivingChainKey = s.receivingChainKey
        /\ r.state.receivingMessageNumber = s.receivingMessageNumber
        /\ r.state.skippedMessageKeys = s.skippedMessageKeys
    BY <1>1 DEF TakePreviousChainKey, TakePreviousReceivingKey, SessionState
  <2> QED  BY <2>1 DEF HoldsAll
<1>2. CASE r \in AdvanceReceivingChain(s, n)
  BY <1>2, HeldHolds, NextHolds DEF AdvanceReceivingChain
<1>3. CASE r \in AdvanceReceivingChain(step, n)
  <2>1. step \in SessionState /\ ReceiveInv(step)  BY StepType, StepReceive
  <2>2. step.receivingMessageNumber = 0  BY DEF RatchetStep, SessionState
  <2> HIDE DEF step
  <2>3. HoldsAll(step, keys)  BY <2>2 DEF HoldsAll
  <2> QED  BY <1>3, <2>1, <2>3, HeldHolds, NextHolds DEF AdvanceReceivingChain
<1> QED  BY <1>1, <1>2, <1>3 DEF FindMessageKey

-----------------------------------------------------------------------------
(* The turns of the ratchet.                                               *)

(* What names the chains of both directions. *)
SameTurn(s, t) ==
  /\ t.rootKey = s.rootKey
  /\ t.sendingRatchetKey = s.sendingRatchetKey
  /\ t.sendingChainKey.chain = s.sendingChainKey.chain
  /\ t.receivingRatchetPublicKey = s.receivingRatchetPublicKey
  /\ t.receivingChainKey # None <=> s.receivingChainKey # None
  /\ t.receivingChainKey # None => t.receivingChainKey.chain = s.receivingChainKey.chain

(* t is s after a turn with the peer's key rk and the own key fresh. *)
TurnedBy(s, t, rk, fresh) ==
  /\ t.receivingRatchetPublicKey = rk
  /\ t.receivingChainKey # None
  /\ t.receivingChainKey.chain = DhRatchet(s.rootKey, s.sendingRatchetKey, rk)
  /\ t.rootKey = DhRatchet(t.receivingChainKey.chain, fresh, rk)
  /\ t.sendingRatchetKey = fresh
  /\ t.sendingChainKey.chain = t.rootKey

(* What else of a state the argument reads. *)
SameRest(s, t) ==
  /\ t.previousSendingRatchetKey = s.previousSendingRatchetKey
  /\ t.previousReceivingLength = s.previousReceivingLength
  /\ t.sendingMessageNumber = s.sendingMessageNumber

LEMMA StepTurn ==
  ASSUME NEW s \in SessionState, NEW rk \in Keys, NEW fresh \in Keys
  PROVE  LET t == RatchetStep(s, rk, fresh)
         IN  /\ TurnedBy(s, t, rk, fresh)
             /\ t.previousSendingRatchetKey = s.sendingRatchetKey
             /\ t.previousReceivingLength = 0 /\ t.sendingMessageNumber = 0
             /\ t.skippedMessageKeys = {}
             /\ t.receivingMessageNumber = 0
<1> DEFINE recvd == DhRatchet(s.rootKey, s.sendingRatchetKey, rk)
           sent  == DhRatchet(recvd, fresh, rk)
           t     == RatchetStep(s, rk, fresh)
<1>1. recvd \in RootKey /\ sent \in RootKey
  <2>1. recvd \in RootKey  BY DhType DEF SessionState
  <2> HIDE DEF recvd
  <2> QED  BY <2>1, DhType
<1>2. ChainFrom(recvd) # None  BY <1>1, ChainFromType, NoneAssumption
<1>3. /\ t.rootKey = sent /\ t.receivingChainKey = ChainFrom(recvd)
      /\ t.receivingRatchetPublicKey = rk /\ t.sendingChainKey = ChainFrom(sent)
      /\ t.sendingRatchetKey = fresh
      /\ t.previousSendingRatchetKey = s.sendingRatchetKey
      /\ t.previousReceivingLength = 0 /\ t.sendingMessageNumber = 0
      /\ t.skippedMessageKeys = {} /\ t.receivingMessageNumber = 0
  BY DEF RatchetStep, SessionState
<1> HIDE DEF t
<1>4. ChainFrom(recvd).chain = recvd /\ ChainFrom(sent).chain = sent  BY DEF ChainFrom
<1> QED  BY <1>2, <1>3, <1>4 DEF TurnedBy, t

(* A key taken from the chain moves it and its counter alone. *)
LEMMA AdvanceTurn ==
  ASSUME NEW s \in SessionState, NEW n \in Nat, NEW r \in HeldKey(s, n) \cup NextKey(s, n)
  PROVE  /\ SameTurn(s, r.state) /\ SameRest(s, r.state)
         /\ s.skippedMessageKeys = {} => r.key.chain = s.receivingChainKey.chain
<1>1. CASE r \in HeldKey(s, n)  BY <1>1 DEF HeldKey, SameTurn, SameRest, SessionState
<1>2. CASE r \in NextKey(s, n)
  <2> DEFINE gap  == n - s.receivingMessageNumber
             next == Advance(s.receivingChainKey, gap + 1)
             held == Newest(s.skippedMessageKeys \cup
                              {[num |-> s.receivingMessageNumber + i,
                                key |-> Advance(s.receivingChainKey, i)] : i \in 0 .. gap - 1},
                            MaxSkippedKeys)
  <2>1. /\ r.state = [s EXCEPT !.receivingChainKey = next,
                               !.receivingMessageNumber = n + 1,
                               !.skippedMessageKeys = held]
        /\ r.key = Advance(s.receivingChainKey, gap)
        /\ s.receivingChainKey # None /\ gap \in Nat
    BY <1>2, BoundsAssumption DEF NextKey
  <2>2. s.receivingChainKey \in ChainKey  BY <2>1 DEF SessionState
  <2>3. gap + 1 \in Nat  BY <2>1
  <2>4. next # None /\ next.chain = s.receivingChainKey.chain
        /\ r.key.chain = s.receivingChainKey.chain
    BY <2>1, <2>2, <2>3, AdvanceType, NoneAssumption DEF Advance
  <2> HIDE DEF next, held, gap
  <2> QED  BY <2>1, <2>4 DEF SameTurn, SameRest, SessionState
<1> QED  BY <1>1, <1>2

(* The draft of an open leaves the chains as they were, or is a turn; the key then is of the chain  *)
(* it turned to.                                                                                    *)
LEMMA FindTurn ==
  ASSUME NEW s \in SessionState, NEW rk \in Keys, NEW n \in Nat, NEW fresh \in Keys,
         NEW r \in FindMessageKey(s, rk, n, fresh)
  PROVE  \/ SameTurn(s, r.state) /\ SameRest(s, r.state)
         \/ /\ NeedsStep(s, rk, n)
            /\ TurnedBy(s, r.state, rk, fresh)
            /\ r.state.previousSendingRatchetKey = s.sendingRatchetKey
            /\ r.state.previousReceivingLength = 0 /\ r.state.sendingMessageNumber = 0
            /\ r.key.chain = r.state.receivingChainKey.chain
<1> DEFINE step == RatchetStep(s, rk, fresh)
<1>1. CASE r \in TakePreviousChainKey(s, rk, n) \cup TakePreviousReceivingKey(s, rk, n)
  BY <1>1 DEF TakePreviousChainKey, TakePreviousReceivingKey, SameTurn, SameRest, SessionState
<1>2. CASE r \in AdvanceReceivingChain(s, n)
  BY <1>2, AdvanceTurn DEF AdvanceReceivingChain
<1>3. CASE NeedsStep(s, rk, n) /\ r \in AdvanceReceivingChain(step, n)
  <2>1. /\ step \in SessionState /\ TurnedBy(s, step, rk, fresh)
        /\ step.previousSendingRatchetKey = s.sendingRatchetKey
        /\ step.previousReceivingLength = 0 /\ step.sendingMessageNumber = 0
        /\ step.skippedMessageKeys = {}
    BY StepType, StepTurn
  <2> HIDE DEF step
  <2>2. /\ SameTurn(step, r.state) /\ SameRest(step, r.state)
        /\ r.key.chain = step.receivingChainKey.chain
    BY <1>3, <2>1, AdvanceTurn DEF AdvanceReceivingChain
  <2> QED  BY <1>3, <2>1, <2>2 DEF SameTurn, SameRest, TurnedBy
<1> QED  BY <1>1, <1>2, <1>3 DEF FindMessageKey

-----------------------------------------------------------------------------
(* The two ends agree on the chains they use.                              *)

(* The bodies d has sealed. *)
Written(d) == {b \in network : b.from = d} \cup {s.body : s \in seals[d]}

SendChain(d) == state[d].sendingChainKey.chain

(* A state of d, live or a draft, keeps either end's ratchet keys where they belong. *)
SidesOK(d, s) ==
  /\ s.sendingRatchetKey[1] = d
  /\ s.previousSendingRatchetKey # None => s.previousSendingRatchetKey[1] = d
  /\ s.receivingRatchetPublicKey # None <=> s.receivingChainKey # None
  /\ s.previousReceivingLength = 0
  /\ Len(s.sendingChainKey.chain) <= Len(s.rootKey)
  /\ s.sendingMessageNumber <= Len(sealed[d])

(* A body is numbered by its place on its chain; that is the chain its writer is on, and named by   *)
(* the same ratchet key, or one that is named with fewer secrets.                                   *)
WrittenOK(d, b) ==
  /\ b.num = b.key.pos /\ b.num < Len(sealed[d])
  /\ b.rk[1] = d
  /\ \/ b.rk = state[d].sendingRatchetKey /\ b.key.chain = SendChain(d)
     \/ b.rk # state[d].sendingRatchetKey /\ Len(b.key.chain) < Len(SendChain(d))

(* Every body under the ratchet key d has taken in is on the chain it reads. *)
HearsOne(d) ==
  state[d].receivingRatchetPublicKey # None =>
    \A b \in Written(Peer(d)) :
      b.rk = state[d].receivingRatchetPublicKey => b.key.chain = state[d].receivingChainKey.chain

(* A call was made with the header of a body of the peer. *)
AskedOK(d) ==
  \A i \in DOMAIN opens[d] : \E h \in network :
    h.from = Peer(d) /\ opens[d][i].rk = h.rk /\ opens[d][i].num = h.num

(* While nothing can have been trimmed, what the chain has passed is held or in keys. *)
Holds(d, s, keys) == Len(sealed[Peer(d)]) <= MaxSkippedKeys + 1 => HoldsAll(s, keys)

(* A draft that turned did so with a key pair nothing was sealed under. *)
Turned(d, c) ==
  /\ TurnedBy(state[d], c.draft, c.rk, c.draft.sendingRatchetKey)
  /\ c.draft.sendingRatchetKey # state[d].sendingRatchetKey
  /\ \A b \in Written(d) : b.rk # c.draft.sendingRatchetKey
  /\ c.key.chain = c.draft.receivingChainKey.chain

DraftTurn(d, c) ==
  /\ SidesOK(d, c.draft)
  /\ SameTurn(state[d], c.draft) \/ Turned(d, c)
  /\ Holds(d, c.draft, Spent(d) \cup {c.key})

(* d reads the chain its peer sends on. *)
Reads(d) ==
  /\ state[d].receivingRatchetPublicKey = state[Peer(d)].sendingRatchetKey
  /\ state[d].receivingChainKey # None
  /\ state[d].receivingChainKey.chain = SendChain(Peer(d))
  /\ Len(SendChain(Peer(d))) <= Len(state[d].rootKey)

(* d has not seen its peer's latest key, and derives the chain its peer sends on when it does. *)
Due(d) ==
  /\ state[d].receivingRatchetPublicKey # state[Peer(d)].sendingRatchetKey
  /\ state[Peer(d)].rootKey = SendChain(Peer(d))
  /\ SendChain(Peer(d)) = DhRatchet(state[d].rootKey, state[d].sendingRatchetKey,
                                    state[Peer(d)].sendingRatchetKey)

(* The ends turn in turns: at most one has not seen the other's latest key.  Both have when a turn  *)
(* was adopted without its sending half, and then neither turns again.                              *)
TurnInv == \E d \in Device : Reads(d) /\ (Reads(Peer(d)) \/ Due(Peer(d)))

AgreeOf(d) ==
  /\ SidesOK(d, state[d])
  /\ \A b \in Written(d) : WrittenOK(d, b)
  /\ HearsOne(d)
  /\ AskedOK(d)
  /\ Holds(d, state[d], Spent(d))
  /\ \A c \in Drafted(d) : DraftTurn(d, c)

Calm == rekeys = 0 /\ sealFailures = 0 /\ prunes = 0

(* Until a seal fails, an idle rekey runs or the quota is full. *)
AgreeInv == Calm => TurnInv /\ \A d \in Device : AgreeOf(d)

LEMMA WrittenType ==
  ASSUME TypeOK, NEW d \in Device
  PROVE  Written(d) \subseteq Body
<1>1. \A s \in seals[d] : s.body \in Body  BY DEF TypeOK, Seal
<1>2. network \subseteq Body  BY DEF TypeOK
<1> QED  BY <1>1, <1>2 DEF Written

LEMMA AgreeInit == Init => AgreeInv
<1> SUFFICES ASSUME Init PROVE TurnInv /\ \A d \in Device : AgreeOf(d)  BY DEF AgreeInv
<1> DEFINE i == state[Initiator]
           r == state[Responder]
           ik == KeyOf(Initiator, 0)
           rk == KeyOf(Responder, 0)
           root == DhRatchet(HandshakeRoot, rk, ik)
<1>1. i = InitiatorState(ik) /\ r = ResponderState(rk, ik)
  BY DeviceAssumption DEF Init, Device
<1>2. Peer(Initiator) = Responder /\ Peer(Responder) = Initiator
  BY DeviceAssumption DEF Peer
<1>3. ik \in Keys /\ rk \in Keys /\ ik[1] = Initiator /\ rk[1] = Responder
      /\ ik # None /\ rk # None /\ ik # rk
  BY NoneAssumption, DeviceAssumption DEF KeyOf, Keys, Device
<1>4. ChainFrom(HandshakeRoot).chain = HandshakeRoot /\ ChainFrom(root).chain = root
      /\ ChainFrom(HandshakeRoot) # None
  <2>1. HandshakeRoot \in RootKey  BY EmptySeq DEF HandshakeRoot, RootKey
  <2> QED  BY <2>1, ChainFromType, NoneAssumption DEF ChainFrom
<1>5. /\ i.sendingRatchetKey = ik /\ i.receivingRatchetPublicKey = None
      /\ i.receivingChainKey = None /\ i.previousSendingRatchetKey = None
      /\ i.previousReceivingLength = 0 /\ i.sendingMessageNumber = 0
      /\ i.rootKey = HandshakeRoot /\ i.sendingChainKey = ChainFrom(HandshakeRoot)
      /\ i.receivingMessageNumber = 0
  BY <1>1 DEF InitiatorState, FreshState
<1>6. /\ r.sendingRatchetKey = rk /\ r.receivingRatchetPublicKey = ik
      /\ r.receivingChainKey = ChainFrom(HandshakeRoot) /\ r.previousSendingRatchetKey = None
      /\ r.previousReceivingLength = 0 /\ r.sendingMessageNumber = 0
      /\ r.rootKey = root /\ r.sendingChainKey = ChainFrom(root)
      /\ r.receivingMessageNumber = 0
  BY <1>1 DEF ResponderState, FreshState
<1>7. Len(HandshakeRoot) = 0 /\ Len(root) = 1
  BY DEF HandshakeRoot, DhRatchet
<1>8. \A d \in Device : /\ seals[d] = {} /\ opens[d] = <<>> /\ Len(sealed[d]) = 0
                        /\ Written(d) = {} /\ Drafted(d) = {}
  BY DEF Init, Written, Drafted
<1> HIDE DEF i, r, ik, rk, root
<1>9. SidesOK(Initiator, i) /\ SidesOK(Responder, r)
  <2>1. Initiator \in Device /\ Responder \in Device  BY DEF Device
  <2>2. SidesOK(Initiator, i)  BY <1>3, <1>4, <1>5, <1>7, <1>8, <2>1 DEF SidesOK
  <2>3. /\ r.sendingRatchetKey[1] = Responder /\ r.previousSendingRatchetKey = None
        /\ r.receivingRatchetPublicKey # None /\ r.receivingChainKey # None
        /\ r.sendingChainKey.chain = r.rootKey /\ Len(r.rootKey) = 1
    BY <1>3, <1>4, <1>6, <1>7
  <2>4. SidesOK(Responder, r)
    <3>1. Len(r.sendingChainKey.chain) <= Len(r.rootKey)  BY <2>3
    <3>2. r.sendingMessageNumber <= Len(sealed[Responder])  BY <1>6, <1>8, <2>1
    <3> QED  BY <1>6, <2>3, <3>1, <3>2 DEF SidesOK
  <2> QED  BY <2>2, <2>4
<1>10. HoldsAll(i, {}) /\ HoldsAll(r, {})  BY <1>5, <1>6 DEF HoldsAll
<1>11. \A d \in Device : HoldsAll(state[d], Spent(d))
  BY <1>10 DEF Device, HoldsAll, i, r
<1>12. ASSUME NEW d \in Device PROVE AgreeOf(d)
  <2>1. HearsOne(d) /\ AskedOK(d)
    <3>1. Written(Peer(d)) = {}  BY <1>8, PeerType
    <3> QED  BY <1>8, <3>1 DEF HearsOne, AskedOK
  <2>2. SidesOK(d, state[d])  BY <1>9 DEF i, r, Device
  <2> QED  BY <1>8, <1>11, <2>1, <2>2 DEF AgreeOf, Holds
<1>13. TurnInv
  <2>1. Reads(Responder)
    BY <1>2, <1>3, <1>4, <1>5, <1>6, <1>7 DEF Reads, SendChain, i, r
  <2>2. root = DhRatchet(HandshakeRoot, ik, rk)  BY DEF root, DhRatchet, SharedSecret
  <2>3. Due(Initiator)
    BY <1>2, <1>3, <1>4, <1>5, <1>6, <2>2 DEF Due, SendChain, i, r
  <2> QED  BY <1>2, <2>1, <2>3 DEF TurnInv, Device
<1> QED  BY <1>12, <1>13

(* A step that renames no chain leaves the turns as they are. *)
LEMMA TurnKept ==
  ASSUME \A e \in Device : SameTurn(state[e], state'[e]), TurnInv
  PROVE  TurnInv'
<1>1. PICK d \in Device : Reads(d) /\ (Reads(Peer(d)) \/ Due(Peer(d)))  BY DEF TurnInv
<1>2. \A e \in Device : Peer(e) \in Device  BY PeerType
<1>3. \A e \in Device : Reads(e) => Reads(e)'  BY <1>2 DEF Reads, SendChain, SameTurn
<1>4. \A e \in Device : Due(e) => Due(e)'  BY <1>2 DEF Due, SendChain, SameTurn
<1> QED  BY <1>1, <1>2, <1>3, <1>4 DEF TurnInv

(* All that the argument reads of a state. *)
Alike(s, t) ==
  /\ SameTurn(s, t) /\ SameRest(s, t)
  /\ t.receivingChainKey = s.receivingChainKey
  /\ t.receivingMessageNumber = s.receivingMessageNumber
  /\ t.skippedMessageKeys = s.skippedMessageKeys

LEMMA AlikeItself == \A s : Alike(s, s)
BY DEF Alike, SameTurn, SameRest

(* What a step that leaves that and the bodies alone leaves of the invariant. *)
LEMMA AgreeQuiet ==
  ASSUME AgreeInv, Calm' => Calm,
         \A d \in Device : Alike(state[d], state'[d]),
         sealed' = sealed, opened' = opened,
         \A d \in Device : Written(d)' = Written(d) /\ Drafted(d)' \subseteq Drafted(d),
         \A d \in Device : AskedOK(d) => AskedOK(d)'
  PROVE  AgreeInv'
<1> SUFFICES ASSUME Calm PROVE TurnInv' /\ \A d \in Device : AgreeOf(d)'  BY DEF AgreeInv
<1>1. TurnInv /\ \A d \in Device : AgreeOf(d)  BY DEF AgreeInv
<1>2. TurnInv'  BY <1>1, TurnKept DEF Alike
<1>3. ASSUME NEW d \in Device PROVE AgreeOf(d)'
  <2>1. Peer(d) \in Device /\ Alike(state[d], state'[d])  BY PeerType
  <2>2. Spent(d)' = Spent(d)  BY DEF Spent
  <2>3. AgreeOf(d)  BY <1>1
  <2>4. SidesOK(d, state[d])' /\ HearsOne(d)' /\ Holds(d, state[d], Spent(d))'
    <3>1. SidesOK(d, state[d])'
      BY <2>1, <2>3 DEF AgreeOf, SidesOK, Alike, SameTurn, SameRest
    <3>2. HearsOne(d)'  BY <2>1, <2>3 DEF AgreeOf, HearsOne, Alike, SameTurn
    <3>3. Holds(d, state[d], Spent(d))'
      BY <2>1, <2>2, <2>3 DEF AgreeOf, Holds, HoldsAll, Alike
    <3> QED  BY <3>1, <3>2, <3>3
  <2>5. \A b \in Written(d)' : WrittenOK(d, b)'
    BY <2>1, <2>3 DEF AgreeOf, WrittenOK, SendChain, Alike, SameTurn
  <2>6. ASSUME NEW c \in Drafted(d)' PROVE DraftTurn(d, c)'
    <3>1. DraftTurn(d, c)  BY <2>3, <2>6 DEF AgreeOf
    <3>2. SidesOK(d, c.draft)' /\ Holds(d, c.draft, Spent(d) \cup {c.key})'
      BY <2>2, <3>1 DEF DraftTurn, SidesOK, Holds
    <3>3. (SameTurn(state[d], c.draft) \/ Turned(d, c))'
      BY <2>1, <3>1 DEF DraftTurn, Turned, TurnedBy, Alike, SameTurn
    <3> QED  BY <3>2, <3>3 DEF DraftTurn
  <2> QED  BY <2>3, <2>4, <2>5, <2>6 DEF AgreeOf
<1> QED  BY <1>2, <1>3

LEMMA AgreeSealOk ==
  ASSUME TypeOK, BodiesInv, AgreeInv, NEW d \in Device, SealOk(d)
  PROVE  AgreeInv'
<1>1. PICK s \in seals[d] :
        /\ seals' = [seals EXCEPT ![d] = @ \ {s}]
        /\ network' = network \cup {s.body}
        /\ UNCHANGED <<state, opens, sealed, opened, sealFailures, rekeys, prunes>>
  BY DEF SealOk
<1>2. s.body.from = d  BY DEF BodiesInv
<1>3. \A e \in Device : seals'[e] = IF e = d THEN seals[e] \ {s} ELSE seals[e]
  BY <1>1 DEF TypeOK
<1>4. ASSUME NEW e \in Device PROVE Written(e)' = Written(e)
  <2>1. CASE e = d
    <3>1. {b \in network' : b.from = d} = {b \in network : b.from = d} \cup {s.body}
      BY <1>1, <1>2
    <3>2. {t.body : t \in seals[d]} = {t.body : t \in seals'[d]} \cup {s.body}  BY <1>3
    <3> QED  BY <2>1, <3>1, <3>2 DEF Written
  <2>2. CASE e # d
    <3>1. {b \in network' : b.from = e} = {b \in network : b.from = e}  BY <1>1, <1>2, <2>2
    <3> QED  BY <1>3, <2>2, <3>1 DEF Written
  <2> QED  BY <2>1, <2>2
<1>5. \A e \in Device : Drafted(e)' = Drafted(e)  BY <1>1, QueueUnchanged
<1>6. \A e \in Device : AskedOK(e) => AskedOK(e)'  BY <1>1 DEF AskedOK
<1>7. Calm' => Calm  BY <1>1 DEF Calm
<1> QED  BY <1>1, <1>4, <1>5, <1>6, <1>7, AlikeItself, AgreeQuiet

LEMMA WrittenUnchanged ==
  ASSUME NEW d \in Device, seals'[d] = seals[d], network' = network
  PROVE  Written(d)' = Written(d)
BY DEF Written

LEMMA AgreeQueue ==
  ASSUME TypeOK, LockInv, AgreeInv, NEW d \in Device,
         \/ \E body, header \in network : OpenCall(d, body, header)
         \/ \E i \in DOMAIN opens[d] : OpenNoKey(d, i) \/ OpenReject(d, i)
  PROVE  AgreeInv'
<1>1. /\ UNCHANGED <<state, seals, network, sealed, opened, sealFailures, rekeys, prunes>>
      /\ \A e \in Device : e # d => opens'[e] = opens[e]
  BY DEF OpenCall, OpenNoKey, OpenReject, TypeOK
<1>2. \A e \in Device : Written(e)' = Written(e)  BY <1>1, WrittenUnchanged
<1>3. \A e \in Device : Drafted(e)' \subseteq Drafted(e)
  <2>1. CASE \E body, header \in network : OpenCall(d, body, header)  BY <2>1, CallEffect
  <2>2. CASE \E i \in DOMAIN opens[d] : OpenNoKey(d, i) \/ OpenReject(d, i)
    <3>1. \A e \in Device : e # d => Drafted(e)' = Drafted(e)  BY <2>2, DoneEffect
    <3>2. Drafted(d)' = {}  BY <2>2, DoneEffect
    <3> QED  BY <3>1, <3>2
  <2> QED  BY <2>1, <2>2
<1>4. ASSUME AskedOK(d) PROVE AskedOK(d)'
  <2>1. CASE \E body, header \in network : OpenCall(d, body, header)
    <3>1. PICK body \in network, header \in network : OpenCall(d, body, header)  BY <2>1
    <3> DEFINE call == [body |-> body, rk |-> header.rk, num |-> header.num,
                        epochAtStart |-> sendEpoch[d], draft |-> None, key |-> None]
    <3>2. opens'[d] = Append(opens[d], call) /\ header.from = Peer(d)
      BY <3>1 DEF OpenCall, TypeOK
    <3>3. opens[d] \in Seq(Call)  BY DEF TypeOK
    <3>4. call.rk = header.rk /\ call.num = header.num /\ call \in Call
      BY DEF TypeOK, Body, Call
    <3> HIDE DEF call
    <3>5. \A j \in DOMAIN opens'[d] :
            opens'[d][j] = call \/ (j \in DOMAIN opens[d] /\ opens'[d][j] = opens[d][j])
      BY <3>2, <3>3, <3>4, AppendProperties, LenProperties
    <3> QED  BY <1>1, <1>4, <3>2, <3>4, <3>5 DEF AskedOK
  <2>2. CASE \E i \in DOMAIN opens[d] : OpenNoKey(d, i) \/ OpenReject(d, i)
    <3>1. PICK i \in DOMAIN opens[d] : opens'[d] = Without(opens[d], i)
      BY <2>2 DEF OpenNoKey, OpenReject, TypeOK
    <3>2. opens[d] \in Seq(Call)  BY DEF TypeOK
    <3>3. \A j \in DOMAIN opens'[d] : \E k \in DOMAIN opens[d] : opens'[d][j] = opens[d][k]
      BY <3>1, <3>2, WithoutType
    <3> QED  BY <1>1, <1>4, <3>3 DEF AskedOK
  <2> QED  BY <2>1, <2>2
<1>5. \A e \in Device : e # d /\ AskedOK(e) => AskedOK(e)'  BY <1>1 DEF AskedOK
<1>6. Calm' => Calm  BY <1>1 DEF Calm
<1> QED  BY <1>1, <1>2, <1>3, <1>4, <1>5, <1>6, AlikeItself, AgreeQuiet

(* A device that is read back loses nothing the two agree on.              *)
LEMMA AgreeReload ==
  ASSUME TypeOK, ReadInv, AgreeInv, NEW d \in Device, Reload(d)
  PROVE  AgreeInv'
<1>1. /\ Trimmed(state[d], state'[d])
      /\ \A e \in Device : e # d => state'[e] = state[e]
      /\ UNCHANGED <<seals, opens, network, sealed, opened, sealFailures, rekeys>>
  BY TrimEffect DEF Trim
<1>2. Calm' => Calm  BY DEF Reload, Calm
<1>3. state'[d].skippedMessageKeys = state[d].skippedMessageKeys
  <2> DEFINE held == state[d].skippedMessageKeys
  <2>1. state'[d].skippedMessageKeys = Newest(held, MaxSkippedKeys)
    BY DEF Reload, Loaded, TypeOK, SessionState
  <2>2. held \in SUBSET Entry /\ IsFiniteSet(held) /\ Cardinality(held) <= MaxSkippedKeys
    BY DEF ReadInv, StateInv, SkippedBounded, TypeOK, SessionState
  <2> HIDE DEF held
  <2>3. state'[d].skippedMessageKeys = held  BY <2>1, <2>2, BoundsAssumption, NewestSame
  <2> QED  BY <2>3 DEF held
<1>4. ASSUME NEW e \in Device PROVE Alike(state[e], state'[e])
  <2>1. CASE e = d  BY <1>1, <1>3, <2>1 DEF Alike, SameTurn, SameRest, Trimmed
  <2>2. CASE e # d  BY <1>1, <2>2, AlikeItself
  <2> QED  BY <2>1, <2>2
<1>5. \A e \in Device : /\ Written(e)' = Written(e) /\ Drafted(e)' = Drafted(e)
                        /\ AskedOK(e) => AskedOK(e)'
  BY <1>1, QueueUnchanged, WrittenUnchanged DEF AskedOK
<1> QED  BY <1>1, <1>2, <1>4, <1>5, AgreeQuiet

(* A send adds a body under the header its chain is named by. *)
LEMMA EncryptTurn ==
  ASSUME TypeOK, NEW d \in Device, EncryptBegin(d)
  PROVE  /\ SameTurn(state[d], state'[d])
         /\ state'[d].previousSendingRatchetKey = state[d].previousSendingRatchetKey
         /\ state'[d].previousReceivingLength = state[d].previousReceivingLength
         /\ state'[d].sendingMessageNumber = state[d].sendingMessageNumber + 1
         /\ state'[d].receivingChainKey = state[d].receivingChainKey
         /\ state'[d].receivingMessageNumber = state[d].receivingMessageNumber
         /\ state'[d].skippedMessageKeys = state[d].skippedMessageKeys
         /\ Len(sealed'[d]) = Len(sealed[d]) + 1
         /\ UNCHANGED <<opens, network, opened, sealFailures, rekeys, prunes>>
         /\ \A e \in Device : e # d =>
              /\ state'[e] = state[e] /\ sealed'[e] = sealed[e]
              /\ Written(e)' = Written(e)
         /\ \E b : /\ Written(d)' = Written(d) \cup {b}
                   /\ b.rk = state[d].sendingRatchetKey
                   /\ b.num = state[d].sendingMessageNumber
                   /\ b.key = state[d].sendingChainKey
<1> DEFINE key   == state[d].sendingChainKey
           moved == AdvanceSendingChain(state[d])
           num   == moved.sendingMessageNumber - 1
           after == RecordSentMessageKey(moved, num, key)
           body  == [from |-> d, id |-> Len(sealed[d]) + 1,
                     rk |-> state[d].sendingRatchetKey, num |-> num, key |-> key]
           capture == [sendingChainKey |-> after.sendingChainKey,
                       sendingMessageNumber |-> after.sendingMessageNumber,
                       sentMessageKeys |-> after.sentMessageKeys]
           seal  == [body |-> body, epoch |-> sendEpoch[d] + 1, restore |-> capture]
<1>1. /\ state' = [state EXCEPT ![d] = after]
      /\ seals' = [seals EXCEPT ![d] = @ \cup {seal}]
      /\ sealed' = [sealed EXCEPT ![d] = Append(@, key)]
      /\ UNCHANGED <<opens, network, opened, sealFailures, rekeys, prunes>>
  BY DEF EncryptBegin
<1>2. state[d] \in SessionState /\ moved \in SessionState /\ key \in ChainKey /\ num \in Nat
  <2>1. state[d] \in SessionState  BY DEF TypeOK
  <2> QED  BY <2>1, AdvanceSendingType, EncryptTypes
<1>3. /\ SameTurn(state[d], moved)
      /\ moved.sendingMessageNumber = state[d].sendingMessageNumber + 1
      /\ moved.previousSendingRatchetKey = state[d].previousSendingRatchetKey
      /\ moved.previousReceivingLength = state[d].previousReceivingLength
      /\ moved.receivingChainKey = state[d].receivingChainKey
      /\ moved.receivingMessageNumber = state[d].receivingMessageNumber
      /\ moved.skippedMessageKeys = state[d].skippedMessageKeys
  BY <1>2 DEF AdvanceSendingChain, Advance, SameTurn, SessionState
<1>4. num = state[d].sendingMessageNumber  BY <1>2, <1>3 DEF SessionState
<1> HIDE DEF moved, num
<1>5. /\ SameTurn(moved, after) /\ SameRest(moved, after)
      /\ after.receivingChainKey = moved.receivingChainKey
      /\ after.receivingMessageNumber = moved.receivingMessageNumber
      /\ after.skippedMessageKeys = moved.skippedMessageKeys
  BY <1>2 DEF RecordSentMessageKey, SameTurn, SameRest, SessionState
<1> HIDE DEF after
<1>6. state'[d] = after /\ \A e \in Device : e # d => state'[e] = state[e]  BY <1>1 DEF TypeOK
<1>7. Len(sealed'[d]) = Len(sealed[d]) + 1 /\ \A e \in Device : e # d => sealed'[e] = sealed[e]
  BY <1>1, <1>2, AppendProperties, LenProperties DEF TypeOK
<1>8. seal.body = body /\ body.rk = state[d].sendingRatchetKey /\ body.num = num /\ body.key = key
  OBVIOUS
<1> HIDE DEF body, key
<1>9. seals'[d] = seals[d] \cup {seal} /\ \A e \in Device : e # d => seals'[e] = seals[e]
  BY <1>1 DEF TypeOK
<1> HIDE DEF seal
<1>10. Written(d)' = Written(d) \cup {body}
  <2>1. {s.body : s \in seals'[d]} = {s.body : s \in seals[d]} \cup {body}  BY <1>8, <1>9
  <2> QED  BY <1>1, <2>1 DEF Written
<1>11. \A e \in Device : e # d => Written(e)' = Written(e)  BY <1>1, <1>9, WrittenUnchanged
<1>12. SameTurn(state[d], after)  BY <1>3, <1>5 DEF SameTurn
<1>13. \E b : /\ Written(d)' = Written(d) \cup {b} /\ b.rk = state[d].sendingRatchetKey
              /\ b.num = state[d].sendingMessageNumber /\ b.key = state[d].sendingChainKey
  BY <1>4, <1>8, <1>10 DEF key
<1> QED
  BY <1>1, <1>3, <1>5, <1>6, <1>7, <1>11, <1>12, <1>13 DEF SameRest


(* What a step leaves of a device whose state it does not touch. *)
LEMMA AgreeOfKept ==
  ASSUME NEW e \in Device, AgreeOf(e), HearsOne(e)', AskedOK(e)',
         state'[e] = state[e], sealed'[e] = sealed[e], Written(e)' = Written(e),
         Drafted(e)' \subseteq Drafted(e), Spent(e)' = Spent(e),
         Len(sealed'[Peer(e)]) >= Len(sealed[Peer(e)]),
         Len(sealed[Peer(e)]) \in Nat, Len(sealed'[Peer(e)]) \in Nat
  PROVE  AgreeOf(e)'
<1>1. MaxSkippedKeys \in Nat  BY BoundsAssumption
<1>2. SidesOK(e, state[e])'  BY DEF AgreeOf, SidesOK
<1>3. \A b \in Written(e)' : WrittenOK(e, b)'  BY DEF AgreeOf, WrittenOK, SendChain
<1>4. \A s, keys : Holds(e, s, keys) => Holds(e, s, keys)'  BY <1>1 DEF Holds
<1>5. Holds(e, state[e], Spent(e))'  BY <1>4 DEF AgreeOf, Holds
<1>6. ASSUME NEW c \in Drafted(e)' PROVE DraftTurn(e, c)'
  <2>1. DraftTurn(e, c)  BY <1>6 DEF AgreeOf
  <2>2. SidesOK(e, c.draft)'  BY <2>1 DEF DraftTurn, SidesOK
  <2>3. Holds(e, c.draft, Spent(e) \cup {c.key})'  BY <1>4, <2>1 DEF DraftTurn, Holds
  <2>4. (SameTurn(state[e], c.draft) \/ Turned(e, c))'  BY <2>1 DEF DraftTurn, Turned
  <2> QED  BY <2>2, <2>3, <2>4 DEF DraftTurn
<1> QED  BY <1>2, <1>3, <1>5, <1>6 DEF AgreeOf

LEMMA TurnCases ==
  ASSUME TurnInv, NEW d \in Device
  PROVE  Reads(d) \/ (Due(d) /\ Reads(Peer(d)))
<1>1. PICK e \in Device : Reads(e) /\ (Reads(Peer(e)) \/ Due(Peer(e)))  BY DEF TurnInv
<1>2. e = d \/ (Peer(e) = d /\ Peer(d) = e)  BY DeviceAssumption DEF Device, Peer
<1> QED  BY <1>1, <1>2

LEMMA SealedLength ==
  ASSUME TypeOK, NEW d \in Device
  PROVE  Len(sealed[d]) \in Nat
<1>1. sealed[d] \in Seq(ChainKey)  BY DEF TypeOK
<1> QED  BY <1>1, LenProperties

LEMMA AgreeEncrypt ==
  ASSUME TypeOK, NamesInv, BodiesInv, AgreeInv, [Next]_vars,
         NEW d \in Device, EncryptBegin(d)
  PROVE  AgreeInv'
<1>1. /\ SameTurn(state[d], state'[d])
      /\ state'[d].previousSendingRatchetKey = state[d].previousSendingRatchetKey
      /\ state'[d].previousReceivingLength = state[d].previousReceivingLength
      /\ state'[d].sendingMessageNumber = state[d].sendingMessageNumber + 1
      /\ state'[d].receivingChainKey = state[d].receivingChainKey
      /\ state'[d].receivingMessageNumber = state[d].receivingMessageNumber
      /\ state'[d].skippedMessageKeys = state[d].skippedMessageKeys
      /\ Len(sealed'[d]) = Len(sealed[d]) + 1
  BY EncryptTurn
<1>2. /\ UNCHANGED <<opens, network, opened, sealFailures, rekeys, prunes>>
      /\ \A e \in Device : e # d =>
           /\ state'[e] = state[e] /\ sealed'[e] = sealed[e]
           /\ Written(e)' = Written(e)
  BY EncryptTurn
<1>3. PICK b : /\ Written(d)' = Written(d) \cup {b}
               /\ b.rk = state[d].sendingRatchetKey
               /\ b.num = state[d].sendingMessageNumber
               /\ b.key = state[d].sendingChainKey
  BY EncryptTurn
<1> SUFFICES ASSUME Calm PROVE TurnInv' /\ \A e \in Device : AgreeOf(e)'
  BY <1>2 DEF AgreeInv, Calm
<1> DEFINE p == Peer(d)
<1>4. p \in Device /\ p # d /\ Peer(p) = d /\ (\A e \in Device : e = d \/ e = p)
  BY PeerType, DeviceAssumption DEF Device, Peer
<1>5. TurnInv /\ AgreeOf(d) /\ AgreeOf(p)  BY <1>4 DEF AgreeInv
<1>6. /\ \A e \in Device : Drafted(e)' = Drafted(e)
      /\ \A e \in Device : Spent(e)' = Spent(e)
  BY <1>2, QueueUnchanged, SpentKept
<1>7. AskedOK(d)' /\ AskedOK(p)'  BY <1>2, <1>5 DEF AgreeOf, AskedOK
<1>8. TurnInv'
  <2>1. \A e \in Device : e # d => SameTurn(state[e], state'[e])  BY <1>2 DEF SameTurn
  <2> QED  BY <1>1, <1>5, <2>1, TurnKept
<1>9. /\ Len(sealed[d]) \in Nat /\ Len(sealed'[d]) \in Nat
      /\ state[d].sendingMessageNumber \in Nat
  <2>1. Len(sealed[d]) \in Nat  BY SealedLength
  <2>2. state[d].sendingMessageNumber \in Nat  BY DEF TypeOK, SessionState
  <2> QED  BY <1>1, <2>1, <2>2
<1>10. state[d].sendingMessageNumber <= Len(sealed[d])  BY <1>5 DEF AgreeOf, SidesOK
<1>11. HearsOne(p)'
  <2>1. b.rk = state[p].receivingRatchetPublicKey => b.key.chain = state[p].receivingChainKey.chain
    BY <1>3, <1>4, <1>5, TurnCases DEF Reads, Due, SendChain
  <2> HIDE DEF p
  <2>2. state'[p] = state[p] /\ Written(Peer(p))' = Written(d) \cup {b}  BY <1>2, <1>3, <1>4
  <2> QED  BY <1>4, <1>5, <2>1, <2>2 DEF AgreeOf, HearsOne
<1>12. AgreeOf(p)'
  <2> HIDE DEF p
  <2>1. /\ state'[p] = state[p] /\ sealed'[p] = sealed[p] /\ Written(p)' = Written(p)
        /\ Drafted(p)' \subseteq Drafted(p) /\ Spent(p)' = Spent(p)
    BY <1>2, <1>4, <1>6
  <2>2. /\ Len(sealed'[Peer(p)]) >= Len(sealed[Peer(p)])
        /\ Len(sealed[Peer(p)]) \in Nat /\ Len(sealed'[Peer(p)]) \in Nat
    BY <1>1, <1>4, <1>9
  <2> QED  BY <1>4, <1>5, <1>7, <1>11, <2>1, <2>2, AgreeOfKept
<1>13. AgreeOf(d)'
  <2>1. SidesOK(d, state[d])'
    BY <1>1, <1>5, <1>9 DEF AgreeOf, SidesOK, SameTurn
  <2>2. WrittenOK(d, b)'
    <3>1. b.num = b.key.pos  BY <1>3 DEF NamesInv, Names, Calm
    <3>2. b.rk[1] = d  BY <1>3, <1>5 DEF AgreeOf, SidesOK
    <3>3. b.num < Len(sealed'[d])  BY <1>1, <1>3, <1>9, <1>10
    <3>4. b.rk = state'[d].sendingRatchetKey /\ b.key.chain = SendChain(d)'
      BY <1>1, <1>3 DEF SendChain, SameTurn
    <3> QED  BY <3>1, <3>2, <3>3, <3>4 DEF WrittenOK
  <2>3. ASSUME NEW x \in Written(d) PROVE WrittenOK(d, x)'
    <3>1. WrittenOK(d, x)  BY <1>5 DEF AgreeOf
    <3>2. x.num \in Nat  BY WrittenType DEF Body
    <3>3. SendChain(d)' = SendChain(d) /\ state'[d].sendingRatchetKey = state[d].sendingRatchetKey
      BY <1>1 DEF SendChain, SameTurn
    <3>4. x.num < Len(sealed'[d])  BY <1>1, <1>9, <3>1, <3>2 DEF WrittenOK
    <3> QED  BY <3>1, <3>3, <3>4 DEF WrittenOK
  <2>4. HearsOne(d)'  BY <1>1, <1>2, <1>4, <1>5 DEF AgreeOf, HearsOne, SameTurn
  <2>5. \A keys : Holds(d, state[d], keys) => Holds(d, state'[d], keys)
    BY <1>1 DEF Holds, HoldsAll
  <2>6. \A s, keys : Holds(d, s, keys) => Holds(d, s, keys)'  BY <1>2, <1>4 DEF Holds
  <2>7. Holds(d, state[d], Spent(d))'  BY <1>5, <1>6, <2>5, <2>6 DEF AgreeOf, Holds
  <2>8. ASSUME NEW c \in Drafted(d)' PROVE DraftTurn(d, c)'
    <3>1. DraftTurn(d, c)  BY <1>5, <1>6 DEF AgreeOf
    <3>2. SidesOK(d, c.draft)'
      <4>1. c.draft.sendingMessageNumber \in Nat
        <5>1. PICK i \in DOMAIN opens[d] : c = opens[d][i] /\ ~Waiting(c)  BY <1>6 DEF Drafted
        <5>2. c \in Call  BY <5>1, CallAt
        <5>3. c.draft \in SessionState  BY <5>1, <5>2 DEF Waiting, Call
        <5> QED  BY <5>3 DEF SessionState
      <4> QED  BY <1>1, <1>9, <3>1, <4>1 DEF DraftTurn, SidesOK
    <3>3. Holds(d, c.draft, Spent(d) \cup {c.key})'
      BY <1>6, <2>6, <3>1 DEF DraftTurn, Holds
    <3>4. CASE SameTurn(state[d], c.draft)
      <4>1. SameTurn(state[d], c.draft)'  BY <1>1, <3>4 DEF SameTurn
      <4> QED  BY <3>2, <3>3, <4>1 DEF DraftTurn
    <3>5. CASE Turned(d, c)
      <4>1. TurnedBy(state[d], c.draft, c.rk, c.draft.sendingRatchetKey)'
        BY <1>1, <3>5 DEF Turned, TurnedBy, SameTurn
      <4>2. \A x \in Written(d)' : x.rk # c.draft.sendingRatchetKey
        BY <1>3, <3>5 DEF Turned
      <4>3. Turned(d, c)'  BY <1>1, <3>5, <4>1, <4>2 DEF Turned, SameTurn
      <4> QED  BY <3>2, <3>3, <4>3 DEF DraftTurn
    <3> QED  BY <3>1, <3>4, <3>5 DEF DraftTurn
  <2> QED  BY <1>3, <1>7, <2>1, <2>2, <2>3, <2>4, <2>7, <2>8 DEF AgreeOf
<1> QED  BY <1>4, <1>8, <1>12, <1>13

(* A call that starts finds its key on the chains the state has, or turns to the chain its header   *)
(* names, with a key pair that did not exist.                                                       *)
LEMMA AgreeStart ==
  ASSUME TypeOK, LockInv, KeysInv, BodiesInv, ReadInv, AgreeInv, [Next]_vars,
         NEW d \in Device, NEW i \in DOMAIN opens[d], OpenStart(d, i)
  PROVE  AgreeInv'
<1> DEFINE call  == opens[d][i]
           fresh == KeyOf(d, nextKey[d])
           p     == Peer(d)
<1>1. UNCHANGED <<state, opened, sealed, seals, network, rekeys, sealFailures, prunes>>  BY DEF OpenStart
<1>2. /\ \A e \in Device : e # d => opens'[e] = opens[e]
      /\ \A e \in Device : e # d => Drafted(e)' = Drafted(e)
  BY StartEffect DEF OpenStart, TypeOK
<1>3. PICK r \in Found(d, call) : \A c \in Drafted(d)' :
        /\ c.draft = r.state /\ c.key = r.key /\ c.rk = call.rk
  BY StartEffect
<1>4. /\ state[d] \in SessionState /\ call.rk \in Keys /\ call.num \in Nat /\ fresh \in Keys
  BY CallAt, FreshType DEF TypeOK, Call
<1>5. r \in FindMessageKey(state[d], call.rk, call.num, fresh)  BY DEF Found
<1> SUFFICES ASSUME Calm PROVE TurnInv' /\ \A e \in Device : AgreeOf(e)'
  BY <1>1 DEF AgreeInv, Calm
<1>6. p \in Device /\ p # d /\ Peer(p) = d /\ (\A e \in Device : e = d \/ e = p)
  BY PeerType, DeviceAssumption DEF Device, Peer
<1>7. TurnInv /\ AgreeOf(d) /\ AgreeOf(p)  BY <1>6 DEF AgreeInv
<1>8. /\ \A e \in Device : Written(e)' = Written(e)
      /\ \A e \in Device : Spent(e)' = Spent(e)
  BY <1>1, WrittenUnchanged, SpentKept
<1>9. TurnInv'  BY <1>1, <1>7 DEF TurnInv, Reads, Due, SendChain
<1>10. \A e \in Device : HearsOne(e)'  BY <1>1, <1>6, <1>7, <1>8 DEF AgreeOf, HearsOne
<1>11. /\ Len(sealed[d]) \in Nat /\ Len(sealed[p]) \in Nat
  BY <1>6, SealedLength
<1>12. AskedOK(d)' /\ AskedOK(p)'
  <2>1. AskedOK(p)'  BY <1>1, <1>2, <1>6, <1>7 DEF AgreeOf, AskedOK
  <2>2. \A j \in DOMAIN opens'[d] :
          j \in DOMAIN opens[d] /\ opens'[d][j].rk = opens[d][j].rk
                                /\ opens'[d][j].num = opens[d][j].num
    BY StartEffect
  <2> QED  BY <1>1, <1>7, <2>1, <2>2 DEF AgreeOf, AskedOK
<1>13. AgreeOf(p)'
  <2> HIDE DEF p
  <2>1. /\ state'[p] = state[p] /\ sealed'[p] = sealed[p] /\ Written(p)' = Written(p)
        /\ Drafted(p)' \subseteq Drafted(p) /\ Spent(p)' = Spent(p)
    BY <1>1, <1>2, <1>6, <1>8
  <2>2. /\ Len(sealed'[Peer(p)]) >= Len(sealed[Peer(p)])
        /\ Len(sealed[Peer(p)]) \in Nat /\ Len(sealed'[Peer(p)]) \in Nat
    BY <1>1, <1>6, <1>11
  <2> QED  BY <1>6, <1>7, <1>10, <1>12, <2>1, <2>2, AgreeOfKept
<1>14. Holds(d, r.state, Spent(d) \cup {r.key})
  <2> SUFFICES ASSUME Len(sealed[p]) <= MaxSkippedKeys + 1
               PROVE  HoldsAll(r.state, Spent(d) \cup {r.key})
    BY DEF Holds
  <2>1. PICK h \in network : h.from = p /\ call.num = h.num  BY <1>7 DEF AgreeOf, AskedOK
  <2>2. WrittenOK(p, h)  BY <1>7, <2>1 DEF AgreeOf, Written
  <2>3. call.num <= MaxSkippedKeys
    BY <1>4, <1>11, <2>1, <2>2, BoundsAssumption DEF WrittenOK
  <2>4. ReceiveInv(state[d])  BY DEF ReadInv, StateInv
  <2>5. HoldsAll(state[d], Spent(d))  BY <1>7 DEF AgreeOf, Holds
  <2> HIDE DEF call, fresh
  <2> QED  BY <1>4, <1>5, <2>3, <2>4, <2>5, FindHolds
<1>15. SidesOK(d, r.state) /\ (SameTurn(state[d], r.state) \/
         /\ TurnedBy(state[d], r.state, call.rk, fresh)
         /\ r.key.chain = r.state.receivingChainKey.chain)
  <2>1. SidesOK(d, state[d])  BY <1>7 DEF AgreeOf
  <2>2. r.state \in SessionState  BY <1>4, <1>5, FindType
  <2>3. CASE SameTurn(state[d], r.state) /\ SameRest(state[d], r.state)
    BY <2>1, <2>3 DEF SidesOK, SameTurn, SameRest
  <2>4. CASE /\ TurnedBy(state[d], r.state, call.rk, fresh)
             /\ r.state.previousSendingRatchetKey = state[d].sendingRatchetKey
             /\ r.state.previousReceivingLength = 0 /\ r.state.sendingMessageNumber = 0
             /\ r.key.chain = r.state.receivingChainKey.chain
    <3>1. fresh[1] = d  BY DEF KeyOf
    <3>2. call.rk # None  BY <1>4, NoneAssumption
    <3>3. Len(r.state.rootKey) \in Nat  BY <2>2 DEF SessionState, RootKey
    <3> HIDE DEF fresh, call
    <3>4. SidesOK(d, r.state)
      BY <1>11, <2>1, <2>4, <3>1, <3>2, <3>3 DEF SidesOK, TurnedBy
    <3> QED  BY <2>4, <3>4
  <2> HIDE DEF call, fresh
  <2> QED  BY <1>4, <1>5, <2>3, <2>4, FindTurn
<1>16. ASSUME NEW c \in Drafted(d)' PROVE DraftTurn(d, c)'
  <2>1. c.draft = r.state /\ c.key = r.key /\ c.rk = call.rk  BY <1>3
  <2> HIDE DEF call
  <2>2. SidesOK(d, c.draft)'  BY <1>1, <1>15, <2>1 DEF SidesOK
  <2>3. Holds(d, c.draft, Spent(d) \cup {c.key})'  BY <1>1, <1>8, <1>14, <2>1 DEF Holds
  <2>4. CASE SameTurn(state[d], r.state)
    BY <1>1, <2>1, <2>2, <2>3, <2>4 DEF DraftTurn
  <2>5. CASE TurnedBy(state[d], r.state, call.rk, fresh)
             /\ r.key.chain = r.state.receivingChainKey.chain
    <3>1. r.state.sendingRatchetKey = fresh  BY <2>5 DEF TurnedBy
    <3>2. fresh \notin UsedKeys  BY FreshType DEF UsedKeys, KeyOf, TypeOK
    <3>3. state[d].sendingRatchetKey \in UsedKeys  BY DEF KeysInv, LiveInv, FromUsedKeys
    <3>4. \A b \in Written(d) : b.rk \in UsedKeys
      BY DEF KeysInv, SealsInv, NetworkInv, Written
    <3> HIDE DEF fresh
    <3>5. Turned(d, c)'
      BY <1>1, <1>8, <2>1, <2>5, <3>1, <3>2, <3>3, <3>4 DEF Turned
    <3> QED  BY <2>2, <2>3, <3>5 DEF DraftTurn
  <2> QED  BY <1>15, <2>4, <2>5
<1>17. AgreeOf(d)'
  <2>1. SidesOK(d, state[d])' /\ Holds(d, state[d], Spent(d))'
    BY <1>1, <1>7, <1>8 DEF AgreeOf, SidesOK, Holds
  <2>2. \A b \in Written(d)' : WrittenOK(d, b)'
    BY <1>1, <1>7, <1>8 DEF AgreeOf, WrittenOK, SendChain
  <2> QED  BY <1>10, <1>12, <1>16, <2>1, <2>2 DEF AgreeOf
<1> QED  BY <1>6, <1>9, <1>13, <1>17

(* What is adopted has the receiving half and the root of the draft, and the sending half of the    *)
(* draft or of the live state.                                                                      *)
LEMMA AdoptTurn ==
  ASSUME NEW live \in SessionState, NEW draft \in SessionState, NEW overtaken \in BOOLEAN
  PROVE  LET t == Adopted(live, draft, overtaken)
         IN  /\ t.rootKey = draft.rootKey
             /\ t.receivingRatchetPublicKey = draft.receivingRatchetPublicKey
             /\ t.receivingChainKey = draft.receivingChainKey
             /\ t.receivingMessageNumber = draft.receivingMessageNumber
             /\ t.skippedMessageKeys = draft.skippedMessageKeys
             /\ t.previousSendingRatchetKey = draft.previousSendingRatchetKey
             /\ t.previousReceivingLength = draft.previousReceivingLength
             /\ \/ /\ t.sendingRatchetKey = draft.sendingRatchetKey
                   /\ t.sendingChainKey = draft.sendingChainKey
                   /\ t.sendingMessageNumber = draft.sendingMessageNumber
                \/ /\ t.sendingRatchetKey = live.sendingRatchetKey
                   /\ t.sendingChainKey = live.sendingChainKey
                   /\ t.sendingMessageNumber = live.sendingMessageNumber
BY DEF Adopted, SessionState

(* The lengths of the names, and what mixing a secret in does to them. *)
LEMMA DhLength ==
  ASSUME NEW root \in RootKey, NEW a \in Keys, NEW b \in Keys
  PROVE  Len(root) \in Nat /\ Len(DhRatchet(root, a, b)) = Len(root) + 1
<1>1. root \in Seq(SUBSET Keys) /\ {a, b} \in SUBSET Keys  BY DEF RootKey
<1> QED  BY <1>1, AppendProperties, LenProperties DEF DhRatchet, SharedSecret

(* A body opened with a draft that turned is on the chain its writer sends on, and the turn follows *)
(* its writer there.                                                                                *)
LEMMA TurnFollows ==
  ASSUME TypeOK, TurnInv, NEW d \in Device, NEW c, NEW b \in Written(Peer(d)),
         WrittenOK(Peer(d), b), c.draft \in SessionState, Turned(d, c), c.rk = b.rk, c.key = b.key
  PROVE  LET p == Peer(d)
         IN  /\ Due(d) /\ Reads(p)
             /\ c.draft.receivingRatchetPublicKey = state[p].sendingRatchetKey
             /\ c.draft.receivingChainKey # None
             /\ c.draft.receivingChainKey.chain = SendChain(p)
             /\ c.draft.rootKey = DhRatchet(state[p].rootKey, c.draft.sendingRatchetKey,
                                            state[p].sendingRatchetKey)
             /\ c.draft.sendingChainKey.chain = c.draft.rootKey
             /\ Len(c.draft.rootKey) = Len(state[d].rootKey) + 2
             /\ Len(SendChain(p)) = Len(state[d].rootKey) + 1
             /\ Len(state[d].rootKey) \in Nat
<1> DEFINE p == Peer(d)
           sk == state[p].sendingRatchetKey
           fresh == c.draft.sendingRatchetKey
           recvd == DhRatchet(state[d].rootKey, state[d].sendingRatchetKey, c.rk)
<1>1. p \in Device  BY PeerType
<1>2. /\ state[d] \in SessionState /\ state[p] \in SessionState /\ b \in Body
  BY <1>1, WrittenType DEF TypeOK
<1>3. /\ state[d].rootKey \in RootKey /\ state[d].sendingRatchetKey \in Keys
      /\ c.rk \in Keys /\ fresh \in Keys /\ SendChain(p) \in RootKey
      /\ b.key.chain \in RootKey
  BY <1>2 DEF SessionState, Body, ChainKey, SendChain
<1>4. recvd \in RootKey /\ Len(recvd) = Len(state[d].rootKey) + 1 /\ Len(state[d].rootKey) \in Nat
  BY <1>3, DhLength, DhType
<1>5. /\ c.draft.receivingRatchetPublicKey = c.rk /\ c.draft.receivingChainKey # None
      /\ c.draft.receivingChainKey.chain = recvd
      /\ c.draft.rootKey = DhRatchet(recvd, fresh, c.rk)
      /\ c.draft.sendingChainKey.chain = c.draft.rootKey
      /\ b.key.chain = recvd
  BY DEF Turned, TurnedBy
<1> HIDE DEF recvd, fresh
<1>6. Len(c.draft.rootKey) = Len(recvd) + 1  BY <1>3, <1>4, <1>5, DhLength
<1>7. Len(SendChain(p)) \in Nat /\ Len(b.key.chain) \in Nat
  BY <1>3 DEF RootKey
<1>8. ~Reads(d)
  <2> SUFFICES ASSUME Reads(d) PROVE FALSE  OBVIOUS
  <2>1. Len(SendChain(p)) <= Len(state[d].rootKey)  BY DEF Reads
  <2>2. Len(b.key.chain) <= Len(SendChain(p))  BY <1>7 DEF WrittenOK
  <2> HIDE DEF p
  <2> QED  BY <1>4, <1>5, <1>7, <2>1, <2>2
<1>9. Due(d) /\ Reads(p)  BY <1>8, TurnCases
<1>10. SendChain(p) = DhRatchet(state[d].rootKey, state[d].sendingRatchetKey, sk)
       /\ state[p].rootKey = SendChain(p)
  BY <1>9 DEF Due
<1>11. Len(SendChain(p)) = Len(state[d].rootKey) + 1
  <2>1. sk \in Keys  BY <1>2 DEF SessionState
  <2> HIDE DEF p, sk
  <2> QED  BY <1>3, <1>10, <2>1, DhLength
<1>12. b.rk = sk /\ b.key.chain = SendChain(p)
  <2>1. ~(Len(b.key.chain) < Len(SendChain(p)))
    <3> HIDE DEF p
    <3> QED  BY <1>4, <1>5, <1>11
  <2> QED  BY <2>1 DEF WrittenOK
<1> QED  BY <1>4, <1>5, <1>6, <1>9, <1>10, <1>11, <1>12 DEF fresh

LEMMA AgreeAdopt ==
  ASSUME TypeOK, LockInv, BodiesInv, ApartInv, ReadInv, AgreeInv, [Next]_vars,
         NEW d \in Device, NEW i \in DOMAIN opens[d], OpenAdopt(d, i)
  PROVE  AgreeInv'
<1> DEFINE c     == opens[d][i]
           live  == state[d]
           over  == c.epochAtStart # sendEpoch[d]
           after == Adopted(live, c.draft, over)
           p     == Peer(d)
<1>1. /\ state' = [state EXCEPT ![d] = after]
      /\ opened' = [opened EXCEPT ![d] = Append(@, c.body.id)]
      /\ opens' = [opens EXCEPT ![d] = Without(@, i)]
      /\ ~Waiting(c) /\ c.key = c.body.key /\ c.rk = c.body.rk
      /\ UNCHANGED <<sealed, seals, network, rekeys, sealFailures, prunes>>
  BY DEF OpenAdopt, Authenticates
<1> SUFFICES ASSUME Calm PROVE TurnInv' /\ \A e \in Device : AgreeOf(e)'
  BY <1>1 DEF AgreeInv, Calm
<1>2. p \in Device /\ p # d /\ Peer(p) = d /\ (\A e \in Device : e = d \/ e = p)
  BY PeerType, DeviceAssumption DEF Device, Peer
<1>3. TurnInv /\ AgreeOf(d) /\ AgreeOf(p)  BY <1>2 DEF AgreeInv
<1>4. Drafted(d)' = {} /\ \A e \in Device : e # d => Drafted(e)' = Drafted(e)
  BY DoneEffect
<1>5. c.draft \in SessionState /\ live \in SessionState /\ c.body.id \in Nat
  BY <1>1, CallAt DEF Waiting, Call, TypeOK, Body
<1>6. /\ c \in Drafted(d) /\ c.body \in network /\ c.body.from = p
      /\ c.key = sealed[p][c.body.id]
  BY AdoptSound
<1>7. /\ state'[d] = after /\ opened'[d] = Append(opened[d], c.body.id)
      /\ \A e \in Device : e # d => /\ state'[e] = state[e] /\ opened'[e] = opened[e]
                                    /\ opens'[e] = opens[e]
      /\ opens'[d] = Without(opens[d], i)
      /\ opened[d] \in Seq(Nat) /\ opens[d] \in Seq(Call)
  BY <1>1 DEF TypeOK
<1>8. /\ after.rootKey = c.draft.rootKey
      /\ after.receivingRatchetPublicKey = c.draft.receivingRatchetPublicKey
      /\ after.receivingChainKey = c.draft.receivingChainKey
      /\ after.receivingMessageNumber = c.draft.receivingMessageNumber
      /\ after.skippedMessageKeys = c.draft.skippedMessageKeys
      /\ after.previousSendingRatchetKey = c.draft.previousSendingRatchetKey
      /\ after.previousReceivingLength = c.draft.previousReceivingLength
      /\ \/ /\ after.sendingRatchetKey = c.draft.sendingRatchetKey
            /\ after.sendingChainKey = c.draft.sendingChainKey
            /\ after.sendingMessageNumber = c.draft.sendingMessageNumber
         \/ /\ after.sendingRatchetKey = live.sendingRatchetKey
            /\ after.sendingChainKey = live.sendingChainKey
            /\ after.sendingMessageNumber = live.sendingMessageNumber
  <2>1. over \in BOOLEAN  OBVIOUS
  <2> HIDE DEF over, c, live
  <2> QED  BY <1>5, <2>1, AdoptTurn
<1> HIDE DEF after, c
<1>9. DraftTurn(d, c) /\ SidesOK(d, live)  BY <1>3, <1>6 DEF AgreeOf
<1>10. Spent(p)' = Spent(p) /\ \A e \in Device : Written(e)' = Written(e)
  BY <1>1, <1>2, <1>7, SpentKept, WrittenUnchanged
<1>11. Spent(d) \cup {c.key} \subseteq Spent(d)'
  <2>1. /\ \A j \in DOMAIN opened[d] : j \in DOMAIN opened'[d] /\ opened'[d][j] = opened[d][j]
        /\ Len(opened[d]) + 1 \in DOMAIN opened'[d]
        /\ opened'[d][Len(opened[d]) + 1] = c.body.id
    BY <1>5, <1>7, AppendProperties, LenProperties
  <2> QED  BY <1>1, <1>6, <2>1 DEF Spent
<1>12. AskedOK(d)' /\ AskedOK(p)'
  <2>1. AskedOK(p)'  BY <1>1, <1>2, <1>3, <1>7 DEF AgreeOf, AskedOK
  <2>2. \A j \in DOMAIN opens'[d] : \E k \in DOMAIN opens[d] : opens'[d][j] = opens[d][k]
    BY <1>7, WithoutType
  <2>3. AskedOK(d)'  BY <1>1, <1>3, <2>2 DEF AgreeOf, AskedOK
  <2> QED  BY <2>1, <2>3
<1>13. Holds(d, state[d], Spent(d))'
  <2> SUFFICES ASSUME Len(sealed[p]) <= MaxSkippedKeys + 1
               PROVE  HoldsAll(state'[d], Spent(d)')
    BY <1>1 DEF Holds
  <2>1. HoldsAll(c.draft, Spent(d) \cup {c.key})  BY <1>9 DEF DraftTurn, Holds
  <2> QED  BY <1>7, <1>8, <1>11, <2>1 DEF HoldsAll
<1>14. HearsOne(p)'  BY <1>2, <1>3, <1>7, <1>10 DEF AgreeOf, HearsOne
<1>15. AgreeOf(p)'
  <2>1. Len(sealed[d]) \in Nat  BY SealedLength
  <2> HIDE DEF p
  <2>2. /\ state'[p] = state[p] /\ sealed'[p] = sealed[p] /\ Written(p)' = Written(p)
        /\ Drafted(p)' \subseteq Drafted(p) /\ Spent(p)' = Spent(p)
    BY <1>1, <1>2, <1>4, <1>7, <1>10
  <2>3. /\ Len(sealed'[Peer(p)]) >= Len(sealed[Peer(p)])
        /\ Len(sealed[Peer(p)]) \in Nat /\ Len(sealed'[Peer(p)]) \in Nat
    BY <1>1, <1>2, <2>1
  <2> QED  BY <1>2, <1>3, <1>12, <1>14, <2>2, <2>3, AgreeOfKept
<1>16. CASE SameTurn(live, c.draft)
  <2>1. SameTurn(live, after)
    <3>1. /\ after.sendingRatchetKey = live.sendingRatchetKey
          /\ after.sendingChainKey.chain = live.sendingChainKey.chain
      BY <1>8, <1>16 DEF SameTurn
    <3> QED  BY <1>8, <1>16, <3>1 DEF SameTurn
  <2>2. TurnInv'
    <3>1. \A e \in Device : SameTurn(state[e], state'[e])
      BY <1>7, <2>1 DEF SameTurn
    <3> QED  BY <1>3, <3>1, TurnKept
  <2>3. SidesOK(d, state[d])'
    <3>1. after.sendingMessageNumber <= Len(sealed[d])  BY <1>8, <1>9 DEF DraftTurn, SidesOK
    <3>2. SidesOK(d, after)  BY <1>8, <1>9, <2>1, <3>1 DEF DraftTurn, SidesOK, SameTurn
    <3> QED  BY <1>1, <1>7, <3>2 DEF SidesOK
  <2>4. \A b \in Written(d)' : WrittenOK(d, b)'
    BY <1>1, <1>3, <1>7, <1>10, <2>1 DEF AgreeOf, WrittenOK, SendChain, SameTurn
  <2>5. HearsOne(d)'
    <3>1. after.receivingRatchetPublicKey # None => after.receivingChainKey # None
          /\ live.receivingChainKey # None
      BY <1>8, <1>9, <2>1 DEF DraftTurn, SidesOK, SameTurn
    <3> QED  BY <1>2, <1>3, <1>7, <1>10, <2>1, <3>1 DEF AgreeOf, HearsOne, SameTurn
  <2>6. AgreeOf(d)'  BY <1>4, <1>12, <1>13, <2>3, <2>4, <2>5 DEF AgreeOf
  <2> QED  BY <1>2, <1>15, <2>2, <2>6
<1>17. CASE Turned(d, c)
  <2>1. /\ c.body \in Written(p) /\ WrittenOK(p, c.body)
    BY <1>3, <1>6 DEF AgreeOf, Written
  <2>2. /\ Due(d) /\ Reads(p)
        /\ c.draft.receivingRatchetPublicKey = state[p].sendingRatchetKey
        /\ c.draft.receivingChainKey # None
        /\ c.draft.receivingChainKey.chain = SendChain(p)
        /\ c.draft.rootKey = DhRatchet(state[p].rootKey, c.draft.sendingRatchetKey,
                                       state[p].sendingRatchetKey)
        /\ c.draft.sendingChainKey.chain = c.draft.rootKey
        /\ Len(c.draft.rootKey) = Len(live.rootKey) + 2
        /\ Len(SendChain(p)) = Len(live.rootKey) + 1
        /\ Len(live.rootKey) \in Nat
    BY <1>1, <1>3, <1>5, <1>17, <2>1, TurnFollows
  <2>3. SendChain(p)' = SendChain(p) /\ state'[p] = state[p]  BY <1>2, <1>7 DEF SendChain
  <2>4. Reads(d)'
    <3>1. Len(SendChain(p)) <= Len(c.draft.rootKey)  BY <2>2
    <3> QED  BY <1>7, <1>8, <2>2, <2>3, <3>1 DEF Reads
  <2>5. /\ Len(live.sendingChainKey.chain) <= Len(live.rootKey)
        /\ Len(live.sendingChainKey.chain) \in Nat
    BY <1>5, <1>9 DEF SidesOK, SessionState, ChainKey, RootKey
  <2>6. /\ c.draft.sendingRatchetKey # live.sendingRatchetKey
        /\ \A b \in Written(d) : b.rk # c.draft.sendingRatchetKey
    BY <1>17 DEF Turned
  <2>7. SidesOK(d, state[d])'
    <3>1. /\ after.sendingMessageNumber <= Len(sealed[d])
          /\ after.sendingRatchetKey[1] = d
      BY <1>8, <1>9 DEF DraftTurn, SidesOK
    <3>2. Len(after.sendingChainKey.chain) <= Len(after.rootKey)
      <4>1. Len(live.sendingChainKey.chain) <= Len(c.draft.rootKey)  BY <2>2, <2>5
      <4>2. Len(c.draft.sendingChainKey.chain) <= Len(c.draft.rootKey)  BY <2>2
      <4> QED  BY <1>8, <4>1, <4>2
    <3>3. SidesOK(d, after)  BY <1>8, <1>9, <3>1, <3>2 DEF DraftTurn, SidesOK
    <3> QED  BY <1>1, <1>7, <3>3 DEF SidesOK
  <2>8. HearsOne(d)'
    <3>1. \A b \in Written(p) : b.rk = state[p].sendingRatchetKey => b.key.chain = SendChain(p)
      BY <1>3 DEF AgreeOf, WrittenOK
    <3> QED  BY <1>7, <1>8, <1>10, <1>2, <2>2, <3>1 DEF HearsOne
  <2>9. CASE /\ after.sendingRatchetKey = live.sendingRatchetKey
             /\ after.sendingChainKey = live.sendingChainKey
    <3>1. SendChain(d)' = SendChain(d) /\ state'[d].sendingRatchetKey = live.sendingRatchetKey
      BY <1>7, <2>9 DEF SendChain
    <3>2. Reads(p)'  BY <1>2, <2>2, <2>3, <3>1 DEF Reads
    <3>3. \A b \in Written(d)' : WrittenOK(d, b)'
      BY <1>1, <1>3, <1>10, <3>1 DEF AgreeOf, WrittenOK
    <3>4. TurnInv'  BY <2>4, <3>2 DEF TurnInv
    <3>5. AgreeOf(d)'  BY <1>4, <1>12, <1>13, <2>7, <2>8, <3>3 DEF AgreeOf
    <3> QED  BY <1>2, <1>15, <3>4, <3>5
  <2>10. CASE /\ after.sendingRatchetKey = c.draft.sendingRatchetKey
              /\ after.sendingChainKey = c.draft.sendingChainKey
    <3>1. /\ SendChain(d)' = c.draft.rootKey
          /\ state'[d].sendingRatchetKey = c.draft.sendingRatchetKey
          /\ state'[d].rootKey = c.draft.rootKey
      BY <1>7, <1>8, <2>2, <2>10 DEF SendChain
    <3>2. Due(p)'
      <4>1. state[p].receivingRatchetPublicKey # c.draft.sendingRatchetKey
        BY <1>2, <2>2, <2>6 DEF Reads
      <4>2. c.draft.rootKey = DhRatchet(state[p].rootKey, state[p].sendingRatchetKey,
                                        c.draft.sendingRatchetKey)
        BY <2>2 DEF DhRatchet, SharedSecret
      <4> QED  BY <1>2, <2>3, <3>1, <4>1, <4>2 DEF Due
    <3>3. ASSUME NEW b \in Written(d)' PROVE WrittenOK(d, b)'
      <4>1. WrittenOK(d, b) /\ b.rk # c.draft.sendingRatchetKey
        BY <1>3, <1>10, <2>6, <3>3 DEF AgreeOf
      <4>2. Len(b.key.chain) < Len(c.draft.rootKey)
        <5>1. Len(b.key.chain) <= Len(live.sendingChainKey.chain)
          BY <2>5, <4>1 DEF WrittenOK, SendChain
        <5>2. Len(b.key.chain) \in Nat
          <6>1. b \in Body  BY <1>10, <3>3, WrittenType
          <6> QED  BY <6>1 DEF Body, ChainKey, RootKey
        <5>3. Len(c.draft.rootKey) = Len(live.rootKey) + 2 /\ Len(live.rootKey) \in Nat
          BY <2>2
        <5> DEFINE x == Len(b.key.chain)
                   y == Len(live.sendingChainKey.chain)
                   z == Len(live.rootKey)
        <5>4. x <= y /\ x \in Nat /\ y \in Nat /\ y <= z /\ z \in Nat
          BY <2>5, <5>1, <5>2, <5>3
        <5> HIDE DEF x, y, z
        <5>5. x < z + 2  BY <5>4
        <5> QED  BY <5>3, <5>5 DEF x, z
      <4> QED  BY <1>1, <3>1, <4>1, <4>2 DEF WrittenOK
    <3>4. TurnInv'  BY <2>4, <3>2 DEF TurnInv
    <3>5. AgreeOf(d)'  BY <1>4, <1>12, <1>13, <2>7, <2>8, <3>3 DEF AgreeOf
    <3> QED  BY <1>2, <1>15, <3>4, <3>5
  <2> QED  BY <1>8, <2>9, <2>10
<1> QED  BY <1>9, <1>16, <1>17 DEF DraftTurn

LEMMA AgreeNext ==
  /\ TypeOK /\ LockInv /\ KeysInv /\ NamesInv /\ BodiesInv /\ ApartInv /\ ReadInv
  /\ AgreeInv /\ [Next]_vars
  => AgreeInv'
<1> SUFFICES ASSUME TypeOK, LockInv, KeysInv, NamesInv, BodiesInv, ApartInv, ReadInv,
                    AgreeInv, [Next]_vars
             PROVE  AgreeInv'
  OBVIOUS
<1>1. CASE UNCHANGED vars
  <2>1. UNCHANGED <<state, seals, opens, network, sealed, opened, sealFailures, rekeys, prunes>>
    BY <1>1 DEF vars
  <2>2. \A d \in Device : /\ Written(d)' = Written(d) /\ Drafted(d)' = Drafted(d)
                          /\ AskedOK(d) => AskedOK(d)'
    BY <2>1, QueueUnchanged, WrittenUnchanged DEF AskedOK
  <2>3. Calm' => Calm  BY <2>1 DEF Calm
  <2> QED  BY <2>1, <2>2, <2>3, AlikeItself, AgreeQuiet
<1>2. ASSUME NEW d \in Device, SealFail(d) \/ IdleRekey(d) \/ PruneForQuota(d)
      PROVE  AgreeInv'
  <2>1. sealFailures' = sealFailures + 1 \/ rekeys' = rekeys + 1 \/ prunes' = prunes + 1
    BY <1>2 DEF SealFail, IdleRekey, PruneForQuota
  <2>2. sealFailures \in Nat /\ rekeys \in Nat /\ prunes \in Nat  BY DEF TypeOK
  <2>3. ~Calm'  BY <2>1, <2>2 DEF Calm
  <2> QED  BY <2>3 DEF AgreeInv
<1>3. ASSUME NEW d \in Device, NEW i \in DOMAIN opens[d], Running(d, i) PROVE AgreeInv'
  BY <1>3, AgreeStart, AgreeQueue, AgreeAdopt DEF Running
<1>4. CASE Next
  <2>1. PICK d \in Device : \/ EncryptBegin(d) \/ SealOk(d) \/ SealFail(d)
                            \/ IdleRekey(d) \/ PruneForQuota(d) \/ Reload(d)
                            \/ \E body, header \in network : OpenCall(d, body, header)
                            \/ \E i \in DOMAIN opens[d] : Running(d, i)
    BY <1>4 DEF Next
  <2> QED  BY <1>2, <1>3, <2>1, AgreeEncrypt, AgreeSealOk, AgreeQueue, AgreeReload
<1> QED  BY <1>1, <1>4

(* No header of the peer names a chain this device stepped off. *)
LEMMA NothingPrevious ==
  ASSUME NEW d \in Device, NEW s, SidesOK(d, s), NEW rk \in Keys, rk[1] # d, NEW n \in Nat
  PROVE  TakePreviousChainKey(s, rk, n) = {} /\ TakePreviousReceivingKey(s, rk, n) = {}
<1>1. s.previousSendingRatchetKey # rk  BY NoneAssumption DEF SidesOK
<1>2. ~(n < s.previousReceivingLength)  BY DEF SidesOK
<1> QED  BY <1>1, <1>2 DEF TakePreviousChainKey, TakePreviousReceivingKey

(* A number the chain has not passed, and can be skipped to, is found on it. *)
LEMMA NextFound ==
  ASSUME NEW s \in SessionState, s.receivingChainKey # None,
         s.receivingChainKey.pos = s.receivingMessageNumber,
         NEW n \in Nat, n >= s.receivingMessageNumber, n <= MaxSkip
  PROVE  \E r \in NextKey(s, n) : r.key = [chain |-> s.receivingChainKey.chain, pos |-> n]
<1> DEFINE gap == n - s.receivingMessageNumber
<1>1. s.receivingMessageNumber \in Nat  BY DEF SessionState
<1>2. gap \in 0 .. MaxSkip /\ s.receivingMessageNumber + gap = n
  BY <1>1, BoundsAssumption
<1>3. \E r \in NextKey(s, n) : r.key = Advance(s.receivingChainKey, gap)  BY <1>2 DEF NextKey
<1> QED  BY <1>2, <1>3 DEF Advance

LEMMA BodyOpens ==
  ASSUME TypeOK, KeysInv, BodiesInv, ReadInv, TurnInv, NEW d \in Device,
         AgreeOf(d), AgreeOf(Peer(d)), NEW b \in ReadableBy(d)
  PROVE  Opens(d, b)
<1> DEFINE p     == Peer(d)
           s     == state[d]
           fresh == KeyOf(d, nextKey[d])
           step  == RatchetStep(s, b.rk, fresh)
<1>1. p \in Device /\ p # d  BY PeerType
<1>2. /\ b \in network /\ b.from = p /\ b \in Body /\ b \in Written(p)
      /\ \A i \in DOMAIN opened[d] : opened[d][i] # b.id
      /\ b.rk \in {s.receivingRatchetPublicKey, state[p].sendingRatchetKey}
      /\ Len(sealed[p]) <= MaxSkippedKeys + 1
  BY DEF ReadableBy, TypeOK, Written
<1>3. /\ b.num \in Nat /\ b.rk \in Keys /\ b.key \in ChainKey
      /\ b.key = [chain |-> b.key.chain, pos |-> b.key.pos]
      /\ s \in SessionState /\ fresh \in Keys
  BY <1>2, FreshType DEF Body, ChainKey, TypeOK
<1>4. WrittenOK(p, b)  BY <1>2 DEF AgreeOf
<1>5. b.num <= MaxSkippedKeys /\ b.num <= MaxSkip
  <2>1. Len(sealed[p]) \in Nat  BY <1>1, SealedLength
  <2> HIDE DEF p
  <2> QED  BY <1>2, <1>3, <1>4, <2>1, BoundsAssumption, SkipAssumption DEF WrittenOK
<1>6. /\ TakePreviousChainKey(s, b.rk, b.num) = {}
      /\ TakePreviousReceivingKey(s, b.rk, b.num) = {}
  BY <1>1, <1>3, <1>4, NothingPrevious DEF AgreeOf, WrittenOK
<1>7. /\ b.num = b.key.pos
      /\ ReceiveInv(s) /\ HoldsAll(s, Spent(d)) /\ SidesOK(d, s)
  BY <1>2, <1>4 DEF ReadInv, StateInv, AgreeOf, Holds, WrittenOK
<1> HIDE DEF fresh
<1>8. CASE b.rk = s.receivingRatchetPublicKey
  <2>1. FindMessageKey(s, b.rk, b.num, fresh) = HeldKey(s, b.num) \cup NextKey(s, b.num)
    BY <1>6, <1>8 DEF FindMessageKey, NeedsStep, AdvanceReceivingChain
  <2>2. s.receivingChainKey # None /\ b.key.chain = s.receivingChainKey.chain
    BY <1>2, <1>3, <1>7, <1>8, NoneAssumption DEF AgreeOf, HearsOne, SidesOK
  <2>3. b.key = [chain |-> s.receivingChainKey.chain, pos |-> b.num]  BY <1>3, <1>7, <2>2
  <2>4. CASE b.num >= s.receivingMessageNumber
    <3>1. s.receivingChainKey.pos = s.receivingMessageNumber  BY <1>7, <2>2 DEF ReceiveInv
    <3>2. \E r \in NextKey(s, b.num) : r.key = b.key
      BY <1>3, <1>5, <2>2, <2>3, <2>4, <3>1, NextFound
    <3> QED  BY <2>1, <3>2 DEF Opens, fresh
  <2>5. CASE b.num < s.receivingMessageNumber
    <3>1. [num |-> b.num, key |-> b.key] \in s.skippedMessageKeys \/ b.key \in Spent(d)
      BY <1>3, <1>7, <2>2, <2>3, <2>5 DEF HoldsAll
    <3>2. b.key \notin Spent(d)  BY <1>2, UnreadUnspent
    <3> DEFINE e == [num |-> b.num, key |-> b.key]
    <3>3. e \in s.skippedMessageKeys /\ e.num = b.num /\ e.key = b.key  BY <3>1, <3>2
    <3> DEFINE r == [key |-> e.key, state |-> [s EXCEPT !.skippedMessageKeys = @ \ {e}]]
    <3> HIDE DEF e, s
    <3>4. r \in HeldKey(s, b.num)  BY <2>5, <3>3 DEF HeldKey
    <3>5. r.key = b.key  BY <3>3
    <3> HIDE DEF r
    <3> QED  BY <2>1, <3>4, <3>5 DEF Opens, fresh, s
  <2>6. s.receivingMessageNumber \in Nat  BY <1>3 DEF SessionState
  <2> HIDE DEF s
  <2> QED  BY <1>3, <2>4, <2>5, <2>6
<1>9. CASE b.rk # s.receivingRatchetPublicKey
  <2>1. b.rk = state[p].sendingRatchetKey  BY <1>2, <1>9
  <2>2. Due(d)  BY <1>9, <2>1, TurnCases DEF Reads
  <2>3. b.key.chain = DhRatchet(s.rootKey, s.sendingRatchetKey, b.rk)
    BY <1>4, <2>1, <2>2 DEF Due, WrittenOK
  <2>4. FindMessageKey(s, b.rk, b.num, fresh) = HeldKey(step, b.num) \cup NextKey(step, b.num)
    BY <1>6, <1>9 DEF FindMessageKey, NeedsStep, AdvanceReceivingChain
  <2>5. /\ step \in SessionState /\ ReceiveInv(step)
        /\ TurnedBy(s, step, b.rk, fresh) /\ step.receivingMessageNumber = 0
    BY <1>3, <1>7, StepType, StepReceive, StepTurn
  <2> HIDE DEF step, s
  <2>6. /\ step.receivingChainKey # None /\ step.receivingChainKey.chain = b.key.chain
        /\ step.receivingChainKey.pos = 0
    BY <2>3, <2>5 DEF TurnedBy, ReceiveInv
  <2>7. b.key = [chain |-> step.receivingChainKey.chain, pos |-> b.num]  BY <1>3, <1>7, <2>6
  <2>8. \E r \in NextKey(step, b.num) : r.key = b.key
    BY <1>3, <1>5, <2>5, <2>6, <2>7, NextFound
  <2> QED  BY <2>4, <2>8 DEF Opens, fresh, s
<1> QED  BY <1>8, <1>9

(* Until a seal fails, an idle rekey runs or the quota is full, every body in flight that names the *)
(* chain its reader is on, or the one its writer is on, opens: in whatever order they arrive,       *)
(* repeated, relabelled or crossed with sends and restarts, and for every bound under which a       *)
(* skipped key is not trimmed.  Of a body that names a chain both ends have stepped off it says     *)
(* nothing: LateBodiesOpen of Session is false of those.                                            *)
THEOREM BodiesInFlightOpen == Spec => []InFlightBodiesOpen
<1>1. TypeOK /\ KeysInv /\ BodiesInv /\ ReadInv /\ AgreeInv => InFlightBodiesOpen
  BY PeerType, BodyOpens DEF InFlightBodiesOpen, AgreeInv, Calm
<1> QED
  BY <1>1, TypeInit, TypeNext, LockInit, LockNext, KeysInit, KeysNext, NamesInit, NamesNext,
     BodiesInit, BodiesNext, ApartInit, ApartNext, ReadInit, ReadNext, AgreeInit, AgreeNext,
     PTL DEF Spec

=============================================================================
