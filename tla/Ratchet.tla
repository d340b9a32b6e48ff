------------------------------ MODULE Ratchet ------------------------------
(***************************************************************************)
(* The state of one end of a Double Ratchet session and the pure           *)
(* transitions of src/src/signal/ratchet.ts on it.                         *)
(*                                                                         *)
(* Key material is symbolic.  A ratchet key pair is named by the device    *)
(* that generated it and a serial number, the secret two pairs share is    *)
(* the set of the two, and everything a KDF derives is named by its        *)
(* inputs: a root key is the sequence of secrets mixed into the secret of  *)
(* the handshake, the chain key the same KDF call returns carries the same *)
(* name, and a message key is the chain key it was derived from.  Two      *)
(* values are equal exactly when the code's                                *)
(* bytes are.                                                              *)
(*                                                                         *)
(* A map from message numbers to keys is a set of entries [num, key].      *)
(* Every map here is filled in the order of its numbers, so the entry      *)
(* that was put in first is the one with the lowest number.                *)
(***************************************************************************)
EXTENDS Integers, Sequences, FiniteSets

CONSTANTS
  Initiator,         \* the device that started the session
  Responder,         \* the device that answered the handshake
  None,              \* the code's null
  MaxSkip,                   \* MAX_SKIP: how far one body may run ahead
  MaxSkippedKeys,            \* MAX_SKIPPED_MESSAGE_KEYS
  MaxSentKeys,               \* MAX_SENT_KEYS_RETAINED
  MaxPreviousReceivingKeys   \* MAX_PREVIOUS_RECEIVING_KEYS, which only a load applies

ASSUME DeviceAssumption == Initiator # Responder

Device == {Initiator, Responder}

Keys == Device \X Nat

KeyOf(d, i) == <<d, i>>

RootKey == Seq(SUBSET Keys)

ChainKey == [chain : RootKey, pos : Nat]

Entry == [num : Nat, key : ChainKey]

ASSUME NoneAssumption == None \notin Keys /\ None \notin ChainKey

ASSUME BoundsAssumption ==
  /\ MaxSkip \in Nat
  /\ MaxSkippedKeys \in Nat \ {0}
  /\ MaxSentKeys \in Nat \ {0}
  /\ MaxPreviousReceivingKeys \in Nat \ {0}

SessionState ==
  [rootKey                     : RootKey,
   sendingChainKey             : ChainKey,
   receivingChainKey           : ChainKey \cup {None},
   sendingRatchetKey           : Keys,
   receivingRatchetPublicKey   : Keys \cup {None},
   sendingMessageNumber        : Nat,
   receivingMessageNumber      : Nat,
   skippedMessageKeys          : SUBSET Entry,
   sentMessageKeys             : SUBSET Entry,
   previousSendingRatchetKey   : Keys \cup {None},
   previousSendingChainLength  : Nat,
   previousSendingKeys         : SUBSET Entry,
   previousReceivingRatchetKey : Keys \cup {None},
   previousReceivingLength     : Nat,
   previousReceivingKeys       : SUBSET Entry]

-----------------------------------------------------------------------------
(* Key derivation.                                                         *)

SharedSecret(priv, pub) == {priv, pub}

DhRatchet(root, priv, pub) == Append(root, SharedSecret(priv, pub))

ChainFrom(root) == [chain |-> root, pos |-> 0]

Advance(chainKey, steps) == [chain |-> chainKey.chain, pos |-> chainKey.pos + steps]

(* What the handshake left both ends with, before any ratchet secret. *)
HandshakeRoot == <<>>

(* Mutant: a full map turns the newest away. *)
Newest_Oldest(entries, max) ==
  {e \in entries : Cardinality({f \in entries : f.num < e.num}) < max}

(* The entries a map keeps when it drops its oldest beyond max. *)
Newest(entries, max) ==
  {e \in entries : Cardinality({f \in entries : f.num > e.num}) < max}

-----------------------------------------------------------------------------
(* The two ends as the handshake leaves them.                              *)

FreshState(root, sendingChain, key) ==
  [rootKey                     |-> root,
   sendingChainKey             |-> sendingChain,
   receivingChainKey           |-> None,
   sendingRatchetKey           |-> key,
   receivingRatchetPublicKey   |-> None,
   sendingMessageNumber        |-> 0,
   receivingMessageNumber      |-> 0,
   skippedMessageKeys          |-> {},
   sentMessageKeys             |-> {},
   previousSendingRatchetKey   |-> None,
   previousSendingChainLength  |-> 0,
   previousSendingKeys         |-> {},
   previousReceivingRatchetKey |-> None,
   previousReceivingLength     |-> 0,
   previousReceivingKeys       |-> {}]

InitiatorState(key) == FreshState(HandshakeRoot, ChainFrom(HandshakeRoot), key)

ResponderState(key, initiatorKey) ==
  LET root == DhRatchet(HandshakeRoot, key, initiatorKey)
  IN  [FreshState(root, ChainFrom(root), key) EXCEPT
         !.receivingChainKey = ChainFrom(HandshakeRoot),
         !.receivingRatchetPublicKey = initiatorKey]

-----------------------------------------------------------------------------
(* Sending.                                                                *)

AdvanceSendingChain(s) ==
  [s EXCEPT !.sendingChainKey = Advance(s.sendingChainKey, 1),
            !.sendingMessageNumber = s.sendingMessageNumber + 1]

RecordSentMessageKey(s, n, messageKey) ==
  [s EXCEPT !.sentMessageKeys =
     Newest({e \in s.sentMessageKeys : e.num # n} \cup {[num |-> n, key |-> messageKey]},
            MaxSentKeys)]

-----------------------------------------------------------------------------
(* Receiving.  Each operator below returns the set of [key, state] it      *)
(* yields: one result, or none when the code returns null or throws.       *)

(* Mutant: a held key that is read without being deleted. *)
HeldKey_Kept(s, n) ==
  {[key |-> e.key, state |-> s] :
     e \in {f \in s.skippedMessageKeys : n < s.receivingMessageNumber /\ f.num = n}}

(* A number behind the counter is served from the held keys, once. *)
HeldKey(s, n) ==
  {[key |-> e.key, state |-> [s EXCEPT !.skippedMessageKeys = @ \ {e}]] :
     e \in {f \in s.skippedMessageKeys : n < s.receivingMessageNumber /\ f.num = n}}

(* Mutant: the numbers a body runs ahead of are not held. *)
NextKey_NothingHeld(s, n) ==
  LET gap == n - s.receivingMessageNumber
  IN  IF s.receivingChainKey # None /\ gap \in 0 .. MaxSkip
      THEN {[key   |-> Advance(s.receivingChainKey, gap),
             state |-> [s EXCEPT !.receivingChainKey = Advance(s.receivingChainKey, gap + 1),
                                 !.receivingMessageNumber = n + 1]]}
      ELSE {}

(* A number at or ahead of the counter moves the chain, holding what it passes. *)
NextKey(s, n) ==
  LET gap     == n - s.receivingMessageNumber
      passed  == {[num |-> s.receivingMessageNumber + i,
                   key |-> Advance(s.receivingChainKey, i)] : i \in 0 .. gap - 1}
  IN  IF s.receivingChainKey # None /\ gap \in 0 .. MaxSkip
      THEN {[key   |-> Advance(s.receivingChainKey, gap),
             state |-> [s EXCEPT
               !.receivingChainKey = Advance(s.receivingChainKey, gap + 1),
               !.receivingMessageNumber = n + 1,
               !.skippedMessageKeys = Newest(@ \cup passed, MaxSkippedKeys)]]}
      ELSE {}

AdvanceReceivingChain(s, n) == HeldKey(s, n) \cup NextKey(s, n)

(* The counters are zeroed before the length of the receiving chain is     *)
(* read, in the order the code assigns them.                               *)
RatchetStep(s, remote, fresh) ==
  LET zeroed  == [s EXCEPT !.sendingMessageNumber = 0, !.receivingMessageNumber = 0]
      recvd   == DhRatchet(s.rootKey, s.sendingRatchetKey, remote)
      sent    == DhRatchet(recvd, fresh, remote)
  IN  [zeroed EXCEPT
         !.previousSendingChainLength  = s.sendingMessageNumber,
         !.previousSendingKeys         = s.sentMessageKeys,
         !.previousSendingRatchetKey   = s.sendingRatchetKey,
         !.sentMessageKeys             = {},
         !.previousReceivingLength     = zeroed.receivingMessageNumber,
         !.previousReceivingKeys       = s.skippedMessageKeys,
         !.previousReceivingRatchetKey = s.receivingRatchetPublicKey,
         !.skippedMessageKeys          = {},
         !.rootKey                     = sent,
         !.receivingChainKey           = ChainFrom(recvd),
         !.receivingRatchetPublicKey   = remote,
         !.sendingChainKey             = ChainFrom(sent),
         !.sendingRatchetKey           = fresh]

(* A body naming the sending chain this side stepped off. *)
TakePreviousChainKey(s, rk, n) ==
  {[key |-> e.key, state |-> [s EXCEPT !.previousSendingKeys = @ \ {e}]] :
     e \in {f \in s.previousSendingKeys :
              /\ s.previousSendingRatchetKey = rk
              /\ n < s.previousSendingChainLength
              /\ f.num = n}}

(* A body naming the receiving chain this side stepped off. *)
TakePreviousReceivingKey(s, rk, n) ==
  {[key |-> e.key, state |-> [s EXCEPT !.previousReceivingKeys = @ \ {e}]] :
     e \in {f \in s.previousReceivingKeys :
              /\ s.previousReceivingRatchetKey = rk
              /\ n < s.previousReceivingLength
              /\ f.num = n}}

(* Whether a header names a chain this side is not yet on.                 *)
NeedsStep(s, rk, n) ==
  /\ s.receivingRatchetPublicKey # rk
  /\ TakePreviousChainKey(s, rk, n) = {}
  /\ TakePreviousReceivingKey(s, rk, n) = {}

(* The key decryptMessage finds for a header, in the order it looks.       *)
FindMessageKey(s, rk, n, fresh) ==
  LET late == TakePreviousChainKey(s, rk, n)
      held == TakePreviousReceivingKey(s, rk, n)
  IN  IF late # {} THEN late
      ELSE IF held # {} THEN held
      ELSE AdvanceReceivingChain(
             IF NeedsStep(s, rk, n) THEN RatchetStep(s, rk, fresh) ELSE s, n)

-----------------------------------------------------------------------------
(* The idle rekey of session.ts: the sending half moves to a new root,     *)
(* the receiving half is left alone.                                       *)
IdleRekeyed(s, fresh) ==
  LET root  == DhRatchet(s.rootKey, fresh, s.receivingRatchetPublicKey)
      left  == IF s.sentMessageKeys = {} THEN s
               ELSE [s EXCEPT
                       !.previousSendingRatchetKey  = s.sendingRatchetKey,
                       !.previousSendingChainLength = s.sendingMessageNumber,
                       !.previousSendingKeys        = s.sentMessageKeys]
  IN  [left EXCEPT !.rootKey = root,
                   !.sendingChainKey = ChainFrom(root),
                   !.sendingRatchetKey = fresh,
                   !.sentMessageKeys = {},
                   !.sendingMessageNumber = 0]

(* Mutant: the draft is taken whole even when a send overtook it. *)
Adopted_Whole(live, draft, overtaken) == draft

(* Mutant: an overtaken draft brings its own sending number. *)
Adopted_DraftNumber(live, draft, overtaken) ==
  IF ~overtaken THEN draft
  ELSE [draft EXCEPT !.sendingChainKey   = live.sendingChainKey,
                     !.sendingRatchetKey = live.sendingRatchetKey,
                     !.sentMessageKeys   = live.sentMessageKeys]

(* What a draft that opened a body leaves in the live state.  A draft that *)
(* no send has overtaken is taken whole.                                   *)
Adopted(live, draft, overtaken) ==
  IF ~overtaken THEN draft
  ELSE [draft EXCEPT !.sendingChainKey      = live.sendingChainKey,
                     !.sendingRatchetKey    = live.sendingRatchetKey,
                     !.sendingMessageNumber = live.sendingMessageNumber,
                     !.sentMessageKeys      = live.sentMessageKeys]

-----------------------------------------------------------------------------
(* What a store that is full, and one that is read back, leave of the maps. *)

(* halveMap: the older half of the entries goes. *)
Halved(entries) == Newest(entries, (Cardinality(entries) + 1) \div 2)

Pruned(s) ==
  [s EXCEPT !.previousSendingKeys   = Halved(@),
            !.previousReceivingKeys = Halved(@),
            !.skippedMessageKeys    = Halved(@)]

Loaded(s) ==
  [s EXCEPT !.previousSendingKeys   = Newest(@, MaxSentKeys),
            !.sentMessageKeys       = Newest(@, MaxSentKeys),
            !.skippedMessageKeys    = Newest(@, MaxSkippedKeys),
            !.previousReceivingKeys = Newest(@, MaxPreviousReceivingKeys)]

=============================================================================
