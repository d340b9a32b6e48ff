------------------------------ MODULE Session ------------------------------
(***************************************************************************)
(* Two devices that share one session, each running the SessionManager of  *)
(* src/src/signal/session.ts.                                              *)
(*                                                                         *)
(* JavaScript runs one thread, so what the code does between two awaits is *)
(* one action here and the actions of the calls in flight interleave:      *)
(*   encryptMessage   EncryptBegin, then SealOk or SealFail                *)
(*   decryptMessage   OpenCall (takes the send epoch, joins the lock's     *)
(*                    queue), then OpenNoKey, or OpenStart followed by     *)
(*                    OpenAdopt or OpenReject                              *)
(*   the daily timer  IdleRekey                                            *)
(*   a full store     PruneForQuota                                        *)
(*   a restart        Reload                                               *)
(* Sends are concurrent with each other and with an open.  Opens of one    *)
(* session take turns.                                                     *)
(*                                                                         *)
(* The network keeps every body that was released, so a body is delivered  *)
(* late, out of order, several times or never, and under the header of     *)
(* another body.  A device restarts here only at rest, with its store      *)
(* written; when that is, and what is lost otherwise, is SessionStore.     *)
(***************************************************************************)
EXTENDS Ratchet

CONSTANTS
  MaxBodies,  \* bound: seals begun, in all
  Scenario    \* bounds: how often each thing may happen

Limits ==
  [sends : [Device -> Nat],  \* seals begun by a device
   opens : Nat,              \* opens in flight, per device
   keys : Nat,               \* ratchet key pairs generated, per device
   sealFailures : Nat,       \* seals the crypto rejects
   rekeys : Nat,             \* idle rekeys, in all
   prunes : Nat,             \* writes that find the quota full, in all
   reloads : BOOLEAN]        \* whether devices restart

ASSUME SessionBoundsAssumption ==
  /\ MaxBodies \in Nat
  /\ Scenario \subseteq Limits
  /\ \A l \in Scenario : l.sends[Initiator] + l.sends[Responder] <= MaxBodies

(* constants.ts gives MAX_SKIP and MAX_SKIPPED_MESSAGE_KEYS one value, so no body that runs ahead by *)
(* less than the keys a map may hold is refused for it.                                              *)
ASSUME SkipAssumption == MaxSkippedKeys <= MaxSkip

VARIABLES
  state,        \* state[d]: the live SessionState
  sendEpoch,    \* sendEpoch[d]: bumped by every seal and every rekey
  seals,        \* seals[d]: encryptMessage calls past their first await
  opens,        \* opens[d]: decryptMessage calls, in the order of the lock
  nextKey,      \* nextKey[d]: the next ratchet key pair d will generate
  network,      \* the bodies released so far
  sealed,       \* history: sealed[d], the message keys d sealed with
  opened,       \* history: opened[d], the bodies d returned in plaintext
  sealFailures, rekeys, prunes,
  limits        \* how often each thing may happen

vars == <<state, sendEpoch, seals, opens, nextKey, network, sealed, opened,
          sealFailures, rekeys, prunes, limits>>

Peer(d) == IF d = Initiator THEN Responder ELSE Initiator

Body == [from : Device, id : Nat, rk : Keys, num : Nat, key : ChainKey]

(* What encryptMessage puts back when the seal fails. *)
Restore == [sendingChainKey : ChainKey, sendingMessageNumber : Nat,
            sentMessageKeys : SUBSET Entry]

Seal == [body : Body, epoch : Nat, restore : Restore]

Call == [body : Body, rk : Keys, num : Nat, epochAtStart : Nat,
         draft : SessionState \cup {None}, key : ChainKey \cup {None}]

Waiting(c) == c.draft = None

(* The calls that stay when the i-th one settles. *)
Without(calls, i) ==
  [j \in 1 .. Len(calls) - 1 |-> IF j < i THEN calls[j] ELSE calls[j + 1]]

(* Mutant: no lock, every call runs as soon as it is made. *)
MyTurn_NoLock(d, i) == TRUE

(* withSessionDecryptLock: a call runs once every earlier one has settled. *)
MyTurn(d, i) == i = 1

(* Bound: every open in flight may still generate one ratchet key pair. *)
KeysLeft(d) == nextKey[d] + Len(opens[d]) <= limits.keys

Init ==
  /\ state = [d \in Device |->
       IF d = Initiator THEN InitiatorState(KeyOf(Initiator, 0))
       ELSE ResponderState(KeyOf(Responder, 0), KeyOf(Initiator, 0))]
  /\ sendEpoch = [d \in Device |-> 0]
  /\ seals = [d \in Device |-> {}]
  /\ opens = [d \in Device |-> <<>>]
  /\ nextKey = [d \in Device |-> 1]
  /\ network = {}
  /\ sealed = [d \in Device |-> <<>>]
  /\ opened = [d \in Device |-> <<>>]
  /\ sealFailures = 0
  /\ rekeys = 0
  /\ prunes = 0
  /\ limits \in Scenario

-----------------------------------------------------------------------------
(* encryptMessage up to its first await: the chain moves, the key is kept, *)
(* the epoch is bumped, and only then is the state to restore captured.    *)
EncryptBegin(d) ==
  /\ Len(sealed[d]) < limits.sends[d]
  /\ LET key   == state[d].sendingChainKey
         moved == AdvanceSendingChain(state[d])
         num   == moved.sendingMessageNumber - 1
         after == RecordSentMessageKey(moved, num, key)
         body  == [from |-> d, id |-> Len(sealed[d]) + 1,
                   rk |-> state[d].sendingRatchetKey, num |-> num, key |-> key]
     IN  /\ state' = [state EXCEPT ![d] = after]
         /\ seals' = [seals EXCEPT ![d] = @ \cup
              {[body |-> body, epoch |-> sendEpoch[d] + 1,
                restore |-> [sendingChainKey |-> after.sendingChainKey,
                             sendingMessageNumber |-> after.sendingMessageNumber,
                             sentMessageKeys |-> after.sentMessageKeys]]}]
         /\ sealed' = [sealed EXCEPT ![d] = Append(@, key)]
  /\ sendEpoch' = [sendEpoch EXCEPT ![d] = @ + 1]
  /\ UNCHANGED <<opens, nextKey, network, opened, sealFailures, rekeys, prunes, limits>>

(* The AEAD resolves, the store is written, the body is handed to the caller. *)
SealOk(d) ==
  \E s \in seals[d] :
    /\ seals' = [seals EXCEPT ![d] = @ \ {s}]
    /\ network' = network \cup {s.body}
    /\ UNCHANGED <<state, sendEpoch, opens, nextKey, sealed, opened, sealFailures, rekeys, prunes, limits>>

PutBack(s, restore) ==
  [s EXCEPT !.sendingChainKey = restore.sendingChainKey,
            !.sendingMessageNumber = restore.sendingMessageNumber,
            !.sentMessageKeys = restore.sentMessageKeys]

(* No later send or rekey has bumped the epoch. *)
StillNewest(d, s) == sendEpoch[d] = s.epoch

(* The key import or the AEAD rejects. *)
SealFail(d) ==
  /\ sealFailures < limits.sealFailures
  /\ \E s \in seals[d] :
       /\ seals' = [seals EXCEPT ![d] = @ \ {s}]
       /\ state' = IF StillNewest(d, s)
                   THEN [state EXCEPT ![d] = PutBack(@, s.restore)]
                   ELSE state
  /\ sealFailures' = sealFailures + 1
  /\ UNCHANGED <<sendEpoch, opens, nextKey, network, sealed, opened, rekeys, prunes, limits>>

-----------------------------------------------------------------------------
(* decryptMessage is called with a body and a header; the header is the    *)
(* body's own or one that belongs to another body.                         *)
OpenCall(d, body, header) ==
  /\ Len(opens[d]) < limits.opens
  /\ KeysLeft(d)
  /\ body.from = Peer(d)
  /\ header.from = Peer(d)
  /\ opens' = [opens EXCEPT ![d] = Append(@,
       [body |-> body, rk |-> header.rk, num |-> header.num,
        epochAtStart |-> sendEpoch[d], draft |-> None, key |-> None])]
  /\ UNCHANGED <<state, sendEpoch, seals, nextKey, network, sealed, opened,
                 sealFailures, rekeys, prunes, limits>>

Found(d, c) == FindMessageKey(state[d], c.rk, c.num, KeyOf(d, nextKey[d]))

(* The call gets its turn, copies the state and finds the key to try. *)
OpenStart(d, i) ==
  LET c == opens[d][i] IN
  /\ MyTurn(d, i)
  /\ Waiting(c)
  /\ \E r \in Found(d, c) :
       opens' = [opens EXCEPT ![d][i] =
                   [c EXCEPT !.draft = r.state, !.key = r.key]]
  /\ nextKey' = [nextKey EXCEPT ![d] =
                   IF NeedsStep(state[d], c.rk, c.num) THEN @ + 1 ELSE @]
  /\ UNCHANGED <<state, sendEpoch, seals, network, sealed, opened, sealFailures, rekeys, prunes, limits>>

(* Mutant: a call that throws never releases its turn. *)
OpenNoKey_Wedged(d, i) == FALSE

(* "No message key available", or too far ahead: the call throws. *)
OpenNoKey(d, i) ==
  LET c == opens[d][i] IN
  /\ MyTurn(d, i)
  /\ Waiting(c)
  /\ Found(d, c) = {}
  /\ opens' = [opens EXCEPT ![d] = Without(@, i)]
  /\ UNCHANGED <<state, sendEpoch, seals, nextKey, network, sealed, opened,
                 sealFailures, rekeys, prunes, limits>>

(* The associated data binds the header and the key is the one it was sealed with. *)
Authenticates(c) ==
  /\ c.key = c.body.key
  /\ c.rk = c.body.rk
  /\ c.num = c.body.num

(* The plaintext is in hand: the draft is adopted. *)
OpenAdopt(d, i) ==
  LET c == opens[d][i] IN
  /\ ~Waiting(c)
  /\ Authenticates(c)
  /\ state' = [state EXCEPT ![d] = Adopted(@, c.draft, c.epochAtStart # sendEpoch[d])]
  /\ opened' = [opened EXCEPT ![d] = Append(@, c.body.id)]
  /\ opens' = [opens EXCEPT ![d] = Without(@, i)]
  /\ UNCHANGED <<sendEpoch, seals, nextKey, network, sealed, sealFailures, rekeys, prunes, limits>>

(* "Message did not authenticate": the draft is dropped. *)
OpenReject(d, i) ==
  LET c == opens[d][i] IN
  /\ ~Waiting(c)
  /\ ~Authenticates(c)
  /\ opens' = [opens EXCEPT ![d] = Without(@, i)]
  /\ UNCHANGED <<state, sendEpoch, seals, nextKey, network, sealed, opened,
                 sealFailures, rekeys, prunes, limits>>

-----------------------------------------------------------------------------
HasPeerKey(s) == s.receivingRatchetPublicKey # None

(* autoRekeyIfNeeded.  Only encryptMessage touches lastActivity, so a      *)
(* session that was idle for a week has no seal in flight; it may well     *)
(* have an open in flight.                                                 *)
IdleRekey(d) ==
  /\ rekeys < limits.rekeys
  /\ seals[d] = {}
  /\ HasPeerKey(state[d])
  /\ KeysLeft(d)
  /\ state' = [state EXCEPT ![d] = IdleRekeyed(@, KeyOf(d, nextKey[d]))]
  /\ nextKey' = [nextKey EXCEPT ![d] = @ + 1]
  /\ sendEpoch' = [sendEpoch EXCEPT ![d] = @ + 1]
  /\ rekeys' = rekeys + 1
  /\ UNCHANGED <<seals, opens, network, sealed, opened, sealFailures, prunes, limits>>

(* A write that found the quota full: the maps give up their older halves  *)
(* before it is tried again, whatever is in flight.                        *)
PruneForQuota(d) ==
  /\ prunes < limits.prunes
  /\ state' = [state EXCEPT ![d] = Pruned(@)]
  /\ prunes' = prunes + 1
  /\ UNCHANGED <<sendEpoch, seals, opens, nextKey, network, sealed, opened,
                 sealFailures, rekeys, limits>>

(* The device is closed with nothing in flight and reads its store back.   *)
Reload(d) ==
  /\ limits.reloads
  /\ seals[d] = {}
  /\ opens[d] = <<>>
  /\ state' = [state EXCEPT ![d] = Loaded(@)]
  /\ sendEpoch' = [sendEpoch EXCEPT ![d] = 0]
  /\ UNCHANGED <<seals, opens, nextKey, network, sealed, opened, sealFailures,
                 rekeys, prunes, limits>>

Running(d, i) == OpenStart(d, i) \/ OpenNoKey(d, i) \/ OpenAdopt(d, i) \/ OpenReject(d, i)

Next ==
  \E d \in Device :
    \/ EncryptBegin(d)
    \/ SealOk(d)
    \/ SealFail(d)
    \/ IdleRekey(d)
    \/ PruneForQuota(d)
    \/ Reload(d)
    \/ \E body, header \in network : OpenCall(d, body, header)
    \/ \E i \in DOMAIN opens[d] : Running(d, i)

Spec == Init /\ [][Next]_vars

(* Promises settle: a call whose turn it is gets to run. *)
Fairness ==
  \A d \in Device :
    /\ WF_vars(SealOk(d))
    /\ WF_vars(\E i \in DOMAIN opens[d] : Running(d, i))

FairSpec == Spec /\ Fairness

-----------------------------------------------------------------------------
(* Properties.                                                             *)

(* Every variable holds what the code's declarations allow. *)
TypeOK ==
  /\ state \in [Device -> SessionState]
  /\ sendEpoch \in [Device -> Nat]
  /\ seals \in [Device -> SUBSET Seal]
  /\ opens \in [Device -> Seq(Call)]
  /\ nextKey \in [Device -> Nat]
  /\ network \in SUBSET Body
  /\ sealed \in [Device -> Seq(ChainKey)]
  /\ opened \in [Device -> Seq(Nat)]
  /\ sealFailures \in Nat
  /\ rekeys \in Nat
  /\ prunes \in Nat

(* No device ever seals two messages under one message key, whatever opens,*)
(* failed seals and rekeys run while a send is in flight (the hazard the   *)
(* send epoch of session.ts and the restore in encryptMessage are about).  *)
NoMessageKeySealedTwice ==
  \A d \in Device : \A i, j \in DOMAIN sealed[d] :
    sealed[d][i] = sealed[d][j] => i = j

(* What the session promises: what a device reads was released by its peer *)
(* and is read once, however often, under whatever header and in whatever  *)
(* order the server delivers it (withSessionDecryptLock, the adoption of   *)
(* the draft, and the deletions in advanceReceivingChain).                 *)
ReleasedBy(d) == {b.id : b \in {x \in network : x.from = d}}

Channel == INSTANCE SecureChannel WITH
  Ids <- 1 .. MaxBodies,
  sent <- [d \in Device |-> ReleasedBy(d)],
  delivered <- opened

ImplementsChannel == Channel!Spec

(* The key of a body that was opened is gone from the state it was opened  *)
(* with: neither held, nor still ahead on the receiving chain.             *)
SpentKeysForgotten ==
  \A d \in Device : \A i \in DOMAIN opened[d] :
    LET key == sealed[Peer(d)][opened[d][i]]
        s   == state[d]
    IN  /\ \A e \in s.skippedMessageKeys \cup s.previousReceivingKeys : e.key # key
        /\ s.receivingChainKey # None =>
             ~(/\ s.receivingChainKey.chain = key.chain
               /\ s.receivingChainKey.pos <= key.pos)

(* The header a send would announce is the one its key belongs to: the     *)
(* number is the position on the chain and the ratchet key is the one the  *)
(* chain was derived with.  A seal that fails after an open has turned the *)
(* ratchet puts the old chain back under the new key; until one fails, the *)
(* two agree.                                                              *)
HeaderNamesChain ==
  sealFailures = 0 => \A d \in Device :
    LET s == state[d]
        c == s.sendingChainKey.chain
    IN  /\ s.sendingChainKey.pos = s.sendingMessageNumber
        /\ IF c = HandshakeRoot THEN s.sendingRatchetKey = KeyOf(Initiator, 0)
           ELSE s.sendingRatchetKey \in c[Len(c)]

(* A body that names the chain its reader is on, or the one its writer is  *)
(* on, opens in whatever order it arrives: the ends agree on every chain   *)
(* they will both use.  After an idle rekey they do not agree; and a key   *)
(* may be pushed out once the peer has sealed more bodies than the reader  *)
(* has room for, or when the quota is full.  A body of a chain both ends   *)
(* have stepped off is not among them: see LateBodiesOpen.                 *)
Opens(d, b) ==
  \E r \in FindMessageKey(state[d], b.rk, b.num, KeyOf(d, nextKey[d])) : r.key = b.key

ReadableBy(d) ==
  {b \in network :
     /\ b.from = Peer(d)
     /\ Len(sealed[Peer(d)]) <= MaxSkippedKeys + 1
     /\ \A i \in DOMAIN opened[d] : opened[d][i] # b.id
     /\ b.rk \in {state[d].receivingRatchetPublicKey, state[Peer(d)].sendingRatchetKey}}

InFlightBodiesOpen ==
  rekeys = 0 /\ sealFailures = 0 /\ prunes = 0 =>
    \A d \in Device : \A b \in ReadableBy(d) : Opens(d, b)

(* The bodies d has not read whose keys its receiving chain is past.       *)
PassedBy(d) ==
  {b \in network :
     /\ b.from = Peer(d)
     /\ \A i \in DOMAIN opened[d] : opened[d][i] # b.id
     /\ state[d].receivingChainKey # None
     /\ b.key.chain = state[d].receivingChainKey.chain
     /\ b.key.pos < state[d].receivingChainKey.pos}

Keeps(d, b) == \E e \in state[d].skippedMessageKeys : e.key = b.key

(* The window of held keys gives up its oldest and nothing else: a body    *)
(* the chain ran past is lost only when more than MaxSkippedKeys keys were *)
(* run past after it, or to a full quota; and then every older one that is *)
(* still unread is lost with it, however reads out of order, caps,         *)
(* halvings under a running draft and restarts follow on each other.       *)
OldestGiveWayFirst ==
  \A d \in Device :
    /\ Cardinality(state[d].skippedMessageKeys) <= MaxSkippedKeys
    /\ \A b \in PassedBy(d) : ~Keeps(d, b) =>
         /\ prunes = 0 => state[d].receivingChainKey.pos > b.key.pos + MaxSkippedKeys + 1
         /\ \A c \in PassedBy(d) : c.key.pos < b.key.pos => ~Keeps(d, c)

(* The lock's queue never stays full: every open settles and lets the next *)
(* one in, whether it opened its body, found no key or failed.             *)
OpensSettle ==
  \A d \in Device : []<>(Len(opens[d]) < limits.opens)

-----------------------------------------------------------------------------
(* What the comments promise and the code does not keep.  No run checks    *)
(* these; README.md says where they fail.                                  *)

(* A chain that rested for a week is turned before the next send and the   *)
(* peer follows: what is sent after that opens too (the comment above      *)
(* autoRekeyIfNeeded).                                                     *)
RekeyedBodiesOpen ==
  sealFailures = 0 => \A d \in Device : \A b \in ReadableBy(d) : Opens(d, b)

(* Once a peer's ratchet key has been taken in, what is sent next is under *)
(* a chain derived from it: the ratchet turns, which is what recovers the  *)
(* session from a key that leaked.                                         *)
SendingChainAnswersPeer ==
  \A d \in Device :
    state[d].receivingRatchetPublicKey # None =>
      LET c == state[d].sendingChainKey.chain
      IN  c # HandshakeRoot /\ state[d].receivingRatchetPublicKey \in c[Len(c)]

(* A body that arrives late, under the ratchet key of the receiving chain  *)
(* just stepped off, still opens: its key was moved along (the comment in  *)
(* ratchetStep above the window it keeps).                                 *)
LateBodiesOpen ==
  \A d \in Device : \A b \in network :
    /\ b.from = Peer(d)
    /\ \A i \in DOMAIN opened[d] : opened[d][i] # b.id
    /\ b.rk = state[d].previousReceivingRatchetKey
    /\ [num |-> b.num, key |-> b.key] \in state[d].previousReceivingKeys
    => Opens(d, b)

(* Of the receiving chain just stepped off no more keys are kept than      *)
(* MAX_PREVIOUS_RECEIVING_KEYS (the comment at the constant).              *)
PreviousReceivingCapped ==
  \A d \in Device :
    Cardinality(state[d].previousReceivingKeys) <= MaxPreviousReceivingKeys

(* A failed seal puts back only what is still the newest thing to have     *)
(* happened: it does not undo a turn of the ratchet.                       *)
FailedSealUndoesNoTurn ==
  [][\A d \in Device :
       SealFail(d) => state'[d].sendingChainKey.chain = state[d].sendingChainKey.chain]_vars

(* A seal that fails while nothing else has moved the session gives its    *)
(* number back, so the sending chain has no hole (the comment above the    *)
(* capture in encryptMessage).                                             *)
FailedSealLeavesNoHole ==
  [][\A d \in Device : \A s \in seals[d] :
       /\ s \notin seals'[d]
       /\ s.body \notin network'
       /\ sendEpoch[d] = s.epoch
       => state'[d].sendingMessageNumber = s.body.num]_vars

=============================================================================
