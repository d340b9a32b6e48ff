--------------------------- MODULE HandshakeProofs ---------------------------
(***************************************************************************)
(* Proofs about Handshake!Spec, for any accounts and devices, any sizes    *)
(* and ages of the supplies and any scenario: an id of a prekey names one  *)
(* key, and a handshake is answered with the secret it was sealed under.   *)
(*                                                                         *)
(* DeviceInv is about what one device holds, in memory and in its storage; *)
(* OffersInv is about every bundle and every handshake that is anywhere:   *)
(* the device it was taken from still keeps what it offered (Keeps), or    *)
(* has let it go by the rules the property allows for.                     *)
(***************************************************************************)
EXTENDS Handshake, FiniteSetTheorems, FunctionTheorems, TLAPS

Spk == [id : Nat, key : Nat, at : Nat]

(* What a prekey manager of d may hold when "top" keys were minted there. *)
MaterialOK(d, m, top) ==
  /\ m \in [ik : {None} \cup ({d} \X Nat), spk : {None} \cup Spk, history : SUBSET Spk,
            opks : SUBSET Record, published : {m.published}, next : Nat]
  /\ IsFiniteSet(m.history) /\ IsFiniteSet(m.opks)
  /\ m.ik # None => m.ik[2] <= top
  /\ \A k \in m.opks : k.id < m.next /\ k.key <= top
  /\ \A j, k \in m.opks : j.id = k.id \/ j.key = k.key => j = k
  /\ \A k \in m.history : m.spk \in Spk /\ k.id < m.spk.id
  /\ \A j, k \in m.history : j.id = k.id => j = k

(* An offer is what a bundle or a handshake has of the keys of a device. *)
IsOffer(d, o, top) ==
  /\ {"ik", "spk", "opk"} \subseteq DOMAIN o
  /\ o.ik \in {d} \X Nat /\ o.ik[2] <= top
  /\ o.spk \in Spk
  /\ o.opk \in {None} \cup Record
  /\ o.opk # None => o.opk.key <= top

(* The material that an offer was taken from: it still has the signed prekey, unless it was *)
(* rotated away too often or too long ago, and the one-time key unless it was spent.        *)
Keeps(m, o, now) ==
  m.ik = o.ik =>
    /\ m.spk \in Spk
    /\ o.spk.id <= m.spk.id
    /\ o.spk.id = m.spk.id => o.spk = m.spk
    /\ o.spk.id < m.spk.id =>
         o.spk \in m.history \/ now - o.spk.at > HistoryAge \/ o.spk.id < m.spk.id - HistoryMax
    /\ o.opk # None => /\ o.opk.id < m.next
                       /\ \A k \in m.opks : k.id = o.opk.id <=> k.key = o.opk.key

SameKeys(m, k) == m.ik = k.ik /\ m.spk = k.spk /\ m.opks = k.opks /\ m.next = k.next

-----------------------------------------------------------------------------
(* The invariants.                                                         *)

TypeInv ==
  /\ user \in [Device -> Account \cup {None}]
  /\ saving \in [Device -> BOOLEAN]
  /\ minted \in [Device -> Nat]
  /\ clock \in Nat
  /\ DOMAIN keys = Device /\ DOMAIN stored = Device
  /\ DOMAIN published = Remote /\ DOMAIN known = Device /\ DOMAIN own = Device

(* What is in storage is no newer than what is in memory, and the same when no write is due. *)
DeviceInv(d) ==
  /\ MaterialOK(d, keys[d], minted[d])
  /\ user[d] # None => keys[d].ik # None
  /\ stored[d] # None =>
       /\ MaterialOK(d, stored[d].material, minted[d])
       /\ stored[d].material.ik # None
       /\ user[d] # None /\ stored[d].owner = user[d] /\ stored[d].material.spk \in Spk =>
            keys[d].spk \in Spk /\ stored[d].material.spk.id <= keys[d].spk.id
       /\ user[d] # None /\ ~ saving[d] => SameKeys(stored[d].material, keys[d])

(* An offer of d's keys.  A store that a write is due for is never loaded, or d is lossy. *)
OfferOK(d, o) ==
  /\ IsOffer(d, o, minted[d])
  /\ d \notin lossy =>
       /\ Keeps(keys[d], o, clock)
       /\ stored[d] # None /\ ~ saving[d] => Keeps(stored[d].material, o, clock)

(* A handshake, as an offer of the keys it was built on; what travels with it says the rest. *)
OfferOf(b) ==
  [ik |-> b.secret.to, spk |-> b.x3dh.spk,
   opk |-> IF b.x3dh.opk = None THEN None ELSE [id |-> b.x3dh.opk, key |-> b.secret.opk]]

Matches(b) ==
  /\ b.secret = [base |-> b.x3dh.base, from |-> b.x3dh.from, to |-> b.secret.to, spk |-> b.x3dh.spk.key,
                 opk |-> IF b.x3dh.opk = None THEN None ELSE b.secret.opk]
  /\ b.x3dh.opk # None => [id |-> b.x3dh.opk, key |-> b.secret.opk] \in Record

OffersInv ==
  /\ \A r \in Remote : published[r] # None => OfferOK(r[2], published[r])
  /\ \A d \in Device : \A r \in Remote : known[d][r] # None => OfferOK(r[2], known[d][r])
  /\ \A d, e \in Device : own[d][e] # None => OfferOK(e, own[d][e])
  /\ \A p \in posts : \A r \in DOMAIN p.bodies : p.bodies[r].x3dh # None =>
       /\ Matches(p.bodies[r])
       /\ \E d \in Device : r[2] = d
       /\ OfferOK(r[2], OfferOf(p.bodies[r]))

Inv == TypeInv /\ (\A d \in Device : DeviceInv(d)) /\ OffersInv

-----------------------------------------------------------------------------
(* The keys of one device.                                                 *)

LEMMA RunFacts ==
  ASSUME NEW first \in Nat, NEW n \in Nat, NEW key \in Nat
  PROVE  /\ Run(first, n, key) \subseteq Record
         /\ IsFiniteSet(Run(first, n, key)) /\ Cardinality(Run(first, n, key)) <= n
         /\ \A k \in Run(first, n, key) :
              first <= k.id /\ k.id < first + n /\ key <= k.key /\ k.key < key + n
         /\ \A j, k \in Run(first, n, key) : j.id = k.id \/ j.key = k.key => j = k
<1> DEFINE R == Run(first, n, key)
          f == [i \in 0 .. n - 1 |-> [id |-> first + i, key |-> key + i]]
<1>1. \A k \in R : \E i \in 0 .. n - 1 : k = [id |-> first + i, key |-> key + i]  BY DEF Run
<1>2. \A i \in 0 .. n - 1 : [id |-> first + i, key |-> key + i] \in R  BY DEF Run
<1>3. f \in Surjection(0 .. n - 1, R)
  <2>1. f \in [0 .. n - 1 -> R]  BY <1>2
  <2>2. \A k \in R : \E i \in 0 .. n - 1 : f[i] = k  BY <1>1
  <2> QED  BY <2>1, <2>2, Fun_IsSurj
<1>4. IsFiniteSet(0 .. n - 1) /\ Cardinality(0 .. n - 1) = n
  <2>1. 0 \in Int /\ n - 1 \in Int  OBVIOUS
  <2> QED  BY <2>1, FS_Interval
<1>5. IsFiniteSet(R) /\ Cardinality(R) <= n  BY <1>3, <1>4, FS_Surjection
<1>6. \A k \in R : /\ k \in Record
                   /\ first <= k.id /\ k.id < first + n /\ key <= k.key /\ k.key < key + n
  BY <1>1 DEF Record
<1>7. \A j, k \in R : j.id = k.id \/ j.key = k.key => j = k
  <2> SUFFICES ASSUME NEW j \in R, NEW k \in R, j.id = k.id \/ j.key = k.key PROVE j = k  OBVIOUS
  <2>1. PICK x \in 0 .. n - 1 : j = [id |-> first + x, key |-> key + x]  BY <1>1
  <2>2. PICK y \in 0 .. n - 1 : k = [id |-> first + y, key |-> key + y]  BY <1>1
  <2>3. x = y  BY <2>1, <2>2
  <2> QED  BY <2>1, <2>2, <2>3
<1> QED  BY <1>5, <1>6, <1>7

LEMMA NewMaterialOK ==
  ASSUME NEW d \in Device, NEW n \in Nat, clock \in Nat
  PROVE  /\ MaterialOK(d, NewMaterial(d, n), n + Block)
         /\ NewMaterial(d, n).ik = <<d, n + 1>> /\ NewMaterial(d, n).ik # None
         /\ NewMaterial(d, n).spk \in Spk
<1> DEFINE R == Run(1, MaxOpks, n + 3)
          s == [id |-> 1, key |-> n + 2, at |-> clock]
          m == NewMaterial(d, n)
<1>1. MaxOpks \in Nat  BY HandshakeAssumption
<1>2. /\ R \subseteq Record /\ IsFiniteSet(R)
      /\ \A k \in R : 1 <= k.id /\ k.id < 1 + MaxOpks /\ n + 3 <= k.key /\ k.key < n + 3 + MaxOpks
      /\ \A j, k \in R : j.id = k.id \/ j.key = k.key => j = k
  <2>1. 1 \in Nat /\ n + 3 \in Nat  OBVIOUS
  <2> QED  BY <1>1, <2>1, RunFacts
<1>3. m = [ik |-> <<d, n + 1>>, spk |-> s, history |-> {}, opks |-> R, published |-> None,
           next |-> MaxOpks + 1]
  BY DEF NewMaterial
<1>4. s \in Spk  BY DEF Spk
<1> HIDE DEF m, R, s
<1>5. /\ m.ik = <<d, n + 1>> /\ m.spk = s /\ m.history = {} /\ m.opks = R /\ m.next = MaxOpks + 1
      /\ m \in [ik : {None} \cup ({d} \X Nat), spk : {None} \cup Spk, history : SUBSET Spk,
                opks : SUBSET Record, published : {m.published}, next : Nat]
  BY <1>1, <1>2, <1>3, <1>4
<1>6. <<d, n + 1>> # None  BY HandshakeAssumption
<1>7. \A k \in R : k.id \in Nat /\ k.key \in Nat  BY <1>2 DEF Record
<1>8. \A k \in m.opks : k.id < m.next /\ k.key <= n + Block  BY <1>1, <1>2, <1>5, <1>7 DEF Block
<1>9. m.ik[2] <= n + Block  BY <1>1, <1>5 DEF Block
<1> QED  BY <1>2, <1>4, <1>5, <1>6, <1>8, <1>9, FS_EmptySet DEF MaterialOK, m

(* Of records with different ids there are no more above one than ids above it. *)
LEMMA CountAbove ==
  ASSUME NEW S, S \subseteq Spk, \A i, j \in S : i.id = j.id => i = j,
         NEW top \in Nat, \A j \in S : j.id <= top,
         NEW k \in Spk, k.id <= top
  PROVE  Cardinality({j \in S : j.id > k.id}) <= top - k.id
<1> DEFINE A == {j \in S : j.id > k.id}
          T == (k.id + 1) .. top
          f == [j \in A |-> j.id]
<1>1. k.id \in Nat /\ \A j \in S : j.id \in Nat  BY DEF Spk
<1>2. f \in Injection(A, T)
  <2>1. f \in [A -> T]  BY <1>1
  <2>2. \A i, j \in A : f[i] = f[j] => i = j  OBVIOUS
  <2> QED  BY <2>1, <2>2, Fun_IsInj
<1>3. IsFiniteSet(T) /\ Cardinality(T) = top - k.id
  <2>1. k.id + 1 \in Int /\ top \in Int  BY <1>1
  <2>2. IsFiniteSet(T) /\ Cardinality(T) = IF k.id + 1 > top THEN 0 ELSE top - (k.id + 1) + 1
    BY <2>1, FS_Interval
  <2> QED  BY <1>1, <2>2
<1> HIDE DEF A, T, f
<1>4. IsFiniteSet(A) /\ Cardinality(A) <= Cardinality(T)  BY <1>2, <1>3, FS_Injection
<1> QED  BY <1>3, <1>4 DEF A

(* pruneSignedPreKeyHistory leaves what the retention window promises. *)
LEMMA RetainedFacts ==
  ASSUME NEW S, S \subseteq Spk, IsFiniteSet(S), \A i, j \in S : i.id = j.id => i = j
  PROVE  /\ Retained(S) \subseteq S /\ IsFiniteSet(Retained(S))
         /\ clock \in Nat => \A top \in Nat : (\A j \in S : j.id <= top) =>
              \A k \in S : ~ (clock - k.at > HistoryAge) /\ ~ (k.id < top + 1 - HistoryMax) =>
                k \in Retained(S)
<1> DEFINE R == {k \in S : clock - k.at <= HistoryAge}
<1>1. Retained(S) = Newest(R, HistoryMax)  BY DEF Retained
<1>2. Retained(S) \subseteq S  BY <1>1 DEF Newest
<1>3. IsFiniteSet(Retained(S))  BY <1>2, FS_Subset
<1>4. ASSUME clock \in Nat, NEW top \in Nat, \A j \in S : j.id <= top,
             NEW k \in S, ~ (clock - k.at > HistoryAge), ~ (k.id < top + 1 - HistoryMax)
      PROVE  k \in Retained(S)
  <2>1. k.id \in Nat /\ k.at \in Nat /\ HistoryAge \in Nat /\ HistoryMax \in Nat /\ k.id <= top
    BY <1>4, HandshakeAssumption DEF Spk
  <2>2. k \in R  BY <1>4, <2>1
  <2>3. R \subseteq Spk /\ (\A i, j \in R : i.id = j.id => i = j) /\ (\A j \in R : j.id <= top) /\ k \in Spk
    BY <1>4
  <2> HIDE DEF R
  <2>4. Cardinality({j \in R : j.id > k.id}) <= top - k.id  BY <2>1, <2>3, CountAbove
  <2>5. IsFiniteSet({j \in R : j.id > k.id})
    <3>1. {j \in R : j.id > k.id} \in SUBSET S  BY DEF R
    <3> QED  BY <3>1, FS_Subset
  <2>6. Cardinality({j \in R : j.id > k.id}) \in Nat  BY <2>5, FS_CardinalityType
  <2>7. Cardinality({j \in R : j.id > k.id}) < HistoryMax  BY <1>4, <2>1, <2>4, <2>6
  <2> QED  BY <1>1, <2>2, <2>7 DEF Newest
<1> QED  BY <1>2, <1>3, <1>4

LEMMA MaterialFields ==
  ASSUME NEW d, NEW m, NEW top, MaterialOK(d, m, top)
  PROVE  /\ m = [ik |-> m.ik, spk |-> m.spk, history |-> m.history, opks |-> m.opks,
                 published |-> m.published, next |-> m.next]
         /\ DOMAIN m = {"ik", "spk", "history", "opks", "published", "next"}
         /\ m.next \in Nat /\ m.opks \subseteq Record /\ m.history \subseteq Spk
         /\ m.spk \in {None} \cup Spk /\ m.ik \in {None} \cup ({d} \X Nat)
         /\ IsFiniteSet(m.history) /\ IsFiniteSet(m.opks)
         /\ \A k \in m.opks : k.id \in Nat /\ k.key \in Nat
<1>1. m \in [ik : {None} \cup ({d} \X Nat), spk : {None} \cup Spk, history : SUBSET Spk,
             opks : SUBSET Record, published : {m.published}, next : Nat]
  BY DEF MaterialOK
<1>2. m = [ik |-> m.ik, spk |-> m.spk, history |-> m.history, opks |-> m.opks,
           published |-> m.published, next |-> m.next]
  BY <1>1
<1>3. \A k \in Record : k.id \in Nat /\ k.key \in Nat  BY DEF Record
<1> QED  BY <1>1, <1>2, <1>3 DEF MaterialOK

LEMMA MoreMinted ==
  ASSUME NEW d, NEW m, NEW n \in Nat, MaterialOK(d, m, n)
  PROVE  MaterialOK(d, m, n + Block)
<1>1. Block \in Nat  BY HandshakeAssumption DEF Block
<1>2. m.ik # None => m.ik[2] \in Nat  BY MaterialFields
<1>3. \A k \in m.opks : k.key \in Nat  BY MaterialFields
<1>4. m.ik # None => m.ik[2] <= n + Block  BY <1>1, <1>2 DEF MaterialOK
<1>5. \A k \in m.opks : k.id < m.next /\ k.key <= n + Block  BY <1>1, <1>3 DEF MaterialOK
<1> QED  BY <1>4, <1>5 DEF MaterialOK

(* A load prunes the history. *)
LEMMA PrunedOK ==
  ASSUME NEW d, NEW m, NEW n \in Nat, MaterialOK(d, m, n), clock \in Nat
  PROVE  LET p == [m EXCEPT !.history = Retained(@)] IN
         /\ MaterialOK(d, p, n)
         /\ SameKeys(p, m)
         /\ \A o : o.spk \in Spk /\ Keeps(m, o, clock) => Keeps(p, o, clock)
<1> DEFINE h == Retained(m.history)
          p == [m EXCEPT !.history = h]
<1>1. /\ m.next \in Nat /\ m.opks \subseteq Record /\ m.history \subseteq Spk
      /\ m.spk \in {None} \cup Spk /\ m.ik \in {None} \cup ({d} \X Nat)
      /\ IsFiniteSet(m.history) /\ IsFiniteSet(m.opks)
      /\ DOMAIN m = {"ik", "spk", "history", "opks", "published", "next"}
  BY MaterialFields
<1>2. /\ \A i, j \in m.history : i.id = j.id => i = j
      /\ \A k \in m.history : m.spk \in Spk /\ k.id < m.spk.id
  BY DEF MaterialOK
<1>3. h \subseteq m.history /\ IsFiniteSet(h)  BY <1>1, <1>2, RetainedFacts
<1>4. ASSUME NEW o, o.spk \in Spk, Keeps(m, o, clock), m.spk \in Spk, o.spk \in m.history,
             ~ (clock - o.spk.at > HistoryAge), ~ (o.spk.id < m.spk.id - HistoryMax)
      PROVE  o.spk \in h
  <2>1. m.spk.id \in Nat /\ o.spk.id \in Nat /\ HistoryMax \in Nat /\ o.spk.id < m.spk.id
    BY <1>2, <1>4, HandshakeAssumption DEF Spk
  <2> DEFINE top == m.spk.id - 1
  <2>2. top \in Nat /\ ~ (o.spk.id < top + 1 - HistoryMax)  BY <1>4, <2>1
  <2>3. \A j \in m.history : j.id <= top
    <3>1. \A j \in m.history : j.id \in Nat  BY <1>1 DEF Spk
    <3> QED  BY <1>2, <2>1, <3>1
  <2> HIDE DEF top
  <2> QED  BY <1>1, <1>2, <1>4, <2>2, <2>3, RetainedFacts
<1> HIDE DEF h
<1>5. p = [ik |-> m.ik, spk |-> m.spk, history |-> h, opks |-> m.opks,
           published |-> m.published, next |-> m.next]
  BY <1>1
<1>6. /\ p.ik = m.ik /\ p.spk = m.spk /\ p.history = h /\ p.opks = m.opks /\ p.next = m.next
      /\ p \in [ik : {None} \cup ({d} \X Nat), spk : {None} \cup Spk, history : SUBSET Spk,
                opks : SUBSET Record, published : {p.published}, next : Nat]
  BY <1>1, <1>3, <1>5
<1>7. p = [m EXCEPT !.history = Retained(@)]  BY DEF h
<1> HIDE DEF p
<1>8. MaterialOK(d, p, n)  BY <1>3, <1>6 DEF MaterialOK
<1>9. \A o : o.spk \in Spk /\ Keeps(m, o, clock) => Keeps(p, o, clock)
  BY <1>4, <1>6 DEF Keeps
<1> QED  BY <1>6, <1>7, <1>8, <1>9 DEF SameKeys

LEMMA RotatedOK ==
  ASSUME NEW d, NEW m, NEW n \in Nat, MaterialOK(d, m, n), clock \in Nat
  PROVE  LET p == Rotated(m, n) IN
         /\ MaterialOK(d, p, n)
         /\ p.ik = m.ik /\ p.opks = m.opks /\ p.next = m.next
         /\ m.spk \in Spk => p.spk \in Spk /\ m.spk.id <= p.spk.id
         /\ \A o : o.spk \in Spk /\ Keeps(m, o, clock) => Keeps(p, o, clock)
<1>1. CASE m.ik = None \/ m.spk = None \/ clock - m.spk.at <= RotateAge
  <2>1. Rotated(m, n) = m  BY <1>1 DEF Rotated
  <2>2. m.spk \in Spk => m.spk.id <= m.spk.id  BY DEF Spk
  <2> QED  BY <2>1, <2>2
<1>2. CASE ~ (m.ik = None \/ m.spk = None \/ clock - m.spk.at <= RotateAge)
  <2> DEFINE all == m.history \cup {m.spk}
            h == Retained(all)
            s == [id |-> m.spk.id + 1, key |-> n + 1, at |-> clock]
            p == Rotated(m, n)
  <2>1. /\ m.next \in Nat /\ m.opks \subseteq Record /\ m.history \subseteq Spk
        /\ m.spk \in Spk /\ m.ik \in {None} \cup ({d} \X Nat)
        /\ IsFiniteSet(m.history) /\ IsFiniteSet(m.opks)
        /\ DOMAIN m = {"ik", "spk", "history", "opks", "published", "next"}
    BY <1>2, MaterialFields
  <2>2. /\ \A i, j \in m.history : i.id = j.id => i = j
        /\ \A k \in m.history : k.id < m.spk.id
    BY DEF MaterialOK
  <2>3. m.spk.id \in Nat /\ s \in Spk /\ s.id = m.spk.id + 1 /\ \A k \in m.history : k.id \in Nat
    BY <2>1 DEF Spk
  <2>4. all \subseteq Spk /\ IsFiniteSet(all) /\ \A i, j \in all : i.id = j.id => i = j
    <3>1. IsFiniteSet(all)  BY <2>1, FS_AddElement
    <3>2. \A i, j \in all : i.id = j.id => i = j  BY <2>2, <2>3
    <3> QED  BY <2>1, <3>1, <3>2
  <2>5. h \subseteq all /\ IsFiniteSet(h)  BY <2>4, RetainedFacts
  <2>6. \A j \in all : j.id <= m.spk.id  BY <2>2, <2>3
  <2>7. p = [[m EXCEPT !.history = h] EXCEPT !.spk = s]  BY <1>2 DEF Rotated
  <2>8. m.spk \in all /\ m.history \subseteq all  OBVIOUS
  <2> HIDE DEF p
  <2>9. ASSUME NEW o, o.spk \in Spk, Keeps(m, o, clock), m.ik = o.ik
        PROVE  /\ o.spk.id < s.id
               /\ o.spk \in h \/ clock - o.spk.at > HistoryAge \/ o.spk.id < s.id - HistoryMax
    <3>1. /\ o.spk.id <= m.spk.id
          /\ o.spk.id = m.spk.id => o.spk = m.spk
          /\ o.spk.id < m.spk.id =>
               o.spk \in m.history \/ clock - o.spk.at > HistoryAge \/ o.spk.id < m.spk.id - HistoryMax
      BY <2>9 DEF Keeps
    <3>2. o.spk.id \in Nat /\ HistoryMax \in Nat  BY <2>9, HandshakeAssumption DEF Spk
    <3>3. o.spk \in all \/ clock - o.spk.at > HistoryAge \/ o.spk.id < s.id - HistoryMax
      BY <2>3, <2>8, <3>1, <3>2
    <3> HIDE DEF all, s
    <3>4. CASE o.spk \in all /\ ~ (clock - o.spk.at > HistoryAge) /\ ~ (o.spk.id < s.id - HistoryMax)
      <4>1. ~ (o.spk.id < m.spk.id + 1 - HistoryMax)
        <5> DEFINE x == s.id
        <5>1. x = m.spk.id + 1 /\ ~ (o.spk.id < x - HistoryMax)  BY <2>3, <3>4
        <5> HIDE DEF x
        <5> QED  BY <2>3, <3>2, <5>1
      <4>2. o.spk \in h  BY <2>3, <2>4, <2>6, <3>4, <4>1, RetainedFacts
      <4> QED  BY <2>3, <3>1, <3>2, <4>2
    <3> QED  BY <2>3, <3>1, <3>2, <3>3, <3>4
  <2> HIDE DEF h, s, all
  <2>10. p = [ik |-> m.ik, spk |-> s, history |-> h, opks |-> m.opks,
              published |-> m.published, next |-> m.next]
    BY <2>1, <2>7
  <2>11. /\ p.ik = m.ik /\ p.spk = s /\ p.history = h /\ p.opks = m.opks /\ p.next = m.next
         /\ p \in [ik : {None} \cup ({d} \X Nat), spk : {None} \cup Spk, history : SUBSET Spk,
                   opks : SUBSET Record, published : {p.published}, next : Nat]
    BY <2>1, <2>3, <2>4, <2>5, <2>10
  <2>12. \A k \in h : s \in Spk /\ k.id < s.id
    <3>1. \A k \in h : k.id \in Nat /\ k.id <= m.spk.id  BY <2>4, <2>5, <2>6 DEF Spk
    <3> QED  BY <2>3, <3>1
  <2>13. MaterialOK(d, p, n)  BY <2>4, <2>5, <2>11, <2>12 DEF MaterialOK
  <2>14. \A o : o.spk \in Spk /\ Keeps(m, o, clock) => Keeps(p, o, clock)
    <3> SUFFICES ASSUME NEW o, o.spk \in Spk, Keeps(m, o, clock) PROVE Keeps(p, o, clock)  OBVIOUS
    <3>0. o.spk.id \in Nat  BY DEF Spk
    <3>1. CASE m.ik # o.ik  BY <2>11, <3>1 DEF Keeps
    <3>2. CASE m.ik = o.ik
      <4>1. /\ o.spk.id < s.id
            /\ o.spk \in h \/ clock - o.spk.at > HistoryAge \/ o.spk.id < s.id - HistoryMax
        BY <2>9, <3>2
      <4>2. o.opk # None => /\ o.opk.id < m.next
                            /\ \A k \in m.opks : k.id = o.opk.id <=> k.key = o.opk.key
        BY <3>2 DEF Keeps
      <4>3. s.id \in Nat /\ o.spk.id <= s.id /\ o.spk.id # s.id  BY <2>3, <3>0, <4>1
      <4> QED  BY <2>3, <2>11, <4>1, <4>2, <4>3 DEF Keeps
    <3> QED  BY <3>1, <3>2
  <2> QED  BY <2>3, <2>11, <2>13, <2>14 DEF p
<1> QED  BY <1>1, <1>2

LEMMA ReplenishedOK ==
  ASSUME NEW d, NEW m, NEW n \in Nat, MaterialOK(d, m, n)
  PROVE  LET p == Replenished(m, n) IN
         /\ p = m \/ MaterialOK(d, p, n + Block)
         /\ MaterialOK(d, p, n + Block)
         /\ p.ik = m.ik /\ p.spk = m.spk
         /\ \A o : IsOffer(d, o, n) /\ Keeps(m, o, clock) => Keeps(p, o, clock)
<1>0. MaterialOK(d, m, n + Block)  BY MoreMinted
<1>1. CASE m.ik = None \/ Cardinality(m.opks) >= MinOpks
  BY <1>0, <1>1 DEF Replenished
<1>2. CASE ~ (m.ik = None \/ Cardinality(m.opks) >= MinOpks)
  <2> DEFINE needed == MaxOpks - Cardinality(m.opks)
            R == Run(m.next, needed, n + 2)
            p == Replenished(m, n)
  <2>1. /\ m.next \in Nat /\ m.opks \subseteq Record /\ m.history \subseteq Spk
        /\ m.spk \in {None} \cup Spk /\ m.ik \in {None} \cup ({d} \X Nat)
        /\ IsFiniteSet(m.history) /\ IsFiniteSet(m.opks)
        /\ DOMAIN m = {"ik", "spk", "history", "opks", "published", "next"}
        /\ \A k \in m.opks : k.id \in Nat /\ k.key \in Nat
    BY MaterialFields
  <2>2. /\ \A k \in m.opks : k.id < m.next /\ k.key <= n
        /\ \A j, k \in m.opks : j.id = k.id \/ j.key = k.key => j = k
    BY DEF MaterialOK
  <2>3. needed \in Nat /\ needed <= MaxOpks /\ MaxOpks \in Nat
    <3>1. Cardinality(m.opks) \in Nat  BY <2>1, FS_CardinalityType
    <3>2. MaxOpks \in Nat /\ MinOpks \in Nat /\ MinOpks <= MaxOpks  BY HandshakeAssumption
    <3> QED  BY <1>2, <3>1, <3>2
  <2>4. p = [[m EXCEPT !.opks = m.opks \cup R] EXCEPT !.next = m.next + needed]
    BY <1>2 DEF Replenished
  <2> HIDE DEF needed, p
  <2>5. /\ R \subseteq Record /\ IsFiniteSet(R)
        /\ \A k \in R : m.next <= k.id /\ k.id < m.next + needed /\ n + 2 <= k.key /\ k.key < n + 2 + needed
        /\ \A j, k \in R : j.id = k.id \/ j.key = k.key => j = k
    <3>1. n + 2 \in Nat  OBVIOUS
    <3> QED  BY <2>1, <2>3, <3>1, RunFacts
  <2>6. \A k \in R : k.id \in Nat /\ k.key \in Nat  BY <2>5 DEF Record
  <2> HIDE DEF R
  <2>7. p = [ik |-> m.ik, spk |-> m.spk, history |-> m.history, opks |-> m.opks \cup R,
             published |-> m.published, next |-> m.next + needed]
    BY <2>1, <2>4
  <2>8. /\ p.ik = m.ik /\ p.spk = m.spk /\ p.history = m.history /\ p.opks = m.opks \cup R
        /\ p.next = m.next + needed
        /\ p \in [ik : {None} \cup ({d} \X Nat), spk : {None} \cup Spk, history : SUBSET Spk,
                  opks : SUBSET Record, published : {p.published}, next : Nat]
    BY <2>1, <2>3, <2>5, <2>7
  <2>9. IsFiniteSet(m.opks \cup R)  BY <2>1, <2>5, FS_Union
  <2>10. \A k \in m.opks \cup R : k.id < p.next /\ k.key <= n + Block
    <3>1. ASSUME NEW k \in m.opks PROVE k.id < p.next /\ k.key <= n + Block
      BY <2>1, <2>2, <2>3, <2>8, <3>1 DEF Block
    <3>2. ASSUME NEW k \in R PROVE k.id < p.next /\ k.key <= n + Block
      BY <2>3, <2>5, <2>6, <2>8, <3>2 DEF Block
    <3> QED  BY <3>1, <3>2
  <2>11. ASSUME NEW j \in m.opks, NEW k \in R PROVE j.id # k.id /\ j.key # k.key
    BY <2>1, <2>2, <2>5, <2>6
  <2>12. \A j, k \in m.opks \cup R : j.id = k.id \/ j.key = k.key => j = k
    BY <2>2, <2>5, <2>11
  <2>13. p.ik # None => p.ik[2] <= n + Block  BY <1>0, <2>8 DEF MaterialOK
  <2>14. \A k \in p.history : p.spk \in Spk /\ k.id < p.spk.id  BY <2>8 DEF MaterialOK
  <2>15. \A j, k \in p.history : j.id = k.id => j = k  BY <2>8 DEF MaterialOK
  <2>16. IsFiniteSet(p.history)  BY <2>1, <2>8
  <2>17. MaterialOK(d, p, n + Block)
    BY <2>8, <2>9, <2>10, <2>12, <2>13, <2>14, <2>15, <2>16 DEF MaterialOK
  <2>18. \A o : IsOffer(d, o, n) /\ Keeps(m, o, clock) => Keeps(p, o, clock)
    <3> SUFFICES ASSUME NEW o, IsOffer(d, o, n), Keeps(m, o, clock), m.ik = o.ik
                 PROVE  Keeps(p, o, clock)
      BY <2>8 DEF Keeps
    <3>1. ASSUME o.opk # None
          PROVE  o.opk.id < p.next /\ \A k \in p.opks : k.id = o.opk.id <=> k.key = o.opk.key
      <4>1. o.opk.id \in Nat /\ o.opk.key \in Nat /\ o.opk.key <= n  BY <3>1 DEF IsOffer, Record
      <4>2. o.opk.id < m.next /\ \A k \in m.opks : k.id = o.opk.id <=> k.key = o.opk.key
        BY <3>1 DEF Keeps
      <4>3. \A k \in R : k.id # o.opk.id /\ k.key # o.opk.key  BY <2>1, <2>5, <2>6, <4>1, <4>2
      <4>4. o.opk.id < m.next + needed  BY <2>1, <2>3, <4>1, <4>2
      <4> QED  BY <2>8, <4>2, <4>3, <4>4
    <3> QED  BY <2>8, <3>1 DEF Keeps
  <2> QED  BY <2>8, <2>17, <2>18 DEF p
<1> QED  BY <1>1, <1>2

(* Choosing which key to publish changes nothing else. *)
LEMMA SelectedOK ==
  ASSUME NEW d, NEW m, NEW n, MaterialOK(d, m, n)
  PROVE  LET p == Selected(m) IN
         /\ MaterialOK(d, p, n) /\ SameKeys(p, m) /\ p.history = m.history
         /\ \A o, now : Keeps(m, o, now) => Keeps(p, o, now)
<1>1. CASE m.published \in Ids(m.opks) \/ m.opks = {}
  BY <1>1 DEF Selected, SameKeys
<1>2. CASE ~ (m.published \in Ids(m.opks) \/ m.opks = {})
  <2> DEFINE v == Lowest(m.opks).id
            p == Selected(m)
  <2>1. p = [m EXCEPT !.published = v]  BY <1>2 DEF Selected
  <2> HIDE DEF v, p
  <2>2. /\ m.next \in Nat /\ m.opks \subseteq Record /\ m.history \subseteq Spk
        /\ m.spk \in {None} \cup Spk /\ m.ik \in {None} \cup ({d} \X Nat)
        /\ DOMAIN m = {"ik", "spk", "history", "opks", "published", "next"}
    BY MaterialFields
  <2>3. p = [ik |-> m.ik, spk |-> m.spk, history |-> m.history, opks |-> m.opks,
             published |-> v, next |-> m.next]
    BY <2>1, <2>2
  <2>4. /\ p.ik = m.ik /\ p.spk = m.spk /\ p.history = m.history /\ p.opks = m.opks /\ p.next = m.next
        /\ p \in [ik : {None} \cup ({d} \X Nat), spk : {None} \cup Spk, history : SUBSET Spk,
                  opks : SUBSET Record, published : {p.published}, next : Nat]
    BY <2>2, <2>3
  <2>5. MaterialOK(d, p, n)  BY <2>4 DEF MaterialOK
  <2>6. \A o, now : Keeps(m, o, now) => Keeps(p, o, now)  BY <2>4 DEF Keeps
  <2> QED  BY <2>4, <2>5, <2>6 DEF SameKeys, p
<1> QED  BY <1>1, <1>2

(* The keys after maybeRotatePreKeys and selectPublishedOpk. *)
LEMMA UpkeptOK ==
  ASSUME NEW d, NEW m, NEW n \in Nat, MaterialOK(d, m, n), clock \in Nat
  PROVE  LET p == Upkept(m, n) IN
         /\ MaterialOK(d, p, n + Block) /\ (p = m => MaterialOK(d, p, n))
         /\ p.ik = m.ik
         /\ m.spk \in Spk => p.spk \in Spk /\ m.spk.id <= p.spk.id
         /\ \A o : IsOffer(d, o, n) /\ Keeps(m, o, clock) => Keeps(p, o, clock)
<1> DEFINE q == Rotated(m, n)
          p == Replenished(q, n)
<1>1. /\ MaterialOK(d, q, n)
      /\ q.ik = m.ik
      /\ m.spk \in Spk => q.spk \in Spk /\ m.spk.id <= q.spk.id
      /\ \A o : o.spk \in Spk /\ Keeps(m, o, clock) => Keeps(q, o, clock)
  BY RotatedOK
<1> HIDE DEF q
<1>2. /\ MaterialOK(d, p, n + Block)
      /\ p.ik = q.ik /\ p.spk = q.spk
      /\ \A o : IsOffer(d, o, n) /\ Keeps(q, o, clock) => Keeps(p, o, clock)
  BY <1>1, ReplenishedOK
<1>3. p = Upkept(m, n)  BY DEF Upkept, q
<1> HIDE DEF p
<1>4. \A o : IsOffer(d, o, n) /\ Keeps(m, o, clock) => Keeps(p, o, clock)
  BY <1>1, <1>2 DEF IsOffer
<1> QED  BY <1>1, <1>2, <1>3, <1>4

(* What a device publishes it keeps. *)
LEMMA BundleOK ==
  ASSUME NEW d, NEW m, NEW n \in Nat, MaterialOK(d, m, n), m.ik # None, m.spk # None
  PROVE  /\ IsOffer(d, Bundle(m), n)
         /\ \A k : SameKeys(k, m) => Keeps(k, Bundle(m), clock)
<1> DEFINE o == IF m.published \in Ids(m.opks) THEN ById(m.opks, m.published) ELSE None
          b == Bundle(m)
<1>1. b = [ik |-> m.ik, spk |-> m.spk, at |-> clock, opk |-> o]  BY DEF Bundle
<1>2. o = None \/ o \in m.opks
  <2>1. CASE m.published \in Ids(m.opks)
    <3>1. \E k \in m.opks : k.id = m.published  BY <2>1 DEF Ids
    <3>2. ById(m.opks, m.published) \in m.opks  BY <3>1 DEF ById
    <3> QED  BY <2>1, <3>2
  <2>2. CASE m.published \notin Ids(m.opks)  BY <2>2
  <2> QED  BY <2>1, <2>2
<1> HIDE DEF o, b
<1>3. /\ b.ik = m.ik /\ b.spk = m.spk /\ b.opk = o
      /\ {"ik", "spk", "opk"} \subseteq DOMAIN b
  BY <1>1
<1>4. m.spk \in Spk /\ m.ik \in {d} \X Nat /\ m.opks \subseteq Record  BY MaterialFields
<1>5. IsOffer(d, b, n)  BY <1>2, <1>3, <1>4 DEF IsOffer, MaterialOK
<1>6. ASSUME NEW k, SameKeys(k, m) PROVE Keeps(k, b, clock)
  <2>1. m.spk.id \in Nat  BY <1>4 DEF Spk
  <2>2. o # None => o.id < m.next /\ \A j \in m.opks : j.id = o.id <=> j.key = o.key
    BY <1>2 DEF MaterialOK
  <2> QED  BY <1>3, <1>4, <1>6, <2>1, <2>2 DEF Keeps, SameKeys
<1> QED  BY <1>5, <1>6 DEF b

-----------------------------------------------------------------------------
(* What the steps of a device do to its keys and to the offers of them.    *)

Rests(e) ==
  /\ user'[e] = user[e] /\ keys'[e] = keys[e] /\ stored'[e] = stored[e]
  /\ saving'[e] = saving[e] /\ minted'[e] = minted[e]
  /\ e \in lossy' <=> e \in lossy

(* A step carries a device when it keeps its invariant and what it offered. *)
Carries(e) == DeviceInv(e)' /\ \A o : OfferOK(e, o) => OfferOK(e, o)'

LEMMA RestCarries ==
  ASSUME TypeInv, NEW e \in Device, DeviceInv(e), Rests(e), clock' \in Nat, clock <= clock'
  PROVE  Carries(e)
<1>1. DeviceInv(e)'  BY DEF DeviceInv, Rests
<1>2. ASSUME NEW o, OfferOK(e, o) PROVE OfferOK(e, o)'
  <2>1. IsOffer(e, o, minted'[e])  BY <1>2 DEF OfferOK, Rests
  <2>2. ASSUME NEW m, Keeps(m, o, clock) PROVE Keeps(m, o, clock')
    <3>1. o.spk.at \in Nat /\ HistoryAge \in Nat /\ clock \in Nat
      BY <2>1, HandshakeAssumption DEF IsOffer, Spk, TypeInv
    <3>2. clock - o.spk.at > HistoryAge => clock' - o.spk.at > HistoryAge  BY <3>1
    <3> QED  BY <2>2, <3>2 DEF Keeps
  <2> QED  BY <1>2, <2>1, <2>2 DEF OfferOK, Rests
<1> QED  BY <1>1, <1>2 DEF Carries

LEMMA BlankOK ==
  ASSUME NEW d, NEW n
  PROVE  MaterialOK(d, Blank, n) /\ Blank.ik = None
<1>1. Blank.ik = None /\ Blank.spk = None /\ Blank.history = {} /\ Blank.opks = {} /\ Blank.next = 1
  BY DEF Blank
<1>2. Blank \in [ik : {None} \cup ({d} \X Nat), spk : {None} \cup Spk, history : SUBSET Spk,
                 opks : SUBSET Record, published : {Blank.published}, next : Nat]
  BY DEF Blank
<1> QED  BY <1>1, <1>2, FS_EmptySet DEF MaterialOK

(* A load leaves nothing, or what is in storage. *)
LEMMA LoadedOK ==
  ASSUME TypeInv, NEW d \in Device, DeviceInv(d), NEW u
  PROVE  LET p == Loaded(d, u) IN
         /\ MaterialOK(d, p, minted[d])
         /\ p.ik = None => p = Blank
         /\ p # Blank => stored[d] # None /\ stored[d].owner = u
         /\ stored[d] # None /\ stored[d].owner = u =>
              /\ p.ik # None
              /\ SameKeys(p, stored[d].material)
              /\ \A o : o.spk \in Spk /\ Keeps(stored[d].material, o, clock) => Keeps(p, o, clock)
<1>1. minted[d] \in Nat /\ clock \in Nat  BY DEF TypeInv
<1>2. CASE stored[d] = None \/ stored[d].owner # u
  BY <1>2, BlankOK DEF Loaded
<1>3. CASE stored[d] # None /\ stored[d].owner = u
  <2> DEFINE m == stored[d].material
  <2>1. MaterialOK(d, m, minted[d]) /\ m.ik # None  BY <1>3 DEF DeviceInv
  <2>2. Loaded(d, u) = [m EXCEPT !.history = Retained(@)]  BY <1>3 DEF Loaded
  <2> HIDE DEF m
  <2>3. /\ MaterialOK(d, Loaded(d, u), minted[d])
        /\ SameKeys(Loaded(d, u), m)
        /\ \A o : o.spk \in Spk /\ Keeps(m, o, clock) => Keeps(Loaded(d, u), o, clock)
    BY <1>1, <2>1, <2>2, PrunedOK
  <2>4. Loaded(d, u).ik # None  BY <2>1, <2>3 DEF SameKeys
  <2> QED  BY <1>3, <2>3, <2>4 DEF m
<1> QED  BY <1>2, <1>3

(* What a launch has in memory: what it loaded, brought up to date, or a new identity. *)
LEMMA StartedOK ==
  ASSUME TypeInv, NEW d \in Device, DeviceInv(d), NEW u
  PROVE  LET p == Loaded(d, u)
             s == Started(d, u) IN
         /\ MaterialOK(d, s, minted[d] + Block) /\ s.ik # None
         /\ s = p => MaterialOK(d, s, minted[d])
         /\ p.spk \in Spk => s.spk \in Spk /\ p.spk.id <= s.spk.id
         /\ \A o : IsOffer(d, o, minted[d]) /\ (p = Blank \/ Keeps(p, o, clock)) => Keeps(s, o, clock)
<1> DEFINE n == minted[d]
          p == Loaded(d, u)
          q == Upkept(p, n)
          s == Started(d, u)
<1>1. n \in Nat /\ clock \in Nat  BY DEF TypeInv
<1>2. MaterialOK(d, p, n) /\ (p.ik = None => p = Blank) /\ (p = Blank => p.ik = None)
  BY LoadedOK, BlankOK
<1>3. s = IF q.ik = None THEN NewMaterial(d, n) ELSE q  BY DEF Started
<1> HIDE DEF n, p, s
<1>4. /\ MaterialOK(d, q, n + Block)
      /\ q.ik = p.ik
      /\ p.spk \in Spk => q.spk \in Spk /\ p.spk.id <= q.spk.id
      /\ \A o : IsOffer(d, o, n) /\ Keeps(p, o, clock) => Keeps(q, o, clock)
  BY <1>1, <1>2, UpkeptOK
<1> HIDE DEF q
<1>5. CASE p = Blank
  <2>1. s = NewMaterial(d, n) /\ p.spk = None  BY <1>2, <1>3, <1>4, <1>5 DEF Blank
  <2>2. /\ MaterialOK(d, s, n + Block) /\ s.ik = <<d, n + 1>> /\ s.ik # None /\ s.spk \in Spk
    BY <1>1, <2>1, NewMaterialOK
  <2>3. p.spk \notin Spk \/ s.spk.id >= p.spk.id
    BY <2>1, HandshakeAssumption DEF Spk
  <2>4. ASSUME NEW o, IsOffer(d, o, n) PROVE o.ik # s.ik
    <3>1. o.ik[2] \in Nat /\ o.ik[2] <= n  BY <2>4 DEF IsOffer
    <3>2. s.ik[2] = n + 1  BY <2>2
    <3> QED  BY <1>1, <3>1, <3>2
  <2> QED  BY <1>2, <1>5, <2>2, <2>3, <2>4 DEF Keeps, n, p, s
<1>6. CASE p # Blank
  <2>1. s = q /\ s.ik # None  BY <1>2, <1>3, <1>4, <1>6
  <2> QED  BY <1>2, <1>4, <1>6, <2>1 DEF n, p, s
<1> QED  BY <1>5, <1>6

(* A launch, on a device that is not lossy after it: nothing was waiting to be written. *)
LEMMA SignInCarries ==
  ASSUME TypeInv, NEW d \in Device, DeviceInv(d), NEW u \in Account, SignIn(u, d)
  PROVE  Carries(d)
<1> DEFINE n == minted[d]
          p == Loaded(d, u)
          s == Started(d, u)
          m == Selected(s)
<1>1. n \in Nat /\ clock \in Nat /\ Block \in Nat /\ None \notin Account
  BY HandshakeAssumption DEF TypeInv, Block
<1>2. /\ user'[d] = u /\ keys'[d] = m /\ stored'[d] = stored[d] /\ clock' = clock
      /\ saving'[d] = (saving[d] \/ m # p)
      /\ minted'[d] = IF s = p THEN n ELSE n + Block
      /\ lossy' = IF Unsaved(d) THEN lossy \cup {d} ELSE lossy
  BY DEF SignIn, TypeInv, Minting
<1>3. /\ MaterialOK(d, p, n)
      /\ p # Blank => stored[d] # None /\ stored[d].owner = u
      /\ stored[d] # None /\ stored[d].owner = u =>
           /\ p.ik # None
           /\ SameKeys(p, stored[d].material)
           /\ \A o : o.spk \in Spk /\ Keeps(stored[d].material, o, clock) => Keeps(p, o, clock)
  BY LoadedOK
<1>4. /\ MaterialOK(d, s, n + Block) /\ s.ik # None
      /\ s = p => MaterialOK(d, s, n)
      /\ p.spk \in Spk => s.spk \in Spk /\ p.spk.id <= s.spk.id
      /\ \A o : IsOffer(d, o, n) /\ (p = Blank \/ Keeps(p, o, clock)) => Keeps(s, o, clock)
  BY StartedOK
<1> HIDE DEF p, s
<1>5. /\ MaterialOK(d, m, n + Block)
      /\ s = p => MaterialOK(d, m, n)
      /\ m.ik # None /\ m.spk = s.spk
      /\ \A o : Keeps(s, o, clock) => Keeps(m, o, clock)
  BY <1>4, SelectedOK DEF SameKeys
<1> HIDE DEF m
<1>6. MaterialOK(d, m, minted'[d]) /\ n <= minted'[d]  BY <1>1, <1>2, <1>5
<1>7. stored[d] # None => MaterialOK(d, stored[d].material, minted'[d]) /\ stored[d].material.ik # None
  <2> SUFFICES ASSUME stored[d] # None
               PROVE  MaterialOK(d, stored[d].material, minted'[d]) /\ stored[d].material.ik # None
    OBVIOUS
  <2>1. MaterialOK(d, stored[d].material, n) /\ stored[d].material.ik # None  BY DEF DeviceInv
  <2> HIDE DEF n
  <2>2. MaterialOK(d, stored[d].material, n + Block)  BY <1>1, <2>1, MoreMinted
  <2> QED  BY <1>2, <2>1, <2>2
<1>8. ~ saving'[d] => ~ saving[d] /\ m = p /\ stored[d] # None /\ stored[d].owner = u
  <2>1. p = Blank => p.ik = None  BY DEF Blank
  <2> QED  BY <1>2, <1>3, <1>5, <2>1
<1>9. ~ saving'[d] => SameKeys(stored[d].material, m)  BY <1>3, <1>8 DEF SameKeys
<1>10. DeviceInv(d)'
  <2>1. stored[d] # None /\ stored[d].owner = u /\ stored[d].material.spk \in Spk =>
          m.spk \in Spk /\ stored[d].material.spk.id <= m.spk.id
    BY <1>3, <1>4, <1>5 DEF SameKeys
  <2> QED  BY <1>2, <1>5, <1>6, <1>7, <1>9, <2>1 DEF DeviceInv
<1>11. ASSUME NEW o, OfferOK(d, o) PROVE OfferOK(d, o)'
  <2>1. IsOffer(d, o, n) /\ IsOffer(d, o, minted'[d])
    <3>1. IsOffer(d, o, n)  BY <1>11 DEF OfferOK
    <3>2. o.ik[2] \in Nat /\ (o.opk # None => o.opk.key \in Nat)  BY <3>1 DEF IsOffer, Record
    <3>3. minted'[d] \in Nat  BY <1>1, <1>2
    <3> HIDE DEF n
    <3> QED  BY <1>1, <1>6, <3>1, <3>2, <3>3 DEF IsOffer
  <2>2. ASSUME d \notin lossy'
        PROVE  Keeps(m, o, clock) /\ (stored[d] # None /\ ~ saving'[d] => Keeps(stored[d].material, o, clock))
    <3>1. d \notin lossy /\ ~ saving[d]  BY <1>2, <2>2 DEF Unsaved
    <3>2. stored[d] # None => Keeps(stored[d].material, o, clock)  BY <1>11, <3>1 DEF OfferOK
    <3>3. p = Blank \/ Keeps(p, o, clock)  BY <1>3, <2>1, <3>2 DEF IsOffer
    <3>4. Keeps(m, o, clock)  BY <1>4, <1>5, <2>1, <3>3
    <3> QED  BY <3>2, <3>4
  <2> QED  BY <1>2, <2>1, <2>2 DEF OfferOK
<1> QED  BY <1>10, <1>11 DEF Carries

(* The hourly upload and the rotation timer bring the keys in memory up to date. *)
LEMMA UpkeepCarries ==
  ASSUME TypeInv, NEW d \in Device, DeviceInv(d), NEW m,
         m = Upkept(keys[d], minted[d]) \/ m = Selected(Upkept(keys[d], minted[d])),
         keys'[d] = m, user'[d] = user[d], stored'[d] = stored[d], clock' = clock, lossy' = lossy,
         saving'[d] = (saving[d] \/ m # keys[d]),
         minted'[d] = IF Upkept(keys[d], minted[d]) = keys[d] THEN minted[d] ELSE minted[d] + Block
  PROVE  Carries(d)
<1> DEFINE n == minted[d]
          k == keys[d]
          s == Upkept(k, n)
<1>1. n \in Nat /\ clock \in Nat /\ Block \in Nat
  BY HandshakeAssumption DEF TypeInv, Block
<1>2. MaterialOK(d, k, n) /\ (user[d] # None => k.ik # None)  BY DEF DeviceInv
<1> HIDE DEF n, k
<1>3. /\ MaterialOK(d, s, n + Block) /\ (s = k => MaterialOK(d, s, n))
      /\ s.ik = k.ik
      /\ k.spk \in Spk => s.spk \in Spk /\ k.spk.id <= s.spk.id
      /\ \A o : IsOffer(d, o, n) /\ Keeps(k, o, clock) => Keeps(s, o, clock)
  BY <1>1, <1>2, UpkeptOK
<1>4. m = s \/ m = Selected(s)  BY DEF n, k
<1> HIDE DEF s
<1>5. /\ MaterialOK(d, m, n + Block) /\ (s = k => MaterialOK(d, m, n))
      /\ m.ik = k.ik
      /\ k.spk \in Spk => m.spk \in Spk /\ k.spk.id <= m.spk.id
      /\ \A o : IsOffer(d, o, n) /\ Keeps(k, o, clock) => Keeps(m, o, clock)
  <2>1. CASE m = s  BY <1>3, <2>1
  <2>2. CASE m = Selected(s)
    <3>1. /\ MaterialOK(d, m, n + Block) /\ (s = k => MaterialOK(d, m, n))
          /\ SameKeys(m, s)
          /\ \A o : Keeps(s, o, clock) => Keeps(m, o, clock)
      BY <1>3, <2>2, SelectedOK
    <3> QED  BY <1>3, <3>1 DEF SameKeys
  <2> QED  BY <1>4, <2>1, <2>2
<1>6. minted'[d] = (IF s = k THEN n ELSE n + Block) /\ saving'[d] = (saving[d] \/ m # k)
  BY DEF n, k, s
<1>7. MaterialOK(d, m, minted'[d]) /\ n <= minted'[d] /\ minted'[d] \in Nat  BY <1>1, <1>5, <1>6
<1>8. stored[d] # None => MaterialOK(d, stored[d].material, minted'[d]) /\ stored[d].material.ik # None
  <2>1. stored[d] # None => MaterialOK(d, stored[d].material, n) /\ stored[d].material.ik # None
    BY DEF DeviceInv, n
  <2>2. stored[d] # None => MaterialOK(d, stored[d].material, n + Block)  BY <1>1, <2>1, MoreMinted
  <2> QED  BY <1>6, <2>1, <2>2
<1>9. stored[d] # None /\ user[d] # None =>
        /\ stored[d].owner = user[d] /\ stored[d].material.spk \in Spk =>
             m.spk \in Spk /\ stored[d].material.spk.id <= m.spk.id
        /\ ~ saving'[d] => SameKeys(stored[d].material, m)
  <2> SUFFICES ASSUME stored[d] # None, user[d] # None
               PROVE  /\ stored[d].owner = user[d] /\ stored[d].material.spk \in Spk =>
                           m.spk \in Spk /\ stored[d].material.spk.id <= m.spk.id
                      /\ ~ saving'[d] => SameKeys(stored[d].material, m)
    OBVIOUS
  <2>1. /\ stored[d].owner = user[d] /\ stored[d].material.spk \in Spk =>
             k.spk \in Spk /\ stored[d].material.spk.id <= k.spk.id
        /\ ~ saving[d] => SameKeys(stored[d].material, k)
    BY DEF DeviceInv, k
  <2>2. ASSUME stored[d].owner = user[d], stored[d].material.spk \in Spk
        PROVE  m.spk \in Spk /\ stored[d].material.spk.id <= m.spk.id
    <3>1. stored[d].material.spk.id \in Nat /\ k.spk.id \in Nat /\ m.spk.id \in Nat
      BY <1>5, <2>1, <2>2 DEF Spk
    <3> QED  BY <1>5, <2>1, <2>2, <3>1
  <2> QED  BY <1>6, <2>1, <2>2
<1>10. DeviceInv(d)'  BY <1>2, <1>5, <1>7, <1>8, <1>9 DEF DeviceInv
<1>11. ASSUME NEW o, OfferOK(d, o) PROVE OfferOK(d, o)'
  <2>1. IsOffer(d, o, n) /\ IsOffer(d, o, minted'[d])
    <3>1. IsOffer(d, o, n)  BY <1>11 DEF OfferOK, n
    <3>2. o.ik[2] \in Nat /\ (o.opk # None => o.opk.key \in Nat)  BY <3>1 DEF IsOffer, Record
    <3> QED  BY <1>1, <1>7, <3>1, <3>2 DEF IsOffer
  <2>2. d \notin lossy => Keeps(m, o, clock)  BY <1>5, <1>11, <2>1 DEF OfferOK, k
  <2>3. d \notin lossy /\ stored[d] # None /\ ~ saving'[d] => Keeps(stored[d].material, o, clock)
    BY <1>6, <1>11 DEF OfferOK
  <2> QED  BY <2>1, <2>2, <2>3 DEF OfferOK
<1> QED  BY <1>10, <1>11 DEF Carries

LEMMA WrittenOK ==
  ASSUME TypeInv, NEW d \in Device, DeviceInv(d), user[d] # None, NEW n \in 1 .. 4
  PROVE  LET w == Written(d, n) IN
         /\ w.owner = user[d]
         /\ MaterialOK(d, w.material, minted[d]) /\ w.material.ik # None
         /\ w.material.spk \in Spk => keys[d].spk \in Spk /\ w.material.spk.id <= keys[d].spk.id
         /\ n = 4 => SameKeys(w.material, keys[d]) /\ w.material.history = keys[d].history
<1> DEFINE top == minted[d]
          k == keys[d]
          p == Loaded(d, user[d])
          v == [ik |-> k.ik,
                spk |-> IF n >= 2 THEN k.spk ELSE p.spk,
                history |-> IF n >= 3 THEN k.history ELSE p.history,
                opks |-> IF n >= 4 THEN k.opks ELSE p.opks,
                published |-> IF n >= 4 THEN k.published ELSE p.published,
                next |-> IF n >= 4 THEN k.next ELSE p.next]
<1>1. Written(d, n) = [owner |-> user[d], material |-> v]  BY DEF Written
<1>2. MaterialOK(d, k, top) /\ k.ik # None  BY DEF DeviceInv
<1>3. /\ MaterialOK(d, p, top)
      /\ p # Blank => stored[d] # None /\ stored[d].owner = user[d]
      /\ stored[d] # None /\ stored[d].owner = user[d] => SameKeys(p, stored[d].material)
  BY LoadedOK
<1>4. p.spk \in Spk => k.spk \in Spk /\ p.spk.id <= k.spk.id
  <2>1. p = Blank => p.spk \notin Spk  BY HandshakeAssumption DEF Blank, Spk
  <2> QED  BY <1>3, <2>1 DEF DeviceInv, SameKeys
<1> HIDE DEF top, k, p
<1>5. /\ k.next \in Nat /\ k.opks \subseteq Record /\ k.history \subseteq Spk
      /\ k.spk \in {None} \cup Spk /\ k.ik \in {None} \cup ({d} \X Nat)
      /\ IsFiniteSet(k.history) /\ IsFiniteSet(k.opks)
  BY <1>2, MaterialFields
<1>6. /\ p.next \in Nat /\ p.opks \subseteq Record /\ p.history \subseteq Spk
      /\ p.spk \in {None} \cup Spk
      /\ IsFiniteSet(p.history) /\ IsFiniteSet(p.opks)
  BY <1>3, MaterialFields
<1>7. /\ v.ik = k.ik
      /\ v.spk = IF n >= 2 THEN k.spk ELSE p.spk
      /\ v.history = IF n >= 3 THEN k.history ELSE p.history
      /\ v.opks = IF n >= 4 THEN k.opks ELSE p.opks
      /\ v.next = IF n >= 4 THEN k.next ELSE p.next
      /\ v \in [ik : {None} \cup ({d} \X Nat), spk : {None} \cup Spk, history : SUBSET Spk,
                opks : SUBSET Record, published : {v.published}, next : Nat]
  BY <1>5, <1>6
<1> HIDE DEF v
<1>8. /\ v.ik[2] <= top /\ IsFiniteSet(v.history) /\ IsFiniteSet(v.opks)
      /\ \A x \in v.opks : x.id < v.next /\ x.key <= top
      /\ \A j, x \in v.opks : j.id = x.id \/ j.key = x.key => j = x
      /\ \A j, x \in v.history : j.id = x.id => j = x
  <2>1. CASE n >= 4
    <3>1. n >= 3  BY <2>1
    <3> QED  BY <1>2, <1>5, <1>7, <2>1, <3>1 DEF MaterialOK
  <2>2. CASE ~ (n >= 4)  BY <1>2, <1>3, <1>5, <1>6, <1>7, <2>2 DEF MaterialOK
  <2> QED  BY <2>1, <2>2
<1>9. \A x \in v.history : v.spk \in Spk /\ x.id < v.spk.id
  <2>1. CASE n >= 3
    <3>1. n >= 2  BY <2>1
    <3> QED  BY <1>2, <1>7, <2>1, <3>1 DEF MaterialOK
  <2>2. CASE ~ (n >= 3)
    <3>1. \A x \in v.history : x.id \in Nat /\ p.spk \in Spk /\ x.id < p.spk.id
      BY <1>3, <1>6, <1>7, <2>2 DEF MaterialOK, Spk
    <3>2. \A x \in v.history : k.spk \in Spk /\ x.id < k.spk.id
      <4>1. \A x \in v.history : p.spk.id \in Nat /\ k.spk.id \in Nat  BY <1>4, <3>1 DEF Spk
      <4> QED  BY <1>4, <3>1, <4>1
    <3> QED  BY <1>7, <3>1, <3>2
  <2> QED  BY <2>1, <2>2
<1>10. MaterialOK(d, v, top)  BY <1>7, <1>8, <1>9 DEF MaterialOK
<1>11. v.spk \in Spk => k.spk \in Spk /\ v.spk.id <= k.spk.id
  <2>1. k.spk \in Spk => k.spk.id <= k.spk.id  BY DEF Spk
  <2> QED  BY <1>4, <1>7, <2>1
<1>12. n = 4 => SameKeys(v, k) /\ v.history = k.history  BY <1>7 DEF SameKeys
<1> QED  BY <1>1, <1>2, <1>7, <1>10, <1>11, <1>12 DEF k, top

LEMMA SaveCarries ==
  ASSUME TypeInv, NEW d \in Device, DeviceInv(d), Save(d)
  PROVE  Carries(d)
<1> DEFINE w == Written(d, 4)
          k == keys[d]
<1>1. /\ user[d] # None
      /\ user'[d] = user[d] /\ keys'[d] = k /\ stored'[d] = w /\ clock' = clock
      /\ saving'[d] = FALSE /\ minted' = minted /\ lossy' = lossy
  BY DEF Save, TypeInv
<1>2. /\ w.owner = user[d]
      /\ MaterialOK(d, w.material, minted[d]) /\ w.material.ik # None
      /\ w.material.spk \in Spk => k.spk \in Spk /\ w.material.spk.id <= k.spk.id
      /\ SameKeys(w.material, k) /\ w.material.history = k.history
  <2>1. 4 \in 1 .. 4  OBVIOUS
  <2> QED  BY <1>1, <2>1, WrittenOK
<1>3. MaterialOK(d, k, minted[d]) /\ k.ik # None  BY <1>1 DEF DeviceInv
<1> HIDE DEF w
<1>4. DeviceInv(d)'  BY <1>1, <1>2, <1>3 DEF DeviceInv
<1>5. ASSUME NEW o, OfferOK(d, o) PROVE OfferOK(d, o)'
  <2>1. Keeps(k, o, clock) => Keeps(w.material, o, clock)  BY <1>2 DEF Keeps, SameKeys
  <2> QED  BY <1>1, <1>5, <2>1 DEF OfferOK
<1> QED  BY <1>4, <1>5 DEF Carries

(* A device that stops has nothing in memory, and what its storage has of it. *)
LEMMA StopCarries ==
  ASSUME TypeInv, NEW d \in Device, DeviceInv(d), Stopped(d), clock' = clock, minted' = minted,
         \/ stored'[d] = stored[d] \/ stored'[d] = None
         \/ user[d] # None /\ d \in lossy' /\ \E n \in 1 .. 4 : stored'[d] = Written(d, n),
         (d \in lossy \/ saving[d]) /\ stored'[d] # None => d \in lossy'
  PROVE  Carries(d)
<1>1. user'[d] = None /\ keys'[d] = Blank /\ saving'[d] = FALSE  BY DEF Stopped, TypeInv
<1>2. MaterialOK(d, Blank, minted[d]) /\ Blank.ik = None  BY BlankOK
<1>3. stored'[d] # None => MaterialOK(d, stored'[d].material, minted[d]) /\ stored'[d].material.ik # None
  <2>1. CASE stored'[d] = stored[d]  BY <2>1 DEF DeviceInv
  <2>2. CASE stored'[d] = None  BY <2>2
  <2>3. ASSUME user[d] # None, NEW n \in 1 .. 4, stored'[d] = Written(d, n)
        PROVE  MaterialOK(d, stored'[d].material, minted[d]) /\ stored'[d].material.ik # None
    BY <2>3, WrittenOK
  <2> QED  BY <2>1, <2>2, <2>3
<1>4. DeviceInv(d)'  BY <1>1, <1>2, <1>3 DEF DeviceInv
<1>5. ASSUME NEW o, OfferOK(d, o) PROVE OfferOK(d, o)'
  <2>1. IsOffer(d, o, minted[d])  BY <1>5 DEF OfferOK
  <2>2. Keeps(Blank, o, clock)  BY <1>2, <2>1, HandshakeAssumption DEF Keeps, IsOffer
  <2>3. d \notin lossy' /\ stored'[d] # None => Keeps(stored'[d].material, o, clock)
    BY <1>5 DEF OfferOK
  <2> QED  BY <1>1, <2>1, <2>2, <2>3 DEF OfferOK
<1> QED  BY <1>4, <1>5 DEF Carries

LEMMA CrashCarries ==
  ASSUME TypeInv, NEW d \in Device, DeviceInv(d), Crash(d)
  PROVE  Carries(d)
<1>1. /\ Stopped(d) /\ clock' = clock /\ minted' = minted /\ user[d] # None
      /\ lossy' = IF Unsaved(d) \/ borrowed[d] # NoSessions THEN lossy \cup {d} ELSE lossy
      /\ \/ stored' = stored
         \/ saving[d] /\ \E n \in 1 .. 3 : stored' = [stored EXCEPT ![d] = Written(d, n)]
  BY DEF Crash
<1>2. stored'[d] = stored[d] \/ (saving[d] /\ \E n \in 1 .. 4 : stored'[d] = Written(d, n))
  BY <1>1 DEF TypeInv
<1>3. d \in lossy \/ saving[d] => d \in lossy'  BY <1>1 DEF Unsaved
<1> QED  BY <1>1, <1>2, <1>3, StopCarries

LEMMA ReinstallCarries ==
  ASSUME TypeInv, NEW d \in Device, DeviceInv(d), Reinstall(d)
  PROVE  Carries(d)
<1>1. Stopped(d) /\ clock' = clock /\ minted' = minted /\ lossy' = lossy /\ stored'[d] = None
  BY DEF Reinstall, TypeInv
<1> QED  BY <1>1, StopCarries

(* A one-time prekey that is spent leaves the supply, and the store is due to be written. *)
LEMMA OpenedCarries ==
  ASSUME TypeInv, NEW d \in Device, DeviceInv(d), NEW c, Opened(d, c)
  PROVE  Carries(d)
<1> DEFINE k == keys[d]
          id == Borrowed(d, c.at)
          gone == ById(k.opks, id)
          v == IF k.published = id THEN None ELSE k.published
          m == keys'[d]
<1>1. /\ user' = user /\ stored' = stored /\ clock' = clock /\ minted' = minted /\ lossy' = lossy
      /\ id \in Ids(k.opks) => saving' = [saving EXCEPT ![d] = TRUE]
      /\ id \notin Ids(k.opks) => saving' = saving /\ keys' = keys
  <2>1. user' = user /\ stored' = stored /\ clock' = clock /\ minted' = minted /\ lossy' = lossy
    BY DEF Opened, storage
  <2>2. id \in Ids(k.opks) => saving' = [saving EXCEPT ![d] = TRUE]  BY DEF Opened
  <2>3. id \notin Ids(k.opks) => saving' = saving /\ keys' = keys  BY DEF Opened
  <2> QED  BY <2>1, <2>2, <2>3
<1>2. CASE id \notin Ids(k.opks)
  <2>1. Rests(d) /\ clock' = clock /\ clock \in Nat /\ clock <= clock  BY <1>1, <1>2 DEF Rests, TypeInv
  <2> QED  BY <2>1, RestCarries
<1>3. CASE id \in Ids(k.opks)
  <2>1. saving'[d] = TRUE  BY <1>1, <1>3 DEF TypeInv
  <2>2. MaterialOK(d, k, minted[d])  BY DEF DeviceInv
  <2>3. /\ k.next \in Nat /\ k.opks \subseteq Record /\ k.history \subseteq Spk
        /\ k.spk \in {None} \cup Spk /\ k.ik \in {None} \cup ({d} \X Nat)
        /\ IsFiniteSet(k.history) /\ IsFiniteSet(k.opks)
        /\ DOMAIN k = {"ik", "spk", "history", "opks", "published", "next"}
    BY <2>2, MaterialFields
  <2>4. m = [[k EXCEPT !.opks = k.opks \ {gone}] EXCEPT !.published = v]
    BY <1>3, <2>3 DEF TypeInv, Opened
  <2> HIDE DEF k, gone, v, m
  <2>5. m = [ik |-> k.ik, spk |-> k.spk, history |-> k.history, opks |-> k.opks \ {gone},
             published |-> v, next |-> k.next]
    BY <2>3, <2>4
  <2>6. /\ m.ik = k.ik /\ m.spk = k.spk /\ m.history = k.history /\ m.opks = k.opks \ {gone}
        /\ m.next = k.next
        /\ m \in [ik : {None} \cup ({d} \X Nat), spk : {None} \cup Spk, history : SUBSET Spk,
                  opks : SUBSET Record, published : {m.published}, next : Nat]
    BY <2>3, <2>5
  <2>7. IsFiniteSet(m.opks) /\ m.opks \subseteq k.opks
    <3>1. m.opks \in SUBSET k.opks  BY <2>6
    <3> QED  BY <2>3, <3>1, FS_Subset
  <2>8. MaterialOK(d, m, minted[d])  BY <2>2, <2>6, <2>7 DEF MaterialOK
  <2>9. ASSUME NEW o, Keeps(k, o, clock) PROVE Keeps(m, o, clock)
    BY <2>6, <2>7, <2>9 DEF Keeps
  <2>10. m = keys'[d] /\ k = keys[d]  BY DEF m, k
  <2>11. DeviceInv(d)'  BY <1>1, <2>1, <2>6, <2>8, <2>10 DEF DeviceInv
  <2>12. ASSUME NEW o, OfferOK(d, o) PROVE OfferOK(d, o)'
    BY <1>1, <2>1, <2>9, <2>10, <2>12 DEF OfferOK
  <2> QED  BY <2>11, <2>12 DEF Carries
<1> QED  BY <1>2, <1>3

-----------------------------------------------------------------------------
(* Every step carries every device.                                        *)

(* A step of one device leaves the others alone. *)
LEMMA DeviceSteps ==
  ASSUME TypeInv, NEW d \in Device, DeviceInv(d), DeviceStep(d)
  PROVE  /\ TypeInv' /\ clock' = clock /\ Carries(d)
         /\ \A e \in Device \ {d} : Rests(e)
<1> DEFINE Alone == TypeInv' /\ clock' = clock /\ \A e \in Device \ {d} : Rests(e)
<1>0. Block \in Nat /\ clock \in Nat /\ clock <= clock  BY HandshakeAssumption DEF Block, TypeInv
<1>1. ASSUME NEW u \in Account, SignIn(u, d) PROVE Alone /\ Carries(d)
  <2>1. Carries(d)  BY <1>1, SignInCarries
  <2>2. \A e \in Device \ {d} : Rests(e)
    <3>1. /\ \A e \in Device \ {d} : user'[e] = user[e] /\ keys'[e] = keys[e] /\ saving'[e] = saving[e]
          /\ stored' = stored
      BY <1>1 DEF SignIn, TypeInv
    <3>2. \A e \in Device \ {d} : minted'[e] = minted[e]  BY <1>1 DEF SignIn, Minting, TypeInv
    <3>3. \A e \in Device \ {d} : e \in lossy' <=> e \in lossy  BY <1>1 DEF SignIn
    <3> QED  BY <3>1, <3>2, <3>3 DEF Rests
  <2>3. TypeInv'
    <3>1. user' \in [Device -> Account \cup {None}]  BY <1>1 DEF SignIn, TypeInv
    <3>2. saving' \in [Device -> BOOLEAN]
      <4>1. saving' = [saving EXCEPT ![d] = saving'[d]] /\ saving'[d] \in BOOLEAN
        BY <1>1 DEF SignIn, TypeInv
      <4> QED  BY <4>1 DEF TypeInv
    <3>3. minted' \in [Device -> Nat]  BY <1>0, <1>1 DEF SignIn, Minting, TypeInv
    <3>4. DOMAIN keys' = Device /\ stored' = stored /\ clock' = clock  BY <1>1 DEF SignIn, TypeInv
    <3>5. DOMAIN published' = Remote  BY <1>1 DEF SignIn, Uploaded, TypeInv
    <3>6. DOMAIN known' = Device /\ DOMAIN own' = Device  BY <1>1 DEF SignIn, Forgotten, TypeInv
    <3> QED  BY <3>1, <3>2, <3>3, <3>4, <3>5, <3>6 DEF TypeInv
  <2>4. clock' = clock  BY <1>1 DEF SignIn
  <2> QED  BY <2>1, <2>2, <2>3, <2>4
<1>2. ASSUME Publish(d) \/ Upkeep(d) PROVE Alone /\ Carries(d)
  <2>1. /\ user' = user /\ stored' = stored /\ clock' = clock /\ lossy' = lossy
        /\ known' = known /\ own' = own
    BY <1>2 DEF Publish, Upkeep, storage, server
  <2>2. /\ keys' = [keys EXCEPT ![d] = keys'[d]]
        /\ keys'[d] \in {Upkept(keys[d], minted[d]), Selected(Upkept(keys[d], minted[d]))}
    BY <1>2 DEF Publish, Upkeep, TypeInv
  <2>3. saving' = [saving EXCEPT ![d] = saving'[d]] /\ saving'[d] = (saving[d] \/ keys'[d] # keys[d])
    <3>1. CASE Publish(d)  BY <3>1 DEF Publish, TypeInv
    <3>2. CASE Upkeep(d)  BY <3>2 DEF Upkeep, TypeInv
    <3> QED  BY <1>2, <3>1, <3>2
  <2>4. Minting(d, keys[d], Upkept(keys[d], minted[d]))  BY <1>2 DEF Publish, Upkeep
  <2>5. minted' \in [Device -> Nat]  BY <1>0, <2>4 DEF Minting, TypeInv
  <2>6. DOMAIN published' = Remote  BY <1>2 DEF Publish, Upkeep, Uploaded, TypeInv, server
  <2>7. saving' \in [Device -> BOOLEAN]
    <3>1. saving'[d] \in BOOLEAN  BY <2>3 DEF TypeInv
    <3> QED  BY <2>3, <3>1 DEF TypeInv
  <2>8. DOMAIN keys' = Device  BY <2>2 DEF TypeInv
  <2>9. TypeInv'  BY <2>1, <2>5, <2>6, <2>7, <2>8 DEF TypeInv
  <2>10. \A e \in Device \ {d} : keys'[e] = keys[e] /\ saving'[e] = saving[e] /\ minted'[e] = minted[e]
    <3>1. \A e \in Device \ {d} : keys'[e] = keys[e]  BY <2>2 DEF TypeInv
    <3>2. \A e \in Device \ {d} : saving'[e] = saving[e]  BY <2>3 DEF TypeInv
    <3>3. \A e \in Device \ {d} : minted'[e] = minted[e]  BY <2>4 DEF Minting, TypeInv
    <3> QED  BY <3>1, <3>2, <3>3
  <2>11. \A e \in Device \ {d} : Rests(e)  BY <2>1, <2>10 DEF Rests
  <2>12. minted'[d] = IF Upkept(keys[d], minted[d]) = keys[d] THEN minted[d] ELSE minted[d] + Block
    BY <2>4 DEF Minting, TypeInv
  <2>13. Carries(d)
    <3> DEFINE m == keys'[d]
    <3>1. keys'[d] = m /\ (m = Upkept(keys[d], minted[d]) \/ m = Selected(Upkept(keys[d], minted[d])))
      BY <2>2
    <3>2. saving'[d] = (saving[d] \/ m # keys[d])  BY <2>3
    <3> HIDE DEF m
    <3> QED  BY <2>1, <2>12, <3>1, <3>2, UpkeepCarries
  <2> QED  BY <2>1, <2>9, <2>11, <2>13
<1>3. ASSUME Save(d) PROVE Alone /\ Carries(d)
  <2>1. Carries(d)  BY <1>3, SaveCarries
  <2>2. TypeInv' /\ clock' = clock  BY <1>3 DEF Save, TypeInv, server
  <2>3. \A e \in Device \ {d} : Rests(e)  BY <1>3 DEF Save, Rests, TypeInv
  <2> QED  BY <2>1, <2>2, <2>3
<1>4. ASSUME Crash(d) PROVE Alone /\ Carries(d)
  <2>1. Carries(d)  BY <1>4, CrashCarries
  <2>2. TypeInv' /\ clock' = clock  BY <1>4 DEF Crash, Stopped, TypeInv, server
  <2>3. \A e \in Device \ {d} : Rests(e)
    <3>1. \A e \in Device \ {d} : user'[e] = user[e] /\ keys'[e] = keys[e] /\ saving'[e] = saving[e]
      BY <1>4 DEF Crash, Stopped, TypeInv
    <3>2. \A e \in Device \ {d} : stored'[e] = stored[e]  BY <1>4 DEF Crash, TypeInv
    <3>3. minted' = minted /\ \A e \in Device \ {d} : e \in lossy' <=> e \in lossy  BY <1>4 DEF Crash
    <3> QED  BY <3>1, <3>2, <3>3 DEF Rests
  <2> QED  BY <2>1, <2>2, <2>3
<1>5. ASSUME Reinstall(d) PROVE Alone /\ Carries(d)
  <2>1. Carries(d)  BY <1>5, ReinstallCarries
  <2>2. TypeInv' /\ clock' = clock  BY <1>5 DEF Reinstall, Stopped, TypeInv, server
  <2>3. \A e \in Device \ {d} : Rests(e)  BY <1>5 DEF Reinstall, Stopped, Rests, TypeInv
  <2> QED  BY <2>1, <2>2, <2>3
<1>6. ASSUME NEW c, Opened(d, c) PROVE Alone /\ Carries(d)
  <2>1. Carries(d)  BY <1>6, OpenedCarries
  <2>2. /\ user' = user /\ stored' = stored /\ clock' = clock /\ minted' = minted /\ lossy' = lossy
        /\ known' = known /\ own' = own /\ published' = published
    BY <1>6 DEF Opened, storage, server
  <2>3. saving' \in [Device -> BOOLEAN] /\ \A e \in Device \ {d} : saving'[e] = saving[e]
    BY <1>6 DEF Opened, TypeInv
  <2>4. DOMAIN keys' = Device /\ \A e \in Device \ {d} : keys'[e] = keys[e]
    BY <1>6 DEF Opened, TypeInv
  <2>5. TypeInv'  BY <2>2, <2>3, <2>4 DEF TypeInv
  <2>6. \A e \in Device \ {d} : Rests(e)  BY <2>2, <2>3, <2>4 DEF Rests
  <2> QED  BY <2>1, <2>2, <2>5, <2>6
<1> DEFINE Still == /\ user' = user /\ keys' = keys /\ stored' = stored /\ saving' = saving
                    /\ minted' = minted /\ lossy' = lossy /\ clock' = clock
                    /\ own' = own /\ published' = published /\ DOMAIN known' = Device
<1>7. ASSUME NEW u \in Account, Fetch(d, u) PROVE Still  BY <1>7 DEF Fetch, storage, TypeInv
<1>8. ASSUME NEW u \in Account, Send(d, u) PROVE Still  BY <1>8 DEF Send, storage, TypeInv
<1>9. ASSUME NEW p \in posts, StartOpen(d, p) PROVE Still
  BY <1>9 DEF StartOpen, storage, server, TypeInv
<1>10. ASSUME NEW c, Try(d, c) PROVE Still  BY <1>10 DEF Try, storage, server, TypeInv
<1>11. ASSUME NEW c, Failed(d, c) PROVE Still  BY <1>11 DEF Failed, storage, server, TypeInv
<1>12. ASSUME Still PROVE Alone /\ Carries(d)
  <2>1. TypeInv'  BY <1>12 DEF TypeInv
  <2>2. \A e \in Device : Rests(e)  BY <1>12 DEF Rests
  <2>3. Carries(d)  BY <1>0, <1>12, <2>2, RestCarries
  <2> QED  BY <1>12, <2>1, <2>2, <2>3
<1> HIDE DEF Alone, Still
<1>13. Alone /\ Carries(d)
  <2>1. \/ \E u \in Account : SignIn(u, d) \/ Fetch(d, u) \/ Send(d, u)
        \/ Publish(d) \/ Upkeep(d) \/ Save(d) \/ Crash(d) \/ Reinstall(d)
        \/ \E p \in posts : StartOpen(d, p)
        \/ \E c \in opening[d] : Try(d, c) \/ Opened(d, c) \/ Failed(d, c)
    BY DEF DeviceStep
  <2> QED  BY <1>1, <1>2, <1>3, <1>4, <1>5, <1>6, <1>7, <1>8, <1>9, <1>10, <1>11, <1>12, <2>1
<1> QED  BY <1>13 DEF Alone

LEMMA NextCarries ==
  ASSUME TypeInv, \A e \in Device : DeviceInv(e), [Next]_vars
  PROVE  TypeInv' /\ \A e \in Device : Carries(e)
<1> DEFINE Q == TypeInv' /\ \A e \in Device : Carries(e)
<1>0. clock \in Nat /\ clock <= clock  BY DEF TypeInv
<1>1. ASSUME NEW d \in Device, DeviceStep(d) PROVE Q
  <2>1. /\ TypeInv' /\ clock' = clock /\ Carries(d)
        /\ \A e \in Device \ {d} : Rests(e)
    BY <1>1, DeviceSteps
  <2>2. \A e \in Device \ {d} : Carries(e)  BY <1>0, <2>1, RestCarries
  <2> QED  BY <2>1, <2>2
<1>2. ASSUME Tick PROVE Q
  <2>1. clock' \in Nat /\ clock <= clock'  BY <1>0, <1>2 DEF Tick
  <2>2. \A e \in Device : Rests(e)  BY <1>2 DEF Tick, Rests, device, storage
  <2>3. TypeInv'  BY <1>2, <2>1 DEF Tick, TypeInv, device, storage, server
  <2> QED  BY <2>1, <2>2, <2>3, RestCarries
<1>3. ASSUME ForgetBundles PROVE Q
  <2>1. \A e \in Device : Rests(e)  BY <1>3 DEF ForgetBundles, Rests, device, storage
  <2>2. TypeInv'  BY <1>3 DEF ForgetBundles, TypeInv, device, storage
  <2>3. clock' = clock  BY <1>3 DEF ForgetBundles
  <2> QED  BY <1>0, <2>1, <2>2, <2>3, RestCarries
<1>4. ASSUME UNCHANGED vars PROVE Q
  <2>1. \A e \in Device : Rests(e)  BY <1>4 DEF vars, Rests, device, storage
  <2>2. TypeInv' /\ clock' = clock  BY <1>4 DEF vars, TypeInv, device, storage, server
  <2> QED  BY <1>0, <2>1, <2>2, RestCarries
<1> HIDE DEF Q
<1>5. Q  BY <1>1, <1>2, <1>3, <1>4 DEF Next
<1> QED  BY <1>5 DEF Q

-----------------------------------------------------------------------------
(* Every offer there is, wherever it is, is one the device keeps.          *)

(* A bundle that is handed out without its one-time prekey offers less. *)
LEMMA HandoutOK ==
  ASSUME NEW r, published[r] # None => OfferOK(r[2], published[r]), Handout(r) # None
  PROVE  OfferOK(r[2], Handout(r))
<1> DEFINE b == published[r]
          h == [b EXCEPT !.opk = None]
<1>1. Handout(r) = b \/ (b # None /\ Handout(r) = h)  BY DEF Handout
<1>2. ASSUME b # None PROVE OfferOK(r[2], h)
  <2>1. OfferOK(r[2], b)  BY <1>2
  <2> HIDE DEF b
  <2>2. {"ik", "spk", "opk"} \subseteq DOMAIN b  BY <2>1 DEF OfferOK, IsOffer
  <2>3. h.ik = b.ik /\ h.spk = b.spk /\ h.opk = None /\ DOMAIN h = DOMAIN b  BY <2>2
  <2> HIDE DEF h
  <2>4. IsOffer(r[2], h, minted[r[2]])  BY <2>1, <2>3 DEF OfferOK, IsOffer
  <2>5. \A m : Keeps(m, b, clock) => Keeps(m, h, clock)  BY <2>3 DEF Keeps
  <2> QED  BY <2>1, <2>4, <2>5 DEF OfferOK
<1> QED  BY <1>1, <1>2

(* A handshake offers what the bundle did it was built on. *)
LEMMA InitiatedOK ==
  ASSUME NEW e, NEW b, OfferOK(e, b), NEW ik, NEW base
  PROVE  LET i == Initiated(ik, b, base) IN Matches(i) /\ OfferOK(e, OfferOf(i))
<1> DEFINE i == Initiated(ik, b, base)
          o == OfferOf(i)
<1>1. IsOffer(e, b, minted[e])  BY DEF OfferOK
<1>2. b.opk # None => b.opk \in Record  BY <1>1 DEF IsOffer
<1>3. /\ i.x3dh.base = base /\ i.x3dh.from = ik /\ i.x3dh.spk = b.spk
      /\ i.x3dh.opk = IF b.opk = None THEN None ELSE b.opk.id
      /\ i.secret = [base |-> base, from |-> ik, to |-> b.ik, spk |-> b.spk.key,
                     opk |-> IF b.opk = None THEN None ELSE b.opk.key]
  BY DEF Initiated
<1> HIDE DEF i
<1>4. b.opk # None => b.opk.id # None /\ b.opk = [id |-> b.opk.id, key |-> b.opk.key]
  <2>1. b.opk # None => b.opk.id \in Nat  BY <1>2 DEF Record
  <2>2. b.opk # None => b.opk = [id |-> b.opk.id, key |-> b.opk.key]  BY <1>2 DEF Record
  <2> QED  BY <2>1, <2>2, HandshakeAssumption
<1>5. i.secret.to = b.ik /\ i.secret.opk = IF b.opk = None THEN None ELSE b.opk.key  BY <1>3
<1>6. Matches(i)  BY <1>2, <1>3, <1>4, <1>5 DEF Matches
<1>7. o.ik = b.ik /\ o.spk = b.spk /\ DOMAIN o = {"ik", "spk", "opk"}
  BY <1>3, <1>5 DEF OfferOf
<1>8. o.opk = b.opk
  <2>1. o.opk = IF i.x3dh.opk = None THEN None ELSE [id |-> i.x3dh.opk, key |-> i.secret.opk]
    BY DEF OfferOf
  <2> QED  BY <1>3, <1>4, <1>5, <2>1
<1> HIDE DEF o
<1>9. IsOffer(e, o, minted[e])  BY <1>1, <1>7, <1>8 DEF IsOffer
<1>10. \A m : Keeps(m, b, clock) => Keeps(m, o, clock)  BY <1>7, <1>8 DEF Keeps
<1> QED  BY <1>6, <1>9, <1>10 DEF OfferOK, i, o

(* What a running device publishes now. *)
LEMMA FreshOK ==
  ASSUME NEW d \in Device, TypeInv', DeviceInv(d)', clock' = clock, user'[d] # None,
         keys'[d].ik # None, keys'[d].spk # None, NEW b, b = Bundle(keys'[d])
  PROVE  OfferOK(d, b)'
<1> DEFINE m == keys'[d]
          n == minted'[d]
<1>1. MaterialOK(d, m, n)  BY DEF DeviceInv
<1>2. n \in Nat  BY DEF TypeInv
<1>3. m.ik # None /\ m.spk # None /\ b = Bundle(m)  OBVIOUS
<1> HIDE DEF m, n
<1>4. IsOffer(d, b, n) /\ \A k : SameKeys(k, m) => Keeps(k, b, clock)
  BY <1>1, <1>2, <1>3, BundleOK
<1>5. SameKeys(m, m)  BY DEF SameKeys
<1>6. stored'[d] # None /\ ~ saving'[d] => SameKeys(stored'[d].material, m)  BY DEF DeviceInv, m
<1> QED  BY <1>4, <1>5, <1>6 DEF OfferOK, m, n

LEMMA PublishedStep ==
  ASSUME Inv, [Next]_vars, TypeInv', \A e \in Device : Carries(e),
         NEW r \in Remote, NEW b, b = published'[r], b # None
  PROVE  OfferOK(r[2], b)'
<1>0. r[2] \in Device  BY DEF Remote
<1>1. published[r] # None => OfferOK(r[2], published[r])  BY DEF Inv, OffersInv
<1>2. b = published[r] => OfferOK(r[2], b)'  BY <1>0, <1>1 DEF Carries
<1>3. ASSUME NEW u \in Account \cup {None}, NEW d \in Device, u # None,
             Uploaded(u, d, keys'[d]), user'[d] = u, clock' = clock
      PROVE  OfferOK(r[2], b)'
  <2>1. CASE b = published[r]  BY <1>2, <2>1
  <2>2. CASE b # published[r]
    <3>1. r = <<u, d>> /\ keys'[d].ik # None /\ keys'[d].spk # None /\ b = Bundle(keys'[d])
      BY <1>3, <2>2 DEF Uploaded, Inv, TypeInv
    <3>2. r[2] = d /\ DeviceInv(d)'  BY <3>1 DEF Carries
    <3> QED  BY <1>3, <3>1, <3>2, FreshOK
  <2> QED  BY <2>1, <2>2
<1>4. ASSUME NEW d \in Device, NEW u \in Account, SignIn(u, d) PROVE OfferOK(r[2], b)'
  <2>1. Uploaded(u, d, keys'[d]) /\ user'[d] = u /\ clock' = clock
    BY <1>4 DEF SignIn, Inv, TypeInv
  <2>2. u # None  BY HandshakeAssumption
  <2> QED  BY <1>3, <2>1, <2>2
<1>5. ASSUME NEW d \in Device, Publish(d) PROVE OfferOK(r[2], b)'
  <2>1. Uploaded(user[d], d, keys'[d]) /\ user' = user /\ clock' = clock /\ user[d] # None
    BY <1>5 DEF Publish, Inv, TypeInv
  <2>2. user[d] \in Account \cup {None}  BY DEF Inv, TypeInv
  <2> QED  BY <1>3, <2>1, <2>2
<1>6. ASSUME ForgetBundles PROVE b = published[r]  BY <1>6 DEF ForgetBundles
<1>7. ASSUME NEW d \in Device, DeviceStep(d),
             ~ (\E u \in Account : SignIn(u, d)), ~ Publish(d)
      PROVE  b = published[r]
  <2>1. ASSUME NEW u \in Account, Fetch(d, u) PROVE published' = published  BY <2>1 DEF Fetch
  <2>2. ASSUME NEW u \in Account, Send(d, u) PROVE published' = published  BY <2>2 DEF Send
  <2>3. ASSUME Upkeep(d) \/ Save(d) \/ Crash(d) \/ Reinstall(d) PROVE published' = published
    BY <2>3 DEF Upkeep, Save, Crash, Reinstall, server
  <2>4. ASSUME NEW p \in posts, StartOpen(d, p) PROVE published' = published
    BY <2>4 DEF StartOpen, server
  <2>5. ASSUME NEW c, Try(d, c) \/ Opened(d, c) \/ Failed(d, c) PROVE published' = published
    BY <2>5 DEF Try, Opened, Failed, server
  <2> QED  BY <1>7, <2>1, <2>2, <2>3, <2>4, <2>5 DEF DeviceStep
<1>8. ASSUME Tick \/ UNCHANGED vars PROVE b = published[r]  BY <1>8 DEF Tick, vars, server
<1> QED  BY <1>2, <1>4, <1>5, <1>6, <1>7, <1>8 DEF Next

LEMMA KnownStep ==
  ASSUME Inv, [Next]_vars, TypeInv', \A e \in Device : Carries(e),
         NEW d \in Device, NEW r \in Remote, NEW b, b = known'[d][r], b # None
  PROVE  OfferOK(r[2], b)'
<1>0. r[2] \in Device  BY DEF Remote
<1>1. known[d][r] # None => OfferOK(r[2], known[d][r])  BY DEF Inv, OffersInv
<1>2. published[r] # None => OfferOK(r[2], published[r])  BY DEF Inv, OffersInv
<1>3. Handout(r) # None => OfferOK(r[2], Handout(r))  BY <1>2, HandoutOK
<1>4. b = known[d][r] \/ b = Handout(r) => OfferOK(r[2], b)'  BY <1>0, <1>1, <1>3 DEF Carries
<1>5. ASSUME NEW c \in Device, NEW u \in Account, SignIn(u, c) PROVE b = known[d][r]
  BY <1>5 DEF SignIn, Forgotten, Inv, TypeInv
<1>6. ASSUME NEW c \in Device, Crash(c) \/ Reinstall(c) PROVE b = known[d][r]
  BY <1>6 DEF Crash, Reinstall, Stopped, Inv, TypeInv
<1>7. ASSUME NEW c \in Device, NEW u \in Account, Fetch(c, u) PROVE b = known[d][r] \/ b = Handout(r)
  BY <1>7 DEF Fetch, Remembered, Inv, TypeInv
<1>8. ASSUME NEW c \in Device, NEW u \in Account, Send(c, u) PROVE b = known[d][r]  BY <1>8 DEF Send
<1>9. ASSUME NEW c \in Device, Publish(c) \/ Upkeep(c) \/ Save(c) PROVE b = known[d][r]
  BY <1>9 DEF Publish, Upkeep, Save
<1>10. ASSUME NEW c \in Device, NEW p \in posts, StartOpen(c, p) PROVE b = known[d][r]
  BY <1>10 DEF StartOpen
<1>11. ASSUME NEW c \in Device, NEW x, Try(c, x) \/ Opened(c, x) \/ Failed(c, x) PROVE b = known[d][r]
  BY <1>11 DEF Try, Opened, Failed
<1>12. ASSUME Tick \/ ForgetBundles \/ UNCHANGED vars PROVE b = known[d][r]
  BY <1>12 DEF Tick, ForgetBundles, vars, device
<1>13. ASSUME NEW c \in Device, DeviceStep(c) PROVE OfferOK(r[2], b)'
  <2>1. \/ \E u \in Account : SignIn(u, c) \/ Fetch(c, u) \/ Send(c, u)
        \/ Publish(c) \/ Upkeep(c) \/ Save(c) \/ Crash(c) \/ Reinstall(c)
        \/ \E p \in posts : StartOpen(c, p)
        \/ \E x \in opening[c] : Try(c, x) \/ Opened(c, x) \/ Failed(c, x)
    BY <1>13 DEF DeviceStep
  <2> QED  BY <1>4, <1>5, <1>6, <1>7, <1>8, <1>9, <1>10, <1>11, <2>1
<1> QED  BY <1>4, <1>12, <1>13 DEF Next

LEMMA OwnStep ==
  ASSUME Inv, [Next]_vars, TypeInv', \A e \in Device : Carries(e),
         NEW d \in Device, NEW e \in Device, NEW b, b = own'[d][e], b # None
  PROVE  OfferOK(e, b)'
<1>1. own[d][e] # None => OfferOK(e, own[d][e])  BY DEF Inv, OffersInv
<1>2. \A u \in Account : published[<<u, e>>] # None => OfferOK(e, published[<<u, e>>])
  BY DEF Inv, OffersInv, Remote
<1>3. b = own[d][e] \/ (\E u \in Account : b = published[<<u, e>>]) => OfferOK(e, b)'
  BY <1>1, <1>2 DEF Carries
<1>5. ASSUME NEW c \in Device, NEW u \in Account, SignIn(u, c)
      PROVE  b = own[d][e] \/ b = published[<<u, e>>]
  BY <1>5 DEF SignIn, Forgotten, Inv, TypeInv
<1>6. ASSUME NEW c \in Device, Crash(c) \/ Reinstall(c) PROVE b = own[d][e]
  BY <1>6 DEF Crash, Reinstall, Stopped, Inv, TypeInv
<1>7. ASSUME NEW c \in Device, NEW u \in Account, Fetch(c, u) \/ Send(c, u) PROVE b = own[d][e]
  BY <1>7 DEF Fetch, Send
<1>9. ASSUME NEW c \in Device, Publish(c) \/ Upkeep(c) \/ Save(c) PROVE b = own[d][e]
  BY <1>9 DEF Publish, Upkeep, Save
<1>10. ASSUME NEW c \in Device, NEW p \in posts, StartOpen(c, p) PROVE b = own[d][e]
  BY <1>10 DEF StartOpen
<1>11. ASSUME NEW c \in Device, NEW x, Try(c, x) \/ Opened(c, x) \/ Failed(c, x) PROVE b = own[d][e]
  BY <1>11 DEF Try, Opened, Failed
<1>12. ASSUME Tick \/ ForgetBundles \/ UNCHANGED vars PROVE b = own[d][e]
  BY <1>12 DEF Tick, ForgetBundles, vars, device
<1>13. ASSUME NEW c \in Device, DeviceStep(c) PROVE OfferOK(e, b)'
  <2>1. \/ \E u \in Account : SignIn(u, c) \/ Fetch(c, u) \/ Send(c, u)
        \/ Publish(c) \/ Upkeep(c) \/ Save(c) \/ Crash(c) \/ Reinstall(c)
        \/ \E p \in posts : StartOpen(c, p)
        \/ \E x \in opening[c] : Try(c, x) \/ Opened(c, x) \/ Failed(c, x)
    BY <1>13 DEF DeviceStep
  <2> QED  BY <1>3, <1>5, <1>6, <1>7, <1>9, <1>10, <1>11, <2>1
<1> QED  BY <1>3, <1>12, <1>13 DEF Next

(* A body: one that carries a handshake was built on an offer of the device it is for. *)
BodyOK(r, x) ==
  x.x3dh # None => Matches(x) /\ (\E d \in Device : r[2] = d) /\ OfferOK(r[2], OfferOf(x))

LEMMA SealedOK ==
  ASSUME Inv, NEW d \in Device, NEW to \in Account, user[d] \notin {None, to}, NEW r \in Targets(d, to), NEW n
  PROVE  BodyOK(r, Sealed(d, r, n))
<1> DEFINE b == BundleOf(d, r)
<1>1. r \in Remote /\ r[2] \in Device /\ b # None /\ OfferOK(r[2], b)
  <2>1. CASE r \in Remote /\ r[1] = to /\ known[d][r] # None
    <3>1. b = known[d][r] /\ r[2] \in Device  BY <2>1 DEF BundleOf, Remote
    <3> QED  BY <2>1, <3>1 DEF Inv, OffersInv
  <2>2. ASSUME NEW e \in Device, own[d][e] # None, r = <<user[d], e>>, user[d] \in Account
        PROVE  r \in Remote /\ r[2] \in Device /\ b # None /\ OfferOK(r[2], b)
    <3>1. b = own[d][e] /\ r[2] = e /\ r \in Remote  BY <2>2 DEF BundleOf, Remote
    <3> QED  BY <2>2, <3>1 DEF Inv, OffersInv
  <2>3. user[d] \in Account  BY DEF Inv, TypeInv
  <2>4. \/ r \in Remote /\ r[1] = to /\ known[d][r] # None
        \/ \E e \in Device : own[d][e] # None /\ r = <<user[d], e>>
    BY DEF Targets
  <2> QED  BY <2>1, <2>2, <2>3, <2>4
<1>2. CASE sessions[d][r] # None /\ ~ Replaced(d, r)
  <2>1. Sealed(d, r, n).x3dh = None  BY <1>2 DEF Sealed
  <2> QED  BY <2>1 DEF BodyOK
<1>3. CASE ~ (sessions[d][r] # None /\ ~ Replaced(d, r))
  <2>1. Sealed(d, r, n) = Initiated(keys[d].ik, b, <<n, r[2]>>)  BY <1>3 DEF Sealed
  <2> HIDE DEF b
  <2>2. Matches(Sealed(d, r, n)) /\ OfferOK(r[2], OfferOf(Sealed(d, r, n)))
    BY <1>1, <2>1, InitiatedOK
  <2> QED  BY <1>1, <2>2 DEF BodyOK
<1> QED  BY <1>2, <1>3

LEMMA PostsStep ==
  ASSUME Inv, [Next]_vars, TypeInv', \A e \in Device : Carries(e),
         NEW p \in posts', NEW r \in DOMAIN p.bodies, p.bodies[r].x3dh # None
  PROVE  LET x == p.bodies[r] IN
         Matches(x) /\ (\E d \in Device : r[2] = d) /\ OfferOK(r[2], OfferOf(x))'
<1> DEFINE x == p.bodies[r]
           Now == Matches(x) /\ (\E d \in Device : r[2] = d) /\ OfferOK(r[2], OfferOf(x))'
<1>0. ASSUME BodyOK(r, x) PROVE Now
  <2> DEFINE o == OfferOf(x)
  <2>1. Matches(x) /\ (\E d \in Device : r[2] = d) /\ OfferOK(r[2], o)  BY <1>0 DEF BodyOK
  <2> HIDE DEF o, x
  <2>2. OfferOK(r[2], o)'  BY <2>1 DEF Carries
  <2> QED  BY <2>1, <2>2 DEF o
<1>1. p \in posts => BodyOK(r, x)  BY DEF Inv, OffersInv, BodyOK
<1>2. ASSUME NEW d \in Device, NEW to \in Account, Send(d, to), p \notin posts PROVE BodyOK(r, x)
  <2>1. user[d] \notin {None, to}  BY <1>2 DEF Send
  <2>2. \/ p.bodies = <<>>
        \/ \E done \in SUBSET Targets(d, to) :
             p.bodies = [q \in done |-> Sealed(d, q, Cardinality(posts) + 1)]
    <3>1. \/ \E kind : Posted(d, to, kind, <<>>)
          \/ \E done \in SUBSET Targets(d, to) : \E kind :
               Posted(d, to, kind, [q \in done |-> Sealed(d, q, Cardinality(posts) + 1)])
      BY <1>2 DEF Send
    <3> QED  BY <1>2, <3>1 DEF Posted
  <2>3. ASSUME NEW done \in SUBSET Targets(d, to),
               p.bodies = [q \in done |-> Sealed(d, q, Cardinality(posts) + 1)]
        PROVE  BodyOK(r, x)
    <3>1. r \in Targets(d, to) /\ x = Sealed(d, r, Cardinality(posts) + 1)  BY <2>3
    <3> QED  BY <2>1, <3>1, SealedOK
  <2>4. p.bodies # <<>>
    <3>1. DOMAIN <<>> = {}  OBVIOUS
    <3> QED  BY <3>1
  <2> QED  BY <2>2, <2>3, <2>4
<1>3. ASSUME NEW d \in Device, NEW u \in Account, SignIn(u, d) \/ Fetch(d, u) PROVE posts' = posts
  BY <1>3 DEF SignIn, Fetch
<1>4. ASSUME NEW d \in Device, Publish(d) \/ Upkeep(d) \/ Save(d) \/ Crash(d) \/ Reinstall(d)
      PROVE  posts' = posts
  BY <1>4 DEF Publish, Upkeep, Save, Crash, Reinstall, server
<1>5. ASSUME NEW d \in Device, NEW q \in posts, StartOpen(d, q) PROVE posts' = posts
  BY <1>5 DEF StartOpen, server
<1>6. ASSUME NEW d \in Device, NEW c, Try(d, c) \/ Opened(d, c) \/ Failed(d, c) PROVE posts' = posts
  BY <1>6 DEF Try, Opened, Failed, server
<1>7. ASSUME Tick \/ ForgetBundles \/ UNCHANGED vars PROVE posts' = posts
  BY <1>7 DEF Tick, ForgetBundles, vars, server
<1> HIDE DEF x
<1>8. ASSUME NEW d \in Device, DeviceStep(d) PROVE BodyOK(r, x)
  <2>1. \/ \E u \in Account : SignIn(u, d) \/ Fetch(d, u) \/ Send(d, u)
        \/ Publish(d) \/ Upkeep(d) \/ Save(d) \/ Crash(d) \/ Reinstall(d)
        \/ \E q \in posts : StartOpen(d, q)
        \/ \E c \in opening[d] : Try(d, c) \/ Opened(d, c) \/ Failed(d, c)
    BY <1>8 DEF DeviceStep
  <2> QED  BY <1>1, <1>2, <1>3, <1>4, <1>5, <1>6, <2>1
<1>9. BodyOK(r, x)  BY <1>1, <1>7, <1>8 DEF Next
<1> QED  BY <1>0, <1>9 DEF x

-----------------------------------------------------------------------------
(* The invariant holds.                                                    *)

LEMMA InitInv == Init => Inv
<1> SUFFICES ASSUME Init PROVE Inv  OBVIOUS
<1>0. Block \in Nat /\ clock = 0 /\ clock \in Nat /\ None \notin Account
  BY HandshakeAssumption DEF Init, Block
<1>1. user \in [Device -> Account \cup {None}]
  <2>1. PICK s \in Scenario : user = s.users  BY DEF Init
  <2> QED  BY <2>1, HandshakeAssumption
<1>2. TypeInv  BY <1>0, <1>1 DEF Init, TypeInv
<1>3. ASSUME NEW d \in Device, user[d] # None
      PROVE  /\ MaterialOK(d, keys[d], minted[d]) /\ keys[d].ik # None /\ keys[d].spk \in Spk
             /\ keys[d].spk # None
             /\ stored[d] = [owner |-> user[d], material |-> keys[d]]
             /\ minted[d] = Block
  <2>1. minted[d] = Block /\ keys[d] = Selected(NewMaterial(d, 0))
        /\ stored[d] = [owner |-> user[d], material |-> keys[d]]
    BY <1>3 DEF Init
  <2>2. /\ MaterialOK(d, NewMaterial(d, 0), 0 + Block)
        /\ NewMaterial(d, 0).ik # None /\ NewMaterial(d, 0).spk \in Spk
    <3>1. 0 \in Nat  OBVIOUS
    <3> QED  BY <1>0, <3>1, NewMaterialOK
  <2>3. MaterialOK(d, NewMaterial(d, 0), Block)  BY <1>0, <2>2
  <2>4. MaterialOK(d, keys[d], Block) /\ SameKeys(keys[d], NewMaterial(d, 0))
    BY <2>1, <2>3, SelectedOK
  <2>5. keys[d].spk # None  BY <2>2, <2>4, HandshakeAssumption DEF SameKeys, Spk
  <2> QED  BY <2>1, <2>2, <2>4, <2>5 DEF SameKeys
<1>4. ASSUME NEW d \in Device PROVE DeviceInv(d)
  <2>1. CASE user[d] = None
    <3>1. keys[d] = Blank /\ stored[d] = None  BY <2>1 DEF Init
    <3> QED  BY <2>1, <3>1, BlankOK DEF DeviceInv
  <2>2. CASE user[d] # None
    <3> DEFINE m == keys[d]
    <3>1. /\ MaterialOK(d, m, minted[d]) /\ m.ik # None /\ m.spk \in Spk
          /\ stored[d] = [owner |-> user[d], material |-> m]
      BY <1>3, <2>2
    <3> HIDE DEF m
    <3>2. m.spk.id <= m.spk.id /\ SameKeys(m, m)  BY <3>1 DEF Spk, SameKeys
    <3>3. stored[d].material = m  BY <3>1
    <3>4. keys[d] = m  BY DEF m
    <3> QED  BY <3>1, <3>2, <3>3, <3>4 DEF DeviceInv
  <2> QED  BY <2>1, <2>2
<1>5. ASSUME NEW d \in Device, user[d] # None PROVE OfferOK(d, Bundle(keys[d]))
  <2> DEFINE m == keys[d]
  <2>1. MaterialOK(d, m, minted[d]) /\ m.ik # None /\ m.spk # None  BY <1>3, <1>5
  <2>2. minted[d] \in Nat  BY <1>2 DEF TypeInv
  <2> HIDE DEF m
  <2>3. IsOffer(d, Bundle(m), minted[d]) /\ \A k : SameKeys(k, m) => Keeps(k, Bundle(m), clock)
    BY <2>1, <2>2, BundleOK
  <2>4. SameKeys(m, m)  BY DEF SameKeys
  <2>5. stored[d].material = m
    <3>1. stored[d] = [owner |-> user[d], material |-> m]  BY <1>3, <1>5 DEF m
    <3> QED  BY <3>1
  <2> QED  BY <2>3, <2>4, <2>5 DEF OfferOK, m
<1>6. \A r \in Remote : published[r] # None => OfferOK(r[2], published[r])
  <2> SUFFICES ASSUME NEW r \in Remote, published[r] # None PROVE OfferOK(r[2], published[r])  OBVIOUS
  <2>1. r[1] \in Account /\ r[2] \in Device  BY DEF Remote
  <2>2. user[r[2]] = r[1] /\ published[r] = Bundle(keys[r[2]])  BY DEF Init
  <2> QED  BY <1>0, <1>5, <2>1, <2>2
<1>7. \A d, e \in Device : own[d][e] # None => OfferOK(e, own[d][e])
  <2> SUFFICES ASSUME NEW d \in Device, NEW e \in Device, own[d][e] # None PROVE OfferOK(e, own[d][e])
    OBVIOUS
  <2>1. user[d] # None /\ own[d][e] = published[<<user[d], e>>]  BY DEF Init
  <2>2. <<user[d], e>> \in Remote  BY <1>1, <2>1 DEF Remote
  <2> QED  BY <1>6, <2>1, <2>2
<1>8. \A d \in Device : \A r \in Remote : known[d][r] = None  BY DEF Init
<1>9. posts = {}  BY DEF Init
<1>10. OffersInv  BY <1>6, <1>7, <1>8, <1>9 DEF OffersInv
<1> QED  BY <1>2, <1>4, <1>10 DEF Inv

LEMMA NextInv == Inv /\ [Next]_vars => Inv'
<1> SUFFICES ASSUME Inv, [Next]_vars PROVE Inv'  OBVIOUS
<1>1. TypeInv' /\ \A e \in Device : Carries(e)  BY NextCarries DEF Inv
<1>2. \A d \in Device : DeviceInv(d)'  BY <1>1 DEF Carries
<1>3. \A r \in Remote : \A b : b = published'[r] /\ b # None => OfferOK(r[2], b)'
  BY <1>1, PublishedStep
<1>4. \A d \in Device : \A r \in Remote : \A b : b = known'[d][r] /\ b # None => OfferOK(r[2], b)'
  BY <1>1, KnownStep
<1>5. \A d, e \in Device : \A b : b = own'[d][e] /\ b # None => OfferOK(e, b)'
  BY <1>1, OwnStep
<1>6. \A p \in posts' : \A r \in DOMAIN p.bodies : p.bodies[r].x3dh # None =>
        /\ Matches(p.bodies[r])
        /\ \E d \in Device : r[2] = d
        /\ OfferOK(r[2], OfferOf(p.bodies[r]))'
  BY <1>1, PostsStep
<1>7. OffersInv'
  <2>1. (\A r \in Remote : published[r] # None => OfferOK(r[2], published[r]))'
    BY <1>3 DEF OfferOK
  <2>2. (\A d \in Device : \A r \in Remote : known[d][r] # None => OfferOK(r[2], known[d][r]))'
    BY <1>4 DEF OfferOK
  <2>3. (\A d, e \in Device : own[d][e] # None => OfferOK(e, own[d][e]))'
    BY <1>5 DEF OfferOK
  <2> QED  BY <1>6, <2>1, <2>2, <2>3 DEF OffersInv
<1> QED  BY <1>1, <1>2, <1>7 DEF Inv

(* The records of a device, among which an id is looked up. *)
LEMMA ByIdFacts ==
  ASSUME NEW S, \A j, k \in S : j.id = k.id => j = k, NEW k \in S
  PROVE  k.id \in Ids(S) /\ ById(S, k.id) = k
<1>1. k.id \in Ids(S)  BY DEF Ids
<1>2. ById(S, k.id) \in S /\ ById(S, k.id).id = k.id  BY DEF ById
<1> QED  BY <1>1, <1>2

LEMMA InvRightAnswer == Inv => RightAnswer
<1> SUFFICES ASSUME Inv, NEW d \in Device \ lossy, NEW b \in SentTo(d),
                    b.secret.to = keys[d].ik,
                    b.x3dh.spk.id >= keys[d].spk.id - HistoryMax,
                    clock - b.x3dh.spk.at <= HistoryAge,
                    b.x3dh.opk = None \/ b.secret.opk \in {k.key : k \in keys[d].opks}
             PROVE  Answered(keys[d], b.x3dh) = b.secret
  BY DEF RightAnswer
<1> DEFINE m == keys[d]
          x == b.x3dh
          o == OfferOf(b)
<1>1. b.x3dh # None /\ Matches(b) /\ OfferOK(d, o)
  <2>1. PICK p \in posts : \E r \in DOMAIN p.bodies : r[2] = d /\ b = p.bodies[r] /\ b.x3dh # None
    BY DEF SentTo
  <2> QED  BY <2>1 DEF Inv, OffersInv
<1>2. IsOffer(d, o, minted[d]) /\ Keeps(m, o, clock)  BY <1>1 DEF OfferOK
<1>3. MaterialOK(d, m, minted[d])  BY DEF Inv, DeviceInv
<1>4. /\ o.ik = b.secret.to /\ o.spk = x.spk
      /\ o.opk = IF x.opk = None THEN None ELSE [id |-> x.opk, key |-> b.secret.opk]
  BY DEF OfferOf
<1>5. /\ m.ik = b.secret.to
      /\ ~ (x.spk.id < m.spk.id - HistoryMax) /\ ~ (clock - x.spk.at > HistoryAge)
  <2>1. x.spk \in Spk  BY <1>2, <1>4 DEF IsOffer
  <2>2. m.spk \in Spk  BY <1>2, <1>4 DEF Keeps
  <2>3. x.spk.id \in Nat /\ x.spk.at \in Nat /\ m.spk.id \in Nat  BY <2>1, <2>2 DEF Spk
  <2>4. clock \in Nat /\ HistoryMax \in Nat /\ HistoryAge \in Nat
    BY HandshakeAssumption DEF Inv, TypeInv
  <2>5. x.spk.id >= m.spk.id - HistoryMax /\ clock - x.spk.at <= HistoryAge  OBVIOUS
  <2> HIDE DEF x, m
  <2>6. ~ (x.spk.id < m.spk.id - HistoryMax) /\ ~ (clock - x.spk.at > HistoryAge)
    BY <2>3, <2>4, <2>5
  <2> QED  BY <2>6 DEF m
<1>6. b.x3dh.opk = None \/ b.secret.opk \in {k.key : k \in m.opks}  OBVIOUS
<1> HIDE DEF m, x, o
<1>7. SignedById(m, x.spk.id) = x.spk
  <2>1. /\ m.spk \in Spk /\ x.spk \in Spk /\ x.spk.id <= m.spk.id
        /\ x.spk.id = m.spk.id => x.spk = m.spk
        /\ x.spk.id < m.spk.id => x.spk \in m.history
    BY <1>2, <1>4, <1>5 DEF Keeps, IsOffer
  <2>2. CASE x.spk.id = m.spk.id  BY <2>1, <2>2 DEF SignedById
  <2>3. CASE x.spk.id # m.spk.id
    <3>1. x.spk.id < m.spk.id
      <4>1. x.spk.id \in Nat /\ m.spk.id \in Nat  BY <2>1 DEF Spk
      <4> QED  BY <2>1, <2>3, <4>1
    <3>2. x.spk \in m.history /\ \A j, k \in m.history : j.id = k.id => j = k
      BY <1>3, <2>1, <3>1 DEF MaterialOK
    <3>3. x.spk.id \in Ids(m.history) /\ ById(m.history, x.spk.id) = x.spk  BY <3>2, ByIdFacts
    <3> QED  BY <2>3, <3>3 DEF SignedById
  <2> QED  BY <2>2, <2>3
<1>8. (IF x.opk \in Ids(m.opks) THEN ById(m.opks, x.opk).key ELSE None)
        = IF x.opk = None THEN None ELSE b.secret.opk
  <2>1. \A k \in m.opks : k.id \in Nat  BY <1>3, MaterialFields
  <2>2. CASE x.opk = None
    <3>1. x.opk \notin Ids(m.opks)  BY <2>1, <2>2, HandshakeAssumption DEF Ids
    <3> QED  BY <2>2, <3>1
  <2>3. CASE x.opk # None
    <3>1. o.opk # None /\ o.opk.id = x.opk /\ o.opk.key = b.secret.opk
      <4>1. o.opk = [id |-> x.opk, key |-> b.secret.opk] /\ o.opk \in Record
        BY <1>1, <1>4, <2>3 DEF Matches, x
      <4> QED  BY <4>1, HandshakeAssumption DEF Record
    <3>2. PICK k \in m.opks : k.key = b.secret.opk  BY <1>6, <2>3 DEF x
    <3>3. k.id = x.opk  BY <1>2, <1>4, <1>5, <3>1, <3>2 DEF Keeps
    <3>4. \A i, j \in m.opks : i.id = j.id => i = j  BY <1>3 DEF MaterialOK
    <3>5. x.opk \in Ids(m.opks) /\ ById(m.opks, x.opk) = k  BY <3>3, <3>4, ByIdFacts
    <3> QED  BY <2>3, <3>2, <3>5
  <2> QED  BY <2>2, <2>3
<1>9. Answered(m, x) = [base |-> x.base, from |-> x.from, to |-> b.secret.to, spk |-> x.spk.key,
                        opk |-> IF x.opk = None THEN None ELSE b.secret.opk]
  BY <1>5, <1>7, <1>8 DEF Answered
<1>10. Answered(m, x) = b.secret  BY <1>1, <1>9 DEF Matches, x
<1> QED  BY <1>10 DEF m, x

-----------------------------------------------------------------------------
(* The theorems.                                                           *)

(* What a device calls its one-time prekeys and its old signed prekeys by id never names two keys: *)
(* the ids come off a counter that no rotation, replenishing, restart or torn write of the store   *)
(* takes back (prekey.ts, nextOpkKeyId and rotateSignedPreKey).                                    *)
THEOREM IdsStayUnique == Spec => []IdsNameOneKey
<1>1. Inv => IdsNameOneKey
  <2> SUFFICES ASSUME Inv, NEW d \in Device
               PROVE  /\ \A j, k \in keys[d].opks : j.id = k.id => j = k
                      /\ \A k \in keys[d].opks : k.id < keys[d].next
                      /\ \A k \in keys[d].history : k.id < keys[d].spk.id
    BY DEF IdsNameOneKey
  <2>1. MaterialOK(d, keys[d], minted[d])  BY DEF Inv, DeviceInv
  <2> QED  BY <2>1 DEF MaterialOK
<1> QED  BY <1>1, InitInv, NextInv, PTL DEF Spec

(* Whatever was rotated, replenished, saved, lost or reinstalled since, a handshake is answered with *)
(* the secret it was sealed under while its signed prekey is in the retention window and its         *)
(* one-time prekey is unspent, on a device that lost no unsaved keys (x3dh.ts, x3dhRespond;          *)
(* prekey.ts, getSignedPreKeyById).                                                                  *)
THEOREM RightlyAnswered == Spec => []RightAnswer
<1> QED  BY InitInv, NextInv, InvRightAnswer, PTL DEF Spec
=============================================================================
