---------------------------- MODULE ServerProofs ----------------------------
(***************************************************************************)
(* What is proved of the two machines of the server that decide who may be *)
(* there: of Registration, its types, that no ceiling is passed, that one  *)
(* proof buys one account and that nicknames are unique, for any number of *)
(* attempts, devices, addresses, challenges and ticks; of Connections, its *)
(* types, its registry of sockets and its cap of devices, for any number   *)
(* of sockets, accounts, devices and calls in bcrypt, and any caps.        *)
(*                                                                         *)
(* The ceilings rest on the lock, and the lock on an order nobody writes   *)
(* down: each attempt holds promises of some that came before it, never of *)
(* all of them.  QueueInv says that such an order exists, and Ahead draws  *)
(* from it that of two attempts on one subject one still waits.            *)
(***************************************************************************)
EXTENDS Connections, Registration, FiniteSetTheorems, FunctionTheorems, WellFoundedInduction, TLAPS

-----------------------------------------------------------------------------
(* Tables that drop their oldest entries.                                  *)

LEMMA LeastExists ==
  ASSUME NEW T, T \subseteq Nat, T # {}
  PROVE  \E x \in T : \A y \in T : x <= y
<1> DEFINE R == OpToRel(<, Nat)
<1>1. \A x, y \in Nat : x < y => <<x, y>> \in R  BY Zenon DEF OpToRel
<1>2. IsWellFoundedOn(R, Nat)  BY NatLessThanWellFounded
<1> HIDE DEF R
<1>3. PICK x \in T : \A y \in T : ~ (<<y, x>> \in R)  BY <1>2, WFMin
<1>4. \A y \in T : ~(y < x)  BY <1>1, <1>3
<1> QED  BY <1>3, <1>4

LEMMA NewestBounded ==
  ASSUME NEW S, NEW n \in Nat, IsFiniteSet(S), \A c \in S : c.id \in Nat,
         \A c, d \in S : c.id = d.id => c = d
  PROVE  /\ Newest(S, n) \subseteq S
         /\ IsFiniteSet(Newest(S, n))
         /\ Cardinality(Newest(S, n)) <= n
<1> DEFINE N == Newest(S, n)
<1>1. N \subseteq S /\ IsFiniteSet(N)  BY FS_Subset DEF Newest
<1>2. CASE N = {}
  <2>1. Cardinality({}) = 0  BY FS_EmptySet
  <2> QED  BY <1>1, <1>2, <2>1
<1>3. CASE N # {}
  <2> DEFINE Ids == {c.id : c \in N}
  <2>1. Ids \subseteq Nat  BY <1>1
  <2>2. PICK e \in N : TRUE  BY <1>3
  <2>3. e.id \in Ids  BY <2>2
  <2>4. PICK i \in Ids : \A j \in Ids : i <= j  BY <2>1, <2>3, LeastExists
  <2>5. PICK c \in N : c.id = i  BY <2>4
  <2> DEFINE Later == {b \in S : b.id > c.id}
  <2>6. N \ {c} \subseteq Later
    <3> SUFFICES ASSUME NEW b \in N, b # c PROVE b.id > c.id  BY <1>1
    <3>1. b.id \in Ids /\ c.id <= b.id /\ b.id # c.id /\ b.id \in Nat /\ c.id \in Nat
      BY <1>1, <2>4, <2>5
    <3> QED  BY <3>1
  <2>7. IsFiniteSet(Later)  BY FS_Subset
  <2>8. Cardinality(Later) < n  BY <2>5 DEF Newest
  <2>9. Cardinality(N \ {c}) <= Cardinality(Later)  BY <2>6, <2>7, FS_Subset
  <2>10. Cardinality(N \ {c}) = Cardinality(N) - 1  BY <1>1, <2>5, FS_RemoveElement
  <2>11. Cardinality(N) \in Nat /\ Cardinality(Later) \in Nat
    BY <1>1, <2>7, FS_CardinalityType
  <2> QED  BY <1>1, <2>8, <2>9, <2>10, <2>11
<1> QED  BY <1>2, <1>3

-----------------------------------------------------------------------------
(* Types.                                                                  *)

Queued(a) == state[a] \in {"waiting", "hashing"}

ChallengeInv ==
  /\ IsFiniteSet(challenges)
  /\ \A c \in challenges : c.id <= issued
  /\ \A c, d \in challenges : c.id = d.id => c = d

AskedInv ==
  \A a \in Attempt :
    /\ state[a] = "new" => request[a] = None
    /\ state[a] # "new" => request[a] \in Request

TypeInv == RegTypeOK /\ ChallengeInv /\ AskedInv

LEMMA SubjectsType ==
  ASSUME NEW r \in Request
  PROVE  Subjects(r) \subseteq Subject /\ IsFiniteSet(Subjects(r))
<1>1. <<"device", r.device>> \in Subject /\ <<"ip", r.address>> \in Subject
  BY DEF Request, Subject
<1>2. IsFiniteSet({<<"device", r.device>>} \cup {<<"ip", r.address>>})
  <2>1. \A x : IsFiniteSet({x})  BY FS_Singleton
  <2> QED  BY <2>1, FS_Union
<1>3. Subjects(r) = {<<"device", r.device>>} \cup {<<"ip", r.address>>}  BY DEF Subjects
<1> QED  BY <1>1, <1>2, <1>3

LEMMA TypeInit == RegInit => TypeInv
<1> SUFFICES ASSUME RegInit PROVE TypeInv  OBVIOUS
<1>1. IsFiniteSet({}) /\ Cardinality({}) = 0  BY FS_EmptySet
<1>2. RegTypeOK  BY <1>1, RegistrationAssumption DEF RegInit, RegTypeOK, State
<1>3. ChallengeInv  BY <1>1 DEF RegInit, ChallengeInv
<1>4. AskedInv  BY DEF RegInit, AskedInv, Queued
<1> QED  BY <1>2, <1>3, <1>4 DEF TypeInv

LEMMA TypeAsk == TypeInv /\ Ask => TypeInv'
<1> SUFFICES ASSUME TypeInv, Ask PROVE TypeInv'  OBVIOUS
<1> DEFINE new == [id |-> issued + 1, at |-> clock, solved |-> FALSE]
<1>1. /\ issued < MaxIssued /\ issued' = issued + 1
      /\ challenges' = Pruned \cup {new}
      /\ UNCHANGED <<state, request, waitsFor, locks, users, events, clock>>
  BY DEF Ask
<1>2. issued \in Nat /\ clock \in Nat /\ MaxIssued \in Nat /\ MaxChallenges - 1 \in Nat
      /\ MaxChallenges \in Nat
  BY RegistrationAssumption DEF TypeInv, RegTypeOK
<1>3. new \in Challenge /\ new.id = issued + 1  BY <1>1, <1>2 DEF Challenge
<1> DEFINE left == {c \in challenges : Fresh(c)}
<1>4. \A c \in challenges : c \in Challenge /\ c.id \in Nat /\ c.id <= issued
  BY DEF TypeInv, RegTypeOK, ChallengeInv, Challenge
<1>5. IsFiniteSet(left) /\ left \subseteq challenges
  BY FS_Subset DEF TypeInv, ChallengeInv
<1>6. \A c, d \in challenges : c.id = d.id => c = d  BY DEF TypeInv, ChallengeInv
<1>7. /\ Pruned \subseteq left /\ IsFiniteSet(Pruned)
      /\ Cardinality(Pruned) <= MaxChallenges - 1
  <2>1. Pruned = Newest(left, MaxChallenges - 1)  BY DEF Pruned
  <2> HIDE DEF left
  <2> QED  BY <1>2, <1>4, <1>5, <1>6, <2>1, NewestBounded
<1> HIDE DEF left, new
<1>8. IsFiniteSet(challenges') /\ Cardinality(challenges') <= MaxChallenges
  <2>1. Cardinality(Pruned) \in Nat  BY <1>7, FS_CardinalityType
  <2>2. /\ IsFiniteSet(challenges')
        /\ \/ Cardinality(challenges') = Cardinality(Pruned)
           \/ Cardinality(challenges') = Cardinality(Pruned) + 1
    BY <1>1, <1>7, FS_AddElement
  <2> QED  BY <1>2, <1>7, <2>1, <2>2
<1>9. challenges' \subseteq Challenge  BY <1>1, <1>3, <1>4, <1>5, <1>7
<1>10. issued' \in 0..MaxIssued  BY <1>1, <1>2
<1>11. RegTypeOK'  BY <1>1, <1>8, <1>9, <1>10 DEF TypeInv, RegTypeOK
<1>12. ChallengeInv'
  <2>1. \A c \in challenges' : c = new \/ c \in challenges  BY <1>1, <1>5, <1>7
  <2>2. \A c \in challenges : c.id # new.id  BY <1>2, <1>3, <1>4
  <2>3. \A c \in challenges' : c.id <= issued'  BY <1>1, <1>2, <1>3, <1>4, <2>1
  <2> QED  BY <1>6, <1>8, <2>1, <2>2, <2>3 DEF ChallengeInv
<1>13. AskedInv'  BY <1>1 DEF TypeInv, AskedInv, Queued
<1> QED  BY <1>11, <1>12, <1>13 DEF TypeInv

LEMMA TypeFrame ==
  ASSUME TypeInv, NEW a \in Attempt, Frame(a)
  PROVE  TypeInv'
<1>1. PICK c \in challenges, r \in Request :
        /\ challenges' = Spent(c)
        /\ request' = [request EXCEPT ![a] = r]
        /\ IF Taken(r.name)
           THEN /\ state' = [state EXCEPT ![a] = "over"]
                /\ UNCHANGED <<locks, waitsFor>>
           ELSE /\ state' = [state EXCEPT ![a] = "waiting"]
                /\ waitsFor' = [waitsFor EXCEPT ![a] = Tails(r)]
                /\ locks' = [j \in Subject |-> IF j \in Subjects(r) THEN a ELSE locks[j]]
  BY DEF Frame
<1> DEFINE spent == [c EXCEPT !.solved = TRUE]
<1>2. UNCHANGED <<issued, users, events, clock>> /\ state[a] = "new"  BY DEF Frame
<1>3. c \in Challenge /\ c.id \in 1..MaxIssued /\ c.id <= issued
  BY DEF TypeInv, RegTypeOK, ChallengeInv, Challenge
<1>5. spent \in Challenge /\ spent.id = c.id  BY <1>3 DEF Challenge
<1>6. challenges' = (challenges \ {c}) \cup {spent}  BY <1>1 DEF Spent
<1> HIDE DEF spent
<1>7. Tails(r) \subseteq Attempt
  BY SubjectsType DEF Tails, TypeInv, RegTypeOK
<1>8. /\ state' \in [Attempt -> State]
      /\ request' \in [Attempt -> Request \cup {None}]
      /\ waitsFor' \in [Attempt -> SUBSET Attempt]
      /\ locks' \in [Subject -> Attempt \cup {None}]
  BY <1>1, <1>7 DEF TypeInv, RegTypeOK, State
<1>9. IsFiniteSet(challenges') /\ Cardinality(challenges') <= MaxChallenges
  <2>1. IsFiniteSet(challenges) /\ Cardinality(challenges) <= MaxChallenges
        /\ Cardinality(challenges) \in Nat /\ MaxChallenges \in Nat
    BY FS_CardinalityType, RegistrationAssumption DEF TypeInv, RegTypeOK, ChallengeInv
  <2>2. IsFiniteSet(challenges \ {c})
        /\ Cardinality(challenges \ {c}) = Cardinality(challenges) - 1
    BY <2>1, FS_RemoveElement
  <2>3. /\ IsFiniteSet(challenges')
        /\ \/ Cardinality(challenges') = Cardinality(challenges \ {c})
           \/ Cardinality(challenges') = Cardinality(challenges \ {c}) + 1
    BY <1>6, <2>2, FS_AddElement
  <2> QED  BY <2>1, <2>2, <2>3
<1>10. challenges' \subseteq Challenge  BY <1>5, <1>6 DEF TypeInv, RegTypeOK
<1>11. RegTypeOK'  BY <1>2, <1>8, <1>9, <1>10 DEF TypeInv, RegTypeOK
<1>12. ChallengeInv'
  <2>1. \A x \in challenges' : x.id <= issued  BY <1>3, <1>5, <1>6 DEF TypeInv, ChallengeInv
  <2>2. \A x, y \in challenges' : x.id = y.id => x = y
    BY <1>5, <1>6 DEF TypeInv, ChallengeInv
  <2> QED  BY <1>2, <1>9, <2>1, <2>2 DEF ChallengeInv
<1>13. AskedInv'
  <2> SUFFICES ASSUME NEW b \in Attempt
               PROVE  /\ state'[b] = "new" => request'[b] = None
                      /\ state'[b] # "new" => request'[b] \in Request
    BY DEF AskedInv
  <2>1. CASE b = a  BY <1>1, <2>1 DEF TypeInv, RegTypeOK
  <2>2. CASE b # a
    <3>1. state'[b] = state[b] /\ request'[b] = request[b]
      BY <1>1, <2>2 DEF TypeInv, RegTypeOK
    <3> QED  BY <3>1 DEF TypeInv, AskedInv, Queued
  <2> QED  BY <2>1, <2>2
<1> QED  BY <1>11, <1>12, <1>13 DEF TypeInv

(* What the steps behind the lock have in common. *)
LEMMA TypeTurn ==
  ASSUME TypeInv, NEW a \in Attempt, Queued(a),
         state' \in {[state EXCEPT ![a] = "hashing"], [state EXCEPT ![a] = "over"]},
         UNCHANGED <<request, challenges, issued, clock>>,
         UNCHANGED <<locks, waitsFor>> \/ Answered(a),
         users' \subseteq UserRow, events' \subseteq Event
  PROVE  TypeInv'
<1>1. state' \in [Attempt -> State]  BY DEF TypeInv, RegTypeOK, State
<1>2. waitsFor' \in [Attempt -> SUBSET Attempt]  BY DEF TypeInv, RegTypeOK, Answered
<1>3. locks' \in [Subject -> Attempt \cup {None}]
  BY DEF TypeInv, RegTypeOK, Answered, Freed
<1>4. RegTypeOK'  BY <1>1, <1>2, <1>3 DEF TypeInv, RegTypeOK
<1>5. ChallengeInv'  BY DEF TypeInv, ChallengeInv
<1>6. AskedInv'  BY DEF TypeInv, RegTypeOK, AskedInv, Queued
<1> QED  BY <1>4, <1>5, <1>6 DEF TypeInv

LEMMA ChargedForType ==
  ASSUME TypeInv, NEW a \in Attempt, Queued(a)
  PROVE  ChargedFor(a) \subseteq Event
<1>1. request[a] \in Request  BY DEF TypeInv, AskedInv, Queued
<1>2. Subjects(request[a]) \subseteq Subject  BY <1>1, SubjectsType
<1> QED  BY <1>2 DEF ChargedFor, Event, TypeInv, RegTypeOK

LEMMA TypeNext == TypeInv /\ [RegNext]_regVars => TypeInv'
<1> SUFFICES ASSUME TypeInv, [RegNext]_regVars PROVE TypeInv'  OBVIOUS
<1>1. CASE Ask  BY <1>1, TypeAsk
<1>2. ASSUME NEW a \in Attempt, Frame(a) PROVE TypeInv'  BY <1>2, TypeFrame
<1>3. ASSUME NEW a \in Attempt, Begin(a) PROVE TypeInv'
  <2>1. Queued(a)  BY <1>3 DEF Begin, MyTurn, Queued
  <2> QED  BY <1>3, <2>1, TypeTurn DEF Begin, TypeInv, RegTypeOK
<1>4. ASSUME NEW a \in Attempt, Refuse(a) PROVE TypeInv'
  <2>1. Queued(a)  BY <1>4 DEF Refuse, MyTurn, Queued
  <2> QED  BY <1>4, <2>1, TypeTurn DEF Refuse, TypeInv, RegTypeOK
<1>5. ASSUME NEW a \in Attempt, Create(a) PROVE TypeInv'
  <2>1. Queued(a)  BY <1>5 DEF Create, Queued
  <2>2. request[a] \in Request  BY <2>1 DEF TypeInv, AskedInv, Queued
  <2>3. users' \subseteq UserRow
    <3>1. request[a].name \in Nickname  BY <2>2 DEF Request
    <3>2. [id |-> a, name |-> request[a].name, at |-> clock, request |-> request[a]] \in UserRow
      BY <2>2, <3>1 DEF UserRow, TypeInv, RegTypeOK
    <3> QED  BY <1>5, <3>2 DEF Create, TypeInv, RegTypeOK
  <2>4. events' \subseteq Event  BY <1>5, <2>1, ChargedForType DEF Create
  <2> QED  BY <1>5, <2>1, <2>3, <2>4, TypeTurn DEF Create
<1>6. ASSUME NEW a \in Attempt, Lost(a) PROVE TypeInv'
  <2>1. Queued(a)  BY <1>6 DEF Lost, Queued
  <2> QED  BY <1>6, <2>1, TypeTurn DEF Lost, TypeInv, RegTypeOK
<1>7. CASE RegTick
  BY <1>7 DEF RegTick, TypeInv, RegTypeOK, ChallengeInv, AskedInv, Queued
<1>8. CASE RegRestart
  <2>1. challenges' = {} /\ IsFiniteSet({}) /\ Cardinality({}) = 0 /\ 0 <= MaxChallenges
    BY <1>8, FS_EmptySet, RegistrationAssumption DEF RegRestart
  <2>2. RegTypeOK'  BY <1>8, <2>1 DEF RegRestart, TypeInv, RegTypeOK, State
  <2>3. ChallengeInv'  BY <2>1 DEF ChallengeInv
  <2>4. AskedInv'  BY <1>8 DEF RegRestart, TypeInv, AskedInv, Queued
  <2> QED  BY <2>2, <2>3, <2>4 DEF TypeInv
<1>9. CASE UNCHANGED regVars
  BY <1>9 DEF regVars, TypeInv, RegTypeOK, ChallengeInv, AskedInv, Queued
<1> QED  BY <1>1, <1>2, <1>3, <1>4, <1>5, <1>6, <1>7, <1>8, <1>9 DEF RegNext

LEMMA Typed == RegSpec => []TypeInv
<1> QED  BY TypeInit, TypeNext, PTL DEF RegSpec

(* Every variable holds what the declarations allow, and the table of      *)
(* challenges never outgrows its bound (prunePowChallenges).               *)
THEOREM RegTypeCorrect == RegSpec => []RegTypeOK
<1>1. TypeInv => RegTypeOK  BY DEF TypeInv
<1> QED  BY <1>1, Typed, PTL

-----------------------------------------------------------------------------
(* One proof, one account.                                                 *)

(* A row says who wrote it and for which request. *)
RowsInv ==
  \A u \in users :
    /\ state[u.id] = "over"
    /\ u.request = request[u.id]
    /\ \A v \in users : u.id = v.id => u = v

ProofInv ==
  /\ \A a \in Attempt : request[a] # None =>
       /\ request[a].proof <= issued
       /\ \A c \in challenges : ~c.solved => c.id # request[a].proof
  /\ \A a, b \in Attempt :
       /\ request[a] # None
       /\ request[b] # None
       /\ request[a].proof = request[b].proof
       => a = b

LEMMA RowsNext == TypeInv /\ RowsInv /\ [RegNext]_regVars => RowsInv'
<1> SUFFICES ASSUME TypeInv, RowsInv, [RegNext]_regVars PROVE RowsInv'  OBVIOUS
<1>1. \A u \in users : u.id \in Attempt  BY DEF TypeInv, RegTypeOK, UserRow
<1>2. ASSUME NEW a \in Attempt, Create(a) PROVE RowsInv'
  <2> DEFINE row == [id |-> a, name |-> request[a].name, at |-> clock, request |-> request[a]]
  <2>1. users' = users \cup {row} /\ request' = request
        /\ state' = [state EXCEPT ![a] = "over"] /\ state[a] = "hashing"
    BY <1>2 DEF Create
  <2>2. row.id = a /\ row.request = request[a]  OBVIOUS
  <2> HIDE DEF row
  <2>3. \A u \in users : u.id # a  BY <2>1 DEF RowsInv
  <2>4. \A u \in users' : state'[u.id] = "over" /\ u.request = request'[u.id]
    BY <1>1, <2>1, <2>2 DEF RowsInv, TypeInv, RegTypeOK
  <2>5. \A u, v \in users' : u.id = v.id => u = v  BY <2>1, <2>2, <2>3 DEF RowsInv
  <2> QED  BY <2>4, <2>5 DEF RowsInv
<1>3. CASE users' = users /\ \A u \in users : state'[u.id] = state[u.id]
                                            /\ request'[u.id] = request[u.id]
  BY <1>3 DEF RowsInv
<1>4. ASSUME NEW a \in Attempt, Frame(a) \/ Begin(a) \/ Refuse(a) \/ Lost(a)
      PROVE  RowsInv'
  <2>1. state[a] # "over" /\ users' = users
    BY <1>4 DEF Frame, Begin, Refuse, Lost, MyTurn
  <2>2. \A b \in Attempt \ {a} : state'[b] = state[b] /\ request'[b] = request[b]
    BY <1>4 DEF Frame, Begin, Refuse, Lost, TypeInv, RegTypeOK
  <2> QED  BY <1>1, <1>3, <2>1, <2>2 DEF RowsInv
<1>5. CASE Ask \/ RegTick \/ UNCHANGED regVars  BY <1>3, <1>5 DEF Ask, RegTick, regVars
<1>6. CASE RegRestart  BY <1>1, <1>6 DEF RegRestart, RowsInv
<1> QED  BY <1>2, <1>4, <1>5, <1>6 DEF RegNext

LEMMA ProofNext == TypeInv /\ ProofInv /\ [RegNext]_regVars => ProofInv'
<1> SUFFICES ASSUME TypeInv, ProofInv, [RegNext]_regVars PROVE ProofInv'  OBVIOUS
<1>1. ASSUME NEW a \in Attempt, Frame(a) PROVE ProofInv'
  <2>1. PICK c \in challenges, r \in Request :
          r.proof = c.id /\ ~c.solved /\ challenges' = Spent(c)
          /\ request' = [request EXCEPT ![a] = r]
    BY <1>1 DEF Frame, CheckPow
  <2>2. \A x \in challenges' : x.solved \/ (x \in challenges /\ x.id # c.id)
    <3> DEFINE spent == [c EXCEPT !.solved = TRUE]
    <3>1. c \in Challenge  BY DEF TypeInv, RegTypeOK
    <3>2. spent.solved  BY <3>1 DEF Challenge
    <3>3. \A x \in challenges : x.id = c.id => x = c  BY DEF TypeInv, ChallengeInv
    <3>4. challenges' = (challenges \ {c}) \cup {spent}  BY <2>1 DEF Spent
    <3> HIDE DEF spent
    <3> SUFFICES ASSUME NEW x \in challenges'
                 PROVE  x.solved \/ (x \in challenges /\ x.id # c.id)
      OBVIOUS
    <3>5. x = spent \/ (x \in challenges /\ x # c)  BY <3>4
    <3> QED  BY <3>2, <3>3, <3>5
  <2>3. issued' = issued /\ c.id <= issued  BY <1>1 DEF Frame, TypeInv, ChallengeInv
  <2>4. \A b \in Attempt : request'[b] = IF b = a THEN r ELSE request[b]
    BY <2>1 DEF TypeInv, RegTypeOK
  <2>5. \A b \in Attempt : request[b] # None => request[b].proof # c.id
    BY <2>1 DEF ProofInv
  <2>6. \A b \in Attempt : request'[b] # None =>
          /\ request'[b].proof <= issued'
          /\ \A x \in challenges' : ~x.solved => x.id # request'[b].proof
    BY <2>1, <2>2, <2>3, <2>4 DEF ProofInv
  <2>7. \A b, d \in Attempt :
          /\ request'[b] # None
          /\ request'[d] # None
          /\ request'[b].proof = request'[d].proof
          => b = d
    BY <2>1, <2>4, <2>5 DEF ProofInv
  <2> QED  BY <2>6, <2>7 DEF ProofInv
<1>2. CASE Ask
  <2>1. issued \in Nat /\ issued' = issued + 1 /\ request' = request
    BY <1>2 DEF Ask, TypeInv, RegTypeOK
  <2>2. \A c \in challenges' : c \in challenges \/ c.id = issued + 1
    BY <1>2 DEF Ask, Pruned, Newest
  <2>3. \A a \in Attempt : request[a] # None =>
          request[a].proof \in Nat /\ request[a].proof <= issued
    BY DEF ProofInv, TypeInv, RegTypeOK, Request
  <2> QED  BY <2>1, <2>2, <2>3 DEF ProofInv
<1>3. ASSUME challenges' \subseteq challenges, UNCHANGED <<request, issued>>
      PROVE  ProofInv'
  BY <1>3 DEF ProofInv
<1>4. CASE RegTick \/ RegRestart \/ UNCHANGED regVars
  BY <1>3, <1>4 DEF RegTick, RegRestart, regVars
<1>5. ASSUME NEW a \in Attempt, Begin(a) \/ Refuse(a) \/ Create(a) \/ Lost(a)
      PROVE  ProofInv'
  BY <1>3, <1>5 DEF Begin, Refuse, Create, Lost
<1> QED  BY <1>1, <1>2, <1>4, <1>5 DEF RegNext

(* One search buys at most one account (powChallenges, entry.solved).      *)
THEOREM OneProofOneAccount == RegSpec => []ProofsBuyOneAccount
<1> DEFINE Inv == TypeInv /\ RowsInv /\ ProofInv
<1>1. RegInit => Inv  BY TypeInit DEF RegInit, RowsInv, ProofInv
<1>2. Inv /\ [RegNext]_regVars => Inv'  BY TypeNext, RowsNext, ProofNext
<1>3. Inv => ProofsBuyOneAccount
  <2> SUFFICES ASSUME Inv, NEW u \in users, NEW v \in users, u.request.proof = v.request.proof
               PROVE  u = v
    BY DEF ProofsBuyOneAccount
  <2>1. u.id \in Attempt /\ v.id \in Attempt /\ u.request \in Request /\ v.request \in Request
    BY DEF TypeInv, RegTypeOK, UserRow
  <2>2. u.id = v.id  BY <2>1, RequestAssumption DEF RowsInv, ProofInv
  <2> QED  BY <2>2 DEF RowsInv
<1> HIDE DEF Inv
<1> QED  BY <1>1, <1>2, <1>3, PTL DEF RegSpec

(* Two accounts never share a nickname, in whatever capitals and however   *)
(* long bcrypt took (the index on lower(nickname) is asked last).          *)
THEOREM NamesUnique == RegSpec => []NamesAreUnique
<1>1. RegInit => NamesAreUnique  BY DEF RegInit, NamesAreUnique
<1>2. NamesAreUnique /\ [RegNext]_regVars => NamesAreUnique'
  <2> SUFFICES ASSUME NamesAreUnique, [RegNext]_regVars PROVE NamesAreUnique'  OBVIOUS
  <2>1. ASSUME NEW a \in Attempt, Create(a) PROVE NamesAreUnique'
    BY <2>1 DEF Create, StillFree, Taken, NamesAreUnique
  <2>2. ASSUME users' = users PROVE NamesAreUnique'  BY <2>2 DEF NamesAreUnique
  <2> QED
    BY <2>1, <2>2 DEF RegNext, Ask, Frame, Begin, Refuse, Lost, RegTick, RegRestart, regVars
<1> QED  BY <1>1, <1>2, PTL DEF RegSpec

-----------------------------------------------------------------------------
(* The lock.                                                               *)

Asks(a, j) == Queued(a) /\ j \in Subjects(request[a])

(* The order of arrival: the promises an attempt waits for leave no gap    *)
(* between it and those ahead of it, and the last to arrive is the tail.   *)
InOrder(rank, n) ==
  /\ \A a \in Attempt : Queued(a) => rank[a] < n
  /\ \A j \in Subject : \A a, b \in Attempt :
       Asks(a, j) /\ Asks(b, j) =>
         /\ rank[a] = rank[b] => a = b
         /\ rank[a] < rank[b] =>
              \E c \in waitsFor[b] : Asks(c, j) /\ rank[a] <= rank[c] /\ rank[c] < rank[b]
  /\ \A j \in Subject : \A a \in Attempt :
       Asks(a, j) => \E c \in Attempt : locks[j] = c /\ Asks(c, j) /\ rank[a] <= rank[c]

QueueInv ==
  /\ \E n \in Nat : \E rank \in [Attempt -> Nat] : InOrder(rank, n)
  /\ \A a \in Attempt : state[a] = "hashing" => waitsFor[a] = {}

(* Who waits for nobody is alone at the head of each of its queues. *)
LEMMA Ahead ==
  ASSUME QueueInv, NEW a \in Attempt, NEW b \in Attempt, NEW j \in Subject,
         Asks(a, j), Asks(b, j), a # b, waitsFor[a] = {}
  PROVE  waitsFor[b] # {}
<1>1. PICK n \in Nat, rank \in [Attempt -> Nat] : InOrder(rank, n)  BY DEF QueueInv
<1>2. rank[a] \in Nat /\ rank[b] \in Nat  OBVIOUS
<1>3. rank[a] # rank[b] /\ ~(rank[b] < rank[a])  BY <1>1 DEF InOrder
<1>4. rank[a] < rank[b]  BY <1>2, <1>3
<1> QED  BY <1>1, <1>4 DEF InOrder

LEMMA QueueFrame ==
  ASSUME TypeInv, QueueInv, NEW a \in Attempt, Frame(a)
  PROVE  QueueInv'
<1>1. PICK c \in challenges, r \in Request :
        /\ request' = [request EXCEPT ![a] = r]
        /\ IF Taken(r.name)
           THEN /\ state' = [state EXCEPT ![a] = "over"]
                /\ UNCHANGED <<locks, waitsFor>>
           ELSE /\ state' = [state EXCEPT ![a] = "waiting"]
                /\ waitsFor' = [waitsFor EXCEPT ![a] = Tails(r)]
                /\ locks' = [j \in Subject |-> IF j \in Subjects(r) THEN a ELSE locks[j]]
  BY DEF Frame
<1>2. state[a] = "new" /\ ~Queued(a)  BY DEF Frame, Queued
<1>3. \A b \in Attempt \ {a} : state'[b] = state[b] /\ request'[b] = request[b]
  BY <1>1 DEF TypeInv, RegTypeOK
<1>4. \A b \in Attempt \ {a} : (Queued(b)' <=> Queued(b)) /\ \A j : Asks(b, j)' <=> Asks(b, j)
  BY <1>3 DEF Queued, Asks
<1>5. PICK n \in Nat, rank \in [Attempt -> Nat] : InOrder(rank, n)  BY DEF QueueInv
<1>6. CASE Taken(r.name)
  <2>1. UNCHANGED <<locks, waitsFor>> /\ state'[a] = "over"
    BY <1>1, <1>6 DEF TypeInv, RegTypeOK
  <2>2. ~Queued(a)' /\ \A j : ~Asks(a, j)'  BY <2>1 DEF Queued, Asks
  <2>3. InOrder(rank, n)'  BY <1>2, <1>4, <1>5, <2>1, <2>2 DEF InOrder, Asks, TypeInv, RegTypeOK
  <2>4. \A b \in Attempt : state'[b] = "hashing" => waitsFor'[b] = {}
    BY <1>3, <2>1 DEF QueueInv
  <2> QED  BY <2>3, <2>4 DEF QueueInv
<1>7. CASE ~Taken(r.name)
  <2> DEFINE last == [rank EXCEPT ![a] = n]
  <2>1. /\ state'[a] = "waiting" /\ request'[a] = r
        /\ \A b \in Attempt : waitsFor'[b] = IF b = a THEN Tails(r) ELSE waitsFor[b]
        /\ \A j \in Subject : locks'[j] = IF j \in Subjects(r) THEN a ELSE locks[j]
    BY <1>1, <1>7 DEF TypeInv, RegTypeOK
  <2>2. Queued(a)' /\ \A j : Asks(a, j)' <=> j \in Subjects(r)
    BY <2>1 DEF Queued, Asks
  <2>3. /\ last \in [Attempt -> Nat] /\ n + 1 \in Nat
        /\ \A b \in Attempt : last[b] = IF b = a THEN n ELSE rank[b]
        /\ \A b \in Attempt : rank[b] \in Nat
    OBVIOUS
  <2> HIDE DEF last
  <2>4. \A b \in Attempt \ {a} : Queued(b)' => last[b] < n
    BY <1>4, <1>5, <2>3 DEF InOrder
  <2>5. \A j : \A b \in Attempt : Asks(b, j) => Queued(b) /\ b # a
    BY <1>2 DEF Asks
  <2>6. ASSUME NEW b \in Attempt PROVE Queued(b)' => last[b] < n + 1
    BY <2>3, <2>4
  <2>7. ASSUME NEW j \in Subject, NEW b \in Attempt, NEW d \in Attempt,
               Asks(b, j)', Asks(d, j)'
        PROVE  /\ last[b] = last[d] => b = d
               /\ last[b] < last[d] =>
                    \E x \in waitsFor'[d] :
                      Asks(x, j)' /\ last[b] <= last[x] /\ last[x] < last[d]
    <3>1. Queued(b)' /\ Queued(d)'  BY <2>7 DEF Asks
    <3>2. CASE b # a /\ d # a
      <4>1. Asks(b, j) /\ Asks(d, j) /\ last[b] = rank[b] /\ last[d] = rank[d]
            /\ waitsFor'[d] = waitsFor[d]
        BY <1>4, <2>1, <2>3, <2>7, <3>2
      <4>2. waitsFor[d] \subseteq Attempt  BY DEF TypeInv, RegTypeOK
      <4>3. \A x \in waitsFor[d] : Asks(x, j) => Asks(x, j)' /\ last[x] = rank[x]
        BY <1>4, <2>3, <2>5, <4>2
      <4> QED  BY <1>5, <4>1, <4>3 DEF InOrder
    <3>3. CASE b = a /\ d # a
      <4>1. last[d] < n /\ last[b] = n  BY <2>3, <2>4, <3>1, <3>3
      <4> QED  BY <2>3, <4>1
    <3>4. CASE b # a /\ d = a
      <4>1. last[b] < n /\ last[d] = n /\ last[b] = rank[b]  BY <2>3, <2>4, <3>1, <3>4
      <4>2. Asks(b, j) /\ j \in Subjects(r)  BY <1>4, <2>2, <2>7, <3>4
      <4>3. PICK x \in Attempt : locks[j] = x /\ Asks(x, j) /\ rank[b] <= rank[x]
        BY <1>5, <4>2 DEF InOrder
      <4>4. x \in waitsFor'[d]  BY <2>1, <3>4, <4>2, <4>3, RequestAssumption DEF Tails
      <4>5. x # a /\ Asks(x, j)' /\ rank[x] < n
        BY <1>4, <1>5, <2>5, <4>3 DEF InOrder
      <4>6. last[x] = rank[x]  BY <2>3, <4>5
      <4> QED  BY <2>3, <4>1, <4>3, <4>4, <4>5, <4>6
    <3>5. CASE b = a /\ d = a  BY <2>3, <3>5
    <3> QED  BY <3>2, <3>3, <3>4, <3>5
  <2>8. ASSUME NEW j \in Subject, NEW b \in Attempt, Asks(b, j)'
        PROVE  \E x \in Attempt : locks'[j] = x /\ Asks(x, j)' /\ last[b] <= last[x]
    <3>1. CASE j \in Subjects(r)
      <4>1. locks'[j] = a  BY <2>1, <3>1
      <4>2. last[b] <= n  BY <2>3, <2>4, <2>8 DEF Asks
      <4> QED  BY <2>2, <2>3, <3>1, <4>1, <4>2
    <3>2. CASE j \notin Subjects(r)
      <4>1. b # a /\ Asks(b, j)  BY <1>4, <2>2, <2>8, <3>2
      <4>2. PICK x \in Attempt : locks[j] = x /\ Asks(x, j) /\ rank[b] <= rank[x]
        BY <1>5, <4>1 DEF InOrder
      <4>3. x # a /\ locks'[j] = x  BY <2>1, <2>5, <3>2, <4>2
      <4> QED  BY <1>4, <2>3, <4>1, <4>2, <4>3
    <3> QED  BY <3>1, <3>2
  <2>9. InOrder(last, n + 1)'  BY <2>6, <2>7, <2>8 DEF InOrder
  <2>10. \A b \in Attempt : state'[b] = "hashing" => waitsFor'[b] = {}
    BY <1>3, <2>1 DEF QueueInv
  <2> QED  BY <2>3, <2>9, <2>10 DEF QueueInv
<1> QED  BY <1>6, <1>7

LEMMA QueueLeaves ==
  ASSUME TypeInv, QueueInv, NEW a \in Attempt, Queued(a), waitsFor[a] = {},
         state' = [state EXCEPT ![a] = "over"], request' = request, Answered(a)
  PROVE  QueueInv'
<1>1. PICK n \in Nat, rank \in [Attempt -> Nat] : InOrder(rank, n)  BY DEF QueueInv
<1>2. \A b \in Attempt : state'[b] = IF b = a THEN "over" ELSE state[b]
  BY DEF TypeInv, RegTypeOK
<1>3. \A b \in Attempt : Queued(b)' <=> Queued(b) /\ b # a  BY <1>2 DEF Queued
<1>4. \A b \in Attempt : \A j : Asks(b, j)' <=> Asks(b, j) /\ b # a  BY <1>3 DEF Asks
<1>5. /\ \A b \in Attempt : waitsFor'[b] = waitsFor[b] \ {a}
      /\ \A j \in Subject : locks'[j] = IF locks[j] = a THEN None ELSE locks[j]
  BY DEF Answered, Freed
<1>6. \A b \in Attempt : rank[b] \in Nat  OBVIOUS
<1>7. ASSUME NEW j \in Subject, NEW b \in Attempt, Asks(b, j), b # a, Asks(a, j)
      PROVE  rank[a] < rank[b]
  <2>1. rank[a] # rank[b] /\ ~(rank[b] < rank[a])  BY <1>1, <1>7 DEF InOrder
  <2> QED  BY <1>6, <2>1
<1>8. ASSUME NEW j \in Subject, NEW b \in Attempt, NEW d \in Attempt,
             Asks(b, j)', Asks(d, j)'
      PROVE  /\ rank[b] = rank[d] => b = d
             /\ rank[b] < rank[d] =>
                  \E c \in waitsFor'[d] : Asks(c, j)' /\ rank[b] <= rank[c] /\ rank[c] < rank[d]
  <2>1. b # a /\ d # a /\ Asks(b, j) /\ Asks(d, j)  BY <1>4, <1>8
  <2>2. rank[b] = rank[d] => b = d  BY <1>1, <2>1 DEF InOrder
  <2>3. ASSUME rank[b] < rank[d]
        PROVE  \E c \in waitsFor'[d] : Asks(c, j)' /\ rank[b] <= rank[c] /\ rank[c] < rank[d]
    <3>1. PICK c \in waitsFor[d] : Asks(c, j) /\ rank[b] <= rank[c] /\ rank[c] < rank[d]
      BY <1>1, <2>1, <2>3 DEF InOrder
    <3>2. c \in Attempt  BY DEF TypeInv, RegTypeOK
    <3>3. c # a  BY <1>6, <1>7, <2>1, <3>1
    <3> QED  BY <1>4, <1>5, <3>1, <3>2, <3>3
  <2> QED  BY <2>2, <2>3
<1>9. ASSUME NEW j \in Subject, NEW b \in Attempt, Asks(b, j)'
      PROVE  \E c \in Attempt : locks'[j] = c /\ Asks(c, j)' /\ rank[b] <= rank[c]
  <2>1. b # a /\ Asks(b, j)  BY <1>4, <1>9
  <2>2. PICK c \in Attempt : locks[j] = c /\ Asks(c, j) /\ rank[b] <= rank[c]
    BY <1>1, <2>1 DEF InOrder
  <2>3. c # a  BY <1>6, <1>7, <2>1, <2>2
  <2> QED  BY <1>4, <1>5, <2>2, <2>3
<1>10. \A b \in Attempt : Queued(b)' => rank[b] < n  BY <1>1, <1>3 DEF InOrder
<1>11. InOrder(rank, n)'  BY <1>8, <1>9, <1>10 DEF InOrder
<1>12. \A b \in Attempt : state'[b] = "hashing" => waitsFor'[b] = {}
  BY <1>2, <1>5 DEF QueueInv, Queued
<1> QED  BY <1>11, <1>12 DEF QueueInv

LEMMA QueueBegin ==
  ASSUME TypeInv, QueueInv, NEW a \in Attempt, Begin(a)
  PROVE  QueueInv'
<1>1. /\ waitsFor[a] = {} /\ state[a] = "waiting"
      /\ state' = [state EXCEPT ![a] = "hashing"]
      /\ UNCHANGED <<request, waitsFor, locks>>
  BY DEF Begin, MyTurn
<1>2. \A b \in Attempt : Queued(b)' <=> Queued(b)  BY <1>1 DEF Queued, TypeInv, RegTypeOK
<1>3. \A b \in Attempt : \A j : Asks(b, j)' <=> Asks(b, j)  BY <1>1, <1>2 DEF Asks
<1>4. PICK n \in Nat, rank \in [Attempt -> Nat] : InOrder(rank, n)  BY DEF QueueInv
<1>5. InOrder(rank, n)'
  <2>1. \A b \in Attempt : Queued(b)' => rank[b] < n  BY <1>2, <1>4 DEF InOrder
  <2>2. ASSUME NEW j \in Subject, NEW b \in Attempt, NEW d \in Attempt,
               Asks(b, j)', Asks(d, j)'
        PROVE  /\ rank[b] = rank[d] => b = d
               /\ rank[b] < rank[d] =>
                    \E c \in waitsFor'[d] :
                      Asks(c, j)' /\ rank[b] <= rank[c] /\ rank[c] < rank[d]
    <3>1. waitsFor[d] \subseteq Attempt /\ waitsFor' = waitsFor
      BY <1>1 DEF TypeInv, RegTypeOK
    <3> QED  BY <1>3, <1>4, <2>2, <3>1 DEF InOrder
  <2>3. ASSUME NEW j \in Subject, NEW b \in Attempt, Asks(b, j)'
        PROVE  \E c \in Attempt : locks'[j] = c /\ Asks(c, j)' /\ rank[b] <= rank[c]
    BY <1>1, <1>3, <1>4, <2>3 DEF InOrder
  <2> QED  BY <2>1, <2>2, <2>3 DEF InOrder
<1>6. \A b \in Attempt : state'[b] = "hashing" => waitsFor'[b] = {}
  BY <1>1 DEF QueueInv, TypeInv, RegTypeOK
<1> QED  BY <1>5, <1>6 DEF QueueInv

LEMMA QueueNext == TypeInv /\ QueueInv /\ [RegNext]_regVars => QueueInv'
<1> SUFFICES ASSUME TypeInv, QueueInv, [RegNext]_regVars PROVE QueueInv'  OBVIOUS
<1>1. ASSUME NEW a \in Attempt, Frame(a) PROVE QueueInv'  BY <1>1, QueueFrame
<1>2. ASSUME NEW a \in Attempt, Begin(a) PROVE QueueInv'  BY <1>2, QueueBegin
<1>3. ASSUME NEW a \in Attempt, Refuse(a) \/ Create(a) \/ Lost(a) PROVE QueueInv'
  <2>1. Queued(a) /\ waitsFor[a] = {}
    BY <1>3 DEF Refuse, Create, Lost, MyTurn, Queued, QueueInv
  <2> QED  BY <1>3, <2>1, QueueLeaves DEF Refuse, Create, Lost
<1>4. CASE RegRestart
  <2>1. \A a \in Attempt : ~Queued(a)' /\ state'[a] # "hashing"
    BY <1>4 DEF RegRestart, Queued
  <2>2. \A a \in Attempt : \A j : ~Asks(a, j)'  BY <2>1 DEF Asks
  <2>3. InOrder([a \in Attempt |-> 0], 0)'  BY <2>1, <2>2 DEF InOrder
  <2>4. 0 \in Nat /\ [a \in Attempt |-> 0] \in [Attempt -> Nat]  OBVIOUS
  <2> QED  BY <2>1, <2>3, <2>4 DEF QueueInv
<1>5. CASE UNCHANGED <<state, request, waitsFor, locks>>
  <2>1. PICK n \in Nat, rank \in [Attempt -> Nat] : InOrder(rank, n)  BY DEF QueueInv
  <2>2. InOrder(rank, n)'  BY <1>5, <2>1 DEF InOrder, Asks, Queued
  <2> QED  BY <1>5, <2>2 DEF QueueInv
<1> QED  BY <1>1, <1>2, <1>3, <1>4, <1>5 DEF RegNext, Ask, RegTick, regVars

-----------------------------------------------------------------------------
(* The ceilings.                                                           *)

(* What was read under the lock is still so when bcrypt is over, no subject*)
(* has been charged past its ceiling, and every account of the window has  *)
(* been charged to each of its subjects.                                   *)
RoomInv ==
  \A a \in Attempt : state[a] = "hashing" =>
    \A j \in Subjects(request[a]) : Ceiling(j) > 0 => Charged(j) < Ceiling(j)

FullInv == \A j \in Subject : Ceiling(j) > 0 => Charged(j) <= Ceiling(j)

ChargedInv ==
  \A u \in users : \A j \in Subjects(u.request) :
    Ceiling(j) > 0 /\ u.at > clock - Window =>
      [id |-> u.id, subject |-> j, at |-> u.at] \in events

CeilingInv == IsFiniteSet(events) /\ RoomInv /\ FullInv /\ ChargedInv

LEMMA CeilingType == \A j : Ceiling(j) \in Nat
<1> QED  BY RegistrationAssumption DEF Ceiling

LEMMA ChargesFinite ==
  ASSUME IsFiniteSet(events), NEW j
  PROVE  IsFiniteSet(Charges(j)) /\ Charged(j) \in Nat
<1>1. Charges(j) \subseteq events  BY DEF Charges
<1> QED  BY <1>1, FS_Subset, FS_CardinalityType DEF Charged

(* Charges of a subject that no row is added to only go. *)
LEMMA FewerCharges ==
  ASSUME IsFiniteSet(events), NEW j, Charges(j)' \subseteq Charges(j)
  PROVE  Charged(j)' \in Nat /\ Charged(j)' <= Charged(j)
<1>1. IsFiniteSet(Charges(j))  BY ChargesFinite
<1>2. IsFiniteSet(Charges(j)') /\ Cardinality(Charges(j)') <= Cardinality(Charges(j))
  BY <1>1, FS_Subset
<1>3. Cardinality(Charges(j)') \in Nat  BY <1>2, FS_CardinalityType
<1> QED  BY <1>2, <1>3 DEF Charged

(* A step that charges nobody keeps what is counted. *)
LEMMA CeilingQuiet ==
  ASSUME TypeInv, CeilingInv, UNCHANGED <<events, users>>,
         clock' \in {clock, clock + 1},
         \A a \in Attempt : state'[a] = "hashing" =>
           /\ request'[a] = request[a]
           /\ state[a] = "hashing" \/ Allowed(request[a])
  PROVE  CeilingInv'
<1>1. clock \in Nat /\ clock' \in Nat /\ clock' >= clock /\ Window \in Nat
  BY RegistrationAssumption DEF TypeInv, RegTypeOK
<1>2. \A e \in events : e.at \in Nat  BY DEF TypeInv, RegTypeOK, Event
<1>3. \A j : Charges(j)' \subseteq Charges(j)  BY <1>1, <1>2 DEF Charges
<1>4. \A j : Charged(j)' \in Nat /\ Charged(j) \in Nat /\ Charged(j)' <= Charged(j)
  BY <1>3, ChargesFinite, FewerCharges DEF CeilingInv
<1>5. RoomInv'
  <2> SUFFICES ASSUME NEW a \in Attempt, state'[a] = "hashing",
                      NEW j \in Subjects(request'[a]), Ceiling(j) > 0
               PROVE  Charged(j)' < Ceiling(j)
    BY DEF RoomInv, Ceiling
  <2>1. j \in Subjects(request[a])  OBVIOUS
  <2>2. Charged(j) < Ceiling(j)
    BY <2>1, CeilingType DEF CeilingInv, RoomInv, Allowed
  <2> QED  BY <1>4, <2>2, CeilingType
<1>6. FullInv'
  <2> SUFFICES ASSUME NEW j \in Subject, Ceiling(j) > 0 PROVE Charged(j)' <= Ceiling(j)
    BY DEF FullInv, Ceiling
  <2>1. Charged(j) <= Ceiling(j)  BY DEF CeilingInv, FullInv
  <2> QED  BY <1>4, <2>1, CeilingType
<1>7. ChargedInv'
  <2>1. \A u \in users : u.at \in Nat  BY DEF TypeInv, RegTypeOK, UserRow
  <2>2. \A u \in users : u.at > clock' - Window => u.at > clock - Window  BY <1>1, <2>1
  <2> QED  BY <2>2 DEF CeilingInv, ChargedInv, Ceiling
<1> QED  BY <1>5, <1>6, <1>7 DEF CeilingInv

LEMMA CeilingCreate ==
  ASSUME TypeInv, QueueInv, CeilingInv, NEW a \in Attempt, Create(a)
  PROVE  CeilingInv'
<1> DEFINE mine == Subjects(request[a])
           charged == {j \in mine : Ceiling(j) > 0}
           added == {[id |-> a, subject |-> j, at |-> clock] : j \in charged}
           kept == {e \in events : e.at > clock - Retention}
           row == [id |-> a, name |-> request[a].name, at |-> clock, request |-> request[a]]
<1>1. /\ state[a] = "hashing" /\ state' = [state EXCEPT ![a] = "over"]
      /\ users' = users \cup {row} /\ events' = ChargedFor(a)
      /\ UNCHANGED <<request, clock>>
  BY DEF Create
<1>2. request[a] \in Request  BY <1>1 DEF TypeInv, AskedInv
<1>3. mine \subseteq Subject /\ IsFiniteSet(mine)  BY <1>2, SubjectsType
<1>4. clock \in Nat /\ Window \in Nat /\ Retention \in Nat /\ Window <= Retention
      /\ clock > clock - Retention
  BY RegistrationAssumption DEF TypeInv, RegTypeOK
<1>5. \/ events' = events /\ added = {}
      \/ events' = kept \cup added
  BY <1>1 DEF ChargedFor
<1>6. \A e \in events : e.at \in Nat  BY DEF TypeInv, RegTypeOK, Event
<1>7. IsFiniteSet(kept) /\ kept \subseteq events  BY FS_Subset DEF CeilingInv
<1>8. IsFiniteSet(added)
  <2> DEFINE RowOf(j) == [id |-> a, subject |-> j, at |-> clock]
  <2>1. \A x : IsFiniteSet({x})  BY FS_Singleton
  <2>2. IsFiniteSet({RowOf(<<"device", request[a].device>>)}
                     \cup {RowOf(<<"ip", request[a].address>>)})
    <3> HIDE DEF RowOf
    <3> QED  BY <2>1, FS_Union
  <2>3. added \subseteq {RowOf(<<"device", request[a].device>>)}
                     \cup {RowOf(<<"ip", request[a].address>>)}
    BY DEF Subjects
  <2> HIDE DEF added, RowOf
  <2> QED  BY <2>2, <2>3, FS_Subset
<1>9. row.id = a /\ row.at = clock /\ row.request = request[a]  OBVIOUS
<1> HIDE DEF row
<1>10. \A e \in added : e.id = a /\ e.at = clock /\ e.subject \in charged
  OBVIOUS
<1>11. \A j \in charged : [id |-> a, subject |-> j, at |-> clock] \in added  OBVIOUS
<1>12. \A j \in mine : Ceiling(j) > 0 => j \in charged  OBVIOUS
<1>13. charged \subseteq mine /\ \A j \in charged : Ceiling(j) > 0  OBVIOUS
<1>14. \A e \in added : e = [id |-> a, subject |-> e.subject, at |-> clock]  OBVIOUS
<1> HIDE DEF added, charged, kept
<1>15. IsFiniteSet(events')  BY <1>5, <1>7, <1>8, FS_Union DEF CeilingInv
<1>16. ASSUME NEW j, j \notin mine PROVE Charged(j)' \in Nat /\ Charged(j)' <= Charged(j)
  <2>1. Charges(j)' \subseteq Charges(j)
    BY <1>1, <1>5, <1>7, <1>10, <1>13, <1>16 DEF Charges
  <2> QED  BY <2>1, FewerCharges DEF CeilingInv
<1>17. ASSUME NEW j \in mine PROVE Charged(j)' \in Nat /\ Charged(j)' <= Charged(j) + 1
  <2> DEFINE new == [id |-> a, subject |-> j, at |-> clock]
  <2>1. Charges(j)' \subseteq Charges(j) \cup {new}
    BY <1>1, <1>5, <1>7, <1>14 DEF Charges
  <2> HIDE DEF new
  <2>2. IsFiniteSet(Charges(j)) /\ Cardinality(Charges(j)) \in Nat
    BY ChargesFinite DEF CeilingInv, Charged
  <2>3. /\ IsFiniteSet(Charges(j) \cup {new})
        /\ \/ Cardinality(Charges(j) \cup {new}) = Cardinality(Charges(j))
           \/ Cardinality(Charges(j) \cup {new}) = Cardinality(Charges(j)) + 1
    BY <2>2, FS_AddElement
  <2>4. IsFiniteSet(Charges(j)')
        /\ Cardinality(Charges(j)') <= Cardinality(Charges(j) \cup {new})
    BY <2>1, <2>3, FS_Subset
  <2>5. Cardinality(Charges(j)') \in Nat  BY <2>4, FS_CardinalityType
  <2> QED  BY <2>2, <2>3, <2>4, <2>5 DEF Charged
<1>18. RoomInv'
  <2> SUFFICES ASSUME NEW b \in Attempt, state'[b] = "hashing",
                      NEW j \in Subjects(request'[b]), Ceiling(j) > 0
               PROVE  Charged(j)' < Ceiling(j)
    BY DEF RoomInv, Ceiling
  <2>1. b # a /\ state[b] = "hashing" /\ j \in Subjects(request[b])
    BY <1>1 DEF TypeInv, RegTypeOK
  <2>2. j \in Subject  BY <2>1, SubjectsType DEF TypeInv, AskedInv
  <2>3. j \notin mine
    <3>1. SUFFICES ASSUME j \in mine PROVE FALSE  OBVIOUS
    <3>2. Asks(a, j) /\ Asks(b, j)  BY <1>1, <2>1, <3>1 DEF Asks, Queued
    <3>3. waitsFor[a] = {} /\ waitsFor[b] = {}  BY <1>1, <2>1 DEF QueueInv
    <3> QED  BY <2>1, <2>2, <3>2, <3>3, Ahead
  <2>4. Charged(j) < Ceiling(j) /\ Charged(j) \in Nat
    BY <2>1, ChargesFinite DEF CeilingInv, RoomInv
  <2> QED  BY <1>16, <2>3, <2>4, CeilingType
<1>19. FullInv'
  <2> SUFFICES ASSUME NEW j \in Subject, Ceiling(j) > 0 PROVE Charged(j)' <= Ceiling(j)
    BY DEF FullInv, Ceiling
  <2>1. Charged(j) \in Nat /\ Ceiling(j) \in Nat  BY ChargesFinite, CeilingType DEF CeilingInv
  <2>2. CASE j \in mine
    <3>1. Charged(j) < Ceiling(j)  BY <1>1, <2>2 DEF CeilingInv, RoomInv
    <3> QED  BY <1>17, <2>1, <2>2, <3>1
  <2>3. CASE j \notin mine
    <3>1. Charged(j) <= Ceiling(j)  BY DEF CeilingInv, FullInv
    <3> QED  BY <1>16, <2>1, <2>3, <3>1
  <2> QED  BY <2>2, <2>3
<1>20. ChargedInv'
  <2> SUFFICES ASSUME NEW u \in users', NEW j \in Subjects(u.request),
                      Ceiling(j) > 0, u.at > clock - Window
               PROVE  [id |-> u.id, subject |-> j, at |-> u.at] \in events'
    BY <1>1 DEF ChargedInv, Ceiling
  <2>1. CASE u = row
    <3>1. j \in charged  BY <1>9, <1>12, <2>1
    <3>2. [id |-> a, subject |-> j, at |-> clock] \in added  BY <1>11, <3>1
    <3> QED  BY <1>5, <1>9, <2>1, <3>2
  <2>2. CASE u \in users
    <3> DEFINE e == [id |-> u.id, subject |-> j, at |-> u.at]
    <3>1. e \in events  BY <2>2 DEF CeilingInv, ChargedInv
    <3>2. u.at \in Nat  BY <2>2 DEF TypeInv, RegTypeOK, UserRow
    <3>3. e.at > clock - Retention  BY <1>4, <3>2
    <3>4. e \in kept  BY <3>1, <3>3 DEF kept
    <3> QED  BY <1>5, <3>1, <3>4
  <2> QED  BY <1>1, <2>1, <2>2
<1> QED  BY <1>15, <1>18, <1>19, <1>20 DEF CeilingInv

LEMMA CeilingNext ==
  TypeInv /\ QueueInv /\ CeilingInv /\ [RegNext]_regVars => CeilingInv'
<1> SUFFICES ASSUME TypeInv, QueueInv, CeilingInv, [RegNext]_regVars PROVE CeilingInv'  OBVIOUS
<1>1. ASSUME NEW a \in Attempt, Create(a) PROVE CeilingInv'  BY <1>1, CeilingCreate
<1>2. ASSUME NEW a \in Attempt, Frame(a) PROVE CeilingInv'
  <2>1. \A b \in Attempt : state'[b] = "hashing" =>
          request'[b] = request[b] /\ state[b] = "hashing"
    BY <1>2 DEF Frame, TypeInv, RegTypeOK
  <2> QED  BY <1>2, <2>1, CeilingQuiet DEF Frame
<1>3. ASSUME NEW a \in Attempt, Begin(a) \/ Refuse(a) \/ Lost(a) PROVE CeilingInv'
  <2>1. \A b \in Attempt : state'[b] = "hashing" =>
          /\ request'[b] = request[b]
          /\ state[b] = "hashing" \/ Allowed(request[b])
    BY <1>3 DEF Begin, Refuse, Lost, TypeInv, RegTypeOK
  <2>2. UNCHANGED <<events, users, clock>>  BY <1>3 DEF Begin, Refuse, Lost
  <2> QED  BY <2>1, <2>2, CeilingQuiet
<1>4. CASE Ask \/ RegTick \/ UNCHANGED regVars
  <2>1. UNCHANGED <<state, request, events, users>> /\ clock' \in {clock, clock + 1}
    BY <1>4 DEF Ask, RegTick, regVars
  <2> QED  BY <2>1, CeilingQuiet
<1>5. CASE RegRestart
  <2>1. \A b \in Attempt : state'[b] # "hashing"  BY <1>5 DEF RegRestart
  <2> QED  BY <1>5, <2>1, CeilingQuiet DEF RegRestart
<1> QED  BY <1>1, <1>2, <1>3, <1>4, <1>5 DEF RegNext

LEMMA CeilingsFollow == TypeInv /\ RowsInv /\ CeilingInv => CeilingsHold
<1> SUFFICES ASSUME TypeInv, RowsInv, CeilingInv, NEW j \in Subject, Ceiling(j) > 0
             PROVE  Cardinality({u \in users : j \in Subjects(u.request)
                                                /\ u.at > clock - Window}) <= Ceiling(j)
  BY DEF CeilingsHold
<1> DEFINE recent == {u \in users : j \in Subjects(u.request) /\ u.at > clock - Window}
           charge == [u \in recent |-> [id |-> u.id, subject |-> j, at |-> u.at]]
<1>1. \A u \in recent : charge[u] \in Charges(j)
  BY DEF CeilingInv, ChargedInv, Charges
<1>2. \A u, v \in recent : charge[u] = charge[v] => u = v  BY DEF RowsInv
<1>3. charge \in Injection(recent, Charges(j))
  <2>1. charge \in [recent -> Charges(j)]  BY <1>1
  <2> HIDE DEF recent, charge
  <2> QED  BY <1>2, <2>1, Fun_IsInj
<1>4. IsFiniteSet(Charges(j)) /\ Charged(j) \in Nat  BY ChargesFinite DEF CeilingInv
<1> HIDE DEF charge
<1>5. IsFiniteSet(recent) /\ Cardinality(recent) <= Cardinality(Charges(j))
  <2> HIDE DEF recent
  <2> QED  BY <1>3, <1>4, FS_Injection
<1>6. Cardinality(recent) \in Nat  BY <1>5, FS_CardinalityType
<1>7. Charged(j) <= Ceiling(j)  BY DEF CeilingInv, FullInv
<1> HIDE DEF recent
<1>8. Cardinality(recent) <= Ceiling(j)
  BY <1>4, <1>5, <1>6, <1>7, CeilingType DEF Charged
<1> QED  BY <1>8 DEF recent

LEMMA CeilingInit == RegInit => QueueInv /\ CeilingInv
<1> SUFFICES ASSUME RegInit PROVE QueueInv /\ CeilingInv  OBVIOUS
<1>1. \A a \in Attempt : state[a] = "new" /\ ~Queued(a)  BY DEF RegInit, Queued
<1>2. QueueInv
  <2>1. \A a \in Attempt : \A j : ~Asks(a, j)  BY <1>1 DEF Asks
  <2>2. InOrder([a \in Attempt |-> 0], 0)  BY <1>1, <2>1 DEF InOrder
  <2>3. 0 \in Nat /\ [a \in Attempt |-> 0] \in [Attempt -> Nat]  OBVIOUS
  <2> QED  BY <1>1, <2>2, <2>3 DEF QueueInv
<1>3. IsFiniteSet({}) /\ Cardinality({}) = 0  BY FS_EmptySet
<1>4. \A j : Charged(j) = 0  BY <1>3 DEF RegInit, Charged, Charges
<1>5. CeilingInv
  BY <1>1, <1>3, <1>4, CeilingType DEF RegInit, CeilingInv, RoomInv, FullInv, ChargedInv
<1> QED  BY <1>2, <1>5

(* No device and no address passes its ceiling in any window, however      *)
(* many registrations overlap in bcrypt and across restarts                *)
(* (lockRegistrationSubjects and registrationAllowed).                     *)
THEOREM CeilingsAreKept == RegSpec => []CeilingsHold
<1> DEFINE Inv == TypeInv /\ RowsInv /\ QueueInv /\ CeilingInv
<1>1. RegInit => Inv  BY TypeInit, CeilingInit DEF RegInit, RowsInv
<1>2. Inv /\ [RegNext]_regVars => Inv'  BY TypeNext, RowsNext, QueueNext, CeilingNext
<1>3. Inv => CeilingsHold  BY CeilingsFollow
<1> HIDE DEF Inv
<1> QED  BY <1>1, <1>2, <1>3, PTL DEF RegSpec

-----------------------------------------------------------------------------
(* The registry of sockets. *)

(* Only accounts that exist are banned, filed, remembered or signing in. *)
KnownInv ==
  /\ banned \subseteq accounts
  /\ \A k \in Client :
       clients[k] # None \/ records[k] # None \/ rows[k] # None => k[1] \in accounts
  /\ \A s \in Socket : \A c \in calls[s] : c.kind = "login" => c.client[1] \in accounts

(* Nothing has happened on a socket that has not connected. *)
NewInv == \A s \in Socket : status[s] = "new" => signedIn[s] = None /\ calls[s] = {}

Inv == TypeOK /\ KnownInv /\ NewInv /\ FiledIsWelcome /\ NobodyGoesDeaf /\ OfflineIsShown

-----------------------------------------------------------------------------
(* The operators keep the types. *)

LEMMA ReleasedType ==
  ASSUME NEW counts \in [SlotKey -> Nat], NEW key
  PROVE  Released(counts, key) \in [SlotKey -> Nat]
<1>1. CASE key \in SlotKey
  <2>1. counts[key] \in Nat  BY <1>1
  <2>2. (IF counts[key] <= 1 THEN 0 ELSE counts[key] - 1) \in Nat  BY <2>1
  <2> QED  BY <2>2 DEF Released
<1>2. CASE key \notin SlotKey  BY <1>2 DEF Released
<1> QED  BY <1>1, <1>2

LEMMA ClaimedType ==
  ASSUME NEW counts \in [SlotKey -> Nat], NEW key, NEW cap
  PROVE  Claimed(counts, key, cap) \in [SlotKey -> Nat]
<1>1. CASE key \in SlotKey
  <2>1. counts[key] + 1 \in Nat  BY <1>1
  <2> QED  BY <2>1 DEF Claimed
<1>2. CASE key \notin SlotKey  BY <1>2 DEF Claimed
<1> QED  BY <1>1, <1>2

LEMMA ClosingType ==
  ASSUME NEW stat \in [Socket -> Status], NEW sockets
  PROVE  /\ Closing(stat, sockets) \in [Socket -> Status]
         /\ \A s \in Socket : Closing(stat, sockets)[s] = "open" => stat[s] = "open" /\ s \notin sockets
         /\ \A s \in Socket : Closing(stat, sockets)[s] = "new" => stat[s] = "new"
BY DEF Closing, Status

LEMMA FiledRecordType ==
  ASSUME TypeOK, NEW k \in Client
  PROVE  FiledRecord(k) \in Record
BY DEF FiledRecord, TypeOK, Record

LEMMA TouchedType ==
  ASSUME NEW t \in [Client -> Record \cup {None}], NEW k \in Client, clock \in Nat
  PROVE  /\ Touched(t, k) \in [Client -> Record \cup {None}]
         /\ \A j \in Client : (Touched(t, k)[j] = None <=> t[j] = None)
         /\ \A j \in Client : t[j] # None => Touched(t, k)[j].revoked = t[j].revoked
BY NoneAssumption DEF Touched, Record

-----------------------------------------------------------------------------
(* The steps that change more than one of the parts. *)

LEMMA SignedInKeeps ==
  ASSUME Inv, NEW s \in Socket, NEW k \in Client, NEW c \in calls[s],
         Over(s, c), SignedIn(s, k),
         k[1] \notin banned, records[k] # None => ~records[k].revoked,
         accounts' \in SUBSET User, accounts \subseteq accounts', k[1] \in accounts',
         banned' = banned, clock' = clock
  PROVE  Inv'
<1> USE DEF Inv
<1>1. k[1] \in User /\ <<"user", k[1]>> \in SlotKey  BY DEF Client, SlotKey
<1>2. FiledRecord(k) \in Record /\ ~FiledRecord(k).revoked
  BY FiledRecordType DEF FiledRecord
<1>3. TypeOK'
  <2>1. slots' \in [SlotKey -> Nat]
    BY ReleasedType, ClaimedType DEF SignedIn, TypeOK
  <2>2. status' \in [Socket -> Status]  BY ClosingType DEF SignedIn, TypeOK
  <2>3. calls' \in [Socket -> SUBSET Call]  BY DEF Over, TypeOK
  <2>4. shown' \in SUBSET User  BY <1>1 DEF SignedIn, OnAuthenticated, TypeOK
  <2> QED  BY <1>1, <1>2, <2>1, <2>2, <2>3, <2>4 DEF SignedIn, TypeOK
<1>4. KnownInv'
  <2>1. \A j \in Client : j # k => clients'[j] = clients[j] /\ records'[j] = records[j]
                                   /\ rows'[j] = rows[j]
    BY DEF SignedIn, TypeOK
  <2>2. \A t \in Socket : calls'[t] \subseteq calls[t]  BY DEF Over, TypeOK
  <2> QED  BY <2>1, <2>2 DEF KnownInv
<1>8. NewInv'  BY ClosingType DEF SignedIn, Over, NewInv, TypeOK
<1>5. FiledIsWelcome'
  BY <1>2, NoneAssumption DEF SignedIn, FiledIsWelcome, TypeOK, Record
<1>6. NobodyGoesDeaf'
  <2> SUFFICES ASSUME NEW t \in Socket, status'[t] = "open", signedIn'[t] # None
               PROVE  clients'[signedIn'[t]] = t
    BY DEF NobodyGoesDeaf
  <2>1. status[t] = "open" /\ t \notin {clients[k]} \ {s, None}
    BY ClosingType DEF SignedIn, TypeOK
  <2>2. CASE t = s  BY <2>2 DEF SignedIn, TypeOK
  <2>3. CASE t # s
    <3>1. signedIn'[t] = signedIn[t] /\ signedIn[t] \in Client  BY <2>3 DEF SignedIn, TypeOK
    <3>2. clients[signedIn[t]] = t  BY <2>1, <3>1 DEF NobodyGoesDeaf
    <3>3. signedIn[t] # k  BY <2>1, <2>3, <3>2, NoneAssumption
    <3> QED  BY <3>1, <3>2, <3>3 DEF SignedIn, TypeOK
  <2> QED  BY <2>2, <2>3
<1>7. OfflineIsShown'
  <2>1. clients'[k] = s /\ s # None  BY NoneAssumption DEF SignedIn, TypeOK
  <2>2. \A j \in Client : clients[j] # None => clients'[j] # None
    BY <2>1 DEF SignedIn, TypeOK
  <2>3. k \in DevicesOf(k[1])  BY DEF DevicesOf
  <2> QED  BY <2>1, <2>2, <2>3 DEF OfflineIsShown, SignedIn, OnAuthenticated, DevicesOf
<1> QED  BY <1>3, <1>4, <1>5, <1>6, <1>7, <1>8

(* An entry that goes takes its account off the screens, and leaves no open socket behind. *)
LEMMA FewerFiled ==
  ASSUME Inv, NEW u \in User,
         \A k \in Client : clients'[k] = clients[k] \/ (clients'[k] = None /\ k[1] = u),
         shown' = shown \ {u},
         \A s \in Socket : status'[s] = "open" =>
           status[s] = "open" /\ \A k \in Client : clients[k] = s => clients'[k] = s,
         signedIn' = signedIn
  PROVE  NobodyGoesDeaf' /\ OfflineIsShown'
<1>1. NobodyGoesDeaf'  BY DEF Inv, NobodyGoesDeaf, TypeOK
<1>2. OfflineIsShown'
  <2> SUFFICES ASSUME NEW v \in shown' PROVE \E k \in DevicesOf(v) : clients'[k] # None
    BY DEF OfflineIsShown
  <2>1. v \in shown /\ v # u  OBVIOUS
  <2>2. PICK k \in DevicesOf(v) : clients[k] # None  BY <2>1 DEF Inv, OfflineIsShown
  <2>3. k \in Client /\ k[1] = v  BY <2>2 DEF DevicesOf
  <2> QED  BY <2>1, <2>2, <2>3
<1> QED  BY <1>1, <1>2

-----------------------------------------------------------------------------
(* The invariant. *)

LEMMA InvInit == Init => Inv
<1> SUFFICES ASSUME Init PROVE Inv  OBVIOUS
<1>1. TypeOK  BY ConnectionsAssumption DEF Init, TypeOK, Status
<1> QED  BY <1>1 DEF Init, Inv, KnownInv, NewInv, FiledIsWelcome, NobodyGoesDeaf, OfflineIsShown

LEMMA RevokeDeviceKeeps ==
  ASSUME Inv, NEW k \in Client, RevokeDevice(k)
  PROVE  Inv'
<1>1. k[1] \in User  BY DEF Client
<1>2. TypeOK'
  <2>1. status' \in [Socket -> Status]  BY ClosingType DEF RevokeDevice, Inv, TypeOK
  <2>2. records' \in [Client -> Record \cup {None}]
    BY NoneAssumption, ZenonT(40) DEF RevokeDevice, Inv, TypeOK, Record
  <2>3. rows' \in [Client -> Record \cup {None}]
    <3>1. [lastActive |-> clock, revoked |-> TRUE] \in Record  BY DEF Inv, TypeOK, Record
    <3> QED  BY <3>1 DEF RevokeDevice, Inv, TypeOK
  <2> QED  BY <2>1, <2>2, <2>3 DEF RevokeDevice, Inv, TypeOK
<1>3. KnownInv'
  <2>1. \A j \in Client : /\ clients'[j] # None => clients[j] # None
                          /\ records'[j] # None => records[j] # None
                          /\ rows'[j] # None => rows[j] # None
    BY DEF RevokeDevice, Inv, TypeOK
  <2> QED  BY <2>1 DEF RevokeDevice, Inv, KnownInv
<1>6. NewInv'  BY ClosingType DEF RevokeDevice, Inv, NewInv, TypeOK
<1>4. FiledIsWelcome'
  <2>1. clients'[k] = None
    BY DEF RevokeDevice, Inv, TypeOK
  <2>2. \A j \in Client : j # k => clients'[j] = clients[j] /\ records'[j] = records[j]
    BY DEF RevokeDevice, Inv, TypeOK
  <2> QED  BY <2>1, <2>2 DEF RevokeDevice, Inv, FiledIsWelcome
<1>5. NobodyGoesDeaf' /\ OfflineIsShown'
  <2>1. CASE clients[k] = None
    BY <2>1 DEF RevokeDevice, Inv, NobodyGoesDeaf, OfflineIsShown
  <2>2. CASE clients[k] # None
    <3>1. \A s \in Socket : status'[s] = "open" =>
             status[s] = "open" /\ \A j \in Client : clients[j] = s => clients'[j] = s
      BY <2>2, ClosingType DEF RevokeDevice, Inv, TypeOK
    <3> QED  BY <1>1, <2>2, <3>1, FewerFiled, ZenonT(40) DEF RevokeDevice, Inv, TypeOK
  <2> QED  BY <2>1, <2>2
<1> QED  BY <1>2, <1>3, <1>4, <1>5, <1>6 DEF Inv

LEMMA CloseEventKeeps ==
  ASSUME Inv, NEW s \in Socket, CloseEvent(s)
  PROVE  Inv'
<1> DEFINE k == signedIn[s]
<1>1. k \in Client \cup {None}  BY DEF Inv, TypeOK
<1>2. TypeOK'
  <2>1. slots' \in [SlotKey -> Nat]  BY ReleasedType DEF CloseEvent, Inv, TypeOK
  <2>2. status' \in [Socket -> Status]  BY DEF CloseEvent, Inv, TypeOK, Status
  <2>3. clients' \in [Client -> Socket \cup {None}]
    BY <1>1 DEF CloseEvent, Unregistered, Inv, TypeOK
  <2>4. /\ records' \in [Client -> Record \cup {None}]
        /\ rows' \in [Client -> Record \cup {None}]
    BY <1>1, TouchedType DEF CloseEvent, Inv, TypeOK
  <2>5. shown' \in SUBSET User  BY DEF CloseEvent, Inv, TypeOK
  <2> QED  BY <2>1, <2>2, <2>3, <2>4, <2>5 DEF CloseEvent, Inv, TypeOK
<1>3. \A j \in Client : /\ clients'[j] = clients[j] \/ clients'[j] = None
                        /\ records'[j] = None <=> records[j] = None
                        /\ rows'[j] = None <=> rows[j] = None
                        /\ records[j] # None => records'[j].revoked = records[j].revoked
  BY <1>1, TouchedType DEF CloseEvent, Unregistered, Inv, TypeOK
<1>4. KnownInv' /\ FiledIsWelcome'
  BY <1>3 DEF CloseEvent, Inv, KnownInv, FiledIsWelcome
<1>6. NewInv'  BY DEF CloseEvent, Inv, NewInv, TypeOK
<1>5. NobodyGoesDeaf' /\ OfflineIsShown'
  <2>1. \A t \in Socket : status'[t] = "open" =>
           /\ status[t] = "open"
           /\ \A j \in Client : clients[j] = t => clients'[j] = t
    BY <1>1 DEF CloseEvent, Unregistered, Inv, TypeOK
  <2>2. CASE k # None /\ clients[k] = s
    <3>1. k[1] \in User  BY <1>1, <2>2 DEF Client
    <3>2. \A j \in Client : clients'[j] = clients[j] \/ (clients'[j] = None /\ j[1] = k[1])
      BY <1>1, <2>2 DEF CloseEvent, Unregistered, Inv, TypeOK
    <3> QED  BY <2>1, <2>2, <3>1, <3>2, FewerFiled DEF CloseEvent
  <2>3. CASE ~(k # None /\ clients[k] = s)
    <3>1. UNCHANGED <<clients, shown, signedIn>>  BY <2>3 DEF CloseEvent, Unregistered
    <3> QED  BY <2>1, <3>1 DEF Inv, NobodyGoesDeaf, OfflineIsShown
  <2> QED  BY <2>2, <2>3
<1> QED  BY <1>2, <1>4, <1>5, <1>6 DEF Inv

LEMMA InvNext == Inv /\ [Next]_vars => Inv'
<1> SUFFICES ASSUME Inv, [Next]_vars PROVE Inv'  OBVIOUS
<1>1. ASSUME NEW s \in Socket, Connect(s) PROVE Inv'
  <2>1. PICK a \in Address :
          LET key == <<"ip", a>> IN
          IF slots[key] < MaxPerIp
          THEN /\ status' = [status EXCEPT ![s] = "open"]
               /\ slotKey' = [slotKey EXCEPT ![s] = key]
               /\ slots' = Claimed(slots, key, MaxPerIp)
          ELSE /\ status' = [status EXCEPT ![s] = "closed"]
               /\ UNCHANGED <<slotKey, slots>>
    BY <1>1 DEF Connect
  <2>2. <<"ip", a>> \in SlotKey  BY DEF SlotKey
  <2>3. slots' \in [SlotKey -> Nat]  BY <2>1, ClaimedType DEF Inv, TypeOK
  <2>4. TypeOK'  BY <1>1, <2>1, <2>2, <2>3 DEF Connect, Inv, TypeOK, Status
  <2>5. \A t \in Socket : status'[t] = "open" => status[t] = "open" \/ status[t] = "new"
    BY <1>1, <2>1 DEF Connect, Inv, TypeOK
  <2>6. UNCHANGED <<signedIn, calls, clients, records, rows, accounts, banned, shown, clock>>
    BY <1>1 DEF Connect
  <2>7. KnownInv' /\ FiledIsWelcome' /\ OfflineIsShown'
    BY <2>6 DEF Inv, KnownInv, FiledIsWelcome, OfflineIsShown
  <2>8. NewInv'  BY <2>1, <2>6 DEF Inv, TypeOK, NewInv
  <2>9. NobodyGoesDeaf'  BY <2>5, <2>6 DEF Inv, NewInv, NobodyGoesDeaf
  <2> QED  BY <2>4, <2>7, <2>8, <2>9 DEF Inv
<1>2. ASSUME NEW s \in Socket, LoginFrame(s) \/ RegisterFrame(s) PROVE Inv'
  <2>1. PICK u \in User, d \in Device, w \in {"login", "register"} :
          /\ calls' = [calls EXCEPT ![s] = @ \cup {[kind |-> w, client |-> <<u, d>>]}]
          /\ w = "login" => u \in accounts
    BY <1>2 DEF LoginFrame, RegisterFrame, Inv, TypeOK
  <2>2. [kind |-> w, client |-> <<u, d>>] \in Call  BY DEF Call, Client
  <2>3. UNCHANGED <<status, signedIn, slotKey, slots, clients, records, rows, accounts, banned,
                    shown, clock>>
    BY <1>2 DEF LoginFrame, RegisterFrame
  <2>4. calls' \in [Socket -> SUBSET Call]  BY <2>1, <2>2 DEF Inv, TypeOK
  <2>5. \A t \in Socket : \A c \in calls'[t] : c.kind = "login" => c.client[1] \in accounts
    BY <2>1 DEF Inv, KnownInv, TypeOK
  <2>6. NewInv'
    BY <1>2, <2>1, <2>3 DEF LoginFrame, RegisterFrame, Reading, Inv, TypeOK, NewInv
  <2> QED  BY <2>3, <2>4, <2>5, <2>6 DEF Inv, TypeOK, KnownInv, FiledIsWelcome, NobodyGoesDeaf, OfflineIsShown
<1>3. ASSUME NEW s \in Socket, LoginDone(s) PROVE Inv'
  <2>1. PICK c \in calls[s] : c.kind = "login" /\ ~Refused(c.client) /\ Over(s, c) /\ SignedIn(s, c.client)
    BY <1>3 DEF LoginDone
  <2>2. c.client \in Client /\ c.client[1] \in accounts  BY <2>1 DEF Inv, TypeOK, Call, KnownInv
  <2>3. c.client[1] \notin banned /\ (records[c.client] # None => ~records[c.client].revoked)
    BY <2>1 DEF Refused, SessionCapReached
  <2>4. accounts' \in SUBSET User /\ accounts \subseteq accounts' /\ banned' = banned /\ clock' = clock
    BY <1>3 DEF LoginDone, Inv, TypeOK
  <2> QED  BY <2>1, <2>2, <2>3, <2>4, SignedInKeeps
<1>4. ASSUME NEW s \in Socket, RegisterDone(s) PROVE Inv'
  <2>1. PICK c \in calls[s] : /\ c.client[1] \notin accounts /\ Over(s, c) /\ SignedIn(s, c.client)
                              /\ accounts' = accounts \cup {c.client[1]}
    BY <1>4 DEF RegisterDone
  <2>2. c.client \in Client /\ c.client[1] \in User  BY <2>1 DEF Inv, TypeOK, Call, Client
  <2>3. c.client[1] \notin banned /\ records[c.client] = None  BY <2>1, <2>2 DEF Inv, KnownInv
  <2>4. accounts' \in SUBSET User /\ accounts \subseteq accounts' /\ banned' = banned /\ clock' = clock
        /\ c.client[1] \in accounts'
    BY <1>4, <2>1, <2>2 DEF RegisterDone, Inv, TypeOK
  <2> QED  BY <2>1, <2>2, <2>3, <2>4, SignedInKeeps
<1>5. ASSUME NEW s \in Socket, AuthFailure(s) PROVE Inv'
  <2>1. calls' \in [Socket -> SUBSET Call] /\ \A t \in Socket : calls'[t] \subseteq calls[t]
    BY <1>5 DEF AuthFailure, Over, Inv, TypeOK
  <2> QED  BY <1>5, <2>1 DEF AuthFailure, Inv, TypeOK, KnownInv, NewInv, FiledIsWelcome, NobodyGoesDeaf, OfflineIsShown
<1>6. ASSUME NEW s \in Socket, CloseEvent(s) PROVE Inv'  BY <1>6, CloseEventKeeps
<1>7. ASSUME NEW s \in Socket, SignOut(s) \/ Revoke(s) PROVE Inv'
  <2>1. signedIn[s] \in Client  BY <1>7 DEF SignOut, Revoke, Inv, TypeOK
  <2>2. \A d \in Device : <<signedIn[s][1], d>> \in Client  BY <2>1 DEF Client
  <2> QED  BY <1>7, <2>1, <2>2, RevokeDeviceKeeps DEF SignOut, Revoke
<1>8. ASSUME NEW k \in Client, Sweep(k) PROVE Inv'
  <2>1. k[1] \in User /\ clients[k] \in Socket  BY <1>8 DEF Sweep, Client, Inv, TypeOK
  <2>2. TypeOK'  BY <1>8, <2>1 DEF Sweep, Announced, Inv, TypeOK, Status
  <2>3. KnownInv' /\ NewInv' /\ FiledIsWelcome'
    BY <1>8, <2>1 DEF Sweep, Inv, TypeOK, KnownInv, NewInv, FiledIsWelcome
  <2>4. \A s \in Socket : status'[s] = "open" =>
           status[s] = "open" /\ \A j \in Client : clients[j] = s => clients'[j] = s
    BY <1>8, <2>1 DEF Sweep, Inv, TypeOK
  <2>5. \A j \in Client : clients'[j] = clients[j] \/ (clients'[j] = None /\ j[1] = k[1])
    BY <1>8 DEF Sweep, Inv, TypeOK
  <2> QED  BY <1>8, <2>1, <2>2, <2>3, <2>4, <2>5, FewerFiled DEF Sweep, Announced, Inv
<1>9. ASSUME NEW u \in User, Ban(u) PROVE Inv'
  <2>1. TypeOK'
    <3>1. status' \in [Socket -> Status]  BY <1>9, ClosingType DEF Ban, Inv, TypeOK
    <3> QED  BY <1>9, <3>1 DEF Ban, Inv, TypeOK
  <2>2. KnownInv' /\ NewInv' /\ FiledIsWelcome'
    BY <1>9, ClosingType DEF Ban, Inv, TypeOK, KnownInv, NewInv, FiledIsWelcome
  <2>3. \A s \in Socket : status'[s] = "open" =>
           status[s] = "open" /\ \A j \in Client : clients[j] = s => clients'[j] = s
    BY <1>9, ClosingType DEF Ban, DevicesOf, Inv, TypeOK
  <2>4. \A j \in Client : clients'[j] = clients[j] \/ (clients'[j] = None /\ j[1] = u)
    BY <1>9 DEF Ban, Inv, TypeOK
  <2> QED  BY <1>9, <2>1, <2>2, <2>3, <2>4, FewerFiled DEF Ban, Inv
<1>10. ASSUME NEW u \in User, Unban(u) PROVE Inv'
  BY <1>10 DEF Unban, Inv, TypeOK, KnownInv, NewInv, FiledIsWelcome, NobodyGoesDeaf, OfflineIsShown
<1>11. CASE Tick \/ UNCHANGED vars
  BY <1>11 DEF Tick, vars, Inv, TypeOK, KnownInv, NewInv, FiledIsWelcome, NobodyGoesDeaf, OfflineIsShown
<1>12. CASE PruneRecords
  <2>1. \A k \in Client : records'[k] = records[k] \/ (records'[k] = None /\ clients[k] = None)
    BY <1>12 DEF PruneRecords
  <2>2. TypeOK'  BY <1>12, <2>1 DEF PruneRecords, Inv, TypeOK
  <2> QED
    BY <1>12, <2>1, <2>2 DEF PruneRecords, Inv, KnownInv, NewInv, FiledIsWelcome, NobodyGoesDeaf, OfflineIsShown
<1>13. CASE PruneRows
  <2>1. TypeOK'  BY <1>13 DEF PruneRows, Inv, TypeOK
  <2> QED
    BY <1>13, <2>1 DEF PruneRows, Inv, KnownInv, NewInv, FiledIsWelcome, NobodyGoesDeaf, OfflineIsShown
<1>14. CASE Restart
  <2>1. \A k \in Client : rows'[k] # None => rows[k] # None
    BY <1>14 DEF Restart, FlushSessionWrites
  <2>2. rows' \in [Client -> Record \cup {None}]
    BY <1>14, NoneAssumption DEF Restart, FlushSessionWrites, Inv, TypeOK, Record
  <2>3. TypeOK'  BY <1>14, <2>2 DEF Restart, Inv, TypeOK, Status
  <2> QED
    BY <1>14, <2>1, <2>3 DEF Restart, Inv, KnownInv, NewInv, FiledIsWelcome, NobodyGoesDeaf, OfflineIsShown
<1> QED  BY <1>1, <1>2, <1>3, <1>4, <1>5, <1>6, <1>7, <1>8, <1>9, <1>10, <1>11, <1>12, <1>13, <1>14
         DEF Next

-----------------------------------------------------------------------------
(* The cap. *)

(* The devices of an account that may sign in. *)
Live(u) == {k \in DevicesOf(u) : records[k] # None /\ ~records[k].revoked}

(* While nothing is old enough to be dropped the process and the table agree on revocations. *)
AgreeInv ==
  \A k \in Client : /\ records[k] = None <=> rows[k] = None
                    /\ records[k] # None => records[k].revoked = rows[k].revoked

CapInv ==
  clock <= InactiveTtl =>
    /\ AgreeInv
    /\ \A u \in User : IsFiniteSet(Live(u)) /\ Cardinality(Live(u)) <= MaxSessions

LEMMA CapInit == Init => CapInv
<1> SUFFICES ASSUME Init PROVE CapInv  OBVIOUS
<1>1. \A u \in User : Live(u) = {}  BY DEF Init, Live, DevicesOf
<1>2. AgreeInv  BY DEF Init, AgreeInv
<1> QED  BY <1>1, <1>2, FS_EmptySet, ConnectionsAssumption DEF CapInv

(* No more devices may sign in than before. *)
LEMMA CapShrinks ==
  ASSUME Inv, CapInv, clock <= clock', clock' \in Nat,
         clock' <= InactiveTtl => AgreeInv',
         clock' <= InactiveTtl => \A k \in Client :
           records'[k] # None /\ ~records'[k].revoked => records[k] # None /\ ~records[k].revoked
  PROVE  CapInv'
<1> SUFFICES ASSUME clock' <= InactiveTtl, NEW u \in User
             PROVE  IsFiniteSet(Live(u)') /\ Cardinality(Live(u)') <= MaxSessions
  BY DEF CapInv
<1>1. clock <= InactiveTtl  BY ConnectionsAssumption DEF Inv, TypeOK
<1>2. IsFiniteSet(Live(u)) /\ Cardinality(Live(u)) <= MaxSessions  BY <1>1 DEF CapInv
<1>3. Live(u)' \subseteq Live(u)  BY DEF Live, DevicesOf
<1>4. IsFiniteSet(Live(u)') /\ Cardinality(Live(u)') <= Cardinality(Live(u))
  BY <1>2, <1>3, FS_Subset
<1>5. Cardinality(Live(u)') \in Nat /\ Cardinality(Live(u)) \in Nat
  BY <1>2, <1>4, FS_CardinalityType
<1> QED  BY <1>2, <1>4, <1>5, ConnectionsAssumption

(* A device that was not there takes a place that is free. *)
LEMMA CapSignedIn ==
  ASSUME Inv, CapInv, NEW s \in Socket, NEW k \in Client, SignedIn(s, k), clock' = clock,
         records[k] # None => ~records[k].revoked,
         records[k] = None /\ clock <= InactiveTtl => Cardinality(Live(k[1])) < MaxSessions
  PROVE  CapInv'
<1> SUFFICES ASSUME clock <= InactiveTtl PROVE CapInv'  BY DEF CapInv
<1>1. /\ \A j \in Client : j # k => records'[j] = records[j] /\ rows'[j] = rows[j]
      /\ records'[k] = FiledRecord(k) /\ rows'[k] = FiledRecord(k)
  BY DEF SignedIn, Inv, TypeOK
<1>2. FiledRecord(k) \in Record /\ FiledRecord(k) # None
  BY FiledRecordType, NoneAssumption DEF Inv, Record
<1>3. ~FiledRecord(k).revoked  BY DEF FiledRecord
<1>4. AgreeInv'  BY <1>1, <1>2 DEF CapInv, AgreeInv
<1>5. ASSUME NEW u \in User
      PROVE  IsFiniteSet(Live(u)') /\ Cardinality(Live(u)') <= MaxSessions
  <2>1. IsFiniteSet(Live(u)) /\ Cardinality(Live(u)) <= MaxSessions  BY DEF CapInv
  <2>2. CASE u # k[1] \/ records[k] # None
    <3>1. Live(u)' = Live(u)  BY <1>1, <1>2, <1>3, <2>2 DEF Live, DevicesOf
    <3> QED  BY <2>1, <3>1
  <2>3. CASE u = k[1] /\ records[k] = None
    <3>1. Live(u)' = Live(u) \cup {k}  BY <1>1, <1>2, <1>3, <2>3 DEF Live, DevicesOf
    <3>2. k \notin Live(u)  BY <2>3 DEF Live
    <3>3. IsFiniteSet(Live(u) \cup {k}) /\ Cardinality(Live(u) \cup {k}) = Cardinality(Live(u)) + 1
      BY <2>1, <3>2, FS_AddElement
    <3>4. Cardinality(Live(u)) \in Nat  BY <2>1, FS_CardinalityType
    <3>5. Cardinality(Live(u)) < MaxSessions  BY <2>3
    <3> QED  BY <3>1, <3>3, <3>4, <3>5, ConnectionsAssumption
  <2> QED  BY <2>2, <2>3
<1> QED  BY <1>4, <1>5 DEF CapInv

LEMMA CapNext == Inv /\ CapInv /\ [Next]_vars => CapInv'
<1> SUFFICES ASSUME Inv, CapInv, [Next]_vars PROVE CapInv'  OBVIOUS
<1>1. CASE UNCHANGED <<records, rows, clock>>
  BY <1>1 DEF CapInv, AgreeInv, Live, DevicesOf
<1>2. ASSUME NEW s \in Socket, LoginDone(s) PROVE CapInv'
  <2>1. PICK c \in calls[s] : ~Refused(c.client) /\ SignedIn(s, c.client)  BY <1>2 DEF LoginDone
  <2>2. c.client \in Client /\ c.client[1] \in User  BY <2>1 DEF Inv, TypeOK, Call, Client
  <2>3. records[c.client] # None => ~records[c.client].revoked
    BY <2>1 DEF Refused, SessionCapReached
  <2>4. ASSUME records[c.client] = None, clock <= InactiveTtl
        PROVE  Cardinality(Live(c.client[1])) < MaxSessions
    <3>1. Cardinality(Live(c.client[1])) \in Nat  BY <2>2, <2>4, FS_CardinalityType DEF CapInv
    <3>2. ~(Cardinality(Live(c.client[1])) >= MaxSessions)
      BY <2>1, <2>4 DEF Refused, SessionCapReached, Live
    <3> QED  BY <3>1, <3>2, ConnectionsAssumption
  <2> QED  BY <1>2, <2>1, <2>2, <2>3, <2>4, CapSignedIn DEF LoginDone
<1>3. ASSUME NEW s \in Socket, RegisterDone(s) PROVE CapInv'
  <2>1. PICK c \in calls[s] : c.client[1] \notin accounts /\ SignedIn(s, c.client)
    BY <1>3 DEF RegisterDone
  <2>2. c.client \in Client  BY <2>1 DEF Inv, TypeOK, Call
  <2>3. \A k \in DevicesOf(c.client[1]) : records[k] = None
    BY <2>1 DEF DevicesOf, Inv, KnownInv
  <2>4. records[c.client] = None  BY <2>2, <2>3 DEF DevicesOf
  <2>5. Live(c.client[1]) = {}  BY <2>3 DEF Live
  <2>6. Cardinality(Live(c.client[1])) < MaxSessions
    BY <2>5, FS_EmptySet, ConnectionsAssumption
  <2> QED  BY <1>3, <2>1, <2>2, <2>4, <2>6, CapSignedIn DEF RegisterDone
<1>4. ASSUME NEW s \in Socket, CloseEvent(s) PROVE CapInv'
  <2>1. signedIn[s] \in Client \cup {None}  BY DEF Inv, TypeOK
  <2>2. \A k \in Client : /\ records'[k] = None <=> records[k] = None
                          /\ rows'[k] = None <=> rows[k] = None
                          /\ records[k] # None => records'[k].revoked = records[k].revoked
                          /\ rows[k] # None => rows'[k].revoked = rows[k].revoked
    BY <1>4, <2>1, TouchedType DEF CloseEvent, Inv, TypeOK
  <2>3. clock' = clock /\ clock \in Nat  BY <1>4 DEF CloseEvent, Inv, TypeOK
  <2>4. clock' <= InactiveTtl => AgreeInv'  BY <2>2, <2>3 DEF CapInv, AgreeInv
  <2> QED  BY <2>2, <2>3, <2>4, CapShrinks
<1>5. ASSUME NEW k \in Client, RevokeDevice(k) PROVE CapInv'
  <2>1. /\ \A j \in Client : j # k => records'[j] = records[j] /\ rows'[j] = rows[j]
        /\ records[k] # None /\ records'[k] # None /\ records'[k].revoked = TRUE
        /\ rows'[k] = None <=> rows[k] = None
        /\ rows[k] # None => rows'[k].revoked = TRUE
    <3>1. records'[k] = [records[k] EXCEPT !.revoked = TRUE] /\ records[k] \in Record
      BY <1>5 DEF RevokeDevice, Inv, TypeOK
    <3>2. records'[k] \in Record /\ records'[k].revoked = TRUE  BY <3>1 DEF Record
    <3>3. records'[k] # None  BY <3>2, NoneAssumption DEF Record
    <3> DEFINE renewed == [lastActive |-> clock, revoked |-> TRUE]
    <3>4. renewed \in Record  BY DEF Record, Inv, TypeOK
    <3>5. renewed # None /\ renewed.revoked = TRUE  BY <3>4, NoneAssumption DEF Record
    <3> HIDE DEF renewed
    <3>6. rows[k] = None => rows' = rows  BY <1>5 DEF RevokeDevice
    <3>7. rows[k] # None => rows' = [rows EXCEPT ![k] = renewed]
      BY <1>5 DEF RevokeDevice, renewed
    <3>8. rows[k] # None => rows'[k] = renewed /\ \A j \in Client : j # k => rows'[j] = rows[j]
      BY <3>7 DEF Inv, TypeOK
    <3>9. \A j \in Client : j # k => records'[j] = records[j]
      BY <1>5 DEF RevokeDevice, Inv, TypeOK
    <3>10. records[k] # None  BY <1>5 DEF RevokeDevice
    <3>11. CASE rows[k] = None  BY <3>2, <3>3, <3>6, <3>9, <3>10, <3>11
    <3>12. CASE rows[k] # None  BY <3>2, <3>3, <3>5, <3>8, <3>9, <3>10, <3>12
    <3> QED  BY <3>11, <3>12
  <2>2. clock' = clock /\ clock \in Nat  BY <1>5 DEF RevokeDevice, Inv, TypeOK
  <2>3. clock' <= InactiveTtl => AgreeInv'  BY <2>1, <2>2 DEF CapInv, AgreeInv
  <2> QED  BY <2>1, <2>2, <2>3, CapShrinks
<1>6. ASSUME NEW s \in Socket, SignOut(s) \/ Revoke(s) PROVE CapInv'
  <2>1. signedIn[s] \in Client  BY <1>6 DEF SignOut, Revoke, Inv, TypeOK
  <2>2. \A d \in Device : <<signedIn[s][1], d>> \in Client  BY <2>1 DEF Client
  <2> QED  BY <1>5, <1>6, <2>1, <2>2 DEF SignOut, Revoke
<1>7. CASE Tick
  <2>1. clock \in Nat /\ clock' = clock + 1 /\ UNCHANGED <<records, rows>>
    BY <1>7 DEF Tick, Inv, TypeOK
  <2>2. clock' <= InactiveTtl => AgreeInv'
    BY <2>1, ConnectionsAssumption DEF CapInv, AgreeInv
  <2> QED  BY <2>1, <2>2, CapShrinks
<1>8. \A x \in Record \cup {None} : clock <= InactiveTtl => ~Expired(x)
  BY ConnectionsAssumption DEF Expired, Record, Inv, TypeOK
<1>9. CASE PruneRecords \/ PruneRows
  <2>1. clock' = clock  BY <1>9 DEF PruneRecords, PruneRows
  <2>2. CASE clock <= InactiveTtl
    BY <1>8, <1>9, <2>2 DEF PruneRecords, PruneRows, Inv, TypeOK
  <2>3. CASE ~(clock <= InactiveTtl)  BY <2>1, <2>3 DEF CapInv
  <2> QED  BY <2>2, <2>3
<1>10. CASE Restart
  <2>1. clock' = clock /\ clock \in Nat /\ records' = rows'  BY <1>10 DEF Restart, Inv, TypeOK
  <2>2. \A k \in Client : /\ rows'[k] = None <=> rows[k] = None
                          /\ rows[k] # None => rows'[k].revoked = rows[k].revoked
    <3>1. CASE rows' = rows  BY <3>1
    <3>2. CASE rows' = FlushSessionWrites
      <4>1. \A k \in Client : rows[k] # None => [rows[k] EXCEPT !.lastActive = clock] # None
        BY <2>1, NoneAssumption DEF Inv, TypeOK, Record
      <4>2. \A k \in Client : rows[k] # None =>
               [rows[k] EXCEPT !.lastActive = clock].revoked = rows[k].revoked
        BY DEF Inv, TypeOK, Record
      <4> QED  BY <3>2, <4>1, <4>2 DEF FlushSessionWrites
    <3> QED  BY <1>10, <3>1, <3>2 DEF Restart
  <2>3. clock' <= InactiveTtl => AgreeInv'  BY <2>1 DEF AgreeInv
  <2>4. clock' <= InactiveTtl => \A k \in Client :
           records'[k] # None /\ ~records'[k].revoked => records[k] # None /\ ~records[k].revoked
    BY <2>1, <2>2 DEF CapInv, AgreeInv
  <2> QED  BY <2>1, <2>3, <2>4, CapShrinks
<1>11. CASE \/ \E s \in Socket : Connect(s) \/ LoginFrame(s) \/ RegisterFrame(s) \/ AuthFailure(s)
            \/ \E k \in Client : Sweep(k)
            \/ \E u \in User : Ban(u) \/ Unban(u)
            \/ UNCHANGED vars
  BY <1>1, <1>11 DEF Connect, LoginFrame, RegisterFrame, AuthFailure, Sweep, Ban, Unban, vars
<1> QED  BY <1>2, <1>3, <1>4, <1>6, <1>7, <1>9, <1>10, <1>11 DEF Next

-----------------------------------------------------------------------------
(* Every reachable state satisfies the invariant. *)
LEMMA InvAlways == Spec => []Inv
<1> QED  BY InvInit, InvNext, PTL DEF Spec

(* Every variable holds what the code's declarations allow. *)
THEOREM TypeCorrect == Spec => []TypeOK
<1>1. Inv => TypeOK  BY DEF Inv
<1> QED  BY <1>1, InvAlways, PTL

(* Nobody is filed whom the server has turned away: handleAuthLogin asks for the ban and the       *)
(* revocation after bcrypt, and whoever is revoked or banned is taken out of the registry at once. *)
THEOREM OnlyTheWelcomeAreFiled == Spec => []FiledIsWelcome
<1>1. Inv => FiledIsWelcome  BY DEF Inv
<1> QED  BY <1>1, InvAlways, PTL

(* A socket that is open and signed in is the one its device is filed under: registerDevice tells  *)
(* the socket it replaces to close, and unregisterDevice leaves the entry of another socket alone. *)
THEOREM NobodyIsDeaf == Spec => []NobodyGoesDeaf
<1>1. Inv => NobodyGoesDeaf  BY DEF Inv
<1> QED  BY <1>1, InvAlways, PTL

(* An account none of whose devices is filed is not shown as online. *)
THEOREM OfflineIsAnnounced == Spec => []OfflineIsShown
<1>1. Inv => OfflineIsShown  BY DEF Inv
<1> QED  BY <1>1, InvAlways, PTL

(* Until something is old enough to be dropped, no account has more devices that may sign in than  *)
(* the cap, for sessionCapReached is asked after bcrypt and nothing runs before the record is made.*)
THEOREM SessionCapHolds == Spec => []SessionCap
<1>1. CapInv => SessionCap  BY DEF CapInv, SessionCap, Live
<1>2. Init => CapInv  BY CapInit
<1>3. Inv /\ CapInv /\ [Next]_vars => CapInv'  BY CapNext
<1> QED  BY <1>1, <1>2, <1>3, InvAlways, PTL DEF Spec
=============================================================================
