------------------------- MODULE SignInRecordProofs -------------------------
(***************************************************************************)
(* Proofs about SignInRecord!Spec, for any number of tabs, calls and       *)
(* secrets and any scenario.                                               *)
(*                                                                         *)
(* CallInv says of one call what it carries at each of its waits, whatever *)
(* goes wrong.  RightInv says of the profile as a whole what holds as long *)
(* as nothing has gone wrong: one key, and every call in agreement with    *)
(* it.  Both are needed for a record that opens: what a call seals with    *)
(* was read some waits before.                                             *)
(***************************************************************************)
EXTENDS SignInRecord, TLAPS

Box == [scheme : {"device", "fingerprint"}, key : Nat \cup {Old}, secret : Secret]

(* A box under the device key is under a key that was generated. *)
BoxOK(b) == b # None => b \in Box /\ (b.scheme = "device" => b.key \in Nat)

TabType ==
  [cached : Nat \cup {None}, making : {"no", "get", "put"}, open : BOOLEAN, blind : BOOLEAN]

(* What a call has in hand at each wait: one that reads a record has it, one that stores *)
(* something has what it stores, and one that seals has a key.                           *)
CallInv(x) ==
  /\ x \in CallType
  /\ x.at # "done" => x.tab \in Tab
  /\ x.op \in {"launch", "change"} => BoxOK(x.found) /\ x.found # None
  /\ x.op = "change" => x.new \in Secret
  /\ x.copy # None => x.copy = x.found /\ x.op \in {"launch", "change"}
  /\ x.at \notin {"key", "oldKey"} => x.copy = None
  /\ x.at = "oldKey" => x.copy # None /\ x.copy.scheme = "fingerprint"
  /\ x.at = "key" /\ x.copy # None => x.copy.scheme = "device"
  /\ x.at \in {"works", "seal", "legacy", "sealOld"} \/ (x.at = "key" /\ x.copy = None) => x.todo # <<>>
  /\ x.at = "seal" => x.key \in Nat
  /\ x.at = "sealOld" => x.key \in Nat \cup {Old}

(* The tabs and the calls: nobody waits for a key that nobody fetches. *)
ProcInv ==
  /\ tab \in [Tab -> TabType]
  /\ DOMAIN call = Call /\ \A c \in Call : CallInv(call[c])
  /\ \A t \in Tab :
       /\ tab[t].open => canHold
       /\ tab[t].blind => ~ canHold
       /\ Waiting(t) # {} => tab[t].making # "no"

TypeInv ==
  /\ canHold \in BOOLEAN
  /\ idb \in Nat \cup {None} /\ salt \in Nat \cup {Old, None} /\ made \in Nat
  /\ BoxOK(record)
  /\ ProcInv

(* Only an open that failed leads a browser that can hold a key to the fallback. *)
AbleInv ==
  canHold /\ "open" \notin faults => \A c \in Call : call[c].at \notin {"legacy", "sealOld"}

(* A call agrees with key i in IndexedDB and salt s: what it seals with is that, and what it read *)
(* is under that or has been told.                                                                *)
Agrees(x, i, s, able) ==
  /\ x.at = "seal" => able /\ x.key = i
  /\ x.at \in {"works", "legacy", "sealOld"} => ~ able
  /\ x.at = "sealOld" => x.key = s
  /\ x.copy # None => x.copy.key = (IF x.copy.scheme = "device" THEN i ELSE s)
                      /\ (x.copy.scheme = "device" => able)
  /\ x.op \in {"launch", "change"} /\ x.copy = None => x.answer = x.found.secret

(* So does a record. *)
Right(r, i, s, able) ==
  r # None => r.key = (IF r.scheme = "device" THEN i ELSE s) /\ (r.scheme = "device" => able)

(* While nothing has gone wrong there is one key, nobody makes another, and all agree with it. *)
RightInv ==
  faults = {} =>
    /\ Right(record, idb, salt, canHold)
    /\ ~ canHold => idb = None
    /\ \A t \in Tab : tab[t].cached \in {None, idb}
    /\ canHold => \A t, u \in Tab : tab[t].making = "put" => idb = None /\ (tab[u].making = "put" => u = t)
    /\ \A c \in Call : Agrees(call[c], idb, salt, canHold)

Inv == TypeInv /\ AbleInv /\ RightInv

-----------------------------------------------------------------------------
(* What a call does with the key it asked for.                             *)

LEMMA CallFields ==
  ASSUME NEW x \in CallType
  PROVE  /\ DOMAIN x = {"tab", "op", "at", "found", "copy", "answer", "new", "todo", "key"}
         /\ x = [tab |-> x.tab, op |-> x.op, at |-> x.at, found |-> x.found, copy |-> x.copy,
                 answer |-> x.answer, new |-> x.new, todo |-> x.todo, key |-> x.key]
         /\ x.todo \in Seq(Secret)
BY DEF CallType

(* Every field but those a step writes is left as it was. *)
Same(y, x) ==
  y.tab = x.tab /\ y.op = x.op /\ y.found = x.found /\ y.new = x.new

LEMMA StoringOK ==
  ASSUME NEW x \in CallType, NEW k \in Nat \cup {None}
  PROVE  LET y == Storing(x, k) IN
         /\ y \in CallType /\ Same(y, x)
         /\ y.copy = x.copy /\ y.answer = x.answer /\ y.todo = x.todo /\ y.key = k
         /\ y.at = IF k = None THEN "works" ELSE "seal"
<1> DEFINE y == Storing(x, k)
           a == IF k = None THEN "works" ELSE "seal"
<1>0. DOMAIN x = {"tab", "op", "at", "found", "copy", "answer", "new", "todo", "key"}  BY CallFields
<1>1. a \in {"works", "seal"}  OBVIOUS
<1>2. y = [[x EXCEPT !.key = k] EXCEPT !.at = a]  BY DEF Storing
<1> HIDE DEF a, y
<1>3. y = [tab |-> x.tab, op |-> x.op, at |-> a, found |-> x.found, copy |-> x.copy,
           answer |-> x.answer, new |-> x.new, todo |-> x.todo, key |-> k]
  BY <1>0, <1>2
<1>4. k \in Keys  BY DEF Keys
<1>5. y \in CallType  BY <1>1, <1>3, <1>4 DEF CallType
<1>6. /\ Same(y, x)
      /\ y.copy = x.copy /\ y.answer = x.answer /\ y.todo = x.todo /\ y.key = k /\ y.at = a
  BY <1>3 DEF Same
<1> QED  BY <1>5, <1>6 DEF a, y

LEMMA AnsweredOK ==
  ASSUME NEW x \in CallType, x.op = "change" => x.new \in Secret,
         NEW a \in Secret \cup {None}, NEW first \in Seq(Secret)
  PROVE  LET y == Answered(x, a, first) IN
         /\ y \in CallType /\ Same(y, x)
         /\ y.copy = None /\ y.answer = a /\ y.at = x.at /\ y.key = x.key
         /\ first # <<>> => y.todo # <<>>
<1> DEFINE y == Answered(x, a, first)
           more == IF x.op = "change" /\ a # None /\ a # x.new THEN <<x.new>> ELSE <<>>
           f == first \o more
<1>0. DOMAIN x = {"tab", "op", "at", "found", "copy", "answer", "new", "todo", "key"}  BY CallFields
<1>1. more \in Seq(Secret)
  <2>1. CASE x.op = "change" /\ a # None /\ a # x.new
    <3>1. <<x.new>> \in Seq(Secret)  BY <2>1
    <3> QED  BY <2>1, <3>1
  <2>2. CASE ~ (x.op = "change" /\ a # None /\ a # x.new)  BY <2>2
  <2> QED  BY <2>1, <2>2
<1>2. y = [[[x EXCEPT !.copy = None] EXCEPT !.answer = a] EXCEPT !.todo = f]  BY DEF Answered
<1> HIDE DEF more, y
<1>3. f \in Seq(Secret)  BY <1>1
<1>4. first # <<>> => f # <<>>
  <2> SUFFICES ASSUME first # <<>> PROVE f # <<>>  OBVIOUS
  <2>1. Len(first) > 0  OBVIOUS
  <2>2. Len(f) = Len(first) + Len(more)  BY <1>1
  <2>3. Len(f) > 0  BY <1>1, <2>1, <2>2
  <2> QED  BY <2>3
<1> HIDE DEF f
<1>5. y = [tab |-> x.tab, op |-> x.op, at |-> x.at, found |-> x.found, copy |-> None,
           answer |-> a, new |-> x.new, todo |-> f, key |-> x.key]
  BY <1>0, <1>2
<1>6. y \in CallType  BY <1>3, <1>5 DEF CallType
<1>7. /\ Same(y, x) /\ y.copy = None /\ y.answer = a /\ y.at = x.at /\ y.key = x.key /\ y.todo = f
  BY <1>5 DEF Same
<1> QED  BY <1>4, <1>6, <1>7 DEF y

(* What a call has read is under the device key i, or it has been told what that was. *)
Told(x, i, able) ==
  /\ x.copy # None => able /\ x.copy.key = i
  /\ x.op \in {"launch", "change"} /\ x.copy = None => x.answer = x.found.secret

(* The answer of deviceKey: k is the key, where the browser holds one. *)
LEMMA GivenOK ==
  ASSUME NEW x \in CallType, x.tab \in Tab, NEW k \in Nat \cup {None},
         x.op \in {"launch", "change"} => BoxOK(x.found) /\ x.found # None,
         x.op = "change" => x.new \in Secret,
         x.copy # None => x.copy = x.found /\ x.op \in {"launch", "change"},
         x.copy = None => x.todo # <<>>
  PROVE  LET y == Given(x, k) IN
         /\ CallInv(y) /\ y.tab = x.tab /\ y.at \in {"done", "works", "seal"}
         /\ \A i, s, able :
              Told(x, i, able) /\ k = (IF able THEN i ELSE None) /\ (able => k # None)
                => Agrees(y, i, s, able)
<1> DEFINE y == Given(x, k)
           Next1 == /\ y \in CallType /\ Same(y, x) /\ y.copy = None
                    /\ \/ y.at = "done"
                       \/ y.at = "works" /\ k = None /\ y.todo # <<>>
                       \/ y.at = "seal" /\ k \in Nat /\ y.key = k /\ y.todo # <<>>
<1>0. None \notin Nat  BY SignInRecordAssumption
<1>1. CASE x.copy = None
  <2> DEFINE v == Storing(x, k)
  <2>1. y = v  BY <1>1 DEF Given
  <2>2. /\ v \in CallType /\ Same(v, x)
        /\ v.copy = x.copy /\ v.answer = x.answer /\ v.todo = x.todo /\ v.key = k
        /\ v.at = IF k = None THEN "works" ELSE "seal"
    BY StoringOK
  <2> HIDE DEF v, y
  <2>3. Next1 /\ y.answer = x.answer  BY <1>1, <2>1, <2>2
  <2> QED  BY <1>0, <1>1, <2>3 DEF CallInv, Same, Agrees, Told, y
<1>2. CASE x.copy # None
  <2> DEFINE a == IF k # None /\ k = x.copy.key THEN x.copy.secret ELSE None
             v == Answered(x, a, <<>>)
  <2>1. y = IF v.todo = <<>> THEN [v EXCEPT !.at = "done"] ELSE Storing(v, k)
    BY <1>2 DEF Given
  <2>2. x.copy \in Box /\ x.copy = x.found  BY <1>2 DEF BoxOK
  <2>3. a \in Secret \cup {None}  BY <2>2 DEF Box
  <2>4. <<>> \in Seq(Secret)  OBVIOUS
  <2>5. \A i, able : Told(x, i, able) /\ k = (IF able THEN i ELSE None) /\ (able => k # None)
          => able /\ a = x.found.secret
    BY <1>2, <2>2 DEF Told
  <2> HIDE DEF a, y
  <2>6. v \in CallType /\ Same(v, x) /\ v.copy = None /\ v.answer = a
    BY <2>3, <2>4, AnsweredOK
  <2> HIDE DEF v
  <2>7. Next1 /\ y.answer = a
    <3>1. CASE v.todo = <<>>
      <4>1. y = [v EXCEPT !.at = "done"]  BY <2>1, <3>1
      <4>2. y = [tab |-> v.tab, op |-> v.op, at |-> "done", found |-> v.found, copy |-> v.copy,
                 answer |-> v.answer, new |-> v.new, todo |-> v.todo, key |-> v.key]
        BY <2>6, <4>1, CallFields
      <4>3. y \in CallType  BY <2>6, <4>2 DEF CallType
      <4>4. Same(y, x) /\ y.copy = None /\ y.answer = a /\ y.at = "done"  BY <2>6, <4>2 DEF Same
      <4> QED  BY <4>3, <4>4
    <3>2. CASE v.todo # <<>>
      <4> DEFINE w == Storing(v, k)
      <4>1. y = w  BY <2>1, <3>2
      <4>2. /\ w \in CallType /\ Same(w, v)
            /\ w.copy = v.copy /\ w.answer = v.answer /\ w.todo = v.todo /\ w.key = k
            /\ w.at = IF k = None THEN "works" ELSE "seal"
        BY <2>6, StoringOK
      <4> HIDE DEF w
      <4> QED  BY <2>6, <3>2, <4>1, <4>2 DEF Same
    <3> QED  BY <3>1, <3>2
  <2>8. CallInv(y)  BY <1>0, <2>7 DEF CallInv, Same
  <2>9. ASSUME NEW i, NEW s, NEW able,
               Told(x, i, able) /\ k = (IF able THEN i ELSE None) /\ (able => k # None)
        PROVE  Agrees(y, i, s, able)
    <3>1. able /\ a = x.found.secret /\ k = i /\ k # None  BY <2>5, <2>9
    <3> QED  BY <1>0, <2>7, <3>1 DEF Agrees, Same
  <2> QED  BY <2>7, <2>8, <2>9 DEF y, Same
<1> QED  BY <1>1, <1>2

-----------------------------------------------------------------------------
(* The ways a step changes tabs and calls.                                 *)

(* All that a tab remembers of keys stays, and it is right about its database. *)
Remembering(t) ==
  /\ tab'[t].cached = tab[t].cached
  /\ tab'[t].open => canHold
  /\ tab'[t].blind => ~ canHold

(* One call goes on, and not to wait for the key. *)
LEMMA OneCallOK ==
  ASSUME ProcInv, NEW c \in Call, NEW y, CallInv(y), y.at # "key", call' = [call EXCEPT ![c] = y],
         tab' \in [Tab -> TabType], canHold' = canHold,
         \A t \in Tab : Remembering(t) /\ tab'[t].making = tab[t].making
  PROVE  ProcInv' /\ call'[c] = y /\ \A e \in Call \ {c} : call'[e] = call[e]
<1>1. call'[c] = y /\ DOMAIN call' = Call /\ \A e \in Call \ {c} : call'[e] = call[e]  BY DEF ProcInv
<1>2. \A e \in Call : CallInv(call'[e])  BY <1>1 DEF ProcInv
<1>3. \A t \in Tab : Waiting(t)' \subseteq Waiting(t)  BY <1>1 DEF Waiting
<1> QED  BY <1>1, <1>2, <1>3 DEF ProcInv, Remembering

(* Nothing changes of a tab but that it may begin to fetch the key. *)
Fetching(t) ==
  /\ Remembering(t)
  /\ tab'[t].making = tab[t].making \/ (tab[t].making = "no" /\ tab'[t].making = "get")

(* One call asks for the key, and is given the cached one or waits. *)
LEMMA AsksOK ==
  ASSUME ProcInv, NEW c \in Call, NEW x \in CallType, x.tab \in Tab, canHold' = canHold,
         NEW v, v = Asking(x.tab) \/ (canHold /\ v = [Asking(x.tab) EXCEPT !.open = TRUE]),
         tab' = [tab EXCEPT ![x.tab] = v],
         call' = [call EXCEPT ![c] =
           IF tab[x.tab].cached # None THEN Given(x, tab[x.tab].cached) ELSE [x EXCEPT !.at = "key"]],
         x.op \in {"launch", "change"} => BoxOK(x.found) /\ x.found # None,
         x.op = "change" => x.new \in Secret,
         x.copy # None => x.copy = x.found /\ x.op \in {"launch", "change"} /\ x.copy.scheme = "device",
         x.copy = None => x.todo # <<>>
  PROVE  /\ ProcInv'
         /\ \A e \in Call \ {c} : call'[e] = call[e]
         /\ \A t \in Tab : Fetching(t)
         /\ call'[c].at \in {"done", "key", "works", "seal"}
         /\ \A i, s, able :
              Told(x, i, able) /\ (tab[x.tab].cached # None => able /\ tab[x.tab].cached = i)
                => Agrees(call'[c], i, s, able)
<1> DEFINE t == x.tab
           k == tab[t].cached
           w == [x EXCEPT !.at = "key"]
<1>1. /\ tab \in [Tab -> TabType] /\ t \in Tab /\ k \in Nat \cup {None}
      /\ tab[t] \in TabType
  BY DEF ProcInv, TabType
<1>2. tab'[t] = v /\ \A u \in Tab \ {t} : tab'[u] = tab[u]  BY <1>1
<1>3. DOMAIN call' = Call /\ \A e \in Call \ {c} : call'[e] = call[e]  BY DEF ProcInv
<1>4. call'[c] = IF k # None THEN Given(x, k) ELSE w  BY DEF ProcInv
<1>5. /\ v \in TabType
      /\ Fetching(t)
      /\ k = None => v.making # "no"
  <2> DEFINE a == Asking(t)
  <2>1. /\ a \in TabType
        /\ a.cached = tab[t].cached /\ a.open = tab[t].open /\ a.blind = tab[t].blind
        /\ a.making = tab[t].making \/ (tab[t].making = "no" /\ a.making = "get")
        /\ k = None => a.making # "no"
    <3>1. CASE k = None /\ tab[t].making = "no"
      <4>1. a = [tab[t] EXCEPT !.making = "get"]  BY <3>1 DEF Asking
      <4> QED  BY <1>1, <3>1, <4>1 DEF TabType
    <3>2. CASE ~ (k = None /\ tab[t].making = "no")
      <4>1. a = tab[t]  BY <3>2 DEF Asking
      <4> QED  BY <1>1, <3>2, <4>1 DEF TabType
    <3> QED  BY <3>1, <3>2
  <2> HIDE DEF a
  <2>2. /\ v \in TabType /\ v.cached = a.cached /\ v.blind = a.blind /\ v.making = a.making
        /\ v.open = a.open \/ canHold
    <3>1. v = a \/ (canHold /\ v = [a EXCEPT !.open = TRUE])  BY DEF a
    <3> QED  BY <2>1, <3>1 DEF TabType
  <2>3. (tab[t].open => canHold) /\ (tab[t].blind => ~ canHold)  BY <1>1 DEF ProcInv
  <2> QED  BY <1>2, <2>1, <2>2, <2>3 DEF Fetching, Remembering
<1>6. \A u \in Tab : Fetching(u)  BY <1>2, <1>5 DEF Fetching, Remembering, ProcInv
<1>7. tab' \in [Tab -> TabType]  BY <1>1, <1>5
<1>8. /\ w \in CallType /\ Same(w, x)
      /\ w.copy = x.copy /\ w.answer = x.answer /\ w.todo = x.todo /\ w.at = "key"
  <2>1. DOMAIN x = {"tab", "op", "at", "found", "copy", "answer", "new", "todo", "key"}  BY CallFields
  <2>2. w = [tab |-> x.tab, op |-> x.op, at |-> "key", found |-> x.found, copy |-> x.copy,
             answer |-> x.answer, new |-> x.new, todo |-> x.todo, key |-> x.key]
    BY <2>1
  <2>3. w \in CallType  BY <2>2 DEF CallType
  <2> QED  BY <2>2, <2>3 DEF Same
<1> HIDE DEF w, k
<1>9. /\ CallInv(call'[c]) /\ call'[c].tab = t
      /\ call'[c].at \in {"done", "key", "works", "seal"}
      /\ call'[c].at = "key" => k = None
      /\ \A i, s, able :
           Told(x, i, able) /\ (k # None => able /\ k = i) => Agrees(call'[c], i, s, able)
  <2>1. CASE k # None
    <3> DEFINE y == Given(x, k)
    <3>1. /\ CallInv(y) /\ y.tab = x.tab /\ y.at \in {"done", "works", "seal"}
          /\ \A i, s, able :
               Told(x, i, able) /\ k = (IF able THEN i ELSE None) /\ (able => k # None)
                 => Agrees(y, i, s, able)
      BY <1>1, GivenOK
    <3>2. call'[c] = y  BY <1>4, <2>1
    <3> HIDE DEF y
    <3> QED  BY <2>1, <3>1, <3>2
  <2>2. CASE k = None
    <3>1. call'[c] = w  BY <1>4, <2>2
    <3>2. CallInv(w)  BY <1>1, <1>8 DEF CallInv, Same
    <3>3. \A i, s, able : Told(x, i, able) => Agrees(w, i, s, able)
      BY <1>8 DEF Agrees, Told, Same
    <3> QED  BY <1>8, <2>2, <3>1, <3>2, <3>3 DEF Same
  <2> QED  BY <2>1, <2>2
<1>10. \A e \in Call : CallInv(call'[e])  BY <1>3, <1>9 DEF ProcInv
<1>11. \A u \in Tab : Waiting(u)' # {} => tab'[u].making # "no"
  <2> SUFFICES ASSUME NEW u \in Tab, NEW e \in Call, call'[e].tab = u, call'[e].at = "key"
               PROVE  tab'[u].making # "no"
    BY DEF Waiting
  <2>1. CASE e = c  BY <1>2, <1>5, <1>9, <2>1
  <2>2. CASE e # c
    <3>1. Waiting(u) # {}  BY <1>3, <2>2 DEF Waiting
    <3> QED  BY <1>6, <3>1 DEF ProcInv, Fetching
  <2> QED  BY <2>1, <2>2
<1>12. \A u \in Tab : (tab'[u].open => canHold) /\ (tab'[u].blind => ~ canHold)
  BY <1>6 DEF Fetching, Remembering
<1>13. ProcInv'  BY <1>3, <1>7, <1>10, <1>11, <1>12 DEF ProcInv
<1> QED  BY <1>3, <1>6, <1>9, <1>13 DEF k

(* The fetch of a tab ends, and everybody who waits for it is answered. *)
LEMMA AnswerOK ==
  ASSUME ProcInv, NEW t \in Tab, NEW k \in Nat \cup {None}, Answer(t, k), canHold' = canHold,
         NEW v \in TabType, v.open => canHold, v.blind => ~ canHold, tab' = [tab EXCEPT ![t] = v]
  PROVE  /\ ProcInv'
         /\ tab'[t] = v /\ \A u \in Tab \ {t} : tab'[u] = tab[u]
         /\ \A c \in Call :
              /\ call'[c] = call[c] \/ call'[c].at \in {"done", "works", "seal"}
              /\ c \notin Waiting(t) => call'[c] = call[c]
              /\ \A i, s, able :
                   Agrees(call[c], i, s, able) /\ k = (IF able THEN i ELSE None) /\ (able => k # None)
                     => c \notin Waiting(t) \/ Agrees(call'[c], i, s, able)
<1>1. tab'[t] = v /\ tab' \in [Tab -> TabType] /\ \A u \in Tab \ {t} : tab'[u] = tab[u]
  BY DEF ProcInv
<1>2. /\ DOMAIN call' = Call
      /\ \A c \in Call : call'[c] = IF c \in Waiting(t) THEN Given(call[c], k) ELSE call[c]
  BY DEF Answer
<1>3. ASSUME NEW c \in Waiting(t)
      PROVE  /\ c \in Call
             /\ CallInv(call'[c]) /\ call'[c].at \in {"done", "works", "seal"}
             /\ \A i, s, able :
                  Agrees(call[c], i, s, able) /\ k = (IF able THEN i ELSE None) /\ (able => k # None)
                    => Agrees(call'[c], i, s, able)
  <2> DEFINE x == call[c]
             y == Given(x, k)
  <2>1. c \in Call /\ x.tab = t /\ x.at = "key" /\ CallInv(x)  BY DEF Waiting, ProcInv
  <2>2. call'[c] = y  BY <1>2, <2>1
  <2> HIDE DEF x
  <2>3. /\ x \in CallType /\ x.tab \in Tab
        /\ x.op \in {"launch", "change"} => BoxOK(x.found) /\ x.found # None
        /\ x.op = "change" => x.new \in Secret
        /\ x.copy # None => x.copy = x.found /\ x.op \in {"launch", "change"} /\ x.copy.scheme = "device"
        /\ x.copy = None => x.todo # <<>>
    BY <2>1 DEF CallInv
  <2>4. /\ CallInv(y) /\ y.at \in {"done", "works", "seal"}
        /\ \A i, s, able :
             Told(x, i, able) /\ k = (IF able THEN i ELSE None) /\ (able => k # None)
               => Agrees(y, i, s, able)
    BY <2>3, GivenOK
  <2> HIDE DEF y
  <2>5. \A i, s, able : Agrees(x, i, s, able) => Told(x, i, able)
    BY <2>3 DEF Agrees, Told
  <2>6. x = call[c]  BY DEF x
  <2> QED  BY <2>1, <2>2, <2>4, <2>5, <2>6
<1>4. \A c \in Call : CallInv(call'[c])  BY <1>2, <1>3 DEF ProcInv
<1>5. \A u \in Tab : Waiting(u)' # {} => u # t /\ Waiting(u) # {}
  <2> SUFFICES ASSUME NEW u \in Tab, NEW e \in Call, call'[e].tab = u, call'[e].at = "key"
               PROVE  u # t /\ Waiting(u) # {}
    BY DEF Waiting
  <2>1. e \notin Waiting(t)  BY <1>3
  <2>2. call[e].tab = u /\ call[e].at = "key"  BY <1>2, <2>1
  <2> QED  BY <2>1, <2>2 DEF Waiting
<1>6. ProcInv'  BY <1>1, <1>2, <1>4, <1>5 DEF ProcInv
<1> QED  BY <1>1, <1>2, <1>3, <1>6

-----------------------------------------------------------------------------
(* The same for the whole of Inv.                                          *)

LEMMA AskedOK ==
  ASSUME Inv, NEW c \in Call, NEW x \in CallType, x.tab \in Tab,
         NEW v, v = Asking(x.tab) \/ (canHold /\ v = [Asking(x.tab) EXCEPT !.open = TRUE]),
         tab' = [tab EXCEPT ![x.tab] = v],
         call' = [call EXCEPT ![c] =
           IF tab[x.tab].cached # None THEN Given(x, tab[x.tab].cached) ELSE [x EXCEPT !.at = "key"]],
         x.op \in {"launch", "change"} => BoxOK(x.found) /\ x.found # None,
         x.op = "change" => x.new \in Secret,
         x.copy # None => x.copy = x.found /\ x.op \in {"launch", "change"} /\ x.copy.scheme = "device",
         x.copy = None => x.todo # <<>>,
         UNCHANGED <<canHold, idb, salt, made, faults>>, BoxOK(record'),
         faults = {} => Told(x, idb, canHold) /\ Right(record', idb, salt, canHold)
  PROVE  Inv'
<1>1. /\ ProcInv'
      /\ \A e \in Call \ {c} : call'[e] = call[e]
      /\ \A t \in Tab : Fetching(t)
      /\ call'[c].at \in {"done", "key", "works", "seal"}
      /\ \A i, s, able :
           Told(x, i, able) /\ (tab[x.tab].cached # None => able /\ tab[x.tab].cached = i)
             => Agrees(call'[c], i, s, able)
  BY AsksOK DEF Inv, TypeInv
<1>2. TypeInv'  BY <1>1 DEF Inv, TypeInv
<1>3. AbleInv'  BY <1>1 DEF Inv, AbleInv
<1>4. RightInv'
  <2> SUFFICES ASSUME faults = {} PROVE RightInv'  BY DEF RightInv
  <2>1. /\ ~ canHold => idb = None
        /\ \A t \in Tab : tab[t].cached \in {None, idb}
        /\ canHold => \A t, u \in Tab :
             tab[t].making = "put" => idb = None /\ (tab[u].making = "put" => u = t)
        /\ \A e \in Call : Agrees(call[e], idb, salt, canHold)
    BY DEF Inv, RightInv
  <2>2. tab[x.tab].cached # None => canHold /\ tab[x.tab].cached = idb  BY <2>1
  <2>3. Agrees(call'[c], idb, salt, canHold)  BY <1>1, <2>2
  <2>4. \A e \in Call : Agrees(call'[e], idb, salt, canHold)  BY <1>1, <2>1, <2>3
  <2>5. \A t \in Tab : tab'[t].cached = tab[t].cached /\ (tab'[t].making = "put" => tab[t].making = "put")
    BY <1>1 DEF Fetching, Remembering
  <2>6. \A t \in Tab : tab'[t].cached \in {None, idb}  BY <2>1, <2>5
  <2>7. canHold => \A t, u \in Tab :
          tab'[t].making = "put" => idb = None /\ (tab'[u].making = "put" => u = t)
    BY <2>1, <2>5
  <2>8. \A e \in Call : Agrees(call[e], idb, salt, canHold)'
    <3> SUFFICES ASSUME NEW e \in Call PROVE Agrees(call'[e], idb', salt', canHold')  BY DEF Agrees
    <3> QED  BY <2>4
  <2>9. Right(record, idb, salt, canHold)'  BY DEF Right
  <2> QED  BY <2>1, <2>6, <2>7, <2>8, <2>9 DEF RightInv
<1> QED  BY <1>2, <1>3, <1>4 DEF Inv

LEMMA WentOnOK ==
  ASSUME Inv, NEW c \in Call, NEW y, CallInv(y), y.at # "key", call' = [call EXCEPT ![c] = y],
         tab' \in [Tab -> TabType], UNCHANGED <<canHold, idb>>,
         \A t \in Tab : Remembering(t) /\ tab'[t].making = tab[t].making,
         salt' \in Nat \cup {Old, None}, made' \in Nat, BoxOK(record'),
         faults \subseteq faults',
         canHold /\ "open" \notin faults' => y.at \notin {"legacy", "sealOld"},
         faults' = {} => /\ Right(record', idb, salt', canHold)
                         /\ Agrees(y, idb, salt', canHold)
                         /\ \A e \in Call \ {c} : Agrees(call[e], idb, salt', canHold)
  PROVE  Inv'
<1>1. ProcInv' /\ call'[c] = y /\ \A e \in Call \ {c} : call'[e] = call[e]
  BY OneCallOK DEF Inv, TypeInv
<1>2. TypeInv'  BY <1>1 DEF Inv, TypeInv
<1>3. AbleInv'  BY <1>1 DEF Inv, AbleInv
<1>4. RightInv'
  <2> SUFFICES ASSUME faults' = {} PROVE RightInv'  BY DEF RightInv
  <2>1. faults = {}  OBVIOUS
  <2>2. /\ ~ canHold => idb = None
        /\ \A t \in Tab : tab[t].cached \in {None, idb}
        /\ canHold => \A t, u \in Tab :
             tab[t].making = "put" => idb = None /\ (tab[u].making = "put" => u = t)
    BY <2>1 DEF Inv, RightInv
  <2>3. \A t \in Tab : tab'[t].cached = tab[t].cached /\ tab'[t].making = tab[t].making
    BY DEF Remembering
  <2>4. \A e \in Call : Agrees(call[e], idb, salt, canHold)'
    <3> SUFFICES ASSUME NEW e \in Call PROVE Agrees(call'[e], idb', salt', canHold')  BY DEF Agrees
    <3> QED  BY <1>1
  <2>5. Right(record, idb, salt, canHold)'  BY DEF Right
  <2> QED  BY <2>2, <2>3, <2>4, <2>5 DEF RightInv
<1> QED  BY <1>2, <1>3, <1>4 DEF Inv

(* Tabs that stay as they are. *)
LEMMA TabsStay ==
  ASSUME Inv, UNCHANGED <<canHold, tab>>
  PROVE  tab' \in [Tab -> TabType] /\ \A t \in Tab : Remembering(t) /\ tab'[t].making = tab[t].making
BY DEF Inv, TypeInv, ProcInv, Remembering

(* Where there was no salt, nothing was under it, and a new one may come. *)
LEMMA UnsaltedAgrees ==
  ASSUME NEW x, CallInv(x), NEW i, NEW able, Agrees(x, i, None, able), NEW s
  PROVE  Agrees(x, i, s, able)
<1>1. None \notin Nat \cup {Old}  BY SignInRecordAssumption
<1>2. x.copy # None => x.copy.key # None
  BY <1>1 DEF CallInv, BoxOK, Box
<1> QED  BY <1>1, <1>2 DEF CallInv, Agrees

-----------------------------------------------------------------------------
(* Storing.                                                                *)

(* What is left of a call when it is done with the first thing it stores. *)
LEMMA TailOK ==
  ASSUME NEW x, CallInv(x), x.todo # <<>>, x.copy = None, NEW k \in Keys,
         NEW y, y = [x EXCEPT !.todo = Tail(x.todo)] \/ y = [x EXCEPT !.todo = Tail(x.todo), !.key = k]
  PROVE  /\ y \in CallType /\ Same(y, x) /\ y.copy = None /\ y.answer = x.answer /\ y.at = x.at
         /\ y.todo = Tail(x.todo) /\ Head(x.todo) \in Secret
<1> DEFINE r == Tail(x.todo)
<1>1. x \in CallType /\ x.todo \in Seq(Secret)  BY DEF CallInv, CallType
<1>2. r \in Seq(Secret) /\ Head(x.todo) \in Secret  BY <1>1
<1>3. DOMAIN x = {"tab", "op", "at", "found", "copy", "answer", "new", "todo", "key"}
  BY <1>1, CallFields
<1> HIDE DEF r
<1>4. PICK j \in {x.key, k} : y = [[x EXCEPT !.todo = r] EXCEPT !.key = j]
  <2>1. CASE y = [x EXCEPT !.todo = r]
    <3>1. y = [[x EXCEPT !.todo = r] EXCEPT !.key = x.key]  BY <1>3, <2>1
    <3> QED  BY <3>1
  <2>2. CASE y = [x EXCEPT !.todo = r, !.key = k]  BY <2>2
  <2> QED  BY <2>1, <2>2 DEF r
<1>5. y = [tab |-> x.tab, op |-> x.op, at |-> x.at, found |-> x.found, copy |-> x.copy,
           answer |-> x.answer, new |-> x.new, todo |-> r, key |-> j]
  BY <1>3, <1>4
<1>6. j \in Keys  BY <1>1, <1>4 DEF CallType
<1>7. y \in CallType  BY <1>1, <1>2, <1>5, <1>6 DEF CallType
<1> QED  BY <1>2, <1>5, <1>7 DEF Same, r

(* A call that is where it was but for its place. *)
LEMMA MovedOK ==
  ASSUME NEW x \in CallType,
         NEW a \in {"done", "key", "works", "seal", "legacy", "sealOld", "retire", "oldKey"},
         NEW y, y = [x EXCEPT !.at = a]
  PROVE  /\ y \in CallType /\ Same(y, x) /\ y.at = a
         /\ y.copy = x.copy /\ y.answer = x.answer /\ y.todo = x.todo /\ y.key = x.key
<1>1. DOMAIN x = {"tab", "op", "at", "found", "copy", "answer", "new", "todo", "key"}  BY CallFields
<1>2. y = [tab |-> x.tab, op |-> x.op, at |-> a, found |-> x.found, copy |-> x.copy,
           answer |-> x.answer, new |-> x.new, todo |-> x.todo, key |-> x.key]
  BY <1>1
<1>3. y \in CallType  BY <1>2 DEF CallType
<1> QED  BY <1>2, <1>3 DEF Same

(* Storing ends, or goes on to the new password. *)
LEMMA StoredOK ==
  ASSUME Inv, NEW c \in Call, call[c].at \in {"seal", "sealOld"}, Stored(c),
         UNCHANGED <<canHold, idb, salt, made, faults>>, BoxOK(record'),
         faults = {} => Right(record', idb, salt, canHold)
  PROVE  Inv'
<1> DEFINE x == [call[c] EXCEPT !.todo = Tail(call[c].todo), !.key = None]
<1>1. CallInv(call[c]) /\ call[c].tab \in Tab /\ call[c].copy = None /\ call[c].todo # <<>>
  <2>1. CallInv(call[c])  BY DEF Inv, TypeInv, ProcInv
  <2> QED  BY <2>1 DEF CallInv
<1>2. None \in Keys  BY DEF Keys
<1>3. /\ x \in CallType /\ Same(x, call[c]) /\ x.copy = None /\ x.answer = call[c].answer
  <2> DEFINE z == call[c]
  <2>1. x = [z EXCEPT !.todo = Tail(z.todo), !.key = None]  OBVIOUS
  <2>2. CallInv(z) /\ z.todo # <<>> /\ z.copy = None  BY <1>1
  <2> HIDE DEF x, z
  <2>3. /\ x \in CallType /\ Same(x, z) /\ x.copy = None /\ x.answer = z.answer
    BY <1>2, <2>1, <2>2, TailOK, ZenonT(40)
  <2> QED  BY <2>3 DEF z
<1>4. /\ IF x.todo # <<>> THEN Asks(c, x)
         ELSE /\ call' = [call EXCEPT ![c] =
                            [x EXCEPT !.at = IF x.op = "signIn" THEN "retire" ELSE "done"]]
              /\ UNCHANGED tab
  BY DEF Stored
<1>5. faults = {} => \A e \in Call : Agrees(call[e], idb, salt, canHold)  BY DEF Inv, RightInv
<1> HIDE DEF x
<1>6. /\ x.tab \in Tab
      /\ x.op \in {"launch", "change"} => BoxOK(x.found) /\ x.found # None
      /\ x.op = "change" => x.new \in Secret
  BY <1>1, <1>3 DEF CallInv, Same
<1>7. CASE x.todo # <<>>
  <2>1. Asks(c, x)  BY <1>4, <1>7
  <2>2. faults = {} => Told(x, idb, canHold)  BY <1>1, <1>3, <1>5 DEF Agrees, Told, Same
  <2> DEFINE v == Asking(x.tab)
  <2>3. /\ tab' = [tab EXCEPT ![x.tab] = v]
        /\ call' = [call EXCEPT ![c] =
             IF tab[x.tab].cached # None THEN Given(x, tab[x.tab].cached) ELSE [x EXCEPT !.at = "key"]]
    BY <2>1 DEF Asks
  <2> QED  BY <1>3, <1>6, <1>7, <2>2, <2>3, AskedOK
<1>8. CASE x.todo = <<>>
  <2> DEFINE a == IF x.op = "signIn" THEN "retire" ELSE "done"
             y == [x EXCEPT !.at = a]
  <2>1. call' = [call EXCEPT ![c] = y] /\ UNCHANGED tab  BY <1>4, <1>8
  <2>2. a \in {"retire", "done"}  OBVIOUS
  <2> HIDE DEF a
  <2>3. y \in CallType /\ Same(y, x) /\ y.at = a /\ y.copy = None /\ y.answer = x.answer
    BY <1>3, <2>2, MovedOK
  <2> HIDE DEF y
  <2>4. CallInv(y)  BY <1>6, <2>2, <2>3 DEF CallInv, Same
  <2>5. faults = {} => Agrees(y, idb, salt, canHold)
    BY <1>1, <1>3, <1>5, <2>2, <2>3 DEF Agrees, Same
  <2>6. /\ tab' \in [Tab -> TabType]
        /\ \A t \in Tab : Remembering(t) /\ tab'[t].making = tab[t].making
    BY <2>1, TabsStay
  <2>7. salt \in Nat \cup {Old, None} /\ made \in Nat  BY DEF Inv, TypeInv
  <2>8. y.at \notin {"key", "legacy", "sealOld"}  BY <2>2, <2>3
  <2> QED  BY <1>5, <2>1, <2>4, <2>5, <2>6, <2>7, <2>8, WentOnOK
<1> QED  BY <1>7, <1>8

LEMMA SealOK ==
  ASSUME Inv, NEW c \in Call, Seal(c)
  PROVE  Inv'
<1> DEFINE x == call[c]
           b == Boxed("device", x.key, Head(x.todo))
<1>1. CallInv(x)  BY DEF Inv, TypeInv, ProcInv
<1>2. x.at = "seal" /\ record' = b /\ Stored(c) /\ UNCHANGED <<canHold, idb, salt, made, faults>>
  BY DEF Seal
<1>3. x.key \in Nat /\ x.todo # <<>> /\ x.todo \in Seq(Secret)  BY <1>1, <1>2 DEF CallInv, CallType
<1>4. Head(x.todo) \in Secret  BY <1>3
<1>5. BoxOK(b) /\ b.scheme = "device" /\ b.key = x.key  BY <1>3, <1>4 DEF BoxOK, Box, Boxed
<1>6. faults = {} => Agrees(x, idb, salt, canHold)  BY DEF Inv, RightInv
<1> HIDE DEF b, x
<1>7. faults = {} => Right(b, idb, salt, canHold)  BY <1>2, <1>5, <1>6 DEF Agrees, Right
<1>8. x = call[c]  BY DEF x
<1> QED  BY <1>2, <1>5, <1>7, <1>8, StoredOK

LEMMA SealOldOK ==
  ASSUME Inv, NEW c \in Call, SealOld(c)
  PROVE  Inv'
<1> DEFINE x == call[c]
           b == Boxed("fingerprint", x.key, Head(x.todo))
<1>1. CallInv(x)  BY DEF Inv, TypeInv, ProcInv
<1>2. x.at = "sealOld" /\ record' = b /\ Stored(c) /\ UNCHANGED <<canHold, idb, salt, made, faults>>
  BY DEF SealOld
<1>3. x.key \in Nat \cup {Old} /\ x.todo # <<>> /\ x.todo \in Seq(Secret)
  BY <1>1, <1>2 DEF CallInv, CallType
<1>4. Head(x.todo) \in Secret  BY <1>3
<1>5. BoxOK(b) /\ b.scheme = "fingerprint" /\ b.key = x.key  BY <1>3, <1>4 DEF BoxOK, Box, Boxed
<1>6. faults = {} => Agrees(x, idb, salt, canHold)  BY DEF Inv, RightInv
<1> HIDE DEF b, x
<1>7. faults = {} => Right(b, idb, salt, canHold)  BY <1>2, <1>5, <1>6 DEF Agrees, Right
<1>8. x = call[c]  BY DEF x
<1> QED  BY <1>2, <1>5, <1>7, <1>8, StoredOK

(* A database that opens: a call that was at "works" had met a failure. *)
LEMMA RefuseOK ==
  ASSUME Inv, NEW c \in Call, Refuse(c)
  PROVE  Inv'
<1> DEFINE z == call[c]
           t == z.tab
           x == [z EXCEPT !.todo = Tail(z.todo)]
           a == IF x.op = "signIn" THEN "retire" ELSE "done"
           y == [x EXCEPT !.at = a]
           v == [Asking(t) EXCEPT !.open = TRUE]
<1>1. z.at = "works" /\ canHold /\ UNCHANGED <<canHold, idb, record, salt, made, faults>>
  BY DEF Refuse, Opens
<1>2. IF x.todo = <<>>
      THEN tab' = [tab EXCEPT ![t].open = TRUE] /\ call' = [call EXCEPT ![c] = y]
      ELSE /\ tab' = [tab EXCEPT ![t] = v]
           /\ call' = [call EXCEPT ![c] = IF tab[t].cached # None THEN Given(x, tab[t].cached)
                                          ELSE [x EXCEPT !.at = "key"]]
  BY DEF Refuse
<1>3. CallInv(z)  BY DEF Inv, TypeInv, ProcInv
<1>4. t \in Tab /\ z.copy = None /\ z.todo # <<>>  BY <1>1, <1>3 DEF CallInv
<1>5. faults # {}
  <2>1. faults = {} => Agrees(z, idb, salt, canHold)  BY DEF Inv, RightInv
  <2> QED  BY <1>1, <2>1 DEF Agrees
<1>6. /\ salt \in Nat \cup {Old, None} /\ made \in Nat /\ BoxOK(record)
      /\ \A u \in Tab : (tab[u].open => canHold) /\ (tab[u].blind => ~ canHold)
      /\ tab \in [Tab -> TabType]
  BY DEF Inv, TypeInv, ProcInv
<1> HIDE DEF z
<1>7. None \in Keys  BY DEF Keys
<1>8. /\ x \in CallType /\ Same(x, z) /\ x.copy = None /\ x.answer = z.answer
  <2>1. x = [z EXCEPT !.todo = Tail(z.todo)]  OBVIOUS
  <2> HIDE DEF x
  <2> QED  BY <1>3, <1>4, <1>7, <2>1, TailOK
<1> HIDE DEF x
<1>9. /\ x.tab = t
      /\ x.op \in {"launch", "change"} => BoxOK(x.found) /\ x.found # None
      /\ x.op = "change" => x.new \in Secret
  BY <1>3, <1>8 DEF CallInv, Same
<1>10. CASE x.todo = <<>>
  <2>1. tab' = [tab EXCEPT ![t].open = TRUE] /\ call' = [call EXCEPT ![c] = y]  BY <1>2, <1>10
  <2>2. a \in {"retire", "done"}  OBVIOUS
  <2> HIDE DEF a
  <2>3. y \in CallType /\ Same(y, x) /\ y.at = a /\ y.copy = None  BY <1>8, <2>2, MovedOK
  <2> HIDE DEF y
  <2>4. CallInv(y)  BY <1>4, <1>9, <2>2, <2>3 DEF CallInv, Same
  <2>5. /\ tab' \in [Tab -> TabType]
        /\ \A u \in Tab : /\ tab'[u].cached = tab[u].cached /\ tab'[u].making = tab[u].making
                          /\ tab'[u].open => canHold
                          /\ tab'[u].blind = tab[u].blind
    <3>1. [tab[t] EXCEPT !.open = TRUE] \in TabType  BY <1>4, <1>6, ZenonT(40) DEF TabType
    <3> QED  BY <1>1, <1>4, <1>6, <2>1, <3>1 DEF TabType
  <2>6. \A u \in Tab : Remembering(u) /\ tab'[u].making = tab[u].making
    BY <1>6, <2>5 DEF Remembering
  <2>7. y.at \notin {"key", "legacy", "sealOld"}  BY <2>2, <2>3
  <2> QED  BY <1>1, <1>5, <1>6, <2>1, <2>4, <2>5, <2>6, <2>7, WentOnOK
<1>11. CASE x.todo # <<>>
  <2>1. /\ tab' = [tab EXCEPT ![x.tab] = v]
        /\ call' = [call EXCEPT ![c] =
             IF tab[x.tab].cached # None THEN Given(x, tab[x.tab].cached) ELSE [x EXCEPT !.at = "key"]]
    BY <1>2, <1>9, <1>11
  <2>2. v = [Asking(x.tab) EXCEPT !.open = TRUE]  BY <1>9
  <2> HIDE DEF v, t
  <2>3. x.tab \in Tab  BY <1>4, <1>9
  <2> QED  BY <1>1, <1>5, <1>6, <1>8, <1>9, <1>11, <2>1, <2>2, <2>3, AskedOK
<1> QED  BY <1>10, <1>11

LEMMA SignInOK ==
  ASSUME Inv, NEW c \in Call, NEW t \in Tab, NEW s \in Secret, SignIn(c, t, s)
  PROVE  Inv'
<1> DEFINE x == [NoCall EXCEPT !.tab = t, !.op = "signIn", !.todo = <<s>>]
<1>1. Asks(c, x) /\ UNCHANGED <<canHold, idb, record, salt, made, faults>>  BY DEF SignIn
<1>2. x = [tab |-> t, op |-> "signIn", at |-> "done", found |-> None, copy |-> None, answer |-> None,
           new |-> None, todo |-> <<s>>, key |-> None]
  <2> DEFINE n == NoCall
  <2>1. DOMAIN n = {"tab", "op", "at", "found", "copy", "answer", "new", "todo", "key"}  BY DEF NoCall
  <2>2. n.at = "done" /\ n.found = None /\ n.copy = None /\ n.answer = None /\ n.new = None /\ n.key = None
    BY DEF NoCall
  <2>3. x = [[[n EXCEPT !.tab = t] EXCEPT !.op = "signIn"] EXCEPT !.todo = <<s>>]  OBVIOUS
  <2> HIDE DEF n, x
  <2> QED  BY <2>1, <2>2, <2>3
<1>3. <<s>> \in Seq(Secret) /\ <<s>> # <<>> /\ None \in Keys  BY DEF Keys
<1> HIDE DEF x
<1>4. x \in CallType  BY <1>2, <1>3 DEF CallType
<1>5. x.tab = t /\ x.op = "signIn" /\ x.copy = None /\ x.todo # <<>>  BY <1>2, <1>3
<1>6. /\ tab' = [tab EXCEPT ![x.tab] = Asking(x.tab)]
      /\ call' = [call EXCEPT ![c] =
           IF tab[x.tab].cached # None THEN Given(x, tab[x.tab].cached) ELSE [x EXCEPT !.at = "key"]]
  BY <1>1 DEF Asks
<1>7. Told(x, idb, canHold)  BY <1>5 DEF Told
<1>8. BoxOK(record) /\ (faults = {} => Right(record, idb, salt, canHold))
  BY DEF Inv, TypeInv, RightInv
<1> QED  BY <1>1, <1>4, <1>5, <1>6, <1>7, <1>8, AskedOK

(* The record is read, and what was read is under the key there is now. *)
LEMMA ReadOK ==
  ASSUME Inv, NEW c \in Call, NEW t \in Tab, NEW op \in {"launch", "change"},
         NEW s \in Secret \cup {None}, op = "change" => s \in Secret, Read(c, t, op, s)
  PROVE  Inv'
<1> DEFINE x == [NoCall EXCEPT !.tab = t, !.op = op, !.new = s, !.found = record, !.copy = record]
<1>1. /\ record # None
      /\ IF record.scheme = "device" THEN Asks(c, x)
         ELSE call' = [call EXCEPT ![c] = [x EXCEPT !.at = "oldKey"]] /\ UNCHANGED tab
      /\ UNCHANGED <<canHold, idb, record, salt, made, faults>>
  BY DEF Read
<1>2. x = [tab |-> t, op |-> op, at |-> "done", found |-> record, copy |-> record, answer |-> None,
           new |-> s, todo |-> <<>>, key |-> None]
  <2> DEFINE n == NoCall
  <2>1. DOMAIN n = {"tab", "op", "at", "found", "copy", "answer", "new", "todo", "key"}  BY DEF NoCall
  <2>2. n.at = "done" /\ n.answer = None /\ n.todo = <<>> /\ n.key = None  BY DEF NoCall
  <2>3. x = [[[[[n EXCEPT !.tab = t] EXCEPT !.op = op] EXCEPT !.new = s] EXCEPT !.found = record]
             EXCEPT !.copy = record]
    OBVIOUS
  <2> HIDE DEF n, x
  <2> QED  BY <2>1, <2>2, <2>3
<1>3. /\ BoxOK(record) /\ salt \in Nat \cup {Old, None} /\ made \in Nat
      /\ faults = {} => /\ Right(record, idb, salt, canHold)
                        /\ \A e \in Call : Agrees(call[e], idb, salt, canHold)
  BY DEF Inv, TypeInv, RightInv
<1>4. record \in [scheme : {"device", "fingerprint"}, key : Keys, secret : Secret]
  BY <1>1, <1>3 DEF BoxOK, Box, Keys
<1>5. <<>> \in Seq(Secret) /\ None \in Keys  BY DEF Keys
<1> HIDE DEF x
<1>6. x \in CallType  BY <1>2, <1>4, <1>5 DEF CallType
<1>7. /\ x.tab = t /\ x.op = op /\ x.copy = record /\ x.found = record /\ x.new = s
  BY <1>2
<1>8. CASE record.scheme = "device"
  <2>1. /\ tab' = [tab EXCEPT ![x.tab] = Asking(x.tab)]
        /\ call' = [call EXCEPT ![c] =
             IF tab[x.tab].cached # None THEN Given(x, tab[x.tab].cached) ELSE [x EXCEPT !.at = "key"]]
    BY <1>1, <1>8 DEF Asks
  <2>2. faults = {} => Told(x, idb, canHold)  BY <1>1, <1>3, <1>7, <1>8 DEF Right, Told
  <2> QED  BY <1>1, <1>3, <1>6, <1>7, <1>8, <2>1, <2>2, AskedOK
<1>9. CASE record.scheme # "device"
  <2> DEFINE y == [x EXCEPT !.at = "oldKey"]
  <2>1. call' = [call EXCEPT ![c] = y] /\ UNCHANGED tab  BY <1>1, <1>9
  <2>2. y \in CallType /\ Same(y, x) /\ y.at = "oldKey" /\ y.copy = x.copy
    BY <1>6, MovedOK
  <2> HIDE DEF y
  <2>3. record.scheme = "fingerprint"  BY <1>4, <1>9
  <2>4. CallInv(y)  BY <1>1, <1>3, <1>7, <2>2, <2>3 DEF CallInv, Same
  <2>5. faults = {} => Agrees(y, idb, salt, canHold)
    BY <1>1, <1>3, <1>7, <2>2, <2>3 DEF Agrees, Right
  <2>6. /\ tab' \in [Tab -> TabType]
        /\ \A u \in Tab : Remembering(u) /\ tab'[u].making = tab[u].making
    BY <1>1, <2>1, TabsStay
  <2>7. y.at \notin {"key", "legacy", "sealOld"}  BY <2>2
  <2> QED  BY <1>1, <1>3, <2>1, <2>4, <2>5, <2>6, <2>7, WentOnOK
<1> QED  BY <1>8, <1>9

(* A record of the old scheme that opens is stored again, under the new key if there is one. *)
LEMMA UpgradeOK ==
  ASSUME Inv, NEW c \in Call, Upgrade(c)
  PROVE  Inv'
<1> DEFINE z == call[c]
           x == Answered(z, z.copy.secret, <<z.copy.secret>>)
<1>1. /\ z.at = "oldKey" /\ Asks(c, x)
      /\ UNCHANGED <<canHold, idb, record, salt, made, faults>>
  BY DEF Upgrade
<1>2. CallInv(z)  BY DEF Inv, TypeInv, ProcInv
<1>3. /\ BoxOK(record)
      /\ faults = {} => Right(record, idb, salt, canHold)
  BY DEF Inv, TypeInv, RightInv
<1> HIDE DEF z
<1>4. z.copy # None /\ z.copy = z.found /\ z.found \in Box /\ z.tab \in Tab /\ z \in CallType
  BY <1>1, <1>2 DEF CallInv, BoxOK
<1>5. z.copy.secret \in Secret  BY <1>4 DEF Box
<1> DEFINE f == <<z.copy.secret>>
<1>6. f \in Seq(Secret) /\ f # <<>>  BY <1>5
<1>7. x = Answered(z, z.copy.secret, f)  OBVIOUS
<1> HIDE DEF f, x
<1>8. x \in CallType /\ Same(x, z) /\ x.copy = None /\ x.answer = z.copy.secret /\ x.todo # <<>>
  BY <1>2, <1>4, <1>5, <1>6, <1>7, AnsweredOK DEF CallInv
<1>9. /\ x.tab \in Tab
      /\ x.op \in {"launch", "change"} => BoxOK(x.found) /\ x.found # None
      /\ x.op = "change" => x.new \in Secret
      /\ Told(x, idb, canHold)
  BY <1>2, <1>4, <1>8 DEF CallInv, Same, Told
<1>10. /\ tab' = [tab EXCEPT ![x.tab] = Asking(x.tab)]
       /\ call' = [call EXCEPT ![c] =
            IF tab[x.tab].cached # None THEN Given(x, tab[x.tab].cached) ELSE [x EXCEPT !.at = "key"]]
  BY <1>1 DEF Asks
<1> QED  BY <1>1, <1>3, <1>8, <1>9, <1>10, AskedOK

-----------------------------------------------------------------------------
(* The old scheme.                                                         *)

(* An access that comes to nothing is remembered only by a browser that has no database. *)
LEMMA FailsOK ==
  ASSUME Inv, NEW t \in Tab, NEW m \in {"no", "get", "put"}, OpenFails(t, m) \/ AccessFails(t, m)
  PROVE  /\ \E v \in TabType : /\ tab' = [tab EXCEPT ![t] = v]
                               /\ v.open => canHold
                               /\ v.blind => ~ canHold
                               /\ v.cached = tab[t].cached /\ v.making = m
         /\ faults \subseteq faults' /\ (faults' = {} => ~ canHold)
         /\ OpenFails(t, m) => ~ canHold \/ "open" \in faults'
<1> DEFINE z == tab[t]
           v1 == [[z EXCEPT !.blind = TRUE] EXCEPT !.making = m]
           v2 == [z EXCEPT !.making = m]
           v3 == [[z EXCEPT !.open = TRUE] EXCEPT !.making = m]
           Fits(v) == /\ v \in TabType /\ v.cached = z.cached /\ v.making = m
                      /\ v.open => canHold
                      /\ v.blind => ~ canHold
<1>1. tab \in [Tab -> TabType] /\ (z.open => canHold) /\ (z.blind => ~ canHold)
  BY DEF Inv, TypeInv, ProcInv
<1>2. \/ ~ canHold /\ tab' = [tab EXCEPT ![t] = v1] /\ faults' = faults
      \/ canHold /\ tab' = [tab EXCEPT ![t] = v2] /\ faults' = faults \cup {"open"}
      \/ canHold /\ tab' = [tab EXCEPT ![t] = v3] /\ faults' = faults \cup {"request"}
  <2>1. CASE ~ canHold
    <3>1. tab' = [tab EXCEPT ![t].blind = TRUE, ![t].making = m] /\ faults' = faults
      BY <2>1 DEF AccessFails, OpenFails, FailsToOpen, FailsToAnswer
    <3>2. tab' = [tab EXCEPT ![t] = v1]  BY <1>1, <3>1
    <3> QED  BY <2>1, <3>1, <3>2
  <2>2. CASE canHold
    <3>1. \/ tab' = [tab EXCEPT ![t].making = m] /\ faults' = faults \cup {"open"}
          \/ tab' = [tab EXCEPT ![t].open = TRUE, ![t].making = m] /\ faults' = faults \cup {"request"}
      BY <2>2 DEF AccessFails, OpenFails, FailsToOpen, FailsToAnswer
    <3>2. CASE tab' = [tab EXCEPT ![t].making = m] /\ faults' = faults \cup {"open"}
      <4>1. tab' = [tab EXCEPT ![t] = v2]  BY <1>1, <3>2
      <4> QED  BY <2>2, <3>2, <4>1
    <3>3. CASE tab' = [tab EXCEPT ![t].open = TRUE, ![t].making = m] /\ faults' = faults \cup {"request"}
      <4>1. tab' = [tab EXCEPT ![t] = v3]  BY <1>1, <3>3
      <4> QED  BY <2>2, <3>3, <4>1
    <3> QED  BY <3>1, <3>2, <3>3
  <2> QED  BY <2>1, <2>2
<1>3. z \in TabType  BY <1>1
<1>4. (~ canHold => Fits(v1)) /\ (canHold => Fits(v2) /\ Fits(v3))
  BY <1>1, <1>3 DEF TabType
<1>5. \E v : tab' = [tab EXCEPT ![t] = v] /\ Fits(v)
  <2> HIDE DEF v1, v2, v3, Fits
  <2> QED  BY <1>2, <1>4
<1>6. OpenFails(t, m) /\ canHold => faults' = faults \cup {"open"}  BY DEF OpenFails, FailsToOpen
<1>7. faults \subseteq faults' /\ (faults' = {} => ~ canHold)  BY <1>2
<1> QED  BY <1>5, <1>6, <1>7

LEMMA DespairOK ==
  ASSUME Inv, NEW c \in Call, Despair(c)
  PROVE  Inv'
<1> DEFINE z == call[c]
           t == z.tab
           m == tab[t].making
           y == [z EXCEPT !.at = "legacy"]
<1>1. z.at = "works" /\ OpenFails(t, m) /\ UNCHANGED <<canHold, idb, record, salt, made>>
  BY DEF Despair
<1>2. CallInv(z)  BY DEF Inv, TypeInv, ProcInv
<1>3. z.copy = None /\ z.todo # <<>> /\ t \in Tab /\ z \in CallType  BY <1>1, <1>2 DEF CallInv
<1>4. tab \in [Tab -> TabType] /\ m \in {"no", "get", "put"}
  BY <1>3 DEF Inv, TypeInv, ProcInv, TabType
<1>5. /\ \E v \in TabType : /\ tab' = [tab EXCEPT ![t] = v]
                            /\ v.open => canHold
                            /\ v.blind => ~ canHold
                            /\ v.cached = tab[t].cached /\ v.making = m
      /\ faults \subseteq faults' /\ (faults' = {} => ~ canHold)
      /\ ~ canHold \/ "open" \in faults'
  BY <1>1, <1>3, <1>4, FailsOK
<1>6. call' = [call EXCEPT ![c] = y]  BY DEF Despair
<1>7. /\ \A u \in Tab : (tab[u].open => canHold) /\ (tab[u].blind => ~ canHold)
      /\ salt \in Nat \cup {Old, None} /\ made \in Nat /\ BoxOK(record)
      /\ faults = {} => /\ Right(record, idb, salt, canHold)
                        /\ \A e \in Call : Agrees(call[e], idb, salt, canHold)
  BY DEF Inv, TypeInv, ProcInv, RightInv
<1>8. faults = {} => Agrees(z, idb, salt, canHold)  BY <1>7
<1> HIDE DEF z
<1>9. y \in CallType /\ Same(y, z) /\ y.at = "legacy" /\ y.copy = None /\ y.todo # <<>>
      /\ y.answer = z.answer
  BY <1>3, MovedOK
<1> HIDE DEF y
<1>10. CallInv(y)  BY <1>2, <1>3, <1>9 DEF CallInv, Same
<1>11. faults' = {} => Agrees(y, idb, salt, canHold)
  BY <1>3, <1>5, <1>8, <1>9 DEF Agrees, Same
<1>12. /\ tab' \in [Tab -> TabType]
       /\ \A u \in Tab : Remembering(u) /\ tab'[u].making = tab[u].making
  BY <1>3, <1>4, <1>5, <1>7 DEF Remembering
<1>13. y.at # "key" /\ ~ (canHold /\ "open" \notin faults')  BY <1>5, <1>9
<1>14. faults' = {} => faults = {}  BY <1>5
<1> QED  BY <1>1, <1>5, <1>6, <1>7, <1>10, <1>11, <1>12, <1>13, <1>14, WentOnOK

(* A new salt comes only where there was none. *)
LEMMA SaltedOK ==
  ASSUME Inv, Salted
  PROVE  /\ salt' \in Nat \cup {Old} /\ made' \in Nat
         /\ faults = {} /\ UNCHANGED record
              => /\ Right(record', idb, salt', canHold)
                 /\ \A e \in Call : Agrees(call[e], idb, salt', canHold)
<1>1. /\ salt \in Nat \cup {Old, None} /\ made \in Nat /\ BoxOK(record)
      /\ \A e \in Call : CallInv(call[e])
      /\ faults = {} => /\ Right(record, idb, salt, canHold)
                        /\ \A e \in Call : Agrees(call[e], idb, salt, canHold)
  BY DEF Inv, TypeInv, ProcInv, RightInv
<1>2. salt' \in Nat \cup {Old} /\ made' \in Nat  BY <1>1 DEF Salted
<1>3. ASSUME faults = {}, UNCHANGED record
      PROVE  Right(record', idb, salt', canHold) /\ \A e \in Call : Agrees(call[e], idb, salt', canHold)
  <2>1. CASE salt = None
    <3>1. \A e \in Call : Agrees(call[e], idb, salt', canHold)
      BY <1>1, <1>3, <2>1, UnsaltedAgrees
    <3>2. None \notin Nat \cup {Old}  BY SignInRecordAssumption
    <3>3. Right(record', idb, salt', canHold)  BY <1>1, <1>3, <2>1, <3>2 DEF Right, BoxOK, Box
    <3> QED  BY <3>1, <3>3
  <2>2. CASE salt # None
    <3>1. salt' = salt  BY <2>2 DEF Salted
    <3> QED  BY <1>1, <1>3, <3>1
  <2> QED  BY <2>1, <2>2
<1> QED  BY <1>2, <1>3

LEMMA DeriveOK ==
  ASSUME Inv, NEW c \in Call, Derive(c)
  PROVE  Inv'
<1> DEFINE z == call[c]
           k == salt'
           y == [[z EXCEPT !.key = k] EXCEPT !.at = "sealOld"]
<1>1. /\ z.at = "legacy" /\ Salted
      /\ UNCHANGED <<canHold, idb, record, tab, faults>>
  BY DEF Derive
<1>2. CallInv(z)  BY DEF Inv, TypeInv, ProcInv
<1>3. call' = [call EXCEPT ![c] = y]
  <2>1. call' = [call EXCEPT ![c].key = salt', ![c].at = "sealOld"]  BY DEF Derive
  <2>2. DOMAIN call = Call  BY DEF Inv, TypeInv, ProcInv
  <2> QED  BY <2>1, <2>2
<1>4. /\ k \in Nat \cup {Old} /\ made' \in Nat
      /\ faults = {} => /\ Right(record', idb, salt', canHold)
                        /\ \A e \in Call : Agrees(call[e], idb, salt', canHold)
  BY <1>1, SaltedOK
<1>5. /\ BoxOK(record)
      /\ canHold /\ "open" \notin faults => z.at # "legacy"
  BY DEF Inv, TypeInv, AbleInv
<1>6. faults = {} => Agrees(z, idb, salt', canHold)  BY <1>4
<1> HIDE DEF z
<1>7. z.copy = None /\ z.todo # <<>> /\ z.tab \in Tab /\ z \in CallType  BY <1>1, <1>2 DEF CallInv
<1>8. DOMAIN z = {"tab", "op", "at", "found", "copy", "answer", "new", "todo", "key"}
  BY <1>7, CallFields
<1> HIDE DEF k
<1>a. y = [[z EXCEPT !.key = k] EXCEPT !.at = "sealOld"]  OBVIOUS
<1> HIDE DEF y
<1>9. y = [tab |-> z.tab, op |-> z.op, at |-> "sealOld", found |-> z.found, copy |-> z.copy,
           answer |-> z.answer, new |-> z.new, todo |-> z.todo, key |-> k]
  BY <1>8, <1>a
<1>10. k \in Keys  BY <1>4 DEF Keys
<1>11. y \in CallType  BY <1>7, <1>9, <1>10 DEF CallType
<1>12. /\ Same(y, z) /\ y.at = "sealOld" /\ y.copy = None /\ y.todo # <<>> /\ y.answer = z.answer
       /\ y.key = k
  BY <1>7, <1>9 DEF Same
<1>13. CallInv(y)  BY <1>2, <1>4, <1>7, <1>11, <1>12 DEF CallInv, Same
<1>14. faults = {} => Agrees(y, idb, salt', canHold)
  BY <1>1, <1>6, <1>7, <1>12 DEF Agrees, Same, k
<1>15. /\ tab' \in [Tab -> TabType]
       /\ \A u \in Tab : Remembering(u) /\ tab'[u].making = tab[u].making
  BY <1>1, TabsStay
<1>16. salt' \in Nat \cup {Old, None}  BY <1>4 DEF k
<1>17. y.at # "key" /\ ~ (canHold /\ "open" \notin faults')  BY <1>1, <1>5, <1>12
<1> QED  BY <1>1, <1>3, <1>4, <1>5, <1>13, <1>14, <1>15, <1>16, <1>17, WentOnOK

LEMMA UnreadableOK ==
  ASSUME Inv, NEW c \in Call, Unreadable(c)
  PROVE  Inv'
<1> DEFINE z == call[c]
           y == [[z EXCEPT !.at = "done"] EXCEPT !.copy = None]
<1>1. /\ z.at = "oldKey" /\ salt # z.copy.key /\ Salted
      /\ UNCHANGED <<canHold, idb, record, tab, faults>>
  BY DEF Unreadable
<1>2. CallInv(z)  BY DEF Inv, TypeInv, ProcInv
<1>3. call' = [call EXCEPT ![c] = y]
  <2>1. call' = [call EXCEPT ![c].at = "done", ![c].copy = None]  BY DEF Unreadable
  <2>2. DOMAIN call = Call  BY DEF Inv, TypeInv, ProcInv
  <2> QED  BY <2>1, <2>2
<1>4. salt' \in Nat \cup {Old, None} /\ made' \in Nat  BY <1>1, SaltedOK
<1>5. BoxOK(record) /\ (faults = {} => Agrees(z, idb, salt, canHold))  BY DEF Inv, TypeInv, RightInv
<1> HIDE DEF z
<1>6. z.copy # None /\ z.copy.scheme = "fingerprint" /\ z.tab \in Tab /\ z \in CallType
  BY <1>1, <1>2 DEF CallInv
<1>7. faults # {}  BY <1>1, <1>5, <1>6 DEF Agrees
<1>8. DOMAIN z = {"tab", "op", "at", "found", "copy", "answer", "new", "todo", "key"}
  BY <1>6, CallFields
<1>a. y = [[z EXCEPT !.at = "done"] EXCEPT !.copy = None]  OBVIOUS
<1> HIDE DEF y
<1>9. y = [tab |-> z.tab, op |-> z.op, at |-> "done", found |-> z.found, copy |-> None,
           answer |-> z.answer, new |-> z.new, todo |-> z.todo, key |-> z.key]
  BY <1>8, <1>a
<1>10. y \in CallType  BY <1>6, <1>9 DEF CallType
<1>11. Same(y, z) /\ y.at = "done" /\ y.copy = None  BY <1>9 DEF Same
<1>12. CallInv(y)  BY <1>2, <1>10, <1>11 DEF CallInv, Same
<1>13. /\ tab' \in [Tab -> TabType]
       /\ \A u \in Tab : Remembering(u) /\ tab'[u].making = tab[u].making
  BY <1>1, TabsStay
<1>14. y.at \notin {"key", "legacy", "sealOld"}  BY <1>11
<1> QED  BY <1>1, <1>3, <1>4, <1>5, <1>7, <1>12, <1>13, <1>14, WentOnOK

(* The salt goes when the record is under the device key: who still read under it is a fault. *)
LEMMA RetireOK ==
  ASSUME Inv, NEW c \in Call, Retire(c)
  PROVE  Inv'
<1> DEFINE z == call[c]
           y == [z EXCEPT !.at = "done"]
<1>1. /\ z.at = "retire" /\ call' = [call EXCEPT ![c] = y]
      /\ UNCHANGED <<canHold, idb, record, tab, made>>
  BY DEF Retire
<1>2. /\ MayRetire => /\ salt' = None
                      /\ faults' = IF \E d \in Call : call[d].at = "oldKey"
                                   THEN faults \cup {"retired"} ELSE faults
      /\ ~ MayRetire => UNCHANGED <<salt, faults>>
  BY DEF Retire
<1>3. /\ \A e \in Call : CallInv(call[e])
      /\ BoxOK(record) /\ made \in Nat /\ salt \in Nat \cup {Old, None}
      /\ faults = {} => /\ Right(record, idb, salt, canHold)
                        /\ \A e \in Call : Agrees(call[e], idb, salt, canHold)
  BY DEF Inv, TypeInv, ProcInv, RightInv
<1>4. faults \subseteq faults' /\ salt' \in Nat \cup {Old, None}  BY <1>2, <1>3
<1>5. ASSUME faults' = {}
      PROVE  Right(record, idb, salt', canHold) /\ \A e \in Call : Agrees(call[e], idb, salt', canHold)
  <2>1. faults = {}  BY <1>4, <1>5
  <2>2. CASE MayRetire
    <3>1. record # None /\ record.scheme = "device" /\ salt' = None /\ canHold
      BY <1>2, <1>3, <2>1, <2>2 DEF MayRetire, Right
    <3>2. \A d \in Call : call[d].at # "oldKey"  BY <1>2, <1>5, <2>2
    <3>3. Right(record, idb, salt', canHold)  BY <1>3, <2>1, <3>1 DEF Right
    <3>4. ASSUME NEW e \in Call PROVE Agrees(call[e], idb, salt', canHold)
      <4> DEFINE x == call[e]
      <4>1. CallInv(x) /\ Agrees(x, idb, salt, canHold) /\ x.at # "oldKey"  BY <1>3, <2>1, <3>2
      <4> HIDE DEF x
      <4>2. x.copy # None => x.copy.scheme = "device"  BY <4>1 DEF CallInv
      <4>3. x.at # "sealOld"  BY <3>1, <4>1 DEF Agrees
      <4>4. Agrees(x, idb, salt', canHold)  BY <4>1, <4>2, <4>3 DEF Agrees
      <4> QED  BY <4>4 DEF x
    <3> QED  BY <3>3, <3>4
  <2>3. CASE ~ MayRetire  BY <1>2, <1>3, <2>1, <2>3
  <2> QED  BY <2>2, <2>3
<1>6. CallInv(z) /\ (faults' = {} => Agrees(z, idb, salt', canHold))  BY <1>3, <1>5
<1> HIDE DEF z
<1>7. z \in CallType /\ z.copy = None  BY <1>1, <1>6 DEF CallInv
<1>8. y \in CallType /\ Same(y, z) /\ y.at = "done" /\ y.copy = None /\ y.answer = z.answer
  BY <1>7, MovedOK
<1> HIDE DEF y
<1>9. CallInv(y)  BY <1>6, <1>8 DEF CallInv, Same
<1>10. faults' = {} => Agrees(y, idb, salt', canHold)  BY <1>6, <1>7, <1>8 DEF Agrees, Same
<1>11. /\ tab' \in [Tab -> TabType]
       /\ \A u \in Tab : Remembering(u) /\ tab'[u].making = tab[u].making
  BY <1>1, TabsStay
<1>12. y.at \notin {"key", "legacy", "sealOld"}  BY <1>8
<1> QED  BY <1>1, <1>3, <1>4, <1>5, <1>9, <1>10, <1>11, <1>12, WentOnOK

-----------------------------------------------------------------------------
(* What the app and its owner do with no call.                             *)

LEMMA SignOutOK ==
  ASSUME Inv, SignOut
  PROVE  Inv'
<1>1. record' = None /\ UNCHANGED <<canHold, idb, salt, tab, call, made, faults>>  BY DEF SignOut
<1>2. TypeInv'  BY <1>1 DEF Inv, TypeInv, ProcInv, BoxOK, Waiting
<1>3. AbleInv'  BY <1>1 DEF Inv, AbleInv
<1>4. Right(record', idb', salt', canHold')  BY <1>1 DEF Right
<1>5. RightInv'
  <2>1. Right(record, idb, salt, canHold)'  BY <1>4 DEF Right
  <2>2. \A e \in Call : Agrees(call[e], idb, salt, canHold) => Agrees(call[e], idb, salt, canHold)'
    BY <1>1 DEF Agrees
  <2> QED  BY <1>1, <2>1, <2>2 DEF Inv, RightInv
<1> QED  BY <1>2, <1>3, <1>5 DEF Inv

LEMMA NoCallOK ==
  /\ CallInv(NoCall) /\ NoCall.at = "done"
  /\ \A i, s, able : Agrees(NoCall, i, s, able)
<1>1. <<>> \in Seq(Secret) /\ None \in Keys  BY DEF Keys
<1>2. NoCall \in CallType  BY <1>1 DEF NoCall, CallType
<1>3. NoCall.at = "done" /\ NoCall.op = "none" /\ NoCall.copy = None  BY DEF NoCall
<1> QED  BY <1>2, <1>3 DEF CallInv, Agrees

LEMMA ReloadOK ==
  ASSUME Inv, NEW t \in Tab, Reload(t)
  PROVE  Inv'
<1>1. /\ tab' = [tab EXCEPT ![t] = NewTab]
      /\ call' = [c \in Call |-> IF call[c].tab = t THEN NoCall ELSE call[c]]
      /\ UNCHANGED <<canHold, idb, record, salt, made, faults>>
  BY DEF Reload
<1>2. /\ NewTab \in TabType /\ NewTab.cached = None /\ NewTab.making = "no"
      /\ NewTab.open = FALSE /\ NewTab.blind = FALSE
  BY DEF NewTab, TabType
<1>3. /\ tab \in [Tab -> TabType] /\ \A c \in Call : CallInv(call[c])
      /\ \A u \in Tab : /\ tab[u].open => canHold
                        /\ tab[u].blind => ~ canHold
                        /\ Waiting(u) # {} => tab[u].making # "no"
  BY DEF Inv, TypeInv, ProcInv
<1>4. tab'[t] = NewTab /\ tab' \in [Tab -> TabType] /\ \A u \in Tab \ {t} : tab'[u] = tab[u]
  BY <1>1, <1>2, <1>3
<1>5. DOMAIN call' = Call /\ \A c \in Call : call'[c] = NoCall \/ (call'[c] = call[c] /\ call[c].tab # t)
  BY <1>1
<1>6. \A u \in Tab : Waiting(u)' # {} => u # t /\ Waiting(u) # {}
  <2> SUFFICES ASSUME NEW u \in Tab, NEW c \in Call, call'[c].tab = u, call'[c].at = "key"
               PROVE  u # t /\ Waiting(u) # {}
    BY DEF Waiting
  <2>1. call'[c] = call[c] /\ call[c].tab # t  BY <1>5, NoCallOK
  <2> QED  BY <2>1 DEF Waiting
<1>7. \A c \in Call : CallInv(call'[c])  BY <1>3, <1>5, NoCallOK
<1>8. ProcInv'  BY <1>1, <1>2, <1>3, <1>4, <1>5, <1>6, <1>7 DEF ProcInv
<1>9. TypeInv'  BY <1>1, <1>8 DEF Inv, TypeInv
<1>10. AbleInv'  BY <1>1, <1>5, NoCallOK DEF Inv, AbleInv
<1>11. RightInv'
  <2> SUFFICES ASSUME faults = {} PROVE RightInv'  BY <1>1 DEF RightInv
  <2>1. /\ Right(record, idb, salt, canHold)
        /\ ~ canHold => idb = None
        /\ \A u \in Tab : tab[u].cached \in {None, idb}
        /\ canHold => \A a, u \in Tab :
             tab[a].making = "put" => idb = None /\ (tab[u].making = "put" => u = a)
        /\ \A e \in Call : Agrees(call[e], idb, salt, canHold)
    BY DEF Inv, RightInv
  <2>2. \A e \in Call : Agrees(call'[e], idb, salt, canHold)  BY <1>5, <2>1, NoCallOK
  <2>3. \A e \in Call : Agrees(call[e], idb, salt, canHold)'
    <3> SUFFICES ASSUME NEW e \in Call PROVE Agrees(call'[e], idb', salt', canHold')  BY DEF Agrees
    <3> QED  BY <1>1, <2>2
  <2>4. Right(record, idb, salt, canHold)'  BY <1>1, <2>1 DEF Right
  <2>5. /\ \A u \in Tab : tab'[u].cached \in {None, idb}
        /\ canHold => \A a, u \in Tab :
             tab'[a].making = "put" => idb = None /\ (tab'[u].making = "put" => u = a)
    BY <1>2, <1>4, <2>1
  <2> QED  BY <1>1, <2>1, <2>3, <2>4, <2>5 DEF RightInv
<1> QED  BY <1>9, <1>10, <1>11 DEF Inv

-----------------------------------------------------------------------------
(* The key.                                                                *)

(* Where there was no key, nothing was under one. *)
LEMMA UnkeyedAgrees ==
  ASSUME NEW x, CallInv(x), NEW s, NEW able, Agrees(x, None, s, able), NEW i
  PROVE  Agrees(x, i, s, able)
<1>1. None \notin Nat  BY SignInRecordAssumption
<1>2. x.at # "seal"  BY <1>1 DEF CallInv, Agrees
<1>3. x.copy # None => x.copy.scheme # "device"  BY <1>1 DEF CallInv, BoxOK, Agrees
<1> QED  BY <1>2, <1>3 DEF Agrees

(* The end of a fetch: i is the key there is then. *)
LEMMA FetchedOK ==
  ASSUME Inv, NEW t \in Tab, NEW k \in Nat \cup {None}, Answer(t, k), UNCHANGED <<canHold, record, salt>>,
         NEW v \in TabType, v.open => canHold, v.blind => ~ canHold, v.making = "no",
         tab' = [tab EXCEPT ![t] = v], idb' \in Nat \cup {None}, made' \in Nat, faults \subseteq faults',
         faults' = {} => /\ Right(record, idb', salt, canHold)
                         /\ v.cached \in {None, idb'}
                         /\ canHold => k # None
                         /\ k = IF canHold THEN idb' ELSE None
                         /\ ~ canHold => idb' = None
                         /\ \A u \in Tab \ {t} : tab[u].cached \in {None, idb'}
                         /\ canHold => \A u \in Tab \ {t} : tab[u].making = "put" => idb' = None
                         /\ \A e \in Call : Agrees(call[e], idb', salt, canHold)
  PROVE  Inv'
<1>1. /\ ProcInv'
      /\ tab'[t] = v /\ \A u \in Tab \ {t} : tab'[u] = tab[u]
      /\ \A c \in Call :
           /\ call'[c] = call[c] \/ call'[c].at \in {"done", "works", "seal"}
           /\ c \notin Waiting(t) => call'[c] = call[c]
           /\ \A i, s, able :
                Agrees(call[c], i, s, able) /\ k = (IF able THEN i ELSE None) /\ (able => k # None)
                  => c \notin Waiting(t) \/ Agrees(call'[c], i, s, able)
  BY AnswerOK DEF Inv, TypeInv
<1>2. TypeInv'  BY <1>1 DEF Inv, TypeInv, BoxOK
<1>3. AbleInv'  BY <1>1 DEF Inv, AbleInv
<1>4. RightInv'
  <2> SUFFICES ASSUME faults' = {} PROVE RightInv'  BY DEF RightInv
  <2>1. faults = {}  OBVIOUS
  <2>2. canHold => \A a, u \in Tab : tab[a].making = "put" => (tab[u].making = "put" => u = a)
    BY <2>1 DEF Inv, RightInv
  <2>3. \A e \in Call : Agrees(call'[e], idb', salt, canHold)  BY <1>1
  <2>4. \A e \in Call : Agrees(call[e], idb, salt, canHold)'
    <3> SUFFICES ASSUME NEW e \in Call PROVE Agrees(call'[e], idb', salt', canHold')  BY DEF Agrees
    <3> QED  BY <2>3
  <2>5. Right(record, idb, salt, canHold)'
    <3>1. Right(record', idb', salt', canHold')  OBVIOUS
    <3> QED  BY <3>1 DEF Right
  <2>6. \A u \in Tab : tab'[u].cached \in {None, idb'}  BY <1>1
  <2>7. canHold => \A a, u \in Tab :
          tab'[a].making = "put" => idb' = None /\ (tab'[u].making = "put" => u = a)
    BY <1>1, <2>2
  <2> QED  BY <2>4, <2>5, <2>6, <2>7 DEF RightInv
<1> QED  BY <1>2, <1>3, <1>4 DEF Inv

LEMMA KeyFoundOK ==
  ASSUME Inv, NEW t \in Tab, KeyFound(t)
  PROVE  Inv'
<1> DEFINE v == [[[tab[t] EXCEPT !.cached = idb] EXCEPT !.making = "no"] EXCEPT !.open = TRUE]
<1>1. /\ canHold /\ idb # None /\ Answer(t, idb)
      /\ UNCHANGED <<canHold, idb, record, salt, made, faults>>
  BY DEF KeyFound, Opens
<1>2. /\ tab \in [Tab -> TabType] /\ idb \in Nat /\ made \in Nat
      /\ (tab[t].open => canHold) /\ (tab[t].blind => ~ canHold)
  BY <1>1 DEF Inv, TypeInv, ProcInv
<1>3. tab' = [tab EXCEPT ![t] = v]  BY <1>2 DEF KeyFound
<1>4. /\ v \in TabType /\ v.open = TRUE /\ v.blind = tab[t].blind /\ v.making = "no" /\ v.cached = idb
  BY <1>2 DEF TabType
<1> HIDE DEF v
<1>5. faults' = {} => /\ Right(record, idb', salt, canHold)
                      /\ v.cached \in {None, idb'}
                      /\ \A u \in Tab \ {t} : tab[u].cached \in {None, idb'}
                      /\ canHold => \A u \in Tab \ {t} : tab[u].making = "put" => idb' = None
                      /\ \A e \in Call : Agrees(call[e], idb', salt, canHold)
  <2>1. idb' = idb /\ faults' = faults  BY <1>1
  <2> QED  BY <1>4, <2>1 DEF Inv, RightInv
<1> QED  BY <1>1, <1>2, <1>3, <1>4, <1>5, FetchedOK

(* This tab's own key, the first there is if nothing has gone wrong. *)
LEMMA KeyKeptOK ==
  ASSUME Inv, NEW t \in Tab, KeyKept(t)
  PROVE  Inv'
<1> DEFINE k == made + 1
           v == [[[tab[t] EXCEPT !.cached = k] EXCEPT !.making = "no"] EXCEPT !.open = TRUE]
<1>1. /\ canHold /\ idb' = k /\ made' = k /\ Answer(t, k) /\ tab[t].making = "put"
      /\ UNCHANGED <<canHold, record, salt, faults>>
  BY DEF KeyKept, Opens
<1>2. /\ tab \in [Tab -> TabType] /\ made \in Nat /\ BoxOK(record)
      /\ (tab[t].open => canHold) /\ (tab[t].blind => ~ canHold)
      /\ \A e \in Call : CallInv(call[e])
  BY DEF Inv, TypeInv, ProcInv
<1>3. tab' = [tab EXCEPT ![t] = v]  BY <1>2 DEF KeyKept
<1>4. k \in Nat /\ k # None  BY <1>2, SignInRecordAssumption
<1> HIDE DEF k
<1>5. /\ v \in TabType /\ v.open = TRUE /\ v.blind = tab[t].blind /\ v.making = "no" /\ v.cached = k
  BY <1>2, <1>4 DEF TabType
<1> HIDE DEF v
<1>6. faults = {} => /\ idb = None
                     /\ \A u \in Tab \ {t} : tab[u].cached = None /\ tab[u].making # "put"
                     /\ Right(record, idb, salt, canHold)
                     /\ \A e \in Call : Agrees(call[e], idb, salt, canHold)
  BY <1>1 DEF Inv, RightInv
<1>7. faults = {} => Right(record, k, salt, canHold)
  <2>1. None \notin Nat  BY SignInRecordAssumption
  <2> QED  BY <1>2, <1>6, <2>1 DEF Right, BoxOK
<1>8. faults = {} => \A e \in Call : Agrees(call[e], k, salt, canHold)
  BY <1>2, <1>6, UnkeyedAgrees
<1> QED  BY <1>1, <1>2, <1>3, <1>4, <1>5, <1>6, <1>7, <1>8, FetchedOK

LEMMA KeyRefusedOK ==
  ASSUME Inv, NEW t \in Tab, KeyRefused(t)
  PROVE  Inv'
<1>1. AccessFails(t, "no") /\ Answer(t, None) /\ UNCHANGED <<canHold, idb, record, salt, made>>
  BY DEF KeyRefused
<1>2. /\ \E v \in TabType : /\ tab' = [tab EXCEPT ![t] = v]
                            /\ v.open => canHold
                            /\ v.blind => ~ canHold
                            /\ v.cached = tab[t].cached /\ v.making = "no"
      /\ faults \subseteq faults' /\ (faults' = {} => ~ canHold)
  BY <1>1, FailsOK
<1>3. PICK v \in TabType : /\ tab' = [tab EXCEPT ![t] = v]
                           /\ v.open => canHold
                           /\ v.blind => ~ canHold
                           /\ v.cached = tab[t].cached /\ v.making = "no"
  BY <1>2
<1>4. idb \in Nat \cup {None} /\ made \in Nat  BY DEF Inv, TypeInv
<1>5. faults' = {} => /\ ~ canHold /\ idb = None
                      /\ Right(record, idb, salt, canHold)
                      /\ \A u \in Tab : tab[u].cached \in {None, idb}
                      /\ \A e \in Call : Agrees(call[e], idb, salt, canHold)
  <2>1. faults' = {} => faults = {} /\ ~ canHold  BY <1>2
  <2> QED  BY <2>1 DEF Inv, RightInv
<1> QED  BY <1>1, <1>2, <1>3, <1>4, <1>5, FetchedOK

(* No key: one is made, by more than one tab only if something is amiss. *)
LEMMA KeyMissingOK ==
  ASSUME Inv, NEW t \in Tab, KeyMissing(t)
  PROVE  Inv'
<1>1. UNCHANGED <<canHold, idb, record, salt, call, made>>  BY DEF KeyMissing
<1>2. /\ tab \in [Tab -> TabType] /\ tab[t] \in TabType
      /\ \A u \in Tab : /\ tab[u].open => canHold
                        /\ tab[u].blind => ~ canHold
                        /\ Waiting(u) # {} => tab[u].making # "no"
      /\ DOMAIN call = Call /\ \A c \in Call : CallInv(call[c])
  BY DEF Inv, TypeInv, ProcInv
<1>3. \E v \in TabType : /\ tab' = [tab EXCEPT ![t] = v]
                         /\ v.open => canHold
                         /\ v.blind => ~ canHold
                         /\ v.cached = tab[t].cached /\ v.making = "put"
                         /\ faults \subseteq faults'
                         /\ faults' = {} /\ canHold => idb = None /\ \A u \in Tab : tab[u].making # "put"
  <2>1. CASE /\ Opens(t) /\ idb = None
             /\ tab' = [tab EXCEPT ![t].making = "put", ![t].open = TRUE]
             /\ faults' = IF \E u \in Tab : tab[u].making = "put" THEN faults \cup {"tabs"} ELSE faults
    <3> DEFINE v == [[tab[t] EXCEPT !.making = "put"] EXCEPT !.open = TRUE]
    <3>1. tab' = [tab EXCEPT ![t] = v]  BY <1>2, <2>1
    <3>2. v \in TabType /\ v.cached = tab[t].cached /\ v.making = "put" /\ v.open = TRUE
          /\ v.blind = tab[t].blind
      BY <1>2 DEF TabType
    <3> HIDE DEF v
    <3>3. canHold /\ (tab[t].blind => ~ canHold)  BY <1>2, <2>1 DEF Opens
    <3>4. faults \subseteq faults' /\ (faults' = {} => \A u \in Tab : tab[u].making # "put")  BY <2>1
    <3> QED  BY <2>1, <3>1, <3>2, <3>3, <3>4
  <2>2. CASE AccessFails(t, "put")
    <3>1. /\ \E v \in TabType : /\ tab' = [tab EXCEPT ![t] = v]
                                /\ v.open => canHold
                                /\ v.blind => ~ canHold
                                /\ v.cached = tab[t].cached /\ v.making = "put"
          /\ faults \subseteq faults' /\ (faults' = {} => ~ canHold)
      BY <2>2, FailsOK
    <3> QED  BY <3>1
  <2> QED  BY <2>1, <2>2 DEF KeyMissing
<1>4. PICK v \in TabType :
        /\ tab' = [tab EXCEPT ![t] = v]
        /\ v.open => canHold
        /\ v.blind => ~ canHold
        /\ v.cached = tab[t].cached /\ v.making = "put"
        /\ faults \subseteq faults'
        /\ faults' = {} /\ canHold => idb = None /\ \A u \in Tab : tab[u].making # "put"
  BY <1>3
<1>5. tab'[t] = v /\ tab' \in [Tab -> TabType] /\ \A u \in Tab \ {t} : tab'[u] = tab[u]
  BY <1>2, <1>4
<1>6. \A u \in Tab : Waiting(u)' = Waiting(u)  BY <1>1 DEF Waiting
<1>7. ProcInv'  BY <1>1, <1>2, <1>4, <1>5, <1>6 DEF ProcInv
<1>8. TypeInv'  BY <1>1, <1>7 DEF Inv, TypeInv, BoxOK
<1>9. AbleInv'  BY <1>1, <1>4 DEF Inv, AbleInv
<1>10. RightInv'
  <2> SUFFICES ASSUME faults' = {} PROVE RightInv'  BY DEF RightInv
  <2>1. faults = {}  BY <1>4
  <2>2. /\ Right(record, idb, salt, canHold)
        /\ ~ canHold => idb = None
        /\ \A u \in Tab : tab[u].cached \in {None, idb}
        /\ \A e \in Call : Agrees(call[e], idb, salt, canHold)
    BY <2>1 DEF Inv, RightInv
  <2>3. Right(record, idb, salt, canHold)'  BY <1>1, <2>2 DEF Right
  <2>4. \A e \in Call : Agrees(call[e], idb, salt, canHold)'  BY <1>1, <2>2 DEF Agrees
  <2>5. \A u \in Tab : tab'[u].cached \in {None, idb}  BY <1>4, <1>5, <2>2
  <2>6. canHold => \A a, u \in Tab :
          tab'[a].making = "put" => idb = None /\ (tab'[u].making = "put" => u = a)
    BY <1>4, <1>5
  <2> QED  BY <1>1, <2>2, <2>3, <2>4, <2>5, <2>6 DEF RightInv
<1> QED  BY <1>8, <1>9, <1>10 DEF Inv

-----------------------------------------------------------------------------
(* The whole program.                                                      *)

LEMMA InitOK == Init => Inv
<1> SUFFICES ASSUME Init PROVE Inv  OBVIOUS
<1>1. /\ canHold \in BOOLEAN /\ idb = None /\ made = 0
      /\ tab = [t \in Tab |-> NewTab] /\ call = [c \in Call |-> NoCall]
  BY DEF Init
<1>2. /\ salt \in {None, Old} /\ BoxOK(record)
      /\ record # None => record.scheme = "fingerprint" /\ record.key = salt
  <2>1. CASE record = None /\ salt = None  BY <2>1 DEF BoxOK
  <2>2. CASE \E s \in Secret : record = Boxed("fingerprint", Old, s) /\ salt = Old
    BY <2>2 DEF BoxOK, Box, Boxed
  <2> QED  BY <2>1, <2>2 DEF Init
<1>3. /\ NewTab \in TabType /\ NewTab.cached = None /\ NewTab.making = "no"
      /\ NewTab.open = FALSE /\ NewTab.blind = FALSE
  BY DEF NewTab, TabType
<1>4. /\ \A c \in Call : call[c] = NoCall
      /\ \A t \in Tab : tab[t] = NewTab
  BY <1>1
<1>5. \A t \in Tab : Waiting(t) = {}  BY <1>4, NoCallOK DEF Waiting
<1>6. ProcInv  BY <1>1, <1>3, <1>4, <1>5, NoCallOK DEF ProcInv
<1>7. TypeInv  BY <1>1, <1>2, <1>6 DEF TypeInv
<1>8. AbleInv  BY <1>4, NoCallOK DEF AbleInv
<1>9. RightInv  BY <1>1, <1>2, <1>3, <1>4, NoCallOK DEF RightInv, Right
<1> QED  BY <1>7, <1>8, <1>9 DEF Inv

LEMMA NextOK == Inv /\ [Next]_vars => Inv'
<1> SUFFICES ASSUME Inv, [Next]_vars PROVE Inv'  OBVIOUS
<1>1. CASE UNCHANGED vars
  <2>1. UNCHANGED <<canHold, idb, record, salt, tab, call, made, faults>>  BY <1>1 DEF vars
  <2>2. TypeInv'  BY <2>1 DEF Inv, TypeInv, ProcInv, BoxOK, Waiting
  <2>3. AbleInv'  BY <2>1 DEF Inv, AbleInv
  <2>4. RightInv'  BY <2>1 DEF Inv, RightInv, Right, Agrees
  <2> QED  BY <2>2, <2>3, <2>4 DEF Inv
<1>2. ASSUME NEW c \in Call, NEW t \in Tab, NEW s \in Secret, SignIn(c, t, s)  PROVE Inv'
  BY <1>2, SignInOK
<1>3. ASSUME NEW c \in Call, NEW t \in Tab, NEW s \in Secret, ChangePassword(c, t, s)  PROVE Inv'
  <2>1. Read(c, t, "change", s)  BY <1>3 DEF ChangePassword
  <2> QED  BY <2>1, ReadOK
<1>4. ASSUME NEW c \in Call, NEW t \in Tab, Launch(c, t)  PROVE Inv'
  <2>1. Read(c, t, "launch", None)  BY <1>4 DEF Launch
  <2> QED  BY <2>1, ReadOK
<1>5. CASE SignOut  BY <1>5, SignOutOK
<1>6. ASSUME NEW t \in Tab, KeyStep(t) \/ Reload(t)  PROVE Inv'
  BY <1>6, KeyFoundOK, KeyMissingOK, KeyKeptOK, KeyRefusedOK, ReloadOK DEF KeyStep
<1>7. ASSUME NEW c \in Call, CallStep(c)  PROVE Inv'
  BY <1>7, SealOK, RefuseOK, DespairOK, DeriveOK, SealOldOK, RetireOK, UpgradeOK, UnreadableOK
     DEF CallStep
<1> QED  BY <1>1, <1>2, <1>3, <1>4, <1>5, <1>6, <1>7 DEF Next

(* Every state has its type: a tab whose database is open does not take it for absent, and a call *)
(* that waits for the key waits for a fetch that runs (deviceKey's keyPending).                   *)
THEOREM TypeCorrect == Spec => []TypeOK
<1>1. Inv => TypeOK
  <2> SUFFICES ASSUME Inv PROVE TypeOK  OBVIOUS
  <2>1. /\ idb \in Nat \cup {None} /\ salt \in Nat \cup {Old, None} /\ made \in Nat
        /\ tab \in [Tab -> TabType] /\ \A c \in Call : CallInv(call[c])
        /\ \A t \in Tab : /\ tab[t].open => canHold
                          /\ tab[t].blind => ~ canHold
                          /\ Waiting(t) # {} => tab[t].making # "no"
    BY DEF Inv, TypeInv, ProcInv
  <2>2. \A t \in Tab : tab[t].making \in {"no", "get", "put"}  BY <2>1 DEF TabType
  <2>3. \A c \in Call : call[c] \in CallType  BY <2>1 DEF CallInv
  <2> QED  BY <2>1, <2>2, <2>3 DEF TypeOK, Keys
<1> QED  BY <1>1, InitOK, NextOK, PTL DEF Spec

(* However sign-ins, launches, sign-outs, changes of password and reloads of any number of tabs   *)
(* overlap: as long as no access to IndexedDB failed, no two tabs made a key at the same time and *)
(* no salt was retired under a reader, what storePassword left in localStorage opens under the    *)
(* key, or the salt, that is kept, and no tab has another key cached.                             *)
THEOREM RecordAlwaysOpens == Spec => []RecordOpens
<1>1. Inv => RecordOpens  BY DEF Inv, RightInv, Right, RecordOpens
<1> QED  BY <1>1, InitOK, NextOK, PTL DEF Spec

(* Under the same conditions readStoredAuth answers a launch, or a change of password, with what *)
(* was stored, whichever scheme it lay under and whatever the other tabs did meanwhile.          *)
THEOREM ReadsAlwaysTell == Spec => []ReadsTell
<1>1. Inv => ReadsTell
  <2> SUFFICES ASSUME Inv, faults = {}, NEW c \in Call, call[c].at = "done",
                      call[c].op \in {"launch", "change"}
               PROVE  call[c].answer = call[c].found.secret
    BY DEF ReadsTell
  <2>1. CallInv(call[c]) /\ Agrees(call[c], idb, salt, canHold)
    BY DEF Inv, TypeInv, ProcInv, RightInv
  <2>2. call[c].copy = None  BY <2>1 DEF CallInv
  <2> QED  BY <2>1, <2>2 DEF Agrees
<1> QED  BY <1>1, InitOK, NextOK, PTL DEF Spec

(* storePassword writes nothing new under the browser's own details where the browser can hold a *)
(* key, unless its database once did not open: a key that could not be read or kept is no reason. *)
THEOREM FallbackNeedsAReason == Spec => FallbackIsForTheUnable
<1> DEFINE A == (canHold /\ "open" \notin faults /\ record' # record /\ record' # None)
                  => record'.scheme = "device"
<1>1. Inv /\ [Next]_vars => A
  <2> SUFFICES ASSUME Inv, Next, canHold, "open" \notin faults, record' # record, record' # None
               PROVE  record'.scheme = "device"
    BY DEF vars
  <2>1. \E c \in Call : Seal(c) \/ SealOld(c)
    BY DEF Next, SignIn, ChangePassword, Launch, Read, SignOut, KeyStep, Reload, CallStep, KeyFound,
           KeyMissing, KeyKept, KeyRefused, Refuse, Despair, Derive, Retire, Upgrade, Unreadable
  <2>2. PICK c \in Call : Seal(c) \/ SealOld(c)  BY <2>1
  <2>3. call[c].at # "sealOld"  BY DEF Inv, AbleInv
  <2>4. Seal(c)  BY <2>2, <2>3 DEF SealOld
  <2>5. record' = Boxed("device", call[c].key, Head(call[c].todo))  BY <2>4 DEF Seal
  <2> QED  BY <2>5 DEF Boxed
<1>2. Spec => [][A]_vars  BY <1>1, InitOK, NextOK, PTL DEF Spec
<1> QED  BY <1>2 DEF FallbackIsForTheUnable
=============================================================================
