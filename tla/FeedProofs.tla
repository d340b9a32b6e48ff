----------------------------- MODULE FeedProofs -----------------------------
(***************************************************************************)
(* Proofs about Feed!Spec, for any accounts and devices, any scenario and  *)
(* any number of handlers in a read: what Messages promises of the table   *)
(* and of the order in which its frames leave.                             *)
(*                                                                         *)
(* Both rest on the handlers in progress (HandlersInv): which stages each  *)
(* has left, which message it is about, and that a handler which starts by *)
(* reading a row does so before any post of the same read is saved.        *)
(***************************************************************************)
EXTENDS Feed, SequenceTheorems, WellFoundedInduction, TLAPS

IsSeq(s) == \E S : s \in Seq(S)

Stage == {"wait", "stamp", "read", "rows", "block", "save", "update", "remove", "write", "reacts",
          "audience", "deliver"}

(* Where a stage comes in the handlers that have it. *)
Rank(stage) ==
  IF stage \in {"stamp", "read", "rows", "block"} THEN 1
  ELSE IF stage \in {"save", "update", "remove", "write", "reacts"} THEN 2
  ELSE IF stage = "audience" THEN 3
  ELSE 4

Ordered(todo) ==
  \A m, n \in DOMAIN todo :
    m < n /\ todo[m] # "wait" /\ todo[n] # "wait" => Rank(todo[m]) < Rank(todo[n])

Occurs(todo, stage) == \E n \in DOMAIN todo : todo[n] = stage

Follower == {"edit", "delete", "react"}

Op == Follower \cup {"post", "page", "block"}

(* The stage in which a handler sees for the last time that its message is there. *)
Gate(op) ==
  IF op = "delete" THEN "remove" ELSE IF op = "edit" /\ ~ Direct THEN "update" ELSE "audience"

(* It is the last but one. *)
GateThenLast(todo, gate) == Len(todo) = 1 \/ todo[Len(todo) - 1] = gate

TaskOK(t) ==
  /\ t \in [d : Devices, call : {t.call}, id : {None} \cup 1 .. Len(made), at : {None} \cup Nat,
            page : {t.page}, todo : Seq(Stage)]
  /\ "op" \in DOMAIN t.call
  /\ t.todo # <<>>
  /\ Ordered(t.todo)
  /\ t.call.op = "post" => /\ t.id = None <=> Occurs(t.todo, "stamp")
                           /\ Occurs(t.todo, "stamp") => Occurs(t.todo, "save")
                           /\ t.id # None => t.at \in Nat
  /\ t.call.op \in Follower => /\ t.id = None <=> Occurs(t.todo, "read")
                               /\ GateThenLast(t.todo, Gate(t.call.op))
  /\ Occurs(t.todo, "read") => /\ t.call.op \in Follower
                               /\ t.todo[1] = "read" /\ Occurs(t.todo, Gate(t.call.op))

Posting(t) == t.call.op = "post"

Unread(t) == t.todo[1] = "read"

TablesInv ==
  /\ IsSeq(made)
  /\ clock \in Nat
  /\ Ids \subseteq 1 .. Len(made)

HandlersInv ==
  /\ TablesInv
  /\ IsSeq(tasks)
  /\ \A k \in DOMAIN tasks : TaskOK(tasks[k])
  (* each post has an id of its own, which is not in the table before it is saved, *)
  /\ \A j, k \in DOMAIN tasks :
       j # k /\ Posting(tasks[j]) /\ Posting(tasks[k]) /\ tasks[j].id = tasks[k].id => tasks[j].id = None
  /\ \A k \in DOMAIN tasks :
       Posting(tasks[k]) /\ tasks[k].id # None /\ Occurs(tasks[k].todo, "save") => tasks[k].id \notin Ids
  (* and no handler that came in with it is about it *)
  /\ \A j, k \in DOMAIN tasks :
       Posting(tasks[j]) /\ tasks[k].call.op \in Follower /\ tasks[j].id = tasks[k].id => tasks[j].id = None
  /\ \A j, k \in DOMAIN tasks :
       Posting(tasks[j]) /\ Unread(tasks[k]) =>
         Occurs(tasks[j].todo, "save") /\ (j < k => tasks[j].id = None)

-----------------------------------------------------------------------------
(* Sequences.                                                              *)

LEMMA SeqFacts ==
  ASSUME NEW s, IsSeq(s)
  PROVE  /\ Len(s) \in Nat /\ DOMAIN s = 1 .. Len(s)
         /\ s # <<>> => /\ Len(s) > 0 /\ IsSeq(Tail(s)) /\ Len(Tail(s)) = Len(s) - 1
                        /\ \A k \in 1 .. Len(s) - 1 : Tail(s)[k] = s[k + 1]
<1>1. PICK S : s \in Seq(S)  BY DEF IsSeq
<1> QED  BY <1>1, HeadTailProperties DEF IsSeq

LEMMA AppendFacts ==
  ASSUME NEW s, IsSeq(s), NEW e
  PROVE  /\ IsSeq(Append(s, e)) /\ Len(Append(s, e)) = Len(s) + 1
         /\ \A k \in 1 .. Len(s) : Append(s, e)[k] = s[k]
         /\ Append(s, e)[Len(s) + 1] = e
<1>1. PICK S : s \in Seq(S)  BY DEF IsSeq
<1>2. s \in Seq(S \cup {e}) /\ e \in S \cup {e}  BY <1>1, SeqMonotonic
<1> QED  BY <1>2, AppendProperties DEF IsSeq

(* The first element goes, and one is put behind the others. *)
LEMMA RotateFacts ==
  ASSUME NEW s, IsSeq(s), s # <<>>, NEW e
  PROVE  /\ IsSeq(Tail(s) \o <<e>>) /\ Len(Tail(s) \o <<e>>) = Len(s)
         /\ \A k \in 1 .. Len(s) - 1 : (Tail(s) \o <<e>>)[k] = s[k + 1]
         /\ (Tail(s) \o <<e>>)[Len(s)] = e
<1>1. PICK S : Tail(s) \in Seq(S)  BY SeqFacts DEF IsSeq
<1>2. Tail(s) \in Seq(S \cup {e}) /\ e \in S \cup {e}  BY <1>1, SeqMonotonic
<1>3. Tail(s) \o <<e>> = Append(Tail(s), e)  BY <1>2, AppendIsConcat
<1>4. /\ IsSeq(Tail(s)) /\ Len(Tail(s)) = Len(s) - 1 /\ Len(s) \in Nat
      /\ \A k \in 1 .. Len(s) - 1 : Tail(s)[k] = s[k + 1]
  BY SeqFacts
<1>5. /\ IsSeq(Append(Tail(s), e)) /\ Len(Append(Tail(s), e)) = Len(Tail(s)) + 1
      /\ \A k \in 1 .. Len(Tail(s)) : Append(Tail(s), e)[k] = Tail(s)[k]
      /\ Append(Tail(s), e)[Len(Tail(s)) + 1] = e
  BY <1>4, AppendFacts
<1>6. Len(Tail(s)) + 1 = Len(s)  BY <1>4
<1> QED  BY <1>3, <1>4, <1>5, <1>6

LEMMA TupleIsSeq ==
  ASSUME NEW n \in Nat, NEW f, DOMAIN f = 1 .. n, f = [i \in 1 .. n |-> f[i]]
  PROVE  IsSeq(f)
<1>1. f \in [1 .. n -> {f[i] : i \in 1 .. n}]  OBVIOUS
<1>2. f \in Seq({f[i] : i \in 1 .. n})  BY <1>1, SeqDef
<1> QED  BY <1>2 DEF IsSeq

-----------------------------------------------------------------------------
(* The stages of a handler.                                                *)

LEMMA TailStages ==
  ASSUME NEW s \in Seq(Stage), s # <<>>, Ordered(s)
  PROVE  /\ Tail(s) \in Seq(Stage) /\ Ordered(Tail(s))
         /\ \A x : Occurs(Tail(s), x) => Occurs(s, x)
         /\ \A x : Occurs(s, x) /\ s[1] # x => Occurs(Tail(s), x)
         /\ s[1] # "wait" => \A x : x # "wait" /\ Occurs(Tail(s), x) => Rank(s[1]) < Rank(x)
         /\ Tail(s) # <<>> => \A x : x # "wait" /\ Tail(s)[1] # "wait" /\ Occurs(s, x) /\ s[1] # x =>
              Tail(s)[1] = x \/ Rank(Tail(s)[1]) < Rank(x)
<1>1. /\ Tail(s) \in Seq(Stage) /\ Len(Tail(s)) = Len(s) - 1 /\ Len(s) \in Nat /\ Len(s) > 0
      /\ DOMAIN s = 1 .. Len(s) /\ DOMAIN Tail(s) = 1 .. Len(s) - 1
      /\ \A k \in 1 .. Len(s) - 1 : Tail(s)[k] = s[k + 1]
  BY HeadTailProperties, LenProperties
<1>2. Ordered(Tail(s))  BY <1>1 DEF Ordered
<1>3. \A x : Occurs(Tail(s), x) => Occurs(s, x)  BY <1>1 DEF Occurs
<1>4. ASSUME NEW x, Occurs(s, x), s[1] # x PROVE \E n \in DOMAIN Tail(s) : Tail(s)[n] = x
  <2>1. PICK n \in 1 .. Len(s) : s[n] = x  BY <1>1, <1>4 DEF Occurs
  <2>2. n - 1 \in DOMAIN Tail(s) /\ Tail(s)[n - 1] = x  BY <1>1, <1>4, <2>1
  <2> QED  BY <2>2
<1>5. ASSUME s[1] # "wait", NEW x, x # "wait", Occurs(Tail(s), x) PROVE Rank(s[1]) < Rank(x)
  <2>1. PICK n \in 1 .. Len(s) - 1 : Tail(s)[n] = x  BY <1>1, <1>5 DEF Occurs
  <2>2. 1 \in DOMAIN s /\ n + 1 \in DOMAIN s /\ 1 < n + 1 /\ s[n + 1] = x  BY <1>1, <2>1
  <2> QED  BY <1>5, <2>2 DEF Ordered
<1>6. ASSUME Tail(s) # <<>>, NEW x, x # "wait", Tail(s)[1] # "wait", Occurs(s, x), s[1] # x
      PROVE  Tail(s)[1] = x \/ Rank(Tail(s)[1]) < Rank(x)
  <2>1. PICK n \in DOMAIN Tail(s) : Tail(s)[n] = x  BY <1>4, <1>6
  <2>2. 1 \in DOMAIN Tail(s) /\ (n = 1 \/ 1 < n)  BY <1>1, <2>1
  <2> QED  BY <1>2, <1>6, <2>1, <2>2 DEF Ordered
<1> QED  BY <1>1, <1>2, <1>3, <1>4, <1>5, <1>6 DEF Occurs

(* A stage before the others, and turns that are waited before them. *)
LEMMA StageBefore ==
  ASSUME NEW s \in Seq(Stage), Ordered(s), NEW x \in Stage,
         x # "wait" => \A y : y # "wait" /\ Occurs(s, y) => Rank(x) < Rank(y)
  PROVE  /\ <<x>> \o s \in Seq(Stage) /\ <<x>> \o s # <<>> /\ Ordered(<<x>> \o s)
         /\ (<<x>> \o s)[1] = x
         /\ \A y : Occurs(<<x>> \o s, y) <=> y = x \/ Occurs(s, y)
<1> DEFINE t == <<x>> \o s
<1>1. /\ t \in Seq(Stage) /\ Len(t) = Len(s) + 1 /\ t[1] = x /\ Len(s) \in Nat
      /\ DOMAIN t = 1 .. Len(s) + 1 /\ DOMAIN s = 1 .. Len(s)
      /\ \A n \in 1 .. Len(s) : t[n + 1] = s[n]
  OBVIOUS
<1> HIDE DEF t
<1>2. \A n \in 2 .. Len(s) + 1 : n - 1 \in 1 .. Len(s) /\ t[n] = s[n - 1]  BY <1>1
<1>3. ASSUME NEW m \in DOMAIN t, NEW n \in DOMAIN t, m < n, t[m] # "wait", t[n] # "wait"
      PROVE  Rank(t[m]) < Rank(t[n])
  <2>1. n - 1 \in DOMAIN s /\ t[n] = s[n - 1]  BY <1>1, <1>2, <1>3
  <2>2. CASE m = 1  BY <1>1, <1>3, <2>1, <2>2 DEF Occurs
  <2>3. CASE m # 1
    <3>1. m - 1 \in DOMAIN s /\ t[m] = s[m - 1] /\ m - 1 < n - 1  BY <1>1, <1>2, <1>3, <2>3
    <3> QED  BY <1>3, <2>1, <3>1 DEF Ordered
  <2> QED  BY <2>2, <2>3
<1>4. ASSUME NEW y PROVE Occurs(t, y) <=> y = x \/ Occurs(s, y)
  <2>1. ASSUME Occurs(t, y) PROVE y = x \/ Occurs(s, y)
    <3>1. PICK n \in DOMAIN t : t[n] = y  BY <2>1 DEF Occurs
    <3>2. n = 1 \/ n \in 2 .. Len(s) + 1  BY <1>1
    <3>3. n = 1 \/ (n - 1 \in DOMAIN s /\ s[n - 1] = y)  BY <1>1, <1>2, <3>1, <3>2
    <3> QED  BY <1>1, <3>1, <3>3 DEF Occurs
  <2>2. ASSUME y = x PROVE Occurs(t, y)
    <3>1. 1 \in DOMAIN t  BY <1>1
    <3> QED  BY <1>1, <2>2, <3>1 DEF Occurs
  <2>3. ASSUME Occurs(s, y) PROVE Occurs(t, y)
    <3>1. PICK n \in DOMAIN s : s[n] = y  BY <2>3 DEF Occurs
    <3>2. n + 1 \in DOMAIN t /\ t[n + 1] = y  BY <1>1, <3>1
    <3> QED  BY <3>2 DEF Occurs
  <2> QED  BY <2>1, <2>2, <2>3
<1>5. Ordered(t)  BY <1>3 DEF Ordered
<1>6. t # <<>>  BY <1>1
<1> QED  BY <1>1, <1>4, <1>5, <1>6 DEF t

LEMMA TurnsBefore ==
  ASSUME NEW n \in Nat, NEW alone, NEW s \in Seq(Stage), s # <<>>, Ordered(s)
  PROVE  /\ After(n, alone, s) \in Seq(Stage) /\ After(n, alone, s) # <<>>
         /\ Ordered(After(n, alone, s))
         /\ \A y : y # "wait" => (Occurs(After(n, alone, s), y) <=> Occurs(s, y))
<1> DEFINE w == [k \in 1 .. n |-> "wait"]
          t == w \o s
<1>0. CASE alone  BY <1>0 DEF After
<1> SUFFICES ASSUME ~ alone
             PROVE  /\ t \in Seq(Stage) /\ t # <<>> /\ Ordered(t)
                    /\ \A y : y # "wait" => (Occurs(t, y) <=> Occurs(s, y))
  BY <1>0 DEF After
<1>1. w \in Seq(Stage) /\ \A k \in DOMAIN w : w[k] = "wait"
  <2>1. "wait" \in Stage  BY DEF Stage
  <2>2. w \in [1 .. n -> Stage]  BY <2>1
  <2> QED  BY <2>2, SeqDef
<1> HIDE DEF w
<1>2. /\ t \in Seq(Stage) /\ Len(t) = Len(w) + Len(s) /\ Len(w) \in Nat /\ Len(s) \in Nat /\ Len(s) > 0
      /\ DOMAIN t = 1 .. Len(t) /\ DOMAIN s = 1 .. Len(s) /\ DOMAIN w = 1 .. Len(w)
      /\ \A k \in 1 .. Len(w) : t[k] = w[k]
      /\ \A k \in 1 .. Len(s) : t[Len(w) + k] = s[k]
  BY <1>1
<1> HIDE DEF t
<1>3. \A k \in DOMAIN t : t[k] # "wait" => k - Len(w) \in DOMAIN s /\ t[k] = s[k - Len(w)]
  <2> SUFFICES ASSUME NEW k \in DOMAIN t, t[k] # "wait"
               PROVE  k - Len(w) \in DOMAIN s /\ t[k] = s[k - Len(w)]
    OBVIOUS
  <2>1. ~ (k <= Len(w))  BY <1>1, <1>2
  <2>2. k - Len(w) \in 1 .. Len(s) /\ Len(w) + (k - Len(w)) = k  BY <1>2, <2>1
  <2> QED  BY <1>2, <2>2
<1>4. Ordered(t)
  <2> SUFFICES ASSUME NEW i \in DOMAIN t, NEW j \in DOMAIN t, i < j, t[i] # "wait", t[j] # "wait"
               PROVE  Rank(t[i]) < Rank(t[j])
    BY DEF Ordered
  <2>1. i - Len(w) < j - Len(w)  BY <1>2
  <2> QED  BY <1>3, <2>1 DEF Ordered
<1>5. ASSUME NEW y, y # "wait" PROVE Occurs(t, y) <=> Occurs(s, y)
  <2>1. ASSUME Occurs(t, y) PROVE Occurs(s, y)
    <3>1. PICK k \in DOMAIN t : t[k] = y  BY <2>1 DEF Occurs
    <3> QED  BY <1>3, <1>5, <3>1 DEF Occurs
  <2>2. ASSUME Occurs(s, y) PROVE Occurs(t, y)
    <3>1. PICK k \in DOMAIN s : s[k] = y  BY <2>2 DEF Occurs
    <3>2. Len(w) + k \in DOMAIN t /\ t[Len(w) + k] = y  BY <1>2, <3>1
    <3> QED  BY <3>2 DEF Occurs
  <2> QED  BY <2>1, <2>2
<1>6. t # <<>>  BY <1>2
<1> QED  BY <1>2, <1>4, <1>5, <1>6

(* The stages of each handler come in their order. *)
LEMMA LastStage ==
  ASSUME NEW x \in Stage
  PROVE  /\ <<x>> \in Seq(Stage) /\ <<x>> # <<>> /\ Ordered(<<x>>) /\ <<x>>[1] = x
         /\ \A y : Occurs(<<x>>, y) <=> y = x
BY DEF Ordered, Occurs

LEMMA LastTurns ==
  ASSUME NEW x \in Stage, NEW n \in Nat, NEW alone
  PROVE  /\ After(n, alone, <<x>>) \in Seq(Stage) /\ After(n, alone, <<x>>) # <<>>
         /\ Ordered(After(n, alone, <<x>>))
         /\ \A y : y # "wait" => (Occurs(After(n, alone, <<x>>), y) <=> y = x)
<1> DEFINE s == <<x>>
<1>1. /\ s \in Seq(Stage) /\ s # <<>> /\ Ordered(s)
      /\ \A y : Occurs(s, y) <=> y = x
  BY LastStage
<1> HIDE DEF s
<1>2. /\ After(n, alone, s) \in Seq(Stage) /\ After(n, alone, s) # <<>>
      /\ Ordered(After(n, alone, s))
      /\ \A y : y # "wait" => (Occurs(After(n, alone, s), y) <=> y = x)
  BY <1>1, TurnsBefore
<1> QED  BY <1>2 DEF s

LEMMA PostStages ==
  ASSUME NEW call, NEW alone, call.op = "post"
  PROVE  LET s == Stages(call, alone) IN
         /\ s \in Seq(Stage) /\ s # <<>> /\ Ordered(s)
         /\ Occurs(s, "stamp") /\ Occurs(s, "save") /\ ~ Occurs(s, "read") /\ s[1] # "read"
<1> DEFINE s1 == After(2, alone, <<"deliver">>)
          s2 == <<"save">> \o s1
          s3 == After(IF call.quote = None THEN 0 ELSE 1, alone, s2)
          s4 == <<"stamp">> \o s3
          s5 == After(IF Direct THEN 4 ELSE 0, alone, s4)
<1>1. /\ s1 \in Seq(Stage) /\ s1 # <<>> /\ Ordered(s1)
      /\ \A y : y # "wait" => (Occurs(s1, y) <=> y = "deliver")
  <2>1. "deliver" \in Stage  BY DEF Stage
  <2> QED  BY <2>1, LastTurns
<1>6. Stages(call, alone) = s5  BY DEF Stages
<1> HIDE DEF s1
<1>2. /\ s2 \in Seq(Stage) /\ s2 # <<>> /\ Ordered(s2)
      /\ \A y : y # "wait" => (Occurs(s2, y) <=> y \in {"save", "deliver"})
  <2>1. "save" \in Stage /\ Rank("save") < Rank("deliver")  BY DEF Stage, Rank
  <2>2. "save" # "wait" => \A y : y # "wait" /\ Occurs(s1, y) => Rank("save") < Rank(y)  BY <1>1, <2>1
  <2> QED  BY <1>1, <2>1, <2>2, StageBefore
<1> HIDE DEF s2
<1>3. /\ s3 \in Seq(Stage) /\ s3 # <<>> /\ Ordered(s3)
      /\ \A y : y # "wait" => (Occurs(s3, y) <=> y \in {"save", "deliver"})
  <2>1. (IF call.quote = None THEN 0 ELSE 1) \in Nat  OBVIOUS
  <2> QED  BY <1>2, <2>1, TurnsBefore
<1> HIDE DEF s3
<1>4. /\ s4 \in Seq(Stage) /\ s4 # <<>> /\ Ordered(s4)
      /\ \A y : y # "wait" => (Occurs(s4, y) <=> y \in {"stamp", "save", "deliver"})
  <2>1. "stamp" \in Stage /\ Rank("stamp") < Rank("deliver") /\ Rank("stamp") < Rank("save")
    BY DEF Stage, Rank
  <2>2. "stamp" # "wait" => \A y : y # "wait" /\ Occurs(s3, y) => Rank("stamp") < Rank(y)
    BY <1>3, <2>1
  <2> QED  BY <1>3, <2>1, <2>2, StageBefore
<1> HIDE DEF s4
<1>5. /\ s5 \in Seq(Stage) /\ s5 # <<>> /\ Ordered(s5)
      /\ \A y : y # "wait" => (Occurs(s5, y) <=> y \in {"stamp", "save", "deliver"})
  <2>1. (IF Direct THEN 4 ELSE 0) \in Nat  OBVIOUS
  <2> QED  BY <1>4, <2>1, TurnsBefore
<1> HIDE DEF s5
<1>7. s5[1] # "read"
  <2>1. 1 \in DOMAIN s5  BY <1>5, LenProperties
  <2>2. Occurs(s5, s5[1])  BY <2>1 DEF Occurs
  <2> QED  BY <1>5, <2>2
<1> QED  BY <1>5, <1>6, <1>7

LEMMA ReactStages ==
  ASSUME NEW w \in Seq(Stage), Len(w) = 0 \/ (Len(w) = 1 /\ w[1] = "wait")
  PROVE  <<"read", "write">> \o (w \o <<"audience", "deliver">>) =
           IF Len(w) = 0 THEN <<"read", "write", "audience", "deliver">>
                         ELSE <<"read", "write", "wait", "audience", "deliver">>
<1> DEFINE l == <<"read", "write">> \o (w \o <<"audience", "deliver">>)
          short == <<"read", "write", "audience", "deliver">>
          long == <<"read", "write", "wait", "audience", "deliver">>
<1>1. l \in Seq(Stage) /\ short \in Seq(Stage) /\ long \in Seq(Stage)  BY DEF Stage
<1>2. Len(l) = 4 + Len(w) /\ Len(short) = 4 /\ Len(long) = 5  OBVIOUS
<1>3. l[1] = "read" /\ l[2] = "write"  OBVIOUS
<1>4. short[1] = "read" /\ short[2] = "write" /\ short[3] = "audience" /\ short[4] = "deliver"  OBVIOUS
<1>5. /\ long[1] = "read" /\ long[2] = "write" /\ long[3] = "wait"
      /\ long[4] = "audience" /\ long[5] = "deliver"
  OBVIOUS
<1>6. CASE Len(w) = 0
  <2>1. l[3] = "audience" /\ l[4] = "deliver"  BY <1>6
  <2>2. \A i \in 1 .. 4 : i = 1 \/ i = 2 \/ i = 3 \/ i = 4  OBVIOUS
  <2> HIDE DEF l, short
  <2>3. l = short  BY <1>1, <1>2, <1>3, <1>4, <1>6, <2>1, <2>2, SeqEqual
  <2> QED  BY <1>6, <2>3 DEF l, short
<1>7. CASE Len(w) = 1
  <2> DEFINE m == w \o <<"audience", "deliver">>
  <2>0. /\ m \in Seq(Stage) /\ Len(m) = 3
        /\ m[1] = "wait" /\ m[2] = "audience" /\ m[3] = "deliver"
    <3> DEFINE e == <<"audience", "deliver">>
    <3>1. e \in Seq(Stage) /\ Len(e) = 2 /\ e[1] = "audience" /\ e[2] = "deliver"  BY DEF Stage
    <3> HIDE DEF e
    <3>2. /\ w \o e \in Seq(Stage) /\ Len(w \o e) = 3
          /\ \A i \in 1 .. 3 : (w \o e)[i] = IF i <= 1 THEN w[i] ELSE e[i - 1]
      <4>1. /\ w \o e \in Seq(Stage) /\ Len(w \o e) = Len(w) + Len(e)
            /\ \A i \in 1 .. Len(w) + Len(e) : (w \o e)[i] = IF i <= Len(w) THEN w[i] ELSE e[i - Len(w)]
        BY <3>1, ConcatProperties
      <4>2. Len(w) + Len(e) = 3  BY <1>7, <3>1
      <4> QED  BY <1>7, <4>1, <4>2
    <3>3. (w \o e)[1] = "wait" /\ (w \o e)[2] = "audience" /\ (w \o e)[3] = "deliver"
      BY <1>7, <3>1, <3>2
    <3> QED  BY <3>2, <3>3 DEF e
  <2>1. l[3] = "wait" /\ l[4] = "audience" /\ l[5] = "deliver"
    <3> HIDE DEF m
    <3>1. l = <<"read", "write">> \o m  BY DEF m
    <3> QED  BY <2>0, <3>1
  <2>2. \A i \in 1 .. 5 : i = 1 \/ i = 2 \/ i = 3 \/ i = 4 \/ i = 5  OBVIOUS
  <2> HIDE DEF l, long
  <2>3. l = long  BY <1>1, <1>2, <1>3, <1>5, <1>7, <2>1, <2>2, SeqEqual
  <2> QED  BY <1>7, <2>3 DEF l, long
<1> QED  BY <1>6, <1>7

LEMMA FollowerStages ==
  ASSUME NEW call, NEW alone \in BOOLEAN, call.op \in Follower
  PROVE  LET s == Stages(call, alone) IN
         /\ s \in Seq(Stage) /\ s # <<>> /\ Ordered(s)
         /\ s[1] = "read" /\ Occurs(s, "read") /\ Occurs(s, Gate(call.op))
         /\ GateThenLast(s, Gate(call.op))
<1>1. CASE call.op = "edit" /\ Direct
  <2> DEFINE s == <<"read", "update", "audience", "deliver">>
  <2>1. Stages(call, alone) = s  BY <1>1 DEF Stages
  <2>2. s \in Seq(Stage) /\ s # <<>> /\ s[1] = "read"  BY DEF Stage
  <2>3. Ordered(s)  BY DEF Ordered, Rank
  <2>4. Occurs(s, "read") /\ Occurs(s, "audience") /\ GateThenLast(s, "audience")
    BY DEF Occurs, GateThenLast
  <2>5. Gate(call.op) = "audience"  BY <1>1 DEF Gate
  <2> QED  BY <2>1, <2>2, <2>3, <2>4, <2>5
<1>2. CASE call.op = "edit" /\ ~ Direct
  <2> DEFINE s == <<"read", "update", "deliver">>
  <2>1. Stages(call, alone) = s  BY <1>2 DEF Stages
  <2>2. s \in Seq(Stage) /\ s # <<>> /\ s[1] = "read"  BY DEF Stage
  <2>3. Ordered(s)  BY DEF Ordered, Rank
  <2>4. Occurs(s, "read") /\ Occurs(s, "update") /\ GateThenLast(s, "update")
    BY DEF Occurs, GateThenLast
  <2>5. Gate(call.op) = "update"  BY <1>2 DEF Gate
  <2> QED  BY <2>1, <2>2, <2>3, <2>4, <2>5
<1>3. CASE call.op = "delete"
  <2> DEFINE s == <<"read", "remove", "deliver">>
  <2>1. Stages(call, alone) = s  BY <1>3 DEF Stages
  <2>2. s \in Seq(Stage) /\ s # <<>> /\ s[1] = "read"  BY DEF Stage
  <2>3. Ordered(s)  BY DEF Ordered, Rank
  <2>4. Occurs(s, "read") /\ Occurs(s, "remove") /\ GateThenLast(s, "remove")
    BY DEF Occurs, GateThenLast
  <2>5. Gate(call.op) = "remove"  BY <1>3 DEF Gate
  <2> QED  BY <2>1, <2>2, <2>3, <2>4, <2>5
<1>4. CASE call.op = "react" /\ alone
  <2>0. Stages(call, alone) = <<"read", "write">> \o (<<>> \o <<"audience", "deliver">>)
    BY <1>4 DEF Stages, After
  <2> DEFINE s == <<"read", "write", "audience", "deliver">>
  <2>1. Stages(call, alone) = s
    <3>1. <<>> \in Seq(Stage) /\ Len(<<>>) = 0  OBVIOUS
    <3>2. <<"read", "write">> \o (<<>> \o <<"audience", "deliver">>) = s  BY <3>1, ReactStages
    <3> QED  BY <2>0, <3>2
  <2>2. s \in Seq(Stage) /\ s # <<>> /\ s[1] = "read"  BY DEF Stage
  <2>3. Ordered(s)  BY DEF Ordered, Rank
  <2>4. Occurs(s, "read") /\ Occurs(s, "audience") /\ GateThenLast(s, "audience")
    BY DEF Occurs, GateThenLast
  <2>5. Gate(call.op) = "audience"  BY <1>4 DEF Gate
  <2> QED  BY <2>1, <2>2, <2>3, <2>4, <2>5
<1>5. CASE call.op = "react" /\ ~ alone
  <2>0. Stages(call, alone) = <<"read", "write">> \o ([k \in 1 .. 1 |-> "wait"] \o <<"audience", "deliver">>)
    BY <1>5 DEF Stages, After
  <2> DEFINE w == [k \in 1 .. 1 |-> "wait"]
  <2>6. w \in Seq(Stage) /\ Len(w) = 1 /\ w[1] = "wait"
    <3>1. "wait" \in Stage  BY DEF Stage
    <3>2. w \in [1 .. 1 -> Stage]  BY <3>1
    <3> QED  BY <3>2, SeqDef
  <2> DEFINE s == <<"read", "write", "wait", "audience", "deliver">>
  <2>1. Stages(call, alone) = s
    <3> HIDE DEF w
    <3>2. Len(w) # 0  BY <2>6
    <3>1. <<"read", "write">> \o (w \o <<"audience", "deliver">>) =
            IF Len(w) = 0 THEN <<"read", "write", "audience", "deliver">> ELSE s
      BY <2>6, ReactStages
    <3> QED  BY <2>0, <3>1, <3>2 DEF w
  <2>2. s \in Seq(Stage) /\ s # <<>> /\ s[1] = "read"  BY DEF Stage
  <2>3. Ordered(s)  BY DEF Ordered, Rank
  <2>4. Occurs(s, "read") /\ Occurs(s, "audience") /\ GateThenLast(s, "audience")
    BY DEF Occurs, GateThenLast
  <2>5. Gate(call.op) = "audience"  BY <1>5 DEF Gate
  <2> QED  BY <2>1, <2>2, <2>3, <2>4, <2>5
<1> QED  BY <1>1, <1>2, <1>3, <1>4, <1>5 DEF Follower

LEMMA OtherStages ==
  ASSUME NEW call, NEW alone, call.op \in {"page", "block"}
  PROVE  LET s == Stages(call, alone) IN
         s \in Seq(Stage) /\ s # <<>> /\ Ordered(s) /\ ~ Occurs(s, "read")
<1>1. CASE call.op = "page" /\ Direct
  <2> DEFINE s1 == After(1, alone, <<"deliver">>)
            s2 == <<"reacts">> \o s1
            s3 == After(3, alone, s2)
            s4 == <<"rows">> \o s3
  <2>1. Stages(call, alone) = s4  BY <1>1 DEF Stages
  <2>2. /\ s1 \in Seq(Stage) /\ s1 # <<>> /\ Ordered(s1)
        /\ \A y : y # "wait" => (Occurs(s1, y) <=> y = "deliver")
    <3>1. "deliver" \in Stage  BY DEF Stage
    <3> QED  BY <3>1, LastTurns
  <2> HIDE DEF s1
  <2>3. "reacts" \in Stage /\ "rows" \in Stage /\ Rank("reacts") < Rank("deliver")
        /\ Rank("rows") < Rank("deliver") /\ Rank("rows") < Rank("reacts")
    BY DEF Stage, Rank
  <2>4. /\ s2 \in Seq(Stage) /\ s2 # <<>> /\ Ordered(s2)
        /\ \A y : y # "wait" => (Occurs(s2, y) <=> y \in {"reacts", "deliver"})
    <3>1. "reacts" # "wait" => \A y : y # "wait" /\ Occurs(s1, y) => Rank("reacts") < Rank(y)
      BY <2>2, <2>3
    <3> QED  BY <2>2, <2>3, <3>1, StageBefore
  <2> HIDE DEF s2
  <2>5. /\ s3 \in Seq(Stage) /\ s3 # <<>> /\ Ordered(s3)
        /\ \A y : y # "wait" => (Occurs(s3, y) <=> y \in {"reacts", "deliver"})
    BY <2>4, TurnsBefore
  <2> HIDE DEF s3
  <2>6. /\ s4 \in Seq(Stage) /\ s4 # <<>> /\ Ordered(s4)
        /\ \A y : y # "wait" => (Occurs(s4, y) <=> y \in {"rows", "reacts", "deliver"})
    <3>1. "rows" # "wait" => \A y : y # "wait" /\ Occurs(s3, y) => Rank("rows") < Rank(y)
      BY <2>3, <2>5
    <3> QED  BY <2>3, <2>5, <3>1, StageBefore
  <2> HIDE DEF s4
  <2> QED  BY <2>1, <2>6
<1>2. CASE call.op = "page" /\ ~ Direct
  <2> DEFINE s2 == <<"reacts", "deliver">>
            s3 == After(2, alone, s2)
            s4 == <<"rows">> \o s3
  <2>1. Stages(call, alone) = s4  BY <1>2 DEF Stages
  <2>2. s2 \in Seq(Stage) /\ s2 # <<>>  BY DEF Stage
  <2>3. Ordered(s2)  BY DEF Ordered, Rank
  <2>4. \A y : Occurs(s2, y) <=> y \in {"reacts", "deliver"}  BY DEF Occurs
  <2> HIDE DEF s2
  <2>5. /\ s3 \in Seq(Stage) /\ s3 # <<>> /\ Ordered(s3)
        /\ \A y : y # "wait" => (Occurs(s3, y) <=> y \in {"reacts", "deliver"})
    BY <2>2, <2>3, <2>4, TurnsBefore
  <2> HIDE DEF s3
  <2>6. /\ s4 \in Seq(Stage) /\ s4 # <<>> /\ Ordered(s4)
        /\ \A y : y # "wait" => (Occurs(s4, y) <=> y \in {"rows", "reacts", "deliver"})
    <3>1. "rows" \in Stage /\ Rank("rows") < Rank("deliver") /\ Rank("rows") < Rank("reacts")
      BY DEF Stage, Rank
    <3>2. "rows" # "wait" => \A y : y # "wait" /\ Occurs(s3, y) => Rank("rows") < Rank(y)
      BY <3>1, <2>5
    <3> QED  BY <2>5, <3>1, <3>2, StageBefore
  <2> HIDE DEF s4
  <2> QED  BY <2>1, <2>6
<1>3. CASE call.op = "block"
  <2>1. Stages(call, alone) = After(1, alone, <<"block">>)  BY <1>3 DEF Stages
  <2>2. "block" \in Stage  BY DEF Stage
  <2>3. /\ After(1, alone, <<"block">>) \in Seq(Stage) /\ After(1, alone, <<"block">>) # <<>>
        /\ Ordered(After(1, alone, <<"block">>))
        /\ \A y : y # "wait" => (Occurs(After(1, alone, <<"block">>), y) <=> y = "block")
    BY <2>2, LastTurns
  <2> QED  BY <2>1, <2>3
<1> QED  BY <1>1, <1>2, <1>3

(* A handler that has just begun. *)
LEMMA TaskBegins ==
  ASSUME NEW d \in Devices, NEW call, NEW alone \in BOOLEAN, call.op \in Op, "op" \in DOMAIN call
  PROVE  LET t == Task(d, call, alone) IN
         /\ TaskOK(t) /\ t.call = call /\ t.id = None
         /\ Posting(t) => Occurs(t.todo, "save") /\ ~ Unread(t)
<1> DEFINE s == Stages(call, alone)
          t == [d |-> d, call |-> call, id |-> None, at |-> None, page |-> <<>>, todo |-> s]
<1>1. s \in Seq(Stage) /\ s # <<>> /\ Ordered(s)
  BY PostStages, FollowerStages, OtherStages DEF Op
<1>2. call.op = "post" => Occurs(s, "stamp") /\ Occurs(s, "save") /\ s[1] # "read"
  BY PostStages
<1>3. call.op \in Follower => /\ s[1] = "read" /\ Occurs(s, "read") /\ Occurs(s, Gate(call.op))
                              /\ GateThenLast(s, Gate(call.op))
  BY FollowerStages
<1> HIDE DEF s
<1>4. /\ t \in [d : Devices, call : {call}, id : {None} \cup 1 .. Len(made), at : {None} \cup Nat,
               page : {<<>>}, todo : Seq(Stage)]
      /\ t.call = call /\ t.id = None /\ t.todo = s /\ t.page = <<>>
  BY <1>1
<1>5. Task(d, call, alone) = t  BY DEF Task, s
<1> HIDE DEF t
<1>6. Occurs(s, "read") => call.op \in Follower
  <2>1. CASE call.op = "post"  BY <2>1, PostStages DEF s
  <2>2. CASE call.op \in {"page", "block"}  BY <2>2, OtherStages DEF s
  <2> QED  BY <2>1, <2>2 DEF Op
<1>7. TaskOK(t)  BY <1>1, <1>2, <1>3, <1>4, <1>6 DEF TaskOK
<1> QED  BY <1>2, <1>4, <1>5, <1>7 DEF Posting, Unread

-----------------------------------------------------------------------------
(* A step of a handler.                                                    *)

(* The handlers after a step: the others, and behind them "t", if it has a stage left. *)
Queued(t) ==
  /\ IsSeq(tasks')
  /\ \A k \in DOMAIN tasks' :
       \/ k + 1 \in DOMAIN tasks /\ tasks'[k] = tasks[k + 1]
       \/ k = Len(tasks) /\ tasks'[k] = t /\ t.todo # <<>>

(* The head handler is about the message it was about, or about one that it has looked up. *)
Stepped(t) ==
  /\ t \in [d : Devices, call : {t.call}, id : {None} \cup 1 .. Len(made'), at : {None} \cup Nat,
            page : {t.page}, todo : {Tail(Now.todo)}]
  /\ "op" \in DOMAIN t.call /\ t.call.op = Now.call.op
  /\ \/ t.id = Now.id /\ t.at = Now.at /\ Now.todo[1] \notin {"stamp", "read"} /\ made' = made
     \/ /\ Now.todo[1] = "stamp" /\ Posting(Now)
        /\ t.id = Len(made) + 1 /\ t.at \in Nat /\ Len(made') = Len(made) + 1 /\ IsSeq(made')
     \/ /\ Now.todo[1] = "read" /\ Now.call.op \in Follower
        /\ t.id \in Ids /\ made' = made
  /\ Now.todo[1] \in {"update", "remove", "audience"} => Now.id \in Ids
  /\ Now.call.op = "delete" /\ Now.todo[1] = "remove" => Now.id \notin Ids'

(* A handler that returns early. *)
Dropped ==
  /\ IsSeq(tasks')
  /\ \A k \in DOMAIN tasks' : k + 1 \in DOMAIN tasks /\ tasks'[k] = tasks[k + 1]
  /\ made' = made

LEMMA TaskFields ==
  ASSUME NEW r, r = [d |-> r.d, call |-> r.call, id |-> r.id, at |-> r.at, page |-> r.page, todo |-> r.todo]
  PROVE  /\ \A p : [r EXCEPT !.page = p] =
              [d |-> r.d, call |-> r.call, id |-> r.id, at |-> r.at, page |-> p, todo |-> r.todo]
         /\ \A i : [r EXCEPT !.id = i] =
              [d |-> r.d, call |-> r.call, id |-> i, at |-> r.at, page |-> r.page, todo |-> r.todo]
         /\ \A i, a, q : [r EXCEPT !.id = i, !.at = a, !.call.quote = q] =
              [d |-> r.d, call |-> [r.call EXCEPT !.quote = q], id |-> i, at |-> a, page |-> r.page,
               todo |-> r.todo]
         /\ [r EXCEPT !.todo = Tail(@)] =
              [d |-> r.d, call |-> r.call, id |-> r.id, at |-> r.at, page |-> r.page,
               todo |-> Tail(r.todo)]
<1>1. DOMAIN r = {"d", "call", "id", "at", "page", "todo"}
  <2> DEFINE r0 == [d |-> r.d, call |-> r.call, id |-> r.id, at |-> r.at, page |-> r.page, todo |-> r.todo]
  <2>1. DOMAIN r0 = {"d", "call", "id", "at", "page", "todo"}  OBVIOUS
  <2> QED  BY <2>1
<1>2. \A p : [r EXCEPT !.page = p] =
        [d |-> r.d, call |-> r.call, id |-> r.id, at |-> r.at, page |-> p, todo |-> r.todo]
  BY ONLY <1>1
<1>3. \A i : [r EXCEPT !.id = i] =
        [d |-> r.d, call |-> r.call, id |-> i, at |-> r.at, page |-> r.page, todo |-> r.todo]
  BY ONLY <1>1
<1>4. ASSUME NEW i, NEW a, NEW q
      PROVE  [r EXCEPT !.id = i, !.at = a, !.call.quote = q] =
               [d |-> r.d, call |-> [r.call EXCEPT !.quote = q], id |-> i, at |-> a, page |-> r.page,
                todo |-> r.todo]
  <2> DEFINE c == [r.call EXCEPT !.quote = q]
            e1 == [d |-> r.d, call |-> r.call, id |-> i, at |-> r.at, page |-> r.page, todo |-> r.todo]
            e2 == [d |-> r.d, call |-> r.call, id |-> i, at |-> a, page |-> r.page, todo |-> r.todo]
  <2>1. [r EXCEPT !.id = i, !.at = a, !.call.quote = q] = [[e1 EXCEPT !.at = a] EXCEPT !.call = c]
    BY <1>3
  <2> HIDE DEF c
  <2>2. [e1 EXCEPT !.at = a] = e2  OBVIOUS
  <2>3. [e2 EXCEPT !.call = c] =
          [d |-> r.d, call |-> c, id |-> i, at |-> a, page |-> r.page, todo |-> r.todo]
    OBVIOUS
  <2> HIDE DEF e1, e2
  <2> QED  BY <2>1, <2>2, <2>3 DEF c
<1>5. \A v : [r EXCEPT !.todo = v] =
        [d |-> r.d, call |-> r.call, id |-> r.id, at |-> r.at, page |-> r.page, todo |-> v]
  BY ONLY <1>1
<1>6. [r EXCEPT !.todo = Tail(@)] = [r EXCEPT !.todo = Tail(r.todo)]  OBVIOUS
<1> QED  BY <1>2, <1>3, <1>4, <1>5, <1>6

LEMMA NowFacts ==
  ASSUME HandlersInv, tasks # <<>>
  PROVE  /\ TaskOK(Now) /\ 1 \in DOMAIN tasks /\ Len(tasks) \in Nat /\ DOMAIN tasks = 1 .. Len(tasks)
         /\ Now = [d |-> Now.d, call |-> Now.call, id |-> Now.id, at |-> Now.at, page |-> Now.page,
                   todo |-> Now.todo]
<1>1. Len(tasks) \in Nat /\ DOMAIN tasks = 1 .. Len(tasks) /\ Len(tasks) > 0
  BY SeqFacts DEF HandlersInv
<1>2. TaskOK(Now)  BY <1>1 DEF HandlersInv, Now
<1>3. Now \in [d : Devices, call : {Now.call}, id : {None} \cup 1 .. Len(made), at : {None} \cup Nat,
               page : {Now.page}, todo : Seq(Stage)]
  BY <1>2 DEF TaskOK
<1>4. Now = [d |-> Now.d, call |-> Now.call, id |-> Now.id, at |-> Now.at, page |-> Now.page,
             todo |-> Now.todo]
  BY <1>3
<1> QED  BY <1>1, <1>2, <1>4

LEMMA ReturnEffect ==
  ASSUME HandlersInv, tasks # <<>>, Return, made' = made
  PROVE  Dropped
<1>1. IsSeq(tasks)  BY DEF HandlersInv
<1>2. tasks' = Tail(tasks)  BY DEF Return
<1> QED  BY <1>1, <1>2, SeqFacts DEF Dropped

LEMMA GoOnEffect ==
  ASSUME HandlersInv, tasks # <<>>, NEW task, GoOn(task), task.todo = Now.todo,
         task = [d |-> task.d, call |-> task.call, id |-> task.id, at |-> task.at, page |-> task.page,
                 todo |-> task.todo]
  PROVE  Queued([task EXCEPT !.todo = Tail(@)])
<1> DEFINE t == [task EXCEPT !.todo = Tail(@)]
<1>1. IsSeq(tasks)  BY DEF HandlersInv
<1>2. Now.todo \in Seq(Stage) /\ Now.todo # <<>>  BY NowFacts DEF TaskOK
<1>3. t.todo = Tail(Now.todo)  OBVIOUS
<1>4. CASE Len(task.todo) = 1
  <2>1. tasks' = Tail(tasks) \o <<>>  BY <1>4 DEF GoOn
  <2>2. Tail(tasks) \o <<>> = Tail(tasks)
    <3>1. IsSeq(Tail(tasks))  BY <1>1, SeqFacts
    <3> QED  BY <3>1, ConcatEmptySeq DEF IsSeq
  <2> QED  BY <1>1, <2>1, <2>2, SeqFacts DEF Queued
<1>5. CASE Len(task.todo) # 1
  <2>1. tasks' = Tail(tasks) \o <<t>>  BY <1>5 DEF GoOn
  <2>2. t.todo # <<>>
    <3>1. Len(Tail(Now.todo)) = Len(Now.todo) - 1 /\ Len(Now.todo) \in Nat /\ Len(Now.todo) # 0
      BY <1>2, HeadTailProperties, EmptySeq
    <3>2. Len(Tail(Now.todo)) # 0  BY <1>5, <3>1
    <3>3. Len(<<>>) = 0  OBVIOUS
    <3>4. Tail(Now.todo) # <<>>  BY <3>2, <3>3, Zenon
    <3> HIDE DEF t
    <3> QED  BY <1>3, <3>4, Zenon
  <2> HIDE DEF t
  <2>3. /\ IsSeq(tasks') /\ Len(tasks') = Len(tasks)
        /\ \A k \in 1 .. Len(tasks) - 1 : tasks'[k] = tasks[k + 1]
        /\ tasks'[Len(tasks)] = t
    BY <1>1, <2>1, RotateFacts
  <2>4. Len(tasks) \in Nat /\ DOMAIN tasks = 1 .. Len(tasks) /\ DOMAIN tasks' = 1 .. Len(tasks)
    BY <1>1, <2>3, SeqFacts
  <2>5. ASSUME NEW k \in DOMAIN tasks'
        PROVE  \/ k + 1 \in DOMAIN tasks /\ tasks'[k] = tasks[k + 1]
               \/ k = Len(tasks) /\ tasks'[k] = t /\ t.todo # <<>>
    <3>1. CASE k = Len(tasks)  BY <2>2, <2>3, <3>1
    <3>2. CASE k # Len(tasks)  BY <2>3, <2>4, <3>2
    <3> QED  BY <3>1, <3>2
  <2> QED  BY <2>3, <2>5 DEF Queued, t
<1> QED  BY <1>4, <1>5

(* Which handler a stage belongs to. *)
LEMMA StageEffect ==
  ASSUME HandlersInv, tasks # <<>>, NEW task, GoOn(task), Stepped([task EXCEPT !.todo = Tail(@)]),
         task = [d |-> task.d, call |-> task.call, id |-> task.id, at |-> task.at, page |-> task.page,
                 todo |-> task.todo],
         task.todo = Now.todo
  PROVE  \E t : Queued(t) /\ Stepped(t)
BY GoOnEffect

(* A stage that looks nothing up. *)
LEMMA PlainEffect ==
  ASSUME HandlersInv, tasks # <<>>, NEW page, made' = made,
         GoOn(Now) \/ GoOn([Now EXCEPT !.page = page]),
         Now.todo[1] \notin {"stamp", "read"},
         Now.todo[1] \in {"update", "remove", "audience"} => Now.id \in Ids,
         Now.call.op = "delete" /\ Now.todo[1] = "remove" => Now.id \notin Ids'
  PROVE  \E t : Queued(t) /\ Stepped(t)
<1>1. TaskOK(Now) /\ Now = [d |-> Now.d, call |-> Now.call, id |-> Now.id, at |-> Now.at,
                            page |-> Now.page, todo |-> Now.todo]
  BY NowFacts
<1>2. PICK p : GoOn([Now EXCEPT !.page = p])
  <2>1. CASE GoOn(Now)
    <3>1. Now = [Now EXCEPT !.page = Now.page]  BY <1>1
    <3> QED  BY <2>1, <3>1
  <2> QED  BY <2>1
<1> DEFINE task == [Now EXCEPT !.page = p]
          t == [task EXCEPT !.todo = Tail(@)]
<1>3. /\ task = [d |-> Now.d, call |-> Now.call, id |-> Now.id, at |-> Now.at, page |-> p,
                 todo |-> Now.todo]
      /\ t = [d |-> Now.d, call |-> Now.call, id |-> Now.id, at |-> Now.at, page |-> p,
              todo |-> Tail(Now.todo)]
  <2>1. task = [d |-> Now.d, call |-> Now.call, id |-> Now.id, at |-> Now.at, page |-> p,
                todo |-> Now.todo]
    BY <1>1, TaskFields
  <2> HIDE DEF task
  <2>2. /\ DOMAIN task = {"d", "call", "id", "at", "page", "todo"} /\ task.todo = Now.todo
        /\ task.d = Now.d /\ task.call = Now.call /\ task.id = Now.id /\ task.at = Now.at /\ task.page = p
    BY <2>1
  <2>3. \A v : [task EXCEPT !.todo = v] = [d |-> Now.d, call |-> Now.call, id |-> Now.id, at |-> Now.at,
                                          page |-> p, todo |-> v]
    BY <2>2
  <2>4. t = [task EXCEPT !.todo = Tail(Now.todo)]  BY <2>2
  <2> QED  BY <2>1, <2>3, <2>4
<1>4. Stepped(t)
  <2> HIDE DEF t
  <2>1. /\ Now.d \in Devices /\ Now.id \in {None} \cup 1 .. Len(made') /\ Now.at \in {None} \cup Nat
        /\ "op" \in DOMAIN Now.call
    BY <1>1 DEF TaskOK
  <2>2. /\ t \in [d : Devices, call : {t.call}, id : {None} \cup 1 .. Len(made'), at : {None} \cup Nat,
                  page : {t.page}, todo : {Tail(Now.todo)}]
        /\ t.call = Now.call /\ t.id = Now.id /\ t.at = Now.at
    BY <1>3, <2>1
  <2> QED  BY <2>1, <2>2 DEF Stepped
<1>5. /\ task = [d |-> task.d, call |-> task.call, id |-> task.id, at |-> task.at, page |-> task.page,
                 todo |-> task.todo]
      /\ task.todo = Now.todo
  <2> HIDE DEF task
  <2> QED  BY <1>3 DEF task
<1> QED  BY <1>2, <1>4, <1>5, StageEffect

(* Every step of the handlers does one of the two. *)
LEMMA StepEffect ==
  ASSUME HandlersInv, Step
  PROVE  tasks # <<>> /\ (Dropped \/ \E t : Queued(t) /\ Stepped(t))
<1>1. tasks # <<>>
  BY DEF Step, Wait, StampPost, Save, DeliverPost, Read, Update, Remove, Write, Audience, DeliverNews,
         ReadRows, ReadReactions, DeliverPage, Block, At
<1>2. CASE StampPost
  <2>1. Now.todo[1] = "stamp" /\ Posting(Now)  BY <1>2 DEF StampPost, At, Now, Posting
  <2>2. CASE Return /\ UNCHANGED made  BY <1>1, <2>2, ReturnEffect
  <2>3. CASE ~ (Return /\ UNCHANGED made)
    <3> DEFINE q == IF Now.call.quote \in Ids THEN Now.call.quote ELSE None
              c == [Now.call EXCEPT !.quote = q]
              task == [Now EXCEPT !.id = Len(made) + 1, !.at = clock, !.call.quote = q]
              t == [task EXCEPT !.todo = Tail(@)]
    <3>1. /\ made' = Append(made, [from |-> Now.d, word |-> Now.call.body.word])
          /\ GoOn(task)
      BY <1>2, <2>3 DEF StampPost
    <3>2. TaskOK(Now) /\ Now = [d |-> Now.d, call |-> Now.call, id |-> Now.id, at |-> Now.at,
                                page |-> Now.page, todo |-> Now.todo]
      BY <1>1, NowFacts
    <3>3. "op" \in DOMAIN Now.call /\ Now.d \in Devices  BY <3>2 DEF TaskOK
    <3>4. "op" \in DOMAIN c /\ c.op = Now.call.op
      <4>1. DOMAIN c = DOMAIN Now.call  OBVIOUS
      <4>2. c["op"] = Now.call["op"]  BY <3>3
      <4> QED  BY <3>3, <4>1, <4>2
    <3>5. /\ task = [d |-> Now.d, call |-> c, id |-> Len(made) + 1, at |-> clock, page |-> Now.page,
                     todo |-> Now.todo]
          /\ t = [d |-> Now.d, call |-> c, id |-> Len(made) + 1, at |-> clock, page |-> Now.page,
                  todo |-> Tail(Now.todo)]
      <4> HIDE DEF q
      <4> DEFINE e1 == [d |-> Now.d, call |-> Now.call, id |-> Len(made) + 1, at |-> Now.at,
                        page |-> Now.page, todo |-> Now.todo]
                e2 == [d |-> Now.d, call |-> Now.call, id |-> Len(made) + 1, at |-> clock,
                        page |-> Now.page, todo |-> Now.todo]
      <4>1. task = [[e1 EXCEPT !.at = clock] EXCEPT !.call = c]  BY <3>2, TaskFields, ZenonT(40)
      <4> HIDE DEF c
      <4>2. [e1 EXCEPT !.at = clock] = e2  OBVIOUS
      <4>3. [e2 EXCEPT !.call = c] = [d |-> Now.d, call |-> c, id |-> Len(made) + 1, at |-> clock,
                                      page |-> Now.page, todo |-> Now.todo]
        OBVIOUS
      <4> HIDE DEF e1, e2, task
      <4>4. task = [d |-> Now.d, call |-> c, id |-> Len(made) + 1, at |-> clock, page |-> Now.page,
                    todo |-> Now.todo]
        BY <4>1, <4>2, <4>3
      <4>5. /\ DOMAIN task = {"d", "call", "id", "at", "page", "todo"} /\ task.todo = Now.todo
            /\ task.d = Now.d /\ task.call = c /\ task.id = Len(made) + 1 /\ task.at = clock
            /\ task.page = Now.page
        BY <4>4
      <4>6. \A v : [task EXCEPT !.todo = v] = [d |-> Now.d, call |-> c, id |-> Len(made) + 1,
                                              at |-> clock, page |-> Now.page, todo |-> v]
        BY <4>5
      <4>7. t = [task EXCEPT !.todo = Tail(Now.todo)]  BY <4>5
      <4> QED  BY <4>4, <4>6, <4>7
    <3>6. /\ IsSeq(made) /\ Len(made) \in Nat /\ clock \in Nat
          /\ IsSeq(made') /\ Len(made') = Len(made) + 1
      BY <3>1, SeqFacts, AppendFacts DEF HandlersInv, TablesInv
    <3> HIDE DEF c
    <3>7. Stepped(t)
      <4> HIDE DEF t
      <4>1. /\ t \in [d : Devices, call : {t.call}, id : {None} \cup 1 .. Len(made'),
                      at : {None} \cup Nat, page : {t.page}, todo : {Tail(Now.todo)}]
            /\ t.call = c /\ t.id = Len(made) + 1 /\ t.at = clock
        <5>1. Len(made) + 1 \in 1 .. Len(made')  BY <3>6
        <5> QED  BY <3>3, <3>5, <3>6, <5>1
      <4> QED  BY <2>1, <3>4, <3>6, <4>1 DEF Stepped
    <3>8. /\ task = [d |-> task.d, call |-> task.call, id |-> task.id, at |-> task.at,
                     page |-> task.page, todo |-> task.todo]
          /\ task.todo = Now.todo
      <4> HIDE DEF task
      <4> QED  BY <3>5
    <3> QED  BY <1>1, <3>1, <3>7, <3>8, StageEffect
  <2> QED  BY <2>2, <2>3
<1>3. CASE Read
  <2>1. /\ Now.todo[1] = "read" /\ Now.call.op \in Follower /\ made' = made
    BY <1>3 DEF Read, At, Now, Follower
  <2>2. CASE Return  BY <1>1, <2>1, <2>2, ReturnEffect
  <2>3. CASE ~ Return
    <3> DEFINE task == [Now EXCEPT !.id = Now.call.id]
              t == [task EXCEPT !.todo = Tail(@)]
    <3>1. GoOn(task) /\ Now.call.id \in Ids  BY <1>3, <2>3 DEF Read
    <3>2. TaskOK(Now) /\ Now = [d |-> Now.d, call |-> Now.call, id |-> Now.id, at |-> Now.at,
                                page |-> Now.page, todo |-> Now.todo]
      BY <1>1, NowFacts
    <3>3. "op" \in DOMAIN Now.call /\ Now.d \in Devices /\ Now.at \in {None} \cup Nat
      BY <3>2 DEF TaskOK
    <3>4. Now.call.id \in 1 .. Len(made')  BY <2>1, <3>1 DEF HandlersInv, TablesInv
    <3>5. /\ task = [d |-> Now.d, call |-> Now.call, id |-> Now.call.id, at |-> Now.at,
                     page |-> Now.page, todo |-> Now.todo]
          /\ t = [d |-> Now.d, call |-> Now.call, id |-> Now.call.id, at |-> Now.at,
                  page |-> Now.page, todo |-> Tail(Now.todo)]
      <4>1. task = [d |-> Now.d, call |-> Now.call, id |-> Now.call.id, at |-> Now.at,
                    page |-> Now.page, todo |-> Now.todo]
        BY <3>2, TaskFields
      <4> HIDE DEF task
      <4>2. /\ DOMAIN task = {"d", "call", "id", "at", "page", "todo"} /\ task.todo = Now.todo
            /\ task.d = Now.d /\ task.call = Now.call /\ task.id = Now.call.id /\ task.at = Now.at
            /\ task.page = Now.page
        BY <4>1
      <4>3. \A v : [task EXCEPT !.todo = v] = [d |-> Now.d, call |-> Now.call, id |-> Now.call.id,
                                              at |-> Now.at, page |-> Now.page, todo |-> v]
        BY <4>2
      <4>4. t = [task EXCEPT !.todo = Tail(Now.todo)]  BY <4>2
      <4> QED  BY <4>1, <4>3, <4>4
    <3>6. Stepped(t)
      <4> HIDE DEF t
      <4>1. /\ t \in [d : Devices, call : {t.call}, id : {None} \cup 1 .. Len(made'),
                      at : {None} \cup Nat, page : {t.page}, todo : {Tail(Now.todo)}]
            /\ t.call = Now.call /\ t.id = Now.call.id /\ t.at = Now.at
        BY <3>3, <3>4, <3>5
      <4> QED  BY <2>1, <3>1, <3>3, <4>1 DEF Stepped
    <3>7. /\ task = [d |-> task.d, call |-> task.call, id |-> task.id, at |-> task.at,
                     page |-> task.page, todo |-> task.todo]
          /\ task.todo = Now.todo
      <4> HIDE DEF task
      <4> QED  BY <3>5
    <3> QED  BY <1>1, <3>1, <3>6, <3>7, StageEffect
  <2> QED  BY <2>2, <2>3
<1>4. CASE Update \/ Remove \/ Audience
  <2>1. Now.todo[1] \in {"update", "remove", "audience"} /\ made' = made
    BY <1>4 DEF Update, Remove, Audience, At, Now
  <2>2. \/ Return
        \/ /\ GoOn(Now) /\ Now.id \in Ids
           /\ Now.call.op = "delete" /\ Now.todo[1] = "remove" => Now.id \notin Ids'
    <3>1. CASE Update  BY <3>1 DEF Update, Mine, At, Now
    <3>2. CASE Remove
      <4>1. Now.todo[1] = "remove"  BY <3>2 DEF Remove, At, Now
      <4>2. Return \/ (GoOn(Now) /\ Mine /\ rows' = Drop(rows, {Now.id}))  BY <3>2 DEF Remove
      <4>3. rows' = Drop(rows, {Now.id}) => Now.id \notin Ids'  BY DEF Drop, Ids
      <4> QED  BY <4>2, <4>3 DEF Mine
    <3>3. CASE Audience  BY <3>3 DEF Audience, At, Now
    <3> QED  BY <1>4, <3>1, <3>2, <3>3
  <2> QED  BY <1>1, <2>1, <2>2, ReturnEffect, PlainEffect
<1>5. CASE Wait \/ Save \/ DeliverPost \/ Write \/ DeliverNews \/ DeliverPage \/ Block
  <2>1. /\ Now.todo[1] \in {"wait", "save", "deliver", "write", "block"} /\ made' = made /\ GoOn(Now)
    BY <1>5 DEF Wait, Save, DeliverPost, Write, DeliverNews, DeliverPage, Block, At, Now
  <2> QED  BY <1>1, <2>1, PlainEffect
<1>6. CASE ReadRows \/ ReadReactions
  <2>1. /\ Now.todo[1] \in {"rows", "reacts"} /\ made' = made
        /\ \E page : GoOn([Now EXCEPT !.page = page])
    BY <1>6 DEF ReadRows, ReadReactions, At, Now
  <2> QED  BY <1>1, <2>1, PlainEffect
<1> QED  BY <1>1, <1>2, <1>3, <1>4, <1>5, <1>6 DEF Step

-----------------------------------------------------------------------------
(* The handlers stay in order.                                             *)

LEMMA IdsAreNat ==
  ASSUME HandlersInv
  PROVE  Len(made) \in Nat /\ None \notin 1 .. Len(made) /\ \A i \in Ids : i \in 1 .. Len(made)
BY SeqFacts, MessagesAssumption DEF HandlersInv, TablesInv

LEMMA HeadFacts ==
  ASSUME HandlersInv, tasks # <<>>
  PROVE  LET s == Now.todo IN
         /\ Tail(s) \in Seq(Stage) /\ Ordered(Tail(s))
         /\ \A x : Occurs(Tail(s), x) => Occurs(s, x)
         /\ \A x : Occurs(s, x) /\ s[1] # x => Occurs(Tail(s), x)
         /\ \A x : x # "wait" /\ s[1] # "wait" /\ Occurs(Tail(s), x) => Rank(s[1]) < Rank(x)
         /\ Posting(Now) /\ s[1] = "save" => Now.id # None /\ ~ Occurs(Tail(s), "save")
         /\ s[1] = "read" => ~ Occurs(Tail(s), "read")
         /\ s[1] = "stamp" => ~ Occurs(Tail(s), "stamp")
<1> DEFINE s == Now.todo
<1>1. s \in Seq(Stage) /\ s # <<>> /\ Ordered(s)  BY NowFacts DEF TaskOK
<1>2. Posting(Now) => (Now.id = None => Occurs(s, "stamp"))  BY NowFacts DEF TaskOK, Posting
<1> HIDE DEF s
<1>3. /\ Tail(s) \in Seq(Stage) /\ Ordered(Tail(s))
      /\ \A x : Occurs(Tail(s), x) => Occurs(s, x)
      /\ \A x : Occurs(s, x) /\ s[1] # x => Occurs(Tail(s), x)
      /\ \A x : x # "wait" /\ s[1] # "wait" /\ Occurs(Tail(s), x) => Rank(s[1]) < Rank(x)
  BY <1>1, TailStages
<1>4. ~ (Rank("save") < Rank("save")) /\ ~ (Rank("save") < Rank("stamp"))
      /\ ~ (Rank("read") < Rank("read")) /\ ~ (Rank("stamp") < Rank("stamp"))
  BY DEF Rank
<1>5. /\ s[1] = "save" => ~ Occurs(Tail(s), "save") /\ ~ Occurs(Tail(s), "stamp")
      /\ s[1] = "read" => ~ Occurs(Tail(s), "read")
      /\ s[1] = "stamp" => ~ Occurs(Tail(s), "stamp")
  BY <1>3, <1>4
<1>6. s[1] = "save" /\ Occurs(s, "stamp") => Occurs(Tail(s), "stamp")  BY <1>3
<1>7. Posting(Now) /\ s[1] = "save" => Now.id # None  BY <1>2, <1>5, <1>6
<1> QED  BY <1>3, <1>5, <1>7 DEF s

(* What a step does to the table. *)
LEMMA TableEffect ==
  ASSUME HandlersInv, Step
  PROVE  /\ clock' = clock /\ channel' = channel
         /\ \A i \in Ids' : i \in Ids \/ (i = Now.id /\ Posting(Now) /\ Now.todo[1] = "save")
<1>1. clock' = clock /\ channel' = channel
  BY DEF Step, Wait, StampPost, Save, DeliverPost, Read, Update, Remove, Write, Audience, DeliverNews,
         ReadRows, ReadReactions, DeliverPage, Block, server, table
<1>2. CASE Save
  <2>1. Ids' = Ids \cup {Now.id}  BY <1>2 DEF Save, Ids
  <2>2. Posting(Now) /\ Now.todo[1] = "save"  BY <1>2 DEF Save, At, Now, Posting
  <2> QED  BY <1>1, <2>1, <2>2
<1>3. CASE Update
  <2>1. rows' = rows \/ (rows' = [rows EXCEPT ![Now.id].body = Now.call.body,
                                    ![Now.id].expires =
                                      IF Direct /\ Now.call.ttl # None THEN clock + Now.call.ttl ELSE @])
    BY <1>3 DEF Update
  <2>2. DOMAIN rows' = DOMAIN rows  BY <2>1
  <2> QED  BY <1>1, <2>2 DEF Ids
<1>4. CASE Remove
  <2>1. rows' = rows \/ rows' = Drop(rows, {Now.id})  BY <1>4 DEF Remove
  <2> QED  BY <1>1, <2>1 DEF Ids, Drop
<1>5. ASSUME ~ Save, ~ Update, ~ Remove PROVE rows' = rows
  BY <1>5 DEF Step, Wait, StampPost, DeliverPost, Read, Write, Audience, DeliverNews,
         ReadRows, ReadReactions, DeliverPage, Block, table
<1> QED  BY <1>1, <1>2, <1>3, <1>4, <1>5 DEF Ids

LEMMA SteppedOK ==
  ASSUME HandlersInv, tasks # <<>>, channel' = channel, NEW t, Stepped(t), t.todo # <<>>
  PROVE  TaskOK(t)'
<1>1. TaskOK(Now)  BY NowFacts
<1>2. t.todo = Tail(Now.todo) /\ t.call.op = Now.call.op /\ "op" \in DOMAIN t.call  BY DEF Stepped
<1>3. t.todo \in Seq(Stage) /\ Ordered(t.todo)  BY <1>2, HeadFacts
<1>4. t \in [d : Devices, call : {t.call}, id : {None} \cup 1 .. Len(made'), at : {None} \cup Nat,
             page : {t.page}, todo : Seq(Stage)]
  BY <1>2, <1>3 DEF Stepped
<1>5. t.id # None \/ t.id = Now.id
  BY IdsAreNat, MessagesAssumption DEF Stepped
<1>6. \A x : Occurs(t.todo, x) <=> Occurs(Tail(Now.todo), x)  BY <1>2
<1>7. ASSUME t.call.op = "post"
      PROVE  /\ t.id = None <=> Occurs(t.todo, "stamp")
             /\ Occurs(t.todo, "stamp") => Occurs(t.todo, "save")
             /\ t.id # None => t.at \in Nat
  <2>1. /\ Posting(Now) /\ Now.call.op \notin Follower
        /\ Now.id = None <=> Occurs(Now.todo, "stamp")
        /\ Occurs(Now.todo, "stamp") => Occurs(Now.todo, "save")
        /\ Now.id # None => Now.at \in Nat
    BY <1>1, <1>2, <1>7 DEF Posting, TaskOK, Follower
  <2>2. CASE t.id = Now.id /\ t.at = Now.at /\ Now.todo[1] \notin {"stamp", "read"}
    <3>1. Occurs(t.todo, "stamp") <=> Occurs(Now.todo, "stamp")  BY <1>6, <2>2, HeadFacts
    <3>2. Now.id = None => Now.todo[1] # "save"  BY <2>1, HeadFacts
    <3>3. Occurs(t.todo, "stamp") => Occurs(t.todo, "save")  BY <1>6, <2>1, <3>1, <3>2, HeadFacts
    <3> QED  BY <2>1, <2>2, <3>1, <3>3
  <2>3. CASE Now.todo[1] = "stamp" /\ t.id = Len(made) + 1 /\ t.at \in Nat
    <3>1. t.id # None  BY <2>3, IdsAreNat, MessagesAssumption
    <3>2. ~ Occurs(t.todo, "stamp")  BY <1>6, <2>3, HeadFacts
    <3> QED  BY <2>3, <3>1, <3>2
  <2> QED  BY <2>1, <2>2, <2>3 DEF Stepped
<1>8. ~ Occurs(t.todo, "read")
  <2>1. Occurs(Now.todo, "read") => Now.todo[1] = "read"  BY <1>1 DEF TaskOK
  <2> QED  BY <1>6, <2>1, HeadFacts
<1>9. ASSUME t.call.op \in Follower PROVE t.id # None /\ GateThenLast(t.todo, Gate(t.call.op))
  <2>1. Now.call.op \in Follower /\ (Now.id = None <=> Occurs(Now.todo, "read"))
    BY <1>1, <1>2, <1>9 DEF TaskOK
  <2>2. Occurs(Now.todo, "read") => Now.todo[1] = "read"  BY <1>1 DEF TaskOK
  <2>3. ~ Posting(Now)  BY <2>1 DEF Posting, Follower
  <2>4. t.id # None  BY <2>1, <2>2, <2>3, IdsAreNat DEF Stepped
  <2>5. GateThenLast(Now.todo, Gate(Now.call.op))  BY <1>1, <2>1 DEF TaskOK
  <2>6. /\ Len(t.todo) = Len(Now.todo) - 1 /\ Len(Now.todo) \in Nat
        /\ Len(t.todo) \in Nat /\ Len(t.todo) # 0
        /\ \A n \in 1 .. Len(t.todo) : t.todo[n] = Now.todo[n + 1]
    <3>1. Now.todo \in Seq(Stage) /\ Now.todo # <<>>  BY <1>1 DEF TaskOK
    <3> QED  BY <1>2, <1>3, <3>1, HeadTailProperties, LenProperties, EmptySeq
  <2>7. GateThenLast(t.todo, Gate(Now.call.op))
    <3>1. CASE Len(t.todo) = 1  BY <3>1 DEF GateThenLast
    <3>2. CASE Len(t.todo) # 1
      <4>1. Len(t.todo) - 1 \in 1 .. Len(t.todo) /\ Len(t.todo) - 1 + 1 = Len(Now.todo) - 1
        <5> DEFINE n == Len(t.todo)
                  m == Len(Now.todo)
        <5>1. n \in Nat /\ m \in Nat /\ n = m - 1 /\ n # 0 /\ n # 1  BY <2>6, <3>2
        <5> HIDE DEF n, m
        <5>2. n - 1 \in 1 .. n /\ n - 1 + 1 = m - 1  BY <5>1
        <5> QED  BY <5>2 DEF n, m
      <4>2. Now.todo[Len(Now.todo) - 1] = Gate(Now.call.op)  BY <2>5, <2>6, <3>2 DEF GateThenLast
      <4> QED  BY <2>6, <4>1, <4>2 DEF GateThenLast
    <3> QED  BY <3>1, <3>2
  <2> QED  BY <1>2, <2>4, <2>7
<1>10. Gate(t.call.op)' = Gate(t.call.op)  BY DEF Gate, Direct
<1> QED  BY <1>2, <1>3, <1>4, <1>7, <1>8, <1>9, <1>10 DEF TaskOK, GateThenLast

LEMMA OthersOK ==
  ASSUME HandlersInv, channel' = channel, Len(made') \in Nat, Len(made) <= Len(made'),
         NEW u, TaskOK(u)
  PROVE  TaskOK(u)'
<1>1. 1 .. Len(made) \subseteq 1 .. Len(made')  BY IdsAreNat
<1>2. u \in [d : Devices, call : {u.call}, id : {None} \cup 1 .. Len(made'), at : {None} \cup Nat,
             page : {u.page}, todo : Seq(Stage)]
  BY <1>1 DEF TaskOK
<1>3. Gate(u.call.op)' = Gate(u.call.op)  BY DEF Gate, Direct
<1> QED  BY <1>2, <1>3 DEF TaskOK

(* What the other handlers of a queue were before the step. *)
LEMMA QueueFacts ==
  ASSUME HandlersInv, tasks # <<>>, NEW t, Queued(t), NEW k \in DOMAIN tasks'
  PROVE  \/ k + 1 \in DOMAIN tasks /\ k + 1 # 1 /\ tasks'[k] = tasks[k + 1] /\ k < Len(tasks)
         \/ k = Len(tasks) /\ tasks'[k] = t /\ t.todo # <<>>
<1>1. DOMAIN tasks = 1 .. Len(tasks) /\ Len(tasks) \in Nat  BY NowFacts
<1>2. k \in Nat /\ k >= 1  BY SeqFacts DEF Queued
<1> QED  BY <1>1, <1>2 DEF Queued

LEMMA SteppedKeeps ==
  ASSUME HandlersInv, Step, NEW t, Queued(t), Stepped(t)
  PROVE  HandlersInv'
<1>1. tasks # <<>>  BY StepEffect
<1>2. /\ clock' = clock /\ channel' = channel
      /\ \A i \in Ids' : i \in Ids \/ (i = Now.id /\ Posting(Now) /\ Now.todo[1] = "save")
  BY TableEffect
<1>3. /\ TaskOK(Now) /\ 1 \in DOMAIN tasks /\ tasks[1] = Now /\ Len(made) \in Nat
      /\ t.todo = Tail(Now.todo) /\ t.call.op = Now.call.op
      /\ Posting(t) <=> Posting(Now)
  BY <1>1, NowFacts, IdsAreNat DEF Now, Stepped, Posting
<1>4. \/ t.id = Now.id /\ Now.todo[1] \notin {"stamp", "read"} /\ made' = made
      \/ Now.todo[1] = "stamp" /\ Posting(Now) /\ t.id = Len(made) + 1 /\ Len(made') = Len(made) + 1 /\ IsSeq(made')
      \/ Now.todo[1] = "read" /\ Now.call.op \in Follower /\ t.id \in Ids /\ made' = made
  BY DEF Stepped
<1>5. IsSeq(made') /\ Len(made') \in Nat /\ Len(made) <= Len(made')
  BY <1>3, <1>4 DEF HandlersInv, TablesInv
<1>6. TablesInv'
  <2>1. ASSUME Posting(Now), Now.todo[1] = "save" PROVE Now.id \in 1 .. Len(made)
    BY <1>1, <1>3, <2>1, HeadFacts DEF TaskOK
  <2>2. Ids' \subseteq 1 .. Len(made')
    <3> SUFFICES ASSUME NEW i \in Ids' PROVE i \in 1 .. Len(made')  OBVIOUS
    <3>1. i \in 1 .. Len(made)  BY <1>2, <2>1, IdsAreNat
    <3> QED  BY <1>5, <1>3, <3>1
  <2> QED  BY <1>2, <1>5, <2>2 DEF HandlersInv, TablesInv
<1>7. \A k \in DOMAIN tasks' :
        \/ k + 1 \in DOMAIN tasks /\ k + 1 # 1 /\ tasks'[k] = tasks[k + 1] /\ k < Len(tasks)
        \/ k = Len(tasks) /\ tasks'[k] = t /\ t.todo # <<>>
  BY <1>1, QueueFacts
<1>8. \A k \in DOMAIN tasks' : TaskOK(tasks[k])'
  <2> SUFFICES ASSUME NEW k \in DOMAIN tasks' PROVE TaskOK(tasks[k])'  OBVIOUS
  <2>1. ASSUME NEW u, u = tasks'[k] PROVE TaskOK(u)'
    <3>1. CASE k + 1 \in DOMAIN tasks /\ u = tasks[k + 1]
      <4>1. TaskOK(u)  BY <3>1 DEF HandlersInv
      <4> QED  BY <1>2, <1>5, <4>1, OthersOK
    <3>2. CASE u = t /\ t.todo # <<>>
      <4>1. TaskOK(t)'  BY <1>1, <1>2, <3>2, SteppedOK
      <4> QED  BY <3>2, <4>1
    <3> QED  BY <1>7, <2>1, <3>1, <3>2
  <2> QED  BY <2>1 DEF TaskOK
<1> DEFINE olds == {k \in DOMAIN tasks : k # 1}
<1>9. \A k \in olds : (tasks[k].id = None \/ tasks[k].id \in 1 .. Len(made))
  BY DEF HandlersInv, TaskOK
<1>10. \A k \in olds : Posting(tasks[k]) /\ Posting(Now) /\ tasks[k].id = Now.id => Now.id = None
  BY <1>3 DEF HandlersInv
<1>11. \A k \in olds : Posting(tasks[k]) /\ Posting(t) /\ tasks[k].id = t.id => t.id = None
  BY <1>3, <1>4, <1>9, <1>10 DEF Posting, Follower
<1>12. \A j, k \in DOMAIN tasks' :
         j # k /\ Posting(tasks'[j]) /\ Posting(tasks'[k]) /\ tasks'[j].id = tasks'[k].id => tasks'[j].id = None
  <2> SUFFICES ASSUME NEW j \in DOMAIN tasks', NEW k \in DOMAIN tasks', j # k,
                      Posting(tasks'[j]), Posting(tasks'[k]), tasks'[j].id = tasks'[k].id
               PROVE  tasks'[j].id = None
    OBVIOUS
  <2>1. CASE k = Len(tasks) /\ tasks'[k] = t  BY <1>7, <1>11, <2>1
  <2>2. CASE j = Len(tasks) /\ tasks'[j] = t  BY <1>7, <1>11, <2>2
  <2>3. CASE /\ j + 1 \in DOMAIN tasks /\ tasks'[j] = tasks[j + 1]
             /\ k + 1 \in DOMAIN tasks /\ tasks'[k] = tasks[k + 1]
    <3>1. j + 1 # k + 1  BY SeqFacts DEF Queued
    <3> QED  BY <2>3, <3>1 DEF HandlersInv
  <2> QED  BY <1>7, <2>1, <2>2, <2>3
<1>13. \A k \in DOMAIN tasks' :
         Posting(tasks'[k]) /\ tasks'[k].id # None /\ Occurs(tasks'[k].todo, "save") => tasks'[k].id \notin Ids'
  <2> SUFFICES ASSUME NEW k \in DOMAIN tasks', Posting(tasks'[k]), tasks'[k].id # None,
                      Occurs(tasks'[k].todo, "save")
               PROVE  tasks'[k].id \notin Ids'
    OBVIOUS
  <2>1. CASE k + 1 \in olds /\ tasks'[k] = tasks[k + 1]
    <3>1. tasks[k + 1].id \notin Ids  BY <2>1 DEF HandlersInv
    <3> QED  BY <1>2, <1>10, <2>1, <3>1
  <2>2. CASE tasks'[k] = t
    <3>1. Occurs(Tail(Now.todo), "save") /\ Posting(Now)  BY <1>3, <2>2
    <3>2. Now.todo[1] # "save" /\ Occurs(Now.todo, "save")  BY <1>1, <3>1, HeadFacts
    <3>3. Now.id # None => Now.id \notin Ids  BY <1>3, <3>1, <3>2 DEF HandlersInv
    <3>4. t.id \notin Ids
      <4>1. Len(made) + 1 \notin Ids  BY <1>3, IdsAreNat
      <4> QED  BY <1>4, <2>2, <3>1, <3>3, <4>1 DEF Posting, Follower
    <3> QED  BY <1>2, <2>2, <3>2, <3>4
  <2> QED  BY <1>7, <2>1, <2>2
<1>14. \A k \in olds : Posting(tasks[k]) /\ t.call.op \in Follower /\ tasks[k].id = t.id => t.id = None
  <2> SUFFICES ASSUME NEW k \in olds, Posting(tasks[k]), t.call.op \in Follower, tasks[k].id = t.id
               PROVE  t.id = None
    OBVIOUS
  <2>1. CASE t.id = Now.id  BY <1>3, <2>1 DEF HandlersInv
  <2>2. CASE Now.todo[1] = "read" /\ t.id \in Ids
    <3>1. Occurs(tasks[k].todo, "save")  BY <1>3, <2>2 DEF HandlersInv, Unread
    <3> QED  BY <2>2, <3>1 DEF HandlersInv
  <2> QED  BY <1>3, <1>4, <2>1, <2>2 DEF Posting, Follower
<1>15. \A k \in olds : Posting(t) /\ tasks[k].call.op \in Follower /\ tasks[k].id = t.id => t.id = None
  <2> SUFFICES ASSUME NEW k \in olds, Posting(t), tasks[k].call.op \in Follower, tasks[k].id = t.id
               PROVE  t.id = None
    OBVIOUS
  <2>1. CASE t.id = Now.id  BY <1>3, <2>1 DEF HandlersInv
  <2>2. CASE t.id = Len(made) + 1  BY <1>3, <1>9, <2>2
  <2> QED  BY <1>3, <1>4, <2>1, <2>2 DEF Posting, Follower
<1>16. \A j, k \in DOMAIN tasks' :
         Posting(tasks'[j]) /\ tasks'[k].call.op \in Follower /\ tasks'[j].id = tasks'[k].id => tasks'[j].id = None
  <2> SUFFICES ASSUME NEW j \in DOMAIN tasks', NEW k \in DOMAIN tasks', Posting(tasks'[j]),
                      tasks'[k].call.op \in Follower, tasks'[j].id = tasks'[k].id
               PROVE  tasks'[j].id = None
    OBVIOUS
  <2>1. CASE tasks'[j] = t /\ tasks'[k] = t  BY <2>1 DEF Posting, Follower
  <2>2. CASE j + 1 \in olds /\ tasks'[j] = tasks[j + 1] /\ tasks'[k] = t  BY <1>14, <2>2
  <2>3. CASE k + 1 \in olds /\ tasks'[k] = tasks[k + 1] /\ tasks'[j] = t  BY <1>15, <2>3
  <2>4. CASE /\ j + 1 \in DOMAIN tasks /\ tasks'[j] = tasks[j + 1]
             /\ k + 1 \in DOMAIN tasks /\ tasks'[k] = tasks[k + 1]
    BY <2>4 DEF HandlersInv
  <2> QED  BY <1>7, <2>1, <2>2, <2>3, <2>4
<1>17. \A j, k \in DOMAIN tasks' :
         Posting(tasks'[j]) /\ Unread(tasks'[k]) =>
           Occurs(tasks'[j].todo, "save") /\ (j < k => tasks'[j].id = None)
  <2> SUFFICES ASSUME NEW j \in DOMAIN tasks', NEW k \in DOMAIN tasks', Posting(tasks'[j]), Unread(tasks'[k])
               PROVE  Occurs(tasks'[j].todo, "save") /\ (j < k => tasks'[j].id = None)
    OBVIOUS
  <2>1. k + 1 \in olds /\ tasks'[k] = tasks[k + 1] /\ k < Len(tasks)
    <3> SUFFICES ASSUME tasks'[k] = t, t.todo # <<>> PROVE FALSE  BY <1>7
    <3>1. 1 \in DOMAIN t.todo /\ t.todo[1] = "read"
      <4>1. t.todo \in Seq(Stage)  BY <1>1, <1>3, HeadFacts
      <4> QED  BY <4>1, EmptySeq, LenProperties DEF Unread
    <3>2. Occurs(Tail(Now.todo), "read")  BY <1>3, <3>1 DEF Occurs
    <3>3. Now.todo[1] = "read"  BY <1>1, <1>3, <3>2, HeadFacts DEF TaskOK
    <3> QED  BY <1>1, <3>2, <3>3, HeadFacts
  <2>2. CASE j + 1 \in DOMAIN tasks /\ tasks'[j] = tasks[j + 1]
    <3>1. j < k => j + 1 < k + 1  BY SeqFacts DEF Queued
    <3> QED  BY <2>1, <2>2, <3>1 DEF HandlersInv
  <2>3. CASE j = Len(tasks) /\ tasks'[j] = t
    <3>1. ~ (j < k)
      <4>1. Len(tasks) \in Nat /\ k \in Nat  BY <1>1, NowFacts, SeqFacts DEF Queued
      <4> QED  BY <2>1, <2>3, <4>1
    <3>2. Posting(Now) /\ 1 < k + 1
      <4>1. DOMAIN tasks = 1 .. Len(tasks) /\ Len(tasks) \in Nat  BY <1>1, NowFacts
      <4> QED  BY <1>3, <2>1, <2>3, <4>1
    <3>3. Occurs(Now.todo, "save") /\ Now.id = None
      <4>1. Posting(tasks[1]) /\ Unread(tasks[k + 1])  BY <1>3, <2>1, <3>2
      <4>2. Occurs(tasks[1].todo, "save") /\ tasks[1].id = None
        BY <1>3, <2>1, <3>2, <4>1 DEF HandlersInv
      <4> QED  BY <1>3, <4>2
    <3>4. Now.todo[1] # "save"  BY <1>1, <3>2, <3>3, HeadFacts
    <3> QED  BY <1>1, <1>3, <2>3, <3>1, <3>3, <3>4, HeadFacts
  <2> QED  BY <1>7, <2>2, <2>3
<1>18. IsSeq(tasks')  BY DEF Queued
<1> QED  BY <1>6, <1>8, <1>12, <1>13, <1>16, <1>17, <1>18 DEF HandlersInv, Posting, Unread, Occurs

LEMMA DroppedKeeps ==
  ASSUME HandlersInv, Step, Dropped
  PROVE  HandlersInv'
<1>1. tasks # <<>>  BY StepEffect
<1>2. /\ clock' = clock /\ channel' = channel
      /\ \A i \in Ids' : i \in Ids \/ (i = Now.id /\ Posting(Now) /\ Now.todo[1] = "save")
  BY TableEffect
<1>3. TaskOK(Now) /\ 1 \in DOMAIN tasks /\ tasks[1] = Now  BY <1>1, NowFacts DEF Now
<1>4. TablesInv'
  <2>1. ASSUME Posting(Now), Now.todo[1] = "save" PROVE Now.id \in 1 .. Len(made)
    BY <1>1, <1>3, <2>1, HeadFacts DEF TaskOK
  <2>2. Ids' \subseteq 1 .. Len(made')
    <3> SUFFICES ASSUME NEW i \in Ids' PROVE i \in 1 .. Len(made')  OBVIOUS
    <3>1. i \in 1 .. Len(made)  BY <1>2, <2>1, IdsAreNat
    <3> QED  BY <3>1 DEF Dropped
  <2> QED  BY <1>2, <2>2 DEF HandlersInv, TablesInv, Dropped
<1>5. \A k \in DOMAIN tasks' : k \in Nat /\ k >= 1 /\ k + 1 \in DOMAIN tasks /\ tasks'[k] = tasks[k + 1]
  BY SeqFacts DEF Dropped
<1>6. \A k \in DOMAIN tasks' : TaskOK(tasks[k])'
  <2> SUFFICES ASSUME NEW k \in DOMAIN tasks' PROVE TaskOK(tasks[k])'  OBVIOUS
  <2>1. ASSUME NEW u, u = tasks'[k] PROVE TaskOK(u)'
    <3>1. TaskOK(u)  BY <1>5, <2>1 DEF HandlersInv
    <3>2. Len(made') \in Nat /\ Len(made) <= Len(made')  BY IdsAreNat DEF Dropped
    <3> QED  BY <1>2, <3>1, <3>2, OthersOK
  <2> QED  BY <2>1 DEF TaskOK
<1>7. \A j, k \in DOMAIN tasks' : (j # k => j + 1 # k + 1) /\ (j < k => j + 1 < k + 1)  BY <1>5
<1>8. \A j, k \in DOMAIN tasks' :
         j # k /\ Posting(tasks'[j]) /\ Posting(tasks'[k]) /\ tasks'[j].id = tasks'[k].id => tasks'[j].id = None
  BY <1>5, <1>7 DEF HandlersInv
<1>9. \A k \in DOMAIN tasks' :
         Posting(tasks'[k]) /\ tasks'[k].id # None /\ Occurs(tasks'[k].todo, "save") => tasks'[k].id \notin Ids'
  <2> SUFFICES ASSUME NEW k \in DOMAIN tasks', Posting(tasks'[k]), tasks'[k].id # None,
                      Occurs(tasks'[k].todo, "save")
               PROVE  tasks'[k].id \notin Ids'
    OBVIOUS
  <2>1. k + 1 \in DOMAIN tasks /\ k + 1 # 1 /\ tasks'[k] = tasks[k + 1]  BY <1>5
  <2>2. tasks[k + 1].id \notin Ids  BY <2>1 DEF HandlersInv
  <2>3. Posting(Now) => tasks[k + 1].id # Now.id  BY <1>3, <2>1 DEF HandlersInv
  <2> QED  BY <1>2, <2>1, <2>2, <2>3
<1>10. \A j, k \in DOMAIN tasks' :
         Posting(tasks'[j]) /\ tasks'[k].call.op \in Follower /\ tasks'[j].id = tasks'[k].id => tasks'[j].id = None
  BY <1>5 DEF HandlersInv
<1>11. \A j, k \in DOMAIN tasks' :
         Posting(tasks'[j]) /\ Unread(tasks'[k]) =>
           Occurs(tasks'[j].todo, "save") /\ (j < k => tasks'[j].id = None)
  BY <1>5, <1>7 DEF HandlersInv
<1>12. IsSeq(tasks')  BY DEF Dropped
<1> QED  BY <1>4, <1>6, <1>8, <1>9, <1>10, <1>11, <1>12 DEF HandlersInv, Posting, Unread, Occurs

(* Rows may go while the handlers stay where they are, *)
LEMMA QuietKeeps ==
  ASSUME HandlersInv, made' = made, channel' = channel, Ids' \subseteq Ids, clock' \in Nat,
         tasks' = tasks \/ tasks' = <<>>
  PROVE  HandlersInv'
<1>1. TablesInv'  BY DEF HandlersInv, TablesInv
<1>2. Len(made') \in Nat /\ Len(made) <= Len(made')  BY IdsAreNat
<1>3. CASE tasks' = tasks
  <2>1. \A k \in DOMAIN tasks' : TaskOK(tasks[k])'
    <3> SUFFICES ASSUME NEW k \in DOMAIN tasks PROVE TaskOK(tasks[k])'  BY <1>3
    <3>1. ASSUME NEW u, u = tasks'[k] PROVE TaskOK(u)'
      <4>1. TaskOK(u)  BY <1>3, <3>1 DEF HandlersInv
      <4> QED  BY <1>2, <4>1, OthersOK
    <3> QED  BY <3>1 DEF TaskOK
  <2> QED  BY <1>1, <1>3, <2>1 DEF HandlersInv, Posting, Unread, Occurs
<1>4. CASE tasks' = <<>>
  <2>1. IsSeq(tasks') /\ DOMAIN tasks' = {}
    <3>1. <<>> \in Seq({})  OBVIOUS
    <3> QED  BY <1>4, <3>1 DEF IsSeq
  <2> QED  BY <1>1, <2>1 DEF HandlersInv
<1> QED  BY <1>3, <1>4

(* and new ones begin when none is in progress. *)
LEMMA ArriveKeeps ==
  ASSUME HandlersInv, NEW d \in Devices, NEW calls, NEW n \in Nat, DOMAIN calls = 1 .. n, Arrive(d, calls),
         \A i \in DOMAIN calls : calls[i].op \in Op /\ "op" \in DOMAIN calls[i]
  PROVE  HandlersInv'
<1> DEFINE alone == Len(calls) = 1
<1>1. tasks' = [i \in DOMAIN calls |-> Task(d, calls[i], alone)]
  BY DEF Arrive
<1>2. made' = made /\ channel' = channel /\ clock' = clock /\ rows' = rows
  BY DEF Arrive, table
<1>3. TablesInv'  BY <1>2 DEF HandlersInv, TablesInv, Ids
<1>4. IsSeq(tasks')
  <2>1. DOMAIN tasks' = 1 .. n /\ tasks' = [i \in 1 .. n |-> tasks'[i]]  BY <1>1
  <2> QED  BY <2>1, TupleIsSeq
<1>0. alone \in BOOLEAN  OBVIOUS
<1> HIDE DEF alone
<1>5. \A k \in DOMAIN tasks' : TaskOK(tasks'[k]) /\ tasks'[k].id = None
                               /\ (Posting(tasks'[k]) => Occurs(tasks'[k].todo, "save") /\ ~ Unread(tasks'[k]))
  <2> SUFFICES ASSUME NEW k \in DOMAIN calls
               PROVE  LET t == Task(d, calls[k], alone) IN
                      TaskOK(t) /\ t.id = None /\ (Posting(t) => Occurs(t.todo, "save") /\ ~ Unread(t))
    BY <1>1
  <2> QED  BY <1>0, TaskBegins
<1>6. \A k \in DOMAIN tasks' : TaskOK(tasks[k])'
  <2> SUFFICES ASSUME NEW k \in DOMAIN tasks' PROVE TaskOK(tasks[k])'  OBVIOUS
  <2>1. ASSUME NEW u, u = tasks'[k] PROVE TaskOK(u)'
    <3>1. TaskOK(u)  BY <1>5, <2>1
    <3>2. Len(made') \in Nat /\ Len(made) <= Len(made')  BY <1>2, IdsAreNat
    <3> QED  BY <1>2, <3>1, <3>2, OthersOK
  <2> QED  BY <2>1 DEF TaskOK
<1> QED  BY <1>3, <1>4, <1>5, <1>6 DEF HandlersInv, Posting, Unread, Occurs

-----------------------------------------------------------------------------
(* The steps of Feed.                                                      *)

LEMMA CallsAreOps ==
  ASSUME NEW d \in Devices, NEW c \in Calls(d)
  PROVE  c.op \in Op /\ "op" \in DOMAIN c
BY DEF Calls, Op, Follower

LEMMA PressEffect ==
  ASSUME NEW d \in Devices, Press(d)
  PROVE  \E calls : \E n \in Nat :
           /\ DOMAIN calls = 1 .. n /\ Arrive(d, calls)
           /\ \A i \in DOMAIN calls : calls[i].op \in Op /\ "op" \in DOMAIN calls[i]
<1>1. PICK first \in Calls(d), second \in {<<>>} \cup {<<c>> : c \in IF left["pair"] > 0 THEN Calls(d) ELSE {}} :
        Arrive(d, Written(<<first>> \o second))
  BY DEF Press
<1> DEFINE calls == <<first>> \o second
          done == Written(calls)
<1>2. calls \in Seq(Calls(d))
  <2>1. CASE second = <<>>  BY <2>1
  <2>2. CASE second # <<>>
    <3>1. PICK c \in Calls(d) : second = <<c>>
      <4>1. CASE left["pair"] > 0  BY <1>1, <2>2, <4>1
      <4>2. CASE ~ (left["pair"] > 0)  BY <1>1, <2>2, <4>2
      <4> QED  BY <4>1, <4>2
    <3> QED  BY <3>1
  <2> QED  BY <2>1, <2>2
<1> DEFINE n == Len(calls)
<1>3. n \in Nat /\ DOMAIN calls = 1 .. n /\ \A i \in 1 .. n : calls[i] \in Calls(d)
  BY <1>2, LenProperties, ElementOfSeq
<1> HIDE DEF n
<1> HIDE DEF calls
<1>4. DOMAIN done = 1 .. n  BY <1>3 DEF Written
<1>5. ASSUME NEW i \in 1 .. n PROVE done[i].op \in Op /\ "op" \in DOMAIN done[i]
  <2>1. calls[i].op \in Op /\ "op" \in DOMAIN calls[i]  BY <1>3, CallsAreOps
  <2>2. CASE IsText(calls[i])
    <3> DEFINE w == words + Cardinality({k \in 1 .. i : IsText(calls[k])})
    <3>1. done[i] = [calls[i] EXCEPT !.body.word = w]  BY <1>3, <2>2 DEF Written
    <3> HIDE DEF w, done
    <3>2. DOMAIN done[i] = DOMAIN calls[i] /\ done[i].op = calls[i].op  BY <2>1, <3>1
    <3> QED  BY <2>1, <3>2
  <2>3. CASE ~ IsText(calls[i])
    <3>1. done[i] = calls[i]  BY <1>3, <2>3 DEF Written
    <3> QED  BY <2>1, <3>1
  <2> QED  BY <2>2, <2>3
<1>6. Arrive(d, done)  BY <1>1 DEF calls
<1> HIDE DEF done
<1> QED  BY <1>3, <1>4, <1>5, <1>6

(* Whatever is not a step of a handler or a new call. *)
Aside == World \/ \E d \in Devices : Receive(d) \/ Finish(d) \/ Reload(d)

LEMMA AsideEffect ==
  ASSUME HandlersInv, Aside
  PROVE  /\ made' = made /\ channel' = channel /\ Ids' \subseteq Ids /\ clock' \in Nat
         /\ tasks' = tasks \/ tasks' = <<>>
         /\ \A i \in Ids' : rows'[i] = rows[i]
         /\ floor' = floor \/ floor' = None
<1>1. clock \in Nat  BY DEF HandlersInv, TablesInv
<1>2. ASSUME NEW d \in Devices, Disconnect(d) \/ Connect(d) \/ Stall(d) \/ Receive(d) \/ Finish(d) \/ Reload(d)
      PROVE  made' = made /\ channel' = channel /\ rows' = rows /\ clock' = clock /\ tasks' = tasks /\ floor' = floor
  BY <1>2 DEF Disconnect, Connect, Stall, Receive, Finish, Reload, table, memory
<1>3. CASE Restart
  BY <1>1, <1>3 DEF Restart, table, Ids
<1>4. CASE Untrack \/ \E what \in {"expired", "week"} : StartCleaning(what)
  BY <1>1, <1>4 DEF Untrack, StartCleaning, table, Ids
<1>5. CASE SetClock(clock + 1) \/ (clock > 1 /\ SetClock(clock - 1))
  BY <1>1, <1>5 DEF SetClock, table, memory, Ids
<1>6. CASE Clean
  <2>1. PICK S \in SUBSET Ids : rows' = Drop(rows, S)  BY <1>6 DEF Clean
  <2>2. Ids' \subseteq Ids /\ \A i \in Ids' : rows'[i] = rows[i]  BY <2>1 DEF Ids, Drop
  <2> QED  BY <1>1, <1>6, <2>2 DEF Clean
<1>7. \/ \E d \in Devices : Disconnect(d) \/ Connect(d) \/ Stall(d) \/ Receive(d) \/ Finish(d) \/ Reload(d)
      \/ Restart \/ Untrack \/ Clean
      \/ \E what \in {"expired", "week"} : StartCleaning(what)
      \/ SetClock(clock + 1) \/ (clock > 1 /\ SetClock(clock - 1))
  BY DEF Aside, World
<1> QED  BY <1>1, <1>2, <1>3, <1>4, <1>5, <1>6, <1>7 DEF Ids

LEMMA NextCases ==
  ASSUME Next
  PROVE  Step \/ (\E d \in Devices : Press(d)) \/ Aside
BY DEF Next, Handlers, Aside

LEMMA HandlersStep ==
  ASSUME HandlersInv, [Next]_vars
  PROVE  HandlersInv'
<1>1. CASE Step  BY <1>1, StepEffect, SteppedKeeps, DroppedKeeps
<1>2. CASE \E d \in Devices : Press(d)  BY <1>2, PressEffect, ArriveKeeps
<1>3. CASE Aside  BY <1>3, AsideEffect, QuietKeeps
<1>4. CASE UNCHANGED vars
  <2>1. made' = made /\ channel' = channel /\ rows' = rows /\ clock' = clock /\ tasks' = tasks
    BY <1>4 DEF vars, server, table
  <2> QED  BY <2>1, QuietKeeps DEF HandlersInv, TablesInv, Ids
<1> QED  BY <1>1, <1>2, <1>3, <1>4, NextCases

LEMMA HandlersInit ==
  ASSUME Init
  PROVE  HandlersInv
<1>1. tasks = <<>> /\ made = <<>> /\ rows = <<>> /\ clock = 2  BY DEF Init, ServerInit
<1>2. \A s : s = <<>> => IsSeq(s) /\ DOMAIN s = {}
  <2>1. <<>> \in Seq({})  OBVIOUS
  <2> QED  BY <2>1 DEF IsSeq
<1> QED  BY <1>1, <1>2 DEF HandlersInv, TablesInv, Ids

-----------------------------------------------------------------------------
(* Times.                                                                  *)

(* A row has a time, no two have the same, and what monotonicTimestamp remembers is no earlier. *)
TimesInv ==
  /\ \A i \in Ids : "at" \in DOMAIN rows[i] /\ rows[i].at \in Nat
  /\ \E top \in Nat : \A i \in Ids : rows[i].at <= top
  /\ floor # None => floor \in Nat /\ \A i \in Ids : rows[i].at <= floor
  /\ RowsApart

LEMMA LeastExists ==
  ASSUME NEW T, T \subseteq Nat, T # {}
  PROVE  \E x \in T : \A y \in T : x <= y
<1> DEFINE R == OpToRel(<, Nat)
<1>1. \A x, y \in Nat : x < y => <<x, y>> \in R  BY Zenon DEF OpToRel
<1>2. IsWellFoundedOn(R, Nat)  BY NatLessThanWellFounded
<1> HIDE DEF R
<1>3. PICK x \in T : \A y \in T : ~ (<<y, x>> \in R)  BY <1>2, WFMin
<1>4. \A y \in T : ~ (y < x)  BY <1>1, <1>3
<1> QED  BY <1>3, <1>4

(* The seed of the map is the time of the newest row. *)
LEMMA FloorTops ==
  ASSUME TimesInv
  PROVE  Floor \in Nat /\ \A i \in Ids : rows[i].at <= Floor
<1>1. CASE floor # None  BY <1>1 DEF TimesInv, Floor
<1>2. CASE floor = None /\ Ids = {}  BY <1>2 DEF Floor
<1>3. CASE floor = None /\ Ids # {}
  <2> DEFINE Tops == {top \in Nat : \A i \in Ids : rows[i].at <= top}
            Newest(i) == \A j \in Ids : rows[j].at <= rows[i].at
  <2>1. Tops \subseteq Nat /\ Tops # {}  BY DEF TimesInv
  <2>2. PICK least \in Tops : \A y \in Tops : least <= y  BY <2>1, LeastExists
  <2>3. \A i \in Ids : rows[i].at \in Nat /\ rows[i].at <= least  BY <2>2 DEF TimesInv
  <2>4. PICK i \in Ids : rows[i].at = least
    <3>1. CASE least = 0  BY <1>3, <2>3, <3>1
    <3>2. CASE least # 0
      <4>1. least - 1 \in Nat /\ ~ (least <= least - 1)  BY <2>1, <3>2
      <4>2. least - 1 \notin Tops  BY <2>2, <4>1
      <4>3. PICK i \in Ids : ~ (rows[i].at <= least - 1)  BY <4>1, <4>2
      <4>4. rows[i].at = least  BY <2>1, <2>3, <4>3
      <4> QED  BY <4>4
    <3> QED  BY <3>1, <3>2
  <2>5. Newest(i)  BY <2>3, <2>4
  <2> DEFINE m == CHOOSE k \in Ids : Newest(k)
  <2>6. m \in Ids /\ Newest(m)  BY <2>5
  <2>7. Floor = rows[m].at  BY <1>3 DEF Floor
  <2> HIDE DEF m
  <2> QED  BY <2>3, <2>6, <2>7
<1> QED  BY <1>1, <1>2, <1>3

LEMMA StampLater ==
  ASSUME HandlersInv, TimesInv, NEW wanted \in Nat
  PROVE  Stamp(wanted) \in Nat /\ \A i \in Ids : rows[i].at < Stamp(wanted)
<1> DEFINE claim == IF wanted <= clock + Skew THEN wanted ELSE clock + Skew
<1>1. clock \in Nat /\ Skew \in Nat  BY MessagesAssumption DEF HandlersInv, TablesInv
<1>2. claim \in Nat  BY <1>1
<1>3. Floor \in Nat /\ \A i \in Ids : rows[i].at <= Floor  BY FloorTops
<1>4. Stamp(wanted) = IF claim > Floor THEN claim ELSE Floor + 1  BY DEF Stamp
<1> HIDE DEF claim
<1>5. Stamp(wanted) \in Nat /\ Floor < Stamp(wanted)  BY <1>2, <1>3, <1>4
<1>6. \A i \in Ids : rows[i].at \in Nat  BY DEF TimesInv
<1> QED  BY <1>3, <1>5, <1>6

(* Rows that are only fewer. *)
LEMMA FewerKeep ==
  ASSUME TimesInv, Ids' \subseteq Ids,
         \A i \in Ids' : "at" \in DOMAIN rows'[i] /\ rows'[i].at = rows[i].at,
         floor' = floor \/ floor' = None
  PROVE  TimesInv'
<1>1. PICK top \in Nat : \A i \in Ids : rows[i].at <= top  BY DEF TimesInv
<1>2. \A i \in Ids' : rows'[i].at <= top  BY <1>1
<1>3. RowsApart'  BY DEF TimesInv, RowsApart
<1>4. \E high \in Nat : \A i \in Ids' : rows'[i].at <= high  BY <1>2
<1>5. \A i \in Ids' : "at" \in DOMAIN rows'[i] /\ rows'[i].at \in Nat  BY DEF TimesInv
<1>6. floor' # None => floor' \in Nat /\ \A i \in Ids' : rows'[i].at <= floor'  BY DEF TimesInv
<1> QED  BY <1>3, <1>4, <1>5, <1>6 DEF TimesInv

LEMMA SaveKeepsTimes ==
  ASSUME HandlersInv, TimesInv, Save
  PROVE  TimesInv'
<1>1. tasks # <<>> /\ Posting(Now) /\ Now.todo[1] = "save"  BY DEF Save, At, Now, Posting
<1>2. Now.at \in Nat /\ Now.id # None
  <2>1. Now.id # None  BY <1>1, HeadFacts
  <2> QED  BY <1>1, <2>1, NowFacts DEF TaskOK, Posting
<1> DEFINE id == Now.id
          s == Stamp(Now.at)
<1>3. s \in Nat /\ \A i \in Ids : rows[i].at < s  BY <1>2, StampLater
<1>4. id \notin Ids
  <2>1. Occurs(Now.todo, "save")
    <3>1. Now.todo \in Seq(Stage) /\ Now.todo # <<>>  BY <1>1, NowFacts DEF TaskOK
    <3>2. 1 \in DOMAIN Now.todo  BY <3>1, EmptySeq, LenProperties
    <3> QED  BY <1>1, <3>2 DEF Occurs
  <2>2. 1 \in DOMAIN tasks /\ tasks[1] = Now  BY <1>1, NowFacts DEF Now
  <2> QED  BY <1>1, <1>2, <2>1, <2>2 DEF HandlersInv
<1>5. /\ Ids' = Ids \cup {id} /\ floor' = s
      /\ \A i \in Ids : rows'[i] = rows[i]
      /\ "at" \in DOMAIN rows'[id] /\ rows'[id].at = s
  <2> DEFINE row == [at |-> s, body |-> Now.call.body, quote |-> Now.call.quote,
                    expires |-> IF Now.call.ttl = None THEN None ELSE Now.at + Now.call.ttl]
  <2>1. rows' = [i \in Ids \cup {id} |-> IF i = id THEN row ELSE rows[i]] /\ floor' = s
    BY DEF Save
  <2>2. "at" \in DOMAIN row /\ row.at = s  OBVIOUS
  <2> HIDE DEF row, id, s
  <2> QED  BY <1>4, <2>1, <2>2 DEF Ids
<1> HIDE DEF id, s
<1>6. \A i \in Ids : "at" \in DOMAIN rows[i] /\ rows[i].at \in Nat  BY DEF TimesInv
<1>7. \A i \in Ids' : "at" \in DOMAIN rows'[i] /\ rows'[i].at \in Nat /\ rows'[i].at <= s
  <2> SUFFICES ASSUME NEW i \in Ids' PROVE "at" \in DOMAIN rows'[i] /\ rows'[i].at \in Nat /\ rows'[i].at <= s
    OBVIOUS
  <2>1. CASE i \in Ids  BY <1>3, <1>5, <1>6, <2>1
  <2>2. CASE i = id  BY <1>3, <1>5, <2>2
  <2> QED  BY <1>5, <2>1, <2>2
<1>8. RowsApart'
  <2> SUFFICES ASSUME NEW i \in Ids', NEW j \in Ids', i # j PROVE rows'[i].at # rows'[j].at
    BY DEF RowsApart
  <2>1. CASE i \in Ids /\ j \in Ids  BY <1>5, <2>1 DEF TimesInv, RowsApart
  <2>2. CASE i = id  BY <1>3, <1>5, <1>6, <2>2
  <2>3. CASE j = id  BY <1>3, <1>5, <1>6, <2>3
  <2> QED  BY <1>5, <2>1, <2>2, <2>3
<1> QED  BY <1>3, <1>5, <1>7, <1>8 DEF TimesInv

LEMMA TimesStep ==
  ASSUME HandlersInv, TimesInv, [Next]_vars
  PROVE  TimesInv'
<1>0. \A i \in Ids : "at" \in DOMAIN rows[i]  BY DEF TimesInv
<1>1. CASE Save  BY <1>1, SaveKeepsTimes
<1>2. CASE Update
  <2>1. \/ rows' = rows
        \/ rows' = [rows EXCEPT ![Now.id].body = Now.call.body,
                      ![Now.id].expires = IF Direct /\ Now.call.ttl # None THEN clock + Now.call.ttl ELSE @]
    BY <1>2 DEF Update
  <2>2. DOMAIN rows' = DOMAIN rows /\ floor' = floor  BY <1>2, <2>1 DEF Update, memory
  <2>3. ASSUME NEW i \in Ids PROVE "at" \in DOMAIN rows'[i] /\ rows'[i].at = rows[i].at
    <3>1. PICK e : rows' = rows \/ rows' = [rows EXCEPT ![Now.id].body = Now.call.body, ![Now.id].expires = e]
      BY <2>1
    <3>2. CASE rows' = rows  BY <1>0, <2>3, <3>2
    <3>3. CASE rows' # rows
      <4>1. DOMAIN rows'[i] = DOMAIN rows[i] /\ rows'[i]["at"] = rows[i]["at"]
        BY <1>0, <2>3, <3>1, <3>3 DEF Ids
      <4> QED  BY <1>0, <2>3, <4>1
    <3> QED  BY <3>2, <3>3
  <2> QED  BY <2>2, <2>3, FewerKeep DEF Ids
<1>3. CASE Remove
  <2>1. (rows' = rows \/ rows' = Drop(rows, {Now.id})) /\ floor' = floor  BY <1>3 DEF Remove, memory
  <2>2. Ids' \subseteq Ids /\ \A i \in Ids' : rows'[i] = rows[i]  BY <2>1 DEF Drop, Ids
  <2> QED  BY <1>0, <2>1, <2>2, FewerKeep
<1>4. ASSUME Step, ~ Save, ~ Update, ~ Remove PROVE TimesInv'
  <2>1. rows' = rows /\ floor' = floor
    BY <1>4 DEF Step, Wait, StampPost, DeliverPost, Read, Write, Audience, DeliverNews,
           ReadRows, ReadReactions, DeliverPage, Block, table, memory
  <2> QED  BY <1>0, <2>1, FewerKeep DEF Ids
<1>5. CASE \E d \in Devices : Press(d)
  <2>1. rows' = rows /\ floor' = floor  BY <1>5, PressEffect DEF Arrive, table, memory
  <2> QED  BY <1>0, <2>1, FewerKeep DEF Ids
<1>6. CASE Aside  BY <1>0, <1>6, AsideEffect, FewerKeep
<1>7. CASE UNCHANGED vars
  <2>1. rows' = rows /\ floor' = floor  BY <1>7 DEF vars, server, table, memory
  <2> QED  BY <1>0, <2>1, FewerKeep DEF Ids
<1> QED  BY <1>1, <1>2, <1>3, <1>4, <1>5, <1>6, <1>7, NextCases

(* No two rows of a conversation ever share a time, whatever is claimed: the map that            *)
(* monotonicTimestamp keeps may be emptied by a restart or by another channel, and the clock may  *)
(* be set back, for the newest row of the table takes its place.                                  *)
THEOREM RowsStayApart == Spec => []RowsApart
<1>1. Init => HandlersInv /\ TimesInv
  <2>1. ASSUME Init PROVE TimesInv
    <3>1. Ids = {} /\ floor = None  BY <2>1 DEF Init, ServerInit, Ids
    <3> QED  BY <3>1 DEF TimesInv, RowsApart
  <2> QED  BY <2>1, HandlersInit
<1>2. HandlersInv /\ TimesInv /\ [Next]_vars => (HandlersInv /\ TimesInv)'  BY HandlersStep, TimesStep
<1>3. TimesInv => RowsApart  BY DEF TimesInv
<1> QED  BY <1>1, <1>2, <1>3, PTL DEF Spec


-----------------------------------------------------------------------------
(* Deletions.                                                              *)

Shows == {"post", "edit", "react"}

(* A handler that may yet send a live frame about message i: a post, or a handler of an edit or a *)
(* reaction that has seen for the last time that the message is there.                            *)
Live(t, i) ==
  /\ t.id = i
  /\ \/ Posting(t)
     \/ t.call.op \in {"edit", "react"} /\ ~ Occurs(t.todo, "update") /\ ~ Occurs(t.todo, "audience")

(* The messages about which no live frame can leave any more. *)
Silent == {i \in 1 .. Len(made) : i \notin Ids /\ \A k \in DOMAIN tasks : ~ Live(tasks[k], i)}

(* A deletion that has removed its row. *)
Removed(t) == t.call.op = "delete" /\ t.id # None /\ ~ Occurs(t.todo, "remove")

(* The frames to one device: a deletion is about a message of S, and nothing live about it follows. *)
Orderly(w, S) ==
  /\ IsSeq(w)
  /\ \A k \in DOMAIN w : w[k].kind = "gone" => w[k].id \in S
  /\ \A k, l \in DOMAIN w :
       w[k].kind = "gone" /\ l > k /\ w[l].kind \in Shows => w[l].id # w[k].id

(* A live frame about a message whose row was removed is sent before the deletion is announced: *)
(* its handler is ahead in the queue, and has only that left to do.                             *)
SilenceInv ==
  /\ \A k \in DOMAIN tasks : Removed(tasks[k]) =>
       /\ tasks[k].id \notin Ids
       /\ \A j \in DOMAIN tasks : Live(tasks[j], tasks[k].id) => j < k
  /\ DOMAIN wire = Devices
  /\ \A d \in Devices : Orderly(wire[d], Silent)

LEMMA OrderlyMore ==
  ASSUME NEW w, NEW S, Orderly(w, S), NEW T, S \subseteq T
  PROVE  Orderly(w, T)
BY DEF Orderly

LEMMA OrderlyEmpty ==
  ASSUME NEW S
  PROVE  Orderly(<<>>, S)
<1>1. <<>> \in Seq({}) /\ DOMAIN <<>> = {}  OBVIOUS
<1> QED  BY <1>1 DEF Orderly, IsSeq

LEMMA OrderlyTail ==
  ASSUME NEW w, NEW S, Orderly(w, S), w # <<>>
  PROVE  Orderly(Tail(w), S)
<1>1. /\ Len(w) \in Nat /\ DOMAIN w = 1 .. Len(w) /\ IsSeq(Tail(w)) /\ Len(Tail(w)) = Len(w) - 1
      /\ \A k \in 1 .. Len(w) - 1 : Tail(w)[k] = w[k + 1]
  BY SeqFacts DEF Orderly
<1>2. DOMAIN Tail(w) = 1 .. Len(w) - 1  BY <1>1, SeqFacts
<1>3. \A k \in DOMAIN Tail(w) : k \in Nat /\ k + 1 \in DOMAIN w /\ Tail(w)[k] = w[k + 1]  BY <1>1, <1>2
<1>4. \A k, l \in DOMAIN Tail(w) : l > k => l + 1 > k + 1  BY <1>3
<1> QED  BY <1>1, <1>3, <1>4 DEF Orderly

LEMMA OrderlyAppend ==
  ASSUME NEW w, NEW S, Orderly(w, S), NEW f, f.kind \in Shows => f.id \notin S, f.kind = "gone" => f.id \in S
  PROVE  Orderly(Append(w, f), S)
<1> DEFINE v == Append(w, f)
          n == Len(w)
<1>1. /\ IsSeq(v) /\ Len(v) = n + 1 /\ v[n + 1] = f
      /\ \A k \in 1 .. n : v[k] = w[k]
  BY AppendFacts DEF Orderly
<1>2. n \in Nat /\ DOMAIN w = 1 .. n  BY SeqFacts DEF Orderly
<1>3. DOMAIN v = 1 .. n + 1  BY <1>1, SeqFacts
<1> HIDE DEF v, n
<1>4. \A k \in DOMAIN v : (k \in DOMAIN w /\ v[k] = w[k]) \/ (k = n + 1 /\ v[k] = f)  BY <1>1, <1>2, <1>3
<1>5. \A k \in DOMAIN v : v[k].kind = "gone" => v[k].id \in S  BY <1>4 DEF Orderly
<1>6. ASSUME NEW k \in DOMAIN v, NEW l \in DOMAIN v, v[k].kind = "gone", l > k, v[l].kind \in Shows
      PROVE  v[l].id # v[k].id
  <2>1. k \in DOMAIN w /\ v[k] = w[k]
    <3>1. k # n + 1  BY <1>2, <1>3, <1>6
    <3> QED  BY <1>4, <3>1
  <2>2. CASE l \in DOMAIN w /\ v[l] = w[l]  BY <1>6, <2>1, <2>2 DEF Orderly
  <2>3. CASE v[l] = f  BY <1>5, <1>6, <2>3
  <2> QED  BY <1>4, <2>2, <2>3
<1> QED  BY <1>1, <1>5, <1>6 DEF Orderly, v

(* A handler that is live after its stage was live before it. *)
LEMMA LiveBefore ==
  ASSUME HandlersInv, Step, NEW t, Stepped(t), NEW i \in 1 .. Len(made), i \notin Ids, Live(t, i)
  PROVE  Live(Now, i)
<1>1. tasks # <<>>  BY StepEffect
<1>2. t.id = i /\ t.call.op = Now.call.op /\ t.todo = Tail(Now.todo)  BY DEF Stepped, Live
<1>3. t.id = Now.id
  <2>1. t.id # Len(made) + 1  BY <1>2, IdsAreNat
  <2> QED  BY <1>2, <2>1 DEF Stepped
<1>4. CASE Posting(t)  BY <1>2, <1>3, <1>4 DEF Live, Posting
<1>5. CASE t.call.op \in {"edit", "react"} /\ ~ Occurs(t.todo, "update") /\ ~ Occurs(t.todo, "audience")
  <2>1. Now.todo[1] # "update" /\ Now.todo[1] # "audience"  BY <1>2, <1>3 DEF Stepped
  <2>2. ~ Occurs(Now.todo, "update") /\ ~ Occurs(Now.todo, "audience")
    BY <1>1, <1>2, <1>5, <2>1, HeadFacts
  <2> QED  BY <1>2, <1>3, <1>5, <2>2 DEF Live
<1> QED  BY <1>4, <1>5 DEF Live

(* A live handler that is not a post has one stage left. *)
LEMMA LiveIsLast ==
  ASSUME HandlersInv, tasks # <<>>, NEW i, Live(Now, i), ~ Posting(Now)
  PROVE  Tail(Now.todo) = <<>>
<1>1. /\ Now.todo \in Seq(Stage) /\ Now.todo # <<>>
      /\ Now.call.op \in {"edit", "react"} /\ ~ Occurs(Now.todo, "update") /\ ~ Occurs(Now.todo, "audience")
      /\ Now.call.op \in Follower => GateThenLast(Now.todo, Gate(Now.call.op))
  BY NowFacts DEF TaskOK, Live
<1>2. Gate(Now.call.op) \in {"update", "audience"} /\ GateThenLast(Now.todo, Gate(Now.call.op))
  BY <1>1 DEF Gate, Follower
<1> DEFINE n == Len(Now.todo)
<1>3. n \in Nat /\ n > 0 /\ DOMAIN Now.todo = 1 .. n  BY <1>1, EmptySeq, LenProperties
<1>4. n = 1
  <2>1. n = 1 \/ Now.todo[n - 1] = Gate(Now.call.op)  BY <1>2 DEF GateThenLast
  <2> HIDE DEF n
  <2> SUFFICES ASSUME n # 1 PROVE FALSE  OBVIOUS
  <2>2. n - 1 \in DOMAIN Now.todo  BY <1>3
  <2> QED  BY <1>1, <1>2, <2>1, <2>2 DEF Occurs
<1>5. Tail(Now.todo) \in Seq(Stage) /\ Len(Tail(Now.todo)) = n - 1  BY <1>1, HeadTailProperties
<1>6. Len(Tail(Now.todo)) = 0  BY <1>4, <1>5
<1> QED  BY <1>5, <1>6, EmptySeq

(* Of a message whose row is gone a step of the handlers makes none. *)
LEMMA NotSavedAgain ==
  ASSUME HandlersInv, Step, NEW i, i \notin Ids, ~ Live(Now, i)
  PROVE  i \notin Ids'
BY TableEffect DEF Live

LEMMA SilentStays ==
  ASSUME HandlersInv, [Next]_vars
  PROVE  Silent \subseteq Silent'
<1> SUFFICES ASSUME NEW i \in Silent PROVE i \in Silent'  OBVIOUS
<1>1. i \in 1 .. Len(made) /\ i \notin Ids /\ i # None /\ Len(made) \in Nat
      /\ \A k \in DOMAIN tasks : ~ Live(tasks[k], i)
  BY IdsAreNat DEF Silent
<1>2. CASE Step
  <2>1. tasks # <<>> /\ (Dropped \/ \E t : Queued(t) /\ Stepped(t))  BY <1>2, StepEffect
  <2>2. ~ Live(Now, i)  BY <1>1, <2>1, NowFacts DEF Now
  <2>3. i \notin Ids'  BY <1>1, <1>2, <2>2, NotSavedAgain
  <2>4. CASE Dropped  BY <1>1, <2>3, <2>4 DEF Dropped, Silent, Live, Posting, Occurs
  <2>5. ASSUME NEW t, Queued(t), Stepped(t) PROVE i \in Silent'
    <3>1. ~ Live(t, i)  BY <1>1, <1>2, <2>2, <2>5, LiveBefore
    <3>2. Len(made') \in Nat /\ Len(made) <= Len(made')  BY <1>1, <2>5 DEF Stepped
    <3>3. i \in 1 .. Len(made')  BY <1>1, <3>2
    <3>4. \A k \in DOMAIN tasks' : ~ Live(tasks'[k], i)  BY <1>1, <2>5, <3>1 DEF Queued
    <3> QED  BY <2>3, <3>3, <3>4 DEF Silent, Live, Posting, Occurs
  <2> QED  BY <2>1, <2>4, <2>5
<1>3. CASE \E d \in Devices : Press(d)
  <2>0. PICK d \in Devices : \E calls : Arrive(d, calls)  BY <1>3, PressEffect
  <2>1. PICK calls : Arrive(d, calls)  BY <2>0
  <2>2. made' = made /\ rows' = rows /\ \A k \in DOMAIN tasks' : tasks'[k].id = None
    BY <2>1 DEF Arrive, Task, table
  <2>3. \A k \in DOMAIN tasks' : ~ Live(tasks'[k], i)  BY <1>1, <2>2 DEF Live
  <2> QED  BY <1>1, <2>2, <2>3 DEF Silent, Live, Posting, Occurs, Ids
<1>4. CASE Aside
  <2>1. made' = made /\ Ids' \subseteq Ids /\ (tasks' = tasks \/ tasks' = <<>>)  BY <1>4, AsideEffect
  <2>2. \A k \in DOMAIN tasks' : ~ Live(tasks'[k], i)
    <3>1. DOMAIN <<>> = {}  OBVIOUS
    <3> QED  BY <1>1, <2>1, <3>1
  <2> QED  BY <1>1, <2>1, <2>2 DEF Silent, Live, Posting, Occurs
<1>5. CASE UNCHANGED vars
  <2>1. made' = made /\ rows' = rows /\ tasks' = tasks  BY <1>5 DEF vars, server, table
  <2> QED  BY <1>1, <2>1 DEF Silent, Live, Posting, Occurs, Ids
<1> QED  BY <1>2, <1>3, <1>4, <1>5, NextCases

(* A deletion stays behind what may still be sent about its message. *)
LEMMA RemovedStep ==
  ASSUME HandlersInv, SilenceInv, [Next]_vars
  PROVE  \A k \in DOMAIN tasks' : Removed(tasks'[k]) =>
           /\ tasks'[k].id \notin Ids'
           /\ \A j \in DOMAIN tasks' : Live(tasks'[j], tasks'[k].id) => j < k
<1> DEFINE Behind(k) == \A j \in DOMAIN tasks' : Live(tasks'[j], tasks'[k].id) => j < k
<1>1. CASE Step
  <2>1. tasks # <<>> /\ (Dropped \/ \E t : Queued(t) /\ Stepped(t))  BY <1>1, StepEffect
  <2>2. TaskOK(Now) /\ 1 \in DOMAIN tasks /\ tasks[1] = Now /\ Len(tasks) \in Nat /\ DOMAIN tasks = 1 .. Len(tasks)
    BY <2>1, NowFacts DEF Now
  (* what held of a deletion before the step *)
  <2>3. ASSUME NEW k \in DOMAIN tasks, Removed(tasks[k])
        PROVE  /\ tasks[k].id \in 1 .. Len(made) /\ tasks[k].id \notin Ids /\ tasks[k].id \notin Ids'
               /\ \A j \in DOMAIN tasks : Live(tasks[j], tasks[k].id) => j < k
               /\ ~ (Posting(Now) /\ Now.id = tasks[k].id)
    <3>1. /\ tasks[k].id \notin Ids
          /\ \A j \in DOMAIN tasks : Live(tasks[j], tasks[k].id) => j < k
      BY <2>3 DEF SilenceInv
    <3>2. TaskOK(tasks[k]) /\ tasks[k].call.op \in Follower /\ tasks[k].id # None
      BY <2>3 DEF HandlersInv, Removed, Follower
    <3>3. tasks[k].id \in 1 .. Len(made)  BY <3>2 DEF TaskOK
    <3>4. ~ (Posting(Now) /\ Now.id = tasks[k].id)  BY <2>2, <2>3, <3>2 DEF HandlersInv
    <3>5. tasks[k].id \notin Ids'  BY <1>1, <3>1, <3>4, TableEffect
    <3> QED  BY <3>1, <3>3, <3>4, <3>5
  <2>4. CASE Dropped
    <3> SUFFICES ASSUME NEW k \in DOMAIN tasks', Removed(tasks'[k])
                 PROVE  tasks'[k].id \notin Ids' /\ Behind(k)
      OBVIOUS
    <3>1. k + 1 \in DOMAIN tasks /\ tasks'[k] = tasks[k + 1]  BY <2>4 DEF Dropped
    <3>2. \A j \in DOMAIN tasks' : j \in Nat /\ j + 1 \in DOMAIN tasks /\ tasks'[j] = tasks[j + 1]
      BY <2>4, SeqFacts DEF Dropped
    <3>3. tasks[k + 1].id \notin Ids'  BY <2>3, <3>1
    <3>4. ASSUME NEW j \in DOMAIN tasks', Live(tasks'[j], tasks'[k].id) PROVE j < k
      <4>1. j + 1 < k + 1  BY <2>3, <3>1, <3>2, <3>4
      <4> QED  BY <3>2, <4>1
    <3> QED  BY <3>1, <3>3, <3>4
  <2>5. ASSUME NEW t, Queued(t), Stepped(t), NEW k \in DOMAIN tasks', Removed(tasks'[k])
        PROVE  tasks'[k].id \notin Ids' /\ Behind(k)
    <3>1. \A j \in DOMAIN tasks' :
            \/ j + 1 \in DOMAIN tasks /\ tasks'[j] = tasks[j + 1]
            \/ j = Len(tasks) /\ tasks'[j] = t /\ t.todo # <<>>
      BY <2>5 DEF Queued
    <3>2. \A j \in DOMAIN tasks' : j \in Nat /\ j >= 1  BY <2>5, SeqFacts DEF Queued
    <3>3. CASE k + 1 \in DOMAIN tasks /\ tasks'[k] = tasks[k + 1]
      <4> DEFINE i == tasks[k + 1].id
      <4>1. /\ i \in 1 .. Len(made) /\ i \notin Ids /\ i \notin Ids'
            /\ \A j \in DOMAIN tasks : Live(tasks[j], i) => j < k + 1
            /\ ~ (Posting(Now) /\ Now.id = i)
        BY <2>3, <2>5, <3>3
      <4> HIDE DEF i
      <4>2. ~ (t.todo # <<>> /\ Live(t, i))
        <5> SUFFICES ASSUME t.todo # <<>>, Live(t, i) PROVE FALSE  OBVIOUS
        <5>1. Live(Now, i)  BY <1>1, <2>5, <4>1, LiveBefore
        <5>2. ~ Posting(Now)  BY <4>1, <5>1 DEF Live
        <5>3. Tail(Now.todo) = <<>>  BY <2>1, <5>1, <5>2, LiveIsLast
        <5> QED  BY <2>5, <5>3 DEF Stepped
      <4>3. ASSUME NEW j \in DOMAIN tasks', Live(tasks'[j], i) PROVE j < k
        <5>1. j + 1 \in DOMAIN tasks /\ tasks'[j] = tasks[j + 1]  BY <3>1, <4>2, <4>3
        <5>2. j + 1 < k + 1  BY <4>1, <4>3, <5>1
        <5> QED  BY <3>2, <5>2
      <4> QED  BY <3>3, <4>1, <4>3 DEF i
    <3>4. CASE k = Len(tasks) /\ tasks'[k] = t /\ t.todo # <<>>
      <4>1. t.call.op = "delete" /\ Now.call.op = "delete" /\ t.id # None /\ ~ Occurs(Tail(Now.todo), "remove")
        BY <2>5, <3>4 DEF Removed, Stepped
      <4>2. \A i : ~ Live(t, i)  BY <4>1 DEF Live, Posting
      <4>3. Behind(k)
        <5>1. \A j \in DOMAIN tasks' : tasks'[j] = t \/ j < k  BY <2>2, <3>1, <3>2, <3>4
        <5> QED  BY <4>2, <5>1
      <4>4. t.id \notin Ids'
        <5>0. t.id = Now.id \/ Now.todo[1] = "read"
          <6>1. \/ t.id = Now.id
                \/ Now.todo[1] = "stamp" /\ Posting(Now)
                \/ Now.todo[1] = "read"
            BY <2>5 DEF Stepped
          <6>2. ~ Posting(Now)  BY <4>1 DEF Posting
          <6> QED  BY <6>1, <6>2
        <5>1. CASE Now.todo[1] = "remove"
          <6>1. t.id = Now.id  BY <5>0, <5>1
          <6> QED  BY <2>5, <4>1, <5>1, <6>1 DEF Stepped
        <5>2. CASE Now.todo[1] # "remove"
          <6>1. ~ Occurs(Now.todo, "remove")  BY <2>1, <4>1, <5>2, HeadFacts
          <6>2. Now.todo[1] # "read"
            <7>1. Gate(Now.call.op) = "remove"  BY <4>1 DEF Gate
            <7>2. Now.todo[1] = "read" => Occurs(Now.todo, "read")
              <8>1. 1 \in DOMAIN Now.todo  BY <2>2, EmptySeq, LenProperties DEF TaskOK
              <8> QED  BY <8>1 DEF Occurs
            <7> QED  BY <2>2, <6>1, <7>1, <7>2 DEF TaskOK
          <6>3. t.id = Now.id  BY <5>0, <6>2
          <6> QED  BY <2>2, <2>3, <4>1, <6>1, <6>3 DEF Removed
        <5> QED  BY <5>1, <5>2
      <4> QED  BY <3>4, <4>3, <4>4
    <3> QED  BY <3>1, <3>3, <3>4
  <2> QED  BY <2>1, <2>4, <2>5
<1>2. CASE \E d \in Devices : Press(d)
  <2>0. PICK d \in Devices : \E calls : Arrive(d, calls)  BY <1>2, PressEffect
  <2>1. PICK calls : Arrive(d, calls)  BY <2>0
  <2>2. \A k \in DOMAIN tasks' : tasks'[k].id = None  BY <2>1 DEF Arrive, Task
  <2> QED  BY <2>2 DEF Removed
<1>3. CASE Aside
  <2>1. Ids' \subseteq Ids /\ (tasks' = tasks \/ tasks' = <<>>)  BY <1>3, AsideEffect
  <2>2. DOMAIN <<>> = {}  OBVIOUS
  <2> QED  BY <2>1, <2>2 DEF SilenceInv
<1>4. CASE UNCHANGED vars
  <2>1. rows' = rows /\ tasks' = tasks  BY <1>4 DEF vars, server, table
  <2> QED  BY <2>1 DEF SilenceInv, Ids
<1> QED  BY <1>1, <1>2, <1>3, <1>4, NextCases

(* What the handler of the head says when it announces something. *)
LEMMA NewsEffect ==
  ASSUME HandlersInv, SilenceInv, DeliverNews, NEW d \in Devices
  PROVE  \/ wire'[d] = wire[d]
         \/ \E f : /\ wire'[d] = Append(wire[d], f)
                   /\ f.kind \in Shows => f.id \notin Silent
                   /\ f.kind = "gone" => f.id \in Silent
<1>1. tasks # <<>> /\ Now.todo[1] = "deliver" /\ Now.call.op \in Follower
  BY DEF DeliverNews, At, Now, Follower
<1>2. TaskOK(Now) /\ 1 \in DOMAIN tasks /\ tasks[1] = Now  BY <1>1, NowFacts DEF Now
<1>3. ~ Occurs(Now.todo, "update") /\ ~ Occurs(Now.todo, "audience") /\ ~ Occurs(Now.todo, "remove")
  <2>1. \A x : x # "deliver" /\ Occurs(Now.todo, x) => Occurs(Tail(Now.todo), x)  BY <1>1, HeadFacts
  <2>2. \A x : x # "wait" /\ Occurs(Tail(Now.todo), x) => Rank("deliver") < Rank(x)  BY <1>1, HeadFacts
  <2>3. /\ ~ (Rank("deliver") < Rank("update")) /\ ~ (Rank("deliver") < Rank("audience"))
        /\ ~ (Rank("deliver") < Rank("remove"))
    BY DEF Rank
  <2> QED  BY <2>1, <2>2, <2>3
<1>4. Now.id # None
  <2>1. ~ Occurs(Now.todo, "read")  BY <1>1, <1>2 DEF TaskOK
  <2> QED  BY <1>1, <1>2, <2>1 DEF TaskOK
<1>5. Now.id \in 1 .. Len(made)  BY <1>2, <1>4 DEF TaskOK
<1>6. wire'[d] = IF d \in Reach THEN Append(wire[d], News[d]) ELSE wire[d]  BY DEF DeliverNews, Announce
<1>7. CASE Now.call.op = "delete"
  <2>1. News[d] = [kind |-> "gone", id |-> Now.id]  BY <1>7 DEF News, ToAll
  <2>2. News[d].kind = "gone" /\ News[d].id = Now.id  BY <2>1
  <2>3. Removed(Now)  BY <1>3, <1>4, <1>7 DEF Removed
  <2>4. /\ Now.id \notin Ids
        /\ \A j \in DOMAIN tasks : Live(tasks[j], Now.id) => j < 1
    BY <1>2, <2>3 DEF SilenceInv
  <2>5. \A j \in DOMAIN tasks : ~ (j < 1)  BY <1>1, NowFacts
  <2>6. Now.id \in Silent  BY <1>5, <2>4, <2>5 DEF Silent
  <2> QED  BY <1>6, <2>2, <2>6 DEF Shows
<1>8. CASE Now.call.op \in {"edit", "react"}
  <2>1. News[d].kind \in {"edit", "react"} /\ News[d].id = Now.id
    <3>1. CASE Now.call.op = "edit"
      <4>1. News[d] = [kind |-> "edit", id |-> Now.id, body |-> BodyFor(Now.call.body, d)]
        BY <3>1 DEF News
      <4> QED  BY <4>1
    <3>2. CASE Now.call.op = "react"
      <4>1. News[d] = [kind |-> "react", id |-> Now.id, user |-> Author,
                       emoji |-> Now.call.emoji, add |-> Now.call.add]
        BY <3>2 DEF News, ToAll
      <4> QED  BY <4>1
    <3> QED  BY <1>8, <3>1, <3>2
  <2>2. Live(Now, Now.id)  BY <1>3, <1>8 DEF Live
  <2>3. Now.id \notin Silent  BY <1>2, <2>2 DEF Silent
  <2> QED  BY <1>6, <2>1, <2>3
<1> QED  BY <1>1, <1>7, <1>8 DEF Follower

(* What a step puts on the way to a device, or takes from it. *)
Changed(d) ==
  \/ wire'[d] = wire[d]
  \/ wire'[d] = <<>>
  \/ wire[d] # <<>> /\ wire'[d] = Tail(wire[d])
  \/ \E f : /\ wire'[d] = <<f>> \/ wire'[d] = Append(wire[d], f)
            /\ f.kind \in Shows => f.id \notin Silent
            /\ f.kind = "gone" => f.id \in Silent

LEMMA PageEffect ==
  ASSUME NEW d \in Devices, NEW page, NEW older, NEW size
  PROVE  Frames(d, page, older, size).kind \notin Shows \cup {"gone"}
<1>1. Frames(d, page, older, size) =
        [kind |-> "page", older |-> older, more |-> Len(page) = size, entries |-> page]
  BY DEF Frames
<1> QED  BY <1>1 DEF Shows

LEMMA StepWire ==
  ASSUME HandlersInv, SilenceInv, Step
  PROVE  DOMAIN wire' = Devices /\ \A d \in Devices : Changed(d)
<1>0. DOMAIN wire = Devices  BY DEF SilenceInv
<1>1. CASE DeliverPost
  <2>1. wire' = [d \in Devices |->
                  IF d \in Fanout
                  THEN Append(wire[d], [kind |-> "post", id |-> Now.id, at |-> Now.at,
                                        body |-> BodyFor(Now.call.body, d)])
                  ELSE wire[d]]
    BY <1>1 DEF DeliverPost
  <2>2. tasks # <<>> /\ Posting(Now)  BY <1>1 DEF DeliverPost, At, Now, Posting
  <2>3. Live(Now, Now.id) /\ 1 \in DOMAIN tasks /\ tasks[1] = Now  BY <2>2, NowFacts DEF Live, Now
  <2>4. Now.id \notin Silent  BY <2>3 DEF Silent
  <2>5. ASSUME NEW d \in Devices PROVE Changed(d)
    <3> DEFINE f == [kind |-> "post", id |-> Now.id, at |-> Now.at, body |-> BodyFor(Now.call.body, d)]
    <3>1. f.kind = "post" /\ f.id = Now.id  OBVIOUS
    <3>2. wire'[d] = wire[d] \/ wire'[d] = Append(wire[d], f)  BY <2>1
    <3> HIDE DEF f
    <3> QED  BY <2>4, <3>1, <3>2 DEF Changed
  <2> QED  BY <2>1, <2>5
<1>2. CASE DeliverNews
  <2>1. DOMAIN wire' = Devices  BY <1>2 DEF DeliverNews, Announce
  <2> QED  BY <1>2, <2>1, NewsEffect DEF Changed
<1>3. CASE DeliverPage
  <2>1. \/ wire' = wire
        \/ wire' = [wire EXCEPT ![Now.d] =
                      Append(@, Frames(Now.d, Now.page, Now.call.before # None, PageSize))]
    BY <1>3 DEF DeliverPage, Answer
  <2>2. Now.d \in Devices
    <3>1. tasks # <<>>  BY <1>3 DEF DeliverPage, At
    <3> QED  BY <3>1, NowFacts DEF TaskOK
  <2> DEFINE f == Frames(Now.d, Now.page, Now.call.before # None, PageSize)
  <2>3. f.kind \notin Shows \cup {"gone"}  BY <2>2, PageEffect
  <2> HIDE DEF f
  <2>4. \A d \in Devices : wire'[d] = wire[d] \/ wire'[d] = Append(wire[d], f)  BY <1>0, <2>1 DEF f
  <2> QED  BY <1>0, <2>1, <2>3, <2>4 DEF Changed
<1>4. ASSUME ~ DeliverPost, ~ DeliverNews, ~ DeliverPage PROVE wire' = wire
  BY <1>4 DEF Step, Wait, StampPost, Save, Read, Update, Remove, Write, Audience, ReadRows,
         ReadReactions, Block
<1> QED  BY <1>0, <1>1, <1>2, <1>3, <1>4 DEF Changed

LEMMA AsideWire ==
  ASSUME SilenceInv, Aside
  PROVE  DOMAIN wire' = Devices /\ \A d \in Devices : Changed(d)
<1>0. DOMAIN wire = Devices  BY DEF SilenceInv
<1>1. ASSUME NEW S, Close(S) PROVE DOMAIN wire' = Devices /\ \A d \in Devices : Changed(d)
  BY <1>1 DEF Close, Changed
<1>2. CASE Restart  BY <1>1, <1>2 DEF Restart
<1>3. ASSUME NEW e \in Devices, Disconnect(e) \/ Reload(e)
      PROVE  DOMAIN wire' = Devices /\ \A d \in Devices : Changed(d)
  BY <1>1, <1>3 DEF Disconnect, Reload
<1>4. ASSUME NEW e \in Devices, Connect(e)
      PROVE  DOMAIN wire' = Devices /\ \A d \in Devices : Changed(d)
  <2> DEFINE f == Frames(e, Page(e, None, FirstPage), FALSE, FirstPage)
  <2>1. f.kind \notin Shows \cup {"gone"}  BY PageEffect
  <2>2. wire' = wire \/ wire' = [wire EXCEPT ![e] = <<f>>]  BY <1>4 DEF Connect
  <2> HIDE DEF f
  <2>3. \A d \in Devices : wire'[d] = wire[d] \/ wire'[d] = <<f>>  BY <1>0, <2>2
  <2> QED  BY <1>0, <2>1, <2>2, <2>3 DEF Changed
<1>5. ASSUME NEW e \in Devices, Receive(e)
      PROVE  DOMAIN wire' = Devices /\ \A d \in Devices : Changed(d)
  <2>1. wire[e] # <<>> /\ wire' = [wire EXCEPT ![e] = Tail(@)]  BY <1>5 DEF Receive
  <2> QED  BY <1>0, <2>1 DEF Changed
<1>6. CASE Clean
  <2> DEFINE f == [kind |-> "cleared"]
  <2>1. f.kind \notin Shows \cup {"gone"}  BY DEF Shows
  <2>2. wire' = wire \/ wire' = [d \in Devices |-> IF d \in Ready THEN Append(wire[d], f) ELSE wire[d]]
    BY <1>6 DEF Clean
  <2> HIDE DEF f
  <2>3. \A d \in Devices : wire'[d] = wire[d] \/ wire'[d] = Append(wire[d], f)  BY <2>2
  <2> QED  BY <1>0, <2>1, <2>2, <2>3 DEF Changed
<1>7. CASE \/ \E d \in Devices : Stall(d) \/ Finish(d)
           \/ Untrack \/ (\E what \in {"expired", "week"} : StartCleaning(what))
           \/ SetClock(clock + 1) \/ (clock > 1 /\ SetClock(clock - 1))
  <2>1. wire' = wire  BY <1>7 DEF Stall, Finish, Untrack, StartCleaning, SetClock
  <2> QED  BY <1>0, <2>1 DEF Changed
<1> QED  BY <1>2, <1>3, <1>4, <1>5, <1>6, <1>7 DEF Aside, World

LEMMA WireStep ==
  ASSUME HandlersInv, SilenceInv, [Next]_vars
  PROVE  DOMAIN wire' = Devices /\ \A d \in Devices : Changed(d)
<1>1. CASE \E d \in Devices : Press(d)
  <2>1. wire' = wire  BY <1>1, PressEffect DEF Arrive
  <2> QED  BY <2>1 DEF SilenceInv, Changed
<1>2. CASE UNCHANGED vars
  <2>1. wire' = wire  BY <1>2 DEF vars, server
  <2> QED  BY <2>1 DEF SilenceInv, Changed
<1> QED  BY <1>1, <1>2, StepWire, AsideWire, NextCases

LEMMA SilenceStep ==
  ASSUME HandlersInv, SilenceInv, [Next]_vars
  PROVE  SilenceInv'
<1>1. DOMAIN wire' = Devices /\ \A d \in Devices : Changed(d)  BY WireStep
<1>2. ASSUME NEW d \in Devices PROVE Orderly(wire'[d], Silent')
  <2>1. Orderly(wire[d], Silent)  BY DEF SilenceInv
  <2> SUFFICES Orderly(wire'[d], Silent)  BY SilentStays, OrderlyMore
  <2>2. CASE wire'[d] = wire[d]  BY <2>1, <2>2
  <2>3. CASE wire'[d] = <<>>  BY <2>3, OrderlyEmpty
  <2>4. CASE wire[d] # <<>> /\ wire'[d] = Tail(wire[d])  BY <2>1, <2>4, OrderlyTail
  <2>5. ASSUME NEW f, wire'[d] = <<f>> \/ wire'[d] = Append(wire[d], f),
               f.kind \in Shows => f.id \notin Silent, f.kind = "gone" => f.id \in Silent
        PROVE  Orderly(wire'[d], Silent)
    <3>1. CASE wire'[d] = <<f>>
      <4>1. Append(<<>>, f) = <<f>>  OBVIOUS
      <4>2. Orderly(Append(<<>>, f), Silent)  BY <2>5, OrderlyEmpty, OrderlyAppend
      <4> QED  BY <3>1, <4>1, <4>2
    <3>2. CASE wire'[d] = Append(wire[d], f)  BY <2>1, <2>5, <3>2, OrderlyAppend
    <3> QED  BY <2>5, <3>1, <3>2
  <2> QED  BY <1>1, <2>2, <2>3, <2>4, <2>5 DEF Changed
<1>3. \A k \in DOMAIN tasks' : Removed(tasks'[k]) =>
        /\ tasks'[k].id \notin Ids'
        /\ \A j \in DOMAIN tasks' : Live(tasks'[j], tasks'[k].id) => j < k
  BY RemovedStep
<1> QED  BY <1>1, <1>2, <1>3 DEF SilenceInv, Removed, Live, Posting, Occurs, Orderly

(* Once a device has been told that a message is gone, no frame that shows it, corrects it or     *)
(* reacts to it is behind on the way, for any number of handlers in a read: a deletion is         *)
(* announced a turn after its row went, and whoever saw the row before that is ahead of it in the *)
(* queue; whoever comes later looks for the row and finds none.                                   *)
THEOREM DeletedStaysLast == Spec => []DeletedIsLast
<1>1. Init => HandlersInv /\ SilenceInv
  <2>1. ASSUME Init PROVE SilenceInv
    <3>1. tasks = <<>> /\ wire = [d \in Devices |-> <<>>]  BY <2>1 DEF Init, ServerInit
    <3>2. DOMAIN <<>> = {}  OBVIOUS
    <3> QED  BY <3>1, <3>2, OrderlyEmpty DEF SilenceInv
  <2> QED  BY <2>1, HandlersInit
<1>2. HandlersInv /\ SilenceInv /\ [Next]_vars => (HandlersInv /\ SilenceInv)'
  BY HandlersStep, SilenceStep
<1>3. SilenceInv => DeletedIsLast  BY DEF SilenceInv, Orderly, DeletedIsLast, Shows
<1> QED  BY <1>1, <1>2, <1>3, PTL DEF Spec
=============================================================================
