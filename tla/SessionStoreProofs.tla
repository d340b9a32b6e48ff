------------------------- MODULE SessionStoreProofs -------------------------
(***************************************************************************)
(* SessionStore for any number of bodies, sends, sessions, crashes, refused*)
(* writes and discards: nothing is handed out twice, the disk never goes   *)
(* back, what is quiet is saved, and what was thrown away stays gone.      *)
(*                                                                         *)
(* None of the four is inductive.  The invariant that is comes in layers,  *)
(* each proved from the ones before it:                                    *)
(*   GoneInv    what was begun before a discard has an older generation;   *)
(*   ChainInv   one write at a time, and one save an open waits for;       *)
(*   PhaseInv   a tab that never reconnects is down, loading, up or off,   *)
(*              and holds nothing before its store is loaded;              *)
(*   OrderInv   disk, write in flight and memory are ever newer;           *)
(*   HandInv    memory covers every number taken and body returned, and a  *)
(*              write in flight what it will let out;                      *)
(*   QuietInv   what is not on the disk is pending somewhere.              *)
(***************************************************************************)
EXTENDS SessionStore, TLAPS

(* Nothing has happened more often than the scenario lets it. *)
WithinLimits == \A c \in Counter : used[c] <= limits[c]

TypeInv == TypeOK /\ WithinLimits

(* A session that has been created and not thrown away. *)
Alive(m) == m # None => m.session <= used["session"] /\ m.session \notin discarded

(* Nothing holds a discarded session, and what was begun before the last   *)
(* discard, which may hold one, began under an older generation.           *)
GoneInv ==
  /\ discarded \subseteq 1 .. used["session"]
  /\ Alive(disk) /\ Alive(mem)
  /\ \A s \in signIns :
       s.generation <= generation /\ (s.generation = generation => Alive(s.raw))
  /\ \A w \in writers :
       w.generation <= generation /\ (w.generation = generation => Alive(w.snapshot))

(* The saves that wait for their turn, and those and the ones being written. *)
Queued == {queue[i] : i \in DOMAIN queue}

Calls == Queued \cup {w.call : w \in writers}

(* One write at a time, and at most one save that an open waits for, which *)
(* is the one that holds the lock.                                         *)
ChainInv ==
  /\ \A v, w \in writers : v = w
  /\ \A c \in Calls : c.kind = "open" =>
       /\ opening # None /\ opening.saving = TRUE
       /\ c.of = <<opening.session, opening.body>>
  /\ \A i, j \in DOMAIN queue : queue[i].kind = "open" /\ queue[j].kind = "open" => i = j
  /\ \A i \in DOMAIN queue : \A w \in writers : ~(queue[i].kind = "open" /\ w.call.kind = "open")

(* The life of a tab that never reconnects: down, loading its store, up,   *)
(* and off once its keys were thrown away.                                 *)
Unbroken == used["reconnect"] = 0

HoldsNothing ==
  mem = None /\ seals = {} /\ opening = None /\ timer = FALSE /\ \A c \in Calls : c.kind = "save"

Down ==
  generation = 0 /\ hasKey = FALSE /\ ready = FALSE /\ signIns = {} /\ writers = {} /\ HoldsNothing

Loading ==
  /\ generation = 1 /\ ready = FALSE /\ HoldsNothing
  /\ \E s \in signIns : signIns = {s} /\ s.generation = 1 /\ (s.stage = "decrypt" => hasKey = TRUE)
  /\ \A w \in writers : w.snapshot = None

Up == generation = 1 /\ ready = TRUE /\ hasKey = TRUE /\ signIns = {}

Off ==
  generation = 2 /\ hasKey = FALSE /\ ready = FALSE /\ signIns = {} /\ mem = None /\ disk = None

PhaseInv ==
  Unbroken =>
    /\ Down \/ Loading \/ Up \/ Off
    /\ \A w \in writers : w.generation = 1

(* m is no newer a state of its session than n is, if n holds that session. *)
NoNewer(m, n) ==
  m # None /\ n # None /\ m.session = n.session => m.next <= n.next /\ m.read \subseteq n.read

(* Body b of session s is read in m, if m holds that session. *)
ReadIn(m, s, b) == m # None /\ m.session = s => b \in m.read

(* The open that holds the lock began on the Session object in memory      *)
(* exactly if that object is still its session.                            *)
OpenInv ==
  opening # None =>
    /\ opening.session <= used["session"]
    /\ opening.object <= object
    /\ mem # None => (mem.session = opening.session <=> opening.object = object)
    /\ opening.saving = TRUE => ReadIn(mem, opening.session, opening.body)

(* What is on the disk, what is being written there and what is in memory  *)
(* are ever newer; what a sign-in has read is what the disk held.          *)
OrderInv ==
  Unbroken =>
    /\ OpenInv
    /\ NoNewer(disk, mem)
    /\ \A w \in writers : NoNewer(disk, w.snapshot) /\ NoNewer(w.snapshot, mem)
    /\ \A s \in signIns : NoNewer(disk, s.raw)

-----------------------------------------------------------------------------
(* Type correctness. *)

SignInCall == [generation : Nat, stage : Stage, raw : Snapshot \cup {None}]

Write == [call : Waited, snapshot : Snapshot \cup {None}, generation : Nat, retry : BOOLEAN]

LEMMA Limited ==
  ASSUME TypeInv
  PROVE  /\ \A c \in Counter : used[c] \in Nat /\ limits[c] \in Nat
         /\ used["session"] <= MaxSessions /\ used["send"] <= MaxSends
<1>1. limits \in [Counter -> Nat] /\ limits["send"] <= MaxSends /\ limits["session"] <= MaxSessions
  BY StoreBoundsAssumption DEF TypeInv, TypeOK
<1>2. "send" \in Counter /\ "session" \in Counter  BY DEF Counter
<1>3. used \in [Counter -> Nat]  BY DEF TypeInv, TypeOK
<1>4. used["send"] <= limits["send"] /\ used["session"] <= limits["session"]
  BY <1>2 DEF TypeInv, WithinLimits
<1> QED  BY <1>1, <1>2, <1>3, <1>4, StoreBoundsAssumption

(* A counter that may still count has a name to give.                      *)
LEMMA NextName ==
  ASSUME TypeInv
  PROVE  /\ used["session"] < limits["session"] => used["session"] + 1 \in SessionId
         /\ used["send"] < limits["send"] => used["send"] + 1 \in Message
<1>1. limits["send"] <= MaxSends /\ limits["session"] <= MaxSessions
  BY StoreBoundsAssumption DEF TypeInv, TypeOK
<1>2. \A c \in {"send", "session"} : used[c] \in Nat /\ limits[c] \in Nat
  BY Limited DEF Counter
<1>3. MaxSends \in Nat /\ MaxSessions \in Nat  BY StoreBoundsAssumption
<1>4. ASSUME NEW n \in Nat, NEW l \in Nat, NEW m \in Nat, n < l, l <= m PROVE n + 1 \in 1 .. m
  BY <1>4
<1>5. used["session"] < limits["session"] => used["session"] + 1 \in 1 .. MaxSessions
  BY <1>1, <1>2, <1>3, <1>4
<1>6. used["send"] < limits["send"] => used["send"] + 1 \in 1 .. MaxSends
  BY <1>1, <1>2, <1>3, <1>4
<1> QED  BY <1>5, <1>6 DEF SessionId, Message

LEMMA CountType ==
  ASSUME TypeInv, NEW c \in Counter, Count(c)
  PROVE  /\ used' \in [Counter -> Nat]
         /\ limits' = limits
         /\ \A d \in Counter : used'[d] = IF d = c THEN used[c] + 1 ELSE used[d]
         /\ WithinLimits'
<1>1. used \in [Counter -> Nat] /\ used' = [used EXCEPT ![c] = @ + 1] /\ limits' = limits
  BY DEF Count, TypeInv, TypeOK
<1>2. \A d \in Counter : used'[d] = IF d = c THEN used[c] + 1 ELSE used[d]
  BY <1>1
<1>3. \A d \in Counter : used[d] \in Nat /\ limits[d] \in Nat  BY Limited
<1>4. used[c] < limits[c]  BY DEF Count
<1>5. \A d \in Counter : used'[d] <= limits'[d]
  BY <1>1, <1>2, <1>3, <1>4 DEF TypeInv, WithinLimits
<1> QED  BY <1>1, <1>2, <1>5 DEF WithinLimits

LEMMA SaveTypes ==
  /\ Save \in Waited
  /\ \A x \in SessionId \X Nat \X Message : SaveFor("seal", x) \in Waited
  /\ \A x \in SessionId \X Bodies : SaveFor("open", x) \in Waited
BY DEF Save, SaveFor, Waited

LEMMA EnqueueType ==
  ASSUME TypeOK, NEW c \in Waited, Enqueue(c)
  PROVE  queue' \in Seq(Waited)
BY DEF Enqueue, TypeOK

LEMMA AttemptType ==
  ASSUME TypeOK, NEW c \in Waited, NEW g \in Nat, NEW r \in BOOLEAN
  PROVE  Attempt(c, g, r) \in Write
BY DEF Attempt, Write, TypeOK

LEMMA ReturnedType ==
  ASSUME TypeOK, NEW s \in SessionId, NEW b \in Bodies, CountReturn(s, b)
  PROVE  /\ returned' \in [SessionId -> [Bodies -> Nat]]
         /\ \A t \in SessionId : \A c \in Bodies :
              returned'[t][c] = IF t = s /\ c = b THEN returned[t][c] + 1 ELSE returned[t][c]
BY DEF CountReturn, TypeOK

(* What the call that waited is told. *)
LEMMA SettleType ==
  ASSUME TypeOK, NEW c \in Waited, Settle(c)
  PROVE  /\ released' \in SUBSET (SessionId \X Nat \X Message)
         /\ opening' \in OpenCall \cup {None}
         /\ returned' \in [SessionId -> [Bodies -> Nat]]
<1>1. CASE c.kind = "save"
  BY <1>1 DEF Settle, TypeOK
<1>2. CASE c.kind = "seal"
  <2>1. c.of \in SessionId \X Nat \X Message  BY <1>2 DEF Waited
  <2> QED  BY <1>2, <2>1 DEF Settle, TypeOK
<1>3. CASE c.kind = "open"
  <2>1. c.of \in SessionId \X Bodies  BY <1>3 DEF Waited
  <2>2. c.of[1] \in SessionId /\ c.of[2] \in Bodies  BY <2>1
  <2>3. CountReturn(c.of[1], c.of[2]) /\ opening' = None /\ released' = released
    BY <1>3 DEF Settle
  <2> QED  BY <2>2, <2>3, ReturnedType DEF TypeOK
<1> QED  BY <1>1, <1>2, <1>3 DEF Waited

LEMMA TypeInit == Init => TypeInv
<1> SUFFICES ASSUME Init PROVE TypeInv
  OBVIOUS
<1>1. returned \in [SessionId -> [Bodies -> Nat]] /\ used \in [Counter -> Nat]
  BY DEF Init
<1>2. limits \in Scenario /\ limits \in [Counter -> Nat]
  BY StoreBoundsAssumption DEF Init
<1>3. WithinLimits  BY <1>2 DEF Init, WithinLimits
<1>4. queue \in Seq(Waited) /\ signIns = {} /\ writers = {}  BY DEF Init
<1> QED  BY <1>1, <1>2, <1>3, <1>4 DEF Init, TypeInv, TypeOK

LEMMA TypeNext == TypeInv /\ [Next]_vars => TypeInv'
<1> SUFFICES ASSUME TypeInv, [Next]_vars PROVE TypeInv'
  OBVIOUS
<1> USE DEF TypeInv
<1>1. CASE SignIn
  <2>1. used' \in [Counter -> Nat] /\ limits' = limits /\ WithinLimits'
    BY <1>1, CountType DEF SignIn, Counter, TypeOK, WithinLimits
  <2> QED  BY <1>1, <2>1 DEF SignIn, Stage, TypeOK
<1>2. CASE Imported
  <2>1. PICK s \in signIns : signIns' = signIns \ {s}
                             \/ signIns' = (signIns \ {s}) \cup {[s EXCEPT !.stage = "derive"]}
    BY <1>2 DEF Imported, Return
  <2>2. s \in SignInCall  BY DEF TypeOK, SignInCall
  <2>3. [s EXCEPT !.stage = "derive"] \in SignInCall  BY <2>2 DEF SignInCall, Stage
  <2>4. signIns' \in SUBSET SignInCall  BY <2>1, <2>3 DEF TypeOK, SignInCall
  <2> QED  BY <1>2, <2>4 DEF Imported, Return, TypeOK, SignInCall, WithinLimits
<1>3. CASE Derived
  <2>1. PICK s \in signIns :
               signIns' = signIns \ {s}
               \/ signIns' = (signIns \ {s}) \cup {[s EXCEPT !.stage = "decrypt", !.raw = disk]}
    BY <1>3 DEF Derived, Return
  <2>2. s \in SignInCall  BY DEF TypeOK, SignInCall
  <2>3. [s EXCEPT !.stage = "decrypt", !.raw = disk] \in SignInCall
    BY <2>2 DEF SignInCall, Stage, TypeOK
  <2>4. signIns' \in SUBSET SignInCall  BY <2>1, <2>3 DEF TypeOK, SignInCall
  <2> QED  BY <1>3, <2>4 DEF Derived, Return, TypeOK, SignInCall, WithinLimits
<1>4. CASE Loaded
  BY <1>4 DEF Loaded, Return, TypeOK, WithinLimits
<1>5. CASE NewSession
  <2>1. "session" \in Counter  BY DEF Counter
  <2>2. /\ used' \in [Counter -> Nat] /\ limits' = limits /\ WithinLimits'
        /\ used["session"] < limits["session"]
    BY <1>5, <2>1, CountType DEF NewSession, Count
  <2>3. used["session"] + 1 \in SessionId
    BY <2>2, NextName
  <2>4. mem' \in Snapshot  BY <1>5, <2>3 DEF NewSession, Snapshot
  <2> QED  BY <1>5, <2>2, <2>4 DEF NewSession, Debounced, TypeOK
<1>6. CASE Evict
  BY <1>6 DEF Evict, Debounced, TypeOK, WithinLimits
<1>7. CASE SealBegin
  <2>1. "send" \in Counter  BY DEF Counter
  <2>2. /\ used' \in [Counter -> Nat] /\ limits' = limits /\ WithinLimits'
        /\ used["send"] < limits["send"]
    BY <1>7, <2>1, CountType DEF SealBegin, Count
  <2>3. used["send"] + 1 \in Message
    BY <2>2, NextName
  <2>4. mem \in Snapshot  BY <1>7 DEF SealBegin, TypeOK
  <2>5. mem' \in Snapshot /\ mem.session \in SessionId /\ mem.next \in Nat
    BY <1>7, <2>4 DEF SealBegin, Snapshot
  <2>6. seals' \in SUBSET (SessionId \X Nat \X Message)
    BY <1>7, <2>3, <2>5 DEF SealBegin, TypeOK
  <2> QED  BY <1>7, <2>2, <2>5, <2>6 DEF SealBegin, TypeOK
<1>8. CASE SealDone
  <2>1. PICK x \in seals : seals' = seals \ {x} /\ Sealed(x)
    BY <1>8 DEF SealDone
  <2>2. x \in SessionId \X Nat \X Message  BY DEF TypeOK
  <2>3. queue' \in Seq(Waited)  BY <2>1, <2>2, SaveTypes, EnqueueType DEF Sealed
  <2> QED  BY <1>8, <2>1, <2>3 DEF SealDone, Sealed, TypeOK, WithinLimits
<1>9. CASE OpenBegin
  <2>1. mem \in Snapshot  BY <1>9 DEF OpenBegin, TypeOK
  <2>2. opening' \in OpenCall  BY <1>9, <2>1 DEF OpenBegin, OpenCall, Snapshot, TypeOK
  <2> QED  BY <1>9, <2>2 DEF OpenBegin, TypeOK, WithinLimits
<1>10. CASE OpenDone
  <2>1. opening \in OpenCall  BY <1>10 DEF OpenDone, TypeOK
  <2>2. opening' \in OpenCall  BY <1>10, <2>1 DEF OpenDone, Opened, OpenCall
  <2>3. mem' \in Snapshot \cup {None}
    BY <1>10, <2>1 DEF OpenDone, OpenCall, Snapshot, TypeOK
  <2>4. <<opening.session, opening.body>> \in SessionId \X Bodies  BY <2>1 DEF OpenCall
  <2>5. queue' \in Seq(Waited)
    BY <1>10, <2>4, SaveTypes, EnqueueType DEF OpenDone, Opened
  <2> QED  BY <1>10, <2>2, <2>3, <2>5 DEF OpenDone, Opened, TypeOK, WithinLimits
<1>11. CASE TimerFires
  <2>1. queue' \in Seq(Waited)  BY <1>11, SaveTypes, EnqueueType DEF TimerFires
  <2> QED  BY <1>11, <2>1 DEF TimerFires, TypeOK, WithinLimits
<1>12. CASE Flush
  <2>1. queue' \in Seq(Waited)  BY <1>12, SaveTypes, EnqueueType DEF Flush
  <2>2. used' \in [Counter -> Nat] /\ limits' = limits /\ WithinLimits'
    BY <1>12, CountType DEF Flush, Counter, TypeOK, WithinLimits
  <2> QED  BY <1>12, <2>1, <2>2 DEF Flush, TypeOK
<1>13. CASE WriteBegin
  <2>1. Head(queue) \in Waited /\ queue' \in Seq(Waited)  BY <1>13 DEF WriteBegin, TypeOK
  <2>2. Attempt(Head(queue), generation, FALSE) \in Write
    BY <2>1, AttemptType DEF TypeOK
  <2>3. CASE hasKey
    BY <1>13, <2>1, <2>2, <2>3 DEF WriteBegin, Write, TypeOK, WithinLimits
  <2>4. CASE ~hasKey
    <3>1. Settle(Head(queue))  BY <1>13, <2>4 DEF WriteBegin
    <3> QED  BY <1>13, <2>1, <2>4, <3>1, SettleType DEF WriteBegin, TypeOK, WithinLimits
  <2> QED  BY <2>3, <2>4
<1>14. CASE WriteEnd
  <2>1. PICK w \in writers :
          /\ writers' = writers \ {w}
          /\ disk' = IF Current(w.generation) THEN w.snapshot ELSE disk
          /\ Settle(w.call)
    BY <1>14 DEF WriteEnd
  <2>2. w \in Write  BY DEF Write, TypeOK
  <2>3. w.call \in Waited /\ w.snapshot \in Snapshot \cup {None}  BY <2>2 DEF Write
  <2> QED  BY <1>14, <2>1, <2>3, SettleType DEF WriteEnd, TypeOK, WithinLimits
<1>15. CASE WriteRefused
  <2>1. PICK w \in writers :
          \/ /\ writers' = (writers \ {w}) \cup {Attempt(w.call, w.generation, TRUE)}
             /\ UNCHANGED <<released, returned, opening>>
          \/ GiveUp(w)
    BY <1>15 DEF WriteRefused
  <2>2. w \in Write  BY DEF Write, TypeOK
  <2>3. w.call \in Waited /\ w.generation \in Nat  BY <2>2 DEF Write
  <2>4. Attempt(w.call, w.generation, TRUE) \in Write  BY <2>3, AttemptType
  <2>5. used' \in [Counter -> Nat] /\ limits' = limits /\ WithinLimits'
    BY <1>15, CountType DEF Counter, WriteRefused
  <2>6. /\ writers' \in SUBSET Write
        /\ released' \in SUBSET (SessionId \X Nat \X Message)
        /\ opening' \in OpenCall \cup {None}
        /\ returned' \in [SessionId -> [Bodies -> Nat]]
    <3>1. CASE GiveUp(w)
      BY <2>3, <3>1, SettleType DEF GiveUp, TypeOK, Write
    <3>2. CASE ~GiveUp(w)
      BY <2>1, <2>4, <3>2 DEF TypeOK, Write
    <3> QED  BY <3>1, <3>2
  <2> QED  BY <1>15, <2>5, <2>6 DEF TypeOK, Write, WriteRefused
<1>16. CASE Discard
  <2>1. used' \in [Counter -> Nat] /\ limits' = limits /\ WithinLimits'
    BY <1>16, CountType DEF Discard, Counter
  <2>2. 1 .. used["session"] \subseteq SessionId
    BY Limited, StoreBoundsAssumption DEF SessionId, Counter
  <2>3. discarded' \in SUBSET SessionId  BY <1>16, <2>2 DEF Discard, TypeOK
  <2>4. generation' \in Nat /\ disk' = None /\ mem' = None  BY <1>16 DEF Discard, TypeOK
  <2>5. hasKey' \in BOOLEAN /\ ready' \in BOOLEAN /\ timer' \in BOOLEAN  BY <1>16 DEF Discard
  <2>6. UNCHANGED <<object, signIns, queue, writers, seals, opening, released, returned>>
    BY <1>16 DEF Discard
  <2> QED  BY <2>1, <2>3, <2>4, <2>5, <2>6 DEF TypeOK
<1>17. CASE Crash
  <2>1. used' \in [Counter -> Nat] /\ limits' = limits /\ WithinLimits'
    BY <1>17, CountType DEF Crash, Counter
  <2>2. queue' \in Seq(Waited)  BY <1>17 DEF Crash
  <2>3. /\ mem' = None /\ opening' = None /\ generation' = 0
        /\ signIns' = {} /\ writers' = {} /\ seals' = {}
    BY <1>17 DEF Crash
  <2>4. hasKey' \in BOOLEAN /\ ready' \in BOOLEAN /\ timer' \in BOOLEAN  BY <1>17 DEF Crash
  <2>6. object' \in Nat  BY <1>17 DEF Crash, TypeOK
  <2>5. UNCHANGED <<disk, released, returned, discarded>>  BY <1>17 DEF Crash
  <2> QED  BY <2>1, <2>2, <2>3, <2>4, <2>5, <2>6 DEF TypeOK
<1>18. CASE UNCHANGED vars
  BY <1>18 DEF vars, TypeOK, WithinLimits
<1> QED
  BY <1>1, <1>2, <1>3, <1>4, <1>5, <1>6, <1>7, <1>8, <1>9, <1>10, <1>11, <1>12, <1>13,
     <1>14, <1>15, <1>16, <1>17, <1>18 DEF Next, Progress

LEMMA TypeAlways == Spec => []TypeInv
<1> QED  BY TypeInit, TypeNext, PTL DEF Spec

-----------------------------------------------------------------------------
(* What was thrown away stays gone. *)

LEMMA SessionsCounted ==
  ASSUME TypeInv, [Next]_vars
  PROVE  used'["session"] = IF NewSession THEN used["session"] + 1 ELSE used["session"]
<1>0. "session" \in Counter  BY DEF Counter
<1>1. CASE NewSession
  BY <1>0, <1>1, CountType DEF NewSession
<1>2. CASE ~NewSession
  <2>1. ASSUME NEW c \in Counter \ {"session"}, Count(c) PROVE used'["session"] = used["session"]
    BY <1>0, <2>1, CountType
  <2>2. CASE UNCHANGED used  BY <1>2, <2>2
  <2>3. CASE \E c \in Counter \ {"session"} : Count(c)  BY <1>2, <2>1, <2>3
  <2>4. UNCHANGED used \/ \E c \in Counter \ {"session"} : Count(c)
    BY <1>2 DEF Next, vars, Progress, SignIn, Imported, Derived, Loaded, SealDone, OpenDone,
         WriteBegin, WriteEnd, Evict, SealBegin, OpenBegin, TimerFires, Flush, WriteRefused,
         Discard, Crash, Counter
  <2> QED  BY <2>2, <2>3, <2>4
<1> QED  BY <1>1, <1>2

LEMMA GoneInit == Init => GoneInv
BY DEF Init, GoneInv, Alive

LEMMA GoneNext == TypeInv /\ GoneInv /\ [Next]_vars => GoneInv'
<1> SUFFICES ASSUME TypeInv, GoneInv, [Next]_vars PROVE GoneInv'
  OBVIOUS
<1>0. /\ generation \in Nat /\ used["session"] \in Nat
      /\ used'["session"] = IF NewSession THEN used["session"] + 1 ELSE used["session"]
      /\ \A s \in signIns : s \in SignInCall
      /\ \A w \in writers : w \in Write
  BY Limited, SessionsCounted DEF TypeInv, TypeOK, Counter, SignInCall, Write
<1>1. CASE SignIn
  BY <1>0, <1>1 DEF SignIn, GoneInv, Alive, SignInCall, Write, NewSession
<1>2. CASE Imported
  BY <1>0, <1>2 DEF Imported, Return, GoneInv, Alive, SignInCall, Write, NewSession
<1>3. CASE Derived
  <2>1. PICK s \in signIns :
               signIns' = signIns \ {s}
               \/ signIns' = (signIns \ {s}) \cup {[s EXCEPT !.stage = "decrypt", !.raw = disk]}
    BY <1>3 DEF Derived, Return
  <2>2. [s EXCEPT !.stage = "decrypt", !.raw = disk].raw = disk  BY <1>0 DEF SignInCall
  <2>3. [s EXCEPT !.stage = "decrypt", !.raw = disk].generation = s.generation
    BY <1>0 DEF SignInCall
  <2>4. UNCHANGED <<disk, mem, writers, generation, discarded, used>>  BY <1>3 DEF Derived
  <2>5. \A t \in signIns' :
          t.generation <= generation' /\ (t.generation = generation' => Alive(t.raw)')
    BY <2>1, <2>2, <2>3, <2>4 DEF GoneInv, Alive
  <2> QED  BY <2>4, <2>5 DEF GoneInv, Alive
<1>4. CASE Loaded
  BY <1>0, <1>4 DEF Loaded, Return, Current, GoneInv, Alive, SignInCall, Write, NewSession
<1>5. CASE NewSession
  <2>1. \A m \in Snapshot : m.session \in Nat  BY DEF Snapshot, SessionId
  <2>2. \A m \in Snapshot \cup {None} : Alive(m) => Alive(m)'
    BY <1>0, <1>5, <2>1 DEF NewSession, Alive
  <2>3. used["session"] + 1 \notin discarded  BY <1>0 DEF GoneInv
  <2>4. Alive(mem)'  BY <1>0, <1>5, <2>3 DEF NewSession, Alive
  <2>5. discarded' \subseteq 1 .. used'["session"]  BY <1>0, <1>5 DEF NewSession, GoneInv
  <2>6. UNCHANGED <<disk, signIns, writers, generation>>  BY <1>5 DEF NewSession
  <2>7. disk \in Snapshot \cup {None}  BY DEF TypeInv, TypeOK
  <2>8. Alive(disk)'  BY <2>2, <2>6, <2>7 DEF GoneInv, Alive
  <2>9. \A s \in signIns : s.raw \in Snapshot \cup {None}  BY <1>0 DEF SignInCall
  <2>10. \A w \in writers : w.snapshot \in Snapshot \cup {None}  BY <1>0 DEF Write
  <2> QED  BY <2>2, <2>4, <2>5, <2>6, <2>8, <2>9, <2>10 DEF GoneInv
<1>6. CASE Evict
  BY <1>0, <1>6 DEF Evict, GoneInv, Alive, NewSession
<1>7. CASE SealBegin
  BY <1>0, <1>7 DEF SealBegin, GoneInv, Alive, NewSession, TypeInv, TypeOK, Snapshot
<1>8. CASE SealDone \/ OpenBegin \/ TimerFires \/ Flush
  BY <1>0, <1>8 DEF SealDone, OpenBegin, TimerFires, Flush, GoneInv, Alive, NewSession
<1>9. CASE OpenDone
  BY <1>0, <1>9 DEF OpenDone, GoneInv, Alive, NewSession, TypeInv, TypeOK, Snapshot
<1>10. CASE WriteBegin
  BY <1>0, <1>10 DEF WriteBegin, Attempt, GoneInv, Alive, NewSession
<1>11. CASE WriteEnd
  BY <1>0, <1>11 DEF WriteEnd, Current, GoneInv, Alive, NewSession
<1>12. CASE WriteRefused
  BY <1>0, <1>12 DEF WriteRefused, GiveUp, Attempt, Current, GoneInv, Alive, NewSession
<1>13. CASE Discard
  <2>1. /\ \A s \in signIns : s.generation \in Nat
        /\ \A w \in writers : w.generation \in Nat
    BY <1>0 DEF SignInCall, Write
  <2>2. discarded' \subseteq 1 .. used'["session"]
    BY <1>0, <1>13 DEF Discard, GoneInv, NewSession
  <2>3. generation' = generation + 1 /\ disk' = None /\ mem' = None /\ UNCHANGED <<signIns, writers>>
    BY <1>13 DEF Discard
  <2> QED  BY <1>0, <2>1, <2>2, <2>3 DEF GoneInv, Alive
<1>14. CASE Crash
  BY <1>0, <1>14 DEF Crash, GoneInv, Alive, NewSession
<1>15. CASE UNCHANGED vars
  BY <1>0, <1>15 DEF vars, GoneInv, Alive, NewSession
<1> QED
  BY <1>1, <1>2, <1>3, <1>4, <1>5, <1>6, <1>7, <1>8, <1>9, <1>10, <1>11, <1>12, <1>13,
     <1>14, <1>15 DEF Next, Progress
-----------------------------------------------------------------------------
(* The chain of writes. *)

LEMMA Enqueued ==
  ASSUME TypeInv, NEW c \in Waited, Enqueue(c)
  PROVE  /\ DOMAIN queue' = 1 .. Len(queue) + 1
         /\ DOMAIN queue = 1 .. Len(queue)
         /\ Len(queue) \in Nat
         /\ \A i \in DOMAIN queue : queue'[i] = queue[i] /\ queue[i] \in Waited
         /\ queue'[Len(queue) + 1] = c
         /\ Queued' = Queued \cup {c}
         /\ queue' # <<>>
<1>1. queue \in Seq(Waited) /\ queue' = Append(queue, c)  BY DEF Enqueue, TypeInv, TypeOK
<1>2. /\ DOMAIN queue' = 1 .. Len(queue) + 1
      /\ DOMAIN queue = 1 .. Len(queue)
      /\ Len(queue) \in Nat
      /\ queue'[Len(queue) + 1] = c
      /\ \A i \in DOMAIN queue : queue'[i] = queue[i] /\ queue[i] \in Waited
  BY <1>1
<1>3. Queued' = Queued \cup {c}  BY <1>2 DEF Queued
<1>4. queue' # <<>>  BY <1>2
<1> QED  BY <1>2, <1>3, <1>4

LEMMA Dequeued ==
  ASSUME TypeInv, queue # <<>>, queue' = Tail(queue)
  PROVE  /\ Head(queue) \in Queued
         /\ Head(queue) \in Waited
         /\ Head(queue) = queue[1]
         /\ 1 \in DOMAIN queue
         /\ DOMAIN queue \subseteq Nat
         /\ \A i \in DOMAIN queue' : i + 1 \in DOMAIN queue /\ queue'[i] = queue[i + 1] /\ i \in Nat /\ i # 0
         /\ Queued' \subseteq Queued
         /\ Queued = Queued' \cup {Head(queue)}
<1>1. queue \in Seq(Waited)  BY DEF TypeInv, TypeOK
<1>2. /\ Head(queue) = queue[1] /\ Head(queue) \in Waited
      /\ 1 \in DOMAIN queue /\ DOMAIN queue \subseteq Nat
      /\ Len(queue) \in Nat \ {0}
  BY <1>1
<1>3. /\ DOMAIN queue = 1 .. Len(queue)
      /\ DOMAIN queue' = 1 .. Len(queue) - 1
      /\ \A i \in 1 .. Len(queue) - 1 : queue'[i] = queue[i + 1]
  BY <1>1
<1>4. \A i \in DOMAIN queue' : i + 1 \in DOMAIN queue /\ queue'[i] = queue[i + 1] /\ i \in Nat /\ i # 0
  BY <1>2, <1>3
<1>5. \A i \in DOMAIN queue : i = 1 \/ (i - 1 \in DOMAIN queue' /\ queue'[i - 1] = queue[i])
  BY <1>2, <1>3
<1>6. Queued' \subseteq Queued  BY <1>4 DEF Queued
<1>7. Queued \subseteq Queued' \cup {queue[1]}  BY <1>5 DEF Queued
<1>8. Head(queue) \in Queued  BY <1>2 DEF Queued
<1>9. Queued = Queued' \cup {Head(queue)}  BY <1>2, <1>6, <1>7, <1>8
<1> QED  BY <1>2, <1>4, <1>6, <1>8, <1>9

LEMMA ChainInit == Init => ChainInv
BY DEF Init, ChainInv, Calls, Queued

(* A save that no open waits for joins the chain. *)
LEMMA ChainEnqueue ==
  ASSUME TypeInv, ChainInv, NEW c \in Waited, Enqueue(c), UNCHANGED writers,
         c.kind = "open" => /\ ~(opening # None /\ opening.saving = TRUE)
                            /\ opening' # None /\ opening'.saving = TRUE
                            /\ c.of = <<opening'.session, opening'.body>>,
         c.kind # "open" => UNCHANGED opening
  PROVE  ChainInv'
<1>1. /\ DOMAIN queue' = 1 .. Len(queue) + 1
      /\ DOMAIN queue = 1 .. Len(queue)
      /\ Len(queue) \in Nat
      /\ \A i \in DOMAIN queue : queue'[i] = queue[i] /\ queue[i] \in Waited
      /\ queue'[Len(queue) + 1] = c
      /\ Queued' = Queued \cup {c}
  BY Enqueued
<1>2. Calls' = Calls \cup {c}  BY <1>1 DEF Calls
<1>3. CASE c.kind = "open"
  <2>1. \A d \in Calls : d.kind # "open"  BY <1>3 DEF ChainInv
  <2>2. \A i \in DOMAIN queue : queue[i].kind # "open"  BY <2>1 DEF Calls, Queued
  <2>3. \A w \in writers : w.call.kind # "open"  BY <2>1 DEF Calls
  <2>4. \A i \in DOMAIN queue' : queue'[i].kind = "open" => i = Len(queue) + 1
    BY <1>1, <2>2
  <2> QED  BY <1>2, <1>3, <2>1, <2>3, <2>4 DEF ChainInv
<1>4. CASE c.kind # "open"
  <2>1. \A i \in DOMAIN queue' : queue'[i].kind = "open" => i \in DOMAIN queue /\ queue'[i] = queue[i]
    BY <1>1, <1>4
  <2> QED  BY <1>2, <1>4, <2>1 DEF ChainInv
<1> QED  BY <1>3, <1>4

LEMMA ChainNext == TypeInv /\ ChainInv /\ [Next]_vars => ChainInv'
<1> SUFFICES ASSUME TypeInv, ChainInv, [Next]_vars PROVE ChainInv'
  OBVIOUS
<1>1. CASE UNCHANGED <<queue, writers, opening>>
  BY <1>1 DEF ChainInv, Calls, Queued
<1>2. CASE SealDone
  <2>1. PICK x \in seals : Sealed(x)  BY <1>2 DEF SealDone
  <2>2. x \in SessionId \X Nat \X Message  BY DEF TypeInv, TypeOK
  <2>3. SaveFor("seal", x) \in Waited /\ SaveFor("seal", x).kind # "open"
    BY <2>2, SaveTypes DEF SaveFor
  <2> QED  BY <1>2, <2>1, <2>3, ChainEnqueue DEF SealDone, Sealed
<1>3. CASE OpenBegin
  <2>1. opening = None /\ UNCHANGED <<queue, writers>>  BY <1>3 DEF OpenBegin
  <2>2. \A d \in Calls : d.kind # "open"  BY <2>1 DEF ChainInv
  <2> QED  BY <2>1, <2>2 DEF ChainInv, Calls, Queued
<1>4. CASE OpenDone
  <2> DEFINE c == SaveFor("open", <<opening.session, opening.body>>)
  <2>1. opening \in OpenCall /\ ~opening.saving  BY <1>4 DEF OpenDone, TypeInv, TypeOK
  <2>2. <<opening.session, opening.body>> \in SessionId \X Bodies  BY <2>1 DEF OpenCall
  <2>3. c \in Waited /\ c.kind = "open" /\ c.of = <<opening.session, opening.body>>
    BY <2>2, SaveTypes DEF SaveFor
  <2>4. /\ opening' \in OpenCall /\ opening'.saving = TRUE
        /\ opening'.session = opening.session /\ opening'.body = opening.body
    BY <1>4, <2>1 DEF OpenDone, Opened, OpenCall
  <2>5. opening' # None  BY <2>4, NoneAssumption
  <2>6. opening.saving # TRUE  BY <2>1
  <2>7. Enqueue(c) /\ UNCHANGED writers  BY <1>4 DEF OpenDone, Opened
  <2> HIDE DEF c
  <2> QED  BY <2>3, <2>4, <2>5, <2>6, <2>7, ChainEnqueue
<1>5. CASE TimerFires \/ Flush
  <2>1. Save \in Waited /\ Save.kind # "open"  BY SaveTypes DEF Save
  <2>2. Enqueue(Save) /\ UNCHANGED <<writers, opening>>  BY <1>5 DEF TimerFires, Flush
  <2> QED  BY <2>1, <2>2, ChainEnqueue
<1>6. CASE WriteBegin
  <2>1. queue # <<>> /\ queue' = Tail(queue) /\ writers = {}  BY <1>6 DEF WriteBegin, MyTurn
  <2>2. /\ Head(queue) \in Queued
        /\ Head(queue) \in Waited
        /\ Head(queue) = queue[1]
        /\ 1 \in DOMAIN queue
        /\ \A i \in DOMAIN queue' : i + 1 \in DOMAIN queue /\ queue'[i] = queue[i + 1] /\ i \in Nat /\ i # 0
        /\ Queued' \subseteq Queued
    BY <2>1, Dequeued
  <2>3. /\ \A i, j \in DOMAIN queue' : queue'[i].kind = "open" /\ queue'[j].kind = "open" => i = j
        /\ Head(queue).kind = "open" => \A i \in DOMAIN queue' : queue'[i].kind # "open"
    BY <2>2 DEF ChainInv
  <2>4. CASE hasKey
    <3> DEFINE w == Attempt(Head(queue), generation, FALSE)
    <3>1. writers' = {w} /\ w.call = Head(queue)
      BY <1>6, <2>1, <2>4 DEF WriteBegin, Attempt
    <3> HIDE DEF w
    <3>2. Calls' \subseteq Calls  BY <2>2, <3>1 DEF Calls
    <3>3. UNCHANGED opening  BY <1>6, <2>4 DEF WriteBegin
    <3> QED  BY <2>3, <3>1, <3>2, <3>3 DEF ChainInv
  <2>5. CASE ~hasKey
    <3>1. writers' = {} /\ Settle(Head(queue))  BY <1>6, <2>1, <2>5 DEF WriteBegin
    <3>2. Calls' \subseteq Calls /\ Calls' = Queued'  BY <2>1, <2>2, <3>1 DEF Calls
    <3>3. CASE Head(queue).kind = "open"
      <4>1. \A c \in Calls' : c.kind # "open"  BY <2>3, <3>2, <3>3 DEF Queued
      <4> QED  BY <2>3, <3>1, <4>1 DEF ChainInv
    <3>4. CASE Head(queue).kind # "open"
      <4>1. UNCHANGED opening  BY <3>1, <3>4 DEF Settle
      <4> QED  BY <2>3, <3>1, <3>2, <4>1 DEF ChainInv
    <3> QED  BY <3>3, <3>4
  <2> QED  BY <2>4, <2>5
<1>7. ASSUME NEW w \in writers, writers' = writers \ {w}, Settle(w.call), UNCHANGED queue
      PROVE  ChainInv'
  <2>1. writers' = {}  BY <1>7 DEF ChainInv
  <2>2. Calls' \subseteq Calls /\ Calls' = Queued  BY <1>7, <2>1 DEF Calls, Queued
  <2>3. CASE w.call.kind = "open"
    <3>1. \A c \in Calls' : c.kind # "open"  BY <2>2, <2>3 DEF Queued, ChainInv
    <3> QED  BY <1>7, <2>1, <3>1 DEF ChainInv
  <2>4. CASE w.call.kind # "open"
    <3>1. UNCHANGED opening  BY <1>7, <2>4 DEF Settle
    <3> QED  BY <1>7, <2>1, <2>2, <3>1 DEF ChainInv
  <2> QED  BY <2>3, <2>4
<1>8. CASE WriteEnd
  BY <1>7, <1>8 DEF WriteEnd
<1>9. CASE WriteRefused
  <2>1. PICK w \in writers :
          \/ /\ writers' = (writers \ {w}) \cup {Attempt(w.call, w.generation, TRUE)}
             /\ UNCHANGED opening
          \/ GiveUp(w)
    BY <1>9 DEF WriteRefused
  <2>2. UNCHANGED queue  BY <1>9 DEF WriteRefused
  <2>3. CASE GiveUp(w)  BY <1>7, <2>2, <2>3 DEF GiveUp
  <2>4. CASE ~GiveUp(w)
    <3> DEFINE v == Attempt(w.call, w.generation, TRUE)
    <3>1. writers' = {v} /\ v.call = w.call
      BY <2>1, <2>4 DEF ChainInv, Attempt
    <3> HIDE DEF v
    <3>2. Calls' \subseteq Calls  BY <2>2, <3>1 DEF Calls, Queued
    <3> QED  BY <2>1, <2>2, <2>4, <3>1, <3>2 DEF ChainInv
  <2> QED  BY <2>3, <2>4
<1>10. CASE Crash
  BY <1>10 DEF Crash, ChainInv, Calls, Queued
<1> QED
  BY <1>1, <1>2, <1>3, <1>4, <1>5, <1>6, <1>8, <1>9, <1>10
     DEF Next, Progress, vars, SignIn, Imported, Derived, Loaded, NewSession, Evict, SealBegin, Discard
-----------------------------------------------------------------------------
(* The life of a tab. *)

LEMMA CountersGrow ==
  ASSUME TypeInv, [Next]_vars, NEW c \in Counter
  PROVE  used[c] \in Nat /\ used'[c] \in Nat /\ used[c] <= used'[c]
<1>1. used[c] \in Nat  BY Limited
<1>2. CASE UNCHANGED used  BY <1>1, <1>2
<1>3. ASSUME NEW d \in Counter, Count(d) PROVE used'[c] \in Nat /\ used[c] <= used'[c]
  BY <1>1, <1>3, CountType, Limited
<1>4. UNCHANGED used \/ \E d \in Counter : Count(d)
  BY DEF Next, vars, Progress, SignIn, Imported, Derived, Loaded, SealDone, OpenDone,
     WriteBegin, WriteEnd, NewSession, Evict, SealBegin, OpenBegin, TimerFires, Flush,
     WriteRefused, Discard, Crash, Counter
<1> QED  BY <1>1, <1>2, <1>3, <1>4

LEMMA Counted ==
  ASSUME TypeInv
  PROVE  /\ SignIn /\ Unbroken' => generation = 0
         /\ Flush /\ ~ready => used'["early"] # 0
         /\ Crash => used'["crash"] # 0
         /\ WriteRefused => used'["failure"] # 0
<1>1. ASSUME NEW c \in Counter, Count(c) PROVE used'[c] # 0
  BY <1>1, CountType, Limited
<1>2. SignIn /\ Unbroken' => generation = 0
  BY <1>1 DEF SignIn, Unbroken, Counter
<1>3. Flush /\ ~ready => used'["early"] # 0
  BY <1>1 DEF Flush, Counter
<1>4. Crash => used'["crash"] # 0
  BY <1>1 DEF Crash, Counter
<1>5. WriteRefused => used'["failure"] # 0
  BY <1>1 DEF WriteRefused, Counter
<1> QED  BY <1>2, <1>3, <1>4, <1>5

LEMMA UnbrokenBefore ==
  ASSUME TypeInv, [Next]_vars, Unbroken'
  PROVE  Unbroken
BY CountersGrow DEF Unbroken, Counter

LEMMA PhaseInit == Init => PhaseInv
BY DEF Init, PhaseInv, Down, HoldsNothing, Calls, Queued

LEMMA PhaseNext == TypeInv /\ ChainInv /\ PhaseInv /\ [Next]_vars => PhaseInv'
<1> SUFFICES ASSUME TypeInv, ChainInv, PhaseInv, [Next]_vars, Unbroken' PROVE PhaseInv'
  BY DEF PhaseInv
<1>0. /\ Down \/ Loading \/ Up \/ Off
      /\ \A w \in writers : w.generation = 1
  BY UnbrokenBefore DEF PhaseInv
<1>1. CASE SignIn
  <2>1. Down  BY <1>0, <1>1, Counted DEF Loading, Up, Off
  <2>2. /\ generation' = 1
        /\ signIns' = {[generation |-> 1, stage |-> "import", raw |-> None]}
        /\ UNCHANGED <<disk, mem, hasKey, ready, timer, queue, writers, seals, opening>>
    BY <1>1, <2>1 DEF SignIn, Down
  <2>3. HoldsNothing'  BY <2>1, <2>2 DEF Down, HoldsNothing, Calls, Queued
  <2>4. Loading'  BY <2>1, <2>2, <2>3 DEF Down, Loading
  <2> QED  BY <1>0, <2>2, <2>4 DEF PhaseInv
<1>2. CASE Imported
  <2>1. Loading  BY <1>0, <1>2 DEF Imported, Down, Up, Off
  <2>2. PICK s : signIns = {s} /\ s.generation = 1 /\ (s.stage = "decrypt" => hasKey = TRUE)
    BY <2>1 DEF Loading
  <2>3. /\ signIns' = {[s EXCEPT !.stage = "derive"]}
        /\ UNCHANGED <<mem, hasKey, ready, generation, timer, queue, writers, seals, opening>>
    BY <1>2, <2>1, <2>2 DEF Imported, Loading, Current
  <2>4. [s EXCEPT !.stage = "derive"].stage = "derive" /\ [s EXCEPT !.stage = "derive"].generation = 1
    <3>1. s \in SignInCall  BY <2>2 DEF TypeInv, TypeOK, SignInCall
    <3> QED  BY <2>2, <3>1 DEF SignInCall
  <2>5. HoldsNothing'  BY <2>1, <2>3 DEF Loading, HoldsNothing, Calls, Queued
  <2>6. Loading'  BY <2>1, <2>3, <2>4, <2>5 DEF Loading
  <2> QED  BY <1>0, <2>3, <2>6 DEF PhaseInv
<1>3. CASE Derived
  <2>1. Loading  BY <1>0, <1>3 DEF Derived, Down, Up, Off
  <2>2. PICK s : signIns = {s} /\ s.generation = 1 /\ (s.stage = "decrypt" => hasKey = TRUE)
    BY <2>1 DEF Loading
  <2>3. UNCHANGED <<mem, generation, timer, queue, writers, seals, opening>> /\ hasKey' = TRUE
    BY <1>3 DEF Derived
  <2>4. CASE disk # None
    <3>1. signIns' = {[s EXCEPT !.stage = "decrypt", !.raw = disk]} /\ UNCHANGED ready
      BY <1>3, <2>1, <2>2, <2>4 DEF Derived, Loading, Current
    <3>2. [s EXCEPT !.stage = "decrypt", !.raw = disk].generation = 1
      <4>1. s \in SignInCall  BY <2>2 DEF TypeInv, TypeOK, SignInCall
      <4> QED  BY <2>2, <4>1 DEF SignInCall
    <3>3. HoldsNothing'  BY <2>1, <2>3 DEF Loading, HoldsNothing, Calls, Queued
    <3>4. Loading'  BY <2>1, <2>3, <3>1, <3>2, <3>3 DEF Loading
    <3> QED  BY <1>0, <2>3, <3>4 DEF PhaseInv
  <2>5. CASE disk = None
    <3>1. signIns' = {} /\ ready' = TRUE
      BY <1>3, <2>1, <2>2, <2>5 DEF Derived, Loading, Current, Return
    <3>2. Up'  BY <2>1, <2>3, <3>1 DEF Loading, Up
    <3> QED  BY <1>0, <2>3, <3>2 DEF PhaseInv
  <2> QED  BY <2>4, <2>5
<1>4. CASE Loaded
  <2>1. Loading  BY <1>0, <1>4 DEF Loaded, Down, Up, Off
  <2>2. PICK s : signIns = {s} /\ s.generation = 1 /\ (s.stage = "decrypt" => hasKey = TRUE)
    BY <2>1 DEF Loading
  <2>3. signIns' = {} /\ ready' = TRUE /\ hasKey = TRUE /\ UNCHANGED <<hasKey, generation, writers>>
    BY <1>4, <2>2 DEF Loaded, Return
  <2>4. Up'  BY <2>1, <2>3 DEF Loading, Up
  <2> QED  BY <1>0, <2>3, <2>4 DEF PhaseInv
<1>5. CASE NewSession \/ Evict \/ SealBegin \/ OpenBegin
  <2>1. /\ UNCHANGED <<disk, hasKey, ready, generation, signIns, writers>>
        /\ ready = TRUE \/ mem # None
    BY <1>5 DEF NewSession, Evict, SealBegin, OpenBegin, TypeInv, TypeOK
  <2>2. Up /\ Up'  BY <1>0, <2>1 DEF Down, Loading, Up, Off, HoldsNothing
  <2> QED  BY <1>0, <2>1, <2>2 DEF PhaseInv
<1>6. CASE SealDone \/ OpenDone
  <2>1. /\ UNCHANGED <<disk, hasKey, ready, generation, signIns, writers>>
        /\ seals # {} \/ opening # None
        /\ mem = None => mem' = None
    BY <1>6 DEF SealDone, OpenDone
  <2>2. Up \/ Off  BY <1>0, <2>1 DEF Down, Loading, HoldsNothing
  <2>3. Up' \/ Off'  BY <2>1, <2>2 DEF Up, Off
  <2> QED  BY <1>0, <2>1, <2>3 DEF PhaseInv
<1>7. CASE TimerFires \/ Flush
  <2>1. /\ UNCHANGED <<disk, mem, hasKey, ready, generation, signIns, writers, seals, opening>>
        /\ timer' = FALSE /\ Enqueue(Save)
    BY <1>7 DEF TimerFires, Flush
  <2>2. Calls' = Calls \cup {Save} /\ Save.kind = "save"
    BY <2>1, Enqueued, SaveTypes DEF Calls, Save
  <2>3. HoldsNothing => HoldsNothing'  BY <2>1, <2>2 DEF HoldsNothing
  <2>4. Down' \/ Loading' \/ Up' \/ Off'
    BY <1>0, <2>1, <2>3 DEF Down, Loading, Up, Off
  <2> QED  BY <1>0, <2>1, <2>4 DEF PhaseInv
<1>8. CASE WriteBegin
  <2>1. queue # <<>> /\ queue' = Tail(queue) /\ writers = {}  BY <1>8 DEF WriteBegin, MyTurn
  <2>2. Head(queue) \in Queued /\ Queued' \subseteq Queued  BY <2>1, Dequeued
  <2>3. UNCHANGED <<mem, hasKey, ready, generation, signIns, timer, seals>>
    BY <1>8 DEF WriteBegin
  <2>4. CASE hasKey
    <3> DEFINE w == Attempt(Head(queue), generation, FALSE)
    <3>1. /\ writers' = {w} /\ UNCHANGED <<disk, opening>>
          /\ w.call = Head(queue) /\ w.snapshot = mem /\ w.generation = generation
      BY <1>8, <2>1, <2>4 DEF WriteBegin, Attempt
    <3> HIDE DEF w
    <3>2. Calls' \subseteq Calls  BY <2>2, <3>1 DEF Calls
    <3>3. HoldsNothing => HoldsNothing'  BY <2>3, <3>1, <3>2 DEF HoldsNothing
    <3>4. Loading \/ Up  BY <1>0, <2>4 DEF Down, Off
    <3>5. Loading' \/ Up'
      BY <2>3, <3>1, <3>3, <3>4 DEF Loading, Up, HoldsNothing
    <3>6. \A v \in writers' : v.generation = 1  BY <3>1, <3>4 DEF Loading, Up
    <3> QED  BY <3>5, <3>6 DEF PhaseInv
  <2>5. CASE ~hasKey
    <3>1. writers' = {} /\ disk' = None /\ Settle(Head(queue))
      BY <1>8, <2>1, <2>5 DEF WriteBegin
    <3>2. Calls' \subseteq Calls  BY <2>1, <2>2, <3>1 DEF Calls
    <3>3. HoldsNothing => HoldsNothing'
      <4> SUFFICES ASSUME HoldsNothing PROVE HoldsNothing'
        OBVIOUS
      <4>1. Head(queue).kind = "save"  BY <2>2 DEF HoldsNothing, Calls
      <4>2. UNCHANGED opening  BY <3>1, <4>1 DEF Settle
      <4> QED  BY <2>3, <3>2, <4>2 DEF HoldsNothing
    <3>4. Down \/ Loading \/ Off  BY <1>0, <2>5 DEF Up
    <3>5. Down' \/ Loading' \/ Off'
      BY <2>3, <3>1, <3>3, <3>4 DEF Down, Loading, Off
    <3> QED  BY <3>1, <3>5 DEF PhaseInv
  <2> QED  BY <2>4, <2>5
<1>9. ASSUME NEW w \in writers, writers' = writers \ {w}, Settle(w.call),
             UNCHANGED <<mem, hasKey, ready, generation, signIns, timer, queue, seals>>,
             Off => UNCHANGED disk
      PROVE  PhaseInv'
  <2>1. writers' = {} /\ Calls' \subseteq Calls  BY <1>9 DEF ChainInv, Calls, Queued
  <2>2. HoldsNothing => HoldsNothing'
    <3> SUFFICES ASSUME HoldsNothing PROVE HoldsNothing'
      OBVIOUS
    <3>1. w.call.kind = "save"  BY DEF HoldsNothing, Calls
    <3>2. UNCHANGED opening  BY <1>9, <3>1 DEF Settle
    <3> QED  BY <1>9, <2>1, <3>2 DEF HoldsNothing
  <2>3. Loading \/ Up \/ Off  BY <1>0, <1>9 DEF Down
  <2>4. Loading' \/ Up' \/ Off'  BY <1>9, <2>1, <2>2, <2>3 DEF Loading, Up, Off
  <2> QED  BY <2>1, <2>4 DEF PhaseInv
<1>10. CASE WriteEnd
  <2>1. PICK w \in writers :
          /\ writers' = writers \ {w}
          /\ disk' = IF Current(w.generation) THEN w.snapshot ELSE disk
          /\ Settle(w.call)
    BY <1>10 DEF WriteEnd
  <2>2. Off => UNCHANGED disk  BY <1>0, <2>1 DEF Off, Current
  <2> QED  BY <1>9, <1>10, <2>1, <2>2 DEF WriteEnd
<1>11. CASE WriteRefused
  <2>1. PICK w \in writers :
          /\ Current(w.generation)
          /\ \/ /\ writers' = (writers \ {w}) \cup {Attempt(w.call, w.generation, TRUE)}
                /\ UNCHANGED opening
             \/ GiveUp(w)
    BY <1>11 DEF WriteRefused
  <2>2. UNCHANGED <<disk, mem, hasKey, ready, generation, signIns, timer, queue, seals>>
    BY <1>11 DEF WriteRefused
  <2>3. CASE GiveUp(w)  BY <1>9, <2>2, <2>3 DEF GiveUp
  <2>4. CASE ~GiveUp(w)
    <3> DEFINE v == Attempt(w.call, w.generation, TRUE)
    <3>1. /\ writers' = {v} /\ v.call = w.call /\ v.snapshot = mem /\ v.generation = 1
          /\ UNCHANGED opening
      BY <1>0, <2>1, <2>4 DEF ChainInv, Attempt
    <3> HIDE DEF v
    <3>2. Calls' \subseteq Calls  BY <2>2, <3>1 DEF Calls, Queued
    <3>3. HoldsNothing => HoldsNothing'  BY <2>2, <3>1, <3>2 DEF HoldsNothing
    <3>4. Loading \/ Up  BY <1>0, <2>1 DEF Down, Off, Current
    <3>5. Loading' \/ Up'  BY <2>2, <3>1, <3>3, <3>4 DEF Loading, Up, HoldsNothing
    <3> QED  BY <3>1, <3>5 DEF PhaseInv
  <2> QED  BY <2>3, <2>4
<1>12. CASE Discard
  <2>1. Up  BY <1>0, <1>12 DEF Discard, Down, Loading, Off
  <2>2. Off' /\ UNCHANGED writers  BY <1>12, <2>1 DEF Discard, Up, Off
  <2> QED  BY <1>0, <2>2 DEF PhaseInv
<1>13. CASE Crash
  <2>1. Calls' = {}  BY <1>13 DEF Crash, Calls, Queued
  <2>2. Down' /\ writers' = {}  BY <1>13, <2>1 DEF Crash, Down, HoldsNothing
  <2> QED  BY <2>2 DEF PhaseInv
<1>14. CASE UNCHANGED vars
  BY <1>0, <1>14 DEF vars, PhaseInv, Down, Loading, Up, Off, HoldsNothing, Calls, Queued
<1> QED
  BY <1>1, <1>2, <1>3, <1>4, <1>5, <1>6, <1>7, <1>8, <1>10, <1>11, <1>12, <1>13, <1>14
     DEF Next, Progress
-----------------------------------------------------------------------------
(* The disk follows the memory. *)

LEMMA NotNone ==
  /\ \A m \in Snapshot : m # None /\ m.session \in Nat /\ m.next \in Nat /\ m.read \subseteq Bodies
  /\ \A o \in OpenCall : o # None /\ o.session \in SessionId /\ o.body \in Bodies /\ o.object \in Nat
BY NoneAssumption DEF Snapshot, OpenCall, SessionId

LEMMA NoNewerItself ==
  ASSUME NEW m \in Snapshot \cup {None}
  PROVE  NoNewer(m, m)
BY NotNone DEF NoNewer

LEMMA OrderInit == Init => OrderInv
BY DEF Init, OrderInv, OpenInv, NoNewer

LEMMA OrderNext ==
  TypeInv /\ GoneInv /\ ChainInv /\ PhaseInv /\ OrderInv /\ [Next]_vars => OrderInv'
<1> SUFFICES ASSUME TypeInv, GoneInv, ChainInv, PhaseInv, OrderInv, [Next]_vars, Unbroken'
             PROVE  OrderInv'
  BY DEF OrderInv
<1>0. /\ Down \/ Loading \/ Up \/ Off
      /\ \A w \in writers : w.generation = 1
      /\ OpenInv
      /\ NoNewer(disk, mem)
      /\ \A w \in writers : NoNewer(disk, w.snapshot) /\ NoNewer(w.snapshot, mem)
      /\ \A s \in signIns : NoNewer(disk, s.raw)
  BY UnbrokenBefore DEF PhaseInv, OrderInv
<1>t. /\ disk \in Snapshot \cup {None} /\ mem \in Snapshot \cup {None}
      /\ opening \in OpenCall \cup {None} /\ object \in Nat /\ used["session"] \in Nat
      /\ \A s \in signIns : s \in SignInCall /\ s.raw \in Snapshot \cup {None}
      /\ \A w \in writers : w \in Write /\ w.snapshot \in Snapshot \cup {None}
  BY Limited DEF TypeInv, TypeOK, Counter, SignInCall, Write
<1>u. used'["session"] = IF NewSession THEN used["session"] + 1 ELSE used["session"]
  BY SessionsCounted
<1>1. CASE SignIn
  <2>1. generation = 0  BY <1>1, Counted
  <2>2. Down  BY <1>0, <2>1 DEF Loading, Up, Off
  <2>3. /\ \A s \in signIns' : s.raw = None
        /\ mem' = None /\ opening' = None /\ writers' = {}
    BY <1>1, <2>2 DEF SignIn, Down, HoldsNothing
  <2> QED  BY <2>3 DEF OrderInv, OpenInv, NoNewer
<1>2. CASE Imported
  <2>1. UNCHANGED <<disk, mem, opening, object, writers, used>>  BY <1>2 DEF Imported
  <2>2. PICK s \in signIns : signIns' = signIns \ {s}
                             \/ signIns' = (signIns \ {s}) \cup {[s EXCEPT !.stage = "derive"]}
    BY <1>2 DEF Imported, Return
  <2>3. [s EXCEPT !.stage = "derive"].raw = s.raw  BY <1>t DEF SignInCall
  <2>4. \A t \in signIns' : NoNewer(disk, t.raw)  BY <1>0, <2>2, <2>3
  <2> QED  BY <1>0, <2>1, <2>4 DEF OrderInv, OpenInv, NoNewer
<1>3. CASE Derived
  <2>1. UNCHANGED <<disk, mem, opening, object, writers, used>>  BY <1>3 DEF Derived
  <2>2. PICK s \in signIns :
               signIns' = signIns \ {s}
               \/ signIns' = (signIns \ {s}) \cup {[s EXCEPT !.stage = "decrypt", !.raw = disk]}
    BY <1>3 DEF Derived, Return
  <2>3. [s EXCEPT !.stage = "decrypt", !.raw = disk].raw = disk  BY <1>t DEF SignInCall
  <2>4. \A t \in signIns' : NoNewer(disk, t.raw)  BY <1>0, <1>t, <2>2, <2>3, NoNewerItself
  <2> QED  BY <1>0, <2>1, <2>4 DEF OrderInv, OpenInv, NoNewer
<1>4. CASE Loaded
  <2>1. Loading  BY <1>0, <1>4 DEF Loaded, Down, Up, Off
  <2>2. PICK s \in signIns : signIns = {s} /\ s.generation = 1
    BY <2>1 DEF Loading
  <2>3. /\ mem' = s.raw /\ signIns' = {} /\ opening' = None
        /\ UNCHANGED <<disk, writers>>
    BY <1>4, <2>1, <2>2 DEF Loaded, Return, Current, Loading, HoldsNothing
  <2>4. \A w \in writers : w.snapshot = None  BY <2>1 DEF Loading
  <2>5. NoNewer(disk, s.raw)  BY <1>0
  <2> QED  BY <2>3, <2>4, <2>5 DEF OrderInv, OpenInv, NoNewer
<1>5. CASE NewSession
  <2>1. Up  BY <1>0, <1>5 DEF NewSession, Down, Loading, Off
  <2>2. /\ mem' = [session |-> used["session"] + 1, next |-> 0, read |-> {}]
        /\ object' = object + 1
        /\ UNCHANGED <<disk, signIns, writers, opening>>
        /\ used'["session"] = used["session"] + 1
    BY <1>5, <1>u DEF NewSession
  <2>3. /\ disk # None => disk.session <= used["session"]
        /\ \A w \in writers : w.snapshot # None => w.snapshot.session <= used["session"]
    BY <1>0, <2>1 DEF GoneInv, Alive, Up
  <2>4. mem'.session = used["session"] + 1  BY <2>2
  <2>5. NoNewer(disk, mem)'  BY <1>t, <2>2, <2>3, <2>4, NotNone DEF NoNewer
  <2>6. \A w \in writers : NoNewer(w.snapshot, mem')
    BY <1>t, <2>3, <2>4, NotNone DEF NoNewer
  <2>7. OpenInv'
    BY <1>0, <1>t, <2>2, <2>4, NotNone DEF OpenInv, ReadIn, SessionId
  <2> QED  BY <1>0, <2>1, <2>2, <2>5, <2>6, <2>7 DEF OrderInv, Up
<1>6. CASE Evict
  <2>1. mem' = None /\ UNCHANGED <<disk, signIns, writers, opening, object, used>>
    BY <1>6 DEF Evict
  <2> QED  BY <1>0, <2>1 DEF OrderInv, OpenInv, ReadIn, NoNewer
<1>7. CASE SealBegin
  <2>1. mem \in Snapshot  BY <1>7, <1>t DEF SealBegin
  <2>2. /\ mem' \in Snapshot /\ mem'.session = mem.session /\ mem'.read = mem.read
        /\ mem'.next = mem.next + 1
    BY <1>7, <2>1 DEF SealBegin, Snapshot
  <2>3. UNCHANGED <<disk, signIns, writers, opening, object>> /\ used'["session"] = used["session"]
    BY <1>7, <1>u DEF SealBegin, NewSession
  <2>4. \A m \in Snapshot \cup {None} : NoNewer(m, mem) => NoNewer(m, mem')
    BY <2>1, <2>2, NotNone DEF NoNewer
  <2>5. OpenInv'  BY <1>0, <2>1, <2>2, <2>3, NotNone DEF OpenInv, ReadIn
  <2> QED  BY <1>0, <1>t, <2>3, <2>4, <2>5 DEF OrderInv
<1>8. CASE SealDone \/ TimerFires \/ Flush
  <2>1. /\ UNCHANGED <<disk, mem, signIns, writers, opening, object>>
        /\ used'["session"] = used["session"]
    BY <1>8, <1>u DEF SealDone, TimerFires, Flush, NewSession
  <2> QED  BY <1>0, <2>1 DEF OrderInv, OpenInv
<1>9. CASE OpenBegin
  <2>1. mem \in Snapshot /\ UNCHANGED <<disk, mem, signIns, writers, object, used>>
    BY <1>9, <1>t DEF OpenBegin
  <2>2. /\ opening'.session = mem.session /\ opening'.object = object /\ opening'.saving = FALSE
    BY <1>9 DEF OpenBegin
  <2>3. mem.session <= used["session"]  BY <2>1, NotNone DEF GoneInv, Alive
  <2>4. OpenInv'  BY <1>t, <2>1, <2>2, <2>3 DEF OpenInv
  <2> QED  BY <1>0, <2>1, <2>4 DEF OrderInv
<1>10. CASE OpenDone
  <2>1. opening \in OpenCall /\ opening # None  BY <1>10, <1>t DEF OpenDone
  <2>2. /\ UNCHANGED <<disk, signIns, writers, object, used>>
        /\ opening' = [opening EXCEPT !.saving = TRUE]
        /\ mem' = IF mem # None /\ opening.object = object
                  THEN [mem EXCEPT !.read = @ \cup {opening.body}]
                  ELSE mem
    BY <1>10 DEF OpenDone, Opened
  <2>3. /\ opening'.session = opening.session /\ opening'.body = opening.body
        /\ opening'.object = opening.object
    BY <2>1, <2>2 DEF OpenCall
  <2>4. CASE mem # None /\ opening.object = object
    <3>1. mem \in Snapshot  BY <1>t, <2>4
    <3>2. /\ mem' \in Snapshot /\ mem'.session = mem.session /\ mem'.next = mem.next
          /\ mem'.read = mem.read \cup {opening.body}
      BY <2>1, <2>2, <2>4, <3>1 DEF Snapshot, OpenCall
    <3>3. \A m \in Snapshot \cup {None} : NoNewer(m, mem) => NoNewer(m, mem')
      BY <3>1, <3>2, NotNone DEF NoNewer
    <3>4. OpenInv'  BY <1>0, <2>1, <2>2, <2>3, <2>4, <3>1, <3>2, NotNone DEF OpenInv, ReadIn
    <3> QED  BY <1>0, <1>t, <2>2, <3>3, <3>4 DEF OrderInv
  <2>5. CASE ~(mem # None /\ opening.object = object)
    <3>1. OpenInv'  BY <1>0, <2>1, <2>2, <2>3, <2>5 DEF OpenInv, ReadIn
    <3> QED  BY <1>0, <2>2, <2>5, <3>1 DEF OrderInv
  <2> QED  BY <2>4, <2>5
<1>s. ASSUME NEW c \in Waited, Settle(c), UNCHANGED <<mem, object, used>> PROVE OpenInv'
  <2>1. opening' = None \/ opening' = opening  BY <1>s DEF Settle
  <2> QED  BY <1>0, <1>s, <2>1 DEF OpenInv
<1>11. CASE WriteBegin
  <2>1. UNCHANGED <<mem, object, signIns, used>> /\ writers = {} /\ queue # <<>> /\ queue' = Tail(queue)
    BY <1>11 DEF WriteBegin, MyTurn
  <2>2. CASE hasKey
    <3>1. /\ UNCHANGED <<disk, opening>>
          /\ \A w \in writers' : w.snapshot = mem
      BY <1>11, <2>1, <2>2 DEF WriteBegin, Attempt
    <3> QED  BY <1>0, <1>t, <2>1, <3>1, NoNewerItself DEF OrderInv, OpenInv
  <2>3. CASE ~hasKey
    <3>1. disk' = None /\ writers' = {} /\ Settle(Head(queue)) /\ Head(queue) \in Waited
      BY <1>11, <2>1, <2>3, Dequeued DEF WriteBegin
    <3> QED  BY <1>s, <2>1, <3>1 DEF OrderInv, NoNewer
  <2> QED  BY <2>2, <2>3
<1>12. CASE WriteEnd
  <2>1. PICK w \in writers :
          /\ writers' = writers \ {w}
          /\ disk' = IF Current(w.generation) THEN w.snapshot ELSE disk
          /\ Settle(w.call)
    BY <1>12 DEF WriteEnd
  <2>2. UNCHANGED <<mem, object, signIns, used>> /\ writers' = {}
    BY <1>12, <2>1 DEF WriteEnd, ChainInv
  <2>3. w.call \in Waited  BY <1>t DEF Write
  <2>4. \A s \in signIns : NoNewer(disk', s.raw)
    <3>1. CASE Loading
      <4>1. disk' = None \/ disk' = disk  BY <2>1, <3>1 DEF Loading
      <4> QED  BY <1>0, <4>1 DEF NoNewer
    <3>2. CASE ~Loading
      <4>1. signIns = {}  BY <1>0, <3>2 DEF Down, Up, Off
      <4> QED  BY <4>1
    <3> QED  BY <3>1, <3>2
  <2>5. NoNewer(disk', mem)  BY <1>0, <2>1
  <2> QED  BY <1>s, <2>1, <2>2, <2>3, <2>4, <2>5 DEF OrderInv
<1>13. CASE WriteRefused
  <2>1. PICK w \in writers :
          \/ /\ writers' = (writers \ {w}) \cup {Attempt(w.call, w.generation, TRUE)}
             /\ UNCHANGED opening
          \/ GiveUp(w)
    BY <1>13 DEF WriteRefused
  <2>2. UNCHANGED <<disk, mem, object, signIns>> /\ used'["session"] = used["session"]
    BY <1>13, <1>t, <1>u DEF WriteRefused, NewSession
  <2>3. opening' = None \/ opening' = opening  BY <2>1 DEF GiveUp, Settle
  <2>4. OpenInv'  BY <1>0, <2>2, <2>3 DEF OpenInv
  <2>5. \A v \in writers' : v \in writers \/ v.snapshot = mem
    BY <2>1 DEF GiveUp, Attempt
  <2> QED  BY <1>0, <1>t, <2>2, <2>4, <2>5, NoNewerItself DEF OrderInv
<1>14. CASE Discard
  <2>1. /\ disk' = None /\ mem' = None /\ UNCHANGED <<opening, object>>
        /\ used'["session"] = used["session"]
    BY <1>14, <1>u DEF Discard, NewSession
  <2> QED  BY <1>0, <2>1 DEF OrderInv, OpenInv, ReadIn, NoNewer
<1>15. CASE Crash
  <2>1. mem' = None /\ opening' = None /\ writers' = {} /\ signIns' = {}
    BY <1>15 DEF Crash
  <2> QED  BY <2>1 DEF OrderInv, OpenInv, NoNewer
<1>16. CASE UNCHANGED vars
  <2>1. UNCHANGED <<disk, mem, signIns, writers, opening, object, used>>  BY <1>16 DEF vars
  <2> QED  BY <1>0, <2>1 DEF OrderInv, OpenInv
<1> QED
  BY <1>1, <1>2, <1>3, <1>4, <1>5, <1>6, <1>7, <1>8, <1>9, <1>10, <1>11, <1>12, <1>13,
     <1>14, <1>15, <1>16 DEF Next, Progress
-----------------------------------------------------------------------------
(* What was handed over. *)

(* A state that holds the session of x has used the number of x. *)
SpentIn(m, x) == m # None /\ m.session = x[1] => x[2] < m.next

(* m loses nothing that was handed over: it would not give a number out    *)
(* again, nor open a body again.                                           *)
Covers(m) ==
  /\ \A x \in released : SpentIn(m, x)
  /\ \A s \in SessionId : \A b \in Bodies : returned[s][b] # 0 => ReadIn(m, s, b)

(* Nor what the call c hands over when it returns. *)
CoversCall(m, c) ==
  /\ c.kind = "seal" => SpentIn(m, c.of)
  /\ c.kind = "open" => ReadIn(m, c.of[1], c.of[2])

(* Every number taken: handed over, or on its way to be. *)
Taken == seals \cup released \cup {c.of : c \in {d \in Calls : d.kind = "seal"}}

(* No number is taken twice, and memory covers all that were and every     *)
(* body returned; the open in progress has not been returned before.       *)
MemoryInv ==
  /\ \A x, y \in Taken : x[1] = y[1] /\ x[2] = y[2] => x = y
  /\ \A x \in Taken : x[1] <= used["session"] /\ SpentIn(mem, x)
  /\ \A s \in SessionId : \A b \in Bodies :
       /\ returned[s][b] <= 1
       /\ returned[s][b] # 0 => s <= used["session"] /\ ReadIn(mem, s, b)
  /\ opening # None => returned[opening.session][opening.body] = 0

(* What a reload may bring back covers what was handed over.  A refused    *)
(* write breaks that, so it counts for nothing once one has happened: the  *)
(* first life of a tab loads nothing.                                      *)
DiskInv ==
  /\ used["failure"] = 0 => Covers(disk) /\ \A s \in signIns : Covers(s.raw)
  /\ \A w \in writers : Covers(w.snapshot) /\ CoversCall(w.snapshot, w.call)
  /\ used["crash"] = 0 /\ (Down \/ Loading) =>
       disk = None /\ \A s \in signIns : s.raw = None

HandInv == Lossless => MemoryInv /\ DiskInv

LEMMA HandInit == Init => HandInv
<1> SUFFICES ASSUME Init PROVE MemoryInv /\ DiskInv
  BY DEF HandInv
<1>1. Calls = {} /\ Taken = {}  BY DEF Init, Calls, Queued, Taken
<1>2. \A s \in SessionId : \A b \in Bodies : returned[s][b] = 0  BY DEF Init
<1> QED  BY <1>1, <1>2 DEF Init, MemoryInv, DiskInv, Covers

LEMMA LosslessBefore ==
  ASSUME TypeInv, [Next]_vars, Lossless'
  PROVE  /\ Lossless /\ Unbroken /\ Unbroken'
         /\ used'["failure"] = 0 => used["failure"] = 0
         /\ used'["crash"] = 0 => used["crash"] = 0
         /\ used["failure"] = 0 \/ used["crash"] = 0
BY CountersGrow DEF Lossless, Unbroken, Counter

(* Only a crash brings a tab down, and only SignIn takes it from there. *)
LEMMA PhaseBack ==
  ASSUME TypeInv, PhaseInv, [Next]_vars, Unbroken', ~Crash, Down' \/ Loading'
  PROVE  Down \/ Loading
<1>1. Down \/ Loading \/ Up \/ Off  BY UnbrokenBefore DEF PhaseInv
<1>2. ready' = FALSE /\ generation' <= 1 /\ generation' \in Nat  BY DEF Down, Loading
<1>3. ASSUME Up PROVE FALSE
  <2>1. ready' = FALSE /\ ready = TRUE /\ generation = 1  BY <1>2, <1>3 DEF Up
  <2>2. Discard
    BY <2>1 DEF Next, Progress, vars, SignIn, Imported, Derived, Loaded, Return, NewSession, Evict,
       SealBegin, SealDone, OpenBegin, OpenDone, TimerFires, Flush, WriteBegin, WriteEnd,
       WriteRefused
  <2> QED  BY <1>2, <2>1, <2>2 DEF Discard
<1>4. ASSUME Off PROVE FALSE
  <2>1. generation = 2 /\ ready = FALSE  BY <1>4 DEF Off
  <2>2. generation' # 2  BY <1>2
  <2>3. SignIn
    BY <2>1, <2>2 DEF Next, Progress, vars, Imported, Derived, Loaded, NewSession, Evict,
       SealBegin, SealDone, OpenBegin, OpenDone, TimerFires, Flush, WriteBegin, WriteEnd,
       WriteRefused, Discard
  <2> QED  BY <2>1, <2>3, Counted
<1> QED  BY <1>1, <1>3, <1>4

(* A state that covers what was handed over and the call that is answered  *)
(* next covers the answer.                                                 *)
LEMMA SettleCovers ==
  ASSUME TypeInv, NEW c \in Waited, Settle(c), NEW m, Covers(m), CoversCall(m, c)
  PROVE  /\ \A x \in released' : SpentIn(m, x)
         /\ \A s \in SessionId : \A b \in Bodies : returned'[s][b] # 0 => ReadIn(m, s, b)
<1>1. CASE c.kind = "save"
  BY <1>1 DEF Settle, Covers
<1>2. CASE c.kind = "seal"
  BY <1>2 DEF Settle, Covers, CoversCall
<1>3. CASE c.kind = "open"
  <2>1. c.of[1] \in SessionId /\ c.of[2] \in Bodies  BY <1>3 DEF Waited
  <2>2. CountReturn(c.of[1], c.of[2]) /\ released' = released  BY <1>3 DEF Settle
  <2> QED  BY <1>3, <2>1, <2>2, ReturnedType DEF Covers, CoversCall, TypeInv
<1> QED  BY <1>1, <1>2, <1>3 DEF Waited

(* The memory covers what was handed over and every call that waits. *)
LEMMA MemoryCovers ==
  ASSUME TypeInv, ChainInv, OpenInv, MemoryInv, NEW c \in Calls, c \in Waited
  PROVE  Covers(mem) /\ CoversCall(mem, c)
<1>1. Covers(mem)  BY DEF MemoryInv, Covers, Taken
<1>2. CASE c.kind = "open"
  <2>1. opening # None /\ opening.saving = TRUE /\ c.of = <<opening.session, opening.body>>
    BY <1>2 DEF ChainInv
  <2>2. c.of[1] = opening.session /\ c.of[2] = opening.body  BY <2>1
  <2> QED  BY <1>1, <1>2, <2>1, <2>2 DEF OpenInv, CoversCall
<1>3. CASE c.kind = "seal"
  <2>1. c.of \in Taken  BY <1>3 DEF Taken
  <2> QED  BY <1>1, <1>3, <2>1 DEF MemoryInv, CoversCall
<1> QED  BY <1>1, <1>2, <1>3 DEF CoversCall

LEMMA SettleMemory ==
  ASSUME TypeInv, ChainInv, OpenInv, MemoryInv, NEW c \in Calls, c \in Waited, Settle(c),
         UNCHANGED <<mem, seals>>, Calls' \subseteq Calls, used'["session"] = used["session"]
  PROVE  MemoryInv'
<1>0. TypeOK  BY DEF TypeInv
<1>1. Taken' \subseteq Taken  BY DEF Settle, Taken
<1>2. CASE c.kind = "open"
  <2>1. opening # None /\ opening.saving = TRUE /\ c.of = <<opening.session, opening.body>>
    BY <1>2 DEF ChainInv
  <2>2. opening \in OpenCall  BY <2>1 DEF TypeInv, TypeOK
  <2>3. opening.session \in SessionId /\ opening.body \in Bodies  BY <2>2, NotNone
  <2>4. CountReturn(opening.session, opening.body) /\ opening' = None
    BY <1>2, <2>1 DEF Settle
  <2>5. returned[opening.session][opening.body] = 0  BY <2>1 DEF MemoryInv
  <2>6. \A s \in SessionId : \A b \in Bodies :
          returned'[s][b] = IF s = opening.session /\ b = opening.body THEN 1 ELSE returned[s][b]
    BY <2>3, <2>4, <2>5, <1>0, ReturnedType
  <2>7. opening.session <= used["session"] /\ ReadIn(mem, opening.session, opening.body)
    BY <2>1 DEF OpenInv
  <2> QED  BY <1>1, <2>4, <2>6, <2>7 DEF MemoryInv
<1>3. CASE c.kind # "open"
  <2>1. UNCHANGED <<opening, returned>>  BY <1>3 DEF Settle
  <2> QED  BY <1>1, <2>1 DEF MemoryInv
<1> QED  BY <1>2, <1>3

LEMMA HandNext ==
  TypeInv /\ GoneInv /\ ChainInv /\ PhaseInv /\ OrderInv /\ HandInv /\ [Next]_vars => HandInv'
<1> SUFFICES ASSUME TypeInv, GoneInv, ChainInv, PhaseInv, OrderInv, HandInv, [Next]_vars, Lossless'
             PROVE  MemoryInv' /\ DiskInv'
  BY DEF HandInv
<1>0. /\ Down \/ Loading \/ Up \/ Off
      /\ \A w \in writers : w.generation = 1
      /\ OpenInv /\ MemoryInv /\ DiskInv
      /\ Unbroken'
  BY LosslessBefore DEF PhaseInv, OrderInv, HandInv
<1>t. /\ disk \in Snapshot \cup {None} /\ mem \in Snapshot \cup {None}
      /\ opening \in OpenCall \cup {None} /\ object \in Nat /\ used["session"] \in Nat
      /\ \A s \in signIns : s \in SignInCall /\ s.raw \in Snapshot \cup {None}
      /\ \A w \in writers : w \in Write /\ w.snapshot \in Snapshot \cup {None} /\ w.call \in Waited
      /\ Taken \subseteq SessionId \X Nat \X Message
  <2>1. Taken \subseteq SessionId \X Nat \X Message
    <3>1. \A c \in Calls : c \in Waited  BY DEF Calls, Queued, TypeInv, TypeOK
    <3>2. \A c \in Waited : c.kind = "seal" => c.of \in SessionId \X Nat \X Message
      BY DEF Waited
    <3> QED  BY <3>1, <3>2 DEF Taken, TypeInv, TypeOK
  <2> QED  BY <2>1, Limited DEF TypeInv, TypeOK, Counter, SignInCall, Write
<1>u. /\ used'["session"] = IF NewSession THEN used["session"] + 1 ELSE used["session"]
      /\ used'["failure"] = 0 => used["failure"] = 0
      /\ used'["crash"] = 0 => used["crash"] = 0
      /\ used["failure"] = 0 \/ used["crash"] = 0
      /\ (Down' \/ Loading') /\ ~Crash => Down \/ Loading
      /\ WriteRefused => used'["failure"] # 0
      /\ Crash => used'["crash"] # 0
  BY SessionsCounted, LosslessBefore, PhaseBack, Counted
<1>c. \A c \in Calls : c \in Waited  BY DEF Calls, Queued, TypeInv, TypeOK

(* The disk does not change and no call returns. *)
<1>d. ASSUME UNCHANGED <<disk, released, returned>>, ~Crash,
             \A s \in signIns' : s.raw = None \/ \E t \in signIns : s.raw = t.raw,
             \A w \in writers' : w \in writers
      PROVE  DiskInv'
  <2>1. used'["failure"] = 0 => Covers(disk)' /\ \A s \in signIns' : Covers(s.raw)'
    <3> SUFFICES ASSUME used'["failure"] = 0 PROVE Covers(disk)' /\ \A s \in signIns' : Covers(s.raw)'
      OBVIOUS
    <3>1. Covers(disk) /\ \A s \in signIns : Covers(s.raw)  BY <1>0, <1>u DEF DiskInv
    <3>2. Covers(None)  BY DEF Covers, SpentIn, ReadIn
    <3>3. \A s \in signIns' : Covers(s.raw)  BY <1>d, <3>1, <3>2
    <3> QED  BY <1>d, <3>1, <3>3 DEF Covers
  <2>2. \A w \in writers' : Covers(w.snapshot)' /\ CoversCall(w.snapshot, w.call)
    BY <1>0, <1>d DEF DiskInv, Covers
  <2>3. used'["crash"] = 0 /\ (Down' \/ Loading') =>
          disk' = None /\ \A s \in signIns' : s.raw = None
    BY <1>0, <1>u, <1>d DEF DiskInv
  <2> QED  BY <2>1, <2>2, <2>3 DEF DiskInv, CoversCall

(* No call begins or returns. *)
<1>m. ASSUME UNCHANGED <<mem, released, returned, opening>>,
             used'["session"] = used["session"], Taken' \subseteq Taken
      PROVE  MemoryInv'
  BY <1>0, <1>m DEF MemoryInv
<1>1. CASE SignIn
  <2>1. UNCHANGED <<disk, mem, released, returned, opening, seals, queue, writers>> /\ Taken' = Taken
    BY <1>1 DEF SignIn, Taken, Calls, Queued
  <2>2. ~NewSession /\ ~Crash  BY <1>t, <1>1 DEF SignIn, NewSession, Crash
  <2> QED  BY <1>d, <1>m, <1>u, <1>1, <2>1, <2>2 DEF SignIn
<1>2. CASE Imported
  <2>1. /\ UNCHANGED <<disk, mem, object, released, returned, opening, seals, queue, writers>>
        /\ Taken' = Taken
    BY <1>2 DEF Imported, Taken, Calls, Queued
  <2>2. ~NewSession /\ ~Crash  BY <1>t, <2>1 DEF NewSession, Crash
  <2>3. PICK s \in signIns : signIns' = signIns \ {s}
                             \/ signIns' = (signIns \ {s}) \cup {[s EXCEPT !.stage = "derive"]}
    BY <1>2 DEF Imported, Return
  <2>4. [s EXCEPT !.stage = "derive"].raw = s.raw  BY <1>t DEF SignInCall
  <2> QED  BY <1>d, <1>m, <1>u, <2>1, <2>2, <2>3, <2>4
<1>3. CASE Derived
  <2>1. /\ UNCHANGED <<disk, mem, object, released, returned, opening, seals, queue, writers>>
        /\ Taken' = Taken
    BY <1>3 DEF Derived, Taken, Calls, Queued
  <2>2. ~NewSession /\ ~Crash  BY <1>t, <2>1 DEF NewSession, Crash
  <2>3. MemoryInv'  BY <1>m, <1>u, <2>1, <2>2
  <2>4. CASE disk = None
    <3>1. \A s \in signIns' : s \in signIns  BY <1>3, <2>4 DEF Derived, Return
    <3> QED  BY <1>d, <2>1, <2>2, <2>3, <3>1
  <2>5. CASE disk # None
    <3>1. PICK s \in signIns :
                 signIns' = signIns \ {s}
                 \/ signIns' = (signIns \ {s}) \cup {[s EXCEPT !.stage = "decrypt", !.raw = disk]}
      BY <1>3 DEF Derived, Return
    <3>2. [s EXCEPT !.stage = "decrypt", !.raw = disk].raw = disk  BY <1>t DEF SignInCall
    <3>3. \A t \in signIns' : t \in signIns \/ t.raw = disk  BY <3>1, <3>2
    <3>4. Loading  BY <1>0, <3>1 DEF Down, Up, Off
    <3>5. used["crash"] # 0  BY <1>0, <2>5, <3>4 DEF DiskInv
    <3>6. used'["crash"] # 0  BY <1>u, <3>5
    <3>7. used'["failure"] = 0 => Covers(disk)' /\ \A t \in signIns' : Covers(t.raw)'
      BY <1>0, <1>u, <2>1, <3>3 DEF DiskInv, Covers
    <3>8. \A w \in writers' : Covers(w.snapshot)' /\ CoversCall(w.snapshot, w.call)
      BY <1>0, <2>1 DEF DiskInv, Covers
    <3>9. DiskInv'  BY <3>6, <3>7, <3>8 DEF DiskInv, CoversCall
    <3> QED  BY <2>3, <3>9
  <2> QED  BY <2>4, <2>5
<1>4. CASE Loaded
  <2>1. Loading  BY <1>0, <1>4 DEF Loaded, Down, Up, Off
  <2>2. PICK s \in signIns : signIns = {s} /\ s.generation = 1
    BY <2>1 DEF Loading
  <2>3. /\ mem' = s.raw /\ signIns' = {} /\ opening' = None
        /\ UNCHANGED <<disk, writers, released, returned, seals, queue, used>>
    BY <1>4, <2>1, <2>2 DEF Loaded, Return, Current, Loading, HoldsNothing
  <2>4. Taken' = Taken /\ Taken = released
    BY <2>1, <2>3 DEF Loading, HoldsNothing, Taken, Calls, Queued
  <2>5. Covers(s.raw)
    <3>1. CASE used["failure"] = 0  BY <1>0, <3>1 DEF DiskInv
    <3>2. CASE used["crash"] = 0
      <4>1. s.raw = None  BY <1>0, <2>1, <3>2 DEF DiskInv
      <4> QED  BY <4>1 DEF Covers, SpentIn, ReadIn
    <3> QED  BY <1>u, <3>1, <3>2
  <2>6. MemoryInv'
    BY <1>0, <2>3, <2>4, <2>5 DEF MemoryInv, Covers
  <2>7. ~Crash  BY <1>4 DEF Loaded, Return, Crash
  <2>8. DiskInv'  BY <1>d, <2>3, <2>7
  <2> QED  BY <2>6, <2>8
<1>5. CASE NewSession
  <2>1. /\ mem' = [session |-> used["session"] + 1, next |-> 0, read |-> {}]
        /\ UNCHANGED <<disk, signIns, writers, opening, released, returned, seals, queue>>
        /\ used'["session"] = used["session"] + 1
        /\ ready' = TRUE
    BY <1>5, <1>u DEF NewSession, TypeInv, TypeOK
  <2>2. Taken' = Taken  BY <2>1 DEF Taken, Calls, Queued
  <2>3. ~Crash  BY <2>1 DEF Crash
  <2>4. mem'.session = used["session"] + 1  BY <2>1
  <2>5. \A x \in Taken : x[1] \in Nat /\ x[1] <= used["session"]
    BY <1>0, <1>t DEF MemoryInv, SessionId
  <2>6. \A x \in Taken' : x[1] <= used'["session"] /\ SpentIn(mem', x)
    BY <1>t, <2>1, <2>2, <2>4, <2>5 DEF SpentIn
  <2>7. \A s \in SessionId : \A b \in Bodies :
          returned[s][b] # 0 => s <= used'["session"] /\ ReadIn(mem', s, b)
    BY <1>0, <1>t, <2>1, <2>4 DEF MemoryInv, ReadIn, SessionId
  <2>8. MemoryInv'  BY <1>0, <2>1, <2>2, <2>6, <2>7 DEF MemoryInv
  <2> QED  BY <1>d, <2>1, <2>3, <2>8
<1>6. CASE Evict
  <2>1. /\ mem' = None /\ UNCHANGED <<object, disk, signIns, writers, opening, released, returned, seals, queue, used>>
        /\ Taken' = Taken
    BY <1>6 DEF Evict, Taken, Calls, Queued
  <2>2. ~Crash  BY <1>t, <2>1 DEF Crash
  <2>3. MemoryInv'  BY <1>0, <2>1 DEF MemoryInv, SpentIn, ReadIn
  <2> QED  BY <1>d, <2>1, <2>2, <2>3
<1>7. CASE SealBegin
  <2> DEFINE x == <<mem.session, mem.next, used["send"] + 1>>
  <2>1. mem \in Snapshot /\ mem.session \in Nat /\ mem.next \in Nat
    BY <1>7, <1>t, NotNone DEF SealBegin
  <2>2. /\ mem' \in Snapshot /\ mem'.session = mem.session /\ mem'.read = mem.read
        /\ mem'.next = mem.next + 1
    BY <1>7, <2>1 DEF SealBegin, Snapshot
  <2>3. /\ UNCHANGED <<disk, object, signIns, writers, opening, released, returned, queue>>
        /\ seals' = seals \cup {x}
    BY <1>7 DEF SealBegin
  <2>4. ~NewSession /\ ~Crash  BY <1>t, <2>3 DEF NewSession, Crash
  <2>5. Taken' = Taken \cup {x}  BY <2>3 DEF Taken, Calls, Queued
  <2>6. x[1] = mem.session /\ x[2] = mem.next /\ x[1] <= used["session"]
    BY <2>1, NotNone DEF GoneInv, Alive
  <2> HIDE DEF x
  <2>7. \A y \in Taken : x[1] = y[1] => y[2] < x[2] /\ y[2] \in Nat
    BY <1>0, <1>t, <2>1, <2>6, NotNone DEF MemoryInv, SpentIn
  <2>8. \A y, z \in Taken' : y[1] = z[1] /\ y[2] = z[2] => y = z
    BY <1>0, <2>1, <2>5, <2>6, <2>7 DEF MemoryInv
  <2>9. \A y \in Taken : SpentIn(mem', y)
    BY <1>0, <1>t, <2>1, <2>2, NotNone DEF MemoryInv, SpentIn
  <2>10. SpentIn(mem', x)  BY <2>1, <2>2, <2>6 DEF SpentIn
  <2>11. \A s \in SessionId : \A b \in Bodies : ReadIn(mem, s, b) => ReadIn(mem', s, b)
    BY <2>1, <2>2, NotNone DEF ReadIn
  <2>12. MemoryInv'
    BY <1>0, <1>u, <2>3, <2>4, <2>5, <2>6, <2>8, <2>9, <2>10, <2>11 DEF MemoryInv
  <2> QED  BY <1>d, <2>3, <2>4, <2>12
<1>8. CASE SealDone
  <2>1. PICK x \in seals : seals' = seals \ {x} /\ Enqueue(SaveFor("seal", x))
    BY <1>8 DEF SealDone, Sealed
  <2>2. UNCHANGED <<disk, mem, object, signIns, writers, opening, released, returned>>
    BY <1>8, <2>1 DEF SealDone, Sealed
  <2>3. ~NewSession /\ ~Crash  BY <1>t, <2>2 DEF NewSession, Crash
  <2>4. x \in SessionId \X Nat \X Message  BY DEF TypeInv, TypeOK
  <2>5. Calls' = Calls \cup {SaveFor("seal", x)}
    BY <2>1, <2>2, <2>4, SaveTypes, Enqueued DEF Calls
  <2>6. Taken' \subseteq Taken  BY <2>1, <2>2, <2>5 DEF Taken, SaveFor
  <2> QED  BY <1>d, <1>m, <1>u, <2>2, <2>3, <2>6
<1>9. CASE OpenBegin
  <2>1. PICK b \in Bodies \ mem.read :
          opening' = [session |-> mem.session, body |-> b, object |-> object, saving |-> FALSE]
    BY <1>9 DEF OpenBegin
  <2>2. /\ mem \in Snapshot
        /\ UNCHANGED <<disk, mem, object, signIns, writers, released, returned, seals, queue, used>>
        /\ Taken' = Taken
    BY <1>9, <1>t DEF OpenBegin, Taken, Calls, Queued
  <2>3. ~Crash  BY <1>t, <2>2 DEF Crash
  <2>4. mem.session \in SessionId  BY <2>2 DEF Snapshot
  <2>5. opening'.session = mem.session /\ opening'.body = b  BY <2>1
  <2>6. ~ReadIn(mem, mem.session, b)  BY <2>1, <2>2, NotNone DEF ReadIn
  <2>7. returned[mem.session][b] = 0  BY <1>0, <2>1, <2>4, <2>6 DEF MemoryInv
  <2>8. MemoryInv'  BY <1>0, <2>2, <2>5, <2>7 DEF MemoryInv
  <2> QED  BY <1>d, <2>2, <2>3, <2>8
<1>10. CASE OpenDone
  <2> DEFINE c == SaveFor("open", <<opening.session, opening.body>>)
  <2>1. opening \in OpenCall /\ opening # None  BY <1>10, <1>t DEF OpenDone
  <2>2. /\ UNCHANGED <<disk, signIns, writers, object, used, released, returned, seals>>
        /\ opening' = [opening EXCEPT !.saving = TRUE]
        /\ Enqueue(c)
        /\ mem' = IF mem # None /\ opening.object = object
                  THEN [mem EXCEPT !.read = @ \cup {opening.body}]
                  ELSE mem
    BY <1>10 DEF OpenDone, Opened
  <2>3. opening'.session = opening.session /\ opening'.body = opening.body
    BY <2>1, <2>2 DEF OpenCall
  <2>4. ~Crash  BY <1>t, <2>2 DEF Crash
  <2>5. <<opening.session, opening.body>> \in SessionId \X Bodies  BY <2>1 DEF OpenCall
  <2>6. c \in Waited /\ c.kind = "open"  BY <2>5, SaveTypes DEF SaveFor
  <2> HIDE DEF c
  <2>7. Calls' = Calls \cup {c}  BY <2>2, <2>6, Enqueued DEF Calls
  <2>8. Taken' = Taken  BY <2>2, <2>6, <2>7 DEF Taken
  <2>9. /\ \A x \in Taken : SpentIn(mem, x) => SpentIn(mem', x)
        /\ \A s \in SessionId : \A b \in Bodies : ReadIn(mem, s, b) => ReadIn(mem', s, b)
    <3>1. CASE mem # None /\ opening.object = object
      <4>1. mem \in Snapshot  BY <1>t, <3>1
      <4>2. /\ mem' # None /\ mem'.session = mem.session /\ mem'.next = mem.next
            /\ mem'.read = mem.read \cup {opening.body}
        <5>1. [mem EXCEPT !.read = @ \cup {opening.body}] \in Snapshot
          BY <2>1, <4>1 DEF Snapshot, OpenCall
        <5> QED  BY <2>2, <3>1, <4>1, <5>1, NotNone DEF Snapshot
      <4> QED  BY <3>1, <4>2 DEF SpentIn, ReadIn
    <3>2. CASE ~(mem # None /\ opening.object = object)
      BY <2>2, <3>2
    <3> QED  BY <3>1, <3>2
  <2>10. MemoryInv'  BY <1>0, <2>1, <2>2, <2>3, <2>8, <2>9 DEF MemoryInv
  <2> QED  BY <1>d, <2>2, <2>4, <2>10
<1>11. CASE TimerFires \/ Flush
  <2>1. /\ UNCHANGED <<disk, mem, object, signIns, writers, opening, released, returned, seals>>
        /\ Enqueue(Save)
    BY <1>11 DEF TimerFires, Flush
  <2>2. ~NewSession /\ ~Crash  BY <1>t, <2>1 DEF NewSession, Crash
  <2>3. Calls' = Calls \cup {Save} /\ Save.kind = "save"
    BY <2>1, SaveTypes, Enqueued DEF Calls, Save
  <2>4. Taken' = Taken  BY <2>1, <2>3 DEF Taken
  <2> QED  BY <1>d, <1>m, <1>u, <2>1, <2>2, <2>4
<1>12. CASE WriteBegin
  <2>1. /\ UNCHANGED <<mem, object, signIns, used, seals>> /\ writers = {}
        /\ queue # <<>> /\ queue' = Tail(queue)
    BY <1>12 DEF WriteBegin, MyTurn
  <2>2. /\ Head(queue) \in Calls /\ Head(queue) \in Waited
        /\ Queued' \subseteq Queued
    BY <2>1, Dequeued DEF Calls
  <2>3. ~Crash  BY <1>t, <2>1 DEF Crash
  <2>4. Covers(mem) /\ CoversCall(mem, Head(queue))
    BY <1>0, <2>2, MemoryCovers
  <2>5. CASE hasKey
    <3> DEFINE w == Attempt(Head(queue), generation, FALSE)
    <3>1. /\ writers' = {w} /\ UNCHANGED <<disk, opening, released, returned>>
          /\ w.call = Head(queue) /\ w.snapshot = mem
      BY <1>12, <2>1, <2>5 DEF WriteBegin, Attempt
    <3> HIDE DEF w
    <3>2. Calls' \subseteq Calls  BY <2>1, <2>2, <3>1 DEF Calls
    <3>3. Taken' \subseteq Taken  BY <2>1, <3>1, <3>2 DEF Taken
    <3>4. MemoryInv'  BY <1>m, <2>1, <3>1, <3>3
    <3>5. used'["failure"] = 0 => Covers(disk)' /\ \A s \in signIns' : Covers(s.raw)'
      BY <1>0, <2>1, <3>1 DEF DiskInv, Covers
    <3>6. \A v \in writers' : Covers(v.snapshot)' /\ CoversCall(v.snapshot, v.call)
      BY <2>4, <3>1 DEF Covers
    <3>7. used'["crash"] = 0 /\ (Down' \/ Loading') =>
            disk' = None /\ \A s \in signIns' : s.raw = None
      BY <1>0, <1>u, <2>1, <2>3, <3>1 DEF DiskInv
    <3>8. DiskInv'  BY <3>5, <3>6, <3>7 DEF DiskInv, CoversCall
    <3> QED  BY <3>4, <3>8
  <2>6. CASE ~hasKey
    <3>1. disk' = None /\ writers' = {} /\ Settle(Head(queue))
      BY <1>12, <2>1, <2>6 DEF WriteBegin
    <3>2. Calls' \subseteq Calls  BY <2>1, <2>2, <3>1 DEF Calls
    <3>3. MemoryInv'  BY <1>0, <2>1, <2>2, <3>1, <3>2, SettleMemory
    <3>4. used'["failure"] = 0 => Covers(disk)' /\ \A s \in signIns' : Covers(s.raw)'
      <4>1. Covers(disk)'  BY <3>1 DEF Covers, SpentIn, ReadIn
      <4>2. CASE Loading
        <5>1. Head(queue).kind = "save"  BY <2>2, <4>2 DEF Loading, HoldsNothing
        <5>2. UNCHANGED <<released, returned>>  BY <3>1, <5>1 DEF Settle
        <5> QED  BY <1>0, <2>1, <4>1, <5>2 DEF DiskInv, Covers
      <4>3. CASE ~Loading
        <5>1. signIns = {}  BY <1>0, <4>3 DEF Down, Up, Off
        <5> QED  BY <2>1, <4>1, <5>1
      <4> QED  BY <4>2, <4>3
    <3>5. used'["crash"] = 0 /\ (Down' \/ Loading') =>
            disk' = None /\ \A s \in signIns' : s.raw = None
      BY <1>0, <1>u, <2>1, <2>3, <3>1 DEF DiskInv
    <3>6. DiskInv'  BY <3>1, <3>4, <3>5 DEF DiskInv
    <3> QED  BY <3>3, <3>6
  <2> QED  BY <2>5, <2>6
<1>13. CASE WriteEnd
  <2>1. PICK w \in writers :
          /\ writers' = writers \ {w}
          /\ disk' = IF Current(w.generation) THEN w.snapshot ELSE disk
          /\ Settle(w.call)
    BY <1>13 DEF WriteEnd
  <2>2. UNCHANGED <<mem, object, signIns, used, seals, queue>> /\ writers' = {}
    BY <1>13, <2>1 DEF WriteEnd, ChainInv
  <2>3. ~Crash  BY <1>t, <2>2 DEF Crash
  <2>4. w.call \in Calls /\ w.call \in Waited /\ Calls' \subseteq Calls
    BY <1>t, <2>2 DEF Calls, Queued
  <2>5. MemoryInv'  BY <1>0, <2>1, <2>2, <2>4, SettleMemory
  <2>6. Covers(disk)'
    <3>1. CASE Current(w.generation)
      <4>1. Covers(w.snapshot) /\ CoversCall(w.snapshot, w.call)  BY <1>0 DEF DiskInv
      <4> QED  BY <2>1, <2>4, <3>1, <4>1, SettleCovers DEF Covers
    <3>2. CASE ~Current(w.generation)
      <4>1. Off  BY <1>0, <3>2 DEF Current, Down, Loading, Up
      <4>2. disk' = None  BY <2>1, <3>2, <4>1 DEF Off
      <4> QED  BY <4>2 DEF Covers, SpentIn, ReadIn
    <3> QED  BY <3>1, <3>2
  <2>7. used'["failure"] = 0 => \A s \in signIns' : Covers(s.raw)'
    <3>1. CASE Loading
      <4>1. w.call.kind = "save"  BY <2>4, <3>1 DEF Loading, HoldsNothing
      <4>2. UNCHANGED <<released, returned>>  BY <2>1, <4>1 DEF Settle
      <4> QED  BY <1>0, <2>2, <4>2 DEF DiskInv, Covers
    <3>2. CASE ~Loading
      <4>1. signIns = {}  BY <1>0, <3>2 DEF Down, Up, Off
      <4> QED  BY <2>2, <4>1
    <3> QED  BY <3>1, <3>2
  <2>8. used'["crash"] = 0 /\ (Down' \/ Loading') =>
          disk' = None /\ \A s \in signIns' : s.raw = None
    <3> SUFFICES ASSUME used'["crash"] = 0, Down' \/ Loading'
                 PROVE  disk' = None /\ \A s \in signIns' : s.raw = None
      OBVIOUS
    <3>1. (Down \/ Loading) /\ used["crash"] = 0  BY <1>u, <2>3
    <3>2. disk = None /\ \A s \in signIns : s.raw = None  BY <1>0, <3>1 DEF DiskInv
    <3>3. w.snapshot = None  BY <3>1 DEF Down, Loading
    <3> QED  BY <2>1, <2>2, <3>2, <3>3
  <2>9. DiskInv'  BY <2>2, <2>6, <2>7, <2>8 DEF DiskInv
  <2> QED  BY <2>5, <2>9
<1>14. CASE WriteRefused
  <2>1. PICK w \in writers :
          \/ /\ writers' = (writers \ {w}) \cup {Attempt(w.call, w.generation, TRUE)}
             /\ UNCHANGED <<released, returned, opening>>
          \/ GiveUp(w)
    BY <1>14 DEF WriteRefused
  <2>2. UNCHANGED <<disk, mem, object, signIns, queue, seals>>  BY <1>14 DEF WriteRefused
  <2>3. ~Crash /\ ~NewSession  BY <1>t, <2>2 DEF Crash, NewSession
  <2>4. w.call \in Calls /\ w.call \in Waited  BY <1>t DEF Calls
  <2>5. used'["failure"] # 0  BY <1>14, <1>u
  <2>6. used'["crash"] = 0 /\ (Down' \/ Loading') =>
          disk' = None /\ \A s \in signIns' : s.raw = None
    BY <1>0, <1>u, <2>2, <2>3 DEF DiskInv
  <2>7. CASE GiveUp(w)
    <3>1. writers' = {} /\ Settle(w.call)  BY <2>7 DEF GiveUp, ChainInv
    <3>2. Calls' \subseteq Calls  BY <2>2, <3>1 DEF Calls, Queued
    <3>3. MemoryInv'  BY <1>0, <1>u, <2>2, <2>3, <2>4, <3>1, <3>2, SettleMemory
    <3>4. DiskInv'  BY <2>5, <2>6, <3>1 DEF DiskInv
    <3> QED  BY <3>3, <3>4
  <2>8. CASE ~GiveUp(w)
    <3> DEFINE v == Attempt(w.call, w.generation, TRUE)
    <3>1. /\ writers' = {v} /\ v.call = w.call /\ v.snapshot = mem
          /\ UNCHANGED <<released, returned, opening>>
      BY <2>1, <2>8 DEF ChainInv, Attempt
    <3> HIDE DEF v
    <3>2. Calls' \subseteq Calls  BY <2>2, <3>1 DEF Calls, Queued
    <3>3. Taken' \subseteq Taken  BY <2>2, <3>1, <3>2 DEF Taken
    <3>4. MemoryInv'  BY <1>m, <1>u, <2>2, <2>3, <3>1, <3>3
    <3>5. Covers(mem) /\ CoversCall(mem, w.call)  BY <1>0, <2>4, MemoryCovers
    <3>6. \A x \in writers' : Covers(x.snapshot)' /\ CoversCall(x.snapshot, x.call)
      BY <3>1, <3>5 DEF Covers
    <3>7. DiskInv'  BY <2>5, <2>6, <3>6 DEF DiskInv, CoversCall
    <3> QED  BY <3>4, <3>7
  <2> QED  BY <2>7, <2>8
<1>15. CASE Discard
  <2>1. /\ disk' = None /\ mem' = None
        /\ UNCHANGED <<object, signIns, queue, writers, seals, opening, released, returned>>
    BY <1>15 DEF Discard
  <2>2. ~Crash /\ ~NewSession  BY <1>t, <2>1 DEF Crash, NewSession
  <2>3. Taken' = Taken  BY <2>1 DEF Taken, Calls, Queued
  <2>4. MemoryInv'  BY <1>0, <1>u, <2>1, <2>2, <2>3 DEF MemoryInv, SpentIn, ReadIn
  <2>5. signIns = {}  BY <1>0, <1>15 DEF Discard, Down, Loading, Up, Off
  <2>6. Covers(disk)'  BY <2>1 DEF Covers, SpentIn, ReadIn
  <2>7. \A w \in writers' : Covers(w.snapshot)' /\ CoversCall(w.snapshot, w.call)
    BY <1>0, <2>1 DEF DiskInv, Covers
  <2>8. DiskInv'  BY <2>1, <2>5, <2>6, <2>7 DEF DiskInv, CoversCall
  <2> QED  BY <2>4, <2>8
<1>16. CASE Crash
  <2>1. /\ mem' = None /\ opening' = None /\ writers' = {} /\ signIns' = {} /\ seals' = {}
        /\ UNCHANGED <<disk, released, returned>>
    BY <1>16 DEF Crash
  <2>2. ~NewSession  BY <1>16 DEF Crash, NewSession
  <2>3. Calls' = {}  BY <1>16 DEF Crash, Calls, Queued
  <2>4. Taken' \subseteq Taken  BY <2>1, <2>3 DEF Taken
  <2>5. MemoryInv'  BY <1>0, <1>u, <2>1, <2>2, <2>4 DEF MemoryInv, SpentIn, ReadIn
  <2>6. used'["failure"] = 0 => Covers(disk)'  BY <1>0, <1>u, <2>1 DEF DiskInv, Covers
  <2>7. DiskInv'  BY <1>u, <1>16, <2>1, <2>6 DEF DiskInv
  <2> QED  BY <2>5, <2>7
<1>17. CASE UNCHANGED vars
  <2>1. UNCHANGED <<disk, mem, object, signIns, queue, writers, seals, opening, released, returned, used>>
    BY <1>17 DEF vars
  <2>2. ~Crash  BY <1>t, <2>1 DEF Crash
  <2>3. Taken' = Taken  BY <2>1 DEF Taken, Calls, Queued
  <2> QED  BY <1>d, <1>m, <2>1, <2>2, <2>3
<1> QED
  BY <1>1, <1>2, <1>3, <1>4, <1>5, <1>6, <1>7, <1>8, <1>9, <1>10, <1>11, <1>12, <1>13,
     <1>14, <1>15, <1>16, <1>17 DEF Next, Progress
-----------------------------------------------------------------------------
(* Nothing pending, everything saved. *)

(* The disk is behind only if a save is on its way that will read the      *)
(* memory as it is, or later; the write in flight may itself be the last.  *)
SavedOrPending ==
  \/ timer = TRUE \/ queue # <<>> \/ seals # {}
  \/ writers = {} /\ disk = mem
  \/ \E w \in writers : w.snapshot = mem

QuietInv ==
  Unbroken /\ used["failure"] = 0 /\ used["early"] = 0 =>
    /\ Down \/ Loading => queue = <<>> /\ writers = {}
    /\ \A s \in signIns : s.stage = "decrypt" => s.raw = disk
    /\ Up => SavedOrPending

LEMMA QuietInit == Init => QuietInv
BY DEF Init, QuietInv, Up

LEMMA QuietNext ==
  TypeInv /\ GoneInv /\ ChainInv /\ PhaseInv /\ QuietInv /\ [Next]_vars => QuietInv'
<1> SUFFICES ASSUME TypeInv, GoneInv, ChainInv, PhaseInv, QuietInv, [Next]_vars,
                    Unbroken', used'["failure"] = 0, used'["early"] = 0
             PROVE  QuietInv'
  BY DEF QuietInv
<1>0. /\ Down \/ Loading \/ Up \/ Off
      /\ \A w \in writers : w.generation = 1
      /\ Down \/ Loading => queue = <<>> /\ writers = {}
      /\ \A s \in signIns : s.stage = "decrypt" => s.raw = disk
      /\ Up => SavedOrPending
  BY UnbrokenBefore, CountersGrow DEF PhaseInv, QuietInv, Counter
<1>p. (Down' \/ Loading') /\ ~Crash => Down \/ Loading
  BY PhaseBack
<1>t. /\ \A s \in signIns : s \in SignInCall
      /\ object \in Nat
  BY DEF TypeInv, TypeOK, SignInCall
<1>1. CASE SignIn
  <2>1. generation = 0 /\ Down  BY <1>0, <1>1, Counted DEF Loading, Up, Off
  <2>2. /\ queue' = <<>> /\ writers' = {} /\ ready' = FALSE
        /\ \A s \in signIns' : s.stage = "import"
    BY <1>0, <1>1, <2>1 DEF SignIn, Down
  <2> QED  BY <2>2 DEF QuietInv, Up
<1>2. CASE Imported \/ Derived \/ Loaded
  <2>1. Loading  BY <1>0, <1>2 DEF Imported, Derived, Loaded, Down, Up, Off
  <2>2. PICK s : signIns = {s} /\ s.generation = 1
    BY <2>1 DEF Loading
  <2>3. queue' = <<>> /\ writers' = {} /\ UNCHANGED disk
    BY <1>0, <1>2, <2>1 DEF Imported, Derived, Loaded
  <2>4. CASE Imported
    <3>1. signIns' = {[s EXCEPT !.stage = "derive"]} /\ UNCHANGED ready
      BY <2>1, <2>2, <2>4 DEF Imported, Loading, Current
    <3>2. [s EXCEPT !.stage = "derive"].stage = "derive"
      BY <1>t, <2>2 DEF SignInCall
    <3> QED  BY <2>1, <2>3, <3>1, <3>2 DEF QuietInv, Loading, Up
  <2>5. CASE Derived /\ disk # None
    <3>1. signIns' = {[s EXCEPT !.stage = "decrypt", !.raw = disk]} /\ UNCHANGED ready
      BY <2>1, <2>2, <2>5 DEF Derived, Loading, Current
    <3>2. [s EXCEPT !.stage = "decrypt", !.raw = disk].raw = disk
      BY <1>t, <2>2 DEF SignInCall
    <3> QED  BY <2>1, <2>3, <3>1, <3>2 DEF QuietInv, Loading, Up
  <2>6. CASE Derived /\ disk = None
    <3>1. signIns' = {} /\ mem' = disk'
      BY <2>1, <2>2, <2>6 DEF Derived, Loading, Current, Return, HoldsNothing
    <3> QED  BY <2>3, <3>1 DEF QuietInv, SavedOrPending
  <2>7. CASE Loaded
    <3>1. signIns' = {} /\ mem' = disk'
      BY <1>0, <2>1, <2>2, <2>7 DEF Loaded, Loading, Current, Return
    <3> QED  BY <2>3, <3>1 DEF QuietInv, SavedOrPending
  <2> QED  BY <1>2, <2>4, <2>5, <2>6, <2>7
<1>3. CASE NewSession \/ Evict \/ SealBegin \/ OpenBegin
  <2>1. /\ UNCHANGED <<disk, ready, signIns, queue, writers>>
        /\ ready = TRUE \/ mem # None
    BY <1>3 DEF NewSession, Evict, SealBegin, OpenBegin, TypeInv, TypeOK
  <2>2. Up  BY <1>0, <2>1 DEF Down, Loading, Off, HoldsNothing
  <2>3. ready' = TRUE /\ signIns' = {}  BY <2>1, <2>2 DEF Up
  <2>4. SavedOrPending'
    <3>1. CASE NewSession \/ Evict  BY <3>1 DEF NewSession, Evict, Debounced, SavedOrPending
    <3>2. CASE SealBegin  BY <3>2 DEF SealBegin, SavedOrPending
    <3>3. CASE OpenBegin  BY <1>0, <2>2, <3>3 DEF OpenBegin, SavedOrPending
    <3> QED  BY <1>3, <3>1, <3>2, <3>3
  <2> QED  BY <2>3, <2>4 DEF QuietInv, Down, Loading
<1>4. CASE SealDone \/ OpenDone \/ TimerFires \/ Flush
  <2>1. UNCHANGED <<disk, ready, generation, signIns, writers>>
    BY <1>4 DEF SealDone, OpenDone, TimerFires, Flush
  <2>2. queue' # <<>>
    <3>1. ASSUME NEW c, Enqueue(c) PROVE queue' # <<>>
      BY <3>1 DEF Enqueue, TypeInv, TypeOK
    <3> QED  BY <1>4, <3>1 DEF SealDone, Sealed, OpenDone, Opened, TimerFires, Flush
  <2>3. Up \/ Off
    <3>1. SealDone \/ OpenDone => seals # {} \/ opening # None  BY DEF SealDone, OpenDone
    <3>2. TimerFires => timer # FALSE  BY DEF TimerFires
    <3>3. Flush => ready = TRUE  BY Counted DEF TypeInv, TypeOK
    <3> QED  BY <1>0, <1>4, <3>1, <3>2, <3>3 DEF Down, Loading, HoldsNothing
  <2>4. signIns' = {} /\ ~(Down' \/ Loading')  BY <2>1, <2>3 DEF Up, Off, Down, Loading
  <2> QED  BY <2>2, <2>4 DEF QuietInv, SavedOrPending
<1>5. CASE WriteBegin
  <2>1. Up \/ Off  BY <1>0, <1>5 DEF WriteBegin
  <2>2. UNCHANGED <<mem, ready, generation, signIns>>  BY <1>5 DEF WriteBegin
  <2>3. CASE Up
    <3> DEFINE w == Attempt(Head(queue), generation, FALSE)
    <3>1. w \in writers' /\ w.snapshot = mem'
      BY <1>5, <2>2, <2>3 DEF WriteBegin, Attempt, Up
    <3> HIDE DEF w
    <3> QED  BY <2>2, <2>3, <3>1 DEF QuietInv, SavedOrPending, Up, Down, Loading
  <2>4. CASE Off
    BY <2>2, <2>4 DEF QuietInv, Up, Off, Down, Loading
  <2> QED  BY <2>1, <2>3, <2>4
<1>6. CASE WriteEnd
  <2>1. PICK w \in writers :
          /\ writers' = writers \ {w}
          /\ disk' = IF Current(w.generation) THEN w.snapshot ELSE disk
    BY <1>6 DEF WriteEnd
  <2>2. /\ UNCHANGED <<mem, ready, generation, signIns, timer, queue, seals>>
        /\ writers' = {} /\ writers = {w}
    BY <1>6, <2>1 DEF WriteEnd, ChainInv
  <2>3. Up \/ Off  BY <1>0, <2>1
  <2>4. CASE Up
    <3>1. disk' = w.snapshot  BY <1>0, <2>1, <2>4 DEF Current, Up
    <3>2. SavedOrPending'  BY <1>0, <2>2, <2>4, <3>1 DEF SavedOrPending
    <3> QED  BY <2>2, <2>4, <3>2 DEF QuietInv, Up, Down, Loading
  <2>5. CASE Off
    BY <2>2, <2>5 DEF QuietInv, Up, Off, Down, Loading
  <2> QED  BY <2>3, <2>4, <2>5
<1>7. CASE WriteRefused
  BY <1>7, Counted
<1>8. CASE Discard
  <2>1. Up  BY <1>0, <1>8 DEF Discard, Down, Loading, Off
  <2>2. signIns' = {} /\ generation' = 2  BY <1>8, <2>1 DEF Discard, Up
  <2> QED  BY <2>2 DEF QuietInv, Up, Down, Loading
<1>9. CASE Crash
  <2>1. signIns' = {} /\ generation' = 0 /\ queue' = <<>> /\ writers' = {}  BY <1>9 DEF Crash
  <2> QED  BY <2>1 DEF QuietInv, Up
<1>10. CASE UNCHANGED vars
  <2>1. UNCHANGED <<disk, mem, object, ready, hasKey, generation, signIns, timer, queue, writers, seals>>
    BY <1>10 DEF vars
  <2>2. ~Crash  BY <1>t, <2>1 DEF Crash
  <2>3. SavedOrPending => SavedOrPending'  BY <2>1 DEF SavedOrPending
  <2>4. Up' => Up  BY <2>1 DEF Up
  <2> QED  BY <1>0, <1>p, <2>1, <2>2, <2>3, <2>4 DEF QuietInv
<1> QED
  BY <1>1, <1>2, <1>3, <1>4, <1>5, <1>6, <1>7, <1>8, <1>9, <1>10 DEF Next, Progress

-----------------------------------------------------------------------------
(* The theorems. *)

Inv == TypeInv /\ GoneInv /\ ChainInv /\ PhaseInv /\ OrderInv /\ HandInv /\ QuietInv

LEMMA InvAlways == Spec => []Inv
<1>1. Init => Inv
  BY TypeInit, GoneInit, ChainInit, PhaseInit, OrderInit, HandInit, QuietInit DEF Inv
<1>2. Inv /\ [Next]_vars => Inv'
  BY TypeNext, GoneNext, ChainNext, PhaseNext, OrderNext, HandNext, QuietNext DEF Inv
<1> QED  BY <1>1, <1>2, PTL DEF Spec

(* The variables hold what the code's declarations allow. *)
THEOREM TypeCorrect == Spec => []TypeOK
<1>1. TypeInv => TypeOK  BY DEF TypeInv
<1> QED  BY <1>1, TypeAlways, PTL

(* Keys that were turned off never come back, whatever was in flight when  *)
(* they were: the generation counter stops every load, write and retry.    *)
THEOREM DiscardedIsGone == Spec => []DiscardedStaysGone
<1>1. Inv => DiscardedStaysGone  BY DEF Inv, GoneInv, Alive, DiscardedStaysGone
<1> QED  BY <1>1, InvAlways, PTL

(* No number of a chain goes to two messages and no body is returned       *)
(* twice, across the crashes of the tab: a send and an open return after   *)
(* their save, the saves are chained, and a load replaces nothing that     *)
(* was handed over.                                                        *)
THEOREM NothingTwice == Spec => []HandedOutOnce
<1>1. Inv => HandedOutOnce
  <2> SUFFICES ASSUME Inv, Lossless PROVE HandedOutOnce
    BY DEF HandedOutOnce
  <2>1. MemoryInv  BY DEF Inv, HandInv
  <2> QED  BY <2>1 DEF MemoryInv, Taken, HandedOutOnce
<1> QED  BY <1>1, InvAlways, PTL

(* No write, however late, puts an older state of a session over a newer   *)
(* one.                                                                    *)
THEOREM DiskIsMonotone == Spec => DiskNeverGoesBack
<1> DEFINE A == Lossless /\ disk # None /\ disk' # None /\ disk'.session = disk.session
                  => disk'.next >= disk.next /\ disk.read \subseteq disk'.read
<1>1. Inv /\ [Next]_vars => [A]_vars
  <2> SUFFICES ASSUME Inv, [Next]_vars, Lossless, disk # None, disk' # None,
                      disk'.session = disk.session
               PROVE  disk'.next >= disk.next /\ disk.read \subseteq disk'.read
    OBVIOUS
  <2>1. disk \in Snapshot /\ disk.next \in Nat
    BY NotNone DEF Inv, TypeInv, TypeOK
  <2>2. CASE UNCHANGED disk  BY <2>1, <2>2
  <2>3. CASE ~UNCHANGED disk
    <3>1. \E w \in writers : disk' = w.snapshot
      BY <2>3 DEF Next, Progress, vars, SignIn, Imported, Derived, Loaded, NewSession, Evict,
         SealBegin, SealDone, OpenBegin, OpenDone, TimerFires, Flush, WriteBegin, WriteEnd,
         WriteRefused, Discard, Crash
    <3>2. PICK w \in writers : disk' = w.snapshot  BY <3>1
    <3>3. NoNewer(disk, w.snapshot)  BY DEF Inv, OrderInv, Lossless, Unbroken
    <3>4. w.snapshot \in Snapshot  BY <3>2 DEF Inv, TypeInv, TypeOK
    <3> QED  BY <2>1, <3>2, <3>3, <3>4, NotNone DEF NoNewer
  <2> QED  BY <2>2, <2>3
<1> QED  BY <1>1, InvAlways, PTL DEF Spec, DiskNeverGoesBack

(* Once nothing is pending, closing the tab loses nothing. *)
THEOREM QuietIsSaved == Spec => []SavedWhenQuiet
<1>1. Inv => SavedWhenQuiet
  <2> SUFFICES ASSUME Inv, Lossless, used["failure"] = 0, used["early"] = 0, ready, ~timer,
                      queue = <<>>, writers = {}, seals = {}
               PROVE  disk = mem
    BY DEF SavedWhenQuiet
  <2>1. Up  BY DEF Inv, PhaseInv, Lossless, Unbroken, Down, Loading, Off
  <2>2. SavedOrPending  BY <2>1 DEF Inv, QuietInv, Lossless, Unbroken
  <2> QED  BY <2>2 DEF SavedOrPending
<1> QED  BY <1>1, InvAlways, PTL
=============================================================================
