---------------------------- MODULE SessionStore ----------------------------
(***************************************************************************)
(* How one device's SessionManager keeps its session on disk: the load at  *)
(* sign-in, the immediate and the debounced saves, the chain of writes,    *)
(* the discard of every key, and a tab that may go at any moment.          *)
(*                                                                         *)
(* What is saved is reduced to what a rollback would damage: the number    *)
(* the next message takes and the bodies already opened.  The ratchet that *)
(* turns a number into a key is module Session.                            *)
(*                                                                         *)
(* localStorage is synchronous and outlives the tab; AES-GCM and PBKDF2    *)
(* are awaited.  What runs between two awaits is one action, so a save, a  *)
(* load and a discard interleave wherever the code lets them.              *)
(***************************************************************************)
EXTENDS Integers, Sequences, FiniteSets

CONSTANTS
  None,
  Bodies,           \* the bodies the peer sends
  MaxSends,         \* bound: messages sealed, in all
  MaxSessions,      \* bound: sessions created, in all
  MaxQueue,         \* bound: how long the queue may be when a save nobody waits for joins it
  Scenario          \* bounds: how often each thing may happen

Counter == {"send", "session", "reconnect", "early", "crash", "failure", "discard"}

ASSUME StoreBoundsAssumption ==
  /\ MaxSends \in Nat
  /\ MaxSessions \in Nat
  /\ MaxQueue \in Nat \ {0}
  /\ Scenario \subseteq [Counter -> Nat]
  /\ \A l \in Scenario : l["send"] <= MaxSends /\ l["session"] <= MaxSessions

VARIABLES
  disk,        \* what the store in localStorage decrypts to
  mem,         \* the session the manager holds
  object,      \* which Session object that is: a load replaces it
  hasKey,      \* encryptionKey is set
  ready,       \* dmCrypto.ready
  generation,  \* SessionManager.generation
  signIns,     \* startRatchet calls inside SessionManager.init
  timer,       \* a debounced save is armed
  queue,       \* the saves chained on saveTail, the next one first
  writers,     \* the writes that have started
  seals,       \* encryptMessage calls inside the AEAD
  opening,     \* the decryptMessage call that holds the lock
  released,    \* history: the <<session, number, message>> handed to the caller
  returned,    \* history: returned[s][b], how often a body was handed to the caller
  discarded,   \* history: the sessions thrown away
  used,        \* how often each thing has happened
  limits       \* how often it may

vars == <<disk, mem, object, hasKey, ready, generation, signIns, timer, queue, writers,
          seals, opening, released, returned, discarded, used, limits>>

SessionId == 1 .. MaxSessions

Snapshot == [session : SessionId, next : Nat, read : SUBSET Bodies]

OpenCall == [session : SessionId, body : Bodies, object : Nat, saving : BOOLEAN]

ASSUME NoneAssumption == None \notin Snapshot \cup OpenCall

Stage == {"import", "derive", "decrypt"}

Init ==
  /\ disk = None
  /\ mem = None
  /\ object = 0
  /\ hasKey = FALSE
  /\ ready = FALSE
  /\ generation = 0
  /\ signIns = {}
  /\ timer = FALSE
  /\ queue = <<>>
  /\ writers = {}
  /\ seals = {}
  /\ opening = None
  /\ released = {}
  /\ returned = [s \in SessionId |-> [b \in Bodies |-> 0]]
  /\ discarded = {}
  /\ used = [c \in Counter |-> 0]
  /\ limits \in Scenario

Count(c) ==
  /\ used[c] < limits[c]
  /\ used' = [used EXCEPT ![c] = @ + 1]
  /\ UNCHANGED limits

-----------------------------------------------------------------------------
(* Signing in.  startRatchet runs on every auth_success, a reconnect of an *)
(* app that is already up included.                                        *)

SignIn ==
  /\ IF generation = 0
     THEN UNCHANGED <<used, limits>>
     ELSE Count("reconnect")
  /\ generation' = generation + 1
  /\ signIns' = signIns \cup {[generation |-> generation + 1, stage |-> "import", raw |-> None]}
  /\ UNCHANGED <<disk, mem, object, hasKey, ready, timer, queue, writers, seals, opening,
                 released, returned, discarded>>

(* Mutant: no call looks at the generation it began in. *)
Current_Always(g) == TRUE

(* Whether the manager is still the one a call began under. *)
Current(g) == generation = g

(* init returns, whether it got to its end or not, and the app is ready. *)
Return(s) ==
  /\ signIns' = signIns \ {s}
  /\ ready' = TRUE

(* The password is imported. *)
Imported ==
  \E s \in signIns :
    /\ s.stage = "import"
    /\ IF Current(s.generation)
       THEN /\ signIns' = (signIns \ {s}) \cup {[s EXCEPT !.stage = "derive"]}
            /\ ready' = ready
       ELSE Return(s)
    /\ UNCHANGED <<disk, mem, object, hasKey, generation, timer, queue, writers, seals,
                   opening, released, returned, discarded, used, limits>>

(* The key is derived and kept, and the store is read. *)
Derived ==
  \E s \in signIns :
    /\ s.stage = "derive"
    /\ hasKey' = TRUE
    /\ IF Current(s.generation) /\ disk # None
       THEN /\ signIns' = (signIns \ {s}) \cup {[s EXCEPT !.stage = "decrypt", !.raw = disk]}
            /\ ready' = ready
       ELSE Return(s)
    /\ UNCHANGED <<disk, mem, object, generation, timer, queue, writers, seals, opening,
                   released, returned, discarded, used, limits>>

(* The store is decrypted: its sessions replace the ones in memory. *)
Loaded ==
  \E s \in signIns :
    /\ s.stage = "decrypt"
    /\ IF Current(s.generation)
       THEN mem' = s.raw /\ object' = object + 1
       ELSE UNCHANGED <<mem, object>>
    /\ Return(s)
    /\ UNCHANGED <<disk, hasKey, generation, timer, queue, writers, seals, opening,
                   released, returned, discarded, used, limits>>

-----------------------------------------------------------------------------
(* What changes the session, and the save each change asks for.            *)

(* Mutant: the change is left for the next save to pick up. *)
Debounced_Forgotten == timer' = timer

(* save: a write half a second from now, unless another change comes first. *)
Debounced == timer' = TRUE

(* A handshake files a new session. *)
NewSession ==
  /\ ready
  /\ mem = None
  /\ Count("session")
  /\ mem' = [session |-> used["session"] + 1, next |-> 0, read |-> {}]
  /\ object' = object + 1
  /\ Debounced
  /\ UNCHANGED <<disk, hasKey, ready, generation, signIns, queue, writers, seals, opening,
                 released, returned, discarded>>

(* The daily sweep evicts the session. *)
Evict ==
  /\ mem # None
  /\ mem' = None
  /\ Debounced
  /\ UNCHANGED <<disk, object, hasKey, ready, generation, signIns, queue, writers, seals,
                 opening, released, returned, discarded, used, limits>>

(* encryptMessage up to the AEAD. *)
SealBegin ==
  /\ ready
  /\ mem # None
  /\ Count("send")
  /\ mem' = [mem EXCEPT !.next = @ + 1]
  /\ seals' = seals \cup {<<mem.session, mem.next, used["send"] + 1>>}
  /\ UNCHANGED <<disk, object, hasKey, ready, generation, signIns, timer, queue, writers,
                 opening, released, returned, discarded>>

(* A save, and the call that waits for it if one does.                     *)
Save == [kind |-> "save"]

SaveFor(kind, x) == [kind |-> kind, of |-> x]

(* doSave: the save joins the chain of writes. *)
Enqueue(call) == queue' = Append(queue, call)

(* Bound: saves that no call waits for. *)
QueueHasRoom == Len(queue) < MaxQueue

(* Mutant: a body is handed over while its save waits for its turn. *)
Sealed_AtOnce(x) == Enqueue(Save) /\ released' = released \cup {x}

(* The body is sealed; it is handed over when its save has settled. *)
Sealed(x) == Enqueue(SaveFor("seal", x)) /\ UNCHANGED released

SealDone ==
  \E x \in seals :
    /\ seals' = seals \ {x}
    /\ Sealed(x)
    /\ UNCHANGED <<disk, mem, object, hasKey, ready, generation, signIns, timer, writers,
                   opening, returned, discarded, used, limits>>

(* decryptMessage gets the lock and copies a state in which b is unopened. *)
OpenBegin ==
  /\ ready
  /\ mem # None
  /\ opening = None
  /\ \E b \in Bodies \ mem.read :
       opening' = [session |-> mem.session, body |-> b, object |-> object, saving |-> FALSE]
  /\ UNCHANGED <<disk, mem, object, hasKey, ready, generation, signIns, timer, queue, writers,
                 seals, released, returned, discarded, used, limits>>

CountReturn(s, b) == returned' = [returned EXCEPT ![s][b] = @ + 1]

(* The plaintext is in hand; it is returned when its save has settled. *)
Opened(o) ==
  /\ Enqueue(SaveFor("open", <<o.session, o.body>>))
  /\ opening' = [o EXCEPT !.saving = TRUE]
  /\ UNCHANGED returned

(* The draft is adopted by the object it was copied from, and saved. *)
OpenDone ==
  /\ opening # None
  /\ ~opening.saving
  /\ mem' = IF mem # None /\ opening.object = object
            THEN [mem EXCEPT !.read = @ \cup {opening.body}]
            ELSE mem
  /\ Opened(opening)
  /\ UNCHANGED <<disk, object, hasKey, ready, generation, signIns, timer, writers, seals,
                 released, discarded, used, limits>>

(* Half a second of quiet, or the page is left: the pending save runs. *)
TimerFires ==
  /\ timer
  /\ QueueHasRoom
  /\ timer' = FALSE
  /\ Enqueue(Save)
  /\ UNCHANGED <<disk, mem, object, hasKey, ready, generation, signIns, writers, seals,
                 opening, released, returned, discarded, used, limits>>

(* A blur or a page exit saves whether or not a save is pending; so does   *)
(* disconnect, which may run before any key is up: a sign-out, or a        *)
(* registration that is given up.                                          *)
Flush ==
  /\ QueueHasRoom
  /\ IF ready
     THEN UNCHANGED <<used, limits>>
     ELSE Count("early")
  /\ timer' = FALSE
  /\ Enqueue(Save)
  /\ UNCHANGED <<disk, mem, object, hasKey, ready, generation, signIns, writers, seals,
                 opening, released, returned, discarded>>

-----------------------------------------------------------------------------
(* The chain of writes.                                                    *)

(* The write a call waited for is over: the call returns. *)
Settle(call) ==
  /\ released' = IF call.kind = "seal" THEN released \cup {call.of} ELSE released
  /\ IF call.kind = "open"
     THEN CountReturn(call.of[1], call.of[2]) /\ opening' = None
     ELSE UNCHANGED <<returned, opening>>

(* Mutant: a write starts as soon as it is asked for. *)
MyTurn_Unchained == TRUE

(* saveTail: a write starts once the one before it is over. *)
MyTurn == writers = {}

(* One attempt of writeStore, with the session as it is when it starts. *)
Attempt(call, g, retry) ==
  [call |-> call, snapshot |-> mem, generation |-> g, retry |-> retry]

(* Without a key the store is removed; with one the sessions are           *)
(* serialised and the encryption is awaited.                               *)
WriteBegin ==
  /\ queue # <<>>
  /\ MyTurn
  /\ queue' = Tail(queue)
  /\ IF hasKey
     THEN /\ writers' = writers \cup {Attempt(Head(queue), generation, FALSE)}
          /\ UNCHANGED <<disk, opening, released, returned>>
     ELSE /\ disk' = None
          /\ Settle(Head(queue))
          /\ UNCHANGED writers
  /\ UNCHANGED <<mem, object, hasKey, ready, generation, signIns, timer, seals, discarded, used, limits>>

(* The encryption is done: the write lands, unless the manager moved on. *)
WriteEnd ==
  \E w \in writers :
    /\ writers' = writers \ {w}
    /\ disk' = IF Current(w.generation) THEN w.snapshot ELSE disk
    /\ Settle(w.call)
    /\ UNCHANGED <<mem, object, hasKey, ready, generation, signIns, timer, queue, seals,
                   discarded, used, limits>>

(* Mutant: the call that waited for a failed write is forgotten. *)
GiveUp_Unanswered(w) == writers' = writers \ {w} /\ UNCHANGED <<released, returned, opening>>

(* The failure is logged and the call that waited returns all the same. *)
GiveUp(w) == writers' = writers \ {w} /\ Settle(w.call)

(* localStorage refuses.  Out of room is tried once more, after keys that  *)
(* this model does not hold were pruned; any other failure is final.       *)
WriteRefused ==
  \E w \in writers :
    /\ Current(w.generation)
      /\ Count("failure")
    /\ \/ /\ ~w.retry
          /\ writers' = (writers \ {w}) \cup {Attempt(w.call, w.generation, TRUE)}
          /\ UNCHANGED <<released, returned, opening>>
       \/ GiveUp(w)
    /\ UNCHANGED <<disk, mem, object, hasKey, ready, generation, signIns, timer, queue, seals,
                   discarded>>

-----------------------------------------------------------------------------
(* "Turn every key off": the managers are stopped, the store is deleted.   *)
Discard ==
  /\ ready
  /\ Count("discard")
  /\ generation' = generation + 1
  /\ timer' = FALSE
  /\ mem' = None
  /\ hasKey' = FALSE
  /\ ready' = FALSE
  /\ disk' = None
  /\ discarded' = discarded \cup 1 .. used["session"]
  /\ UNCHANGED <<object, signIns, queue, writers, seals, opening, released, returned>>

(* The tab goes: only the disk and what was handed over remain. *)
Crash ==
  /\ Count("crash")
  /\ mem' = None
  /\ object' = object + 1
  /\ hasKey' = FALSE
  /\ ready' = FALSE
  /\ generation' = 0
  /\ signIns' = {}
  /\ timer' = FALSE
  /\ queue' = <<>>
  /\ writers' = {}
  /\ seals' = {}
  /\ opening' = None
  /\ UNCHANGED <<disk, released, returned, discarded>>

Progress == Imported \/ Derived \/ Loaded \/ SealDone \/ OpenDone \/ WriteBegin \/ WriteEnd

Next ==
  \/ SignIn \/ Progress \/ NewSession \/ Evict \/ SealBegin \/ OpenBegin \/ TimerFires
  \/ Flush \/ WriteRefused \/ Discard \/ Crash

Spec == Init /\ [][Next]_vars

(* Web Crypto's promises settle and the event loop runs what is ready. *)
FairSpec == Spec /\ WF_vars(SealDone) /\ WF_vars(OpenDone) /\ WF_vars(WriteBegin) /\ WF_vars(WriteEnd)

-----------------------------------------------------------------------------
(* Properties.                                                             *)

Message == 1 .. MaxSends

Waited == [kind : {"save"}] \cup [kind : {"seal"}, of : SessionId \X Nat \X Message]
            \cup [kind : {"open"}, of : SessionId \X Bodies]

(* The variables hold what the code's declarations allow. *)
TypeOK ==
  /\ disk \in Snapshot \cup {None}
  /\ mem \in Snapshot \cup {None}
  /\ object \in Nat
  /\ hasKey \in BOOLEAN /\ ready \in BOOLEAN /\ timer \in BOOLEAN
  /\ generation \in Nat
  /\ signIns \in SUBSET [generation : Nat, stage : Stage, raw : Snapshot \cup {None}]
  /\ queue \in Seq(Waited)
  /\ writers \in SUBSET [call : Waited, snapshot : Snapshot \cup {None}, generation : Nat,
                         retry : BOOLEAN]
  /\ seals \in SUBSET (SessionId \X Nat \X Message)
  /\ opening \in OpenCall \cup {None}
  /\ released \in SUBSET (SessionId \X Nat \X Message)
  /\ returned \in [SessionId -> [Bodies -> Nat]]
  /\ discarded \in SUBSET SessionId
  /\ used \in [Counter -> Nat]
  /\ limits \in Scenario

(* No sign-in of a tab that is already up has put what the disk held over  *)
(* what the tab had, and no tab has gone after a write was refused.        *)
Lossless == used["reconnect"] = 0 /\ (used["failure"] = 0 \/ used["crash"] = 0)

(* What left the tab is not handed out again, in one life of the tab or    *)
(* across several: no number of a chain goes to two messages, and no body  *)
(* is returned twice.  What a crash rolls back was never handed over (the  *)
(* saves encryptMessage and decryptMessage await before they return).      *)
HandedOutOnce ==
  Lossless =>
    /\ \A x, y \in released : x[1] = y[1] /\ x[2] = y[2] => x = y
    /\ \A s \in SessionId : \A b \in Bodies : returned[s][b] <= 1

(* A write never puts an older state of a session over a newer one (the    *)
(* race the comment above saveTail describes).                             *)
DiskNeverGoesBack ==
  [][Lossless /\ disk # None /\ disk' # None /\ disk'.session = disk.session
       => disk'.next >= disk.next /\ disk.read \subseteq disk'.read]_vars

(* When nothing is pending, closing the tab loses nothing, if localStorage *)
(* has refused nothing and nobody disconnected while a store was loading.  *)
SavedWhenQuiet ==
  Lossless /\ used["failure"] = 0 /\ used["early"] = 0 /\ ready /\ ~timer /\ queue = <<>> /\ writers = {} /\ seals = {} /\ opening = None
    => disk = mem

(* Keys that were turned off never come back: no write, no load and no     *)
(* retry that was in flight restores them to the disk or to memory (the    *)
(* generation counter, and stopSignalState before the deletion).           *)
DiscardedStaysGone ==
  \A s \in discarded :
    /\ disk # None => disk.session # s
    /\ mem # None => mem.session # s

(* Every send and every open gets its answer, or loses its tab, whatever   *)
(* localStorage refuses.                                                   *)
Answered(m) == \E x \in released : x[3] = m

TabIsDown == generation = 0

CallsReturn ==
  /\ \A m \in Message : (\E x \in seals : x[3] = m) ~> (Answered(m) \/ TabIsDown)
  /\ opening # None ~> opening = None

-----------------------------------------------------------------------------
(* What the comments promise and the code does not keep.  No run checks    *)
(* these; README.md says where they fail.                                  *)

(* A reconnect must not hand out a number twice either: the load replaces  *)
(* a session whose seals are in flight.                                    *)
NumbersSurviveReconnects ==
  \A x, y \in released : x[1] = y[1] /\ x[2] = y[2] => x = y

(* A manager that was never initialised has no claim on any store: before  *)
(* the first sign-in of a tab nothing on the disk changes (the comment     *)
(* above the removal in writeStore).                                       *)
UninitialisedTouchesNothing == [][generation = 0 => UNCHANGED disk]_vars

=============================================================================
