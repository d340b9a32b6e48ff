---------------------------- MODULE Registration ----------------------------
(***************************************************************************)
(* Creating accounts: handleAuthRegister of src/server/handlers.ts with the*)
(* proof of work, the lock and the ceilings in front of it, createUser and *)
(* the registration_events table of src/server/database.ts.                *)
(*                                                                         *)
(* A frame is one turn of the event loop up to the lock: the proof is spent*)
(* and the name looked up.  Its turn at the lock counts what its device and*)
(* its address have created and starts bcrypt; when bcrypt is over the row *)
(* is written, both subjects are charged and the lock is let go.  What the *)
(* new account then does to the sockets is in Connections.                 *)
(***************************************************************************)
EXTENDS Server

CONSTANTS
  Attempt,          \* auth_register frames that carry a proof
  Nickname,
  Lower,            \* Lower[n]: toLowerCase, and lower() of the database
  MaxPerDevice,     \* MAX_ACCOUNTS_PER_DEVICE; 0 lifts the ceiling
  MaxPerAddress,    \* MAX_REGISTRATIONS_PER_IP; 0 lifts the ceiling
  Window,           \* REGISTRATION_WINDOW_MS, in ticks
  Retention,        \* REGISTRATION_EVENT_RETENTION_MS, in ticks
  ChallengeTtl,     \* POW_CHALLENGE_TTL_MS, in ticks
  MaxChallenges,    \* POW_MAX_CHALLENGES
  MaxIssued         \* bound: challenges handed out

ASSUME RegistrationAssumption ==
  /\ Lower \in [Nickname -> Nickname]
  /\ MaxPerDevice \in Nat
  /\ MaxPerAddress \in Nat
  /\ Window \in Nat
  /\ Retention \in Nat \ {0}
  /\ Window <= Retention
  /\ ChallengeTtl \in Nat
  /\ MaxChallenges \in Nat \ {0}
  /\ MaxIssued \in Nat

VARIABLES
  state,        \* state[a]: where the frame is
  request,      \* request[a]: what it asks for, and the proof it spent
  waitsFor,     \* waitsFor[a]: the tails it read, waitedFor in the code
  locks,        \* registrationLocks: whose promise is the tail of a subject
  challenges,   \* powChallenges; ids grow in the order of insertion
  issued,       \* challenges handed out, by this and earlier processes
  users,        \* the users table, each row with the request behind it
  events        \* registration_events: a row for each charge of a subject

regVars == <<state, request, waitsFor, locks, challenges, issued, users, events, clock>>

Subject == ({"device"} \X Device) \cup ({"ip"} \X Address)

(* A ceiling of zero is no ceiling. *)
Ceiling(subject) == IF subject[1] = "device" THEN MaxPerDevice ELSE MaxPerAddress

State == {"new", "waiting", "hashing", "over"}

Request == [name : Nickname, device : Device, address : Address, proof : 1..MaxIssued]

Challenge == [id : 1..MaxIssued, at : Nat, solved : BOOLEAN]

(* A row is named by the attempt that wrote it. *)
UserRow == [id : Attempt, name : Nickname, at : Nat, request : Request]

Event == [id : Attempt, subject : Subject, at : Nat]

ASSUME RequestAssumption == None \notin Attempt /\ None \notin Request

RegInit ==
  /\ state = [a \in Attempt |-> "new"]
  /\ request = [a \in Attempt |-> None]
  /\ waitsFor = [a \in Attempt |-> {}]
  /\ locks = [j \in Subject |-> None]
  /\ challenges = {}
  /\ issued = 0
  /\ users = {}
  /\ events = {}
  /\ clock = 0

-----------------------------------------------------------------------------
(* The proof of work.                                                      *)

Fresh(challenge) == clock - challenge.at <= ChallengeTtl

(* The entries that are left when the oldest beyond n go. *)
Newest(table, n) == {c \in table : Cardinality({b \in table : b.id > c.id}) < n}

(* prunePowChallenges: the expired ones go, then the oldest until one more fits. *)
Pruned == Newest({c \in challenges : Fresh(c)}, MaxChallenges - 1)

(* A frame without a proof that holds is answered with a challenge. *)
Ask ==
  /\ issued < MaxIssued
  /\ issued' = issued + 1
  /\ challenges' = Pruned \cup {[id |-> issued + 1, at |-> clock, solved |-> FALSE]}
  /\ UNCHANGED <<state, request, waitsFor, locks, users, events, clock>>

(* A proof of a challenge that is known: not yet spent, and not too old. *)
CheckPow(c) == ~c.solved /\ Fresh(c)

(* Mutant: the proof is spent by the account it buys, not by the attempt. *)
Spent_Never(c) == challenges

(* A proof that held is spent whatever becomes of the registration. *)
Spent(c) == (challenges \ {c}) \cup {[c EXCEPT !.solved = TRUE]}

-----------------------------------------------------------------------------
(* The lock.                                                               *)

Subjects(r) == {<<"device", r.device>>, <<"ip", r.address>>}

(* Every tail is read before any is written. *)
Tails(r) == {locks[j] : j \in Subjects(r)} \ {None}

(* Mutant: a subject is freed even when somebody is already queued behind it. *)
Freed_Always(a) == [j \in Subject |-> IF j \in Subjects(request[a]) THEN None ELSE locks[j]]

(* releaseSubjects: only a tail that is still this attempt's is taken down. *)
Freed(a) == [j \in Subject |-> IF locks[j] = a THEN None ELSE locks[j]]

(* Mutant: an early return that keeps the lock. *)
Answered_Holding(a) == UNCHANGED <<locks, waitsFor>>

(* The finally block: the promise resolves, and whoever waited for it need not. *)
Answered(a) ==
  /\ locks' = Freed(a)
  /\ waitsFor' = [b \in Attempt |-> waitsFor[b] \ {a}]

-----------------------------------------------------------------------------
(* Registering.                                                            *)

(* The lookup before the lock ignores capitals. *)
Taken(name) == \E u \in users : Lower[u.name] = Lower[name]

(* handleAuthRegister up to the lock. *)
Frame(a) ==
  /\ state[a] = "new"
  /\ \E c \in challenges, r \in Request :
       /\ r.proof = c.id
       /\ CheckPow(c)
       /\ challenges' = Spent(c)
       /\ request' = [request EXCEPT ![a] = r]
       /\ IF Taken(r.name)
          THEN /\ state' = [state EXCEPT ![a] = "over"]
               /\ UNCHANGED <<locks, waitsFor>>
          ELSE /\ state' = [state EXCEPT ![a] = "waiting"]
               /\ waitsFor' = [waitsFor EXCEPT ![a] = Tails(r)]
               /\ locks' = [j \in Subject |-> IF j \in Subjects(r) THEN a ELSE locks[j]]
  /\ UNCHANGED <<issued, users, events, clock>>

(* countRegistrations: the rows of a subject inside the sliding window. *)
Charges(subject) == {e \in events : e.subject = subject /\ e.at > clock - Window}

Charged(subject) == Cardinality(Charges(subject))

(* registrationAllowed: both ceilings. *)
Allowed(r) == \A j \in Subjects(r) : Ceiling(j) = 0 \/ Charged(j) < Ceiling(j)

MyTurn(a) == state[a] = "waiting" /\ waitsFor[a] = {}

(* The lock is held, the ceilings leave room, and bcrypt starts. *)
Begin(a) ==
  /\ MyTurn(a)
  /\ Allowed(request[a])
  /\ state' = [state EXCEPT ![a] = "hashing"]
  /\ UNCHANGED <<request, waitsFor, locks, challenges, issued, users, events, clock>>

(* A ceiling, or a password or a key that will not do. *)
Refuse(a) ==
  /\ MyTurn(a)
  /\ state' = [state EXCEPT ![a] = "over"]
  /\ Answered(a)
  /\ UNCHANGED <<request, challenges, issued, users, events, clock>>

(* Mutant: without the index on lower(nickname) only the very spelling is refused. *)
StillFree_AsSpelt(name) == \A u \in users : u.name # name

(* createUser asks again for the very spelling, and the insert fails when *)
(* the index on lower(nickname) has the name in another.                  *)
StillFree(name) == ~Taken(name)

(* recordRegistration: one row for each ceiling there is, and rows past    *)
(* their retention go with the same write.                                 *)
ChargedFor(a) ==
  LET charged == {j \in Subjects(request[a]) : Ceiling(j) > 0}
      rows    == {[id |-> a, subject |-> j, at |-> clock] : j \in charged}
  IN  IF charged = {} THEN events
      ELSE {e \in events : e.at > clock - Retention} \cup rows

(* bcrypt is over and the name is still free: the account exists. *)
Create(a) ==
  LET r == request[a] IN
  /\ state[a] = "hashing"
  /\ StillFree(r.name)
  /\ users' = users \cup {[id |-> a, name |-> r.name, at |-> clock, request |-> r]}
  /\ events' = ChargedFor(a)
  /\ state' = [state EXCEPT ![a] = "over"]
  /\ Answered(a)
  /\ UNCHANGED <<request, challenges, issued, clock>>

(* bcrypt is over and somebody else has the name. *)
Lost(a) ==
  /\ state[a] = "hashing"
  /\ ~StillFree(request[a].name)
  /\ state' = [state EXCEPT ![a] = "over"]
  /\ Answered(a)
  /\ UNCHANGED <<request, challenges, issued, users, events, clock>>

-----------------------------------------------------------------------------
(* Time and restarts.                                                      *)

RegTick ==
  /\ clock < MaxClock
  /\ clock' = clock + 1
  /\ UNCHANGED <<state, request, waitsFor, locks, challenges, issued, users, events>>

(* The process goes and comes back with the two tables only. *)
RegRestart ==
  /\ challenges # {} \/ \E a \in Attempt : state[a] \in {"waiting", "hashing"}
  /\ state' = [a \in Attempt |-> IF state[a] = "new" THEN "new" ELSE "over"]
  /\ waitsFor' = [a \in Attempt |-> {}]
  /\ locks' = [j \in Subject |-> None]
  /\ challenges' = {}
  /\ UNCHANGED <<request, issued, users, events, clock>>

RegNext ==
  \/ Ask
  \/ \E a \in Attempt : Frame(a) \/ Begin(a) \/ Refuse(a) \/ Create(a) \/ Lost(a)
  \/ RegTick
  \/ RegRestart

RegSpec == RegInit /\ [][RegNext]_regVars

(* The event loop goes on while a promise has resolved or a bcrypt has ended. *)
RegFairness == WF_regVars(\E a \in Attempt : Begin(a) \/ Refuse(a) \/ Create(a) \/ Lost(a))

RegFairSpec == RegSpec /\ RegFairness

-----------------------------------------------------------------------------
(* Properties.                                                             *)

(* Every variable holds what the code's declarations allow; the table of   *)
(* challenges never outgrows its bound (prunePowChallenges).               *)
RegTypeOK ==
  /\ state \in [Attempt -> State]
  /\ request \in [Attempt -> Request \cup {None}]
  /\ waitsFor \in [Attempt -> SUBSET Attempt]
  /\ locks \in [Subject -> Attempt \cup {None}]
  /\ challenges \subseteq Challenge /\ Cardinality(challenges) <= MaxChallenges
  /\ issued \in 0..MaxIssued
  /\ users \subseteq UserRow
  /\ events \subseteq Event
  /\ clock \in Nat

(* In no window does a device or an address create more accounts than its  *)
(* ceiling, however its registrations overlap in bcrypt, and across a      *)
(* restart (lockRegistrationSubjects: "the ceiling was checked and then not*)
(* enforced, which is the one thing a ceiling cannot be").                 *)
CeilingsHold ==
  \A j \in Subject : Ceiling(j) > 0 =>
    Cardinality({u \in users : j \in Subjects(u.request) /\ u.at > clock - Window}) <= Ceiling(j)

(* One search buys at most one account, attempts that failed, overlapped or*)
(* were cut off by a restart included (powChallenges, entry.solved).       *)
ProofsBuyOneAccount ==
  \A u, v \in users : u.request.proof = v.request.proof => u = v

(* Two accounts never share a nickname, in whatever capitals and however   *)
(* long bcrypt took (idx_users_nickname_lower, which unlike the lookup in  *)
(* the handler is asked after the last await).                             *)
NamesAreUnique == \A u, v \in users : Lower[u.name] = Lower[v.name] => u = v

(* Every registration that queues for its subjects is answered: nobody     *)
(* waits for a turn that never comes (the finally block).                  *)
AttemptsSettle == []<>(\A a \in Attempt : state[a] \in {"new", "over"})

=============================================================================
