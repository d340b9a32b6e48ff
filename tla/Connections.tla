---------------------------- MODULE Connections ----------------------------
(***************************************************************************)
(* The server's sockets: src/server/handlers.ts from handleConnection to   *)
(* the heartbeat sweep, with the sessions table of src/server/database.ts. *)
(*                                                                         *)
(* A socket takes a slot of its address, moves it to an account when it    *)
(* signs in, and is filed under the account and the device it names.       *)
(* node:sqlite is synchronous, so a handler runs to its end in one turn of *)
(* the event loop, with one exception: bcrypt.  A sign-in or a             *)
(* registration is therefore two actions, and the frames, the close events,*)
(* the revocations, the bans and the sweep of every socket may run between *)
(* the two.                                                                *)
(*                                                                         *)
(* What limits the frames themselves (work and failure budgets, lockouts,  *)
(* the registration ceilings) only makes an attempt fail here, which any   *)
(* attempt may do.                                                         *)
(***************************************************************************)
EXTENDS Server

CONSTANTS
  Socket, User,
  Registered,       \* the accounts that exist when the server is first started
  MaxPerIp,         \* MAX_CONNECTIONS_PER_IP
  MaxPerUser,       \* MAX_CONNECTIONS_PER_USER
  MaxSessions,      \* MAX_SESSIONS_PER_USER
  InactiveTtl,      \* INACTIVE_SESSION_TTL_MS, in ticks of the clock
  MaxCalls          \* bound: sign-ins and registrations in bcrypt, per socket

ASSUME ConnectionsAssumption ==
  /\ Registered \subseteq User
  /\ MaxPerIp \in Nat \ {0}
  /\ MaxPerUser \in Nat \ {0}
  /\ MaxSessions \in Nat \ {0}
  /\ InactiveTtl \in Nat
  /\ MaxCalls \in Nat

ASSUME NoneAssumption ==
  None \notin Socket \cup (User \X Device) \cup ({"ip", "user"} \X (Address \cup User))
              \cup [lastActive : Nat, revoked : BOOLEAN]

VARIABLES
  status,     \* status[s]: where the socket is in its life
  signedIn,   \* signedIn[s]: currentUserId and currentDeviceId
  slotKey,    \* slotKey[s]: connectionKey
  calls,      \* calls[s]: sign-ins and registrations that are in bcrypt
  slots,      \* connectionCounts
  clients,    \* clients[k]: the socket filed under an account and a device
  records,    \* sessionRecords: what the process remembers of a device
  rows,       \* the sessions table
  accounts,   \* the users table
  banned,     \* the accounts whose is_banned is set
  shown       \* the accounts a bystander's list shows as online

vars == <<status, signedIn, slotKey, calls, slots, clients, records, rows, accounts, banned,
          shown, clock>>

(* clientKey: a device id belongs to a browser, not to an account. *)
Client == User \X Device

SlotKey == ({"ip"} \X Address) \cup ({"user"} \X User)

Status == {"new", "open", "closing", "cut", "closed"}

Call == [kind : {"login", "register"}, client : Client]

Record == [lastActive : Nat, revoked : BOOLEAN]

(* A socket whose frames are still read: close() only starts a handshake. *)
Reading(s) == status[s] \in {"open", "closing"}

Init ==
  /\ status = [s \in Socket |-> "new"]
  /\ signedIn = [s \in Socket |-> None]
  /\ slotKey = [s \in Socket |-> None]
  /\ calls = [s \in Socket |-> {}]
  /\ slots = [k \in SlotKey |-> 0]
  /\ clients = [k \in Client |-> None]
  /\ records = [k \in Client |-> None]
  /\ rows = [k \in Client |-> None]
  /\ accounts = Registered
  /\ banned = {}
  /\ shown = {}
  /\ clock = 0

-----------------------------------------------------------------------------
(* Slots.                                                                  *)

(* releaseConnectionKey. *)
Released(counts, key) == [counts EXCEPT ![key] = IF @ <= 1 THEN 0 ELSE @ - 1]

(* claimConnection: a full key is refused and keeps its count. *)
Claimed(counts, key, cap) ==
  IF counts[key] >= cap THEN counts ELSE [counts EXCEPT ![key] = @ + 1]

(* handleConnection. *)
Connect(s) ==
  /\ status[s] = "new"
  /\ \E a \in Address :
       LET key == <<"ip", a>> IN
       IF slots[key] < MaxPerIp
       THEN /\ status' = [status EXCEPT ![s] = "open"]
            /\ slotKey' = [slotKey EXCEPT ![s] = key]
            /\ slots' = Claimed(slots, key, MaxPerIp)
       ELSE /\ status' = [status EXCEPT ![s] = "closed"]
            /\ UNCHANGED <<slotKey, slots>>
  /\ UNCHANGED <<signedIn, calls, clients, records, rows, accounts, banned, shown, clock>>

-----------------------------------------------------------------------------
(* Signing in and registering.                                             *)

(* ws.close: an open socket starts its closing handshake. *)
Closing(stat, sockets) ==
  [s \in Socket |-> IF s \in sockets /\ stat[s] = "open" THEN "closing" ELSE stat[s]]

(* auth_login, up to bcrypt.  A socket that is signed in is refused. *)
LoginFrame(s) ==
  /\ Reading(s)
  /\ signedIn[s] = None
  /\ Cardinality(calls[s]) < MaxCalls
  /\ \E u \in accounts, d \in Device :
       calls' = [calls EXCEPT ![s] = @ \cup {[kind |-> "login", client |-> <<u, d>>]}]
  /\ UNCHANGED <<status, signedIn, slotKey, slots, clients, records, rows, accounts, banned,
                 shown, clock>>

(* auth_register, up to bcrypt: nothing asks whether the socket is signed in. *)
RegisterFrame(s) ==
  /\ Reading(s)
  /\ Cardinality(calls[s]) < MaxCalls
  /\ \E u \in User \ accounts, d \in Device :
       calls' = [calls EXCEPT ![s] = @ \cup {[kind |-> "register", client |-> <<u, d>>]}]
  /\ UNCHANGED <<status, signedIn, slotKey, slots, clients, records, rows, accounts, banned,
                 shown, clock>>

Over(s, c) == calls' = [calls EXCEPT ![s] = @ \ {c}]

DevicesOf(u) == {k \in Client : k[1] = u}

(* Mutant: the cap lets one device too many in. *)
SessionCapReached_OffByOne(k) ==
  IF records[k] # None THEN records[k].revoked
  ELSE Cardinality({j \in DevicesOf(k[1]) : records[j] # None /\ ~records[j].revoked}) > MaxSessions

(* A known device is let in unless it was revoked; a new one needs room. *)
SessionCapReached(k) ==
  IF records[k] # None THEN records[k].revoked
  ELSE Cardinality({j \in DevicesOf(k[1]) : records[j] # None /\ ~records[j].revoked}) >= MaxSessions

(* Mutant: whether the account is banned was asked before bcrypt. *)
Refused_BanUnseen(k) ==
  SessionCapReached(k) \/ slots[<<"user", k[1]>>] >= MaxPerUser

(* What handleAuthLogin asks once the password has matched. *)
Refused(k) ==
  \/ k[1] \in banned
  \/ SessionCapReached(k)
  \/ slots[<<"user", k[1]>>] >= MaxPerUser

(* registerSession: a record that exists keeps its revocation. *)
FiledRecord(k) ==
  [lastActive |-> clock, revoked |-> records[k] # None /\ records[k].revoked]

(* user_joined goes out to everybody, and the list of who is online to the new one. *)
OnAuthenticated(u) == shown' = shown \cup {u}

(* The slot moves to the account, the device is recorded, and the socket   *)
(* is filed; one that was filed before it is told to close.                *)
SignedIn(s, k) ==
  LET key == <<"user", k[1]>> IN
  /\ slots' = Claimed(Released(slots, slotKey[s]), key, MaxPerUser)
  /\ slotKey' = [slotKey EXCEPT ![s] = key]
  /\ records' = [records EXCEPT ![k] = FiledRecord(k)]
  /\ rows' = [rows EXCEPT ![k] = FiledRecord(k)]
  /\ signedIn' = [signedIn EXCEPT ![s] = k]
  /\ status' = Closing(status, {clients[k]} \ {s, None})
  /\ clients' = [clients EXCEPT ![k] = s]
  /\ OnAuthenticated(k[1])

(* bcrypt.compare is over and the password matched.  Nothing asks whether  *)
(* the socket is still there.                                              *)
LoginDone(s) ==
  /\ \E c \in calls[s] :
       /\ c.kind = "login"
       /\ ~Refused(c.client)
       /\ Over(s, c)
       /\ SignedIn(s, c.client)
  /\ UNCHANGED <<accounts, banned, clock>>

(* bcrypt.hash is over and the name is still free. *)
RegisterDone(s) ==
  /\ \E c \in calls[s] :
       /\ c.kind = "register"
       /\ c.client[1] \notin accounts
       /\ Over(s, c)
       /\ accounts' = accounts \cup {c.client[1]}
       /\ SignedIn(s, c.client)
  /\ UNCHANGED <<banned, clock>>

(* A wrong password, a taken name, a ban, a cap: auth_failure. *)
AuthFailure(s) ==
  /\ \E c \in calls[s] : Over(s, c)
  /\ UNCHANGED <<status, signedIn, slotKey, slots, clients, records, rows, accounts, banned,
                 shown, clock>>

-----------------------------------------------------------------------------
(* Leaving.                                                                *)

(* Mutant: the entry is looked up by device alone. *)
Unregistered_AnySocket(s, k) == [clients EXCEPT ![k] = None]

(* unregisterDevice with the socket that is leaving: an entry that a newer *)
(* socket has taken over stays.                                            *)
Unregistered(s, k) == IF clients[k] = s THEN [clients EXCEPT ![k] = None] ELSE clients

Touched(table, k) ==
  IF table[k] = None THEN table ELSE [table EXCEPT ![k].lastActive = clock]

(* The close event: dispose and handleDisconnect. *)
CloseEvent(s) ==
  LET k == signedIn[s] IN
  /\ status[s] \in {"open", "closing", "cut"}
  /\ status' = [status EXCEPT ![s] = "closed"]
  /\ slots' = Released(slots, slotKey[s])
  /\ clients' = IF k = None THEN clients ELSE Unregistered(s, k)
  /\ IF k # None /\ clients[k] = s
     THEN /\ records' = Touched(records, k)
          /\ rows' = Touched(rows, k)
          /\ shown' = shown \ {k[1]}
     ELSE UNCHANGED <<records, rows, shown>>
  /\ UNCHANGED <<signedIn, slotKey, calls, accounts, banned, clock>>

(* Mutant: a silent socket is dropped without a word to anybody. *)
Announced_Never(u) == UNCHANGED shown

(* user_left goes out before the entry is gone. *)
Announced(u) == shown' = shown \ {u}

(* Mutant: the sweep only looks at sockets that are open. *)
Silent_OpenOnly(s) == status[s] = "open"

(* Nothing was heard for CLIENT_TIMEOUT: a dead socket never answers, and  *)
(* a live one may be silent for that long.                                 *)
Silent(s) == TRUE

(* The heartbeat sweep reaches one entry. *)
Sweep(k) ==
  /\ clients[k] # None
  /\ Silent(clients[k])
  /\ Announced(k[1])
  /\ status' = [status EXCEPT ![clients[k]] = IF @ = "closed" THEN @ ELSE "cut"]
  /\ clients' = [clients EXCEPT ![k] = None]
  /\ UNCHANGED <<signedIn, slotKey, calls, slots, records, rows, accounts, banned, clock>>

(* handleRevokeSession: the record, the row, and the socket if there is one. *)
RevokeDevice(k) ==
  /\ records[k] # None
  /\ records' = [records EXCEPT ![k].revoked = TRUE]
  /\ rows' = IF rows[k] = None THEN rows
             ELSE [rows EXCEPT ![k] = [lastActive |-> clock, revoked |-> TRUE]]
  /\ IF clients[k] # None
     THEN /\ shown' = shown \ {k[1]}
          /\ status' = Closing(status, {clients[k]})
          /\ clients' = [clients EXCEPT ![k] = None]
     ELSE UNCHANGED <<shown, status, clients>>
  /\ UNCHANGED <<signedIn, slotKey, calls, slots, accounts, banned, clock>>

(* revoke_session that names a device of the account. *)
Revoke(s) ==
  /\ Reading(s)
  /\ signedIn[s] # None
  /\ \E d \in Device : RevokeDevice(<<signedIn[s][1], d>>)

(* revoke_session that names none, which is what logout() sends. *)
SignOut(s) ==
  /\ Reading(s)
  /\ signedIn[s] # None
  /\ RevokeDevice(signedIn[s])

(* handleAdminBan. *)
Ban(u) ==
  /\ u \in accounts
  /\ banned' = banned \cup {u}
  /\ status' = Closing(status, {clients[k] : k \in DevicesOf(u)})
  /\ clients' = [k \in Client |-> IF k[1] = u THEN None ELSE clients[k]]
  /\ shown' = shown \ {u}
  /\ UNCHANGED <<signedIn, slotKey, calls, slots, records, rows, accounts, clock>>

(* handleAdminUnban. *)
Unban(u) ==
  /\ u \in banned
  /\ banned' = banned \ {u}
  /\ UNCHANGED <<status, signedIn, slotKey, calls, slots, clients, records, rows, accounts,
                 shown, clock>>

-----------------------------------------------------------------------------
(* Time and restarts.                                                      *)

Tick ==
  /\ clock < MaxClock
  /\ clock' = clock + 1
  /\ UNCHANGED <<status, signedIn, slotKey, calls, slots, clients, records, rows, accounts,
                 banned, shown>>

Expired(record) == record # None /\ record.lastActive < clock - InactiveTtl

(* pruneSessionRegistry, every minute: a filed device is kept whatever its age. *)
PruneRecords ==
  /\ \E k \in Client : Expired(records[k]) /\ clients[k] = None
  /\ records' = [k \in Client |->
       IF Expired(records[k]) /\ clients[k] = None THEN None ELSE records[k]]
  /\ UNCHANGED <<status, signedIn, slotKey, calls, slots, clients, rows, accounts, banned,
                 shown, clock>>

(* pruneInactiveSessions, every day. *)
PruneRows ==
  /\ \E k \in Client : Expired(rows[k])
  /\ rows' = [k \in Client |-> IF Expired(rows[k]) THEN None ELSE rows[k]]
  /\ UNCHANGED <<status, signedIn, slotKey, calls, slots, clients, records, accounts, banned,
                 shown, clock>>

(* What a SIGTERM still writes: the devices that are filed are active now. *)
FlushSessionWrites ==
  [k \in Client |-> IF clients[k] = None \/ rows[k] = None THEN rows[k]
                   ELSE [rows[k] EXCEPT !.lastActive = clock]]

(* The process is stopped or killed and comes back: only the database is   *)
(* left, and the registry is read back from it before anything asks for it.*)
Restart ==
  /\ \E s \in Socket : status[s] # "new"
  /\ rows' \in {rows, FlushSessionWrites}
  /\ status' = [s \in Socket |-> IF status[s] = "new" THEN "new" ELSE "closed"]
  /\ signedIn' = [s \in Socket |-> None]
  /\ slotKey' = [s \in Socket |-> None]
  /\ calls' = [s \in Socket |-> {}]
  /\ slots' = [k \in SlotKey |-> 0]
  /\ clients' = [k \in Client |-> None]
  /\ records' = rows'
  /\ shown' = {}
  /\ UNCHANGED <<accounts, banned, clock>>

Next ==
  \/ \E s \in Socket :
       \/ Connect(s)
       \/ LoginFrame(s)
       \/ RegisterFrame(s)
       \/ LoginDone(s)
       \/ RegisterDone(s)
       \/ AuthFailure(s)
       \/ CloseEvent(s)
       \/ SignOut(s)
       \/ Revoke(s)
  \/ \E k \in Client : Sweep(k)
  \/ \E u \in User : Ban(u) \/ Unban(u)
  \/ Tick
  \/ PruneRecords
  \/ PruneRows
  \/ Restart

Spec == Init /\ [][Next]_vars

(* The interval of the sweep comes round, and a socket that was told to    *)
(* close, or was cut, gets its close event.                                *)
Fairness ==
  /\ WF_vars(\E k \in Client : clients[k] # None /\ status[clients[k]] = "closed" /\ Sweep(k))
  /\ WF_vars(\E s \in Socket : status[s] \in {"closing", "cut"} /\ CloseEvent(s))

FairSpec == Spec /\ Fairness

-----------------------------------------------------------------------------
(* Properties.                                                             *)

(* Every variable holds what the code's declarations allow; no count of    *)
(* slots is ever negative.                                                 *)
TypeOK ==
  /\ status \in [Socket -> Status]
  /\ signedIn \in [Socket -> Client \cup {None}]
  /\ slotKey \in [Socket -> SlotKey \cup {None}]
  /\ calls \in [Socket -> SUBSET Call]
  /\ slots \in [SlotKey -> Nat]
  /\ clients \in [Client -> Socket \cup {None}]
  /\ records \in [Client -> Record \cup {None}]
  /\ rows \in [Client -> Record \cup {None}]
  /\ accounts \in SUBSET User
  /\ banned \in SUBSET User
  /\ shown \in SUBSET User
  /\ clock \in Nat

(* While no record is old enough to be dropped, an account never has more  *)
(* devices that may sign in than the cap, two sign-ins of two devices in   *)
(* bcrypt at once and a restart included (sessionCapReached).  Later the   *)
(* cap may be passed: a device the process has dropped, and whose place was*)
(* taken, is back after a restart if its row was still there.              *)
SessionCap ==
  clock <= InactiveTtl =>
    \A u \in User :
      Cardinality({k \in DevicesOf(u) : records[k] # None /\ ~records[k].revoked}) <= MaxSessions

(* Nobody is filed whom the server has turned away: no sign-in that was in *)
(* bcrypt when its device was revoked or its account banned comes through. *)
FiledIsWelcome ==
  \A k \in Client : clients[k] # None =>
    /\ k[1] \notin banned
    /\ records[k] # None /\ ~records[k].revoked

(* A socket that is open and signed in is the one its device is filed      *)
(* under, so it is reached by what is sent to that device: the close of    *)
(* the socket a reload replaced, a sign-in of another account with the     *)
(* same device id or a second sign-in on the socket never makes it deaf    *)
(* (unregisterDevice's expectedWs, the test connection-caps.test.ts:53).   *)
NobodyGoesDeaf ==
  \A s \in Socket :
    status[s] = "open" /\ signedIn[s] # None => clients[signedIn[s]] = s

(* An account none of whose devices is filed is not on anybody's screen as *)
(* online: every way out of the registry says so (the comments in the      *)
(* sweep and in handleRevokeSession tell of paths that did not).           *)
OfflineIsShown ==
  \A u \in shown : \E k \in DevicesOf(u) : clients[k] # None

(* A socket that is gone does not stay filed, not even one whose sign-in   *)
(* was in bcrypt when it closed.                                           *)
DeadEntriesSwept ==
  \A s \in Socket : status[s] = "closed" ~> \A k \in Client : clients[k] # s

-----------------------------------------------------------------------------
(* What the comments promise and the code does not keep.  One of these is  *)
(* checked by a run that ends in its violation; README.md says where the   *)
(* others fail.                                                            *)

(* No step takes a revocation back while the table has to remember it: the *)
(* row says revoked until it is old enough to be deleted.  (The comment    *)
(* above registerSession: "revocation is the one thing in this table that a*)
(* later login by the same account must not undo".)                        *)
RevocationIsKept ==
  [][\A k \in Client :
       rows[k] # None /\ rows[k].revoked /\ ~Expired(rows[k])
         => rows'[k] # None /\ rows'[k].revoked]_vars

(* Signing out lets go of the slot and nothing else: the device may sign in*)
(* again.  (The comment in logout() of App.tsx: "The device id stays",     *)
(* "Signing out revokes the session, which frees the slot; the device keeps*)
(* its identity".)                                                         *)
SignedOutMayReturn ==
  [][\A s \in Socket : SignOut(s) => ~SessionCapReached(signedIn[s])']_vars

(* A key holds as many slots as there are sockets that count against it:   *)
(* the comments above claimConnection and MAX_CONNECTIONS_PER_USER.        *)
SlotsMatchSockets ==
  \A key \in SlotKey :
    slots[key] = Cardinality({s \in Socket :
      slotKey[s] = key /\ status[s] \in {"open", "closing", "cut"}})

(* A socket is filed once (the comment in the auth_login case). *)
FiledOnce ==
  \A k, j \in Client : clients[k] # None /\ clients[k] = clients[j] => k = j

(* An account with a device that is connected is shown as online. *)
OnlineIsShown ==
  \A k \in Client : clients[k] # None /\ status[clients[k]] = "open" => k[1] \in shown

=============================================================================
