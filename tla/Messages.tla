------------------------------- MODULE Messages -------------------------------
(***************************************************************************)
(* The messages of one conversation on the server: the handlers of         *)
(* server/handlers.ts for sending, correcting, deleting, reacting, paging  *)
(* and blocking, and the messages and reactions tables of                  *)
(* server/database.ts.                                                     *)
(*                                                                         *)
(* The handlers are async, but every database call in them is synchronous: *)
(* an await costs a turn of the microtask queue and nothing else.  So the  *)
(* frames of one socket that arrive in one read interleave at their        *)
(* awaits, first come first served, and nothing else of the process runs   *)
(* before all of them are done.  "tasks" is that queue; a task holds the   *)
(* stages its handler has left.                                            *)
(*                                                                         *)
(* A text is the number it was written under.  A body is a sealed text:    *)
(* "gets" are the devices the server hands it to, "opens" those that hold  *)
(* the keys for it (how they come to is Handshake, and Session).           *)
(***************************************************************************)
EXTENDS Integers, FiniteSets, Sequences

CONSTANTS
  Users,       \* the two ends of the conversation
  Devices,
  OwnerOf,     \* OwnerOf[d]: the account that is signed in on d
  None,
  Emoji,
  PageSize,    \* rows in a page of history
  FirstPage,   \* rows in the history of the public channel that a sign-in sends
  MaxReactions,\* reactions the table keeps for one message
  Skew,        \* MAX_CLOCK_SKEW_MS
  Batch        \* CLEANUP_BATCH

ASSUME MessagesAssumption ==
  /\ OwnerOf \in [Devices -> Users]
  /\ None \notin Nat
  /\ {PageSize, FirstPage, MaxReactions, Batch} \subseteq Nat \ {0}
  /\ Skew \in Nat

VARIABLES
  channel,    \* "direct" or "public"
  \* the database
  rows,       \* the messages table: a function of the ids that are in it
  reactions,  \* the reactions table: triples of an id, an account and an emoji
  blocked,    \* pairs of accounts: who blocks whom
  \* in the memory of the process
  floor,      \* lastTimestampByChannel, None when the channel is not in it
  cleaning,   \* the clean-up that is between two batches
  conn,       \* the devices whose socket is open
  deep,       \* those with more in their send buffer than WS_SEND_BUFFER_LIMIT
  wire,       \* wire[d]: frames on the way to d
  tasks,      \* handlers in progress
  clock,
  \* remembered for checking
  made,       \* the device and the first text of each message ever accepted
  told,       \* told[d]: messages d was sent and has not evicted
  astray      \* astray[d]: messages d may be wrong about, for a frame that did not reach it in order

table == <<rows, reactions, blocked>>
memory == <<floor, cleaning>>
sockets == <<conn, deep>>
server == <<channel, table, memory, sockets, wire, tasks, clock, made, told, astray>>

Direct == channel = "direct"

Ids == DOMAIN rows

Own(d, id) == OwnerOf[made[id].from] = OwnerOf[d]

Drop(f, S) == [x \in DOMAIN f \ S |-> f[x]]

-----------------------------------------------------------------------------
(* The tables.                                                             *)

(* Mutant: the floor of a channel not written to since the start is taken as nothing. *)
Floor_Forgotten == IF floor = None THEN 0 ELSE floor

(* lastTimestampByChannel, seeded with MAX(timestamp). *)
Floor ==
  IF floor # None THEN floor
  ELSE IF Ids = {} THEN 0
  ELSE rows[CHOOSE i \in Ids : \A j \in Ids : rows[j].at <= rows[i].at].at

(* monotonicTimestamp: the time claimed, when it is not too far ahead and later than the last. *)
Stamp(wanted) ==
  LET claim == IF wanted <= clock + Skew THEN wanted ELSE clock + Skew
  IN IF claim > Floor THEN claim ELSE Floor + 1

(* The newest n of a set of rows, oldest first: ORDER BY timestamp DESC LIMIT n, reversed. *)
NewestOf(S, n) ==
  LET kept == {i \in S : Cardinality({j \in S : rows[j].at > rows[i].at}) < n}
      place(i) == Cardinality({j \in kept : rows[j].at <= rows[i].at})
  IN [k \in 1 .. Cardinality(kept) |-> CHOOSE i \in kept : place(i) = k]

(* bodyForDevice, routeForDevice: one device's body out of a fan-out. *)
BodyFor(body, d) == IF d \in body.gets THEN body ELSE None

(* getReactionsForMessage. *)
ReactionsTo(id) == {<<r[2], r[3]>> : r \in {x \in reactions : x[1] = id}}

Entry(id, d) ==
  [id |-> id, at |-> rows[id].at, body |-> BodyFor(rows[id].body, d), reacts |-> ReactionsTo(id)]

(* getDmHistory, getRecentMessages. *)
Page(d, before, size) ==
  LET found == NewestOf({i \in Ids : before = None \/ rows[i].at < before}, size)
  IN [k \in DOMAIN found |-> Entry(found[k], d)]

Frames(d, page, older, size) ==
  [kind |-> "page", older |-> older, more |-> Len(page) = size, entries |-> page]

PageIds(page) == {page[k].id : k \in DOMAIN page}

(* What a page says of a message and the table no longer does. *)
Stale(page) ==
  {page[k].id : k \in {k \in DOMAIN page :
     \/ page[k].id \notin Ids
     \/ page[k].body # None /\ page[k].body # rows[page[k].id].body
     \/ page[k].reacts # ReactionsTo(page[k].id)}}

-----------------------------------------------------------------------------
(* Handing frames out.                                                     *)

(* send and broadcast skip a socket with a deep buffer; deliverToChannel writes to it all the same. *)
Ready == conn \ deep

(* deliverToChannel. *)
Reach == IF Direct THEN conn ELSE Ready

(* What follows a message: a correction, a deletion, a reaction.  Who misses it is astray. *)
Announce(id, S, frame) ==
  /\ wire' = [d \in Devices |-> IF d \in S THEN Append(wire[d], frame[d]) ELSE wire[d]]
  /\ astray' = [d \in Devices |-> IF d \in S THEN astray[d] ELSE astray[d] \cup {id}]

ToAll(frame) == [d \in Devices |-> frame]

(* A page goes to the device that asked, when its buffer takes it. *)
Answer(d, page, older, size) ==
  IF d \in Ready
  THEN /\ wire' = [wire EXCEPT ![d] = Append(@, Frames(d, page, older, size))]
       /\ told' = [told EXCEPT ![d] = @ \cup PageIds(page)]
       /\ astray' = [astray EXCEPT ![d] = @ \cup Stale(page)]
  ELSE UNCHANGED <<wire, told, astray>>

-----------------------------------------------------------------------------
(* The handlers, stage by stage.  A stage runs up to the next await.       *)

(* What comes after n turns.  Turns matter only next to another handler. *)
After(n, alone, stages) == IF alone THEN stages ELSE [k \in 1 .. n |-> "wait"] \o stages

(* What a handler does, one stage for each turn. *)
Stages(call, alone) ==
  CASE call.op = "post" ->
         After(IF Direct THEN 4 ELSE 0, alone, <<"stamp">>
           \o After(IF call.quote = None THEN 0 ELSE 1, alone, <<"save">>
             \o After(2, alone, <<"deliver">>)))
    [] call.op = "edit" -> IF Direct THEN <<"read", "update", "audience", "deliver">>
                                     ELSE <<"read", "update", "deliver">>
    [] call.op = "delete" -> <<"read", "remove", "deliver">>
    [] call.op = "react" -> <<"read", "write">> \o After(1, alone, <<"audience", "deliver">>)
    [] call.op = "page" -> IF Direct
                           THEN <<"rows">> \o After(3, alone, <<"reacts">> \o After(1, alone, <<"deliver">>))
                           ELSE <<"rows">> \o After(2, alone, <<"reacts", "deliver">>)
    [] call.op = "block" -> After(1, alone, <<"block">>)

Task(d, call, alone) ==
  [d |-> d, call |-> call, id |-> None, at |-> None, page |-> <<>>, todo |-> Stages(call, alone)]

(* A read from one socket: its frames start one after the other. *)
Arrive(d, calls) ==
  /\ tasks = <<>> /\ d \in conn
  /\ tasks' = [i \in DOMAIN calls |-> Task(d, calls[i], Len(calls) = 1)]
  /\ UNCHANGED <<channel, table, memory, sockets, wire, clock, made, told, astray>>

At(stage, op) == tasks # <<>> /\ tasks[1].todo[1] = stage /\ tasks[1].call.op \in op

Now == tasks[1]

(* The handler goes on behind the others, or is done. *)
GoOn(task) ==
  tasks' = Tail(tasks) \o (IF Len(task.todo) = 1 THEN <<>> ELSE <<[task EXCEPT !.todo = Tail(@)]>>)

(* An early return. *)
Return == tasks' = Tail(tasks)

Wait ==
  /\ At("wait", {"post", "react", "page", "block"})
  /\ GoOn(Now)
  /\ UNCHANGED <<channel, table, memory, sockets, wire, clock, made, told, astray>>

Author == OwnerOf[Now.d]

Refused == Direct /\ \E u \in Users \ {Author} : <<u, Author>> \in blocked \/ <<Author, u>> \in blocked

(* handleDmSend and handleChatMessage up to resolveQuote: the id and the time are chosen here. *)
StampPost ==
  /\ At("stamp", {"post"})
  /\ IF Refused
     THEN Return /\ UNCHANGED made
     ELSE /\ made' = Append(made, [from |-> Now.d, word |-> Now.call.body.word])
          /\ GoOn([Now EXCEPT !.id = Len(made) + 1, !.at = clock,
                            !.call.quote = IF @ \in Ids THEN @ ELSE None])
  /\ UNCHANGED <<channel, table, memory, sockets, wire, clock, told, astray>>

(* saveMessage. *)
Save ==
  /\ At("save", {"post"})
  /\ rows' = [i \in Ids \cup {Now.id} |->
                IF i = Now.id
                THEN [at |-> Stamp(Now.at), body |-> Now.call.body,
                      quote |-> Now.call.quote,
                      expires |-> IF Now.call.ttl = None THEN None ELSE Now.at + Now.call.ttl]
                ELSE rows[i]]
  /\ floor' = Stamp(Now.at)
  /\ GoOn(Now)
  /\ UNCHANGED <<channel, reactions, blocked, cleaning, sockets, wire, clock, made, told, astray>>

(* Every device of both accounts, the one that sent included. *)
Fanout == Ready

(* The frame carries the time that was claimed, not the one that was stored. *)
DeliverPost ==
  /\ At("deliver", {"post"})
  /\ wire' = [d \in Devices |->
                IF d \in Fanout
                THEN Append(wire[d], [kind |-> "post", id |-> Now.id, at |-> Now.at,
                                      body |-> BodyFor(Now.call.body, d)])
                ELSE wire[d]]
  /\ told' = [d \in Devices |-> IF d \in Ready THEN told[d] \cup {Now.id} ELSE told[d]]
  /\ GoOn(Now)
  /\ UNCHANGED <<channel, table, memory, sockets, clock, made, astray>>

(* getMessageById at the head of a handler, and the checks that follow it. *)
Read ==
  /\ At("read", {"edit", "delete", "react"})
  /\ IF Now.call.id \in Ids /\ (Now.call.op = "edit" => Own(Now.d, Now.call.id))
     THEN GoOn([Now EXCEPT !.id = Now.call.id])
     ELSE Return
  /\ UNCHANGED <<channel, table, memory, sockets, wire, clock, made, told, astray>>

Mine == Now.id \in Ids /\ Own(Now.d, Now.id)

(* updateEncryptedMessage, updateMessageText: of a message that is still there. *)
Update ==
  /\ At("update", {"edit"})
  /\ IF Mine
     THEN /\ rows' = [rows EXCEPT ![Now.id].body = Now.call.body,
                        ![Now.id].expires =
                          IF Direct /\ Now.call.ttl # None THEN clock + Now.call.ttl ELSE @]
          /\ GoOn(Now)
     ELSE Return /\ UNCHANGED rows
  /\ UNCHANGED <<channel, reactions, blocked, memory, sockets, wire, clock, made, told, astray>>

(* deleteMessage: the row, and its reactions when the row was the caller's. *)
Remove ==
  /\ At("remove", {"delete"})
  /\ IF Mine
     THEN /\ rows' = Drop(rows, {Now.id})
          /\ reactions' = {r \in reactions : r[1] # Now.id}
          /\ GoOn(Now)
     ELSE Return /\ UNCHANGED <<rows, reactions>>
  /\ UNCHANGED <<channel, blocked, memory, sockets, wire, clock, made, told, astray>>

(* addReaction, removeReaction.  At the cap nothing is stored, and the frame goes out all the same. *)
Write ==
  /\ At("write", {"react"})
  /\ LET full == Cardinality({r \in reactions : r[1] = Now.id}) >= MaxReactions
         others == {r \in reactions : ~ (r[1] = Now.id /\ r[2] = Author)}
         new == <<Now.id, Author, Now.call.emoji>>
     IN /\ reactions' = IF ~ Now.call.add THEN reactions \ {new}
                        ELSE IF full THEN reactions
                        ELSE others \cup {new}
        /\ astray' = IF Now.call.add /\ full
                     THEN [d \in Devices |-> astray[d] \cup {Now.id}] ELSE astray
  /\ GoOn(Now)
  /\ UNCHANGED <<channel, rows, blocked, memory, sockets, wire, clock, made, told>>

(* Mutant: the audience taken from the row that was read at the start. *)
Audience_AtStart ==
  /\ At("audience", {"edit", "react"})
  /\ GoOn(Now)
  /\ UNCHANGED <<channel, table, memory, sockets, wire, clock, made, told, astray>>

(* broadcastToMessageAudience: the row is read again, and when it is gone nobody is told. *)
Audience ==
  /\ At("audience", {"edit", "react"})
  /\ IF Now.id \in Ids THEN GoOn(Now) ELSE Return
  /\ UNCHANGED <<channel, table, memory, sockets, wire, clock, made, told, astray>>

News ==
  CASE Now.call.op = "delete" -> ToAll([kind |-> "gone", id |-> Now.id])
    [] Now.call.op = "react" -> ToAll([kind |-> "react", id |-> Now.id, user |-> Author,
                                       emoji |-> Now.call.emoji, add |-> Now.call.add])
    [] Now.call.op = "edit" -> [d \in Devices |->
         [kind |-> "edit", id |-> Now.id, body |-> BodyFor(Now.call.body, d)]]

DeliverNews ==
  /\ At("deliver", {"edit", "delete", "react"})
  /\ Announce(Now.id, Reach, News)
  /\ GoOn(Now)
  /\ UNCHANGED <<channel, table, memory, sockets, clock, made, told>>

(* handleDmHistory, handleChatHistory: the rows first, *)
ReadRows ==
  /\ At("rows", {"page"})
  /\ GoOn([Now EXCEPT !.page = Page(Now.d, Now.call.before, PageSize)])
  /\ UNCHANGED <<channel, table, memory, sockets, wire, clock, made, told, astray>>

(* their reactions some awaits later, *)
ReadReactions ==
  /\ At("reacts", {"page"})
  /\ GoOn([Now EXCEPT !.page =
             [k \in DOMAIN Now.page |-> [Now.page[k] EXCEPT !.reacts = ReactionsTo(Now.page[k].id)]]])
  /\ UNCHANGED <<channel, table, memory, sockets, wire, clock, made, told, astray>>

(* and the page as it was then. *)
DeliverPage ==
  /\ At("deliver", {"page"})
  /\ Answer(Now.d, Now.page, Now.call.before # None, PageSize)
  /\ GoOn(Now)
  /\ UNCHANGED <<channel, table, memory, sockets, clock, made>>

(* setUserBlocked, for handleBlockUser and handleUnblockUser. *)
Block ==
  /\ At("block", {"block"})
  /\ \E u \in Users \ {Author} :
       blocked' = IF Now.call.on THEN blocked \cup {<<Author, u>>} ELSE blocked \ {<<Author, u>>}
  /\ GoOn(Now)
  /\ UNCHANGED <<channel, rows, reactions, memory, sockets, wire, clock, made, told, astray>>

Step ==
  \/ Wait \/ StampPost \/ Save \/ DeliverPost
  \/ Read \/ Update \/ Remove \/ Write \/ Audience \/ DeliverNews
  \/ ReadRows \/ ReadReactions \/ DeliverPage
  \/ Block

-----------------------------------------------------------------------------
(* Clean-up, sockets, time.                                                *)

Idle == tasks = <<>>

(* cleanupExpiredMessages fixes its cutoff; scheduleWeeklyCleanup calls deleteGeneralMessages. *)
StartCleaning(what) ==
  /\ Idle /\ cleaning = None
  /\ what = "week" => ~ Direct
  /\ cleaning' = [what |-> what, cutoff |-> clock]
  /\ UNCHANGED <<channel, table, floor, sockets, wire, tasks, clock, made, told, astray>>

Due ==
  IF cleaning.what = "week" THEN Ids
  ELSE {i \in Ids : rows[i].expires # None /\ rows[i].expires <= cleaning.cutoff}

(* The soonest to expire, as many as a batch takes. *)
Slice(S) ==
  /\ S \subseteq Due
  /\ Cardinality(S) = IF Cardinality(Due) < Batch THEN Cardinality(Due) ELSE Batch
  /\ cleaning.what = "expired" => \A i \in S, j \in Due \ S : rows[i].expires <= rows[j].expires

Last(S) == Cardinality(S) < Batch

(* One batch, and the loop is handed back unless it was the last.  Only the week is announced. *)
Clean ==
  /\ Idle /\ cleaning # None
  /\ \E S \in SUBSET Ids :
       /\ Slice(S)
       /\ rows' = Drop(rows, S)
       /\ reactions' = {r \in reactions : r[1] \notin S}
       /\ cleaning' = IF Last(S) THEN None ELSE cleaning
       /\ astray' = [d \in Devices |-> astray[d] \cup S]
       /\ IF cleaning.what = "week" /\ Last(S)
          THEN /\ wire' = [d \in Devices |->
                             IF d \in Ready THEN Append(wire[d], [kind |-> "cleared"]) ELSE wire[d]]
               /\ told' = [d \in Devices |-> IF d \in Ready THEN told[d] \cap DOMAIN rows' ELSE told[d]]
          ELSE UNCHANGED <<wire, told>>
  /\ UNCHANGED <<channel, blocked, floor, sockets, tasks, clock, made>>

Mentioned(f) == IF f.kind = "page" THEN PageIds(f.entries) ELSE IF f.kind = "cleared" THEN {} ELSE {f.id}

OnTheWay(d) == UNION {Mentioned(wire[d][k]) : k \in DOMAIN wire[d]}

(* What is still on the way to a device when its socket closes never arrives. *)
Close(S) ==
  /\ conn' = conn \ S
  /\ deep' = deep \ S
  /\ wire' = [d \in Devices |-> IF d \in S THEN <<>> ELSE wire[d]]

Disconnect(d) ==
  /\ Idle /\ d \in conn
  /\ Close({d})
  /\ astray' = [astray EXCEPT ![d] = @ \cup OnTheWay(d)]
  /\ UNCHANGED <<channel, table, memory, tasks, clock, made, told>>

(* onAuthenticated: the public history is sent at sign-in, a direct conversation when it is opened. *)
Connect(d) ==
  /\ Idle /\ d \notin conn
  /\ conn' = conn \cup {d}
  /\ IF Direct THEN UNCHANGED <<wire, told, astray>>
     ELSE LET page == Page(d, None, FirstPage) IN
          /\ wire' = [wire EXCEPT ![d] = <<Frames(d, page, FALSE, FirstPage)>>]
          /\ told' = [told EXCEPT ![d] = PageIds(page)]
          /\ astray' = [astray EXCEPT ![d] = {}]
  /\ UNCHANGED <<channel, table, memory, deep, tasks, clock, made>>

(* The process ends between any two stages and starts again with the database. *)
Restart ==
  /\ Close(conn)
  /\ astray' = [d \in Devices |-> astray[d] \cup OnTheWay(d) \cup {tasks[k].id : k \in DOMAIN tasks}]
  /\ tasks' = <<>> /\ floor' = None /\ cleaning' = None
  /\ UNCHANGED <<channel, table, clock, made, told>>

(* Another channel took this one's place in lastTimestampByChannel. *)
Untrack ==
  /\ Idle /\ floor # None /\ floor' = None
  /\ UNCHANGED <<channel, table, cleaning, sockets, wire, tasks, clock, made, told, astray>>

(* A device stops reading: its frames pile up. *)
Stall(d) ==
  /\ Idle /\ d \in conn \ deep /\ wire[d] # <<>>
  /\ deep' = deep \cup {d}
  /\ UNCHANGED <<channel, table, memory, conn, wire, tasks, clock, made, told, astray>>

(* The wall clock, which may be set back. *)
SetClock(now) ==
  /\ Idle /\ clock' = now
  /\ UNCHANGED <<channel, table, memory, sockets, wire, tasks, made, told, astray>>

ServerInit ==
  /\ rows = <<>> /\ reactions = {} /\ blocked = {}
  /\ floor = None /\ cleaning = None
  /\ deep = {} /\ wire = [d \in Devices |-> <<>>]
  /\ tasks = <<>> /\ clock = 2 /\ made = <<>>
  /\ told = [d \in Devices |-> {}] /\ astray = [d \in Devices |-> {}]

-----------------------------------------------------------------------------
(* Properties of the server.                                               *)

(* No two rows share a timestamp, so a page that starts below one row ends just above another:    *)
(* monotonicTimestamp, across restarts, channels pushed out of its map and clocks set back.       *)
RowsApart == \A i, j \in Ids : i # j => rows[i].at # rows[j].at

(* After a device was told a message is gone nothing live about it follows: handlers of one read  *)
(* overlap, and a reaction or a correction that lost the race to a deletion is not announced.     *)
DeletedIsLast ==
  \A d \in Devices : \A k, l \in DOMAIN wire[d] :
    wire[d][k].kind = "gone" /\ l > k /\ wire[d][l].kind \in {"post", "edit", "react"} =>
      wire[d][l].id # wire[d][k].id
=============================================================================
