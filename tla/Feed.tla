--------------------------------- MODULE Feed ---------------------------------
(***************************************************************************)
(* A conversation on the screens of its members: the lists, pages and      *)
(* reactions that connectionReducer keeps in src/src/App.tsx, fed by the   *)
(* frames of Messages.                                                     *)
(*                                                                         *)
(* ws.onmessage is async.  A frame whose text has to be decrypted is a job *)
(* that finishes when WebCrypto does; a frame that needs no decryption is  *)
(* handled at once, and so overtakes the jobs that wait.  Bodies sealed by *)
(* one device are opened in order, for its session has a queue; others in  *)
(* any order.  A ratchet body opens once on a device, a property Session   *)
(* checks.                                                                 *)
(***************************************************************************)
EXTENDS Messages

CONSTANTS
  Cap,         \* MAX_MESSAGES
  CapHistory,  \* MAX_MESSAGES_HISTORY
  Scenario     \* bound: the kind of channel, who is connected, and how often each thing may happen

Counted == {"post", "edit", "delete", "react", "page", "block", "pair", "quote", "ttl", "tick", "back",
            "drop", "connect", "reload", "restart", "untrack", "stall", "expired", "week"}

ASSUME FeedAssumption ==
  /\ Cap \in Nat \ {0} /\ CapHistory \in Nat /\ Cap <= CapHistory
  /\ Scenario \subseteq [channel : {"direct", "public"}, on : SUBSET Devices,
                           targets : SUBSET (SUBSET Devices), left : [Counted -> Nat]]

VARIABLES
  list,    \* list[d]: the messages on d, oldest first
  window,  \* window[d]: the cursor, and whether there is more to load
  jobs,    \* jobs[d]: frames being decrypted, in the order they came in
  spent,   \* spent[d]: the ratchet bodies d has opened
  words,   \* texts written so far
  targets, \* bound: the sets of devices a text may be sealed for, {} when none is known
  left     \* what may still happen

client == <<list, window, jobs, spent>>
vars == <<server, client, words, targets, left>>

(* What a bubble shows: the number of a text, or one of these. *)
Blank == 0
Sealed == -1     \* '[encrypted]'
Elsewhere == -2  \* t('not_for_this_device')

Spend(what) == left[what] > 0 /\ left' = [left EXCEPT ![what] = @ - 1]

Listed(l) == {l[k].id : k \in DOMAIN l}

-----------------------------------------------------------------------------
(* Reading.                                                                *)

Opens(d, body) == d \in body.opens /\ (body.sort = "ratchet" => body.word \notin spent[d])

(* recallOwnMessageText: the words as they were first sent from this device, never a correction. *)
Recall(d, id, text) ==
  IF Own(d, id) /\ text \in {Blank, Sealed}
  THEN IF Direct /\ made[id].from = d THEN made[id].word ELSE Sealed
  ELSE text

(* readDmText of a message that shows "text"; of a public one, its text. *)
ReadText(d, id, body, text) ==
  IF body = None THEN Recall(d, id, text)
  ELSE IF Opens(d, body) THEN body.word
  ELSE Recall(d, id, IF text = Blank THEN Sealed ELSE text)

(* The text of a live frame: readDmText is asked only when there is a body. *)
LiveText(d, f) ==
  IF f.body # None THEN ReadText(d, f.id, f.body, Blank)
  ELSE IF Own(d, f.id) THEN Blank ELSE Elsewhere

Shown(d, page) ==
  [k \in DOMAIN page |->
     [id |-> page[k].id, at |-> page[k].at, reacts |-> page[k].reacts,
      shown |-> ReadText(d, page[k].id, page[k].body, Blank)]]

Bodies(f) ==
  CASE f.kind \in {"post", "edit"} -> {f.body} \ {None}
    [] f.kind = "page" -> {f.entries[k].body : k \in DOMAIN f.entries} \ {None}
    [] OTHER -> {}

(* Whether handling a frame awaits: a correction of a message not in the list is dropped at once. *)
Awaits(d, f) ==
  Direct /\ Bodies(f) # {} /\ (f.kind = "edit" => f.id \in Listed(list[d]))

(* The sessions of d, by device, whose queues a frame goes through: all when it does not open. *)
Lanes(d, f) ==
  UNION {IF Opens(d, b) THEN {b.from} ELSE Devices \ {d} : b \in {x \in Bodies(f) : x.sort = "ratchet"}}

-----------------------------------------------------------------------------
(* connectionReducer.                                                      *)

(* capMessages. *)
Capped(l, n) == IF Len(l) > n THEN SubSeq(l, Len(l) - n + 1, Len(l)) ELSE l

WindowFor(l, more) == [oldest |-> IF l = <<>> THEN None ELSE l[1].at, more |-> more]

(* Where a message goes that was sent at "at". *)
Place(l, e) ==
  LET before == Cardinality({k \in DOMAIN l : \A j \in 1 .. k : l[j].at <= e.at})
  IN SubSeq(l, 1, before) \o <<e>> \o SubSeq(l, before + 1, Len(l))

(* ADD_DM_MESSAGE, ADD_MESSAGE. *)
Added(l, e) ==
  IF ~ Direct THEN Append(l, e) ELSE IF e.id \in Listed(l) THEN l ELSE Place(l, e)

(* A stable sort by time. *)
Sorted(l) ==
  LET place(k) == Cardinality({j \in DOMAIN l : l[j].at < l[k].at \/ (l[j].at = l[k].at /\ j <= k)})
  IN [n \in DOMAIN l |-> l[CHOOSE k \in DOMAIN l : place(k) = n]]

(* Mutant: a history replaces what is there. *)
Merged_Replaced(l, page) == page

(* SET_DM_MESSAGES: what the history does not say stays, for it may have come in meanwhile. *)
Merged(l, page) ==
  IF l = <<>> THEN page
  ELSE Sorted(page \o SelectSeq(l, LAMBDA e : e.id \notin Listed(page)))

(* SET_MESSAGES, SET_DM_MESSAGES, PREPEND_MESSAGES, PREPEND_DM_MESSAGES, before the cap. *)
Paged(l, f, page) ==
  IF f.older THEN page \o l ELSE IF Direct THEN Merged(l, page) ELSE page

(* SET_MESSAGE_TEXT with UPDATE_MESSAGE: a correction without a body has no text. *)
Retold(l, id, text) == [k \in DOMAIN l |-> IF l[k].id = id THEN [l[k] EXCEPT !.shown = text] ELSE l[k]]

(* applyAddReaction, applyRemoveReaction: one of each person. *)
Applied(reacts, f) ==
  IF f.add THEN {r \in reacts : r[1] # f.user} \cup {<<f.user, f.emoji>>}
  ELSE reacts \ {<<f.user, f.emoji>>}

(* ADD_REACTION, REMOVE_REACTION. *)
Reacted(l, f) ==
  [k \in DOMAIN l |-> IF l[k].id # f.id THEN l[k] ELSE [l[k] EXCEPT !.reacts = Applied(@, f)]]

(* The list and the window of d after a frame; "was" is what an edited message showed when it came. *)
Handle(d, f, was) ==
  LET l == list[d]
      all == CASE f.kind = "post" ->
                    Added(l, [id |-> f.id, at |-> f.at, reacts |-> {}, shown |-> LiveText(d, f)])
               [] f.kind = "page" -> Paged(l, f, Shown(d, f.entries))
               [] f.kind = "edit" ->
                    Retold(l, f.id, IF f.body = None THEN Blank ELSE ReadText(d, f.id, f.body, was))
               [] f.kind = "gone" -> SelectSeq(l, LAMBDA e : e.id # f.id)
               [] f.kind = "react" -> Reacted(l, f)
               [] f.kind = "cleared" -> <<>>
      new == CASE f.kind = "post" -> Capped(all, Cap)
               [] f.kind = "page" -> Capped(all, IF f.older THEN CapHistory ELSE Cap)
               [] OTHER -> all
  IN /\ list' = [list EXCEPT ![d] = new]
     /\ window' = [window EXCEPT ![d] =
          CASE f.kind = "post" /\ all # l -> WindowFor(new, @.more)
            [] f.kind = "page" -> WindowFor(new, f.more)
            [] f.kind = "cleared" -> [oldest |-> None, more |-> TRUE]
            [] OTHER -> @]
     /\ spent' = [spent EXCEPT ![d] =
          @ \cup {b.word : b \in {x \in Bodies(f) : x.sort = "ratchet" /\ Opens(d, x)}}]
     /\ told' = [told EXCEPT ![d] = @ \ (Listed(all) \ Listed(new))]

-----------------------------------------------------------------------------
(* What a person does.                                                     *)

Bodied(d, sort, T, G) == [word |-> None, sort |-> sort, from |-> d, gets |-> G, opens |-> T]

Peers(d) == {e \in Devices : OwnerOf[e] # OwnerOf[d]}

(* sealForDevices: a body for each device it knows of, a bare one when there is one, an envelope  *)
(* when there is none for the peer.  The device that writes has no copy.                          *)
Sealings(d) ==
  IF ~ Direct THEN {Bodied(d, "plain", Devices, Devices)}
  ELSE {Bodied(d, "ratchet", T, IF Cardinality(T) = 1 THEN Devices ELSE T) :
          T \in {S \in targets : d \notin S /\ S \cap Peers(d) # {}}}
       \cup (IF {} \in targets THEN {Bodied(d, "envelope", Devices, Devices)} ELSE {})

Lifetimes == IF left["ttl"] > 0 THEN {None, 1} ELSE {None}

Quotable(d) == IF left["quote"] > 0 THEN {None} \cup Listed(list[d]) ELSE {None}

Calls(d) ==
  [op : {"post"}, body : Sealings(d), quote : Quotable(d), ttl : Lifetimes]
  \cup [op : {"edit"}, id : {i \in Listed(list[d]) : Own(d, i)}, body : Sealings(d), ttl : Lifetimes]
  \cup [op : {"delete"}, id : {i \in Listed(list[d]) : Own(d, i)}]
  \cup [op : {"react"}, id : Listed(list[d]), emoji : Emoji, add : BOOLEAN]
  \cup [op : {"page"}, before : (IF Direct THEN {None} ELSE {})
                                \cup (IF window[d].more THEN {window[d].oldest} \ {None} ELSE {})]
  \cup [op : {"block"}, on : BOOLEAN]

(* Each text that is written is a new one. *)
IsText(call) == call.op \in {"post", "edit"}

Written(calls) ==
  [i \in DOMAIN calls |->
     IF IsText(calls[i])
     THEN [calls[i] EXCEPT !.body.word = words + Cardinality({k \in 1 .. i : IsText(calls[k])})]
     ELSE calls[i]]

Press(d) ==
  \E first \in Calls(d), second \in {<<>>} \cup {<<c>> : c \in IF left["pair"] > 0 THEN Calls(d) ELSE {}} :
    LET calls == <<first>> \o second
        uses(what) == Cardinality({i \in DOMAIN calls : calls[i].op = what})
                      + IF what = "pair" /\ Len(calls) = 2 THEN 1 ELSE 0
    IN /\ \A what \in Counted : uses(what) <= left[what]
       /\ left' = [what \in Counted |-> left[what] - uses(what)]
       /\ Arrive(d, Written(calls))
       /\ words' = words + uses("post") + uses("edit")
       /\ UNCHANGED <<client, targets>>

(* The page is loaded again: the lists were in memory, the sessions and own texts in storage. *)
Reload(d) ==
  /\ Spend("reload")
  /\ Idle /\ Close({d})
  /\ told' = [told EXCEPT ![d] = {}]
  /\ astray' = [astray EXCEPT ![d] = {}]
  /\ list' = [list EXCEPT ![d] = <<>>]
  /\ window' = [window EXCEPT ![d] = [oldest |-> None, more |-> TRUE]]
  /\ jobs' = [jobs EXCEPT ![d] = <<>>]
  /\ UNCHANGED <<channel, table, memory, tasks, clock, made, spent, words, targets>>

-----------------------------------------------------------------------------
(* What the device does.                                                   *)

Pending(d) == UNION {Mentioned(jobs[d][k].frame) : k \in DOMAIN jobs[d]}

(* ws.onmessage. *)
Receive(d) ==
  /\ Idle /\ wire[d] # <<>>
  /\ LET f == Head(wire[d]) IN
     /\ IF Awaits(d, f)
        THEN /\ jobs' = [jobs EXCEPT ![d] = Append(@, [frame |-> f,
                  was |-> IF f.kind # "edit" THEN Blank
                          ELSE list[d][CHOOSE k \in DOMAIN list[d] : list[d][k].id = f.id].shown])]
             /\ UNCHANGED <<list, window, spent, told>>
        ELSE /\ IF Direct /\ f.kind = "edit" /\ f.body # None
                THEN UNCHANGED <<list, window, spent, told>>
                ELSE Handle(d, f, Blank)
             /\ UNCHANGED jobs
     /\ astray' = [astray EXCEPT ![d] = @ \cup (Mentioned(f) \cap Pending(d) \cap
                     IF f.kind \in {"post", "page"} THEN {} ELSE Listed(list[d]) \cup Pending(d))]
  /\ wire' = [wire EXCEPT ![d] = Tail(@)]
  /\ deep' = deep \ {d}
  /\ UNCHANGED <<channel, table, memory, conn, tasks, clock, made, words, targets, left>>

(* A frame whose bodies were opened, or would not open. *)
Finish(d) ==
  /\ Idle
  /\ \E k \in DOMAIN jobs[d] :
       /\ \A i \in 1 .. k - 1 : LET before == Lanes(d, jobs[d][i].frame) IN
            before = {} \/ ~ before \subseteq Lanes(d, jobs[d][k].frame)
       /\ Handle(d, jobs[d][k].frame, jobs[d][k].was)
       /\ jobs' = [jobs EXCEPT ![d] = SubSeq(@, 1, k - 1) \o SubSeq(@, k + 1, Len(@))]
  /\ UNCHANGED <<channel, table, memory, sockets, wire, tasks, clock, made, astray, words, targets, left>>

Others == UNCHANGED <<client, words, targets>>

Handlers == Step /\ Others /\ UNCHANGED left

World ==
  \/ \E d \in Devices : \/ Spend("drop") /\ Disconnect(d)
                        \/ Spend("connect") /\ Connect(d)
                        \/ Spend("stall") /\ Stall(d)
  \/ Spend("restart") /\ Restart
  \/ Spend("untrack") /\ Untrack
  \/ Spend("tick") /\ SetClock(clock + 1)
  \/ Spend("back") /\ clock > 1 /\ SetClock(clock - 1)
  \/ \E what \in {"expired", "week"} : Spend(what) /\ StartCleaning(what)
  \/ Clean /\ UNCHANGED left

Init ==
  /\ ServerInit
  /\ \E s \in Scenario : channel = s.channel /\ conn = s.on /\ targets = s.targets /\ left = s.left
  /\ list = [d \in Devices |-> <<>>]
  /\ window = [d \in Devices |-> [oldest |-> None, more |-> TRUE]]
  /\ jobs = [d \in Devices |-> <<>>]
  /\ spent = [d \in Devices |-> {}]
  /\ words = 0

Next ==
  \/ Handlers
  \/ World /\ Others
  \/ \E d \in Devices : Press(d) \/ Receive(d) \/ Finish(d) \/ Reload(d)

Spec == Init /\ [][Next]_vars

-----------------------------------------------------------------------------
(* Properties.                                                             *)

(* The state of the server and of the clients has the shape it should. *)
TypeOK ==
  /\ channel \in {"direct", "public"}
  /\ DOMAIN rows \subseteq 1 .. Len(made)
  /\ \A i \in DOMAIN rows : rows[i].at \in Nat /\ rows[i].body.word \in 1 .. words
  /\ floor \in Nat \cup {None}
  /\ \A i \in 1 .. Len(made) : Cardinality(ReactionsTo(i)) <= MaxReactions
  /\ deep \subseteq conn /\ conn \subseteq Devices
  /\ \A d \in Devices : /\ Len(list[d]) <= CapHistory
                        /\ Listed(list[d]) \subseteq 1 .. Len(made)
                        /\ \A k \in DOMAIN list[d] : list[d][k].shown \in -2 .. words

Quiet(d) == Idle /\ wire[d] = <<>> /\ jobs[d] = <<>>

Agrees(d, e) ==
  LET body == rows[e.id].body IN
  /\ e.reacts = ReactionsTo(e.id)
  /\ d \in body.opens => e.shown = body.word \/ (body.word \in spent[d] /\ e.shown = Sealed)

(* When nothing is on its way to a device, its list is the table: what it was sent and has not     *)
(* evicted is listed exactly when the row exists, with the words and the reactions of the row.     *)
(* Histories that arrive over live messages, frames that wait for their decryption and pages that  *)
(* were read before a deletion do no harm except to the messages named in astray.                  *)
QuietListsAgree ==
  \A d \in Devices : Quiet(d) => \A i \in told[d] \ astray[d] :
    /\ i \in Ids <=> i \in Listed(list[d])
    /\ i \in Ids => \A k \in DOMAIN list[d] : list[d][k].id = i => Agrees(d, list[d][k])

-----------------------------------------------------------------------------
(* What the comments promise and the code does not keep.  No run checks    *)
(* these; README.md says where they fail.                                  *)

(* "Merged with anything already here, not substituted": a message that could be read stays       *)
(* readable.  The rows of a history replace those of the list, and a ratchet body opens once.      *)
OpenedStaysOpen ==
  [][\A d \in Devices : \A k \in DOMAIN list[d], l \in DOMAIN list'[d] :
       list'[d][l].id = list[d][k].id /\ list[d][k].shown > 0 => list'[d][l].shown # Sealed]_vars

(* "The correction reaches the recipient as well as the sender": on the device that corrected. *)
CorrectionShows ==
  \A d \in Devices : Quiet(d) => \A k \in DOMAIN list[d] :
    LET e == list[d][k] IN
    e.id \in (Ids \cap told[d]) \ astray[d] /\ rows[e.id].body.from = d => e.shown = rows[e.id].body.word

(* "Remove this one everywhere at once": what is deleted is on no screen once all is quiet. *)
DeletedIsGone ==
  \A d \in Devices : Quiet(d) /\ d \in conn => \A i \in Listed(list[d]) : i \in Ids

(* "The same id can be added twice. Appending it again would show it repeated under itself." *)
NoRepeats == \A d \in Devices : Len(list[d]) = Cardinality(Listed(list[d]))

(* "Loading older derives its cursor from whatever is still in the array, so scrolling up again    *)
(* fetches what was evicted": no row between the ends of a list is missing from it.                *)
NoHoles ==
  \A d \in Devices : Quiet(d) /\ d \in conn => \A i \in Ids \ Listed(list[d]), j \in Ids \cap Listed(list[d]) :
    rows[i].at < rows[j].at => window[d].oldest # None /\ rows[i].at < window[d].oldest /\ window[d].more
=============================================================================
