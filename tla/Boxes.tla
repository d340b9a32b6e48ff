------------------------------- MODULE Boxes -------------------------------
(***************************************************************************)
(* The two encrypted boxes a device keeps under the account password: the  *)
(* words this account sent, which no ratchet can give back to the one who  *)
(* sealed them, and the drafts it has not sent.                            *)
(*                                                                         *)
(* A box lives twice.  The tab holds a Map, read synchronously; the disk   *)
(* holds what secureStore sealed under a key that takes PBKDF2 seconds to  *)
(* derive.  Every call here is the synchronous part of a function, as a    *)
(* map from one state of a box to the next; what an await separates is a   *)
(* writer or a reader in flight.  Module Vault makes the calls.            *)
(*                                                                         *)
(* A box is sealed under a password; its salt is made with the first write *)
(* and removed with the box, so it is not kept apart from it.              *)
(***************************************************************************)
EXTENDS Integers, Sequences, FiniteSets, SequencesExt

CONSTANTS
  None,
  Password,     \* the passwords in play
  MaxEntries,   \* MAX_ENTRIES of either box
  MaxTries      \* how often a draft write that failed is tried again by itself

ASSUME BoxesAssumption ==
  /\ MaxEntries \in Nat \ {0}
  /\ MaxTries \in Nat
  /\ None \notin Password

VARIABLES
  box,     \* the two boxes, each with its copy on disk
  legacy   \* localStorage: the channels whose draft an old build left in the clear

Box == {"own", "drafts"}

(* A box as a tab that has just loaded has it. *)
Closed(disk) ==
  [tab |-> <<>>, pass |-> None, dirty |-> FALSE, generation |-> 0, changes |-> 0,
   timer |-> FALSE, failures |-> 0, pending |-> <<>>, writer |-> None, readers |-> {},
   disk |-> disk]

-----------------------------------------------------------------------------
(* A Map in its insertion order.                                           *)

Put(entries, key, text) ==
  IF \E e \in Range(entries) : e.key = key
  THEN [i \in DOMAIN entries |->
          IF entries[i].key = key THEN [key |-> key, text |-> text] ELSE entries[i]]
  ELSE Append(entries, [key |-> key, text |-> text])

(* An entry is found by its key. *)
Without(entries, key) ==
  IF \E i \in DOMAIN entries : entries[i].key = key
  THEN RemoveAt(entries, CHOOSE i \in DOMAIN entries : entries[i].key = key)
  ELSE entries

(* The newest entries, the oldest dropped past the cap. *)
Newest(entries) ==
  SubSeq(entries, 1 + (IF Len(entries) > MaxEntries THEN Len(entries) - MaxEntries ELSE 0),
         Len(entries))

-----------------------------------------------------------------------------
(* secureStore: a box opens under the password it was sealed with, and a   *)
(* box that does not open reads as no box at all.                          *)

SecureGet(x, p) == IF p # None /\ x.disk # None /\ x.disk.pass = p THEN x.disk.entries ELSE None

SecureRemove(x) == [x EXCEPT !.disk = None]

(* hydrate up to its await. *)
Hydrating(x, p) ==
  [x EXCEPT !.readers = @ \cup {[generation |-> x.generation, stored |-> SecureGet(x, p)]}]

SchedulePersist(x) == [x EXCEPT !.timer = TRUE]

(* The chain `pending`: a write joins behind what is there. *)
Queue(x, job) == [x EXCEPT !.pending = Append(@, job)]

Flush(x) == Queue([x EXCEPT !.timer = FALSE], "persist")

-----------------------------------------------------------------------------
(* The box of sent words.                                                  *)

RememberOwnMessageText(x, id) ==
  SchedulePersist([x EXCEPT !.tab = Newest(Put(@, id, 0)), !.changes = @ + 1, !.dirty = TRUE])

(* setOwnMessageCachePassword: the load is not on the chain of writes. *)
SetOwnPassword(x, p) ==
  LET moved == [x EXCEPT !.generation = @ + 1, !.timer = FALSE, !.pass = p] IN
  IF p = x.pass THEN x
  ELSE IF p # None THEN Hydrating(moved, p)
  ELSE SecureRemove([moved EXCEPT !.tab = <<>>, !.dirty = FALSE])

ForgetOwnMessages(x) ==
  SecureRemove([x EXCEPT !.generation = @ + 1, !.timer = FALSE, !.tab = <<>>,
                         !.dirty = FALSE, !.changes = @ + 1])

(* rekeyOwnMessageCache: the tab becomes the contents of the box. *)
RekeyOwnMessageCache(x, p) ==
  Queue([x EXCEPT !.generation = @ + 1, !.timer = FALSE, !.pass = p, !.dirty = TRUE],
        "persist")

(* hydrate past its await. *)
OwnHydrated(x, r) ==
  LET done == [x EXCEPT !.readers = @ \ {r}] IN
  IF r.stored = None \/ r.generation # x.generation THEN done
  ELSE [done EXCEPT !.tab = FoldLeft(LAMBDA tab, e : Put(tab, e.key, e.text), @, r.stored)]

-----------------------------------------------------------------------------
(* The drafts.                                                             *)

(* setDraft: the channel moves to the end, and no text takes it out. *)
SetDraft(x, channel, text) ==
  LET rest == Without(x.tab, channel)
      typed == [x EXCEPT !.tab = IF text = None THEN rest
                                 ELSE Newest(Put(rest, channel, text))]
  IN IF x.pass = None THEN typed
     ELSE SchedulePersist([typed EXCEPT !.changes = @ + 1, !.dirty = TRUE, !.failures = 0])

(* setDraftsPassword: the load is on the chain, and what the tab holds is  *)
(* sealed again under the new password.                                    *)
SetDraftsPassword(x, p) ==
  LET moved == [x EXCEPT !.generation = @ + 1, !.pass = p]
      loading == Queue(moved, "hydrate")
  IN IF p = x.pass THEN x
     ELSE IF p = None THEN SecureRemove([moved EXCEPT !.tab = <<>>, !.dirty = FALSE])
     ELSE IF x.tab = <<>> THEN loading
     ELSE SchedulePersist([loading EXCEPT !.dirty = TRUE])

ForgetDrafts(x) ==
  SecureRemove([x EXCEPT !.timer = FALSE, !.generation = @ + 1, !.tab = <<>>,
                         !.dirty = FALSE])

(* The loop of hydrate: what the tab has after so many of the stored drafts,  *)
(* put over what was typed meanwhile, and no further than the cap.             *)
Merging(entries, stored) ==
  LET after[n \in 0 .. Len(stored)] ==
        IF n = 0 THEN entries
        ELSE IF n > 1 /\ Len(after[n - 1]) >= MaxEntries THEN after[n - 1]
        ELSE Put(after[n - 1], stored[n].key, stored[n].text)
  IN after

Merged(x, stored) == Merging(x.tab, stored)[Len(stored)]

(* The text of a draft that was left in the clear. *)
Swept == -1

(* sweepLegacyDrafts: a draft left in the clear goes in unless the box has *)
(* a better one.                                                           *)
SweepLegacyDrafts(x) ==
  LET swept == {c \in legacy : c \notin {e.key : e \in Range(x.tab)}} IN
  IF swept = {} THEN x
  ELSE SchedulePersist([x EXCEPT !.dirty = TRUE,
                                 !.tab = @ \o [i \in 1 .. Cardinality(swept) |->
                                                 [key |-> SetToSeq(swept)[i], text |-> Swept]]])

(* Mutant: a load does not ask whether the account is still the one it began for. *)
DraftsHydrated_Always(x, r) ==
  LET done == [x EXCEPT !.readers = @ \ {r}] IN
  SweepLegacyDrafts(IF r.stored = None THEN done
                    ELSE [done EXCEPT !.tab = Merged(x, r.stored)])

(* hydrate past its await. *)
DraftsHydrated(x, r) ==
  LET done == [x EXCEPT !.readers = @ \ {r}] IN
  IF r.generation # x.generation THEN done
  ELSE SweepLegacyDrafts(IF r.stored = None THEN done
                         ELSE [done EXCEPT !.tab = Merged(x, r.stored)])

-----------------------------------------------------------------------------
(* The steps a box takes by itself.                                        *)

(* A debounced write comes due. *)
TimerFires(b) ==
  /\ box[b].timer
  /\ box' = [box EXCEPT ![b] = Queue([@ EXCEPT !.timer = FALSE], "persist")]
  /\ UNCHANGED legacy

(* A link of the chain is still waiting on its await. *)
Busy(b) == box[b].writer # None \/ (b = "drafts" /\ box[b].readers # {})

(* persist up to its await: the snapshot, and what it is checked against. *)
Persisting(b, x) ==
  IF x.pass = None \/ ~x.dirty THEN x
  ELSE [x EXCEPT !.writer = [pass |-> x.pass, generation |-> x.generation,
                             changes |-> x.changes,
                             entries |-> IF b = "own" THEN Newest(x.tab) ELSE x.tab]]

(* The chain moves on to its next link. *)
NextJob(b) ==
  /\ ~Busy(b)
  /\ box[b].pending # <<>>
  /\ LET x == [box[b] EXCEPT !.pending = Tail(@)] IN
       box' = [box EXCEPT ![b] = IF Head(box[b].pending) = "persist" THEN Persisting(b, x)
                                 ELSE Hydrating(x, x.pass)]
  /\ UNCHANGED legacy

(* A write that did not land is tried again: the sent words for ever, the  *)
(* drafts a few times.                                                     *)
TryAgain(b, x) ==
  IF b = "own" THEN SchedulePersist(x)
  ELSE IF x.failures < MaxTries THEN SchedulePersist([x EXCEPT !.failures = @ + 1])
  ELSE x

(* Mutant: the flag is given up whatever was typed during the write. *)
Settled_Early(b, x, w, saved) ==
  IF saved THEN [x EXCEPT !.dirty = FALSE, !.failures = 0]
  ELSE IF w.changes = x.changes THEN TryAgain(b, x) ELSE x

(* persist once the write has landed, or has not, for the account it began under. *)
Settled(b, x, w, saved) ==
  IF w.changes # x.changes THEN x
  ELSE IF saved THEN [x EXCEPT !.dirty = FALSE, !.failures = 0]
  ELSE TryAgain(b, x)

(* persist past its await.  A write of an account that has been left is    *)
(* taken off the disk again.                                               *)
Persisted(b, saved) ==
  LET x == [box[b] EXCEPT !.writer = None]
      w == box[b].writer
      landed == IF saved THEN [x EXCEPT !.disk = [pass |-> w.pass, entries |-> w.entries]]
                ELSE x
  IN /\ w # None
     /\ box' = [box EXCEPT ![b] = IF w.generation # x.generation THEN SecureRemove(landed)
                                  ELSE Settled(b, landed, w, saved)]
     /\ UNCHANGED legacy

(* A load has its answer. *)
Hydrated(b) ==
  \E r \in box[b].readers :
    IF b = "own"
    THEN /\ box' = [box EXCEPT ![b] = OwnHydrated(@, r)]
         /\ UNCHANGED legacy
    ELSE /\ box' = [box EXCEPT ![b] = DraftsHydrated(@, r)]
         /\ legacy' = IF r.generation = box[b].generation THEN {} ELSE legacy
=============================================================================
