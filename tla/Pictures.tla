------------------------------ MODULE Pictures ------------------------------
(***************************************************************************)
(* The decrypted attachments a tab holds, and the bubbles that draw them.  *)
(*                                                                         *)
(* An object URL keeps a whole decrypted file in memory until it is        *)
(* revoked.  The cache owns the URLs, counts the bubbles that draw each    *)
(* message, and gives up what nobody claims when it is over its count or   *)
(* its budget of bytes.  A bubble learns the URL in one step, draws it,    *)
(* and claims it in a later one, when React runs its effects; meanwhile    *)
(* other bubbles come and go and other decryptions land.                   *)
(***************************************************************************)
EXTENDS Integers, Sequences, FiniteSets

CONSTANTS
  Message,     \* the messages with an attachment
  SizeOf,      \* what each decrypts to
  Bubble,      \* places on the screen a message can be drawn in
  EntryLimit,  \* ENTRY_LIMIT
  ByteBudget,  \* BYTE_BUDGET
  PicScenario, \* bounds: how often each thing may happen
  Null

ASSUME PicturesAssumption ==
  /\ Null \notin Nat /\ Null \notin Message
  /\ SizeOf \in [Message -> Nat]
  /\ IsFiniteSet(Bubble)
  /\ EntryLimit \in Nat
  /\ ByteBudget \in Nat
  /\ PicScenario \subseteq [{"mount", "change", "signOut"} -> Nat]

VARIABLES
  cache,    \* the MediaCache, and the object URLs the browser still keeps
  bubble,   \* what each bubble has: its message, the decryption it waits for, the URL it
            \* draws, the URL its claim was made for
  opening,  \* decryptions in flight
  made,     \* decryptions started so far
  exposed,  \* history: messages with two bubbles or two decryptions at one time, or drawn from
            \* the cache while nobody claimed them
  picLeft   \* what of the scenario's bounds is left

picVars == <<cache, bubble, opening, made, exposed, picLeft>>

PicSpend(what) == picLeft[what] > 0 /\ picLeft' = [picLeft EXCEPT ![what] = @ - 1]

Empty ==
  [entries |-> <<>>, total |-> 0, refs |-> [m \in Message |-> 0], adopted |-> {},
   pending |-> [m \in Message |-> {}], live |-> {}]

NoBubble == [of |-> Null, waits |-> Null, url |-> Null, kept |-> Null]

PicInit ==
  /\ cache = Empty
  /\ bubble = [b \in Bubble |-> NoBubble]
  /\ opening = {}
  /\ made = 0
  /\ exposed = {}
  /\ picLeft \in PicScenario

-----------------------------------------------------------------------------
(* The cache.                                                              *)

Has(c, m) == \E i \in DOMAIN c.entries : c.entries[i].of = m

At(c, m) == CHOOSE i \in DOMAIN c.entries : c.entries[i].of = m

Exceeds(count, total) == count > EntryLimit \/ total > ByteBudget

Over(c) == Exceeds(Len(c.entries), c.total)

(* Oldest first, whatever nobody claims, until both ceilings are met: the  *)
(* cache after each of its entries was looked at, the rest still to come.  *)
(* Mutant: what is claimed goes as well.  *)
Evicting_Shown(c) ==
  LET looked[k \in 0 .. Len(c.entries)] ==
        IF k = 0 THEN [c EXCEPT !.entries = <<>>]
        ELSE LET d == looked[k - 1]
                 e == c.entries[k]
             IN IF Exceeds(Len(d.entries) + Len(c.entries) - k + 1, d.total)
                THEN [d EXCEPT !.total = @ - e.size, !.live = @ \ {e.url}]
                ELSE [d EXCEPT !.entries = Append(@, e)]
  IN looked

Evicting(c) ==
  LET looked[k \in 0 .. Len(c.entries)] ==
        IF k = 0 THEN [c EXCEPT !.entries = <<>>]
        ELSE LET d == looked[k - 1]
                 e == c.entries[k]
             IN IF /\ Exceeds(Len(d.entries) + Len(c.entries) - k + 1, d.total)
                   /\ c.refs[e.of] = 0
                THEN [d EXCEPT !.total = @ - e.size, !.live = @ \ {e.url}]
                ELSE [d EXCEPT !.entries = Append(@, e)]
  IN looked

Evict(c) == Evicting(c)[Len(c.entries)]

(* The entry this one replaces is taken out of the books, and its URL goes *)
(* unless a bubble has adopted the claim.                                  *)
(* Mutant: of the URLs replaced on the screen the list keeps one.  *)
Replaced_One(c, m) ==
  LET old == c.entries[At(c, m)]
  IN IF m \in c.adopted
     THEN [c EXCEPT !.total = @ - old.size, !.adopted = @ \ {m},
                    !.pending[m] = {old.url}]
     ELSE [c EXCEPT !.total = @ - old.size, !.adopted = @ \ {m},
                    !.live = @ \ (c.pending[m] \cup {old.url}),
                    !.pending[m] = {}]

Replaced(c, m) ==
  LET old == c.entries[At(c, m)]
  IN IF m \in c.adopted
     THEN [c EXCEPT !.total = @ - old.size, !.adopted = @ \ {m},
                    !.pending[m] = @ \cup {old.url}]
     ELSE [c EXCEPT !.total = @ - old.size, !.adopted = @ \ {m},
                    !.live = @ \ (c.pending[m] \cup {old.url}),
                    !.pending[m] = {}]

(* The entry starts out claimed.                                           *)
Put(c, m, url) ==
  LET entry == [of |-> m, url |-> url, size |-> SizeOf[m]]
      filed == IF Has(c, m)
               THEN [Replaced(c, m) EXCEPT !.entries[At(c, m)] = entry]
               ELSE [c EXCEPT !.entries = Append(@, entry)]
      claims == IF Has(c, m) /\ c.refs[m] > 0 THEN c.refs[m] ELSE 1
  IN Evict([filed EXCEPT !.total = @ + SizeOf[m], !.refs[m] = claims, !.live = @ \cup {url}])

(* The first bubble takes over the claim, another one adds to it.          *)
Retain(c, m) ==
  IF c.refs[m] > 0 /\ m \notin c.adopted
  THEN [c EXCEPT !.adopted = @ \cup {m}]
  ELSE [c EXCEPT !.refs[m] = @ + 1]

(* With the last claim go the URLs that were replaced under it, and the    *)
(* budget is met.                                                          *)
(* Mutant: letting go does not meet the budget.  *)
Release_Later(c, m) ==
  IF c.refs[m] > 1 THEN [c EXCEPT !.refs[m] = @ - 1]
  ELSE IF c.refs[m] = 1
  THEN [c EXCEPT !.refs[m] = 0, !.adopted = @ \ {m},
                 !.live = @ \ c.pending[m], !.pending[m] = {}]
  ELSE c

Release(c, m) ==
  IF c.refs[m] > 1 THEN [c EXCEPT !.refs[m] = @ - 1]
  ELSE IF c.refs[m] = 1
  THEN Evict([c EXCEPT !.refs[m] = 0, !.adopted = @ \ {m},
                       !.live = @ \ c.pending[m], !.pending[m] = {}])
  ELSE c

-----------------------------------------------------------------------------
(* The bubbles.                                                            *)

(* decryptMedia: the URL the cache has, or a decryption of its own, never  *)
(* shared with one that is under way.                                      *)
Decrypt(b, m) ==
  IF Has(cache, m)
  THEN /\ bubble' = [bubble EXCEPT ![b].of = m, ![b].waits = Null,
                                   ![b].url = cache.entries[At(cache, m)].url]
       /\ UNCHANGED <<opening, made>>
  ELSE /\ made' = made + 1
       /\ opening' = opening \cup {[of |-> m, n |-> made']}
       /\ bubble' = [bubble EXCEPT ![b].of = m, ![b].waits = made']

Expose(m) ==
  exposed' = exposed \cup
    (IF \/ Cardinality({b \in Bubble : bubble'[b].of = m}) > 1
        \/ Cardinality({d \in opening' : d.of = m}) > 1
        \/ Has(cache, m) /\ cache.refs[m] = 0
     THEN {m} ELSE {})

(* A bubble appears: the conversation opens, a page arrives, the group its *)
(* message stands in is drawn anew.                                        *)
Mount(b, m) ==
  /\ bubble[b].of = Null
  /\ PicSpend("mount")
  /\ Decrypt(b, m)
  /\ Expose(m)
  /\ UNCHANGED cache

(* The message itself changes, by a reaction for one: the answer the       *)
(* bubble waited for is no longer wanted.                                  *)
Change(b) ==
  /\ bubble[b].of # Null
  /\ PicSpend("change")
  /\ Decrypt(b, bubble[b].of)
  /\ Expose(bubble[b].of)
  /\ UNCHANGED cache

(* A decryption ends; the cache takes the result whoever still waits.      *)
Opened(d) ==
  /\ opening' = opening \ {d}
  /\ cache' = Put(cache, d.of, d.n)
  /\ bubble' = [b \in Bubble |-> IF bubble[b].waits = d.n
                                 THEN [bubble[b] EXCEPT !.waits = Null, !.url = d.n]
                                 ELSE bubble[b]]
  /\ UNCHANGED <<made, exposed, picLeft>>

(* A fetch or a tag that fails.                                            *)
Failed(d) ==
  /\ opening' = opening \ {d}
  /\ bubble' = [b \in Bubble |-> IF bubble[b].waits = d.n
                                 THEN [bubble[b] EXCEPT !.waits = Null]
                                 ELSE bubble[b]]
  /\ UNCHANGED <<cache, made, exposed, picLeft>>

(* The effect on the URL: the claim for the one before is let go, and the  *)
(* one drawn now is claimed.                                               *)
Effect(b) ==
  LET m == bubble[b].of
  IN /\ bubble[b].url # bubble[b].kept
     /\ cache' = Retain(IF bubble[b].kept = Null THEN cache ELSE Release(cache, m), m)
     /\ bubble' = [bubble EXCEPT ![b].kept = bubble[b].url]
     /\ UNCHANGED <<opening, made, exposed, picLeft>>

(* A bubble goes; only one whose effect has run has a claim to let go.     *)
Unmount(b) ==
  /\ bubble[b].of # Null
  /\ cache' = IF bubble[b].kept = Null THEN cache ELSE Release(cache, bubble[b].of)
  /\ bubble' = [bubble EXCEPT ![b] = NoBubble]
  /\ UNCHANGED <<opening, made, exposed, picLeft>>

(* logout: the cache is cleared and no message is left on the screen.      *)
(* Decryptions in flight go on.                                            *)
PicLogOut ==
  /\ PicSpend("signOut")
  /\ cache' = Empty
  /\ bubble' = [b \in Bubble |-> NoBubble]
  /\ UNCHANGED <<opening, made, exposed>>

PicNext ==
  \/ \E b \in Bubble : \/ \E m \in Message : Mount(b, m)
                       \/ Change(b)
                       \/ Effect(b)
                       \/ Unmount(b)
  \/ \E d \in opening : Opened(d) \/ Failed(d)
  \/ PicLogOut

PicSpec == PicInit /\ [][PicNext]_picVars

-----------------------------------------------------------------------------
(* Properties.                                                             *)

(* What the first entries come to.                                         *)
BytesOf(entries) ==
  LET sum[k \in 0 .. Len(entries)] == IF k = 0 THEN 0 ELSE sum[k - 1] + entries[k].size
  IN sum

(* No decrypted file is forgotten: the object URLs the browser keeps are   *)
(* those of the entries and those waiting for a bubble to let go, so       *)
(* whatever the overlaps, each can still be revoked, and none in the       *)
(* cache already is.                                                       *)
NothingIsForgotten ==
  cache.live = {cache.entries[i].url : i \in DOMAIN cache.entries}
                 \cup UNION {cache.pending[m] : m \in Message}

(* The byte count is the size of what is kept, and over either ceiling     *)
(* everything kept is claimed: nothing that could go stays.                *)
OverOnlyForTheClaimed ==
  /\ cache.total = BytesOf(cache.entries)[Len(cache.entries)]
  /\ Over(cache) => \A i \in DOMAIN cache.entries : cache.refs[cache.entries[i].of] > 0

(* The budget never takes what is on the screen: a message that is drawn   *)
(* in one bubble, decrypted once at a time and not picked up unclaimed     *)
(* keeps its picture from the moment the bubble learns the URL, before the *)
(* claim is adopted too.                                                   *)
DrawnIsAlive ==
  \A b \in Bubble : bubble[b].url # Null /\ bubble[b].of \notin exposed
                      => bubble[b].url \in cache.live

-----------------------------------------------------------------------------
(* What the comments promise and the code does not keep.  No run checks    *)
(* these; README.md says where they fail.                                  *)

(* "Urls that were replaced while a bubble was still showing them, held    *)
(* until that bubble lets go": a URL that a bubble has claimed is alive.   *)
(* A decryption that lands before the effect, or a second one after it,    *)
(* revokes it; so does the budget while a URL picked up from the cache is  *)
(* not claimed yet.                                                        *)
ClaimedIsAlive ==
  \A b \in Bubble : bubble[b].kept # Null => bubble[b].kept \in cache.live

(* "the budget can actually be met" when the last bubble has gone: what    *)
(* is kept over the ceilings is drawn or about to be.  A bubble that goes  *)
(* while its message is decrypted leaves the claim that Put made.          *)
OverOnlyForTheDrawn ==
  Over(cache) => \A i \in DOMAIN cache.entries :
                   \E b \in Bubble : bubble[b].of = cache.entries[i].of

(* "Revokes everything, for signing out": with nothing on the screen and   *)
(* nothing under way, a tab that has signed out keeps no file.             *)
SignedOutKeepsNothing ==
  [][PicLogOut => /\ cache'.live = {}
               /\ opening' = {}]_picVars
=============================================================================
