# WhisperNet in TLA+

WhisperNet is an end-to-end encrypted messenger: a Node server (`src/server`), a React client
(`src/src`) with its own X3DH and Double Ratchet (`src/src/signal`), and shells for the desktop
and Android around the client. This directory models the parts whose correctness hangs on the
order in which things happen, checks them with TLC and proves the central ones with TLAPS.

Paths below are relative to the repository; `S` stands for `src/src/signal/session.ts`,
`H` for `src/server/handlers.ts` and `B` for `src/server/database.ts`.

## The system

| part | state | operations | talks to |
|---|---|---|---|
| Double Ratchet (`signal/ratchet.ts`) | root, sending and receiving chain, skipped and retained keys | advance a chain, DH step, take a key of the previous chain | called by the session manager |
| Sessions (`S`) | one `SessionState` per pair of devices, `sendEpoch`, a lock queue | `encryptMessage`, `decryptMessage`, idle rekey, create, reset | sealed bodies through the server |
| Session store (`S`, `integration.ts`, `dmCrypto.ts`) | one sealed blob and a salt in localStorage, a debounce timer, a chain of writes, a generation counter | `init`, `save`, `doSave`, `flush`, `destroy`, `rekey` | sign-in, reconnect, blur and exit events |
| Prekeys and the handshake (`signal/prekey.ts`, `x3dh.ts`, `H`, `B`) | identity key, signed prekey and its history, one-time prekeys; on the server bundles and the keys issued | publish, rotate, borrow, commit, release | `keys_publish`, bundles on the server |
| Fan-out (`dmCrypto.ts`, `device-crypto.ts`) | bundles per account, sessions by slot | `sealForDevices`, `openOne` | sessions, prekeys |
| Password change (`changePassword.ts`) | the sealed stores and the sign-in record | re-wrap one store after the other | every store of the device |
| Own-message cache, drafts, pins | sealed boxes with debounced writes | hydrate, persist, re-key, clear | the client shell |
| Stored credentials (`device-crypto.ts`) | the sign-in record, a wrapping key in IndexedDB, a salt | store, read, upgrade, forget | sign-in, every tab of a profile |
| Connections (`H`) | slots per address and account, the registry of sockets, session records and their table | connect, sign in, register, close, revoke, sign out, ban, sweep, prune | every handler that sends to a device |
| Registration (`H`, `B`) | open proofs of work, a lock per device and address, users, charged events | challenge, register, refuse | connections (the new socket is filed) |
| Messages (`H`, `B`) | messages, per-device ciphertexts, reactions, timers, a floor for timestamps | send, edit, delete, react, page, expire | connections (routing) |
| Client shell (`App.tsx`) | lists, pages and reactions per conversation | the cases of `onmessage`, the reducer | all of the above |
| Uploads and media (`media-crypto.ts`, `upload.ts`, `app.ts`, `mediaCache.ts`) | slots, rates, byte budget, tokens, temporary files; a cache of object URLs | seal, upload, abort, read back, draw | messages |
| Sign-in throttling, HTTP, process life cycle, interface, app lock, shells, site | counters, React state, pure I/O | – | – |

Both programs are single-threaded event loops. What makes them hard is what happens at an
`await`: WebCrypto, IndexedDB and uploads on the client, bcrypt and streams on the server
(`node:sqlite` is synchronous). Around those points other handlers run; the tab or the process
may go; the server may deliver a body late, out of order, twice or never.

What makes each part correct, in one line:

* **sessions** – a message key seals one message; a body opens once, in any order; keys that
  were used are gone; the two ends keep agreeing on their chains;
* **store** – what was handed to the caller is on the disk first; an older snapshot never lands
  over a newer one; what was thrown away stays away; nothing waits for ever;
* **handshake** – a handshake is answered with the secret it was sealed under, and a one-time
  prekey is spent by the open that used it and by nothing else;
* **connections** – caps hold under concurrent sign-ins; who was turned away is not filed; a
  live socket is reachable; the dead are swept and shown as offline;
* **registration** – ceilings and uniqueness hold although bcrypt runs between check and write;
* **messages and screens** – rows keep apart in time, nothing live about a message follows its
  deletion, and a screen that is quiet agrees with the table;
* **password change** – what the disk refuses leaves every store openable, and signing out is
  the last word;
* **credentials** – the record opens under the key that is kept, whichever tab wrote it;
* **uploads** – slots and temporary files are those of the uploads in flight, every request
  ends, a file is read back whole or not at all, and a picture on the screen is not revoked.

The hazards this code is exposed to are listed in `PROJECT.json`, each at its line and with the
properties that cover it or the reason why no run does.

## The modules

**`Ratchet`** holds the state of one end and the pure transitions of `ratchet.ts`. Key material
is free: a root key is the sequence of secrets mixed into it, a chain key is its root's name and
a position, a message key is the chain key it came from. Two values are equal exactly when the
code's bytes are, so reuse of a key is equality of values. The caps are constants: `MAX_SKIP`,
`MAX_SKIPPED_MESSAGE_KEYS` and `MAX_SENT_KEYS_RETAINED` are applied when an entry is added, and
`MAX_PREVIOUS_RECEIVING_KEYS` only when a store is loaded (`S:285`), so in memory the map it is
declared for takes over the whole window of the chain before (`ratchet.ts:240`). `Pruned` is
`pruneForQuota` and `Loaded` what a load keeps.

**`Session`** puts two such states on the two ends of a network that keeps every body it has
seen. An action is what the code does between two awaits: `encryptMessage` is `EncryptBegin`
and then `SealOk` or `SealFail`; `decryptMessage` is `OpenCall` (reads the send epoch, joins the
lock's queue), then `OpenNoKey`, or `OpenStart` and `OpenAdopt` or `OpenReject`. The header a
body is delivered under may be that of another body. `IdleRekey` is the daily timer,
`PruneForQuota` a write of the store that found the quota full, under whatever is in flight, and
`Reload` a tab that rested, was closed and read its store back. `sealed` and `opened` are history
variables; no guard but the bounds reads them.

**`SecureChannel`** is what a session promises and nothing else: a body that is read was sent by
the peer and is read once. `Session!ImplementsChannel` is the refinement, with
`sent` = the bodies released and `delivered` = the bodies opened.

**`SessionStore`** is one manager and its blob. The ratchet is reduced to the next number and the
set of bodies read, which is all a rollback can damage. `SignIn`/`Imported`/`Derived`/`Loaded`
are the awaits of `init` and `loadEncrypted`, each of which asks whether the manager is still the
one it began under; `queue` and `writers` are `saveTail` and `writeOnce`; `Discard` is "turn every
key off"; `Crash` keeps the disk and what was handed over.

**`Handshake`** is how two devices come to that session: `prekey.ts` and `integration.ts` on both
sides, the prekey tables of the server, and `sealForDevices`/`openOne` of `dmCrypto.ts`. A key is
the number it was minted under and a session is the secret it was derived from. The supply is
`keys[d]`, and `stored[d]` is the copy that the debounced `Save` brings up to date. `openOne` is
`StartOpen`, a `Try` for each candidate session, and `Opened` or `Failed`, so the borrow, the commit
and the release of a one-time prekey by several calls interleave. The bundle cache, resets by name, echoes between the
screens of one account, the envelope and another account on the device are all there.

**`Connections`** is `H` from `handleConnection` to the heartbeat sweep with the sessions table. A
sign-in is `LoginFrame` and, after bcrypt, `LoginDone` or `AuthFailure`; a registration is
`RegisterFrame` and `RegisterDone`. Between them every other handler may run, the close event of
the same socket included. `records` is the map in memory and `rows` the table behind it; they
are pruned by different clocks' readings, which is why both are there. `shown` is the list of a
bystander who stays connected.

**`Registration`** is `handleAuthRegister` up to the moment the account exists: the proof of work,
the case-insensitive lookup, the lock over the device and the address, the two ceilings, bcrypt,
and the rows. `waitsFor` is the list of tails read before any tail is written. Like `Connections` it
extends `Server`, which declares the devices, the addresses and the clock of the one process; what
both would call `Init`, `Next` or `Spec` has the prefix `Reg` here, so that one module can prove
about the two.

**`Messages`** is one conversation on the server. Handlers are async although every query in them
is synchronous: an await costs a turn of the microtask queue. `tasks` is that queue, and a task
holds the stages its handler has left, so the frames of one read interleave at their awaits and
nothing else runs before they are done. It has posting with the timestamp floor, correcting,
deleting, reacting, both histories, blocking, expiry and the weekly clean-up.

**`Feed`** extends it with the screens: the frames on their way to each device, the jobs that wait
for WebCrypto while frames that need no decryption overtake them, and the cases of the reducer
(`list`, `window`). It also has lost connections, reloads, a restart of the server, a stalled
reader and a clock that goes back.

**`Boxes`** is `ownMessageCache.ts` and `drafts.ts`: two sealed boxes, each a Map in the tab and a
blob on the disk, with readers and writers in flight. Its operators are the synchronous parts of
the functions. **`Vault`** makes the calls: sign-in, the change of the password with its rollbacks,
sign-out, a reload and refused writes, over the boxes, the two ratchet stores, the sign-in record
and the private key's copy. A ratchet store is a salt and one or more blobs, so the order of the
two writes of a rekey shows.

**`SignInRecord`** is `device-crypto.ts`: the record, the wrapping key in IndexedDB, the scheme for
browsers that can hold none, and the upgrade from one to the other, in two tabs whose calls wait
for IndexedDB, for a derivation or for a cipher between their steps.

**`Attachments`** takes a file from the chunk cipher through the upload request, the slot, the
temporary file and the media host to the message that names it and the device that reads it back.
`Step(n)` is whatever upload `n` does next, and `Damaged` what a host may make of a body: cut, with
pieces missing, repeated, exchanged or taken from another upload. **`Pictures`** is `mediaCache.ts` with the bubbles that
draw from it: a bubble learns a URL in one step and claims it in a later one, when React runs its
effects.

The proofs are in `SessionProofs` (with the lemmas about `Ratchet`), `SessionStoreProofs`,
`HandshakeProofs`, `ServerProofs` (about `Registration` and `Connections`),
`FeedProofs`, `VaultProofs` (with those about `Boxes`), `SignInRecordProofs` and `MediaProofs`
(`Attachments` and `Pictures`).

Modules with the prefix `MC` give the constants of a run. Most bound behaviours by a set of
*scenarios*: a record says how often each thing may happen (`left`, `limits`), the initial state
picks one, and an action spends from it. A scenario names the faults that meet in one behaviour;
a run explores all interleavings of each. No guard reads the counters for any other purpose.

Mutated operators (`X_Something`, each marked "Mutant") stand before the definition they would
replace. They are plausible slips in that piece of code, and each makes one property fail.

### How they compose

`Session` extends `Ratchet` and instantiates `SecureChannel`. `Handshake` ends where the two ends
share a secret, which is the initial state of `Session`; `SessionStore` abstracts the ratchet, and
a number it hands out twice is a message key that seals twice. `Vault` extends `Boxes` and takes
each ratchet store as a whole: what changes inside one is `SessionStore`. `Registration` ends
where `RegisterDone` of `Connections` begins. `Feed` extends `Messages`; what it takes from the
cryptography is that a ratchet body opens once on a device, which `Session` checks. `Attachments`
and `Pictures` meet at the body that was read back.

## What is checked

| run | instance | shows |
|---|---|---|
| `session` | up to three sends from one end, two opens side by side, a failing seal, an idle rekey, three key pairs, a window of two held keys; up to five sends with a full quota and restarts | keys seal once, spent keys are forgotten, headers name their chain, bodies in flight open in any order, the window gives up its oldest keys and no others, opens settle, and `Session` implements `SecureChannel` |
| `store` | two sends, one body, two sessions, one each of reconnect, early disconnect, crash, refused write, discard, in three combinations | numbers and bodies are handed over once; what is quiet is saved; writes land in order; discarded keys stay gone; every call returns |
| `handshake` | two accounts, four devices, two one-time prekeys, six scenarios | ids name one key, handshakes get the right answer, a one-time prekey is spent by the open that used it and by nothing else |
| `connections` | two sockets, two accounts that share device ids, a cap of one device, one call in bcrypt per socket, one tick, a restart at any time | who is filed is welcome, nobody goes deaf, who is offline is shown so, the cap holds, dead entries are swept |
| `connections_signout` | two sockets, one account | *violation*: a device that signs out cannot come back |
| `registration` | three attempts, two devices, two addresses, one name in two spellings and another, three challenges, one tick, a restart | both ceilings, one account per proof, names unique, nobody waits for ever |
| `feed` | three devices of two accounts, up to three posts, lists of two and three, pages of two, nineteen scenarios | rows keep apart in time, a deletion is the last that is heard of a message, quiet screens agree with the table |
| `vault` | two passwords, boxes of two entries, three channels, eight scenarios | signing out is the last word on both boxes, drafts end up on the disk, ratchet stores open after a change that failed |
| `vault_interrupted` | a change of password and one reload | *violation*: the reload leaves a store no password opens |
| `record` | two tabs, two calls at a time, two secrets, three scenarios | the record opens under what is kept, a launch is told what to sign in with, the weaker scheme is for browsers that need it |
| `uploads` | two accounts, up to three uploads of a size that fits and one that does not, five scenarios | slots and temporary files are those in flight, a file comes back whole or not at all, pieces of another upload included, every request ends |
| `pictures` | two places on the screen, two attachments, one over the budget alone, four scenarios | no object URL is forgotten, what stays over the ceilings is claimed, the budget takes no picture decrypted for its bubble |

Why the bounds are enough. The hazards of a session need two calls that overlap and a third that
uses what they left behind: two sends overlap and a third takes the rewound number, or an open is
in flight while a send moves the chain and two bodies each give every order of delivery over one
turn of the ratchet. One jump may fill a window of two keys, as `MAX_SKIP` and the window's cap are
the same number, and a second jump must then give keys up; five bodies allow both, with reads from
the middle of the window and a full quota before, between and under them. The store's hazards need
one write in flight, one waiting and a crash between, and a second life that reads what the first
left. In `Connections` two sockets are the one that is replaced and the one that replaces it; a
cap of one device is at its limit with two. Registration needs three attempts because the lock's
hazard is a third that goes past a second in the queue. A handshake is disturbed by one other: two
messages, two bodies open at once, and one rotation, crash, reset or second screen each. A screen
needs a message, a second one beside it and one history or correction that passes it; lists of two
fill with the third message. A box of two evicts with the third entry. The uploads' windows admit
two and refuse the third; sizes are a chunk and a half and three chunks, so last chunks are short
and full. Two pictures are the smallest cache in which one evicts another.

Three properties are conditional, on what the code itself gives up:
`InFlightBodiesOpen` is asked while there was no idle rekey, no failed seal and no full quota and no
more has been sent than the maps keep, and of the bodies that name the chain their reader is on or
the one their writer is on: what is left of a chain that both ends have stepped off does not open
(`LateBodiesOpen`, below). `HandedOutOnce`, `DiskNeverGoesBack` and `SavedWhenQuiet` are asked under
`Lossless`, that is without a reconnect, and without both a refused write and a crash (`SavedWhenQuiet` also without
a refusal and an early disconnect); `RightAnswer` leaves out devices that lost an unsaved write.

Fairness. `Session!Fairness` says that a promise settles (`SealOk`) and that a call whose turn it
is runs. `SessionStore!FairSpec` says the same of the AEAD and of a write whose turn it is;
sign-ins are left free to stall. `Connections!FairSpec` is the heartbeat interval (`H:2752`) for
entries whose socket is closed, and Node's close event for a socket that is not open.
`Registration!RegFairness` is the event loop: some attempt with a resolved promise or a finished
bcrypt goes on. `Attachments!Fairness` is `WF` of `Step(n)` for every upload: bytes keep coming or
the connection ends, and the media host answers or its timeout passes. No environment action (a
delivery, a new call, a crash, a tick) is fair, and the specifications without a liveness
property state no fairness.

`CHECK_DEADLOCK FALSE` is in every configuration because every bound ends the behaviour: when the
sends, the crashes or the attempts are used up the system rests.

## What is proved

Each theorem holds for every value of the constants that satisfies the assumptions, which TLC
evaluates in the runs; `PROJECT.json` lists them with the property each one states.

`SessionProofs`, about `Session!Spec` (any number of sends, opens in flight, failures, rekeys, full
quotas and restarts, any caps, `MaxSkip` included):

* **`TypeCorrect`**: `[]TypeOK`. One lemma per group of actions; every operator of `Ratchet` is typed
  first.
* **`OldestGivesWayFirst`**: `[]OldestGiveWayFirst`. The window of held keys is kept at its cap, and an unread
  body the chain ran past is lost only when more than the window was run past after it, or to a full
  quota; and never before an older one. `WindowInv` says it by places on the chain, of the live state and
  of every draft: a place that is neither held nor spent has nothing as old beside it, and unless the
  quota was full the chain is further than the window past it (`GaveWay`). Every trim leaves the last
  few of what was there (`LaterFew`), a draft may be older than a prune and be adopted over it, and a
  body that was not read is not among the spent (`UnreadUnspent`, from key uniqueness).
* **`MessageKeysAreUnique`**: `[]NoMessageKeySealedTwice`. The statement is not inductive: it says
  nothing of the states a failing send or a draft may restore. `KeysInv` adds, for each device:
  - `LiveInv`: the live sending chain key was not sealed with, nor any later key of its chain;
  - `SealsInv`: the capture of a send in flight has that property *as long as no later send or
    rekey has bumped the epoch*, which is the condition under which it is put back;
  - `OpensInv`: the draft of an open has it as long as the epoch is the one the open began at,
    which is the condition under which the draft's sending chain is adopted;
  - `SealedInv`, `FromUsedKeys`, `NetworkInv`: every chain in use is derived from key pairs that
    exist, so a chain derived with a fresh pair is one nobody has sealed on (`FreshChainUnused`).

  The proof uses that a KDF's output is named by its inputs, that is, that the KDF has no
  collisions; this is the only cryptographic assumption. It holds with the idle rekey and with
  failing seals, so the code's divergences below cost availability and recovery, not key reuse,
  as long as the store does not roll back.
* **`HeadersNameTheirChain`**: `[]HeaderNamesChain`. `NamesInv`: until a seal fails, the ratchet key and
  the number in the live state, and in every draft, name its sending chain and the place on it.
* **`SpentKeysStayForgotten`**: `[]SpentKeysForgotten`, and **`SessionImplementsChannel`**:
  `Session` implements `SecureChannel`, step by step. Both rest on `ReadInv`: whatever state a device
  is in or may still adopt or restore, the keys of the bodies it opened are not held there, lie
  behind the receiving chain and belong to chains named with no more secrets than the root, so
  that no chain to come is one of theirs. It is inductive only with `LockInv` (one draft at a
  time), `BodiesInv` (an id has one key) and `ApartInv` (a chain is sealed on by one end only, so a
  key this device sealed with never opens what it reads).

* **`BodiesInFlightOpen`**: `[]InFlightBodiesOpen`, while no seal failed, no idle rekey ran and no quota
  was full, for any order of delivery. It is about the bodies of the chain the reader receives on and
  of the one the writer sends on, however often the ratchet turned before; those of a chain that
  both have stepped off are excluded, because they do not open. `AgreeInv` says where the two ends stand
  to each other: at most one has not seen the other's latest ratchet key, and when it does it derives
  the chain its peer sends on (`TurnInv`); every body is on the chain its header names
  (`WrittenOK`); what a receiving chain has passed is held, or was spent on a body opened or being
  opened (`Holds`), as long as the maps have room. The step that needs thought is a draft that turned
  while the peer may have turned too: its chain has one secret more than the root it left
  (`Turned`), so it can only have followed the peer's latest turn, and adopting it keeps `TurnInv`.

The assumptions are `DeviceAssumption`, `NoneAssumption`, `BoundsAssumption`,
`SessionBoundsAssumption` and, for the last theorem only, `SkipAssumption`: a map that holds
as much as one call may skip, as the code's two constants do (`constants.ts:41-42`).

`SessionStoreProofs` proves every safety property the run checks of `SessionStore!Spec`:
**`TypeCorrect`**, **`DiscardedIsGone`** (`DiscardedStaysGone`), **`NothingTwice`** (`HandedOutOnce`),
**`DiskIsMonotone`** (`DiskNeverGoesBack`, of steps) and **`QuietIsSaved`** (`SavedWhenQuiet`). None
is inductive; the invariant comes in layers, each from those before it. `GoneInv`: what was begun
before a discard has an older generation. `ChainInv`: one write at a time, and one save an open waits
for. `PhaseInv`: a tab that never reconnects is down, loading, up or off, and holds nothing before
its store is loaded. `OrderInv`: disk, write in flight and memory are ever newer. `HandInv`: memory
covers every number taken and body returned, and a write in flight what it will let out. `QuietInv`:
what is not on the disk is pending somewhere. From `PhaseInv` on they are owed under the conditions
of the properties they carry. Assumptions: `StoreBoundsAssumption`, `NoneAssumption`.

`HandshakeProofs`, about `Handshake!Spec` (any devices, accounts, windows, supplies and scenarios):

* **`IdsStayUnique`**: `[]IdsNameOneKey`, across rotations, replenishings, torn writes and restarts.
  `DeviceInv` says of a device that in memory and in storage alike every id is below the next one and
  names one key, that storage is never ahead of memory, and that the two agree when no write is due.
* **`RightlyAnswered`**: `[]RightAnswer`. `OffersInv` says of every bundle and every handshake,
  wherever it is (on the server, in a cache, in a post), that the device it was taken from still
  keeps what it offered, in memory and in storage, under the id and the key it was offered: unless it
  rotated it away too often or too long ago, spent it, or lost an unsaved write in a crash.

It assumes `HandshakeAssumption`.

`ServerProofs` proves every safety property the run checks of `Registration!RegSpec`, for any
number of attempts, challenges, devices and addresses, any ceilings, any window within the
retention, and any interleaving of frames, bcrypts, ticks and restarts:

* **`RegTypeCorrect`**: `[]RegTypeOK`. Its one arithmetical part is that the table of challenges keeps its
  bound; `NewestBounded` says that dropping the oldest leaves at most as many as asked for.
* **`OneProofOneAccount`**: `[]ProofsBuyOneAccount`. The invariant is that no two requests carry one
  proof and that an unsolved challenge has been answered by no request (`ProofInv`).
* **`NamesUnique`**: `[]NamesAreUnique`, whatever the capitals: what refuses a name is asked after the
  last await.
* **`CeilingsAreKept`**: `[]CeilingsHold`. The lock of `lockRegistrationSubjects` keeps no queue: each
  attempt holds at most two promises, of whoever was last for its device and for its address.
  `QueueInv` says that there is nevertheless an order of arrival (`InOrder`), such that an attempt
  waits for somebody between it and anyone who asked for one of its subjects before it. `Ahead`
  follows: of two attempts that ask for one subject only one waits for nobody. Hence what
  `registrationAllowed` counted is still so after bcrypt (`RoomInv`), no subject is charged past its
  ceiling (`FullInv`), and every account of the window has been charged to both of its subjects
  (`ChargedInv`; here the retention must cover the window). `CeilingsFollow` counts accounts by
  their charges, with an injection.

It assumes `RegistrationAssumption` and `RequestAssumption` of `Registration`, which TLC evaluates in
the registration run.

It also proves every safety property the passing run checks of `Connections!Spec`, for any sockets, accounts,
devices, addresses and caps and any number of sign-ins and registrations in bcrypt at once:

* **`TypeCorrect`**: `[]TypeOK`; no count of slots is ever negative.
* **`OnlyTheWelcomeAreFiled`**, **`NobodyIsDeaf`**, **`OfflineIsAnnounced`**: the invariant `Inv` joins
  the three properties, as each leans on the others' steps, and adds `KnownInv`, that whoever is
  filed, recorded or in bcrypt to sign in has an account, and `NewInv`, that a socket no frame has reached is filed
  nowhere. A new account has no device in the registry, no record and no row, so `RegisterDone`
  cannot find a revocation of its own; this is what `KnownInv` is for.
* **`SessionCapHolds`**: `[]SessionCap`, until something is old enough to be dropped. The cap is counted
  over records in memory and survives a restart only because the table says the same of every
  revocation; `AgreeInv` states that, and is what `CapInv` adds. Beyond that age the two are
  pruned at different times (`RevocationIsKept` below), and the property claims nothing.

It assumes `ConnectionsAssumption` and `NoneAssumption` of `Connections`, which TLC evaluates in
both connections runs, and `ClockAssumption` of `Server`, where the two modules have their devices,
addresses and clock from.

`FeedProofs`, about `Feed!Spec` (any devices, scenarios and handlers in one read):

* **`RowsStayApart`**: `[]RowsApart`. `TimesInv`: the floor that `monotonicTimestamp` remembers, while
  it does, is at or above every row of the table; after a restart, or once the channel was pushed out
  of the map, the newest row takes its place, whatever the clock says.
* **`DeletedStaysLast`**: `[]DeletedIsLast`. `SilenceInv`: once a handler has removed a row, whoever
  still has a live frame about that message to send stands ahead of it in the queue with nothing else
  to do, and on the way to a device nothing live about a message follows its deletion.

Both need `HandlersInv`: which stages each handler has left, which message it is about, and that one
that begins by reading a row does so before any post of the same read is saved. That order is
what one read of several frames could break: the stages interleave at the awaits.

`VaultProofs`, about `Vault!Spec` (any passwords, channels, number of blobs, caps and scenarios):

* **`StoresAlwaysOpen`**: `[]StoresOpen`. `StoresInv` says of each store that no reload and no
  sign-in met in the middle of its change: outside the change its blobs, and what its manager would
  write, are under one password and the salt on the disk; from the derivation to the salt the
  manager has the key of the salt to come, and it is the copy for the rollback that is sound.
* **`SigningOutIsLast`**: `[]SignOutIsTheLastWord`. `BoxesInv`: whatever load or write is under way in a
  box began no later than its generation; in a box without a password those of this generation
  have nothing to bring, nothing is on the disk once it was left, and the words in the tab are those
  the property allows.
* **`DraftsReachTheDisk`**: `[]DraftsAreKept`. `DraftsInv`: a box marked as unwritten, short of the last
  try, has a write due, or one in flight that began after the last keystroke, or nothing to write; one
  that is not so marked agrees with the disk. It needs the chain (`FlightOK`: no load is under way
  beside a write, so a load brings what the disk has), the generation (what is in flight from before a
  sign-in or a change of the password is nobody's) and what a load leaves in the tab: of the box it has
  the first part of, a longer first part. That last is the loop of `hydrate`, a recursive function over
  the stored drafts (`Merging`), reasoned about through the least place where it would go wrong.

They assume `BoxesAssumption` and `VaultAssumption`. A scenario's drafts are one per channel, as in
the Map they come from.

`SignInRecordProofs` proves every property of the `record` run, for any number of tabs, calls and
secrets: **`TypeCorrect`**, **`RecordAlwaysOpens`** (`RecordOpens`), **`ReadsAlwaysTell`** (`ReadsTell`)
and **`FallbackNeedsAReason`** (`FallbackIsForTheUnable`, of steps). `CallInv` says what a call
carries at each of its waits, whatever goes wrong; `AbleInv` that only an open that failed leads a
browser that can hold a key to the weaker scheme; `RightInv`, as long as nothing has gone wrong, that
there is one key, nobody makes another, and record, caches and every call agree with it. What a
call seals with was read some waits before, so the record alone is not inductive. It assumes
`SignInRecordAssumption`.

`MediaProofs`, about `Attachments!Spec` (any accounts, files, sizes of chunk, limits and scenarios) and
`Pictures!PicSpec` (any messages, sizes and ceilings, any finite number of bubbles):

* **`SlotsStayCounted`**: `[]SlotsAreCounted`. `StepKind` sums up what a step may do to the books: leave them
  alone (`Apart`), enter one request or strike it out together with its file (`Enters`, `Leaves`), or
  strike out all at once, as a restart does (`AllLeave`). The invariant is the property with `TypeInv`.
* **`FilesComeWhole`**: `[]WholeOrNotAtAll`. `FilesInv` ties a message to a body that the host has and
  that `BodyOf` still describes. The rest is about data. `encryptFileStream` cuts a file into pieces of
  which the `i`-th carries its number and the declared size (`Piece`); whatever was lost, doubled or
  swapped, and whatever pieces of other uploads were put in their place, `Reading` accepts a piece only
  at its own number and under its own file's key, so what it has after `k` rounds is the first `k`
  pieces or it has refused. A body that is shorter than its header says is then caught by
  its length alone. The loops are recursive functions; that they exist (`Runs`) and keep what
  each round keeps (`LoopKeeps`) follows from the natural numbers being well-founded.

* **`NoFileIsForgotten`**, **`BudgetIsMet`** (`[]OverOnlyForTheClaimed`): one invariant of the cache alone
  (`Sound`). A URL has one holder, an entry or one list of those replaced (`InOnePlace`); without it a
  replacement that revokes could take what another entry still shows. `evict` is a loop, and `LookedAt`
  says what it has done after `k` entries: what it kept is in the books, what it dropped nobody claimed,
  and while it is over a ceiling it has dropped all it could. `put`, `retain` and `release` each keep
  `Sound` and take no entry that is claimed (`PutKeeps`, `RetainKeeps`, `ReleaseKeeps`).
* **`DrawnStaysAlive`**: `[]DrawnIsAlive`. A decryption carries a number nobody else has (`Numbered`), and
  a bubble waits for one of its own message (`Waits`). A message that is never drawn twice at a time is
  either being decrypted, and then the cache has nothing of it, or every bubble that draws it draws its
  entry, which is claimed, and has claimed nothing else (`Alone`).

They assume `AttachmentsAssumption` and `PicturesAssumption`: the screen has finitely many bubbles.

The assumptions that say `None` is in no set of records or numbers only name what `null` is: TLC has
it as a model value, the provers have to be told.

Only model-checked, and why:

* liveness and every property that needs fairness, which TLAPS does not reason about;
* `Feed!QuietListsAgree` and the types of `Feed` (a sorted list is chosen and filtered): nothing
  known stands in the way but the work;
* `Handshake!OpenedIsSpent` and `OnlyOpenedSpends`: they are not invariants beyond the bounds. A
  reconnect that restores a filed session after the one that replaced it was dropped, and an older
  call that then opens under it, spend what another call had borrowed;
* the types of `Vault`: they rest on what the folds of the community modules return when sent words
  are merged, an induction over data that the provers cannot be given as a rule.

## Where the code and its comments part

Two divergences have a run of their own (`findings` in `PROJECT.json`): the sign-out that locks its
device out (`H:2501`), and the re-key that overwrites the only copy of a store before its salt
(`S:633`).

The others are definitions under "What the comments promise and the code does not keep" at the end
of their modules. They are false of the model: naming one in the configuration of its run shows the
trace, except for four that need other bounds, given below.

Sessions and their store (`session`, `store`)

* `Session!RekeyedBodiesOpen` – the idle rekey of a sending chain (`S:1259`) is one-sided: the peer
  never derives the new root, and what is sent after it does not open; the comment at 1240-1241
  says it does.
* `Session!LateBodiesOpen` – `ratchet.ts:239` saves the received count after it was reset, so the
  length of the previous receiving chain is always zero and the keys held of it are never served;
  the comment at 234-235 says late bodies open.
* `Session!PreviousReceivingCapped` – a turn of the ratchet takes over the whole window of held keys,
  up to 2000 (`ratchet.ts:240`), and only a load applies `MAX_PREVIOUS_RECEIVING_KEYS`, 256
  (`S:285`); the comments at `constants.ts:45` and `ratchet.ts:210-212` speak of how many are kept in
  memory. It needs the scenario `Bounds(4, 1, 1, 2, 0, 0)`.
* `Session!SendingChainAnswersPeer` – `S:1174` adopts a draft without its sending chain when a send
  ran meanwhile; from then on the device answers on its old chain, and the DH ratchet stops turning.
* `Session!FailedSealLeavesNoHole` – the capture of `S:1003` is taken after the chain moved, so
  putting it back changes nothing; the comment at 999-1001 says it closes the hole.
* `Session!FailedSealUndoesNoTurn` – an open does not bump `sendEpoch`, so a seal that fails after an
  open adopted a turn of the ratchet puts the old chain back under the new ratchet key (`S:1036`).
* `SessionStore!UninitialisedTouchesNothing` – `App.tsx:2023` flushes a manager that has no key yet,
  and a write without a key removes the store (`S:776`) until the next save.
* `SessionStore!NumbersSurviveReconnects` – a reconnect runs `startRatchet` again (`App.tsx:1491`) and
  the load (`src/src/dmCrypto.ts:105`) puts the stored session over the live one. It needs the
  scenario `Limits(2, 1, 1, 0, 0, 0, 0)`.
* Without `Lossless`, `HandedOutOnce` is false too: `S:750` logs a refused write, `encryptMessage`
  returns the body all the same, and a crash then takes the number back.

Handshake and fan-out (`handshake`)

* `OneTimeKeysAreHandedOnce` – a device that publishes again has its issued keys forgotten (`H:944`)
  although it publishes the same key; `B:796-800` says no two senders get one.
* `ChangedMeansReinstalled` – a session is filed under the first free name, not under the device it
  is with, so a peer is shown as having a new identity when it has none (`dmCrypto.ts:323`, against
  the comment at 69).
* `OpeningKeepsSessions` – resets by name take away live sessions (`dmCrypto.ts:436`, against 408-409).
* `EnvelopeIsAFloor` – the envelope is also used for peers that have published, once
  `ratchetUnavailable` is set, and silently for good.

Also visible in that model: a borrowed one-time prekey whose store is lost in a crash is never spent;
one call's `releaseResponderPreKey` gives back what another borrowed; a device answers the echo of
its own first message as if it were a handshake; a message is sealed under a session just built from
a handshake that never opens.

Connections and registration (`connections`, `registration`)

* `RevocationIsKept` – a revocation renews the row (`B:1481`) but not the record (`H:2501`), which is
  pruned first; the next sign-in of the device then writes over the row.
* `SlotsMatchSockets`, `FiledOnce`, `OnlineIsShown` – a socket that closes during bcrypt claims a slot
  nobody gives back (`H:1461`); `auth_register` on a socket that is signed in files it twice
  (`H:1250`), and the first entry's end shows the account as offline (`OnlineIsShown` needs
  `MaxSessions = 2`).

The comment at `H:1519-1525` calls the lookup before the lock the only check that ignores capitals.
The index on `lower(nickname)` (`B:249-266`) is another, and the one that holds: `NamesAreUnique`
rests on it. On a database that held two such names when the index was added it does not exist;
that database is not modelled.

Messages and screens (`feed`)

* `OpenedStaysOpen` – a ratchet body opens once, and a history that is read again puts
  "[encrypted]" over rows that could be read (`App.tsx:224`, against the comment at 210).
* `CorrectionShows` – the author's own device never sees its correction (`App.tsx:1796`, against
  1297-1299).
* `DeletedIsGone` – a body whose decryption ends after the deletion is put on the screen, and what
  expires or is cleaned up is announced to nobody (comment at `App.tsx:1278-1281`).
* `NoHoles` – a frame carries the time that was claimed and the row the one the floor gave it, so a
  cursor taken from a live message may pass over the row before it (comments at `App.tsx:158-160`,
  `B:975-992`); prepending to a full list drops the page just fetched.
* `NoRepeats` – two pages may bring one row twice (comment in the reducer, 249-253). It needs
  `CapHistory = 4` and the scenario `Case("public", {a1}, {}, [post |-> 3, page |-> 2, tick |-> 1])`.

Also visible there: a reaction refused by the cap is announced all the same, and reactions may
be left of a message that is gone; deleting a message leaves the cursor at its place; expired rows
stay on screens that are open; a blocked account can still correct and react; a correction that
arrives while the post it corrects is being decrypted is dropped.

Password change and boxes (`vault`)

* `StoresMoveTogether` – when the sessions are moved and the prekeys then fail, nothing puts the
  sessions back (`integration.ts:45-48`, against the comment at 41).
* `OwnWordsAreKept` – a sign-in with another password leaves the words in the tab and does not mark
  them as unwritten, so the disk keeps the box of the old one (`ownMessageCache.ts:44`, against
  108-113).

Also visible there: the server's password hash is replaced by no message, so after a change only
the old password signs in and it opens none of the local stores (`changePassword.ts:4`,
`App.tsx:1418`); a sign-in that overlaps a change tears a store without any crash; a change before
`startRatchet` has finished re-wraps empty sessions; the rollback of a rekey restores an older
snapshot over newer saves; a store that fails to load with no session in the tab is deleted
(against `S:524-526`); a sign-out during a change writes `wn_auth` back (`device-crypto.ts:425`); a
draft from the clear is lost if the tab goes between the sweep and the write; and those drafts go in
past the cap (`drafts.ts:174-190`), so the next load stops before it has read the whole box and the
next write drops the rest. `DraftsAreKept` says what holds all the same: the tab then has the first
part of what is on the disk.

Stored credentials (`record`)

* `KeyIsCreatedOnce` – a read of IndexedDB that fails for the moment is taken for an absence: a new
  key replaces the old one and the record no longer opens (`device-crypto.ts:149-153`); two tabs may
  each generate one.
* `OnlyAbsenceFallsBack` – a database that goes on failing to open is believed to be absent, and the
  record is sealed under the weaker scheme (`device-crypto.ts:202`, against 195-197).
* `SignOutForgets` – the upgrade of an old record that a launch has read writes the record back after
  a sign-out, or over a newer sign-in.

Uploads and pictures (`uploads`, `pictures`)

* `EverySlotComesBack` – the slot's `finally` waits for a promise that a media host gone in the
  middle of its answer never settles (`app.ts:119-120`).
* `WhatIsTakenFits` – the client's ceiling is on the file, the server's on the longer sealed body
  (`MessageInput.tsx:171`, `upload.ts:12-16`).
* `SignedInCanUpload` – a token lasts a day, newer sign-ins of anybody push it out, and a restart
  forgets it, while the device stays signed in (against the comment at `uploadTokens.ts:7-12`).
* `ClaimedIsAlive` – a decryption that lands before the effect, or a second one after it, revokes the
  URL a bubble has claimed (`mediaCache.ts:101`, against 30 and
  `src/tests/unit/media-cache-budget.test.ts:81`).
* `OverOnlyForTheDrawn`, `SignedOutKeepsNothing` – a bubble that goes while its message is decrypted
  leaves a claim; a decryption that ends after the sign-out fills the cache again
  (`mediaCache.ts:170`).

Read in the code and outside the models: `startRatchet` passes no account id, so two accounts of
one browser share a store though `constants.ts:58-62` says otherwise; `logout()` never calls
`stopSignalState`; `prekeys_changed` is only broadcast by a message the client never sends with a
bundle; temporary files of a process that crashed are never swept.

## What is not modelled, and why

The ciphers and KDFs are taken as ideal. Sign-in throttling only makes an attempt fail, which
`Connections` and `Registration` allow at any time. Rendering, HTTP headers, static files,
logging, the proof-of-work search, packaging, the service worker and the desktop updater are input
and output, or one function without state that interleaves. On the server read marks, typing,
search, avatars, profiles, reports and the admin pages other than ban and unban are one row or
one frame each. On the client contacts, panels, notifications, presence lists, pins and scroll
positions, the lock screen and the verification words are left out for the same reason, as are
avatars, thumbnails and range requests of the media.

Where the models stop: in `Session` the handshake is the initial state; in `Registration` an account
that was created is not deleted again, and user row and charged events are one action, as no
await separates them, so a process killed between the two statements is left out; in `Vault` what a
ratchet store holds is only whether it is still the first contents; in `Feed` how a device comes
to hold the keys of a body is an input.

## Plan

Modelled: everything above. What is left is proof, in the order of what it would add:

1. `Feed!QuietListsAgree`: that every row a screen has not heard of is in a frame, a job or a page
   under way; the types of `Feed` come with it.
2. The types of `Vault`, once merging is written as a recursive function, as `Attachments!Reading`
   and `Pictures!Evicting` are.
