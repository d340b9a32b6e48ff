---------------------------- MODULE Attachments ----------------------------
(***************************************************************************)
(* An attachment on its way: sealed a chunk at a time on the device,       *)
(* posted as it is produced, drained to a temporary file on the server,    *)
(* handed to the media host, named in a message, and read back.            *)
(*                                                                         *)
(* A body is a sequence of pieces: the wrapper image, the header, and one  *)
(* piece per chunk, sealed under the key of the file, a nonce derived from *)
(* the place of the chunk, and the place and the size of the file as       *)
(* associated data.  An upload to the public channel is the file itself,   *)
(* one piece.  An upload is numbered, and its number stands for its key.   *)
(***************************************************************************)
EXTENDS Integers, Sequences, SequencesExt, FiniteSets

CONSTANTS
  User,           \* accounts, one device each
  Size,           \* what the files measure
  Chunk,          \* CHUNK_BYTES
  MaxUpload,      \* MAX_UPLOAD_SIZE on the server, MAX_UPLOAD_BYTES on the client
  MaxConcurrent,  \* MAX_CONCURRENT_UPLOADS
  RateLimit,      \* UPLOAD_RATE_LIMIT
  DailyBytes,     \* UPLOAD_DAILY_BYTES
  MaxTokens,      \* MAX_UPLOAD_TOKENS
  Scenario,       \* bounds: how often each thing may happen
  None

ASSUME AttachmentsAssumption ==
  /\ None \notin Nat /\ None \notin {"url", "error"}
  /\ Size \subseteq Nat \ {0}
  /\ {Chunk, MaxUpload, MaxConcurrent, RateLimit, DailyBytes, MaxTokens} \subseteq Nat \ {0}
  /\ Scenario \subseteq
       [{"file", "signIn", "signOut", "window", "crash", "cut", "deaf"} -> Nat]

VARIABLES
  (* the devices *)
  tab,      \* signed in or not, the upload token, the upload that can be aborted
  upload,   \* every upload: whose, by which route, its size, and where each side is with it
  sent,     \* the messages that went out, each with the url and perhaps the key of a file
  (* the server *)
  tokens,   \* the upload tokens it honours, oldest first
  slots,    \* uploadsInFlight
  rate,     \* uploadRateMap: requests of the present minute
  day,      \* uploadBytesMap: bytes of the present day
  temp,     \* the uploads with a temporary file
  stored,   \* the bodies the media host has
  (* history *)
  orphaned, \* temporary files of a process that went
  left      \* what of the scenario's bounds is left

device == <<tab, sent>>
limits == <<tokens, slots, rate, day>>
vars == <<tab, upload, sent, tokens, slots, rate, day, temp, stored, orphaned, left>>

Spend(what) == left[what] > 0 /\ left' = [left EXCEPT ![what] = @ - 1]

-----------------------------------------------------------------------------
(* The body of an attachment.                                              *)

Wrap == [kind |-> "wrap"]
Header(n, size) == [kind |-> "header", key |-> n, size |-> size]
Sealed(n, i, size, bytes) ==
  [kind |-> "chunk", key |-> n, at |-> i, size |-> size, bytes |-> bytes]
Whole(n, size) == [kind |-> "whole", key |-> n, bytes |-> [i \in 1 .. size |-> i]]
Cut == [kind |-> "cut"]

Ceil(a, b) == (a + b - 1) \div b

(* encryptFileStream: a chunk is what lies between two multiples of Chunk. *)
Slice(i, size) ==
  LET end == IF (i + 1) * Chunk < size THEN (i + 1) * Chunk ELSE size
  IN [k \in 1 .. end - i * Chunk |-> i * Chunk + k]

EncryptFileStream(n, size) ==
  <<Wrap, Header(n, size)>>
    \o [i \in 1 .. Ceil(size, Chunk) |-> Sealed(n, i - 1, size, Slice(i - 1, size))]

(* What a piece adds to the length: a chunk carries a tag and its length.  *)
Weight(piece) == IF piece.kind \in {"chunk", "whole"} THEN Len(piece.bytes) + 1 ELSE 1

Bytes(body) == FoldLeft(LAMBDA n, piece : n + Weight(piece), 0, body)

(* No file is empty.                                                       *)
Refused == <<>>

(* The formats before the chunks: one message over the whole file.         *)
ReadWhole(n, body) ==
  IF Len(body) = 1 /\ Head(body).kind = "whole" /\ Head(body).key = n
  THEN Head(body).bytes ELSE Refused

(* Mutant: nothing ties a chunk to its place. *)
ChunkOpens_Anywhere(n, header, i, piece) ==
  /\ piece.kind = "chunk"
  /\ piece.key = n
  /\ header.key = n
  /\ piece.size = header.size

(* A chunk opens with the key and the nonce of the place the reader has    *)
(* come to, against that place and the size the header declares.           *)
ChunkOpens(n, header, i, piece) ==
  /\ piece.kind = "chunk"
  /\ piece.key = n
  /\ header.key = n
  /\ piece.size = header.size
  /\ piece.at = i

(* What has been read of a body after each of its pieces: chunk after      *)
(* chunk, never past the declared size.                                    *)
Reading(n, header, pieces) ==
  LET read[k \in 0 .. Len(pieces)] ==
        IF k = 0 THEN [ok |-> TRUE, bytes |-> <<>>]
        ELSE LET r == read[k - 1] IN
             IF /\ r.ok
                /\ ChunkOpens(n, header, k - 1, pieces[k])
                /\ Len(r.bytes) + Len(pieces[k].bytes) <= header.size
             THEN [r EXCEPT !.bytes = @ \o pieces[k].bytes]
             ELSE [r EXCEPT !.ok = FALSE]
  IN read

(* decryptChunkedBody: all of what the header declares, or nothing.        *)
DecryptChunkedBody(n, header, pieces) ==
  LET whole == Reading(n, header, pieces)[Len(pieces)]
  IN IF header.size <= MaxUpload /\ whole.ok /\ Len(whole.bytes) = header.size
     THEN whole.bytes ELSE Refused

(* readThroughWrap: what is left of a body behind its wrapper; without one *)
(* the bytes that were scanned are the start of the body.                  *)
ReadThroughWrap(body) ==
  IF Len(body) > 0 /\ Head(body) = Wrap
  THEN [found |-> TRUE, rest |-> Tail(body)]
  ELSE [found |-> FALSE, rest |-> body]

(* tryReadHeader: a length that could be one, and json of this version.    *)
TryReadHeader(pieces) == Len(pieces) > 0 /\ Head(pieces).kind = "header"

ReadAttachment(n, body) ==
  LET wrap == ReadThroughWrap(body)
  IN IF wrap.found /\ TryReadHeader(wrap.rest)
     THEN DecryptChunkedBody(n, Head(wrap.rest), Tail(wrap.rest))
     ELSE ReadWhole(n, wrap.rest)

(* A private message carries the key in its sealed text, a public one has  *)
(* none and the file is shown as it comes.                                 *)
SealFileKeyInText(n) == [url |-> n, entry |-> n]
PublicText(n) == [url |-> n, entry |-> None]

OpenAttachmentWithKey(message, body) ==
  IF message.entry = None THEN Head(body).bytes ELSE ReadAttachment(message.entry, body)

(* What a host or a proxy may make of a body: it ends early, within a      *)
(* piece or between two, a piece is missing, comes twice, or changes       *)
(* places, a piece is taken from another body, or another body is given.   *)
Damaged(body, others) ==
  LET at == DOMAIN body
  IN {SubSeq(body, 1, k) : k \in 0 .. Len(body) - 1}
     \cup {Append(SubSeq(body, 1, k), Cut) : k \in 0 .. Len(body) - 1}
     \cup {RemoveAt(body, k) : k \in at}
     \cup {InsertAt(body, k, body[k]) : k \in at}
     \cup {[body EXCEPT ![i] = body[j], ![j] = body[i]] : i, j \in at}
     \cup {[body EXCEPT ![k] = piece] : k \in at, piece \in UNION {Range(other) : other \in others}}
     \cup others

-----------------------------------------------------------------------------
(* The device.                                                             *)

Ids == DOMAIN upload

(* The bytes of an upload on the wire.                                     *)
BodyOf(n) ==
  IF upload[n].route = "raw" THEN EncryptFileStream(n, upload[n].size)
  ELSE <<Whole(n, upload[n].size)>>

Init ==
  /\ tab = [u \in User |-> [on |-> FALSE, token |-> None, current |-> None]]
  /\ upload = <<>>
  /\ sent = {}
  /\ tokens = <<>>
  /\ slots = [u \in User |-> 0]
  /\ rate = [u \in User |-> 0]
  /\ day = [u \in User |-> 0]
  /\ temp = {}
  /\ stored = <<>>
  /\ orphaned = {}
  /\ left \in Scenario

(* issueUploadToken, in the answer to a sign-in: the oldest one gives way. *)
SignIn(u) ==
  /\ Spend("signIn")
  /\ LET token == [of |-> u, n |-> left["signIn"]]
         all == Append(tokens, token)
     IN /\ tokens' = IF Len(all) > MaxTokens THEN Tail(all) ELSE all
        /\ tab' = [tab EXCEPT ![u].on = TRUE, ![u].token = token]
  /\ UNCHANGED <<upload, sent, slots, rate, day, temp, stored, orphaned>>

(* An upload that is aborted, if there is one.                             *)
Aborted(n) == [m \in Ids |-> IF m = n THEN [upload[m] EXCEPT !.aborted = TRUE] ELSE upload[m]]

(* logout: the socket, the token, and the upload under way.                *)
LogOut(u) ==
  /\ tab[u].on
  /\ Spend("signOut")
  /\ tab' = [tab EXCEPT ![u] = [on |-> FALSE, token |-> None, current |-> None]]
  /\ upload' = Aborted(tab[u].current)
  /\ UNCHANGED <<sent, limits, temp, stored, orphaned>>

New(u, route, size, here) ==
  [by |-> u, route |-> route, size |-> size, here |-> here, aborted |-> FALSE,
   there |-> "none", answer |-> None, token |-> None]

(* Starting an upload aborts the one before.                               *)
Posting(u, n, uploads) ==
  /\ upload' = [m \in DOMAIN uploads |->
                  IF m = n THEN [uploads[m] EXCEPT !.here = "posting", !.token = tab[u].token]
                  ELSE IF m = tab[u].current THEN [uploads[m] EXCEPT !.aborted = TRUE]
                  ELSE uploads[m]]
  /\ tab' = [tab EXCEPT ![u].current = n]

(* sendImage: to the public channel, as it is.                             *)
SendImage(u, size) ==
  /\ tab[u].on
  /\ size <= MaxUpload
  /\ Spend("file")
  /\ Posting(u, Len(upload) + 1, Append(upload, New(u, "form", size, "posting")))
  /\ UNCHANGED <<sent, limits, temp, stored, orphaned>>

(* sendDmImage: the keys of the file come first.                           *)
SendDmImage(u, size) ==
  /\ tab[u].on
  /\ size <= MaxUpload
  /\ Spend("file")
  /\ upload' = Append(upload, New(u, "raw", size, "sealing"))
  /\ UNCHANGED <<tab, sent, limits, temp, stored, orphaned>>

(* encryptFileStream has returned: nothing asks whose tab it is by now.    *)
PrepareEncryptedMedia(n) ==
  /\ upload[n].here = "sealing"
  /\ Posting(upload[n].by, n, upload)
  /\ UNCHANGED <<sent, limits, temp, stored, orphaned, left>>

(* The reference goes only if it is still this upload's.                   *)
Unreferred(u, n) == IF tab[u].current = n THEN [tab EXCEPT ![u].current = None] ELSE tab

(* The fetch of an aborted upload rejects: nobody is told anything.        *)
Rejected(n) ==
  /\ upload[n].here = "posting"
  /\ upload[n].aborted
  /\ upload' = [upload EXCEPT ![n].here = "cancelled"]
  /\ tab' = Unreferred(upload[n].by, n)
  /\ UNCHANGED <<sent, limits, temp, stored, orphaned, left>>

(* The answer: a message that names the file, if there is still a socket   *)
(* to send it over.                                                        *)
Answered(n) ==
  /\ upload[n].here = "posting"
  /\ ~upload[n].aborted
  /\ upload[n].answer # None
  /\ upload' = [upload EXCEPT ![n].here = IF upload[n].answer = "url" THEN "done" ELSE "failed"]
  /\ tab' = Unreferred(upload[n].by, n)
  /\ sent' = IF upload[n].answer # "url" \/ ~tab[upload[n].by].on THEN sent
             ELSE sent \cup {IF upload[n].route = "raw" THEN SealFileKeyInText(n)
                             ELSE PublicText(n)}
  /\ UNCHANGED <<limits, temp, stored, orphaned, left>>

-----------------------------------------------------------------------------
(* The server.                                                             *)

There(stage) == {n \in Ids : upload[n].there = stage}
InFlight == There("arriving") \cup There("storing") \cup There("deaf")

(* The end of a handler, whatever the answer: the finally of the route     *)
(* gives the slot back, the temporary file is unlinked.                    *)
(* Mutant: a refusal keeps the slot.  *)
Out_Held(n, answer) ==
  /\ upload' = [upload EXCEPT ![n].there = "out", ![n].answer = answer]
  /\ slots' = IF answer = "url" THEN [slots EXCEPT ![upload[n].by] = @ - 1] ELSE slots
  /\ temp' = temp \ {n}

Out(n, answer) ==
  /\ upload' = [upload EXCEPT ![n].there = "out", ![n].answer = answer]
  /\ slots' = [slots EXCEPT ![upload[n].by] = @ - 1]
  /\ temp' = temp \ {n}

Honoured(token) == \E i \in DOMAIN tokens : tokens[i] = token

CheckUploadRate(u) == rate[u] < RateLimit

ClaimUploadSlot(u) == slots[u] < MaxConcurrent

(* The first of the day is charged whatever it measures.                   *)
ChargeUploadBytes(u, bytes) == day[u] = 0 \/ day[u] + bytes <= DailyBytes

(* Nothing past the ceiling is kept.                                       *)
DrainToTempFile(n) == Bytes(BodyOf(n)) <= MaxUpload

(* The route: a token, a slot, and a place in the minute.                  *)
Request(n) ==
  LET u == upload[n].by
  IN /\ upload[n].here = "posting"
     /\ upload[n].there = "none"
     /\ IF Honoured(upload[n].token) /\ ClaimUploadSlot(u) /\ CheckUploadRate(u)
        THEN /\ slots' = [slots EXCEPT ![u] = @ + 1]
             /\ rate' = [rate EXCEPT ![u] = @ + 1]
             /\ upload' = [upload EXCEPT ![n].there = "arriving"]
             /\ temp' = temp \cup {n}
        ELSE /\ upload' = [upload EXCEPT ![n].there = "out", ![n].answer = "error"]
             /\ UNCHANGED <<slots, rate, temp>>
     /\ UNCHANGED <<device, tokens, day, stored, orphaned, left>>

(* All of it has been received, or it is refused: past the ceiling, or     *)
(* over what the account has left of the day.                              *)
(* Mutant: past the ceiling the handler stops reading and never answers.  *)
Drained_Silent(n) ==
  LET u == upload[n].by
      bytes == Bytes(BodyOf(n))
  IN /\ upload[n].there = "arriving"
     /\ ~upload[n].aborted
     /\ DrainToTempFile(n)
     /\ IF ChargeUploadBytes(u, bytes)
        THEN /\ day' = [day EXCEPT ![u] = @ + bytes]
             /\ upload' = [upload EXCEPT ![n].there = "storing"]
             /\ UNCHANGED <<slots, temp>>
        ELSE Out(n, "error") /\ UNCHANGED day
     /\ UNCHANGED <<device, tokens, rate, stored, orphaned, left>>

Drained(n) ==
  LET u == upload[n].by
      bytes == Bytes(BodyOf(n))
  IN /\ upload[n].there = "arriving"
     /\ ~upload[n].aborted
     /\ IF DrainToTempFile(n) /\ ChargeUploadBytes(u, bytes)
        THEN /\ day' = [day EXCEPT ![u] = @ + bytes]
             /\ upload' = [upload EXCEPT ![n].there = "storing"]
             /\ UNCHANGED <<slots, temp>>
        ELSE Out(n, "error") /\ UNCHANGED day
     /\ UNCHANGED <<device, tokens, rate, stored, orphaned, left>>

(* The body stops: the client has aborted it, or its connection is gone.   *)
BodyStops(n) ==
  /\ upload[n].there = "arriving"
  /\ upload[n].aborted \/ Spend("cut")
  /\ upload[n].aborted => UNCHANGED left
  /\ Out(n, "error")
  /\ UNCHANGED <<device, tokens, rate, day, stored, orphaned>>

(* storeTempUpload: the host has it and says so, or fails, refuses, is too *)
(* slow or unreachable.                                                    *)
StoreTempUpload(n) ==
  /\ upload[n].there = "storing"
  /\ \/ /\ stored' = [m \in DOMAIN stored \cup {n} |-> IF m = n THEN BodyOf(n) ELSE stored[m]]
        /\ Out(n, "url")
     \/ /\ Out(n, "error")
        /\ UNCHANGED stored
  /\ UNCHANGED <<device, tokens, rate, day, orphaned, left>>

(* The host goes in the middle of its answer: the response neither ends    *)
(* nor fails for anything that listens, and the promise stays open.        *)
HostGoes(n) ==
  /\ upload[n].there = "storing"
  /\ Spend("deaf")
  /\ upload' = [upload EXCEPT ![n].there = "deaf"]
  /\ UNCHANGED <<device, limits, temp, stored, orphaned>>

(* A token is past its day, and so are the counts of a minute or a day.    *)
Expire ==
  /\ Spend("window")
  /\ \/ rate' = [u \in User |-> 0] /\ UNCHANGED <<tokens, day>>
     \/ day' = [u \in User |-> 0] /\ UNCHANGED <<tokens, rate>>
     \/ tokens # <<>> /\ tokens' = Tail(tokens) /\ UNCHANGED <<rate, day>>
  /\ UNCHANGED <<device, upload, slots, temp, stored, orphaned>>

(* The process goes and comes back: what it kept in memory is gone, the    *)
(* temporary files stay.  Every socket is closed.                          *)
Restart ==
  /\ Spend("crash")
  /\ tokens' = <<>>
  /\ slots' = [u \in User |-> 0]
  /\ rate' = slots'
  /\ day' = slots'
  /\ orphaned' = temp
  /\ upload' = [n \in Ids |-> IF n \in InFlight
                              THEN [upload[n] EXCEPT !.there = "out", !.answer = "error"]
                              ELSE upload[n]]
  /\ tab' = [u \in User |-> [tab[u] EXCEPT !.on = FALSE]]
  /\ UNCHANGED <<sent, temp, stored>>

Step(n) ==
  \/ PrepareEncryptedMedia(n) \/ Rejected(n) \/ Answered(n)
  \/ Request(n) \/ Drained(n) \/ BodyStops(n) \/ StoreTempUpload(n)

Next ==
  \/ \E u \in User : \/ SignIn(u)
                     \/ LogOut(u)
                     \/ \E size \in Size : SendImage(u, size) \/ SendDmImage(u, size)
  \/ \E n \in Ids : Step(n) \/ HostGoes(n)
  \/ Expire
  \/ Restart

Uploads == 1 .. 3

(* Bytes keep coming or the connection ends; the host answers or its       *)
(* fifteen minutes pass; promises that have settled run on.                *)
Fairness == \A n \in Uploads : WF_vars(n \in Ids /\ Step(n))

Spec == Init /\ [][Next]_vars /\ Fairness

-----------------------------------------------------------------------------
(* Properties.                                                             *)

(* The server's books: an account's slots are its uploads in flight, never *)
(* more than it may have, and every temporary file belongs to one of them  *)
(* or was left by a process that went.                                     *)
SlotsAreCounted ==
  /\ \A u \in User :
       /\ slots[u] = Cardinality({n \in InFlight : upload[n].by = u})
       /\ slots[u] <= MaxConcurrent
  /\ temp \subseteq InFlight \cup orphaned

(* A file comes back whole or not at all: as it was stored it opens to     *)
(* what was sealed, in whichever format, and damaged on the way it opens   *)
(* to that or is refused, also with pieces that were sealed for another    *)
(* upload, or with the other's body as a whole.                            *)
WholeOrNotAtAll ==
  \A message \in sent :
    LET n == message.url
        others == {BodyOf(m) : m \in Ids \ {n}}
        file == [i \in 1 .. upload[n].size |-> i]
        formats == {stored[n], <<Whole(n, upload[n].size)>>, <<Wrap, Whole(n, upload[n].size)>>}
    IN /\ OpenAttachmentWithKey(message, stored[n]) = file
       /\ message.entry # None =>
            \A body \in formats :
              /\ ReadAttachment(n, body) = file
              /\ \A damaged \in Damaged(body, others) : ReadAttachment(n, damaged) \in {file, Refused}

(* Every request ends with an answer and gives back what it took, unless   *)
(* the media host goes in the middle of its own.                           *)
RequestsEnd ==
  \A n \in Uploads :
    (n \in Ids /\ upload[n].there = "arriving")
      ~> (n \in Ids /\ upload[n].there \in {"out", "deaf"})

-----------------------------------------------------------------------------
(* What the comments promise and the code does not keep.  No run checks    *)
(* these; README.md says where they fail.                                  *)

(* "Released in a finally ..., so a client that hangs up or whose upstream *)
(* refuses still gives the slot back": the finally waits for a promise     *)
(* that an upstream gone in the middle of its answer never settles.        *)
EverySlotComesBack ==
  \A n \in Uploads :
    (n \in Ids /\ upload[n].there = "arriving") ~> (n \in Ids /\ upload[n].there = "out")

(* "The ceiling is therefore the same as the global chat's": what a device *)
(* takes, the server takes.  The sealed body is longer than the file.      *)
WhatIsTakenFits == \A n \in Ids : DrainToTempFile(n)

(* "long enough that a client which signs in once a week still works": a   *)
(* device that stays signed in has a token that the server honours.        *)
SignedInCanUpload == \A u \in User : tab[u].on => Honoured(tab[u].token)
=============================================================================
