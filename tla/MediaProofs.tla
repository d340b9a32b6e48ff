---------------------------- MODULE MediaProofs ----------------------------
(***************************************************************************)
(* Proofs about Attachments!Spec and Pictures!PicSpec, for any accounts,   *)
(* sizes, chunks, messages, bubbles, limits and scenarios: the books of    *)
(* the upload route, what a reader makes of a body, and the books of the   *)
(* cache that what it read is kept in.                                     *)
(*                                                                         *)
(* A step of an upload is one of a few kinds (StepKind), and the books are *)
(* kept for each.  Whether a damaged body is refused is no matter of steps *)
(* but of the loops that cut, seal and read it, and what eviction leaves   *)
(* no matter of steps either: what a prefix of such a loop has done is     *)
(* carried from one round to the next (LoopKeeps).  A picture stays on the *)
(* screen because a message that is alone, one bubble and one decryption   *)
(* at a time, always has its entry in the cache, claimed (Alone).          *)
(***************************************************************************)
EXTENDS Attachments, Pictures, FiniteSetTheorems, SequenceTheorems, WellFoundedInduction, TLAPS

Bounded == {"file", "signIn", "signOut", "window", "crash", "cut", "deaf"}

Token == {None} \cup [of : User, n : Nat]

Tab == [on : BOOLEAN, token : Token, current : {None} \cup Nat]

Upload ==
  [by : User, route : {"form", "raw"}, size : {s \in Size : s <= MaxUpload},
   here : {"sealing", "posting", "cancelled", "done", "failed"}, aborted : BOOLEAN,
   there : {"none", "arriving", "storing", "deaf", "out"}, answer : {None, "url", "error"},
   token : Token]

TypeInv ==
  /\ tab \in [User -> Tab]
  /\ upload \in Seq(Upload)
  /\ slots \in [User -> Nat]
  /\ left \in [Bounded -> Nat]

(* The slots an account should have. *)
Held(u) == {n \in InFlight : upload[n].by = u}

(* An answer with a url is given for a file the host has, and a message goes for such an answer. *)
FilesInv ==
  /\ \A n \in Ids : upload[n].answer = "url" => n \in DOMAIN stored
  /\ \A n \in DOMAIN stored : n \in Ids /\ stored[n] = BodyOf(n)
  /\ \A message \in sent :
       /\ message.url \in DOMAIN stored
       /\ message = IF upload[message.url].route = "raw" THEN SealFileKeyInText(message.url)
                    ELSE PublicText(message.url)

Inv == TypeInv /\ SlotsAreCounted /\ FilesInv

-----------------------------------------------------------------------------
(* What a step does to the uploads.                                        *)

LEMMA IdsAre ==
  ASSUME TypeInv
  PROVE  /\ Len(upload) \in Nat /\ Ids = 1 .. Len(upload) /\ Ids \subseteq Nat
         /\ \A n \in Ids : upload[n] \in Upload
  BY LenProperties, ElementOfSeq DEF TypeInv, Ids

(* A change of every upload in its place. *)
LEMMA InPlace ==
  ASSUME TypeInv, NEW f, DOMAIN f = Ids, f = [n \in Ids |-> f[n]], \A n \in Ids : f[n] \in Upload
  PROVE  f \in Seq(Upload)
<1>1. Len(upload) \in Nat /\ Ids = 1 .. Len(upload)  BY IdsAre
<1>2. f \in [1 .. Len(upload) -> Upload]  BY <1>1
<1> QED  BY <1>1, <1>2, SeqDef

(* What an upload is stays what it is. *)
Lasting ==
  /\ Ids \subseteq DOMAIN upload'
  /\ \A n \in Ids :
       /\ upload'[n].by = upload[n].by
       /\ upload'[n].route = upload[n].route
       /\ upload'[n].size = upload[n].size

(* The server has nothing to do with the step: nothing is in flight that was not, or the other way. *)
Apart ==
  /\ \A n \in Ids : upload'[n].there \in {"arriving", "storing", "deaf"} <=> n \in InFlight
  /\ \A n \in DOMAIN upload' \ Ids : upload'[n].there = "none"
  /\ slots' = slots /\ temp' = temp /\ orphaned' = orphaned

(* An upload starts to be in flight, *)
Enters(n) ==
  /\ n \in Ids \ InFlight
  /\ upload' = [upload EXCEPT ![n].there = "arriving"]
  /\ slots[upload[n].by] < MaxConcurrent
  /\ slots' = [slots EXCEPT ![upload[n].by] = @ + 1]
  /\ temp' = temp \cup {n} /\ orphaned' = orphaned

(* or ends, *)
Leaves(n) ==
  /\ n \in InFlight
  /\ \E answer \in {"url", "error"} : Out(n, answer)
  /\ orphaned' = orphaned

(* or all do. *)
AllLeave ==
  /\ DOMAIN upload' = Ids
  /\ \A n \in Ids : upload'[n].there \notin {"arriving", "storing", "deaf"}
  /\ slots' = [u \in User |-> 0] /\ temp' = temp /\ orphaned' = temp

LEMMA FlightFacts ==
  ASSUME TypeInv
  PROVE  /\ InFlight = {n \in Ids : upload[n].there \in {"arriving", "storing", "deaf"}}
         /\ IsFiniteSet(Ids)
         /\ \A u \in User : IsFiniteSet(Held(u))
<1>1. InFlight = {n \in Ids : upload[n].there \in {"arriving", "storing", "deaf"}}
  BY DEF InFlight, There
<1>2. IsFiniteSet(Ids)  BY IdsAre, FS_Interval
<1>3. \A u \in User : Held(u) \subseteq Ids  BY <1>1 DEF Held
<1> QED  BY <1>1, <1>2, <1>3, FS_Subset

StepKind ==
  /\ TypeInv'
  /\ Lasting
  /\ \/ Apart
     \/ \E n \in Ids : Enters(n) \/ Leaves(n)
     \/ AllLeave

LEMMA SpendType ==
  ASSUME TypeInv, NEW what \in Bounded, Spend(what)
  PROVE  left' \in [Bounded -> Nat] /\ left[what] \in Nat
<1>1. left[what] \in Nat /\ left[what] > 0  BY DEF TypeInv, Spend
<1>2. left[what] - 1 \in Nat  BY <1>1
<1> QED  BY <1>1, <1>2 DEF TypeInv, Spend

LEMMA SignInKind ==
  ASSUME TypeInv, NEW u \in User, SignIn(u)
  PROVE  StepKind
<1>1. left' \in [Bounded -> Nat] /\ left["signIn"] \in Nat  BY SpendType DEF SignIn, Bounded
<1>2. tab' \in [User -> Tab]
  <2>1. [of |-> u, n |-> left["signIn"]] \in Token  BY <1>1 DEF Token
  <2>2. tab' = [tab EXCEPT ![u].on = TRUE, ![u].token = [of |-> u, n |-> left["signIn"]]]  BY DEF SignIn
  <2> QED  BY <2>1, <2>2 DEF TypeInv, Tab
<1>3. upload' = upload /\ slots' = slots /\ temp' = temp /\ orphaned' = orphaned  BY DEF SignIn
<1>4. TypeInv'  BY <1>1, <1>2, <1>3 DEF TypeInv
<1>5. Lasting /\ Apart  BY <1>3, FlightFacts DEF Lasting, Apart, Ids
<1> QED  BY <1>4, <1>5 DEF StepKind

LEMMA LogOutKind ==
  ASSUME TypeInv, NEW u \in User, LogOut(u)
  PROVE  StepKind
<1> DEFINE c == tab[u].current
<1>1. left' \in [Bounded -> Nat]  BY SpendType DEF LogOut, Bounded
<1>2. tab' \in [User -> Tab]  BY DEF LogOut, TypeInv, Tab, Token
<1>3. upload' = Aborted(c) /\ slots' = slots /\ temp' = temp /\ orphaned' = orphaned
  BY DEF LogOut, limits
<1>4. DOMAIN Aborted(c) = Ids /\ Aborted(c) = [n \in Ids |-> Aborted(c)[n]]  BY DEF Aborted
<1>5. \A n \in Ids : /\ Aborted(c)[n] \in Upload
                     /\ Aborted(c)[n].by = upload[n].by /\ Aborted(c)[n].route = upload[n].route
                     /\ Aborted(c)[n].size = upload[n].size /\ Aborted(c)[n].there = upload[n].there
  <2> SUFFICES ASSUME NEW n \in Ids
               PROVE  /\ Aborted(c)[n] \in Upload
                      /\ Aborted(c)[n].by = upload[n].by /\ Aborted(c)[n].route = upload[n].route
                      /\ Aborted(c)[n].size = upload[n].size /\ Aborted(c)[n].there = upload[n].there
    OBVIOUS
  <2>1. upload[n] \in Upload  BY IdsAre
  <2>2. Aborted(c)[n] = upload[n] \/ Aborted(c)[n] = [upload[n] EXCEPT !.aborted = TRUE]  BY DEF Aborted
  <2> QED  BY <2>1, <2>2 DEF Upload
<1>6. upload' \in Seq(Upload)  BY <1>3, <1>4, <1>5, InPlace
<1>7. slots' \in [User -> Nat]  BY <1>3 DEF TypeInv
<1>8. TypeInv'  BY <1>1, <1>2, <1>6, <1>7 DEF TypeInv
<1>9. Lasting /\ Apart  BY <1>3, <1>4, <1>5, FlightFacts DEF Lasting, Apart
<1> QED  BY <1>8, <1>9 DEF StepKind

(* Both ways to start an upload, on the uploads there are or with one more. *)
LEMMA PostingKind ==
  ASSUME TypeInv, NEW u \in User, NEW n \in Nat, NEW uploads \in Seq(Upload), Posting(u, n, uploads)
  PROVE  /\ tab' \in [User -> Tab]
         /\ upload' \in Seq(Upload) /\ DOMAIN upload' = DOMAIN uploads
         /\ \A m \in DOMAIN uploads :
              /\ upload'[m].by = uploads[m].by /\ upload'[m].route = uploads[m].route
              /\ upload'[m].size = uploads[m].size /\ upload'[m].there = uploads[m].there
              /\ upload'[m].answer = uploads[m].answer
<1>1. Len(uploads) \in Nat /\ DOMAIN uploads = 1 .. Len(uploads)  BY LenProperties
<1>2. tab' \in [User -> Tab]  BY DEF Posting, TypeInv, Tab
<1>3. tab[u].token \in Token  BY DEF TypeInv, Tab
<1>4. ASSUME NEW m \in DOMAIN uploads
      PROVE  /\ upload'[m] \in Upload
             /\ upload'[m].by = uploads[m].by /\ upload'[m].route = uploads[m].route
             /\ upload'[m].size = uploads[m].size /\ upload'[m].there = uploads[m].there
             /\ upload'[m].answer = uploads[m].answer
  <2>1. uploads[m] \in Upload  BY <1>1, ElementOfSeq
  <2>2. \/ upload'[m] = [uploads[m] EXCEPT !.here = "posting", !.token = tab[u].token]
        \/ upload'[m] = [uploads[m] EXCEPT !.aborted = TRUE]
        \/ upload'[m] = uploads[m]
    BY DEF Posting
  <2> QED  BY <1>3, <2>1, <2>2 DEF Upload
<1>5. upload' \in [1 .. Len(uploads) -> Upload]
  <2>1. DOMAIN upload' = 1 .. Len(uploads) /\ upload' = [m \in DOMAIN upload' |-> upload'[m]]
    BY <1>1 DEF Posting
  <2> QED  BY <1>1, <1>4, <2>1
<1> QED  BY <1>1, <1>2, <1>4, <1>5, SeqDef

LEMMA NewType ==
  ASSUME NEW u \in User, NEW route \in {"form", "raw"}, NEW size \in Size, size <= MaxUpload,
         NEW here \in {"sealing", "posting"}
  PROVE  New(u, route, size, here) \in Upload
  BY DEF New, Upload, Token

LEMMA AppendNew ==
  ASSUME TypeInv, NEW x \in Upload, x.there = "none"
  PROVE  LET all == Append(upload, x) IN
         /\ all \in Seq(Upload) /\ DOMAIN all = 1 .. Len(upload) + 1 /\ Len(upload) + 1 \in Nat
         /\ \A n \in Ids : all[n] = upload[n]
         /\ Ids \subseteq DOMAIN all
         /\ \A n \in DOMAIN all \ Ids : all[n] = x
<1> DEFINE all == Append(upload, x)
<1>1. Len(upload) \in Nat /\ Ids = 1 .. Len(upload)  BY IdsAre
<1>2. /\ all \in Seq(Upload) /\ Len(all) = Len(upload) + 1
      /\ \A i \in 1 .. Len(upload) : all[i] = upload[i]
      /\ all[Len(upload) + 1] = x
  BY AppendProperties DEF TypeInv
<1>3. DOMAIN all = 1 .. Len(upload) + 1  BY <1>2, LenProperties
<1> QED  BY <1>1, <1>2, <1>3

LEMMA SendsKind ==
  ASSUME TypeInv, NEW u \in User, NEW size \in Size, SendImage(u, size) \/ SendDmImage(u, size)
  PROVE  /\ StepKind
         /\ \A n \in Ids : upload'[n].answer = upload[n].answer
         /\ \A n \in DOMAIN upload' \ Ids : upload'[n].answer = None
<1>1. left' \in [Bounded -> Nat] /\ slots' \in [User -> Nat]
  BY SpendType DEF SendImage, SendDmImage, Bounded, TypeInv, limits
<1>2. PICK x \in Upload : /\ x.there = "none" /\ x.answer = None
                          /\ \/ upload' = Append(upload, x) /\ tab' = tab
                             \/ Posting(u, Len(upload) + 1, Append(upload, x))
  <2>1. size <= MaxUpload  BY DEF SendImage, SendDmImage
  <2>2. CASE SendImage(u, size)
    <3> DEFINE x == New(u, "form", size, "posting")
    <3>1. x \in Upload /\ x.there = "none" /\ x.answer = None  BY <2>1, NewType DEF New
    <3> QED  BY <2>2, <3>1 DEF SendImage
  <2>3. CASE SendDmImage(u, size)
    <3> DEFINE x == New(u, "raw", size, "sealing")
    <3>1. x \in Upload /\ x.there = "none" /\ x.answer = None  BY <2>1, NewType DEF New
    <3> QED  BY <2>3, <3>1 DEF SendDmImage
  <2> QED  BY <2>2, <2>3
<1> DEFINE all == Append(upload, x)
<1>3. /\ all \in Seq(Upload) /\ DOMAIN all = 1 .. Len(upload) + 1 /\ Len(upload) + 1 \in Nat
      /\ \A n \in Ids : all[n] = upload[n]
      /\ Ids \subseteq DOMAIN all
      /\ \A n \in DOMAIN all \ Ids : all[n] = x
  BY <1>2, AppendNew
<1> HIDE DEF all
<1>4. /\ tab' \in [User -> Tab]
      /\ upload' \in Seq(Upload) /\ DOMAIN upload' = DOMAIN all
      /\ \A m \in DOMAIN all :
           /\ upload'[m].by = all[m].by /\ upload'[m].route = all[m].route
           /\ upload'[m].size = all[m].size /\ upload'[m].there = all[m].there
           /\ upload'[m].answer = all[m].answer
  <2>1. CASE upload' = all /\ tab' = tab  BY <1>3, <2>1 DEF TypeInv
  <2>2. CASE Posting(u, Len(upload) + 1, all)  BY <1>3, <2>2, PostingKind
  <2> QED  BY <1>2, <2>1, <2>2 DEF all
<1>5. TypeInv'  BY <1>1, <1>4 DEF TypeInv
<1>6. slots' = slots /\ temp' = temp /\ orphaned' = orphaned  BY DEF SendImage, SendDmImage, limits
<1>7. Lasting  BY <1>3, <1>4 DEF Lasting
<1>8. Apart  BY <1>2, <1>3, <1>4, <1>6, FlightFacts DEF Apart
<1> QED  BY <1>2, <1>3, <1>4, <1>5, <1>7, <1>8 DEF StepKind

(* One upload changes. *)
LEMMA OneChanges ==
  ASSUME TypeInv, NEW n \in Ids, NEW x \in Upload, upload' = [upload EXCEPT ![n] = x],
         x.by = upload[n].by, x.route = upload[n].route, x.size = upload[n].size
  PROVE  /\ upload' \in Seq(Upload) /\ DOMAIN upload' = Ids
         /\ upload'[n] = x /\ \A m \in Ids \ {n} : upload'[m] = upload[m]
         /\ Lasting
<1>1. Len(upload) \in Nat /\ Ids = 1 .. Len(upload)  BY IdsAre
<1>2. upload' \in Seq(Upload)  BY <1>1, ExceptSeq DEF TypeInv
<1>3. DOMAIN upload' = Ids /\ upload'[n] = x /\ \A m \in Ids \ {n} : upload'[m] = upload[m]  BY DEF Ids
<1>4. Lasting  BY <1>3 DEF Lasting
<1> QED  BY <1>2, <1>3, <1>4

LEMMA DeviceKind ==
  ASSUME TypeInv, NEW n \in Ids, PrepareEncryptedMedia(n) \/ Rejected(n) \/ Answered(n)
  PROVE  StepKind /\ DOMAIN upload' = Ids /\ \A m \in Ids : upload'[m].answer = upload[m].answer
<1>1. upload[n] \in Upload /\ n \in Nat /\ upload[n].by \in User  BY IdsAre DEF Upload
<1>2. slots' = slots /\ temp' = temp /\ orphaned' = orphaned /\ left' = left
  BY DEF PrepareEncryptedMedia, Rejected, Answered, limits
<1>3. /\ tab' \in [User -> Tab] /\ upload' \in Seq(Upload) /\ DOMAIN upload' = Ids
      /\ \A m \in Ids : /\ upload'[m].by = upload[m].by /\ upload'[m].route = upload[m].route
                        /\ upload'[m].size = upload[m].size /\ upload'[m].there = upload[m].there
                        /\ upload'[m].answer = upload[m].answer
  <2>1. CASE PrepareEncryptedMedia(n)
    <3>1. Posting(upload[n].by, n, upload) /\ upload \in Seq(Upload)
      BY <2>1 DEF PrepareEncryptedMedia, TypeInv
    <3> QED  BY <1>1, <3>1, PostingKind DEF Ids
  <2>2. CASE Rejected(n) \/ Answered(n)
    <3>1. tab' = Unreferred(upload[n].by, n)  BY <2>2 DEF Rejected, Answered
    <3>2. tab' \in [User -> Tab]  BY <1>1, <3>1 DEF Unreferred, TypeInv, Tab
    <3>3. PICK h \in {"cancelled", "done", "failed"} : upload' = [upload EXCEPT ![n].here = h]
      BY <2>2 DEF Rejected, Answered
    <3> DEFINE x == [upload[n] EXCEPT !.here = h]
    <3>4. x \in Upload /\ x.by = upload[n].by /\ x.route = upload[n].route /\ x.size = upload[n].size
          /\ x.there = upload[n].there /\ x.answer = upload[n].answer
      BY <1>1 DEF Upload
    <3>5. upload' = [upload EXCEPT ![n] = x]  BY <3>3
    <3> HIDE DEF x
    <3>6. /\ upload' \in Seq(Upload) /\ DOMAIN upload' = Ids
          /\ upload'[n] = x /\ \A m \in Ids \ {n} : upload'[m] = upload[m]
      BY <3>4, <3>5, OneChanges
    <3> QED  BY <3>2, <3>4, <3>6
  <2> QED  BY <2>1, <2>2
<1>4. TypeInv'  BY <1>2, <1>3 DEF TypeInv
<1>5. Lasting  BY <1>3 DEF Lasting
<1>6. Apart  BY <1>2, <1>3, FlightFacts DEF Apart
<1> QED  BY <1>3, <1>4, <1>5, <1>6 DEF StepKind

LEMMA OutKind ==
  ASSUME TypeInv, NEW n \in InFlight, NEW answer \in {"url", "error"}, Out(n, answer),
         tab' = tab, orphaned' = orphaned, left' \in [Bounded -> Nat],
         slots[upload[n].by] > 0
  PROVE  /\ StepKind /\ DOMAIN upload' = Ids /\ upload'[n].answer = answer
         /\ \A m \in Ids \ {n} : upload'[m] = upload[m]
<1> DEFINE x == [upload[n] EXCEPT !.there = "out", !.answer = answer]
<1>1. n \in Ids /\ upload[n] \in Upload  BY IdsAre, FlightFacts
<1>2. x \in Upload /\ x.by = upload[n].by /\ x.route = upload[n].route /\ x.size = upload[n].size
      /\ x.answer = answer
  BY <1>1 DEF Upload
<1>3. upload' = [upload EXCEPT ![n] = x]  BY DEF Out
<1> HIDE DEF x
<1>4. /\ upload' \in Seq(Upload) /\ DOMAIN upload' = Ids /\ upload'[n] = x
      /\ \A m \in Ids \ {n} : upload'[m] = upload[m]
      /\ Lasting
  BY <1>1, <1>2, <1>3, OneChanges
<1>5. slots' \in [User -> Nat]
  <2>1. upload[n].by \in User  BY <1>1 DEF Upload
  <2>2. slots[upload[n].by] \in Nat  BY <2>1 DEF TypeInv
  <2>3. slots[upload[n].by] - 1 \in Nat  BY <2>2
  <2> QED  BY <2>3 DEF Out, TypeInv
<1>6. TypeInv'  BY <1>4, <1>5 DEF TypeInv
<1>7. Leaves(n)  BY DEF Leaves
<1> QED  BY <1>1, <1>2, <1>4, <1>6, <1>7 DEF StepKind

(* There is something to give back. *)
LEMMA HeldIsCounted ==
  ASSUME TypeInv, SlotsAreCounted, NEW n \in InFlight
  PROVE  n \in Ids /\ upload[n].by \in User /\ slots[upload[n].by] > 0
<1> DEFINE u == upload[n].by
<1>1. n \in Ids /\ u \in User  BY IdsAre, FlightFacts DEF Upload
<1>2. n \in Held(u) /\ IsFiniteSet(Held(u))  BY <1>1, FlightFacts DEF Held
<1>3. Cardinality(Held(u)) # 0 /\ Cardinality(Held(u)) \in Nat  BY <1>2, FS_EmptySet, FS_CardinalityType
<1>4. slots[u] = Cardinality(Held(u))  BY <1>1 DEF SlotsAreCounted, Held
<1> QED  BY <1>1, <1>3, <1>4

LEMMA RequestKind ==
  ASSUME TypeInv, NEW n \in Ids, Request(n)
  PROVE  /\ StepKind /\ DOMAIN upload' = Ids /\ upload'[n].answer \in {upload[n].answer, "error"}
         /\ \A m \in Ids \ {n} : upload'[m] = upload[m]
<1> DEFINE u == upload[n].by
<1>1. upload[n] \in Upload /\ u \in User  BY IdsAre DEF Upload
<1>2. n \notin InFlight /\ upload[n].there = "none"  BY FlightFacts DEF Request
<1>3. tab' = tab /\ left' = left /\ orphaned' = orphaned  BY DEF Request, device
<1>4. CASE upload' = [upload EXCEPT ![n].there = "arriving"] /\ slots' = [slots EXCEPT ![u] = @ + 1]
           /\ temp' = temp \cup {n} /\ slots[u] < MaxConcurrent
  <2> DEFINE x == [upload[n] EXCEPT !.there = "arriving"]
  <2>1. x \in Upload /\ x.by = u /\ x.route = upload[n].route /\ x.size = upload[n].size
        /\ x.answer = upload[n].answer
    BY <1>1 DEF Upload
  <2>2. upload' = [upload EXCEPT ![n] = x]  BY <1>4
  <2> HIDE DEF x
  <2>3. /\ upload' \in Seq(Upload) /\ DOMAIN upload' = Ids /\ upload'[n] = x
        /\ \A m \in Ids \ {n} : upload'[m] = upload[m]
        /\ Lasting
    BY <2>1, <2>2, OneChanges
  <2>4. slots' \in [User -> Nat]
    <3>1. slots[u] + 1 \in Nat  BY <1>1 DEF TypeInv
    <3> QED  BY <1>4, <3>1 DEF TypeInv
  <2>5. TypeInv'  BY <1>3, <2>3, <2>4 DEF TypeInv
  <2>6. Enters(n)  BY <1>2, <1>3, <1>4 DEF Enters
  <2> QED  BY <2>1, <2>3, <2>5, <2>6 DEF StepKind
<1>5. CASE upload' = [upload EXCEPT ![n].there = "out", ![n].answer = "error"]
           /\ slots' = slots /\ temp' = temp
  <2> DEFINE x == [upload[n] EXCEPT !.there = "out", !.answer = "error"]
  <2>1. x \in Upload /\ x.by = u /\ x.route = upload[n].route /\ x.size = upload[n].size
        /\ x.answer = "error" /\ x.there = "out"
    BY <1>1 DEF Upload
  <2>2. upload' = [upload EXCEPT ![n] = x]  BY <1>5
  <2> HIDE DEF x
  <2>3. /\ upload' \in Seq(Upload) /\ DOMAIN upload' = Ids /\ upload'[n] = x
        /\ \A m \in Ids \ {n} : upload'[m] = upload[m]
        /\ Lasting
    BY <2>1, <2>2, OneChanges
  <2>4. TypeInv'  BY <1>3, <1>5, <2>3 DEF TypeInv
  <2>5. Apart  BY <1>2, <1>3, <1>5, <2>1, <2>3, FlightFacts DEF Apart
  <2> QED  BY <2>1, <2>3, <2>4, <2>5 DEF StepKind
<1> QED  BY <1>4, <1>5 DEF Request, ClaimUploadSlot

(* A handler goes on to its next wait. *)
LEMMA StageChanges ==
  ASSUME TypeInv, NEW n \in InFlight, NEW stage \in {"storing", "deaf"},
         upload' = [upload EXCEPT ![n].there = stage],
         tab' = tab, slots' = slots, temp' = temp, orphaned' = orphaned, left' \in [Bounded -> Nat]
  PROVE  /\ StepKind /\ DOMAIN upload' = Ids
         /\ \A m \in Ids : upload'[m].answer = upload[m].answer
<1> DEFINE x == [upload[n] EXCEPT !.there = stage]
<1>1. n \in Ids /\ upload[n] \in Upload  BY IdsAre, FlightFacts
<1>2. x \in Upload /\ x.by = upload[n].by /\ x.route = upload[n].route /\ x.size = upload[n].size
      /\ x.answer = upload[n].answer /\ x.there = stage
  BY <1>1 DEF Upload
<1>3. upload' = [upload EXCEPT ![n] = x]  OBVIOUS
<1> HIDE DEF x
<1>4. /\ upload' \in Seq(Upload) /\ DOMAIN upload' = Ids /\ upload'[n] = x
      /\ \A m \in Ids \ {n} : upload'[m] = upload[m]
      /\ Lasting
  BY <1>1, <1>2, <1>3, OneChanges
<1>5. TypeInv'  BY <1>4 DEF TypeInv
<1>6. Apart  BY <1>1, <1>2, <1>4, FlightFacts DEF Apart
<1> QED  BY <1>1, <1>2, <1>4, <1>5, <1>6 DEF StepKind

LEMMA ServerKind ==
  ASSUME TypeInv, SlotsAreCounted, NEW n \in Ids,
         Drained(n) \/ BodyStops(n) \/ StoreTempUpload(n) \/ HostGoes(n)
  PROVE  /\ StepKind /\ DOMAIN upload' = Ids
         /\ \A m \in Ids \ {n} : upload'[m].answer = upload[m].answer
         /\ \/ upload'[n].answer \in {upload[n].answer, "error"}
            \/ StoreTempUpload(n) /\ n \in DOMAIN stored' /\ upload'[n].answer = "url"
<1>1. n \in InFlight
  BY FlightFacts DEF Drained, BodyStops, StoreTempUpload, HostGoes
<1>2. slots[upload[n].by] > 0  BY <1>1, HeldIsCounted
<1>3. tab' = tab /\ orphaned' = orphaned  BY DEF Drained, BodyStops, StoreTempUpload, HostGoes, device
<1>4. left' \in [Bounded -> Nat]
  <2>1. left' = left \/ Spend("cut") \/ Spend("deaf")
    BY DEF Drained, BodyStops, StoreTempUpload, HostGoes
  <2> QED  BY <2>1, SpendType DEF Bounded, TypeInv
<1>5. CASE \E answer \in {"url", "error"} :
             Out(n, answer) /\ (answer = "url" => StoreTempUpload(n) /\ n \in DOMAIN stored')
  <2>1. PICK answer \in {"url", "error"} :
          Out(n, answer) /\ (answer = "url" => StoreTempUpload(n) /\ n \in DOMAIN stored')
    BY <1>5
  <2>2. /\ StepKind /\ DOMAIN upload' = Ids /\ upload'[n].answer = answer
        /\ \A m \in Ids \ {n} : upload'[m] = upload[m]
    BY <1>1, <1>2, <1>3, <1>4, <2>1, OutKind
  <2> QED  BY <2>1, <2>2
<1>6. CASE \E stage \in {"storing", "deaf"} :
             upload' = [upload EXCEPT ![n].there = stage] /\ slots' = slots /\ temp' = temp
  BY <1>1, <1>3, <1>4, <1>6, StageChanges
<1>7. Drained(n) => \/ Out(n, "error")
                    \/ upload' = [upload EXCEPT ![n].there = "storing"] /\ slots' = slots /\ temp' = temp
  BY DEF Drained
<1>8. BodyStops(n) => Out(n, "error")  BY DEF BodyStops
<1>9. StoreTempUpload(n) => Out(n, "error") \/ (Out(n, "url") /\ n \in DOMAIN stored')
  BY DEF StoreTempUpload
<1>10. HostGoes(n) => upload' = [upload EXCEPT ![n].there = "deaf"] /\ slots' = slots /\ temp' = temp
  BY DEF HostGoes, limits
<1> QED  BY <1>5, <1>6, <1>7, <1>8, <1>9, <1>10

LEMMA ExpireKind ==
  ASSUME TypeInv, Expire
  PROVE  StepKind /\ upload' = upload
<1>1. left' \in [Bounded -> Nat]  BY SpendType DEF Expire, Bounded
<1>2. upload' = upload /\ tab' = tab /\ slots' = slots /\ temp' = temp /\ orphaned' = orphaned
  BY DEF Expire, device
<1>3. TypeInv'  BY <1>1, <1>2 DEF TypeInv
<1>4. Lasting /\ Apart  BY <1>2, FlightFacts DEF Lasting, Apart, Ids
<1> QED  BY <1>2, <1>3, <1>4 DEF StepKind

LEMMA RestartKind ==
  ASSUME TypeInv, Restart
  PROVE  /\ StepKind /\ DOMAIN upload' = Ids
         /\ \A n \in Ids : upload'[n].answer \in {upload[n].answer, "error"}
<1>1. left' \in [Bounded -> Nat]  BY SpendType DEF Restart, Bounded
<1>2. tab' \in [User -> Tab]  BY DEF Restart, TypeInv, Tab
<1>3. ASSUME NEW n \in Ids
      PROVE  /\ upload'[n] \in Upload /\ upload'[n].by = upload[n].by
             /\ upload'[n].route = upload[n].route /\ upload'[n].size = upload[n].size
             /\ upload'[n].there \notin {"arriving", "storing", "deaf"}
             /\ upload'[n].answer \in {upload[n].answer, "error"}
  <2>1. upload[n] \in Upload  BY IdsAre
  <2>2. CASE n \in InFlight
    <3>1. upload'[n] = [upload[n] EXCEPT !.there = "out", !.answer = "error"]  BY <2>2 DEF Restart
    <3> QED  BY <2>1, <3>1 DEF Upload
  <2>3. CASE n \notin InFlight
    <3>1. upload'[n] = upload[n] /\ upload[n].there \notin {"arriving", "storing", "deaf"}
      BY <2>3, FlightFacts DEF Restart
    <3> QED  BY <2>1, <3>1
  <2> QED  BY <2>2, <2>3
<1>4. DOMAIN upload' = Ids /\ upload' = [n \in Ids |-> upload'[n]]  BY DEF Restart
<1>5. upload' \in Seq(Upload)  BY <1>3, <1>4, InPlace
<1>6. slots' = [u \in User |-> 0] /\ temp' = temp /\ orphaned' = temp  BY DEF Restart
<1>7. TypeInv'  BY <1>1, <1>2, <1>5, <1>6 DEF TypeInv
<1>8. Lasting  BY <1>3, <1>4 DEF Lasting
<1>9. AllLeave  BY <1>3, <1>4, <1>6 DEF AllLeave
<1> QED  BY <1>3, <1>4, <1>7, <1>8, <1>9 DEF StepKind

(* The four kinds of steps, whatever else they do, keep the books. *)
LEMMA SlotsStep ==
  ASSUME TypeInv, SlotsAreCounted, StepKind
  PROVE  SlotsAreCounted'
<1>1. InFlight = {n \in Ids : upload[n].there \in {"arriving", "storing", "deaf"}}
      /\ \A u \in User : IsFiniteSet(Held(u))
  BY FlightFacts
<1>2. InFlight' = {n \in Ids' : upload'[n].there \in {"arriving", "storing", "deaf"}}
  BY DEF InFlight, There
<1>3. Ids \subseteq Ids' /\ \A n \in Ids : upload'[n].by = upload[n].by  BY DEF StepKind, Lasting, Ids
<1>4. \A u \in User : slots[u] = Cardinality(Held(u)) /\ slots[u] <= MaxConcurrent
  BY DEF SlotsAreCounted, Held
<1>5. temp \subseteq InFlight \cup orphaned  BY DEF SlotsAreCounted
<1>6. CASE Apart
  <2>1. InFlight' = InFlight  BY <1>1, <1>2, <1>3, <1>6 DEF Apart, Ids
  <2>2. \A u \in User : Held(u)' = Held(u)  BY <1>1, <1>3, <2>1 DEF Held
  <2> QED  BY <1>4, <1>5, <1>6, <2>1, <2>2 DEF Apart, SlotsAreCounted, Held
<1>7. ASSUME NEW n \in Ids, Enters(n) PROVE SlotsAreCounted'
  <2>0. upload[n] \in Upload /\ upload[n].by \in User  BY IdsAre DEF Upload
  <2> PICK v \in User : v = upload[n].by  BY <2>0
  <2>1. upload[n] \in Upload /\ v \in User  BY <2>0
  <2>2. /\ n \notin InFlight /\ Ids' = Ids
        /\ upload'[n].there = "arriving" /\ \A m \in Ids \ {n} : upload'[m] = upload[m]
    BY <1>7, <2>1 DEF Enters, Upload, Ids
  <2>3. InFlight' = InFlight \cup {n}  BY <1>1, <1>2, <2>2
  <2>4. Held(v)' = Held(v) \cup {n} /\ n \notin Held(v)  BY <1>1, <1>3, <2>2, <2>3 DEF Held
  <2>5. \A u \in User \ {v} : Held(u)' = Held(u)  BY <1>1, <1>3, <2>2, <2>3 DEF Held
  <2>6. Cardinality(Held(v)') = Cardinality(Held(v)) + 1
    BY <1>1, <2>1, <2>4, FS_AddElement
  <2>7. slots'[v] = slots[v] + 1 /\ slots[v] < MaxConcurrent /\ \A u \in User \ {v} : slots'[u] = slots[u]
    BY <1>7, <2>1 DEF Enters, TypeInv
  <2>8. slots'[v] <= MaxConcurrent
    <3>1. slots[v] \in Nat /\ MaxConcurrent \in Nat  BY <2>1, AttachmentsAssumption DEF TypeInv
    <3> QED  BY <2>7, <3>1
  <2>9. ASSUME NEW u \in User PROVE slots'[u] = Cardinality(Held(u)') /\ slots'[u] <= MaxConcurrent
    <3>1. CASE u = v  BY <1>4, <2>1, <2>6, <2>7, <2>8, <3>1
    <3>2. CASE u # v  BY <1>4, <2>5, <2>7, <3>2
    <3> QED  BY <3>1, <3>2
  <2>10. temp' \subseteq InFlight' \cup orphaned'  BY <1>5, <1>7, <2>3 DEF Enters
  <2> QED  BY <2>9, <2>10 DEF SlotsAreCounted, Held
<1>8. ASSUME NEW n \in Ids, Leaves(n) PROVE SlotsAreCounted'
  <2>0. upload[n] \in Upload /\ upload[n].by \in User /\ n \in InFlight
    BY <1>8, IdsAre DEF Upload, Leaves
  <2> PICK v \in User : v = upload[n].by  BY <2>0
  <2>1. upload[n] \in Upload /\ v \in User /\ n \in InFlight  BY <2>0
  <2>2. /\ Ids' = Ids
        /\ upload'[n].there = "out" /\ \A m \in Ids \ {n} : upload'[m] = upload[m]
    BY <1>8, <2>1 DEF Leaves, Out, Upload, Ids
  <2>3. InFlight' = InFlight \ {n}  BY <1>1, <1>2, <2>2
  <2>4. Held(v)' = Held(v) \ {n} /\ n \in Held(v)  BY <1>1, <1>3, <2>1, <2>2, <2>3 DEF Held
  <2>5. \A u \in User \ {v} : Held(u)' = Held(u)  BY <1>1, <1>3, <2>2, <2>3 DEF Held
  <2>6. Cardinality(Held(v)') = Cardinality(Held(v)) - 1
    <3> DEFINE H == Held(v)
    <3>1. IsFiniteSet(H) /\ n \in H /\ Held(v)' = H \ {n}  BY <1>1, <2>1, <2>4
    <3> HIDE DEF H
    <3>2. Cardinality(H \ {n}) = Cardinality(H) - 1  BY <3>1, FS_RemoveElement
    <3> QED  BY <3>1, <3>2 DEF H
  <2>7. slots'[v] = slots[v] - 1 /\ \A u \in User \ {v} : slots'[u] = slots[u]
    BY <1>8, <2>1 DEF Leaves, Out, TypeInv
  <2>8. slots'[v] <= MaxConcurrent
    <3>1. slots[v] \in Nat /\ MaxConcurrent \in Nat  BY <2>1, AttachmentsAssumption DEF TypeInv
    <3> QED  BY <1>4, <2>1, <2>7, <3>1
  <2>9. ASSUME NEW u \in User PROVE slots'[u] = Cardinality(Held(u)') /\ slots'[u] <= MaxConcurrent
    <3>1. CASE u = v  BY <1>4, <2>1, <2>6, <2>7, <2>8, <3>1
    <3>2. CASE u # v  BY <1>4, <2>5, <2>7, <3>2
    <3> QED  BY <3>1, <3>2
  <2>10. temp' \subseteq InFlight' \cup orphaned'  BY <1>5, <1>8, <2>3 DEF Leaves, Out
  <2> QED  BY <2>9, <2>10 DEF SlotsAreCounted, Held
<1>9. CASE AllLeave
  <2>1. InFlight' = {}  BY <1>2, <1>9 DEF AllLeave, Ids
  <2>2. \A u \in User : Held(u)' = {}  BY <2>1 DEF Held
  <2>3. Cardinality({}) = 0 /\ 0 <= MaxConcurrent  BY FS_EmptySet, AttachmentsAssumption
  <2>4. \A u \in User : slots'[u] = 0  BY <1>9 DEF AllLeave
  <2>5. temp' \subseteq InFlight' \cup orphaned'  BY <1>9 DEF AllLeave
  <2> QED  BY <2>2, <2>3, <2>4, <2>5 DEF SlotsAreCounted, Held
<1> QED  BY <1>6, <1>7, <1>8, <1>9 DEF StepKind

-----------------------------------------------------------------------------
(* Answers, files and messages.                                            *)

LEMMA SameBodies ==
  ASSUME Lasting, NEW n \in Ids
  PROVE  BodyOf(n)' = BodyOf(n) /\ upload'[n].route = upload[n].route /\ n \in DOMAIN upload'
  BY DEF Lasting, BodyOf

(* When no file comes in and no message goes out. *)
LEMMA FilesStay ==
  ASSUME FilesInv, Lasting, stored' = stored, sent' = sent,
         \A n \in Ids : upload'[n].answer \in {upload[n].answer, "error"},
         \A n \in DOMAIN upload' \ Ids : upload'[n].answer = None
  PROVE  FilesInv'
<1>1. \A n \in DOMAIN upload' : upload'[n].answer = "url" => n \in DOMAIN stored'
  BY AttachmentsAssumption DEF FilesInv
<1>2. \A n \in DOMAIN stored' : n \in DOMAIN upload' /\ stored'[n] = BodyOf(n)'
  BY SameBodies DEF FilesInv
<1>3. \A message \in sent' :
        /\ message.url \in DOMAIN stored'
        /\ message = IF upload'[message.url].route = "raw" THEN SealFileKeyInText(message.url)
                     ELSE PublicText(message.url)
  BY SameBodies DEF FilesInv
<1> QED  BY <1>1, <1>2, <1>3 DEF FilesInv, Ids

LEMMA FilesStep ==
  ASSUME TypeInv, SlotsAreCounted, FilesInv, [Next]_vars
  PROVE  StepKind /\ FilesInv'
<1>1. ASSUME NEW u \in User, SignIn(u) PROVE StepKind /\ FilesInv'
  <2>1. StepKind  BY <1>1, SignInKind
  <2>2. upload' = upload /\ stored' = stored /\ sent' = sent  BY <1>1 DEF SignIn
  <2> QED  BY <2>1, <2>2, FilesStay DEF StepKind, Ids
<1>2. ASSUME NEW u \in User, LogOut(u) PROVE StepKind /\ FilesInv'
  <2>1. StepKind  BY <1>2, LogOutKind
  <2>2. stored' = stored /\ sent' = sent /\ upload' = Aborted(tab[u].current)  BY <1>2 DEF LogOut
  <2>3. DOMAIN upload' = Ids /\ \A n \in Ids : upload'[n].answer = upload[n].answer
    <3> SUFFICES ASSUME NEW n \in Ids PROVE upload'[n].answer = upload[n].answer
      BY <2>2 DEF Aborted
    <3>1. upload[n] \in Upload  BY IdsAre
    <3>2. upload'[n] = upload[n] \/ upload'[n] = [upload[n] EXCEPT !.aborted = TRUE]
      BY <2>2 DEF Aborted
    <3> QED  BY <3>1, <3>2 DEF Upload
  <2> QED  BY <2>1, <2>2, <2>3, FilesStay DEF StepKind
<1>3. ASSUME NEW u \in User, NEW size \in Size, SendImage(u, size) \/ SendDmImage(u, size)
      PROVE  StepKind /\ FilesInv'
  <2>1. /\ StepKind
        /\ \A n \in Ids : upload'[n].answer = upload[n].answer
        /\ \A n \in DOMAIN upload' \ Ids : upload'[n].answer = None
    BY <1>3, SendsKind
  <2>2. stored' = stored /\ sent' = sent  BY <1>3 DEF SendImage, SendDmImage
  <2> QED  BY <2>1, <2>2, FilesStay DEF StepKind
<1>4. ASSUME NEW n \in Ids, PrepareEncryptedMedia(n) \/ Rejected(n) PROVE StepKind /\ FilesInv'
  <2>1. StepKind /\ DOMAIN upload' = Ids /\ \A m \in Ids : upload'[m].answer = upload[m].answer
    BY <1>4, DeviceKind
  <2>2. stored' = stored /\ sent' = sent  BY <1>4 DEF PrepareEncryptedMedia, Rejected
  <2> QED  BY <2>1, <2>2, FilesStay DEF StepKind
<1>5. ASSUME NEW n \in Ids, Answered(n) PROVE StepKind /\ FilesInv'
  <2>1. StepKind /\ DOMAIN upload' = Ids /\ \A m \in Ids : upload'[m].answer = upload[m].answer
    BY <1>5, DeviceKind
  <2>2. Lasting /\ stored' = stored  BY <1>5, <2>1 DEF StepKind, Answered
  <2> DEFINE message == IF upload[n].route = "raw" THEN SealFileKeyInText(n) ELSE PublicText(n)
  <2>3. sent' = sent \/ (sent' = sent \cup {message} /\ upload[n].answer = "url")
    BY <1>5 DEF Answered
  <2>4. CASE sent' = sent  BY <2>1, <2>2, <2>4, FilesStay
  <2>5. CASE sent' = sent \cup {message} /\ upload[n].answer = "url"
    <3>1. n \in DOMAIN stored /\ message.url = n  BY <2>5 DEF FilesInv, SealFileKeyInText, PublicText
    <3>2. message = IF upload'[message.url].route = "raw" THEN SealFileKeyInText(message.url)
                    ELSE PublicText(message.url)
      BY <2>2, <3>1, SameBodies
    <3> HIDE DEF message
    <3>3. \A m \in sent' :
            /\ m.url \in DOMAIN stored'
            /\ m = IF upload'[m.url].route = "raw" THEN SealFileKeyInText(m.url)
                   ELSE PublicText(m.url)
      BY <2>2, <2>5, <3>1, <3>2, SameBodies DEF FilesInv
    <3>4. \A m \in Ids' : upload'[m].answer = "url" => m \in DOMAIN stored'
      BY <2>1, <2>2 DEF FilesInv, Ids
    <3>5. \A m \in DOMAIN stored' : m \in Ids' /\ stored'[m] = BodyOf(m)'
      BY <2>2, SameBodies DEF FilesInv, Ids
    <3> QED  BY <2>1, <3>3, <3>4, <3>5 DEF FilesInv
  <2> QED  BY <2>3, <2>4, <2>5
<1>6. ASSUME NEW n \in Ids, Request(n) PROVE StepKind /\ FilesInv'
  <2>1. /\ StepKind /\ DOMAIN upload' = Ids /\ upload'[n].answer \in {upload[n].answer, "error"}
        /\ \A m \in Ids \ {n} : upload'[m] = upload[m]
    BY <1>6, RequestKind
  <2>2. stored' = stored /\ sent' = sent  BY <1>6 DEF Request, device
  <2> QED  BY <2>1, <2>2, FilesStay DEF StepKind
<1>7. ASSUME NEW n \in Ids, Drained(n) \/ BodyStops(n) \/ StoreTempUpload(n) \/ HostGoes(n)
      PROVE  StepKind /\ FilesInv'
  <2>1. /\ StepKind /\ DOMAIN upload' = Ids
        /\ \A m \in Ids \ {n} : upload'[m].answer = upload[m].answer
        /\ \/ upload'[n].answer \in {upload[n].answer, "error"}
           \/ StoreTempUpload(n) /\ n \in DOMAIN stored' /\ upload'[n].answer = "url"
    BY <1>7, ServerKind
  <2>2. Lasting /\ sent' = sent  BY <1>7, <2>1
    DEF StepKind, Drained, BodyStops, StoreTempUpload, HostGoes, device
  <2>3. \/ stored' = stored
        \/ stored' = [m \in DOMAIN stored \cup {n} |-> IF m = n THEN BodyOf(n) ELSE stored[m]]
    BY <1>7 DEF Drained, BodyStops, StoreTempUpload, HostGoes
  <2>4. DOMAIN stored \subseteq DOMAIN stored'  BY <2>3
  <2>5. \A m \in DOMAIN stored' : m \in DOMAIN upload' /\ stored'[m] = BodyOf(m)'
    BY <2>2, <2>3, SameBodies DEF FilesInv
  <2>6. \A m \in DOMAIN upload' : upload'[m].answer = "url" => m \in DOMAIN stored'
    BY <2>1, <2>4 DEF FilesInv
  <2>7. \A m \in sent' :
          /\ m.url \in DOMAIN stored'
          /\ m = IF upload'[m.url].route = "raw" THEN SealFileKeyInText(m.url) ELSE PublicText(m.url)
    BY <2>2, <2>4, SameBodies DEF FilesInv
  <2> QED  BY <2>1, <2>5, <2>6, <2>7 DEF FilesInv, Ids
<1>8. CASE Expire
  <2>1. StepKind /\ upload' = upload  BY <1>8, ExpireKind
  <2>2. stored' = stored /\ sent' = sent  BY <1>8 DEF Expire, device
  <2> QED  BY <2>1, <2>2, FilesStay DEF StepKind, Ids
<1>9. CASE Restart
  <2>1. /\ StepKind /\ DOMAIN upload' = Ids
        /\ \A n \in Ids : upload'[n].answer \in {upload[n].answer, "error"}
    BY <1>9, RestartKind
  <2>2. stored' = stored /\ sent' = sent  BY <1>9 DEF Restart
  <2> QED  BY <2>1, <2>2, FilesStay DEF StepKind
<1>10. CASE UNCHANGED vars
  <2>1. StepKind
    <3>1. TypeInv'  BY <1>10 DEF vars, TypeInv
    <3>2. Lasting /\ Apart  BY <1>10, FlightFacts DEF vars, Lasting, Apart, Ids
    <3> QED  BY <3>1, <3>2 DEF StepKind
  <2>2. upload' = upload /\ stored' = stored /\ sent' = sent  BY <1>10 DEF vars
  <2> QED  BY <2>1, <2>2, FilesStay DEF StepKind, Ids
<1> QED  BY <1>1, <1>2, <1>3, <1>4, <1>5, <1>6, <1>7, <1>8, <1>9, <1>10 DEF Next, Step

LEMMA InitInv == Init => Inv
<1> SUFFICES ASSUME Init PROVE Inv  OBVIOUS
<1>1. upload = <<>> /\ sent = {} /\ stored = <<>> /\ slots = [u \in User |-> 0] /\ temp = {}
  BY DEF Init
<1>2. TypeInv
  <2>1. tab \in [User -> Tab]  BY DEF Init, Tab, Token
  <2>2. left \in [Bounded -> Nat]  BY AttachmentsAssumption DEF Init, Bounded
  <2> QED  BY <1>1, <2>1, <2>2, EmptySeq DEF TypeInv
<1>3. Ids = {} /\ DOMAIN stored = {}
  <2>1. \A s : s = <<>> => DOMAIN s = {}  OBVIOUS
  <2> QED  BY <1>1, <2>1 DEF Ids
<1>4. SlotsAreCounted
  <2>1. InFlight = {}  BY <1>3 DEF InFlight, There
  <2>2. 0 <= MaxConcurrent /\ Cardinality({}) = 0  BY AttachmentsAssumption, FS_EmptySet
  <2>3. \A u \in User : {n \in InFlight : upload[n].by = u} = {}  BY <2>1
  <2> QED  BY <1>1, <2>2, <2>3 DEF SlotsAreCounted
<1>5. FilesInv  BY <1>1, <1>3 DEF FilesInv
<1> QED  BY <1>2, <1>4, <1>5 DEF Inv

LEMMA NextInv == Inv /\ [Next]_vars => Inv'
<1> SUFFICES ASSUME Inv, [Next]_vars PROVE Inv'  OBVIOUS
<1>1. StepKind /\ FilesInv'  BY FilesStep DEF Inv
<1>2. SlotsAreCounted'  BY <1>1, SlotsStep DEF Inv
<1> QED  BY <1>1, <1>2 DEF Inv, StepKind

(* The slots of an account are its uploads in flight, never more than it may have, and no temporary *)
(* file is left behind by a process that runs on: whatever is aborted, refused, cut or restarted    *)
(* (claimUploadSlot, releaseUploadSlot and the finally of the upload route, server/app.ts).         *)
THEOREM SlotsStayCounted == Spec => []SlotsAreCounted
<1>1. Inv => SlotsAreCounted  BY DEF Inv
<1> QED  BY InitInv, NextInv, <1>1, PTL DEF Spec

-----------------------------------------------------------------------------
(* Loops.                                                                  *)

LEMMA LeastExists ==
  ASSUME NEW T, T \subseteq Nat, T # {}
  PROVE  \E x \in T : \A y \in T : x <= y
<1> DEFINE R == OpToRel(<, Nat)
<1>1. \A x, y \in Nat : x < y => <<x, y>> \in R  BY Zenon DEF OpToRel
<1>2. IsWellFoundedOn(R, Nat)  BY NatLessThanWellFounded
<1> HIDE DEF R
<1>3. PICK x \in T : \A y \in T : ~ (<<y, x>> \in R)  BY <1>2, WFMin
<1>4. \A y \in T : ~ (y < x)  BY <1>1, <1>3
<1> QED  BY <1>3, <1>4

Runs(f, L, S, start, H) ==
  f \in [0 .. L -> S] /\ f[0] = start /\ \A n \in 1 .. L : f[n] = H[n][f[n - 1]]

(* A loop over L things, each of which takes a state to a state, has an outcome after each. *)
LEMMA LoopRuns ==
  ASSUME NEW L \in Nat, NEW S, NEW start \in S, NEW H \in [1 .. L -> [S -> S]]
  PROVE  \E f : Runs(f, L, S, start, H)
<1> DEFINE Good(f, k) ==
             /\ f \in [0 .. k -> S]
             /\ f[0] = start /\ \A n \in 1 .. k : f[n] = H[n][f[n - 1]]
           Bad == {k \in 0 .. L : ~ \E f : Good(f, k)}
<1>1. Bad = {}
  <2> SUFFICES ASSUME Bad # {} PROVE FALSE  OBVIOUS
  <2>1. Bad \subseteq Nat  OBVIOUS
  <2>2. PICK k \in Bad : \A j \in Bad : k <= j  BY <2>1, LeastExists
  <2>3. k \in 0 .. L /\ ~ \E f : Good(f, k)  BY <2>2
  <2>4. CASE k = 0
    <3> DEFINE f == [n \in 0 .. 0 |-> start]
    <3>1. f \in [0 .. 0 -> S] /\ f[0] = start /\ \A n \in 1 .. 0 : FALSE  OBVIOUS
    <3> HIDE DEF f
    <3>2. Good(f, 0)  BY <3>1
    <3> QED  BY <2>3, <2>4, <3>2
  <2>5. CASE k # 0
    <3>1. k - 1 \in 0 .. L /\ ~ (k <= k - 1) /\ k \in 1 .. L  BY <2>3, <2>5
    <3>2. k - 1 \notin Bad  BY <2>2, <3>1
    <3>3. PICK f : Good(f, k - 1)  BY <3>1, <3>2
    <3> DEFINE v == H[k][f[k - 1]]
               h == [n \in 0 .. k |-> IF n = k THEN v ELSE f[n]]
    <3>4. v \in S
      <4>1. f[k - 1] \in S  BY <3>1, <3>3
      <4> QED  BY <3>1, <4>1
    <3>5. v = H[k][f[k - 1]]  OBVIOUS
    <3> HIDE DEF v
    <3>6. h \in [0 .. k -> S] /\ h[k] = v /\ \A n \in 0 .. k - 1 : h[n] = f[n]
      BY <3>1, <3>3, <3>4
    <3> HIDE DEF h
    <3>7. h[0] = start
      <4>1. 0 \in 0 .. k - 1  BY <3>1
      <4> QED  BY <3>3, <3>6, <4>1
    <3>8. \A n \in 1 .. k : h[n] = H[n][h[n - 1]]
      <4> SUFFICES ASSUME NEW n \in 1 .. k PROVE h[n] = H[n][h[n - 1]]  OBVIOUS
      <4>1. n - 1 \in 0 .. k - 1  BY <3>1
      <4>2. h[n - 1] = f[n - 1]  BY <3>6, <4>1
      <4>3. CASE n = k  BY <3>5, <3>6, <4>2, <4>3
      <4>4. CASE n # k
        <5>1. n \in 1 .. k - 1 /\ n \in 0 .. k - 1  BY <3>1, <4>4
        <5> QED  BY <3>3, <3>6, <4>2, <5>1
      <4> QED  BY <4>3, <4>4
    <3>9. Good(h, k)  BY <3>6, <3>7, <3>8
    <3> QED  BY <2>3, <3>9
  <2> QED  BY <2>4, <2>5
<1>2. L \in 0 .. L  OBVIOUS
<1>3. \E f : Good(f, L)  BY <1>1, <1>2
<1> QED  BY <1>3 DEF Runs

(* What holds at the start and after each step holds at the end.  P is a set of steps. *)
LEMMA LoopKeeps ==
  ASSUME NEW L \in Nat, NEW P, 0 \in P, \A n \in 1 .. L : n - 1 \in P => n \in P
  PROVE  \A n \in 0 .. L : n \in P
<1> DEFINE Bad == {k \in 0 .. L : k \notin P}
<1>1. Bad = {}
  <2> SUFFICES ASSUME Bad # {} PROVE FALSE  OBVIOUS
  <2>1. Bad \subseteq Nat  OBVIOUS
  <2>2. PICK k \in Bad : \A j \in Bad : k <= j  BY <2>1, LeastExists
  <2>3. k \in 0 .. L /\ k \notin P /\ k # 0  BY <2>2
  <2>4. k - 1 \in 0 .. L /\ ~ (k <= k - 1) /\ k \in 1 .. L  BY <2>3
  <2>5. k - 1 \in P  BY <2>2, <2>4
  <2> QED  BY <2>3, <2>4, <2>5
<1> QED  BY <1>1

-----------------------------------------------------------------------------
(* Reading a body.                                                         *)

(* What may be in a body of a file, in whatever order and however often: a piece of it, in one of *)
(* its formats, or the rest of a piece that was cut.                                              *)
Piece(n, size) ==
  {Wrap, Cut, Header(n, size), Whole(n, size)}
    \cup {Sealed(n, i, size, Slice(i, size)) : i \in Nat}

Upto(e) == [k \in 1 .. e |-> k]

(* How far into the file a reader is that has come to a place. *)
End(i, size) == IF i * Chunk < size THEN i * Chunk ELSE size

LEMMA SameEnd ==
  ASSUME NEW a \in Nat, NEW b \in Nat, 1 .. a = 1 .. b
  PROVE  a = b
<1>1. a \in 1 .. b \/ a = 0  OBVIOUS
<1>2. b \in 1 .. a \/ b = 0  OBVIOUS
<1> QED  BY <1>1, <1>2

LEMMA SliceJoins ==
  ASSUME NEW i \in Nat, NEW size \in Nat
  PROVE  /\ Slice(i, size) \in Seq(Nat) /\ Upto(End(i, size)) \in Seq(Nat)
         /\ End(i, size) \in Nat /\ End(i + 1, size) \in Nat /\ End(i + 1, size) <= size
         /\ Len(Upto(End(i, size))) = End(i, size)
         /\ Len(Upto(End(i, size))) + Len(Slice(i, size)) = End(i + 1, size)
         /\ Upto(End(i, size)) \o Slice(i, size) = Upto(End(i + 1, size))
<1>1. Chunk \in Nat /\ Chunk > 0  BY AttachmentsAssumption
<1>2. PICK c \in Nat : c = i * Chunk /\ (i + 1) * Chunk = c + Chunk
  <2>1. i * Chunk \in Nat /\ (i + 1) * Chunk = i * Chunk + Chunk  BY <1>1
  <2> QED  BY <2>1
<1> DEFINE e == IF c + Chunk < size THEN c + Chunk ELSE size
           d == IF c < size THEN c ELSE size
           s == Slice(i, size)
<1>3. End(i, size) = d /\ End(i + 1, size) = e  BY <1>2 DEF End
<1>4. d \in Nat /\ e \in Nat /\ e <= size /\ d <= e /\ d <= c /\ e - c \in Int /\ (e <= c => d = e)
      /\ (d < e => d = c)
  BY <1>1
<1>5. s = [k \in 1 .. e - c |-> c + k]  BY <1>2 DEF Slice
<1> HIDE DEF d, e, s
<1>6. PICK m \in Nat : m = e - d /\ 1 .. e - c = 1 .. m
  <2>1. e - d \in Nat  BY <1>4
  <2>2. 1 .. e - c = 1 .. e - d
    <3>1. CASE e <= c
      <4>1. e - d = 0 /\ e - c <= 0  BY <1>4, <3>1
      <4> QED  BY <1>4, <4>1
    <3>2. CASE ~ (e <= c)
      <4>1. d = c  BY <1>4, <3>2
      <4> QED  BY <4>1
    <3> QED  BY <3>1, <3>2
  <2> QED  BY <2>1, <2>2
<1>7. s \in [1 .. m -> Nat] /\ \A k \in 1 .. m : s[k] = c + k
  <2>1. s = [k \in 1 .. m |-> c + k]  BY <1>5, <1>6
  <2> QED  BY <2>1
<1>8. s \in Seq(Nat) /\ Len(s) = m
  <2>1. s \in Seq(Nat)  BY <1>7, SeqDef
  <2>2. Len(s) \in Nat /\ 1 .. Len(s) = 1 .. m  BY <1>7, <2>1, LenProperties
  <2> QED  BY <2>1, <2>2, SameEnd
<1>9. ASSUME NEW x \in Nat
      PROVE  Upto(x) \in Seq(Nat) /\ Len(Upto(x)) = x /\ \A k \in 1 .. x : Upto(x)[k] = k
  <2>1. Upto(x) \in [1 .. x -> Nat] /\ \A k \in 1 .. x : Upto(x)[k] = k  BY DEF Upto
  <2>2. Upto(x) \in Seq(Nat)  BY <2>1, SeqDef
  <2>3. Len(Upto(x)) \in Nat /\ 1 .. Len(Upto(x)) = 1 .. x  BY <2>1, <2>2, LenProperties
  <2> QED  BY <2>1, <2>2, <2>3
<1>10. Upto(d) \o s = Upto(e)
  <2>1. /\ Upto(d) \in Seq(Nat) /\ Len(Upto(d)) = d /\ \A k \in 1 .. d : Upto(d)[k] = k
        /\ Upto(e) \in Seq(Nat) /\ Len(Upto(e)) = e /\ \A k \in 1 .. e : Upto(e)[k] = k
    BY <1>4, <1>9
  <2>2. /\ Upto(d) \o s \in Seq(Nat) /\ Len(Upto(d) \o s) = d + m
        /\ \A k \in 1 .. d + m : (Upto(d) \o s)[k] = IF k <= d THEN Upto(d)[k] ELSE s[k - d]
    <3> DEFINE t == Upto(d)
    <3>1. t \in Seq(Nat) /\ s \in Seq(Nat) /\ Len(t) = d /\ Len(s) = m  BY <1>8, <2>1
    <3> HIDE DEF t
    <3>2. /\ t \o s \in Seq(Nat) /\ Len(t \o s) = Len(t) + Len(s)
          /\ \A k \in 1 .. Len(t) + Len(s) : (t \o s)[k] = IF k <= Len(t) THEN t[k] ELSE s[k - Len(t)]
      BY <3>1, ConcatProperties
    <3> QED  BY <3>1, <3>2 DEF t
  <2>3. d + m = e  BY <1>4, <1>6
  <2>4. \A k \in 1 .. e : (Upto(d) \o s)[k] = Upto(e)[k]
    <3> SUFFICES ASSUME NEW k \in 1 .. e PROVE (Upto(d) \o s)[k] = k  BY <2>1
    <3>1. CASE k <= d  BY <1>4, <2>1, <2>2, <2>3, <3>1
    <3>2. CASE ~ (k <= d)
      <4>1. k - d \in 1 .. m /\ d = c  BY <1>4, <1>6, <3>2
      <4>2. s[k - d] = c + (k - d)  BY <1>7, <4>1
      <4> QED  BY <1>4, <2>2, <2>3, <3>2, <4>1, <4>2
    <3> QED  BY <3>1, <3>2
  <2> QED  BY <2>1, <2>2, <2>3, <2>4, SeqEqual
<1>11. Len(Upto(d)) = d /\ d + m = e /\ Upto(d) \in Seq(Nat)  BY <1>4, <1>6, <1>9
<1> QED  BY <1>3, <1>4, <1>8, <1>10, <1>11 DEF s

(* One more piece, for a reader that has come to place k - 1. *)
Step1(n, header, k, piece, r) ==
  IF /\ r.ok
     /\ ChunkOpens(n, header, k - 1, piece)
     /\ Len(r.bytes) + Len(piece.bytes) <= header.size
  THEN [r EXCEPT !.bytes = @ \o piece.bytes]
  ELSE [r EXCEPT !.ok = FALSE]

LEMMA PieceFacts ==
  ASSUME NEW n, NEW size \in Nat, NEW piece \in Piece(n, size)
  PROVE  /\ piece.kind = "chunk" =>
              /\ piece = Sealed(n, piece.at, size, Slice(piece.at, size))
              /\ piece.key = n /\ piece.at \in Nat
              /\ piece.bytes = Slice(piece.at, size) /\ piece.bytes \in Seq(Nat)
         /\ piece.kind = "header" => piece = Header(n, size) /\ piece.key = n
         /\ piece.kind = "whole" => piece = Whole(n, size) /\ piece.key = n
<1>1. CASE piece \in {Wrap, Cut, Header(n, size), Whole(n, size)}
  BY <1>1 DEF Wrap, Cut, Header, Whole
<1>2. CASE piece \in {Sealed(n, i, size, Slice(i, size)) : i \in Nat}
  <2>1. PICK i \in Nat : piece = Sealed(n, i, size, Slice(i, size))  BY <1>2
  <2>2. piece.kind = "chunk" /\ piece.key = n /\ piece.at = i /\ piece.bytes = Slice(i, size)
    BY <2>1 DEF Sealed
  <2>3. Slice(i, size) \in Seq(Nat)  BY SliceJoins
  <2> QED  BY <2>1, <2>2, <2>3
<1> QED  BY <1>1, <1>2 DEF Piece

(* What can turn up in a body: its own pieces, and those of other uploads. *)
FoundPiece(n, size) == Piece(n, size) \cup UNION {Piece(m, z) : m \in Nat \ {n}, z \in Nat}

LEMMA FoundFacts ==
  ASSUME NEW n, NEW size \in Nat, NEW piece \in FoundPiece(n, size)
  PROVE  /\ piece.kind = "chunk" => piece.bytes \in Seq(Nat)
         /\ piece.kind \in {"chunk", "header", "whole"} /\ piece.key = n => piece \in Piece(n, size)
<1>1. CASE piece \in Piece(n, size)  BY <1>1, PieceFacts
<1>2. ASSUME NEW m \in Nat \ {n}, NEW z \in Nat, piece \in Piece(m, z)
      PROVE  /\ piece.kind = "chunk" => piece.bytes \in Seq(Nat)
             /\ piece.kind \in {"chunk", "header", "whole"} => piece.key # n
  BY <1>2, PieceFacts
<1> QED  BY <1>1, <1>2 DEF FoundPiece

LEMMA ReadingRuns ==
  ASSUME NEW n, NEW size \in Nat, NEW header,
         NEW pieces \in Seq(FoundPiece(n, size))
  PROVE  LET g == Reading(n, header, pieces) IN
         /\ g[0] = [ok |-> TRUE, bytes |-> <<>>]
         /\ \A k \in 0 .. Len(pieces) : g[k] \in [ok : BOOLEAN, bytes : Seq(Nat)]
         /\ \A k \in 1 .. Len(pieces) :
              g[k] = Step1(n, header, k, pieces[k], g[k - 1])
<1> DEFINE L == Len(pieces)
           S == [ok : BOOLEAN, bytes : Seq(Nat)]
           start == [ok |-> TRUE, bytes |-> <<>>]
           H == [k \in 1 .. L |-> [r \in S |-> Step1(n, header, k, pieces[k], r)]]
           Loop(g) == g = [k \in 0 .. L |-> IF k = 0 THEN start
                                            ELSE Step1(n, header, k, pieces[k], g[k - 1])]
<1>1. L \in Nat /\ \A k \in 1 .. L : pieces[k] \in FoundPiece(n, size)  BY LenProperties, ElementOfSeq
<1>2. start \in S  BY EmptySeq
<1>3. ASSUME NEW k \in 1 .. L, NEW r \in S PROVE Step1(n, header, k, pieces[k], r) \in S
  <2>1. CASE pieces[k].kind = "chunk"
    <3>1. pieces[k].bytes \in Seq(Nat)  BY <1>1, <2>1, FoundFacts
    <3>2. r.bytes \in Seq(Nat)  OBVIOUS
    <3>3. r.bytes \o pieces[k].bytes \in Seq(Nat)  BY <3>1, <3>2, ConcatProperties
    <3> QED  BY <3>3 DEF Step1
  <2>2. CASE pieces[k].kind # "chunk"  BY <2>2 DEF Step1, ChunkOpens
  <2> QED  BY <2>1, <2>2
<1>4. Reading(n, header, pieces) = CHOOSE g : Loop(g)  BY DEF Reading, Step1
<1> HIDE DEF L, S, start
<1>5. H \in [1 .. L -> [S -> S]] /\ \A k \in 1 .. L : \A r \in S : H[k][r] = Step1(n, header, k, pieces[k], r)
  BY <1>3
<1> HIDE DEF H
<1>6. PICK f \in [0 .. L -> S] : f[0] = start /\ \A k \in 1 .. L : f[k] = H[k][f[k - 1]]
  <2>1. L \in Nat /\ start \in S /\ H \in [1 .. L -> [S -> S]]  BY <1>1, <1>2, <1>5
  <2>2. \E f : Runs(f, L, S, start, H)  BY <2>1, LoopRuns
  <2> QED  BY <2>2 DEF Runs
<1>7. \A k \in 1 .. L : f[k] = Step1(n, header, k, pieces[k], f[k - 1])
  <2> SUFFICES ASSUME NEW k \in 1 .. L PROVE f[k] = Step1(n, header, k, pieces[k], f[k - 1])  OBVIOUS
  <2>1. k - 1 \in 0 .. L  BY <1>1
  <2> QED  BY <1>5, <1>6, <2>1
<1>8. Loop(f)
  <2>1. \A k \in 0 .. L : k # 0 => k \in 1 .. L  BY <1>1
  <2>2. \A k \in 0 .. L : f[k] = IF k = 0 THEN start ELSE Step1(n, header, k, pieces[k], f[k - 1])
    BY <1>6, <1>7, <2>1
  <2> QED  BY <1>6, <2>2
<1> DEFINE g == Reading(n, header, pieces)
<1>9. Loop(g)  BY <1>4, <1>8
<1> HIDE DEF g
<1>10. g[0] = start /\ \A k \in 1 .. L : g[k] = Step1(n, header, k, pieces[k], g[k - 1])
  <2>1. 0 \in 0 .. L /\ \A k \in 1 .. L : k \in 0 .. L /\ k # 0  BY <1>1
  <2> QED  BY <1>9, <2>1
<1>11. \A k \in 0 .. L : g[k] \in S
  <2> DEFINE P == {k \in 0 .. L : g[k] \in S}
  <2>1. 0 \in P  BY <1>1, <1>2, <1>10
  <2>2. \A k \in 1 .. L : k - 1 \in P => k \in P
    <3> SUFFICES ASSUME NEW k \in 1 .. L, g[k - 1] \in S PROVE g[k] \in S /\ k \in 0 .. L  BY <1>1
    <3> QED  BY <1>1, <1>3, <1>10 DEF S, L
  <2> HIDE DEF P
  <2>3. \A k \in 0 .. L : k \in P  BY <1>1, <2>1, <2>2, LoopKeeps
  <2> QED  BY <2>3 DEF P
<1> QED  BY <1>10, <1>11 DEF g, L, S, start

(* As long as every piece opened, the reader has the file up to the place it has come to. *)
LEMMA ReadSoFar ==
  ASSUME NEW n, NEW size \in Nat, NEW pieces \in Seq(FoundPiece(n, size))
  PROVE  \A k \in 0 .. Len(pieces) :
           LET r == Reading(n, Header(n, size), pieces)[k] IN
           r.ok => r.bytes = Upto(End(k, size))
<1> DEFINE L == Len(pieces)
           h == Header(n, size)
           g == Reading(n, h, pieces)
           Good(k) == g[k].ok => g[k].bytes = Upto(End(k, size))
           P == {k \in 0 .. L : Good(k)}
<1>1. L \in Nat /\ \A k \in 1 .. L : pieces[k] \in FoundPiece(n, size)  BY LenProperties, ElementOfSeq
<1>2. /\ g[0] = [ok |-> TRUE, bytes |-> <<>>]
      /\ \A k \in 0 .. L : g[k] \in [ok : BOOLEAN, bytes : Seq(Nat)]
      /\ \A k \in 1 .. L : g[k] = Step1(n, h, k, pieces[k], g[k - 1])
  BY ReadingRuns
<1> HIDE DEF L, g, h
<1>3. Good(0)
  <2>1. 0 * Chunk = 0  BY AttachmentsAssumption
  <2>2. End(0, size) = 0  BY <2>1 DEF End
  <2>3. Upto(0) = <<>>  BY DEF Upto
  <2> QED  BY <1>2, <2>2, <2>3
<1>4. ASSUME NEW k \in 1 .. L, Good(k - 1) PROVE Good(k)
  <2> SUFFICES ASSUME g[k].ok PROVE g[k].bytes = Upto(End(k, size))  OBVIOUS
  <2> DEFINE r == g[k - 1]
             p == pieces[k]
  <2>1. r \in [ok : BOOLEAN, bytes : Seq(Nat)] /\ p \in FoundPiece(n, size)  BY <1>1, <1>2
  <2>2. g[k] = Step1(n, h, k, p, r)  BY <1>2
  <2>3. r.ok /\ ChunkOpens(n, h, k - 1, p) /\ g[k].bytes = r.bytes \o p.bytes
    BY <2>1, <2>2 DEF Step1
  <2>4. r.bytes = Upto(End(k - 1, size))  BY <1>4, <2>3
  <2>5. p.bytes = Slice(k - 1, size)
    <3>1. p \in Piece(n, size)  BY <2>1, <2>3, FoundFacts DEF ChunkOpens
    <3> QED  BY <2>3, <3>1, PieceFacts DEF ChunkOpens
  <2>6. k - 1 \in Nat /\ (k - 1) + 1 = k  BY <1>1
  <2>7. Upto(End(k - 1, size)) \o Slice(k - 1, size) = Upto(End((k - 1) + 1, size))
    BY <2>6, SliceJoins
  <2> QED  BY <2>3, <2>4, <2>5, <2>6, <2>7
<1>5. 0 \in P  BY <1>1, <1>3
<1>6. \A k \in 1 .. L : k - 1 \in P => k \in P  BY <1>1, <1>4
<1> HIDE DEF P, Good
<1>7. \A k \in 0 .. L : k \in P  BY <1>1, <1>5, <1>6, LoopKeeps
<1> QED  BY <1>7 DEF P, Good, L, g, h

(* Under the header of another upload no chunk opens. *)
LEMMA OtherHeader ==
  ASSUME NEW n, NEW size \in Nat, NEW header, header.key # n,
         NEW pieces \in Seq(FoundPiece(n, size))
  PROVE  DecryptChunkedBody(n, header, pieces) = Refused
<1> DEFINE L == Len(pieces)
           g == Reading(n, header, pieces)
<1>1. L \in Nat  BY LenProperties
<1>2. /\ g[0] = [ok |-> TRUE, bytes |-> <<>>]
      /\ \A k \in 0 .. L : g[k] \in [ok : BOOLEAN, bytes : Seq(Nat)]
      /\ \A k \in 1 .. L : g[k] = Step1(n, header, k, pieces[k], g[k - 1])
  BY ReadingRuns
<1> HIDE DEF L, g
<1>3. CASE L = 0  BY <1>2, <1>3 DEF DecryptChunkedBody, Refused, L, g
<1>4. CASE L # 0
  <2>1. L \in 1 .. L /\ L - 1 \in 0 .. L  BY <1>1, <1>4
  <2>2. g[L] = [g[L - 1] EXCEPT !.ok = FALSE]  BY <1>2, <2>1 DEF Step1, ChunkOpens
  <2>3. ~ g[L].ok  BY <1>2, <2>1, <2>2
  <2> QED  BY <2>3 DEF DecryptChunkedBody, L, g
<1> QED  BY <1>3, <1>4

(* Whatever became of a body on its way: the file, or nothing. *)
LEMMA WholeOrRefused ==
  ASSUME NEW n, NEW size \in Nat, NEW body \in Seq(FoundPiece(n, size))
  PROVE  ReadAttachment(n, body) \in {Upto(size), Refused}
<1> DEFINE S == FoundPiece(n, size)
           wrap == ReadThroughWrap(body)
           rest == wrap.rest
<1>1. Len(body) > 0 => Tail(body) \in Seq(S)  BY EmptySeq, HeadTailProperties
<1>2. rest \in Seq(S)  BY <1>1 DEF ReadThroughWrap
<1> HIDE DEF wrap
<1>3. rest # <<>> => Head(rest) \in S /\ Tail(rest) \in Seq(S)  BY <1>2, HeadTailProperties
<1>4. Len(rest) > 0 => rest # <<>>  BY EmptySeq
<1>5. CASE wrap.found /\ TryReadHeader(rest) /\ Head(rest).key = n
  <2>1. Head(rest) \in S /\ Tail(rest) \in Seq(S) /\ Head(rest).kind = "header"
    BY <1>3, <1>4, <1>5 DEF TryReadHeader
  <2>2. Head(rest) = Header(n, size)  BY <1>5, <2>1, FoundFacts, PieceFacts
  <2> DEFINE pieces == Tail(rest)
             whole == Reading(n, Header(n, size), pieces)[Len(pieces)]
  <2>3. pieces \in Seq(S) /\ Len(pieces) \in 0 .. Len(pieces)  BY <2>1, LenProperties
  <2>4. whole.ok => whole.bytes = Upto(End(Len(pieces), size))  BY <2>3, ReadSoFar
  <2>5. ReadAttachment(n, body) = DecryptChunkedBody(n, Header(n, size), pieces)
    BY <1>5, <2>2 DEF ReadAttachment, wrap
  <2>6. End(Len(pieces), size) \in Nat
    /\ Len(Upto(End(Len(pieces), size))) = End(Len(pieces), size)
    BY <2>3, LenProperties, SliceJoins
  <2> HIDE DEF whole
  <2>7. CASE whole.ok /\ Len(whole.bytes) = size
    <3>1. End(Len(pieces), size) = size  BY <2>4, <2>6, <2>7
    <3>2. whole.bytes = Upto(size)  BY <2>4, <2>7, <3>1
    <3> QED  BY <2>5, <3>2 DEF DecryptChunkedBody, whole
  <2>8. CASE ~ (whole.ok /\ Len(whole.bytes) = size)
    BY <2>5, <2>8 DEF DecryptChunkedBody, whole, Header
  <2> QED  BY <2>7, <2>8
<1>6. CASE ~ (wrap.found /\ TryReadHeader(rest))
  <2>1. ReadAttachment(n, body) = ReadWhole(n, rest)  BY <1>6 DEF ReadAttachment, wrap
  <2>2. CASE Len(rest) = 1 /\ Head(rest).kind = "whole" /\ Head(rest).key = n
    <3>1. Head(rest) = Whole(n, size)  BY <1>3, <1>4, <2>2, FoundFacts, PieceFacts
    <3> QED  BY <2>1, <2>2, <3>1 DEF ReadWhole, Whole, Upto
  <2>3. CASE ~ (Len(rest) = 1 /\ Head(rest).kind = "whole" /\ Head(rest).key = n)
    BY <2>1, <2>3 DEF ReadWhole
  <2> QED  BY <2>2, <2>3
<1>7. CASE wrap.found /\ TryReadHeader(rest) /\ Head(rest).key # n
  <2>1. Tail(rest) \in Seq(S)  BY <1>3, <1>4, <1>7 DEF TryReadHeader
  <2>2. ReadAttachment(n, body) = DecryptChunkedBody(n, Head(rest), Tail(rest))
    BY <1>7 DEF ReadAttachment, wrap
  <2> QED  BY <1>7, <2>1, <2>2, OtherHeader
<1> QED  BY <1>5, <1>6, <1>7

(* The chunks of a file. *)
Chunks(n, size) == [i \in 1 .. Ceil(size, Chunk) |-> Sealed(n, i - 1, size, Slice(i - 1, size))]

LEMMA StreamFacts ==
  ASSUME NEW n, NEW size \in Nat
  PROVE  /\ Chunks(n, size) \in Seq(Piece(n, size)) /\ Len(Chunks(n, size)) = Ceil(size, Chunk)
         /\ Ceil(size, Chunk) \in Nat /\ size <= Ceil(size, Chunk) * Chunk
         /\ EncryptFileStream(n, size) \in Seq(Piece(n, size))
         /\ Len(EncryptFileStream(n, size)) > 0
         /\ Head(EncryptFileStream(n, size)) = Wrap
         /\ Len(Tail(EncryptFileStream(n, size))) > 0
         /\ Head(Tail(EncryptFileStream(n, size))) = Header(n, size)
         /\ Tail(Tail(EncryptFileStream(n, size))) = Chunks(n, size)
<1> DEFINE S == Piece(n, size)
           c == Chunks(n, size)
           L == Ceil(size, Chunk)
           two == <<Wrap, Header(n, size)>>
           all == EncryptFileStream(n, size)
<1>1. L \in Nat /\ size <= L * Chunk
  <2>1. Chunk \in Nat \ {0}  BY AttachmentsAssumption
  <2> QED  BY <2>1 DEF Ceil
<1>2. c \in [1 .. L -> S] /\ \A i \in 1 .. L : c[i] = Sealed(n, i - 1, size, Slice(i - 1, size))
  <2> SUFFICES ASSUME NEW i \in 1 .. L PROVE Sealed(n, i - 1, size, Slice(i - 1, size)) \in S
    BY DEF Chunks
  <2>1. i - 1 \in Nat  BY <1>1
  <2> QED  BY <2>1 DEF Piece
<1>3. two \in Seq(S) /\ Len(two) = 2 /\ two[1] = Wrap /\ two[2] = Header(n, size)
  BY DEF Piece
<1>4. all = two \o c  BY DEF EncryptFileStream, Chunks
<1> HIDE DEF L, two, all, c, S
<1>5. c \in Seq(S) /\ Len(c) = L
  <2>1. c \in Seq(S)  BY <1>1, <1>2, SeqDef
  <2>2. Len(c) \in Nat /\ 1 .. Len(c) = 1 .. L  BY <1>2, <2>1, LenProperties
  <2> QED  BY <1>1, <2>1, <2>2, SameEnd
<1>6. /\ all \in Seq(S) /\ Len(all) = 2 + L
      /\ \A i \in 1 .. 2 + L : all[i] = IF i <= 2 THEN two[i] ELSE c[i - 2]
  <2>1. /\ two \o c \in Seq(S) /\ Len(two \o c) = Len(two) + Len(c)
        /\ \A i \in 1 .. Len(two) + Len(c) :
             (two \o c)[i] = IF i <= Len(two) THEN two[i] ELSE c[i - Len(two)]
    BY <1>3, <1>5, ConcatProperties
  <2> QED  BY <1>3, <1>4, <1>5, <2>1
<1>7. all[1] = Wrap /\ all[2] = Header(n, size) /\ \A i \in 1 .. L : all[i + 2] = c[i]
  <2>1. 1 \in 1 .. 2 + L /\ 2 \in 1 .. 2 + L  BY <1>1
  <2>2. all[1] = Wrap /\ all[2] = Header(n, size)  BY <1>3, <1>6, <2>1
  <2>3. ASSUME NEW i \in 1 .. L PROVE all[i + 2] = c[i]
    <3>1. i + 2 \in 1 .. 2 + L /\ ~ (i + 2 <= 2) /\ (i + 2) - 2 = i  BY <1>1
    <3> QED  BY <1>6, <3>1
  <2> QED  BY <2>2, <2>3
<1>8. all # <<>> /\ Head(all) = all[1]
  <2>1. all # <<>>  BY <1>1, <1>6, EmptySeq
  <2> QED  BY <1>6, <2>1
<1>9. /\ Tail(all) \in Seq(S) /\ Len(Tail(all)) = 1 + L
      /\ \A i \in 1 .. 1 + L : Tail(all)[i] = all[i + 1]
  <2>1. /\ Tail(all) \in Seq(S) /\ Len(Tail(all)) = Len(all) - 1
        /\ \A i \in 1 .. Len(Tail(all)) : Tail(all)[i] = all[i + 1]
    BY <1>6, <1>8, HeadTailProperties
  <2>2. Len(all) - 1 = 1 + L  BY <1>1, <1>6
  <2> QED  BY <2>1, <2>2
<1> DEFINE t == Tail(all)
<1> HIDE DEF t
<1>10. t # <<>> /\ Head(t) = Header(n, size) /\ Len(t) > 0
  <2>a. Len(t) = 1 + L  BY <1>9 DEF t
  <2>b. Len(t) > 0  BY <1>1, <2>a
  <2>1. t # <<>> /\ Len(t) > 0  BY <2>b, EmptySeq
  <2>2. Head(t) = t[1]  BY <1>9, <2>1 DEF t
  <2>3. t[1] = all[2]
    <3>1. 1 \in 1 .. 1 + L /\ 1 + 1 = 2  BY <1>1
    <3> QED  BY <1>9, <3>1 DEF t
  <2> QED  BY <1>7, <2>1, <2>2, <2>3
<1>11. Tail(t) = c
  <2>1. /\ Tail(t) \in Seq(S) /\ Len(Tail(t)) = Len(t) - 1
        /\ \A i \in 1 .. Len(Tail(t)) : Tail(t)[i] = t[i + 1]
    BY <1>9, <1>10, HeadTailProperties DEF t
  <2>2. Len(t) - 1 = L /\ Len(t) = 1 + L  BY <1>1, <1>9 DEF t
  <2>3. \A i \in 1 .. L : Tail(t)[i] = c[i]
    <3> SUFFICES ASSUME NEW i \in 1 .. L PROVE Tail(t)[i] = c[i]  OBVIOUS
    <3>1. i + 1 \in 1 .. 1 + L /\ (i + 1) + 1 = i + 2  BY <1>1
    <3>2. t[i + 1] = all[(i + 1) + 1]  BY <1>9, <3>1 DEF t
    <3> QED  BY <1>7, <2>1, <2>2, <3>1, <3>2
  <2> QED  BY <1>5, <2>1, <2>2, <2>3, SeqEqual
<1>12. Len(all) > 0  BY <1>1, <1>6
<1> QED  BY <1>1, <1>5, <1>6, <1>7, <1>8, <1>9, <1>10, <1>11, <1>12 DEF t, all, S, L, c

LEMMA OwnIsFound ==
  ASSUME NEW n, NEW size \in Nat, NEW body \in Seq(Piece(n, size))
  PROVE  body \in Seq(FoundPiece(n, size))
<1>1. /\ Len(body) \in Nat /\ body \in [1 .. Len(body) -> Piece(n, size)]
  BY LenProperties
<1>2. body \in [1 .. Len(body) -> FoundPiece(n, size)]  BY <1>1 DEF FoundPiece
<1> QED  BY <1>1, <1>2, SeqDef

(* What was sealed opens to what it was. *)
LEMMA StreamOpens ==
  ASSUME NEW n, NEW size \in Nat, size <= MaxUpload
  PROVE  ReadAttachment(n, EncryptFileStream(n, size)) = Upto(size)
<1> DEFINE h == Header(n, size)
           c == Chunks(n, size)
           L == Ceil(size, Chunk)
           g == Reading(n, h, c)
           P == {k \in 0 .. L : g[k].ok}
           body == EncryptFileStream(n, size)
<1>1. /\ c \in Seq(Piece(n, size)) /\ Len(c) = L /\ L \in Nat /\ size <= L * Chunk
      /\ \A k \in 1 .. L : c[k] = Sealed(n, k - 1, size, Slice(k - 1, size))
  BY StreamFacts DEF Chunks
<1>2. /\ g[0] = [ok |-> TRUE, bytes |-> <<>>]
      /\ \A k \in 0 .. L : g[k] \in [ok : BOOLEAN, bytes : Seq(Nat)]
      /\ \A k \in 1 .. L : g[k] = Step1(n, h, k, c[k], g[k - 1])
  BY <1>1, ReadingRuns, OwnIsFound
<1>3. \A k \in 0 .. L : g[k].ok => g[k].bytes = Upto(End(k, size))  BY <1>1, ReadSoFar, OwnIsFound
<1>4. ReadAttachment(n, body) = DecryptChunkedBody(n, h, c)
  <2>1. /\ Len(body) > 0 /\ Head(body) = Wrap /\ Len(Tail(body)) > 0 /\ Head(Tail(body)) = h
        /\ Tail(Tail(body)) = c
    BY StreamFacts
  <2> HIDE DEF body, c
  <2>2. h.kind = "header"  BY DEF Header
  <2> HIDE DEF h
  <2>3. ReadThroughWrap(body) = [found |-> TRUE, rest |-> Tail(body)]  BY <2>1 DEF ReadThroughWrap
  <2>4. TryReadHeader(Tail(body))  BY <2>1, <2>2 DEF TryReadHeader
  <2> DEFINE wrap == ReadThroughWrap(body)
  <2>5. wrap.found /\ wrap.rest = Tail(body)  BY <2>3
  <2> HIDE DEF wrap
  <2>6. ReadAttachment(n, body) = DecryptChunkedBody(n, Head(wrap.rest), Tail(wrap.rest))
    BY <2>4, <2>5 DEF ReadAttachment, wrap
  <2> QED  BY <2>1, <2>5, <2>6
<1> HIDE DEF g, c, L, body
<1>5. ASSUME NEW k \in 1 .. L, g[k - 1].ok PROVE g[k].ok
  <2>1. k - 1 \in 0 .. L /\ k - 1 \in Nat /\ (k - 1) + 1 = k  BY <1>1
  <2>2. g[k - 1].bytes = Upto(End(k - 1, size))  BY <1>3, <1>5, <2>1
  <2>3. c[k].bytes = Slice(k - 1, size) /\ ChunkOpens(n, h, k - 1, c[k])
    BY <1>1 DEF Sealed, ChunkOpens, Header
  <2>4. Len(Upto(End(k - 1, size))) + Len(Slice(k - 1, size)) <= size
    BY <2>1, SliceJoins
  <2>5. Len(g[k - 1].bytes) + Len(c[k].bytes) <= h.size  BY <2>2, <2>3, <2>4 DEF Header
  <2>6. g[k] = [g[k - 1] EXCEPT !.bytes = @ \o c[k].bytes]  BY <1>2, <1>5, <2>3, <2>5 DEF Step1
  <2>7. g[k - 1] \in [ok : BOOLEAN, bytes : Seq(Nat)]  BY <1>2, <2>1
  <2> QED  BY <1>5, <2>6, <2>7
<1>6. 0 \in P /\ \A k \in 1 .. L : k - 1 \in P => k \in P
  <2>1. 0 \in P  BY <1>1, <1>2
  <2>2. \A k \in 1 .. L : k - 1 \in P => k \in P  BY <1>1, <1>5
  <2> QED  BY <2>1, <2>2
<1> HIDE DEF P
<1>7. L \in P
  <2>1. \A k \in 0 .. L : k \in P  BY <1>1, <1>6, LoopKeeps
  <2>2. L \in 0 .. L  BY <1>1
  <2> QED  BY <2>1, <2>2
<1>8. g[L].ok /\ g[L].bytes = Upto(End(L, size))
  <2>1. L \in 0 .. L  BY <1>1
  <2> QED  BY <1>3, <1>7, <2>1 DEF P
<1>9. End(L, size) = size /\ Len(Upto(size)) = size
  <2>1. L * Chunk \in Nat  BY <1>1, AttachmentsAssumption
  <2>2. ~ (L * Chunk < size)  BY <1>1, <2>1
  <2>3. End(L, size) = size  BY <2>2 DEF End
  <2>4. Len(Upto(End(L, size))) = End(L, size)  BY <1>1, SliceJoins
  <2> QED  BY <2>3, <2>4
<1> QED  BY <1>1, <1>4, <1>8, <1>9 DEF DecryptChunkedBody, g, Header, body

LEMMA OtherFormats ==
  ASSUME NEW n, NEW size \in Nat
  PROVE  /\ <<Whole(n, size)>> \in Seq(Piece(n, size))
         /\ <<Wrap, Whole(n, size)>> \in Seq(Piece(n, size))
         /\ ReadAttachment(n, <<Whole(n, size)>>) = Upto(size)
         /\ ReadAttachment(n, <<Wrap, Whole(n, size)>>) = Upto(size)
<1> DEFINE w == Whole(n, size)
<1>1. w \in Piece(n, size) /\ Wrap \in Piece(n, size)  BY DEF Piece
<1>2. w # Wrap /\ w.kind = "whole" /\ w.key = n /\ w.bytes = Upto(size)
  BY DEF Whole, Wrap, Upto
<1> HIDE DEF w
<1>3. ReadAttachment(n, <<w>>) = Upto(size)
  BY <1>2 DEF ReadAttachment, ReadThroughWrap, ReadWhole
<1>4. ReadAttachment(n, <<Wrap, w>>) = Upto(size)
  BY <1>2 DEF ReadAttachment, ReadThroughWrap, ReadWhole, TryReadHeader
<1>5. <<w>> \in Seq(Piece(n, size)) /\ <<Wrap, w>> \in Seq(Piece(n, size))  BY <1>1
<1> QED  BY <1>3, <1>4, <1>5 DEF w

(* Damage makes no piece up. *)
LEMMA DamagedPieces ==
  ASSUME NEW S, Cut \in S, NEW body \in Seq(S), NEW others \in SUBSET Seq(S),
         NEW d \in Damaged(body, others)
  PROVE  d \in Seq(S)
<1>1. Len(body) \in Nat /\ DOMAIN body = 1 .. Len(body) /\ \A i \in 1 .. Len(body) : body[i] \in S
  BY LenProperties, ElementOfSeq
<1>2. ASSUME NEW i \in Int, NEW j \in Int, i >= 1, j <= Len(body) PROVE SubSeq(body, i, j) \in Seq(S)
  <2>1. \A k \in i .. j : body[k] \in S  BY <1>1, <1>2
  <2> QED  BY <2>1, SubSeqProperties
<1>3. CASE d \in {SubSeq(body, 1, k) : k \in 0 .. Len(body) - 1}  BY <1>1, <1>2, <1>3
<1>4. CASE d \in {Append(SubSeq(body, 1, k), Cut) : k \in 0 .. Len(body) - 1}
  <2>1. PICK k \in 0 .. Len(body) - 1 : d = Append(SubSeq(body, 1, k), Cut)  BY <1>4
  <2>2. SubSeq(body, 1, k) \in Seq(S)  BY <1>1, <1>2
  <2> QED  BY <2>1, <2>2, AppendProperties
<1>5. CASE d \in {RemoveAt(body, k) : k \in DOMAIN body}
  <2>1. PICK k \in 1 .. Len(body) : d = SubSeq(body, 1, k - 1) \o SubSeq(body, k + 1, Len(body))
    BY <1>1, <1>5 DEF RemoveAt
  <2>2. SubSeq(body, 1, k - 1) \in Seq(S) /\ SubSeq(body, k + 1, Len(body)) \in Seq(S)
    BY <1>1, <1>2
  <2> QED  BY <2>1, <2>2, ConcatProperties
<1>6. CASE d \in {InsertAt(body, k, body[k]) : k \in DOMAIN body}
  <2>1. PICK k \in 1 .. Len(body) :
          d = SubSeq(body, 1, k - 1) \o <<body[k]>> \o SubSeq(body, k, Len(body))
    BY <1>1, <1>6 DEF InsertAt
  <2>2. SubSeq(body, 1, k - 1) \in Seq(S) /\ SubSeq(body, k, Len(body)) \in Seq(S)
    BY <1>1, <1>2
  <2>3. <<body[k]>> \in Seq(S)  BY <1>1
  <2>4. SubSeq(body, 1, k - 1) \o <<body[k]>> \in Seq(S)  BY <2>2, <2>3, ConcatProperties
  <2> QED  BY <2>1, <2>2, <2>4, ConcatProperties
<1>7. CASE d \in {[body EXCEPT ![i] = body[j], ![j] = body[i]] : i, j \in DOMAIN body}
  <2>1. PICK i \in 1 .. Len(body), j \in 1 .. Len(body) :
          d = [body EXCEPT ![i] = body[j], ![j] = body[i]]
    BY <1>1, <1>7
  <2>2. d \in [1 .. Len(body) -> S]  BY <1>1, <2>1, LenProperties
  <2> QED  BY <1>1, <2>2, SeqDef
<1>8. CASE d \in {[body EXCEPT ![k] = piece] :
                   k \in DOMAIN body, piece \in UNION {Range(other) : other \in others}}
  <2>0. PICK k \in 1 .. Len(body), piece \in UNION {Range(other) : other \in others} :
          d = [body EXCEPT ![k] = piece]
    BY <1>1, <1>8
  <2>1. PICK other \in others : piece \in Range(other)  OBVIOUS
  <2>2. piece \in S
    <3>1. PICK j \in DOMAIN other : piece = other[j]  BY <2>1 DEF Range
    <3> QED  BY <3>1, LenProperties, ElementOfSeq
  <2>3. d \in [1 .. Len(body) -> S]  BY <1>1, <2>0, <2>2, LenProperties
  <2> QED  BY <1>1, <2>3, SeqDef
<1>9. CASE d \in others  BY <1>9
<1> QED  BY <1>3, <1>4, <1>5, <1>6, <1>7, <1>8, <1>9 DEF Damaged

LEMMA InvWhole ==
  ASSUME Inv
  PROVE  WholeOrNotAtAll
<1> SUFFICES ASSUME NEW message \in sent
             PROVE  LET n == message.url
                        file == [i \in 1 .. upload[n].size |-> i]
                        formats == {stored[n], <<Whole(n, upload[n].size)>>,
                                    <<Wrap, Whole(n, upload[n].size)>>}
                        others == {BodyOf(m) : m \in Ids \ {n}}
                    IN /\ OpenAttachmentWithKey(message, stored[n]) = file
                       /\ message.entry # None =>
                            \A body \in formats :
                              /\ ReadAttachment(n, body) = file
                              /\ \A damaged \in Damaged(body, others) :
                                   ReadAttachment(n, damaged) \in {file, Refused}
  BY DEF WholeOrNotAtAll
<1> DEFINE n == message.url
           size == upload[n].size
           file == [i \in 1 .. size |-> i]
           raw == upload[n].route = "raw"
           others == {BodyOf(m) : m \in Ids \ {n}}
<1>1. /\ n \in Ids /\ stored[n] = BodyOf(n)
      /\ message = IF raw THEN SealFileKeyInText(n) ELSE PublicText(n)
  BY DEF Inv, FilesInv
<1>2. size \in Nat /\ size <= MaxUpload /\ n \in Nat /\ n # None
  <2>1. upload[n] \in Upload /\ n \in Nat  BY <1>1, IdsAre DEF Inv
  <2> QED  BY <2>1, AttachmentsAssumption DEF Upload
<1>3. stored[n] = IF raw THEN EncryptFileStream(n, size) ELSE <<Whole(n, size)>>
  BY <1>1 DEF BodyOf
<1>4. file = Upto(size)  BY DEF Upto
<1>5. message.entry # None <=> raw  BY <1>1, <1>2 DEF SealFileKeyInText, PublicText
<1>6. raw => message.entry = n  BY <1>1 DEF SealFileKeyInText
<1>7. others \in SUBSET Seq(FoundPiece(n, size))
  <2> SUFFICES ASSUME NEW m \in Ids \ {n} PROVE BodyOf(m) \in Seq(FoundPiece(n, size))  OBVIOUS
  <2>1. upload[m] \in Upload /\ m \in Nat \ {n}  BY IdsAre DEF Inv
  <2>2. upload[m].size \in Nat  BY <2>1, AttachmentsAssumption DEF Upload
  <2> DEFINE P == Piece(m, upload[m].size)
  <2>3. BodyOf(m) \in Seq(P)  BY <2>2, StreamFacts, OtherFormats DEF BodyOf
  <2>4. P \subseteq FoundPiece(n, size)  BY <2>1, <2>2 DEF FoundPiece
  <2> HIDE DEF P
  <2> DEFINE b == BodyOf(m)
  <2>5. Len(b) \in Nat /\ b \in [1 .. Len(b) -> P]  BY <2>3, LenProperties
  <2> HIDE DEF b
  <2>6. b \in [1 .. Len(b) -> FoundPiece(n, size)]  BY <2>4, <2>5
  <2> QED  BY <2>5, <2>6, SeqDef DEF b
<1> HIDE DEF n, size, file, raw, others
<1>8. OpenAttachmentWithKey(message, stored[n]) = file
  <2>1. CASE raw
    <3>1. OpenAttachmentWithKey(message, stored[n]) = ReadAttachment(n, stored[n])
      BY <1>5, <1>6, <2>1 DEF OpenAttachmentWithKey
    <3> QED  BY <1>2, <1>3, <1>4, <2>1, <3>1, StreamOpens
  <2>2. CASE ~ raw
    <3>1. OpenAttachmentWithKey(message, stored[n]) = Head(<<Whole(n, size)>>).bytes
      BY <1>3, <1>5, <2>2 DEF OpenAttachmentWithKey
    <3> DEFINE w == Whole(n, size)
    <3>2. w.bytes = Upto(size)  BY DEF Whole, Upto
    <3> HIDE DEF w
    <3>3. Head(<<w>>) = w  OBVIOUS
    <3> QED  BY <1>4, <3>1, <3>2, <3>3 DEF w
  <2> QED  BY <2>1, <2>2
<1>9. ASSUME raw, NEW body \in {stored[n], <<Whole(n, size)>>, <<Wrap, Whole(n, size)>>}
      PROVE  /\ ReadAttachment(n, body) = file
             /\ \A damaged \in Damaged(body, others) : ReadAttachment(n, damaged) \in {file, Refused}
  <2>1. body \in Seq(Piece(n, size)) /\ ReadAttachment(n, body) = Upto(size)
    <3>1. stored[n] = EncryptFileStream(n, size)  BY <1>3, <1>9
    <3>2. CASE body = stored[n]  BY <1>2, <3>1, <3>2, StreamFacts, StreamOpens
    <3>3. CASE body = <<Whole(n, size)>> \/ body = <<Wrap, Whole(n, size)>>
      BY <1>2, <3>3, OtherFormats
    <3> QED  BY <3>2, <3>3
  <2>2. Cut \in FoundPiece(n, size)  BY DEF FoundPiece, Piece
  <2>3. ASSUME NEW damaged \in Damaged(body, others) PROVE ReadAttachment(n, damaged) \in {file, Refused}
    <3>0. body \in Seq(FoundPiece(n, size))  BY <1>2, <2>1, OwnIsFound
    <3>1. damaged \in Seq(FoundPiece(n, size))  BY <1>7, <2>2, <3>0, DamagedPieces
    <3> QED  BY <1>2, <1>4, <3>1, WholeOrRefused
  <2> QED  BY <1>4, <2>1, <2>3
<1> QED  BY <1>5, <1>8, <1>9 DEF n, size, file, raw, others

(* A file comes back whole or not at all: what was stored opens to what was sealed, in each of the *)
(* formats, and cut, thinned, doubled, reordered or mixed with what was sealed for another upload  *)
(* it opens to that or is refused                                                                  *)
(* (encryptFileStream and decryptChunkedBody, src/src/media-crypto.ts).                              *)
THEOREM FilesComeWhole == Spec => []WholeOrNotAtAll
<1>1. Inv => WholeOrNotAtAll  BY InvWhole
<1> QED  BY InitInv, NextInv, <1>1, PTL DEF Spec

-----------------------------------------------------------------------------
(* The decrypted attachments.                                              *)

Entry == [of : Message, url : Nat, size : Nat]

Store ==
  [entries : Seq(Entry), total : Int, refs : [Message -> Nat], adopted : SUBSET Message,
   pending : [Message -> SUBSET Nat], live : SUBSET Nat]

(* A message has one entry, and a URL one holder. *)
InOnePlace(c) ==
  /\ \A i, j \in DOMAIN c.entries :
       c.entries[i].of = c.entries[j].of \/ c.entries[i].url = c.entries[j].url => i = j
  /\ \A i \in DOMAIN c.entries, m \in Message : c.entries[i].url \notin c.pending[m]
  /\ \A m, k \in Message : m # k => c.pending[m] \cap c.pending[k] = {}

Outstanding(entries, pending) ==
  {entries[i].url : i \in DOMAIN entries} \cup UNION {pending[m] : m \in Message}

Accounted(c) ==
  /\ c \in Store
  /\ InOnePlace(c)
  /\ c.live = Outstanding(c.entries, c.pending)
  /\ c.total = BytesOf(c.entries)[Len(c.entries)]

AllClaimed(c) == \A i \in DOMAIN c.entries : c.refs[c.entries[i].of] > 0

Sound(c) == Accounted(c) /\ (Over(c) => AllClaimed(c))

(* The URL is that of the message's entry, and claimed. *)
Holds(c, m, n) ==
  \E i \in DOMAIN c.entries :
    c.entries[i].of = m /\ c.entries[i].url = n /\ c.refs[m] > 0

Place ==
  [of : Message \cup {Null}, waits : Nat \cup {Null}, url : Nat \cup {Null},
   kept : Nat \cup {Null}]

(* A URL is the number of a decryption that has ended. *)
Numbered ==
  /\ made \in Nat
  /\ opening \subseteq [of : Message, n : Nat] /\ IsFiniteSet(opening)
  /\ \A n \in cache.live : n <= made
  /\ \A d \in opening : d.n <= made /\ d.n \notin cache.live
  /\ \A d, e \in opening : d.n = e.n => d = e

Waits ==
  /\ bubble \in [Bubble -> Place]
  /\ \A b \in Bubble : bubble[b].of = Null => bubble[b] = NoBubble
  /\ \A b \in Bubble : bubble[b].waits # Null => bubble[b].waits <= made
  /\ \A b \in Bubble, d \in opening : bubble[b].waits = d.n => bubble[b].of = d.of

(* A message that was never exposed has one bubble, which draws and claims what the cache has, *)
(* or one decryption, and then the cache has nothing.                                          *)
Alone(m) ==
  /\ \A a, b \in Bubble : bubble[a].of = m /\ bubble[b].of = m => a = b
  /\ \A d, e \in opening : d.of = m /\ e.of = m => d = e
  /\ \A d \in opening : d.of = m => ~ Has(cache, m)
  /\ \A b \in Bubble : bubble[b].of = m /\ bubble[b].url # Null => Holds(cache, m, bubble[b].url)
  /\ \A b \in Bubble : bubble[b].of = m /\ bubble[b].kept # Null => bubble[b].kept = bubble[b].url

PicInv == Sound(cache) /\ Numbered /\ Waits /\ \A m \in Message \ exposed : Alone(m)

-----------------------------------------------------------------------------
(* What entries come to.                                                   *)

LEMMA SumRuns ==
  ASSUME NEW s \in Seq(Entry)
  PROVE  /\ BytesOf(s)[0] = 0
         /\ \A k \in 0 .. Len(s) : BytesOf(s)[k] \in Int
         /\ \A k \in 1 .. Len(s) : BytesOf(s)[k] = BytesOf(s)[k - 1] + s[k].size
<1> DEFINE L == Len(s)
           H == [k \in 1 .. L |-> [n \in Int |-> n + s[k].size]]
           Loop(g) == g = [k \in 0 .. L |-> IF k = 0 THEN 0 ELSE g[k - 1] + s[k].size]
<1>1. L \in Nat /\ \A k \in 1 .. L : s[k].size \in Nat
  <2>1. L \in Nat /\ \A k \in 1 .. L : s[k] \in Entry  BY LenProperties, ElementOfSeq
  <2> QED  BY <2>1 DEF Entry
<1>2. BytesOf(s) = CHOOSE g : Loop(g)  BY DEF BytesOf
<1> HIDE DEF L
<1>3. H \in [1 .. L -> [Int -> Int]] /\ \A k \in 1 .. L : \A n \in Int : H[k][n] = n + s[k].size
  BY <1>1
<1> HIDE DEF H
<1>4. PICK f \in [0 .. L -> Int] : f[0] = 0 /\ \A k \in 1 .. L : f[k] = H[k][f[k - 1]]
  <2>1. 0 \in Int  OBVIOUS
  <2>2. \E f : Runs(f, L, Int, 0, H)  BY <1>1, <1>3, <2>1, LoopRuns
  <2> QED  BY <2>2 DEF Runs
<1>5. \A k \in 1 .. L : f[k] = f[k - 1] + s[k].size
  <2> SUFFICES ASSUME NEW k \in 1 .. L PROVE f[k] = f[k - 1] + s[k].size  OBVIOUS
  <2>1. k - 1 \in 0 .. L  BY <1>1
  <2> QED  BY <1>3, <1>4, <2>1
<1>6. Loop(f)
  <2>1. \A k \in 0 .. L : k # 0 => k \in 1 .. L  BY <1>1
  <2>2. \A k \in 0 .. L : f[k] = IF k = 0 THEN 0 ELSE f[k - 1] + s[k].size  BY <1>4, <1>5, <2>1
  <2> QED  BY <1>4, <2>2
<1> DEFINE g == BytesOf(s)
<1>7. Loop(g)  BY <1>2, <1>6
<1> HIDE DEF g
<1>8. g[0] = 0 /\ \A k \in 1 .. L : g[k] = g[k - 1] + s[k].size
  <2>1. 0 \in 0 .. L /\ \A k \in 1 .. L : k \in 0 .. L /\ k # 0  BY <1>1
  <2> QED  BY <1>7, <2>1
<1>9. \A k \in 0 .. L : g[k] \in Int
  <2> DEFINE P == {k \in 0 .. L : g[k] \in Int}
  <2>1. 0 \in P  BY <1>1, <1>8
  <2>2. \A k \in 1 .. L : k - 1 \in P => k \in P
    <3> SUFFICES ASSUME NEW k \in 1 .. L, g[k - 1] \in Int PROVE g[k] \in Int /\ k \in 0 .. L
      BY <1>1
    <3>1. s[k].size \in Int  BY <1>1
    <3> QED  BY <1>1, <1>8, <3>1
  <2> HIDE DEF P
  <2>3. \A k \in 0 .. L : k \in P  BY <1>1, <2>1, <2>2, LoopKeeps
  <2> QED  BY <2>3 DEF P
<1> QED  BY <1>8, <1>9 DEF g, L

(* The sums of two sequences that agree so far agree so far. *)
LEMMA SumAgrees ==
  ASSUME NEW s \in Seq(Entry), NEW t \in Seq(Entry), NEW n \in Nat, n <= Len(s), n <= Len(t),
         \A k \in 1 .. n : s[k] = t[k]
  PROVE  \A k \in 0 .. n : BytesOf(s)[k] = BytesOf(t)[k]
<1> DEFINE f == BytesOf(s)
           g == BytesOf(t)
           P == {k \in 0 .. n : f[k] = g[k]}
<1>1. Len(s) \in Nat /\ Len(t) \in Nat  BY LenProperties
<1>2. f[0] = 0 /\ \A k \in 1 .. Len(s) : f[k] = f[k - 1] + s[k].size  BY SumRuns
<1>3. g[0] = 0 /\ \A k \in 1 .. Len(t) : g[k] = g[k - 1] + t[k].size  BY SumRuns
<1> HIDE DEF f, g
<1>4. 0 \in P  BY <1>2, <1>3
<1>5. \A k \in 1 .. n : k - 1 \in P => k \in P
  <2> SUFFICES ASSUME NEW k \in 1 .. n, f[k - 1] = g[k - 1] PROVE f[k] = g[k] /\ k \in 0 .. n
    OBVIOUS
  <2>1. k \in 1 .. Len(s) /\ k \in 1 .. Len(t)  BY <1>1
  <2> QED  BY <1>2, <1>3, <2>1
<1> HIDE DEF P
<1>6. \A k \in 0 .. n : k \in P  BY <1>4, <1>5, LoopKeeps
<1> QED  BY <1>6 DEF P, f, g

LEMMA SumAppend ==
  ASSUME NEW s \in Seq(Entry), NEW e \in Entry
  PROVE  /\ Append(s, e) \in Seq(Entry) /\ Len(Append(s, e)) = Len(s) + 1
         /\ BytesOf(Append(s, e))[Len(Append(s, e))] = BytesOf(s)[Len(s)] + e.size
<1> DEFINE t == Append(s, e)
           L == Len(s)
<1>1. t \in Seq(Entry) /\ Len(t) = L + 1 /\ t[L + 1] = e /\ \A k \in 1 .. L : t[k] = s[k]
  BY AppendProperties
<1>2. L \in Nat  BY LenProperties
<1> HIDE DEF t
<1>3. BytesOf(t)[L + 1] = BytesOf(t)[L] + e.size
  <2>1. \A k \in 1 .. Len(t) : BytesOf(t)[k] = BytesOf(t)[k - 1] + t[k].size  BY <1>1, SumRuns
  <2>2. L + 1 \in 1 .. Len(t) /\ (L + 1) - 1 = L  BY <1>1, <1>2
  <2> QED  BY <1>1, <2>1, <2>2
<1>4. BytesOf(t)[L] = BytesOf(s)[L]
  <2>1. L <= Len(s) /\ L <= Len(t) /\ L \in 0 .. L  BY <1>1, <1>2
  <2>2. \A k \in 1 .. L : s[k] = t[k]  BY <1>1
  <2>3. \A k \in 0 .. L : BytesOf(s)[k] = BytesOf(t)[k]  BY <1>1, <1>2, <2>1, <2>2, SumAgrees
  <2> QED  BY <2>1, <2>3
<1> QED  BY <1>1, <1>3, <1>4 DEF t

LEMMA SumReplace ==
  ASSUME NEW s \in Seq(Entry), NEW i \in 1 .. Len(s), NEW e \in Entry
  PROVE  /\ [s EXCEPT ![i] = e] \in Seq(Entry) /\ Len([s EXCEPT ![i] = e]) = Len(s)
         /\ BytesOf([s EXCEPT ![i] = e])[Len(s)] = BytesOf(s)[Len(s)] - s[i].size + e.size
<1> DEFINE L == Len(s)
           t == [s EXCEPT ![i] = e]
           f == BytesOf(s)
           g == BytesOf(t)
           P == {k \in 0 .. L : g[k] = f[k] + (IF k < i THEN 0 ELSE e.size - s[i].size)}
<1>1. L \in Nat /\ s \in [1 .. L -> Entry]  BY LenProperties
<1>2. t \in [1 .. L -> Entry] /\ t[i] = e /\ \A k \in 1 .. L : k # i => t[k] = s[k]  BY <1>1
<1>3. t \in Seq(Entry) /\ Len(t) = L
  <2>1. t \in Seq(Entry)  BY <1>1, <1>2, SeqDef
  <2>2. Len(t) \in Nat /\ 1 .. Len(t) = 1 .. L  BY <1>2, <2>1, LenProperties
  <2> QED  BY <1>1, <2>1, <2>2, SameEnd
<1>4. /\ f[0] = 0 /\ \A k \in 0 .. L : f[k] \in Int
      /\ \A k \in 1 .. L : f[k] = f[k - 1] + s[k].size
  BY SumRuns
<1> HIDE DEF t
<1>5. /\ g[0] = 0 /\ \A k \in 0 .. L : g[k] \in Int
      /\ \A k \in 1 .. L : g[k] = g[k - 1] + t[k].size
  BY <1>3, SumRuns
<1>6. e.size \in Nat /\ s[i].size \in Nat  BY <1>1 DEF Entry
<1> HIDE DEF f, g
<1>7. 0 \in P  BY <1>1, <1>4, <1>5
<1>8. \A k \in 1 .. L : k - 1 \in P => k \in P
  <2> SUFFICES ASSUME NEW k \in 1 .. L, k - 1 \in P PROVE k \in P  OBVIOUS
  <2>1. /\ k - 1 \in 0 .. L /\ k \in 0 .. L
        /\ g[k - 1] = f[k - 1] + (IF k - 1 < i THEN 0 ELSE e.size - s[i].size)
    BY <1>1
  <2>2. f[k] = f[k - 1] + s[k].size /\ g[k] = g[k - 1] + t[k].size  BY <1>4, <1>5
  <2>3. f[k - 1] \in Int /\ s[k].size \in Nat  BY <1>1, <1>4, <2>1 DEF Entry
  <2>4. CASE k = i
    <3>1. k - 1 < i /\ ~ (k < i) /\ t[k] = e  BY <1>1, <1>2, <2>4
    <3>2. g[k] = f[k - 1] + e.size /\ f[k] = f[k - 1] + s[i].size  BY <2>1, <2>2, <2>3, <2>4, <3>1
    <3>3. g[k] = f[k] + (e.size - s[i].size)  BY <1>6, <2>3, <3>2
    <3> QED  BY <2>1, <3>1, <3>3
  <2>5. CASE k # i
    <3>1. t[k] = s[k] /\ (k - 1 < i <=> k < i)  BY <1>1, <1>2, <2>5
    <3>2. CASE k < i  BY <2>1, <2>2, <2>3, <3>1, <3>2
    <3>3. CASE ~ (k < i)
      <4>1. g[k] = f[k - 1] + (e.size - s[i].size) + s[k].size  BY <2>1, <2>2, <3>1, <3>3
      <4>2. g[k] = f[k] + (e.size - s[i].size)  BY <1>6, <2>2, <2>3, <4>1
      <4> QED  BY <2>1, <3>3, <4>2
    <3> QED  BY <3>2, <3>3
  <2> QED  BY <2>4, <2>5
<1> HIDE DEF P
<1>9. \A k \in 0 .. L : k \in P  BY <1>1, <1>7, <1>8, LoopKeeps
<1>10. L \in P /\ ~ (L < i)  BY <1>1, <1>9
<1>11. g[L] = f[L] + (e.size - s[i].size) /\ f[L] \in Int  BY <1>1, <1>4, <1>10 DEF P
<1>12. g[L] = f[L] - s[i].size + e.size  BY <1>6, <1>11
<1> QED  BY <1>3, <1>12 DEF f, g, t

-----------------------------------------------------------------------------
(* Eviction.                                                               *)

(* The next entry is looked at. *)
Look(c, k, d) ==
  IF /\ Exceeds(Len(d.entries) + Len(c.entries) - k + 1, d.total)
     /\ c.refs[c.entries[k].of] = 0
  THEN [d EXCEPT !.total = @ - c.entries[k].size, !.live = @ \ {c.entries[k].url}]
  ELSE [d EXCEPT !.entries = Append(@, c.entries[k])]

LEMMA EvictingRuns ==
  ASSUME NEW c \in Store
  PROVE  /\ Evicting(c)[0] = [c EXCEPT !.entries = <<>>]
         /\ \A k \in 0 .. Len(c.entries) : Evicting(c)[k] \in Store
         /\ \A k \in 1 .. Len(c.entries) : Evicting(c)[k] = Look(c, k, Evicting(c)[k - 1])
<1> DEFINE L == Len(c.entries)
           start == [c EXCEPT !.entries = <<>>]
           H == [k \in 1 .. L |-> [d \in Store |-> Look(c, k, d)]]
           Loop(g) == g = [k \in 0 .. L |-> IF k = 0 THEN start ELSE Look(c, k, g[k - 1])]
<1>1. L \in Nat /\ \A k \in 1 .. L : c.entries[k] \in Entry
  <2>1. c.entries \in Seq(Entry)  BY DEF Store
  <2> QED  BY <2>1, LenProperties, ElementOfSeq
<1>2. start \in Store  BY EmptySeq DEF Store
<1>3. ASSUME NEW k \in 1 .. L, NEW d \in Store PROVE Look(c, k, d) \in Store
  <2>1. c.entries[k] \in Entry /\ c.entries[k].size \in Nat  BY <1>1 DEF Entry
  <2>2. d.entries \in Seq(Entry) /\ d.total \in Int  BY DEF Store
  <2>3. Append(d.entries, c.entries[k]) \in Seq(Entry)  BY <2>1, <2>2, AppendProperties
  <2>4. d.total - c.entries[k].size \in Int  BY <2>1, <2>2
  <2>5. [d EXCEPT !.entries = Append(@, c.entries[k])] \in Store  BY <2>3 DEF Store
  <2>6. [d EXCEPT !.total = @ - c.entries[k].size, !.live = @ \ {c.entries[k].url}] \in Store
    BY <2>4 DEF Store
  <2> QED  BY <2>5, <2>6 DEF Look
<1>4. Evicting(c) = CHOOSE g : Loop(g)  BY DEF Evicting, Look
<1> HIDE DEF L, start
<1>5. H \in [1 .. L -> [Store -> Store]] /\ \A k \in 1 .. L : \A d \in Store : H[k][d] = Look(c, k, d)
  BY <1>3
<1> HIDE DEF H
<1>6. PICK f \in [0 .. L -> Store] : f[0] = start /\ \A k \in 1 .. L : f[k] = H[k][f[k - 1]]
  <2>1. \E f : Runs(f, L, Store, start, H)  BY <1>1, <1>2, <1>5, LoopRuns
  <2> QED  BY <2>1 DEF Runs
<1>7. \A k \in 1 .. L : f[k] = Look(c, k, f[k - 1])
  <2> SUFFICES ASSUME NEW k \in 1 .. L PROVE f[k] = Look(c, k, f[k - 1])  OBVIOUS
  <2>1. k - 1 \in 0 .. L  BY <1>1
  <2> QED  BY <1>5, <1>6, <2>1
<1>8. Loop(f)
  <2>1. \A k \in 0 .. L : k # 0 => k \in 1 .. L  BY <1>1
  <2>2. \A k \in 0 .. L : f[k] = IF k = 0 THEN start ELSE Look(c, k, f[k - 1])  BY <1>6, <1>7, <2>1
  <2> QED  BY <1>6, <2>2
<1> DEFINE g == Evicting(c)
<1>9. Loop(g)  BY <1>4, <1>8
<1> HIDE DEF g
<1>10. g[0] = start /\ \A k \in 1 .. L : g[k] = Look(c, k, g[k - 1])
  <2>1. 0 \in 0 .. L /\ \A k \in 1 .. L : k \in 0 .. L /\ k # 0  BY <1>1
  <2> QED  BY <1>9, <2>1
<1>11. \A k \in 0 .. L : g[k] \in Store
  <2> DEFINE P == {k \in 0 .. L : g[k] \in Store}
  <2>1. 0 \in P  BY <1>1, <1>2, <1>10
  <2>2. \A k \in 1 .. L : k - 1 \in P => k \in P
    <3> SUFFICES ASSUME NEW k \in 1 .. L, g[k - 1] \in Store PROVE g[k] \in Store /\ k \in 0 .. L
      BY <1>1
    <3>1. Look(c, k, g[k - 1]) \in Store  BY <1>3 DEF L
    <3> QED  BY <1>1, <1>10, <3>1
  <2> HIDE DEF P
  <2>3. \A k \in 0 .. L : k \in P  BY <1>1, <2>1, <2>2, LoopKeeps
  <2> QED  BY <2>3 DEF P
<1> QED  BY <1>10, <1>11 DEF g, L, start

(* What the cache is when k of its entries were looked at. *)
LookedAt(c, k, d) ==
  /\ d.refs = c.refs /\ d.adopted = c.adopted /\ d.pending = c.pending
  /\ \A i \in DOMAIN d.entries : \E j \in 1 .. k : d.entries[i] = c.entries[j]
  /\ \A i, j \in DOMAIN d.entries : d.entries[i] = d.entries[j] => i = j
  /\ \A j \in 1 .. k :
       c.refs[c.entries[j].of] > 0 => \E i \in DOMAIN d.entries : d.entries[i] = c.entries[j]
  /\ d.live = Outstanding(d.entries, c.pending)
                \cup {c.entries[j].url : j \in (k + 1) .. Len(c.entries)}
  /\ d.total = BytesOf(d.entries)[Len(d.entries)] + c.total - BytesOf(c.entries)[k]
  /\ Exceeds(Len(d.entries) + Len(c.entries) - k, d.total) => AllClaimed(d)

(* What the books and the counts need of arithmetic. *)
LEMMA OneFewer ==
  ASSUME NEW a \in Int, NEW b \in Int, NEW x \in Int
  PROVE  a + b - x + 1 = a + b - (x - 1)
  OBVIOUS

LEMMA OneMore ==
  ASSUME NEW a \in Int, NEW b \in Int, NEW x \in Int
  PROVE  (a + 1) + b - x = a + b - x + 1
  OBVIOUS

LEMMA LessOne ==
  ASSUME NEW b \in Int, NEW t \in Int, NEW s \in Int, NEW x \in Int
  PROVE  (b + t - s) - x = b + t - (s + x)
  OBVIOUS

LEMMA MoreOne ==
  ASSUME NEW b \in Int, NEW t \in Int, NEW s \in Int, NEW x \in Int
  PROVE  b + t - s = (b + x) + t - (s + x)
  OBVIOUS

(* One more is looked at: it stays in the books or leaves all of them. *)
LEMMA LookStep ==
  ASSUME NEW c, Accounted(c), NEW k \in 1 .. Len(c.entries), NEW d \in Store, LookedAt(c, k - 1, d)
  PROVE  LookedAt(c, k, Look(c, k, d))
<1> DEFINE L == Len(c.entries)
           e == c.entries[k]
           S(j) == BytesOf(c.entries)[j]
           rest(j) == {c.entries[x].url : x \in j .. L}
           new == Look(c, k, d)
<1>1. c \in Store /\ c.entries \in Seq(Entry) /\ L \in Nat /\ k \in Nat /\ (k - 1) + 1 = k /\ k <= L
  <2>1. c \in Store /\ c.entries \in Seq(Entry)  BY DEF Accounted, Store
  <2> QED  BY <2>1, LenProperties
<1>2. \A j \in 1 .. L : c.entries[j] \in Entry  BY <1>1, ElementOfSeq
<1>3. e \in Entry /\ e.size \in Nat  BY <1>2 DEF Entry
<1>4. /\ S(k) \in Int /\ S(k - 1) \in Int /\ S(k) = S(k - 1) + e.size
  BY <1>1, SumRuns
<1>5. rest(k) = {e.url} \cup rest(k + 1)
  <2>1. k .. L = {k} \cup (k + 1) .. L  BY <1>1
  <2> QED  BY <2>1
<1>6. /\ d.entries \in Seq(Entry) /\ Len(d.entries) \in Nat /\ d.total \in Int
      /\ DOMAIN d.entries = 1 .. Len(d.entries)
  BY LenProperties DEF Store
<1>7. /\ d.refs = c.refs /\ d.adopted = c.adopted /\ d.pending = c.pending
      /\ \A i \in DOMAIN d.entries : \E j \in 1 .. k - 1 : d.entries[i] = c.entries[j]
      /\ \A i, j \in DOMAIN d.entries : d.entries[i] = d.entries[j] => i = j
      /\ \A j \in 1 .. k - 1 :
           c.refs[c.entries[j].of] > 0 => \E i \in DOMAIN d.entries : d.entries[i] = c.entries[j]
      /\ d.live = Outstanding(d.entries, c.pending) \cup rest(k)
      /\ d.total = BytesOf(d.entries)[Len(d.entries)] + c.total - S(k - 1)
      /\ Exceeds(Len(d.entries) + L - (k - 1), d.total) => AllClaimed(d)
  BY <1>1 DEF LookedAt
<1>8. 1 .. k = (1 .. k - 1) \cup {k} /\ 1 .. k \subseteq 1 .. L  BY <1>1
<1>9. c.refs[e.of] \in Nat  BY <1>1, <1>3 DEF Store, Entry
<1>10. BytesOf(d.entries)[Len(d.entries)] \in Int  BY <1>6, SumRuns
<1>11. c.total \in Int  BY <1>1 DEF Store
<1>12. InOnePlace(c) /\ DOMAIN c.entries = 1 .. L  BY <1>1, LenProperties DEF Accounted
<1>13. Len(d.entries) + L - k + 1 = Len(d.entries) + L - (k - 1)
  <2>1. Len(d.entries) \in Int /\ L \in Int /\ k \in Int  BY <1>1, <1>6
  <2> HIDE DEF L
  <2> QED  BY <2>1, OneFewer
<1>14. CASE Exceeds(Len(d.entries) + L - k + 1, d.total) /\ c.refs[e.of] = 0
  <2>1. new = [d EXCEPT !.total = @ - e.size, !.live = @ \ {e.url}]  BY <1>14 DEF Look
  <2>2. /\ new.refs = d.refs /\ new.adopted = d.adopted /\ new.pending = d.pending
        /\ new.entries = d.entries /\ new.total = d.total - e.size /\ new.live = d.live \ {e.url}
    BY <2>1 DEF Store
  <2> HIDE DEF new
  <2>3. \A i \in DOMAIN new.entries : \E j \in 1 .. k : new.entries[i] = c.entries[j]
    BY <1>7, <1>8, <2>2
  <2>4. \A j \in 1 .. k :
          c.refs[c.entries[j].of] > 0 => \E i \in DOMAIN new.entries : new.entries[i] = c.entries[j]
    BY <1>7, <1>8, <1>14, <2>2
  <2>5. new.live = Outstanding(new.entries, c.pending) \cup rest(k + 1)
    <3>1. e.url \notin rest(k + 1)
      <4> SUFFICES ASSUME NEW x \in (k + 1) .. L, c.entries[x].url = e.url PROVE FALSE  OBVIOUS
      <4>1. x \in 1 .. L /\ x # k  BY <1>1
      <4> QED  BY <1>12, <4>1 DEF InOnePlace
    <3>2. ASSUME NEW i \in DOMAIN d.entries PROVE d.entries[i].url # e.url
      <4>1. PICK j \in 1 .. k - 1 : d.entries[i] = c.entries[j]  BY <1>7
      <4>2. j \in 1 .. L /\ j # k  BY <1>1
      <4> QED  BY <1>12, <4>1, <4>2 DEF InOnePlace
    <3>3. \A m \in Message : e.url \notin c.pending[m]  BY <1>12 DEF InOnePlace
    <3>4. e.url \notin Outstanding(d.entries, c.pending)  BY <3>2, <3>3 DEF Outstanding
    <3> QED  BY <1>5, <1>7, <2>2, <3>1, <3>4
  <2>6. new.total = BytesOf(new.entries)[Len(new.entries)] + c.total - S(k)
    <3>1. d.total = BytesOf(d.entries)[Len(d.entries)] + c.total - S(k - 1)  BY <1>7
    <3>2. new.total = d.total - e.size /\ new.entries = d.entries  BY <2>2
    <3> DEFINE booked == BytesOf(d.entries)[Len(d.entries)]
               prev == S(k - 1)
    <3>3. /\ booked \in Int /\ c.total \in Int /\ prev \in Int /\ e.size \in Int
          /\ S(k) = prev + e.size /\ d.total = booked + c.total - prev
      BY <1>3, <1>4, <1>10, <1>11, <3>1
    <3> HIDE DEF booked, prev, S, e
    <3>4. new.total = (booked + c.total - prev) - e.size  BY <3>2, <3>3
    <3>5. (booked + c.total - prev) - e.size = booked + c.total - (prev + e.size)  BY <3>3, LessOne
    <3>6. new.total = booked + c.total - S(k)  BY <3>3, <3>4, <3>5
    <3> QED  BY <3>2, <3>6 DEF booked
  <2>7. AllClaimed(new)  BY <1>7, <1>13, <1>14, <2>2 DEF AllClaimed
  <2>8. new.refs = c.refs /\ new.adopted = c.adopted /\ new.pending = c.pending  BY <1>7, <2>2
  <2>9. \A i, j \in DOMAIN new.entries : new.entries[i] = new.entries[j] => i = j  BY <1>7, <2>2
  <2> HIDE DEF S
  <2>10. LookedAt(c, k, new)  BY <2>3, <2>4, <2>5, <2>6, <2>7, <2>8, <2>9 DEF LookedAt, S
  <2> QED  BY <2>10 DEF new
<1>15. CASE ~ (Exceeds(Len(d.entries) + L - k + 1, d.total) /\ c.refs[e.of] = 0)
  <2> DEFINE t == Append(d.entries, e)
             n == Len(d.entries)
  <2>1. new = [d EXCEPT !.entries = t]  BY <1>15 DEF Look
  <2>2. /\ new.refs = d.refs /\ new.adopted = d.adopted /\ new.pending = d.pending
        /\ new.entries = t /\ new.total = d.total /\ new.live = d.live
    BY <2>1 DEF Store
  <2> HIDE DEF new
  <2>3. /\ t \in Seq(Entry) /\ Len(t) = n + 1 /\ t[n + 1] = e /\ \A i \in 1 .. n : t[i] = d.entries[i]
    BY <1>3, <1>6, AppendProperties
  <2>4. BytesOf(t)[Len(t)] = BytesOf(d.entries)[n] + e.size  BY <1>3, <1>6, SumAppend
  <2> HIDE DEF t
  <2>5. /\ DOMAIN t = 1 .. n + 1 /\ n \in Nat /\ 1 .. n + 1 = (1 .. n) \cup {n + 1}
        /\ DOMAIN d.entries = 1 .. n
    BY <1>6, <2>3, LenProperties
  <2> HIDE DEF n
  <2>6. \A i \in DOMAIN t : \E j \in 1 .. k : t[i] = c.entries[j]  BY <1>7, <1>8, <2>3, <2>5
  <2>7. ASSUME NEW i \in 1 .. n PROVE d.entries[i] # e
    <3>1. PICK j \in 1 .. k - 1 : d.entries[i] = c.entries[j]  BY <1>7, <2>5
    <3>2. j \in 1 .. L /\ j # k  BY <1>1
    <3> QED  BY <1>12, <3>1, <3>2 DEF InOnePlace
  <2>8. \A i, j \in DOMAIN t : t[i] = t[j] => i = j
    <3> SUFFICES ASSUME NEW i \in DOMAIN t, NEW j \in DOMAIN t, t[i] = t[j] PROVE i = j  OBVIOUS
    <3>1. CASE i \in 1 .. n /\ j \in 1 .. n  BY <1>7, <2>3, <2>5, <3>1
    <3>2. CASE i = n + 1 \/ j = n + 1  BY <2>3, <2>5, <2>7, <3>2
    <3> QED  BY <2>5, <3>1, <3>2
  <2>9. ASSUME NEW j \in 1 .. k, c.refs[c.entries[j].of] > 0
        PROVE  \E i \in DOMAIN t : t[i] = c.entries[j]
    <3>1. CASE j = k
      <4>1. n + 1 \in DOMAIN t /\ t[n + 1] = c.entries[j]  BY <2>3, <2>5, <3>1
      <4> QED  BY <4>1
    <3>2. CASE j \in 1 .. k - 1
      <4>1. PICK i \in DOMAIN d.entries : d.entries[i] = c.entries[j]  BY <1>7, <2>9, <3>2
      <4>2. i \in DOMAIN t /\ t[i] = c.entries[j]  BY <2>3, <2>5, <4>1
      <4> QED  BY <4>2
    <3> QED  BY <1>8, <3>1, <3>2
  <2>10. new.live = Outstanding(t, c.pending) \cup rest(k + 1)
    <3>1. {t[i].url : i \in DOMAIN t} = {d.entries[i].url : i \in 1 .. n} \cup {e.url}
      BY <2>3, <2>5
    <3>2. Outstanding(t, c.pending) = Outstanding(d.entries, c.pending) \cup {e.url}
      BY <2>5, <3>1 DEF Outstanding
    <3> QED  BY <1>5, <1>7, <2>2, <3>2
  <2>11. new.total = BytesOf(t)[Len(t)] + c.total - S(k)
    <3>1. d.total = BytesOf(d.entries)[n] + c.total - S(k - 1)  BY <1>7 DEF n
    <3>2. BytesOf(d.entries)[n] \in Int  BY <1>10 DEF n
    <3>3. new.total = d.total /\ BytesOf(t)[Len(t)] = BytesOf(d.entries)[n] + e.size  BY <2>2, <2>4
    <3> DEFINE booked == BytesOf(d.entries)[n]
               sum == BytesOf(t)[Len(t)]
               prev == S(k - 1)
    <3>4. /\ booked \in Int /\ c.total \in Int /\ prev \in Int /\ e.size \in Int
          /\ S(k) = prev + e.size /\ new.total = booked + c.total - prev /\ sum = booked + e.size
      BY <1>3, <1>4, <1>11, <3>1, <3>2, <3>3
    <3> HIDE DEF booked, sum, prev, S, e
    <3>5. booked + c.total - prev = (booked + e.size) + c.total - (prev + e.size)  BY <3>4, MoreOne
    <3>6. new.total = sum + c.total - S(k)  BY <3>4, <3>5
    <3> QED  BY <3>6 DEF sum
  <2>12. ASSUME Exceeds(Len(t) + L - k, new.total) PROVE AllClaimed(new)
    <3>1. Len(t) + L - k = n + L - k + 1
      <4>1. n \in Int /\ L \in Int /\ k \in Int /\ Len(t) = n + 1  BY <1>1, <2>3, <2>5
      <4> HIDE DEF L
      <4> QED  BY <4>1, OneMore
    <3>2. Exceeds(n + L - k + 1, d.total)  BY <2>2, <2>12, <3>1
    <3>3. c.refs[e.of] > 0
      <4>1. c.refs[e.of] # 0  BY <1>15, <3>2 DEF n
      <4> QED  BY <1>9, <4>1
    <3>4. \A i \in 1 .. n : c.refs[d.entries[i].of] > 0
      BY <1>7, <1>13, <2>5, <3>2 DEF AllClaimed, n
    <3>5. \A i \in DOMAIN t : c.refs[t[i].of] > 0  BY <2>3, <2>5, <3>3, <3>4
    <3> QED  BY <1>7, <2>2, <3>5 DEF AllClaimed
  <2>13. new.refs = c.refs /\ new.adopted = c.adopted /\ new.pending = c.pending  BY <1>7, <2>2
  <2>14. new.entries = t  BY <2>2
  <2> HIDE DEF S
  <2>15. LookedAt(c, k, new)  BY <2>6, <2>8, <2>9, <2>10, <2>11, <2>12, <2>13, <2>14 DEF LookedAt, S
  <2> QED  BY <2>15 DEF new
<1> QED  BY <1>14, <1>15

(* Whatever goes was claimed by nobody, and is revoked and taken off the books. *)
LEMMA EvictKeeps ==
  ASSUME NEW c, Accounted(c)
  PROVE  /\ Sound(Evict(c))
         /\ Evict(c).refs = c.refs /\ Evict(c).adopted = c.adopted /\ Evict(c).pending = c.pending
         /\ Evict(c).live \subseteq c.live
         /\ \A m \in Message : Has(Evict(c), m) => Has(c, m)
         /\ \A m, n : Holds(c, m, n) => Holds(Evict(c), m, n)
<1> DEFINE L == Len(c.entries)
           g == Evicting(c)
           P == {k \in 0 .. L : LookedAt(c, k, g[k])}
<1>1. c \in Store /\ c.entries \in Seq(Entry) /\ L \in Nat /\ DOMAIN c.entries = 1 .. L
  <2>1. c \in Store /\ c.entries \in Seq(Entry)  BY DEF Accounted, Store
  <2> QED  BY <2>1, LenProperties
<1>2. /\ g[0] = [c EXCEPT !.entries = <<>>]
      /\ \A k \in 0 .. L : g[k] \in Store
      /\ \A k \in 1 .. L : g[k] = Look(c, k, g[k - 1])
  BY <1>1, EvictingRuns
<1> HIDE DEF g
<1>3. LookedAt(c, 0, g[0])
  <2>1. /\ g[0].entries = <<>> /\ g[0].total = c.total /\ g[0].live = c.live
        /\ g[0].refs = c.refs /\ g[0].adopted = c.adopted /\ g[0].pending = c.pending
    BY <1>1, <1>2 DEF Store
  <2>2. DOMAIN g[0].entries = {} /\ Len(g[0].entries) = 0 /\ 1 .. 0 = {} /\ 0 + 1 = 1  BY <2>1
  <2>3. <<>> \in Seq(Entry)  BY EmptySeq
  <2>4. BytesOf(g[0].entries)[Len(g[0].entries)] = 0 /\ BytesOf(c.entries)[0] = 0
    BY <1>1, <2>1, <2>2, <2>3, SumRuns
  <2>5. g[0].live = Outstanding(g[0].entries, c.pending) \cup {c.entries[j].url : j \in 1 .. L}
    <3>1. {g[0].entries[i].url : i \in DOMAIN g[0].entries} = {}  BY <2>2
    <3> QED  BY <1>1, <2>1, <3>1 DEF Accounted, Outstanding
  <2>6. g[0].total = BytesOf(g[0].entries)[Len(g[0].entries)] + c.total - BytesOf(c.entries)[0]
    BY <1>1, <2>1, <2>4 DEF Store
  <2>7. AllClaimed(g[0])  BY <2>2 DEF AllClaimed
  <2> QED  BY <2>1, <2>2, <2>5, <2>6, <2>7 DEF LookedAt
<1>4. 0 \in P  BY <1>1, <1>3
<1>5. \A k \in 1 .. L : k - 1 \in P => k \in P
  <2> SUFFICES ASSUME NEW k \in 1 .. L, LookedAt(c, k - 1, g[k - 1])
               PROVE  LookedAt(c, k, g[k]) /\ k \in 0 .. L
    BY <1>1
  <2>1. k - 1 \in 0 .. L /\ k \in 0 .. L /\ k \in 1 .. Len(c.entries)  BY <1>1
  <2>2. g[k - 1] \in Store  BY <1>2, <2>1
  <2>3. LookedAt(c, k, Look(c, k, g[k - 1]))  BY <2>1, <2>2, LookStep
  <2> QED  BY <1>2, <2>1, <2>3
<1> HIDE DEF P
<1>6. \A k \in 0 .. L : k \in P  BY <1>1, <1>4, <1>5, LoopKeeps
<1> DEFINE d == g[L]
<1>7. LookedAt(c, L, d) /\ d \in Store /\ Evict(c) = d
  <2>1. L \in 0 .. L  BY <1>1
  <2> QED  BY <1>2, <1>6, <2>1 DEF P, Evict, g
<1> HIDE DEF d
<1>8. d.entries \in Seq(Entry) /\ Len(d.entries) \in Nat /\ DOMAIN d.entries = 1 .. Len(d.entries)
  BY <1>7, LenProperties DEF Store
<1>9. d.refs = c.refs /\ d.adopted = c.adopted /\ d.pending = c.pending  BY <1>7 DEF LookedAt
<1>10. \A i \in DOMAIN d.entries : \E j \in DOMAIN c.entries : d.entries[i] = c.entries[j]
  BY <1>1, <1>7 DEF LookedAt
<1>11. \A j \in DOMAIN c.entries :
         c.refs[c.entries[j].of] > 0 => \E i \in DOMAIN d.entries : d.entries[i] = c.entries[j]
  BY <1>1, <1>7 DEF LookedAt
<1>12. d.live = Outstanding(d.entries, d.pending)
  <2>1. (L + 1) .. L = {}  BY <1>1
  <2>2. d.live = Outstanding(d.entries, c.pending) \cup {c.entries[j].url : j \in (L + 1) .. L}
    BY <1>7 DEF LookedAt
  <2> QED  BY <1>9, <2>1, <2>2
<1>13. d.total = BytesOf(d.entries)[Len(d.entries)]
  <2>1. d.total = BytesOf(d.entries)[Len(d.entries)] + c.total - BytesOf(c.entries)[L]
    BY <1>7 DEF LookedAt
  <2>2. c.total = BytesOf(c.entries)[L]  BY DEF Accounted
  <2>3. BytesOf(d.entries)[Len(d.entries)] \in Int /\ c.total \in Int  BY <1>1, <1>8, SumRuns DEF Store
  <2> QED  BY <2>1, <2>2, <2>3
<1>14. InOnePlace(c)  BY DEF Accounted
<1>15. InOnePlace(d)
  <2>1. ASSUME NEW i \in DOMAIN d.entries, NEW j \in DOMAIN d.entries,
               d.entries[i].of = d.entries[j].of \/ d.entries[i].url = d.entries[j].url
        PROVE  i = j
    <3>1. PICK x \in DOMAIN c.entries : d.entries[i] = c.entries[x]  BY <1>10
    <3>2. PICK y \in DOMAIN c.entries : d.entries[j] = c.entries[y]  BY <1>10
    <3>3. x = y  BY <1>14, <2>1, <3>1, <3>2 DEF InOnePlace
    <3>4. d.entries[i] = d.entries[j]  BY <3>1, <3>2, <3>3
    <3> QED  BY <1>7, <3>4 DEF LookedAt
  <2>2. ASSUME NEW i \in DOMAIN d.entries, NEW m \in Message PROVE d.entries[i].url \notin d.pending[m]
    <3>1. PICK x \in DOMAIN c.entries : d.entries[i] = c.entries[x]  BY <1>10
    <3> QED  BY <1>9, <1>14, <3>1 DEF InOnePlace
  <2>3. \A m, k \in Message : m # k => d.pending[m] \cap d.pending[k] = {}
    BY <1>9, <1>14 DEF InOnePlace
  <2> QED  BY <2>1, <2>2, <2>3 DEF InOnePlace
<1>16. Over(d) => AllClaimed(d)
  <2>1. Len(d.entries) + L - L = Len(d.entries)  BY <1>1, <1>8
  <2>2. Exceeds(Len(d.entries) + L - L, d.total) => AllClaimed(d)  BY <1>7 DEF LookedAt
  <2> QED  BY <2>1, <2>2 DEF Over
<1>17. Sound(d)  BY <1>7, <1>12, <1>13, <1>15, <1>16 DEF Sound, Accounted
<1>18. d.live \subseteq c.live
  <2>1. {d.entries[i].url : i \in DOMAIN d.entries}
          \subseteq {c.entries[i].url : i \in DOMAIN c.entries}
    BY <1>10
  <2>2. c.live = Outstanding(c.entries, c.pending)  BY DEF Accounted
  <2> QED  BY <1>9, <1>12, <2>1, <2>2 DEF Outstanding
<1>19. \A m \in Message : Has(d, m) => Has(c, m)  BY <1>10 DEF Has
<1>20. ASSUME NEW m, NEW n, Holds(c, m, n) PROVE Holds(d, m, n)
  <2>1. PICK j \in DOMAIN c.entries : c.entries[j].of = m /\ c.entries[j].url = n /\ c.refs[m] > 0
    BY <1>20 DEF Holds
  <2>2. PICK i \in DOMAIN d.entries : d.entries[i] = c.entries[j]  BY <1>11, <2>1
  <2> QED  BY <1>9, <2>1, <2>2 DEF Holds
<1> QED  BY <1>7, <1>9, <1>17, <1>18, <1>19, <1>20

-----------------------------------------------------------------------------
(* The operations of the cache.                                            *)

LEMMA SoundShape ==
  ASSUME NEW c, Accounted(c)
  PROVE  /\ c \in Store /\ c.entries \in Seq(Entry) /\ Len(c.entries) \in Nat
         /\ c.entries \in [1 .. Len(c.entries) -> Entry] /\ DOMAIN c.entries = 1 .. Len(c.entries)
         /\ c.refs \in [Message -> Nat] /\ c.pending \in [Message -> SUBSET Nat]
         /\ c.live \subseteq Nat /\ c.total \in Int /\ c.adopted \subseteq Message
         /\ InOnePlace(c)
         /\ \A i \in DOMAIN c.entries : c.entries[i].url \in c.live
         /\ \A m \in Message : c.pending[m] \subseteq c.live
<1>1. c \in Store /\ InOnePlace(c) /\ c.live = Outstanding(c.entries, c.pending)  BY DEF Accounted
<1>2. /\ c.entries \in Seq(Entry) /\ c.refs \in [Message -> Nat]
      /\ c.pending \in [Message -> SUBSET Nat] /\ c.live \subseteq Nat
      /\ c.total \in Int /\ c.adopted \subseteq Message
  BY <1>1 DEF Store
<1>3. /\ Len(c.entries) \in Nat /\ DOMAIN c.entries = 1 .. Len(c.entries)
      /\ c.entries \in [1 .. Len(c.entries) -> Entry]
  BY <1>2, LenProperties
<1>4. /\ \A i \in DOMAIN c.entries : c.entries[i].url \in c.live
      /\ \A m \in Message : c.pending[m] \subseteq c.live
  BY <1>1 DEF Outstanding
<1> QED  BY <1>1, <1>2, <1>3, <1>4

(* A claim more takes nothing from anybody, *)
LEMMA RetainKeeps ==
  ASSUME NEW c, Sound(c), NEW m \in Message
  PROVE  /\ Sound(Retain(c, m)) /\ Retain(c, m).live = c.live
         /\ \A k \in Message : Has(Retain(c, m), k) <=> Has(c, k)
         /\ \A k \in Message : \A u : Holds(c, k, u) => Holds(Retain(c, m), k, u)
<1> DEFINE d == Retain(c, m)
<1>1. Accounted(c) /\ (Over(c) => AllClaimed(c))  BY DEF Sound
<1>2. c \in Store /\ c.refs \in [Message -> Nat] /\ c.entries \in [1 .. Len(c.entries) -> Entry]
      /\ DOMAIN c.entries = 1 .. Len(c.entries) /\ c.adopted \subseteq Message
  BY <1>1, SoundShape
<1>3. c.refs[m] \in Nat /\ c.refs[m] + 1 \in Nat  BY <1>2
<1>4. /\ d \in Store /\ d.entries = c.entries /\ d.total = c.total /\ d.pending = c.pending
      /\ d.live = c.live /\ \A k \in Message : d.refs[k] >= c.refs[k]
  <2>1. CASE c.refs[m] > 0 /\ m \notin c.adopted
    <3>1. d = [c EXCEPT !.adopted = @ \cup {m}]  BY <2>1 DEF Retain
    <3> HIDE DEF d
    <3>2. c.adopted \cup {m} \in SUBSET Message  BY <1>2
    <3>3. d \in Store /\ d.entries = c.entries /\ d.total = c.total /\ d.pending = c.pending
          /\ d.live = c.live /\ d.refs = c.refs
      BY <1>2, <3>1, <3>2 DEF Store
    <3>4. \A k \in Message : c.refs[k] \in Int  BY <1>2
    <3>5. \A k \in Message : c.refs[k] >= c.refs[k]  BY <3>4
    <3> QED  BY <3>3, <3>5
  <2>2. CASE ~ (c.refs[m] > 0 /\ m \notin c.adopted)
    <3>1. d = [c EXCEPT !.refs = [c.refs EXCEPT ![m] = c.refs[m] + 1]]  BY <2>2 DEF Retain
    <3>2. [c.refs EXCEPT ![m] = c.refs[m] + 1] \in [Message -> Nat]  BY <1>2, <1>3
    <3>3. d \in Store /\ d.entries = c.entries /\ d.total = c.total /\ d.pending = c.pending
          /\ d.live = c.live /\ d.refs = [c.refs EXCEPT ![m] = c.refs[m] + 1]
      BY <1>2, <3>1, <3>2 DEF Store
    <3>4. \A k \in Message : d.refs[k] >= c.refs[k]  BY <1>2, <1>3, <3>3
    <3> QED  BY <3>3, <3>4
  <2> QED  BY <2>1, <2>2
<1> HIDE DEF d
<1>5. \A k \in Message : c.refs[k] > 0 => d.refs[k] > 0
  <2>1. d.refs \in [Message -> Nat]  BY <1>4 DEF Store
  <2> QED  BY <1>2, <1>4, <2>1
<1>6. \A i \in DOMAIN c.entries : c.entries[i].of \in Message  BY <1>2 DEF Entry
<1>7. Accounted(d)  BY <1>1, <1>4 DEF Accounted, InOnePlace
<1>8. Over(d) => AllClaimed(d)  BY <1>1, <1>4, <1>5, <1>6 DEF Over, AllClaimed
<1> QED  BY <1>4, <1>5, <1>7, <1>8 DEF Sound, Has, Holds, d

(* and a claim less nothing from the other messages. *)
LEMMA ReleaseKeeps ==
  ASSUME NEW c, Sound(c), NEW m \in Message
  PROVE  /\ Sound(Release(c, m)) /\ Release(c, m).live \subseteq c.live
         /\ \A k \in Message : Has(Release(c, m), k) => Has(c, k)
         /\ \A k \in Message \ {m} : \A u : Holds(c, k, u) => Holds(Release(c, m), k, u)
<1>1. Accounted(c) /\ (Over(c) => AllClaimed(c))  BY DEF Sound
<1>2. /\ c \in Store /\ c.refs \in [Message -> Nat] /\ c.entries \in [1 .. Len(c.entries) -> Entry]
      /\ DOMAIN c.entries = 1 .. Len(c.entries) /\ c.adopted \subseteq Message
      /\ c.pending \in [Message -> SUBSET Nat] /\ c.live \subseteq Nat /\ InOnePlace(c)
  BY <1>1, SoundShape
<1>3. c.refs[m] \in Nat  BY <1>2
<1>4. CASE c.refs[m] > 1
  <2> DEFINE d == Release(c, m)
             r == [c.refs EXCEPT ![m] = c.refs[m] - 1]
  <2>1. r \in [Message -> Nat] /\ \A k \in Message : c.refs[k] > 0 => r[k] > 0
    <3>1. c.refs[m] - 1 \in Nat /\ c.refs[m] - 1 > 0  BY <1>3, <1>4
    <3> QED  BY <1>2, <3>1
  <2>2. d = [c EXCEPT !.refs = r]  BY <1>4 DEF Release
  <2> HIDE DEF r
  <2>3. /\ d \in Store /\ d.entries = c.entries /\ d.total = c.total /\ d.pending = c.pending
        /\ d.live = c.live /\ d.refs = r
    BY <1>2, <2>1, <2>2 DEF Store
  <2> HIDE DEF d
  <2>4. \A i \in DOMAIN c.entries : c.entries[i].of \in Message  BY <1>2 DEF Entry
  <2>5. Accounted(d)  BY <1>1, <2>3 DEF Accounted, InOnePlace
  <2>6. Over(d) => AllClaimed(d)  BY <1>1, <2>1, <2>3, <2>4 DEF Over, AllClaimed
  <2> QED  BY <2>1, <2>3, <2>5, <2>6 DEF Sound, Has, Holds, d
<1>5. CASE c.refs[m] = 1
  <2> DEFINE r == [c.refs EXCEPT ![m] = 0]
             p == [c.pending EXCEPT ![m] = {}]
             d == [c EXCEPT !.refs[m] = 0, !.adopted = @ \ {m}, !.live = @ \ c.pending[m],
                            !.pending[m] = {}]
  <2>1. Release(c, m) = Evict(d)  BY <1>5 DEF Release
  <2>2. r \in [Message -> Nat] /\ p \in [Message -> SUBSET Nat]  BY <1>2
  <2>3. d = [c EXCEPT !.refs = r, !.adopted = @ \ {m}, !.live = @ \ c.pending[m], !.pending = p]
    OBVIOUS
  <2>4. /\ d \in Store /\ d.entries = c.entries /\ d.total = c.total /\ d.pending = p
        /\ d.live = c.live \ c.pending[m] /\ d.refs = r
    BY <1>2, <2>2, <2>3 DEF Store
  <2> HIDE DEF d
  <2>5. \A k \in Message : p[k] \subseteq c.pending[k] /\ (k # m => p[k] = c.pending[k])  BY <1>2
  <2>6. p[m] = {}  BY <1>2
  <2> HIDE DEF p
  <2>7. InOnePlace(d)
    <3>1. \A k, j \in Message : k # j => p[k] \cap p[j] = {}  BY <1>2, <2>5 DEF InOnePlace
    <3>2. \A i \in DOMAIN c.entries, k \in Message : c.entries[i].url \notin p[k]
      BY <1>2, <2>5 DEF InOnePlace
    <3> QED  BY <1>2, <2>4, <3>1, <3>2 DEF InOnePlace
  <2>8. d.live = Outstanding(d.entries, d.pending)
    <3>1. c.live = Outstanding(c.entries, c.pending)  BY <1>1 DEF Accounted
    <3>2. \A i \in DOMAIN c.entries : c.entries[i].url \notin c.pending[m]  BY <1>2 DEF InOnePlace
    <3>3. \A k \in Message \ {m} : c.pending[k] \cap c.pending[m] = {}  BY <1>2 DEF InOnePlace
    <3>4. (UNION {c.pending[k] : k \in Message}) \ c.pending[m] = UNION {p[k] : k \in Message}
      BY <2>5, <2>6, <3>3
    <3>5. {c.entries[i].url : i \in DOMAIN c.entries} \cap c.pending[m] = {}  BY <3>2
    <3>6. c.live \ c.pending[m]
            = {c.entries[i].url : i \in DOMAIN c.entries} \cup UNION {p[k] : k \in Message}
      BY <3>1, <3>4, <3>5 DEF Outstanding
    <3> QED  BY <2>4, <3>6 DEF Outstanding
  <2>9. Accounted(d)  BY <1>1, <2>4, <2>7, <2>8 DEF Accounted
  <2>10. /\ Sound(Evict(d)) /\ Evict(d).live \subseteq d.live
         /\ \A k \in Message : Has(Evict(d), k) => Has(d, k)
         /\ \A k, u : Holds(d, k, u) => Holds(Evict(d), k, u)
    BY <2>9, EvictKeeps
  <2>11. \A k \in Message : Has(d, k) => Has(c, k)  BY <2>4 DEF Has
  <2>12. \A k \in Message \ {m} : \A u : Holds(c, k, u) => Holds(d, k, u)
    <3>1. \A k \in Message \ {m} : d.refs[k] = c.refs[k]  BY <1>2, <2>4
    <3> QED  BY <2>4, <3>1 DEF Holds
  <2> QED  BY <2>1, <2>4, <2>10, <2>11, <2>12
<1>6. CASE c.refs[m] = 0
  <2>1. Release(c, m) = c  BY <1>6 DEF Release
  <2> QED  BY <2>1
<1> QED  BY <1>3, <1>4, <1>5, <1>6

(* A first entry. *)
LEMMA PutNew ==
  ASSUME NEW c, Accounted(c), NEW m \in Message, NEW n \in Nat, n \notin c.live, ~ Has(c, m),
         NEW d \in Store,
         d.entries = Append(c.entries, [of |-> m, url |-> n, size |-> SizeOf[m]]),
         d.total = c.total + SizeOf[m], d.pending = c.pending, d.live = c.live \cup {n}
  PROVE  Accounted(d)
<1> DEFINE e == [of |-> m, url |-> n, size |-> SizeOf[m]]
           L == Len(c.entries)
<1>1. /\ c \in Store /\ c.entries \in Seq(Entry) /\ L \in Nat /\ DOMAIN c.entries = 1 .. L
      /\ c.pending \in [Message -> SUBSET Nat] /\ InOnePlace(c)
      /\ \A i \in DOMAIN c.entries : c.entries[i].url \in c.live
      /\ \A k \in Message : c.pending[k] \subseteq c.live
      /\ c.live = Outstanding(c.entries, c.pending)
      /\ c.total = BytesOf(c.entries)[L]
  BY SoundShape DEF Accounted
<1>2. e \in Entry /\ e.of = m /\ e.url = n /\ e.size = SizeOf[m]  BY PicturesAssumption DEF Entry
<1> HIDE DEF e
<1>3. /\ d.entries \in Seq(Entry) /\ Len(d.entries) = L + 1 /\ d.entries[L + 1] = e
      /\ \A i \in 1 .. L : d.entries[i] = c.entries[i]
  BY <1>1, <1>2, AppendProperties DEF e
<1>4. BytesOf(d.entries)[Len(d.entries)] = BytesOf(c.entries)[L] + e.size
  BY <1>1, <1>2, SumAppend DEF e
<1> HIDE DEF L
<1>5. DOMAIN d.entries = 1 .. L + 1 /\ 1 .. L + 1 = (1 .. L) \cup {L + 1}
  BY <1>1, <1>3, LenProperties
<1>6. InOnePlace(d)
  <2>1. \A i \in 1 .. L : c.entries[i].of # m /\ c.entries[i].url # n  BY <1>1 DEF Has
  <2>2. \A i, j \in DOMAIN d.entries :
          d.entries[i].of = d.entries[j].of \/ d.entries[i].url = d.entries[j].url => i = j
    BY <1>1, <1>2, <1>3, <1>5, <2>1 DEF InOnePlace
  <2>3. \A i \in DOMAIN d.entries, k \in Message : d.entries[i].url \notin d.pending[k]
    BY <1>1, <1>2, <1>3, <1>5 DEF InOnePlace
  <2>4. \A j, k \in Message : j # k => d.pending[j] \cap d.pending[k] = {}  BY <1>1 DEF InOnePlace
  <2> QED  BY <2>2, <2>3, <2>4 DEF InOnePlace
<1>7. d.live = Outstanding(d.entries, d.pending)
  <2>1. {d.entries[i].url : i \in DOMAIN d.entries}
          = {c.entries[i].url : i \in DOMAIN c.entries} \cup {n}
    BY <1>1, <1>2, <1>3, <1>5
  <2> QED  BY <1>1, <2>1 DEF Outstanding
<1>8. d.total = BytesOf(d.entries)[Len(d.entries)]  BY <1>1, <1>2, <1>4
<1> QED  BY <1>6, <1>7, <1>8 DEF Accounted

(* An entry in the place of one that was there: its URL waits, or goes with those that did. *)
Swapped(c, i, m, n, d) ==
  /\ d.entries = [c.entries EXCEPT ![i] = [of |-> m, url |-> n, size |-> SizeOf[m]]]
  /\ d.total = c.total - c.entries[i].size + SizeOf[m]
  /\ \/ /\ d.pending = [c.pending EXCEPT ![m] = @ \cup {c.entries[i].url}]
        /\ d.live = c.live \cup {n}
     \/ /\ d.pending = [c.pending EXCEPT ![m] = {}]
        /\ d.live = (c.live \ (c.pending[m] \cup {c.entries[i].url})) \cup {n}

LEMMA PutAgain ==
  ASSUME NEW c, Accounted(c), NEW m \in Message, NEW n \in Nat, n \notin c.live,
         NEW i \in DOMAIN c.entries, c.entries[i].of = m, NEW d \in Store, Swapped(c, i, m, n, d)
  PROVE  Accounted(d)
<1> DEFINE e == [of |-> m, url |-> n, size |-> SizeOf[m]]
           L == Len(c.entries)
           old == c.entries[i].url
           others == {c.entries[j].url : j \in (1 .. L) \ {i}}
           elsewhere == UNION {c.pending[k] : k \in Message \ {m}}
<1>1. /\ c \in Store /\ c.entries \in Seq(Entry) /\ L \in Nat /\ DOMAIN c.entries = 1 .. L
      /\ c.entries \in [1 .. L -> Entry]
      /\ c.pending \in [Message -> SUBSET Nat] /\ InOnePlace(c)
      /\ \A j \in 1 .. L : c.entries[j].url \in c.live
      /\ \A k \in Message : c.pending[k] \subseteq c.live
      /\ c.live = Outstanding(c.entries, c.pending)
      /\ c.total = BytesOf(c.entries)[L]
  BY SoundShape DEF Accounted
<1>2. e \in Entry /\ e.of = m /\ e.url = n /\ e.size = SizeOf[m]  BY PicturesAssumption DEF Entry
<1> HIDE DEF e
<1>3. /\ d.entries \in Seq(Entry) /\ Len(d.entries) = L
      /\ BytesOf(d.entries)[L] = BytesOf(c.entries)[L] - c.entries[i].size + e.size
  <2> DEFINE s == c.entries
             t == [s EXCEPT ![i] = e]
  <2>1. d.entries = t  BY DEF Swapped, e
  <2>2. i \in 1 .. Len(s) /\ s \in Seq(Entry) /\ L = Len(s)  BY <1>1
  <2> HIDE DEF s, L
  <2>3. t \in Seq(Entry) /\ Len(t) = L /\ BytesOf(t)[L] = BytesOf(s)[L] - s[i].size + e.size
    BY <1>2, <2>2, SumReplace
  <2> QED  BY <2>1, <2>3 DEF s
<1>4. /\ DOMAIN d.entries = 1 .. L /\ d.entries[i] = e
      /\ \A j \in (1 .. L) \ {i} : d.entries[j] = c.entries[j]
  BY <1>1 DEF Swapped, e
<1> HIDE DEF L
<1>5. d.total = BytesOf(d.entries)[Len(d.entries)]  BY <1>1, <1>2, <1>3 DEF Swapped
<1>6. \A k \in Message \ {m} : d.pending[k] = c.pending[k]  BY <1>1 DEF Swapped
<1>7. d.pending[m] = c.pending[m] \cup {old} \/ d.pending[m] = {}  BY <1>1 DEF Swapped
<1>8. \A k \in Message : n \notin c.pending[k]  BY <1>1
<1>9. \A j \in 1 .. L : c.entries[j].url # n  BY <1>1
<1>10. /\ \A j \in (1 .. L) \ {i} : c.entries[j].of # m /\ c.entries[j].url # old
       /\ \A k \in Message : old \notin c.pending[k]
  BY <1>1 DEF InOnePlace
<1>11. InOnePlace(d)
  <2>1. \A j, k \in DOMAIN d.entries :
          d.entries[j].of = d.entries[k].of \/ d.entries[j].url = d.entries[k].url => j = k
    <3> SUFFICES ASSUME NEW j \in 1 .. L, NEW k \in 1 .. L,
                        d.entries[j].of = d.entries[k].of \/ d.entries[j].url = d.entries[k].url
                 PROVE  j = k
      BY <1>4
    <3>1. CASE j # i /\ k # i
      <4>1. c.entries[j].of = c.entries[k].of \/ c.entries[j].url = c.entries[k].url
        BY <1>4, <3>1
      <4>2. j \in DOMAIN c.entries /\ k \in DOMAIN c.entries /\ InOnePlace(c)  BY <1>1
      <4> QED  BY <4>1, <4>2 DEF InOnePlace
    <3>2. CASE j = i \/ k = i  BY <1>2, <1>4, <1>9, <1>10, <3>2
    <3> QED  BY <3>1, <3>2
  <2>2. ASSUME NEW j \in DOMAIN d.entries, NEW k \in Message PROVE d.entries[j].url \notin d.pending[k]
    <3>1. d.pending[k] \subseteq c.pending[k] \cup {old}  BY <1>6, <1>7
    <3>2. CASE j = i
      <4>1. d.entries[j].url = n /\ n # old  BY <1>1, <1>2, <1>4, <1>9, <3>2
      <4> QED  BY <1>8, <3>1, <4>1
    <3>3. CASE j # i
      <4>1. d.entries[j] = c.entries[j] /\ c.entries[j].url # old  BY <1>4, <1>10, <3>3
      <4>2. c.entries[j].url \notin c.pending[k]  BY <1>1, <1>4 DEF InOnePlace
      <4> QED  BY <3>1, <4>1, <4>2
    <3> QED  BY <3>2, <3>3
  <2>3. ASSUME NEW j \in Message, NEW k \in Message, j # k PROVE d.pending[j] \cap d.pending[k] = {}
    <3>1. c.pending[j] \cap c.pending[k] = {}  BY <1>1, <2>3 DEF InOnePlace
    <3>2. old \notin c.pending[j] /\ old \notin c.pending[k]  BY <1>10
    <3>3. CASE j = m  BY <1>6, <1>7, <2>3, <3>1, <3>2, <3>3
    <3>4. CASE k = m  BY <1>6, <1>7, <2>3, <3>1, <3>2, <3>4
    <3>5. CASE j # m /\ k # m  BY <1>6, <3>1, <3>5
    <3> QED  BY <3>3, <3>4, <3>5
  <2> QED  BY <2>1, <2>2, <2>3 DEF InOnePlace
<1>12. {d.entries[j].url : j \in DOMAIN d.entries} = others \cup {n}
  <2>1. 1 .. L = ((1 .. L) \ {i}) \cup {i}  BY <1>1
  <2>2. \A j \in (1 .. L) \ {i} : d.entries[j].url = c.entries[j].url  BY <1>4
  <2>3. d.entries[i].url = n  BY <1>2, <1>4
  <2>4. {d.entries[j].url : j \in 1 .. L}
          = {d.entries[j].url : j \in (1 .. L) \ {i}} \cup {d.entries[i].url}
    BY <2>1
  <2> QED  BY <1>4, <2>2, <2>3, <2>4
<1>13. {c.entries[j].url : j \in DOMAIN c.entries} = others \cup {old}
  <2>1. 1 .. L = ((1 .. L) \ {i}) \cup {i}  BY <1>1
  <2>2. {c.entries[j].url : j \in 1 .. L} = others \cup {c.entries[i].url}  BY <2>1
  <2> QED  BY <1>1, <2>2
<1>14. UNION {c.pending[k] : k \in Message} = elsewhere \cup c.pending[m]  OBVIOUS
<1>15. UNION {d.pending[k] : k \in Message} = elsewhere \cup d.pending[m]
  <2>1. UNION {d.pending[k] : k \in Message}
          = (UNION {d.pending[k] : k \in Message \ {m}}) \cup d.pending[m]
    OBVIOUS
  <2>2. UNION {d.pending[k] : k \in Message \ {m}} = elsewhere  BY <1>6
  <2> QED  BY <2>1, <2>2
<1>16. others \cap (c.pending[m] \cup {old}) = {} /\ elsewhere \cap (c.pending[m] \cup {old}) = {}
  <2>1. \A j \in 1 .. L : c.entries[j].url \notin c.pending[m]  BY <1>1 DEF InOnePlace
  <2>2. \A k \in Message \ {m} : c.pending[k] \cap (c.pending[m] \cup {old}) = {}
    BY <1>1, <1>10 DEF InOnePlace
  <2>3. elsewhere \cap (c.pending[m] \cup {old}) = {}  BY <2>2
  <2> QED  BY <1>10, <2>1, <2>3
<1> HIDE DEF others, elsewhere
<1>17. c.live = others \cup {old} \cup elsewhere \cup c.pending[m]
  BY <1>1, <1>13, <1>14 DEF Outstanding
<1>18. Outstanding(d.entries, d.pending) = others \cup {n} \cup elsewhere \cup d.pending[m]
  BY <1>12, <1>15 DEF Outstanding
<1>19. d.live = Outstanding(d.entries, d.pending)
  <2>1. CASE d.pending = [c.pending EXCEPT ![m] = @ \cup {old}] /\ d.live = c.live \cup {n}
    <3>1. d.pending[m] = c.pending[m] \cup {old}  BY <1>1, <2>1
    <3> QED  BY <1>17, <1>18, <2>1, <3>1
  <2>2. CASE /\ d.pending = [c.pending EXCEPT ![m] = {}]
             /\ d.live = (c.live \ (c.pending[m] \cup {old})) \cup {n}
    <3>1. d.pending[m] = {}  BY <1>1, <2>2
    <3> QED  BY <1>16, <1>17, <1>18, <2>2, <3>1
  <2> QED  BY <2>1, <2>2 DEF Swapped
<1> QED  BY <1>5, <1>11, <1>19 DEF Accounted

(* A new entry is claimed, and takes nothing from the other messages either. *)
LEMMA PutKeeps ==
  ASSUME NEW c, Sound(c), NEW m \in Message, NEW n \in Nat, n \notin c.live
  PROVE  /\ Sound(Put(c, m, n)) /\ Put(c, m, n).live \subseteq c.live \cup {n}
         /\ \A k \in Message : Has(Put(c, m, n), k) => Has(c, k) \/ k = m
         /\ Holds(Put(c, m, n), m, n)
         /\ \A k \in Message \ {m} : \A u : Holds(c, k, u) => Holds(Put(c, m, n), k, u)
<1> DEFINE e == [of |-> m, url |-> n, size |-> SizeOf[m]]
           i == At(c, m)
           filed == IF Has(c, m) THEN [Replaced(c, m) EXCEPT !.entries[i] = e]
                    ELSE [c EXCEPT !.entries = Append(@, e)]
           claims == IF Has(c, m) /\ c.refs[m] > 0 THEN c.refs[m] ELSE 1
           d == [filed EXCEPT !.total = @ + SizeOf[m], !.refs[m] = claims, !.live = @ \cup {n}]
           r == [c.refs EXCEPT ![m] = claims]
<1>1. Accounted(c)  BY DEF Sound
<1>2. /\ c \in Store /\ c.entries \in Seq(Entry) /\ Len(c.entries) \in Nat
      /\ DOMAIN c.entries = 1 .. Len(c.entries) /\ c.entries \in [1 .. Len(c.entries) -> Entry]
      /\ c.refs \in [Message -> Nat] /\ c.pending \in [Message -> SUBSET Nat]
      /\ c.live \subseteq Nat /\ c.total \in Int /\ c.adopted \subseteq Message
  BY <1>1, SoundShape
<1>3. Put(c, m, n) = Evict(d)  BY DEF Put
<1>4. claims \in Nat /\ claims > 0  BY <1>2
<1>5. r \in [Message -> Nat] /\ r[m] > 0 /\ \A k \in Message \ {m} : r[k] = c.refs[k]
  BY <1>2, <1>4
<1>6. e \in Entry /\ SizeOf[m] \in Nat  BY PicturesAssumption DEF Entry
<1>7. /\ Accounted(d) /\ d.refs = r /\ d.live \subseteq c.live \cup {n}
      /\ \A j \in DOMAIN d.entries :
           d.entries[j] = e \/ \E x \in DOMAIN c.entries : d.entries[j] = c.entries[x]
      /\ \E j \in DOMAIN d.entries : d.entries[j] = e
      /\ \A x \in DOMAIN c.entries :
           c.entries[x].of # m => \E j \in DOMAIN d.entries : d.entries[j] = c.entries[x]
  <2>1. CASE ~ Has(c, m)
    <3> DEFINE t == Append(c.entries, e)
    <3>1. /\ t \in Seq(Entry) /\ Len(t) = Len(c.entries) + 1 /\ t[Len(c.entries) + 1] = e
          /\ \A j \in 1 .. Len(c.entries) : t[j] = c.entries[j]
      BY <1>2, <1>6, AppendProperties
    <3>2. d = [c EXCEPT !.entries = t, !.total = @ + SizeOf[m], !.refs = r, !.live = @ \cup {n}]
      BY <1>2, <2>1 DEF Store
    <3> HIDE DEF t, r, d
    <3>3. /\ d \in Store /\ d.entries = t /\ d.total = c.total + SizeOf[m] /\ d.refs = r
          /\ d.pending = c.pending /\ d.live = c.live \cup {n}
      <4>1. c.total + SizeOf[m] \in Int  BY <1>2, <1>6
      <4> QED  BY <1>2, <1>5, <3>1, <3>2, <4>1 DEF Store
    <3>4. Accounted(d)  BY <1>1, <2>1, <3>3, PutNew DEF t
    <3>5. /\ DOMAIN t = 1 .. Len(c.entries) + 1
          /\ 1 .. Len(c.entries) + 1 = (1 .. Len(c.entries)) \cup {Len(c.entries) + 1}
      BY <1>2, <3>1, LenProperties
    <3>6. /\ \A j \in DOMAIN t : t[j] = e \/ \E x \in DOMAIN c.entries : t[j] = c.entries[x]
          /\ \E j \in DOMAIN t : t[j] = e
          /\ \A x \in DOMAIN c.entries : \E j \in DOMAIN t : t[j] = c.entries[x]
      <4>1. Len(c.entries) + 1 \in DOMAIN t  BY <3>5
      <4>2. \A j \in DOMAIN c.entries : j \in DOMAIN t /\ t[j] = c.entries[j]  BY <1>2, <3>1, <3>5
      <4>3. \A j \in DOMAIN t : j = Len(c.entries) + 1 \/ j \in DOMAIN c.entries  BY <1>2, <3>5
      <4> QED  BY <3>1, <4>1, <4>2, <4>3
    <3> QED  BY <3>3, <3>4, <3>6
  <2>2. CASE Has(c, m)
    <3>1. i \in DOMAIN c.entries /\ c.entries[i].of = m  BY <2>2 DEF Has, At
    <3>2. c.entries[i] \in Entry /\ c.entries[i].size \in Nat /\ c.entries[i].url \in Nat
      BY <1>2, <3>1 DEF Entry
    <3> DEFINE t == [c.entries EXCEPT ![i] = e]
               old == c.entries[i]
               more == [c.pending EXCEPT ![m] = @ \cup {old.url}]
               none == [c.pending EXCEPT ![m] = {}]
    <3> HIDE DEF i
    <3>3. t \in Seq(Entry)  BY <1>2, <1>6, <3>1, SumReplace
    <3>4. more \in [Message -> SUBSET Nat] /\ none \in [Message -> SUBSET Nat]  BY <1>2, <3>2
    <3>5. /\ d \in Store /\ d.entries = t /\ d.total = c.total - old.size + SizeOf[m] /\ d.refs = r
          /\ \/ d.pending = more /\ d.live = c.live \cup {n}
             \/ d.pending = none /\ d.live = (c.live \ (c.pending[m] \cup {old.url})) \cup {n}
      <4>1. CASE m \in c.adopted
        <5>3. Replaced(c, m) = [c EXCEPT !.total = c.total - old.size, !.adopted = @ \ {m},
                                         !.pending = more]
          BY <1>2, <4>1 DEF Replaced, Store, i
        <5>1. d = [c EXCEPT !.total = c.total - old.size + SizeOf[m], !.adopted = @ \ {m},
                            !.pending = more, !.entries = t, !.refs = r, !.live = @ \cup {n}]
          <6> HIDE DEF more
          <6> QED  BY <1>2, <2>2, <5>3 DEF Store, i
        <5> HIDE DEF d, more, t, r
        <5>2. c.total - old.size + SizeOf[m] \in Int  BY <1>2, <1>6, <3>2
        <5> QED  BY <1>2, <1>5, <3>3, <3>4, <5>1, <5>2 DEF Store
      <4>2. CASE m \notin c.adopted
        <5> DEFINE stays == c.live \ (c.pending[m] \cup {old.url})
        <5>3. Replaced(c, m) = [c EXCEPT !.total = c.total - old.size, !.adopted = @ \ {m},
                                         !.live = stays, !.pending = none]
          BY <1>2, <4>2 DEF Replaced, Store, i
        <5>1. d = [c EXCEPT !.total = c.total - old.size + SizeOf[m], !.adopted = @ \ {m},
                            !.pending = none, !.entries = t, !.refs = r, !.live = stays \cup {n}]
          <6> HIDE DEF stays, none
          <6> QED  BY <1>2, <2>2, <5>3 DEF Store, i
        <5> HIDE DEF d, none, t, r
        <5>2. c.total - old.size + SizeOf[m] \in Int  BY <1>2, <1>6, <3>2
        <5> QED  BY <1>2, <1>5, <3>3, <3>4, <5>1, <5>2 DEF Store
      <4> QED  BY <4>1, <4>2
    <3> HIDE DEF d, r
    <3>6. Accounted(d)
      <4>1. Swapped(c, i, m, n, d)  BY <3>5 DEF Swapped
      <4> QED  BY <1>1, <3>1, <3>5, <4>1, PutAgain
    <3>7. /\ DOMAIN t = DOMAIN c.entries /\ t[i] = e
          /\ \A j \in DOMAIN c.entries : j # i => t[j] = c.entries[j]
      BY <3>1
    <3> HIDE DEF t
    <3>8. \A x \in DOMAIN c.entries : c.entries[x].of # m => \E j \in DOMAIN t : t[j] = c.entries[x]
      BY <3>1, <3>7
    <3>9. d.live \subseteq c.live \cup {n}  BY <3>5
    <3> QED  BY <3>1, <3>5, <3>6, <3>7, <3>8, <3>9
  <2> QED  BY <2>1, <2>2
<1> HIDE DEF d, r
<1>8. /\ Sound(Evict(d)) /\ Evict(d).live \subseteq d.live
      /\ \A k \in Message : Has(Evict(d), k) => Has(d, k)
      /\ \A k, u : Holds(d, k, u) => Holds(Evict(d), k, u)
  BY <1>7, EvictKeeps
<1>9. e.of = m /\ e.url = n  OBVIOUS
<1> HIDE DEF e
<1>10. \A k \in Message : Has(d, k) => Has(c, k) \/ k = m  BY <1>7, <1>9 DEF Has
<1>11. Holds(d, m, n)  BY <1>5, <1>7, <1>9 DEF Holds
<1>12. ASSUME NEW k \in Message \ {m}, NEW u, Holds(c, k, u) PROVE Holds(d, k, u)
  <2>1. PICK x \in DOMAIN c.entries : c.entries[x].of = k /\ c.entries[x].url = u /\ c.refs[k] > 0
    BY <1>12 DEF Holds
  <2>2. PICK j \in DOMAIN d.entries : d.entries[j] = c.entries[x]  BY <1>7, <2>1
  <2> QED  BY <1>5, <1>7, <2>1, <2>2 DEF Holds
<1> QED  BY <1>3, <1>7, <1>8, <1>10, <1>11, <1>12

-----------------------------------------------------------------------------
(* The steps.                                                              *)

LEMMA TwoOfThem ==
  ASSUME NEW S, IsFiniteSet(S), NEW x \in S, NEW y \in S, x # y
  PROVE  Cardinality(S) > 1
<1>1. {x, y} \subseteq S /\ IsFiniteSet({x, y}) /\ Cardinality({x, y}) = 2
  <2>1. {x, y} = {x} \cup {y} /\ y \notin {x}  OBVIOUS
  <2>2. IsFiniteSet({x}) /\ Cardinality({x}) = 1  BY FS_Singleton
  <2>3. IsFiniteSet({x} \cup {y}) /\ Cardinality({x} \cup {y}) = 1 + 1  BY <2>1, <2>2, FS_AddElement
  <2> QED  BY <2>1, <2>3
<1>2. Cardinality({x, y}) <= Cardinality(S)  BY <1>1, FS_Subset
<1>3. Cardinality(S) \in Nat  BY FS_CardinalityType
<1> QED  BY <1>1, <1>2, <1>3

LEMMA EntryOf ==
  ASSUME NEW c, Accounted(c), NEW m \in Message
  PROVE  /\ \A u : Holds(c, m, u) => Has(c, m) /\ c.entries[At(c, m)].url = u /\ u \in c.live
         /\ Has(c, m) => c.entries[At(c, m)].url \in Nat
         /\ Has(c, m) /\ c.refs[m] # 0 => Holds(c, m, c.entries[At(c, m)].url)
<1>1. /\ InOnePlace(c) /\ c.entries \in [1 .. Len(c.entries) -> Entry]
      /\ c.refs \in [Message -> Nat] /\ \A i \in DOMAIN c.entries : c.entries[i].url \in c.live
  BY SoundShape
<1>2. ASSUME Has(c, m)
      PROVE  At(c, m) \in DOMAIN c.entries /\ c.entries[At(c, m)].of = m
  BY <1>2 DEF Has, At
<1>3. ASSUME NEW u, Holds(c, m, u)
      PROVE  Has(c, m) /\ c.entries[At(c, m)].url = u /\ u \in c.live
  <2>1. PICK i \in DOMAIN c.entries : c.entries[i].of = m /\ c.entries[i].url = u  BY <1>3 DEF Holds
  <2>2. Has(c, m)  BY <2>1 DEF Has
  <2>3. At(c, m) = i  BY <1>1, <1>2, <2>1, <2>2 DEF InOnePlace
  <2> QED  BY <1>1, <2>1, <2>2, <2>3
<1>4. ASSUME Has(c, m) PROVE c.entries[At(c, m)].url \in Nat  BY <1>1, <1>2, <1>4 DEF Entry
<1>5. ASSUME Has(c, m), c.refs[m] # 0 PROVE Holds(c, m, c.entries[At(c, m)].url)
  <2>1. c.refs[m] > 0  BY <1>1, <1>5
  <2> QED  BY <1>2, <1>5, <2>1 DEF Holds
<1> QED  BY <1>3, <1>4, <1>5

(* What was not exposed by drawing a message was not. *)
LEMMA NotExposed ==
  ASSUME NEW m \in Message, Expose(m), IsFiniteSet(opening')
  PROVE  /\ exposed \subseteq exposed'
         /\ m \notin exposed' =>
              /\ \A a, b \in Bubble : bubble'[a].of = m /\ bubble'[b].of = m => a = b
              /\ \A d, e \in opening' : d.of = m /\ e.of = m => d = e
              /\ Has(cache, m) => cache.refs[m] # 0
<1>1. exposed \subseteq exposed'  BY DEF Expose
<1>2. ASSUME m \notin exposed'
      PROVE  /\ ~ (Cardinality({b \in Bubble : bubble'[b].of = m}) > 1)
             /\ ~ (Cardinality({d \in opening' : d.of = m}) > 1)
             /\ Has(cache, m) => cache.refs[m] # 0
  BY <1>2 DEF Expose
<1>3. ASSUME m \notin exposed', NEW a \in Bubble, NEW b \in Bubble,
             bubble'[a].of = m, bubble'[b].of = m
      PROVE  a = b
  <2> DEFINE S == {x \in Bubble : bubble'[x].of = m}
  <2>1. IsFiniteSet(S)
    <3>1. S \subseteq Bubble /\ IsFiniteSet(Bubble)  BY PicturesAssumption
    <3> QED  BY <3>1, FS_Subset
  <2>2. a \in S /\ b \in S /\ ~ (Cardinality(S) > 1)  BY <1>2, <1>3
  <2> HIDE DEF S
  <2> QED  BY <2>1, <2>2, TwoOfThem
<1>4. ASSUME m \notin exposed', NEW d \in opening', NEW e \in opening', d.of = m, e.of = m
      PROVE  d = e
  <2> DEFINE S == {x \in opening' : x.of = m}
  <2>1. IsFiniteSet(S)
    <3>1. S \subseteq opening'  OBVIOUS
    <3> QED  BY <3>1, FS_Subset
  <2>2. d \in S /\ e \in S /\ ~ (Cardinality(S) > 1)  BY <1>2, <1>4
  <2> HIDE DEF S
  <2> QED  BY <2>1, <2>2, TwoOfThem
<1> QED  BY <1>1, <1>2, <1>3, <1>4

(* A message nothing happens to, but that the cache may hold more claims on it. *)
LEMMA AloneStays ==
  ASSUME NEW k \in Message, Alone(k),
         \A a \in Bubble : bubble'[a].of = k => bubble'[a] = bubble[a],
         \A d \in opening' : d.of = k => d \in opening,
         Has(cache', k) => Has(cache, k),
         \A u : Holds(cache, k, u) => Holds(cache', k, u)
  PROVE  Alone(k)'
<1>1. \A a, b \in Bubble : bubble'[a].of = k /\ bubble'[b].of = k => a = b  BY DEF Alone
<1>2. \A d, e \in opening' : d.of = k /\ e.of = k => d = e  BY DEF Alone
<1>3. \A d \in opening' : d.of = k => ~ Has(cache', k)  BY DEF Alone
<1>4. \A b \in Bubble :
        bubble'[b].of = k /\ bubble'[b].url # Null => Holds(cache', k, bubble'[b].url)
  BY DEF Alone
<1>5. \A b \in Bubble : bubble'[b].of = k /\ bubble'[b].kept # Null => bubble'[b].kept = bubble'[b].url
  BY DEF Alone
<1> QED  BY <1>1, <1>2, <1>3, <1>4, <1>5 DEF Alone, Has, Holds

(* A bubble picks up what the cache has, or starts a decryption. *)
LEMMA DecryptStep ==
  ASSUME PicInv, NEW b \in Bubble, NEW m \in Message, bubble[b].of = m \/ bubble[b] = NoBubble,
         Decrypt(b, m), Expose(m), cache' = cache
  PROVE  PicInv'
<1>1. /\ Sound(cache) /\ Accounted(cache) /\ Numbered /\ Waits
      /\ \A k \in Message \ exposed : Alone(k)
  BY DEF PicInv, Sound
<1>2. Sound(cache)'  BY <1>1
<1>3. Null \notin Nat /\ Null \notin Message  BY PicturesAssumption
<1>4. bubble \in [Bubble -> Place] /\ bubble[b] \in Place  BY <1>1 DEF Waits
<1>5. bubble[b] = NoBubble => /\ bubble[b].of = Null /\ bubble[b].waits = Null
                              /\ bubble[b].url = Null /\ bubble[b].kept = Null
  BY DEF NoBubble
<1>6. CASE Has(cache, m)
  <2> DEFINE u == cache.entries[At(cache, m)].url
             x == [bubble[b] EXCEPT !.of = m, !.waits = Null, !.url = u]
  <2>1. /\ bubble' = [bubble EXCEPT ![b].of = m, ![b].waits = Null, ![b].url = u]
        /\ opening' = opening /\ made' = made
    BY <1>6 DEF Decrypt
  <2>2. u \in Nat  BY <1>1, <1>6, EntryOf
  <2> HIDE DEF u
  <2>3. bubble' = [bubble EXCEPT ![b] = x]  BY <1>4, <2>1
  <2>4. x \in Place /\ x.of = m /\ x.waits = Null /\ x.url = u /\ x.kept = bubble[b].kept
    BY <1>4, <2>2 DEF Place
  <2> HIDE DEF x
  <2>5. /\ bubble' \in [Bubble -> Place] /\ bubble'[b] = x
        /\ \A a \in Bubble \ {b} : bubble'[a] = bubble[a]
    BY <1>4, <2>3, <2>4
  <2>6. Numbered'  BY <1>1, <2>1 DEF Numbered
  <2>7. Waits'
    <3>1. \A a \in Bubble : bubble'[a].of = Null => bubble'[a] = NoBubble
      BY <1>1, <1>3, <2>4, <2>5 DEF Waits
    <3>2. \A a \in Bubble : bubble'[a].waits # Null => bubble'[a].waits <= made'
      BY <1>1, <2>1, <2>4, <2>5 DEF Waits
    <3>3. \A a \in Bubble, d \in opening' : bubble'[a].waits = d.n => bubble'[a].of = d.of
      <4>1. \A d \in opening : d.n \in Nat  BY <1>1 DEF Numbered
      <4> QED  BY <1>1, <1>3, <2>1, <2>4, <2>5, <4>1 DEF Waits
    <3>4. NoBubble' = NoBubble  BY DEF NoBubble
    <3> QED  BY <2>5, <3>1, <3>2, <3>3, <3>4 DEF Waits
  <2>8. ASSUME NEW k \in Message \ exposed' PROVE Alone(k)'
    <3>1. IsFiniteSet(opening')  BY <1>1, <2>1 DEF Numbered
    <3>2. k \notin exposed /\ Alone(k)  BY <1>1, <3>1, NotExposed
    <3>3. CASE k # m
      <4>1. \A a \in Bubble : bubble'[a].of = k => bubble'[a] = bubble[a]  BY <2>4, <2>5, <3>3
      <4> QED  BY <2>1, <3>2, <4>1, AloneStays
    <3>4. CASE k = m
      <4>1. /\ \A a, c \in Bubble : bubble'[a].of = m /\ bubble'[c].of = m => a = c
            /\ cache.refs[m] # 0
        BY <1>6, <3>1, <3>4, NotExposed
      <4>2. Holds(cache, m, u)  BY <1>1, <1>6, <4>1, EntryOf DEF u
      <4>3. \A a \in Bubble : bubble'[a].of = m => a = b  BY <2>4, <2>5, <4>1
      <4>4. x.kept # Null => x.kept = x.url
        <5> SUFFICES ASSUME x.kept # Null PROVE x.kept = u  BY <2>4
        <5>1. bubble[b].of = m /\ bubble[b].kept # Null  BY <1>5, <2>4
        <5>2. bubble[b].kept = bubble[b].url /\ Holds(cache, m, bubble[b].url)
          BY <3>2, <3>4, <5>1 DEF Alone
        <5> QED  BY <1>1, <2>4, <5>2, EntryOf DEF u
      <4>5. \A a \in Bubble :
              bubble'[a].of = m /\ bubble'[a].url # Null => Holds(cache, m, bubble'[a].url)
        BY <2>4, <2>5, <4>2, <4>3
      <4>6. \A a \in Bubble :
              bubble'[a].of = m /\ bubble'[a].kept # Null => bubble'[a].kept = bubble'[a].url
        BY <2>5, <4>3, <4>4
      <4> QED  BY <2>1, <3>2, <3>4, <4>1, <4>5, <4>6 DEF Alone, Has, Holds
    <3> QED  BY <3>3, <3>4
  <2> QED  BY <1>2, <2>6, <2>7, <2>8 DEF PicInv
<1>7. CASE ~ Has(cache, m)
  <2> DEFINE w == made + 1
             new == [of |-> m, n |-> w]
             x == [bubble[b] EXCEPT !.of = m, !.waits = w]
  <2>1. /\ made' = w /\ opening' = opening \cup {new}
        /\ bubble' = [bubble EXCEPT ![b].of = m, ![b].waits = w]
    BY <1>7 DEF Decrypt
  <2>2. made \in Nat /\ w \in Nat /\ w > made  BY <1>1 DEF Numbered
  <2>3. \A n \in Nat : n <= made => n # w /\ n <= w  BY <2>2
  <2>4. new \in [of : Message, n : Nat] /\ new.of = m /\ new.n = w  BY <2>2
  <2> HIDE DEF w, new
  <2>5. bubble' = [bubble EXCEPT ![b] = x]  BY <1>4, <2>1
  <2>6. x \in Place /\ x.of = m /\ x.waits = w /\ x.url = bubble[b].url /\ x.kept = bubble[b].kept
    BY <1>4, <2>2 DEF Place
  <2> HIDE DEF x
  <2>7. /\ bubble' \in [Bubble -> Place] /\ bubble'[b] = x
        /\ \A a \in Bubble \ {b} : bubble'[a] = bubble[a]
    BY <1>4, <2>5, <2>6
  <2>8. \A d \in opening : d.n \in Nat /\ d.n <= made /\ d.n # w  BY <1>1, <2>3 DEF Numbered
  <2>9. Numbered'
    <3>1. opening' \subseteq [of : Message, n : Nat]  BY <1>1, <2>1, <2>4 DEF Numbered
    <3>2. IsFiniteSet(opening')  BY <1>1, <2>1, FS_AddElement DEF Numbered
    <3>3. \A n \in cache.live : n \in Nat /\ n <= made  BY <1>1, SoundShape DEF Numbered
    <3>4. \A n \in cache.live : n <= w /\ n # w  BY <2>3, <3>3
    <3>5. \A d \in opening' : d.n <= w /\ d.n \notin cache.live
      BY <1>1, <2>1, <2>2, <2>3, <2>4, <2>8, <3>4 DEF Numbered
    <3>6. \A d, e \in opening' : d.n = e.n => d = e  BY <1>1, <2>1, <2>4, <2>8 DEF Numbered
    <3> QED  BY <2>1, <2>2, <3>1, <3>2, <3>4, <3>5, <3>6 DEF Numbered
  <2>10. Waits'
    <3>1. \A a \in Bubble : bubble'[a].of = Null => bubble'[a] = NoBubble
      BY <1>1, <1>3, <2>6, <2>7 DEF Waits
    <3>2. ASSUME NEW a \in Bubble \ {b} PROVE bubble[a].waits # w
      <4>1. bubble[a].waits \in Nat \/ bubble[a].waits = Null  BY <1>4 DEF Place
      <4>2. bubble[a].waits # Null => bubble[a].waits <= made  BY <1>1 DEF Waits
      <4> QED  BY <1>3, <2>2, <2>3, <4>1, <4>2
    <3>3. ASSUME NEW a \in Bubble, bubble'[a].waits # Null PROVE bubble'[a].waits <= made'
      <4>1. CASE a = b  BY <2>1, <2>2, <2>6, <2>7, <4>1
      <4>2. CASE a # b
        <5>1. bubble[a].waits # Null /\ bubble'[a].waits = bubble[a].waits  BY <2>7, <3>3, <4>2
        <5>2. bubble[a].waits \in Nat /\ bubble[a].waits <= made  BY <1>1, <1>4, <5>1 DEF Waits, Place
        <5> QED  BY <2>1, <2>3, <5>1, <5>2
      <4> QED  BY <4>1, <4>2
    <3>4. ASSUME NEW a \in Bubble, NEW d \in opening', bubble'[a].waits = d.n
          PROVE  bubble'[a].of = d.of
      <4>1. CASE a = b  BY <2>1, <2>4, <2>6, <2>7, <2>8, <3>4, <4>1
      <4>2. CASE a # b
        <5>1. bubble'[a] = bubble[a] /\ d \in opening  BY <2>1, <2>4, <2>7, <3>2, <3>4, <4>2
        <5> QED  BY <1>1, <3>4, <5>1 DEF Waits
      <4> QED  BY <4>1, <4>2
    <3>5. NoBubble' = NoBubble  BY DEF NoBubble
    <3> QED  BY <2>7, <3>1, <3>3, <3>4, <3>5 DEF Waits
  <2>11. ASSUME NEW k \in Message \ exposed' PROVE Alone(k)'
    <3>1. IsFiniteSet(opening')  BY <2>9 DEF Numbered
    <3>2. k \notin exposed /\ Alone(k)  BY <1>1, <3>1, NotExposed
    <3>3. CASE k # m
      <4>1. \A a \in Bubble : bubble'[a].of = k => bubble'[a] = bubble[a]  BY <2>6, <2>7, <3>3
      <4>2. \A d \in opening' : d.of = k => d \in opening  BY <2>1, <2>4, <3>3
      <4> QED  BY <3>2, <4>1, <4>2, AloneStays
    <3>4. CASE k = m
      <4>1. /\ \A a, c \in Bubble : bubble'[a].of = m /\ bubble'[c].of = m => a = c
            /\ \A d, e \in opening' : d.of = m /\ e.of = m => d = e
        BY <3>1, <3>4, NotExposed
      <4>2. \A a \in Bubble : bubble'[a].of = m => a = b  BY <2>6, <2>7, <4>1
      <4>3. bubble[b].url = Null /\ bubble[b].kept = Null
        <5>1. CASE bubble[b] = NoBubble  BY <1>5, <5>1
        <5>2. CASE bubble[b].of = m
          <6>1. bubble[b].url = Null
            <7>1. bubble[b].url # Null => Holds(cache, m, bubble[b].url)  BY <3>2, <3>4, <5>2 DEF Alone
            <7> QED  BY <1>1, <1>7, <7>1, EntryOf
          <6> QED  BY <3>2, <3>4, <5>2, <6>1 DEF Alone
        <5> QED  BY <5>1, <5>2
      <4>4. \A a \in Bubble : bubble'[a].of = m => bubble'[a].url = Null /\ bubble'[a].kept = Null
        BY <2>6, <2>7, <4>2, <4>3
      <4>5. ~ Has(cache, m)'  BY <1>7 DEF Has
      <4> QED  BY <3>4, <4>1, <4>4, <4>5 DEF Alone
    <3> QED  BY <3>3, <3>4
  <2> QED  BY <1>2, <2>9, <2>10, <2>11 DEF PicInv
<1> QED  BY <1>6, <1>7

(* A decryption ends: of a message alone, in the one bubble that may still wait for it. *)
LEMMA OpenedStep ==
  ASSUME PicInv, NEW d \in opening, Opened(d)
  PROVE  PicInv'
<1>1. /\ Sound(cache) /\ Accounted(cache) /\ Numbered /\ Waits
      /\ \A k \in Message \ exposed : Alone(k)
  BY DEF PicInv, Sound
<1>2. Null \notin Nat /\ Null \notin Message  BY PicturesAssumption
<1>3. d.of \in Message /\ d.n \in Nat /\ d.n <= made /\ d.n \notin cache.live  BY <1>1 DEF Numbered
<1>4. /\ opening' = opening \ {d} /\ cache' = Put(cache, d.of, d.n)
      /\ made' = made /\ exposed' = exposed
      /\ bubble' = [b \in Bubble |-> IF bubble[b].waits = d.n
                                     THEN [bubble[b] EXCEPT !.waits = Null, !.url = d.n]
                                     ELSE bubble[b]]
  BY DEF Opened
<1>5. bubble \in [Bubble -> Place]  BY <1>1 DEF Waits
<1>6. /\ Sound(cache') /\ cache'.live \subseteq cache.live \cup {d.n}
      /\ \A k \in Message : Has(cache', k) => Has(cache, k) \/ k = d.of
      /\ Holds(cache', d.of, d.n)
      /\ \A k \in Message \ {d.of} : \A u : Holds(cache, k, u) => Holds(cache', k, u)
  BY <1>1, <1>3, <1>4, PutKeeps
<1>7. ASSUME NEW b \in Bubble
      PROVE  /\ bubble'[b] \in Place
             /\ bubble'[b].of = bubble[b].of /\ bubble'[b].kept = bubble[b].kept
             /\ bubble[b].waits = d.n => bubble'[b].waits = Null /\ bubble'[b].url = d.n
             /\ bubble[b].waits # d.n => bubble'[b] = bubble[b]
  BY <1>3, <1>4, <1>5 DEF Place
<1>8. Numbered'
  <2>1. opening' \subseteq opening /\ IsFiniteSet(opening')  BY <1>1, <1>4, FS_Subset DEF Numbered
  <2>2. \A e \in opening' : e.n # d.n  BY <1>1, <1>4 DEF Numbered
  <2> QED  BY <1>1, <1>3, <1>4, <1>6, <2>1, <2>2 DEF Numbered
<1>9. Waits'
  <2>1. bubble' \in [Bubble -> Place]  BY <1>4, <1>7
  <2>2. ASSUME NEW b \in Bubble, bubble'[b].of = Null PROVE bubble'[b] = NoBubble
    <3>1. bubble[b] = NoBubble  BY <1>1, <1>7, <2>2 DEF Waits
    <3>2. bubble[b].waits # d.n  BY <1>2, <1>3, <3>1 DEF NoBubble
    <3> QED  BY <1>7, <3>1, <3>2
  <2>3. \A b \in Bubble : bubble'[b].waits # Null => bubble'[b].waits <= made'
    BY <1>1, <1>4, <1>7 DEF Waits
  <2>4. ASSUME NEW b \in Bubble, NEW e \in opening', bubble'[b].waits = e.n PROVE bubble'[b].of = e.of
    <3>1. e \in opening /\ e.n # Null  BY <1>1, <1>2, <1>4 DEF Numbered
    <3>2. bubble[b].waits = e.n  BY <1>7, <2>4, <3>1
    <3> QED  BY <1>1, <1>7, <3>1, <3>2 DEF Waits
  <2>5. NoBubble' = NoBubble  BY DEF NoBubble
  <2> QED  BY <2>1, <2>2, <2>3, <2>4, <2>5 DEF Waits
<1>10. ASSUME NEW k \in Message \ exposed' PROVE Alone(k)'
  <2>1. Alone(k)  BY <1>1, <1>4
  <2>2. CASE k # d.of
    <3>1. ASSUME NEW b \in Bubble, bubble'[b].of = k PROVE bubble'[b] = bubble[b]
      BY <1>1, <1>7, <2>2, <3>1 DEF Waits
    <3> QED  BY <1>4, <1>6, <2>1, <2>2, <3>1, AloneStays
  <2>3. CASE k = d.of
    <3>1. \A a, b \in Bubble : bubble'[a].of = k /\ bubble'[b].of = k => a = b
      BY <1>7, <2>1 DEF Alone
    <3>2. \A e \in opening' : e.of # k  BY <1>4, <2>1, <2>3 DEF Alone
    <3>3. \A b \in Bubble : bubble[b].of = k => bubble[b].url = Null /\ bubble[b].kept = Null
      <4> SUFFICES ASSUME NEW b \in Bubble, bubble[b].of = k
                   PROVE  bubble[b].url = Null /\ bubble[b].kept = Null
        OBVIOUS
      <4>1. ~ Has(cache, k)  BY <2>1, <2>3 DEF Alone
      <4>2. bubble[b].url # Null => Holds(cache, k, bubble[b].url)  BY <2>1 DEF Alone
      <4>3. bubble[b].url = Null  BY <1>1, <4>1, <4>2, EntryOf
      <4> QED  BY <2>1, <4>3 DEF Alone
    <3>4. \A b \in Bubble :
            bubble'[b].of = k /\ bubble'[b].url # Null => Holds(cache', k, bubble'[b].url)
      BY <1>6, <1>7, <2>3, <3>3
    <3>5. \A b \in Bubble : bubble'[b].of = k => bubble'[b].kept = Null  BY <1>7, <3>3
    <3> QED  BY <3>1, <3>2, <3>4, <3>5 DEF Alone, Has, Holds
  <2> QED  BY <2>2, <2>3
<1>11. Sound(cache)'  BY <1>6 DEF Sound, Accounted, InOnePlace, Over, AllClaimed
<1> QED  BY <1>8, <1>9, <1>10, <1>11 DEF PicInv

LEMMA FailedStep ==
  ASSUME PicInv, NEW d \in opening, Failed(d)
  PROVE  PicInv'
<1>1. /\ Sound(cache) /\ Numbered /\ Waits /\ \A k \in Message \ exposed : Alone(k)
  BY DEF PicInv
<1>2. Null \notin Nat /\ Null \notin Message  BY PicturesAssumption
<1>3. d.n \in Nat  BY <1>1 DEF Numbered
<1>4. /\ opening' = opening \ {d} /\ cache' = cache /\ made' = made /\ exposed' = exposed
      /\ bubble' = [b \in Bubble |-> IF bubble[b].waits = d.n THEN [bubble[b] EXCEPT !.waits = Null]
                                     ELSE bubble[b]]
  BY DEF Failed
<1>5. bubble \in [Bubble -> Place]  BY <1>1 DEF Waits
<1>6. ASSUME NEW b \in Bubble
      PROVE  /\ bubble'[b] \in Place /\ bubble'[b].of = bubble[b].of
             /\ bubble'[b].url = bubble[b].url /\ bubble'[b].kept = bubble[b].kept
             /\ bubble[b].waits = d.n => bubble'[b].waits = Null
             /\ bubble[b].waits # d.n => bubble'[b] = bubble[b]
  BY <1>4, <1>5 DEF Place
<1>7. Numbered'
  <2>1. opening' \subseteq opening /\ IsFiniteSet(opening')  BY <1>1, <1>4, FS_Subset DEF Numbered
  <2> QED  BY <1>1, <1>4, <2>1 DEF Numbered
<1>8. Waits'
  <2>1. bubble' \in [Bubble -> Place]  BY <1>4, <1>6
  <2>2. ASSUME NEW b \in Bubble, bubble'[b].of = Null PROVE bubble'[b] = NoBubble
    <3>1. bubble[b] = NoBubble  BY <1>1, <1>6, <2>2 DEF Waits
    <3>2. bubble[b].waits # d.n  BY <1>2, <1>3, <3>1 DEF NoBubble
    <3> QED  BY <1>6, <3>1, <3>2
  <2>3. \A b \in Bubble : bubble'[b].waits # Null => bubble'[b].waits <= made'
    BY <1>1, <1>4, <1>6 DEF Waits
  <2>4. ASSUME NEW b \in Bubble, NEW e \in opening', bubble'[b].waits = e.n PROVE bubble'[b].of = e.of
    <3>1. e \in opening /\ e.n # Null  BY <1>1, <1>2, <1>4 DEF Numbered
    <3>2. bubble[b].waits = e.n  BY <1>6, <2>4, <3>1
    <3> QED  BY <1>1, <1>6, <3>1, <3>2 DEF Waits
  <2>5. NoBubble' = NoBubble  BY DEF NoBubble
  <2> QED  BY <2>1, <2>2, <2>3, <2>4, <2>5 DEF Waits
<1>9. ASSUME NEW k \in Message \ exposed' PROVE Alone(k)'
  <2>1. Alone(k)  BY <1>1, <1>4
  <2>2. \A a, b \in Bubble : bubble'[a].of = k /\ bubble'[b].of = k => a = b  BY <1>6, <2>1 DEF Alone
  <2>3. /\ \A e, f \in opening' : e.of = k /\ f.of = k => e = f
        /\ \A e \in opening' : e.of = k => ~ Has(cache, k)
    BY <1>4, <2>1 DEF Alone
  <2>4. /\ \A b \in Bubble :
             bubble'[b].of = k /\ bubble'[b].url # Null => Holds(cache, k, bubble'[b].url)
        /\ \A b \in Bubble :
             bubble'[b].of = k /\ bubble'[b].kept # Null => bubble'[b].kept = bubble'[b].url
    BY <1>6, <2>1 DEF Alone
  <2> QED  BY <1>4, <2>2, <2>3, <2>4 DEF Alone, Has, Holds
<1>10. Sound(cache)'  BY <1>1, <1>4
<1> QED  BY <1>7, <1>8, <1>9, <1>10 DEF PicInv

(* Steps that neither start a decryption nor end one. *)
LEMMA NumbersStay ==
  ASSUME Numbered, opening' = opening, made' = made, cache'.live \subseteq cache.live
  PROVE  Numbered'
  BY DEF Numbered

(* The claim for the URL drawn: a message alone never changes its URL while it is claimed. *)
LEMMA ClaimStep ==
  ASSUME PicInv, NEW b \in Bubble, Effect(b)
  PROVE  PicInv'
<1> DEFINE m == bubble[b].of
           before == IF bubble[b].kept = Null THEN cache ELSE Release(cache, m)
<1>1. /\ Sound(cache) /\ Numbered /\ Waits /\ \A k \in Message \ exposed : Alone(k)
  BY DEF PicInv
<1>2. Null \notin Nat /\ Null \notin Message  BY PicturesAssumption
<1>3. /\ bubble[b].url # bubble[b].kept /\ cache' = Retain(before, m)
      /\ bubble' = [bubble EXCEPT ![b].kept = bubble[b].url]
      /\ opening' = opening /\ made' = made /\ exposed' = exposed
  BY DEF Effect
<1>4. bubble \in [Bubble -> Place] /\ bubble[b] \in Place  BY <1>1 DEF Waits
<1>5. m \in Message
  <2>1. bubble[b] # NoBubble  BY <1>3 DEF NoBubble
  <2> QED  BY <1>1, <1>4, <2>1 DEF Waits, Place
<1>6. /\ Sound(before) /\ before.live \subseteq cache.live
      /\ \A k \in Message : Has(before, k) => Has(cache, k)
      /\ \A k \in Message \ {m} : \A u : Holds(cache, k, u) => Holds(before, k, u)
  BY <1>1, <1>5, ReleaseKeeps
<1>7. bubble[b].kept = Null => before = cache  OBVIOUS
<1> HIDE DEF m, before
<1>8. /\ Sound(cache') /\ cache'.live = before.live
      /\ \A k \in Message : Has(cache', k) <=> Has(before, k)
      /\ \A k \in Message : \A u : Holds(before, k, u) => Holds(cache', k, u)
  BY <1>3, <1>5, <1>6, RetainKeeps
<1>9. /\ bubble' \in [Bubble -> Place]
      /\ bubble'[b].of = m /\ bubble'[b].waits = bubble[b].waits
      /\ bubble'[b].url = bubble[b].url /\ bubble'[b].kept = bubble[b].url
      /\ \A a \in Bubble \ {b} : bubble'[a] = bubble[a]
  BY <1>3, <1>4 DEF Place, m
<1>10. Numbered'  BY <1>1, <1>3, <1>6, <1>8, NumbersStay
<1>11. Waits'
  <2>1. \A a \in Bubble : bubble'[a].of = Null => bubble'[a] = NoBubble
    BY <1>1, <1>2, <1>5, <1>9 DEF Waits
  <2>2. \A a \in Bubble : bubble'[a].waits = bubble[a].waits /\ bubble'[a].of = bubble[a].of
    BY <1>9 DEF m
  <2>3. NoBubble' = NoBubble  BY DEF NoBubble
  <2> QED  BY <1>1, <1>3, <1>9, <2>1, <2>2, <2>3 DEF Waits
<1>12. ASSUME NEW k \in Message \ exposed' PROVE Alone(k)'
  <2>1. Alone(k)  BY <1>1, <1>3
  <2>2. CASE k # m
    <3>1. \A a \in Bubble : bubble'[a].of = k => bubble'[a] = bubble[a]  BY <1>9, <2>2
    <3> QED  BY <1>3, <1>6, <1>8, <2>1, <2>2, <3>1, AloneStays
  <2>3. CASE k = m
    <3>1. before = cache  BY <1>3, <1>7, <2>1, <2>3 DEF Alone, m
    <3>2. \A a \in Bubble : bubble'[a].of = bubble[a].of /\ bubble'[a].url = bubble[a].url
      BY <1>9 DEF m
    <3>3. \A a, c \in Bubble : bubble'[a].of = k /\ bubble'[c].of = k => a = c
      BY <2>1, <3>2 DEF Alone
    <3>4. /\ \A d, e \in opening' : d.of = k /\ e.of = k => d = e
          /\ \A d \in opening' : d.of = k => ~ Has(cache', k)
      BY <1>3, <1>8, <2>1, <3>1 DEF Alone
    <3>5. \A a \in Bubble :
            bubble'[a].of = k /\ bubble'[a].url # Null => Holds(cache', k, bubble'[a].url)
      BY <1>8, <2>1, <3>1, <3>2 DEF Alone
    <3>6. \A a \in Bubble : bubble'[a].of = k => bubble'[a].kept = bubble'[a].url
      BY <1>9, <2>3, <3>3
    <3> QED  BY <3>3, <3>4, <3>5, <3>6 DEF Alone, Has, Holds
  <2> QED  BY <2>2, <2>3
<1>13. Sound(cache)'  BY <1>8 DEF Sound, Accounted, InOnePlace, Over, AllClaimed
<1> QED  BY <1>10, <1>11, <1>12, <1>13 DEF PicInv

LEMMA UnmountStep ==
  ASSUME PicInv, NEW b \in Bubble, Unmount(b)
  PROVE  PicInv'
<1> DEFINE m == bubble[b].of
<1>1. /\ Sound(cache) /\ Numbered /\ Waits /\ \A k \in Message \ exposed : Alone(k)
  BY DEF PicInv
<1>2. Null \notin Nat /\ Null \notin Message  BY PicturesAssumption
<1>3. /\ m # Null /\ cache' = IF bubble[b].kept = Null THEN cache ELSE Release(cache, m)
      /\ bubble' = [bubble EXCEPT ![b] = NoBubble]
      /\ opening' = opening /\ made' = made /\ exposed' = exposed
  BY DEF Unmount
<1>4. bubble \in [Bubble -> Place] /\ bubble[b] \in Place  BY <1>1 DEF Waits
<1>5. m \in Message  BY <1>3, <1>4 DEF Place
<1> HIDE DEF m
<1>6. /\ Sound(cache') /\ cache'.live \subseteq cache.live
      /\ \A k \in Message : Has(cache', k) => Has(cache, k)
      /\ \A k \in Message \ {m} : \A u : Holds(cache, k, u) => Holds(cache', k, u)
  <2>1. CASE bubble[b].kept = Null  BY <1>1, <1>3, <2>1
  <2>2. CASE bubble[b].kept # Null
    <3>1. cache' = Release(cache, m)  BY <1>3, <2>2
    <3> QED  BY <1>1, <1>5, <3>1, ReleaseKeeps
  <2> QED  BY <2>1, <2>2
<1>7. /\ NoBubble \in Place /\ NoBubble.of = Null /\ NoBubble.waits = Null
      /\ NoBubble.url = Null /\ NoBubble.kept = Null
  BY DEF NoBubble, Place
<1>8. /\ bubble' \in [Bubble -> Place] /\ bubble'[b] = NoBubble
      /\ \A a \in Bubble \ {b} : bubble'[a] = bubble[a]
  BY <1>3, <1>4, <1>7
<1>9. Numbered'  BY <1>1, <1>3, <1>6, NumbersStay
<1>10. Waits'
  <2>1. \A a \in Bubble : bubble'[a].of = Null => bubble'[a] = NoBubble  BY <1>1, <1>8 DEF Waits
  <2>2. \A a \in Bubble : bubble'[a].waits # Null => bubble'[a].waits <= made'
    BY <1>1, <1>3, <1>7, <1>8 DEF Waits
  <2>3. \A d \in opening : d.n # Null  BY <1>1, <1>2 DEF Numbered
  <2>4. \A a \in Bubble, d \in opening' : bubble'[a].waits = d.n => bubble'[a].of = d.of
    BY <1>1, <1>3, <1>7, <1>8, <2>3 DEF Waits
  <2>5. NoBubble' = NoBubble  BY DEF NoBubble
  <2> QED  BY <1>8, <2>1, <2>2, <2>4, <2>5 DEF Waits
<1>11. ASSUME NEW k \in Message \ exposed' PROVE Alone(k)'
  <2>1. Alone(k)  BY <1>1, <1>3
  <2>2. \A a \in Bubble : bubble'[a].of = k => bubble'[a] = bubble[a]  BY <1>2, <1>7, <1>8
  <2>3. CASE k # m  BY <1>3, <1>6, <2>1, <2>2, <2>3, AloneStays
  <2>4. CASE k = m
    <3>1. \A a \in Bubble : bubble'[a].of # k
      <4> SUFFICES ASSUME NEW a \in Bubble, bubble'[a].of = k PROVE FALSE  OBVIOUS
      <4>1. a # b  BY <1>2, <1>7, <1>8
      <4>2. bubble[a].of = k /\ bubble[b].of = k  BY <1>8, <2>4, <4>1 DEF m
      <4> QED  BY <2>1, <4>1, <4>2 DEF Alone
    <3>2. /\ \A d, e \in opening' : d.of = k /\ e.of = k => d = e
          /\ \A d \in opening' : d.of = k => ~ Has(cache', k)
      BY <1>3, <1>6, <2>1 DEF Alone
    <3> QED  BY <3>1, <3>2 DEF Alone, Has
  <2> QED  BY <2>3, <2>4
<1>12. Sound(cache)'  BY <1>6 DEF Sound, Accounted, InOnePlace, Over, AllClaimed
<1> QED  BY <1>9, <1>10, <1>11, <1>12 DEF PicInv

LEMMA EmptySound ==
  Sound(Empty) /\ Empty.live = {} /\ \A m \in Message : ~ Has(Empty, m)
<1>1. /\ Empty.entries = <<>> /\ Empty.total = 0 /\ Empty.refs = [m \in Message |-> 0]
      /\ Empty.adopted = {} /\ Empty.pending = [m \in Message |-> {}] /\ Empty.live = {}
  BY DEF Empty
<1>2. Empty \in Store
  <2>1. <<>> \in Seq(Entry)  BY EmptySeq
  <2> QED  BY <2>1 DEF Empty, Store
<1>3. DOMAIN Empty.entries = {} /\ Len(Empty.entries) = 0  BY <1>1
<1>4. BytesOf(Empty.entries)[Len(Empty.entries)] = 0
  <2>1. <<>> \in Seq(Entry)  BY EmptySeq
  <2> QED  BY <1>1, <1>3, <2>1, SumRuns
<1>5. InOnePlace(Empty)  BY <1>1, <1>3 DEF InOnePlace
<1>6. Outstanding(Empty.entries, Empty.pending) = {}
  <2>1. {Empty.entries[i].url : i \in DOMAIN Empty.entries} = {}  BY <1>3
  <2>2. UNION {Empty.pending[m] : m \in Message} = {}  BY <1>1
  <2> QED  BY <2>1, <2>2 DEF Outstanding
<1>7. AllClaimed(Empty)  BY <1>3 DEF AllClaimed
<1>8. \A m \in Message : ~ Has(Empty, m)  BY <1>3 DEF Has
<1> QED  BY <1>1, <1>2, <1>4, <1>5, <1>6, <1>7, <1>8 DEF Sound, Accounted

(* With nothing on the screen and nothing in the cache. *)
LEMMA NothingDrawn ==
  ASSUME NEW m \in Message, cache = Empty, bubble = [b \in Bubble |-> NoBubble],
         \A d, e \in opening : d.of = m /\ e.of = m => d = e
  PROVE  Alone(m)
<1>1. \A b \in Bubble : bubble[b].of # m  BY PicturesAssumption DEF NoBubble
<1>2. ~ Has(cache, m)  BY EmptySound
<1> QED  BY <1>1, <1>2 DEF Alone

LEMMA NothingWaits ==
  ASSUME bubble = [b \in Bubble |-> NoBubble], opening \subseteq [of : Message, n : Nat]
  PROVE  Waits
<1>1. NoBubble \in Place /\ NoBubble.waits = Null  BY DEF NoBubble, Place
<1>2. \A d \in opening : d.n # Null  BY PicturesAssumption
<1>3. bubble \in [Bubble -> Place] /\ \A b \in Bubble : bubble[b] = NoBubble  BY <1>1
<1> QED  BY <1>1, <1>2, <1>3 DEF Waits

LEMMA PicInitInv == PicInit => PicInv
<1> SUFFICES ASSUME PicInit PROVE PicInv  OBVIOUS
<1>1. /\ cache = Empty /\ bubble = [b \in Bubble |-> NoBubble] /\ opening = {} /\ made = 0
  BY DEF PicInit
<1>2. Sound(cache) /\ cache.live = {}  BY <1>1, EmptySound
<1>3. Numbered  BY <1>1, <1>2, FS_EmptySet DEF Numbered
<1>4. Waits  BY <1>1, NothingWaits
<1>5. \A m \in Message : Alone(m)  BY <1>1, NothingDrawn
<1> QED  BY <1>2, <1>3, <1>4, <1>5 DEF PicInv

LEMMA PicLogOutStep ==
  ASSUME PicInv, PicLogOut
  PROVE  PicInv'
<1>1. /\ cache' = Empty /\ bubble' = [b \in Bubble |-> NoBubble]
      /\ opening' = opening /\ made' = made /\ exposed' = exposed
  BY DEF PicLogOut
<1>2. /\ Numbered /\ \A k \in Message \ exposed : Alone(k)  BY DEF PicInv
<1>3. Sound(cache') /\ cache'.live = {}  BY <1>1, EmptySound
<1>4. Numbered'  BY <1>1, <1>2, <1>3, NumbersStay
<1>5. /\ NoBubble \in Place /\ NoBubble.of = Null /\ NoBubble.waits = Null /\ NoBubble' = NoBubble
  BY DEF NoBubble, Place
<1>6. bubble' \in [Bubble -> Place] /\ \A b \in Bubble : bubble'[b] = NoBubble  BY <1>1, <1>5
<1>7. Null \notin Nat /\ Null \notin Message  BY PicturesAssumption
<1>8. Waits'
  <2>1. \A d \in opening' : d.n # Null  BY <1>1, <1>2, <1>7 DEF Numbered
  <2> QED  BY <1>5, <1>6, <2>1 DEF Waits
<1>9. ASSUME NEW k \in Message \ exposed' PROVE Alone(k)'
  <2>1. \A b \in Bubble : bubble'[b].of # k  BY <1>5, <1>6, <1>7
  <2>2. ~ Has(cache', k)  BY <1>1, EmptySound
  <2>3. \A d, e \in opening' : d.of = k /\ e.of = k => d = e  BY <1>1, <1>2 DEF Alone
  <2> QED  BY <2>1, <2>2, <2>3 DEF Alone, Has
<1>10. Sound(cache)'  BY <1>3 DEF Sound, Accounted, InOnePlace, Over, AllClaimed
<1> QED  BY <1>4, <1>8, <1>9, <1>10 DEF PicInv

LEMMA PicNextInv == PicInv /\ [PicNext]_picVars => PicInv'
<1> SUFFICES ASSUME PicInv, [PicNext]_picVars PROVE PicInv'  OBVIOUS
<1>1. Null \notin Nat /\ Null \notin Message  BY PicturesAssumption
<1>2. Waits  BY DEF PicInv
<1>3. CASE \E b \in Bubble : \E m \in Message : Mount(b, m)
  <2>1. PICK b \in Bubble, m \in Message : Mount(b, m)  BY <1>3
  <2>2. bubble[b] = NoBubble  BY <1>2, <2>1 DEF Mount, Waits
  <2> QED  BY <2>1, <2>2, DecryptStep DEF Mount
<1>4. CASE \E b \in Bubble : Change(b)
  <2>1. PICK b \in Bubble : Change(b)  BY <1>4
  <2>2. bubble[b].of \in Message
    <3>1. bubble[b] \in Place /\ bubble[b].of # Null  BY <1>2, <2>1 DEF Change, Waits
    <3> QED  BY <3>1 DEF Place
  <2> QED  BY <2>1, <2>2, DecryptStep DEF Change
<1>5. CASE \E b \in Bubble : Effect(b) \/ Unmount(b)  BY <1>5, ClaimStep, UnmountStep
<1>6. CASE \E d \in opening : Opened(d) \/ Failed(d)  BY <1>6, OpenedStep, FailedStep
<1>7. CASE PicLogOut  BY <1>7, PicLogOutStep
<1>8. CASE UNCHANGED picVars
  BY <1>8 DEF picVars, PicInv, Sound, Accounted, InOnePlace, Over, AllClaimed, Numbered, Waits,
              NoBubble, Alone, Has, Holds
<1> QED  BY <1>3, <1>4, <1>5, <1>6, <1>7, <1>8 DEF PicNext

LEMMA PicSafe == PicInv => NothingIsForgotten /\ OverOnlyForTheClaimed /\ DrawnIsAlive
<1> SUFFICES ASSUME PicInv PROVE NothingIsForgotten /\ OverOnlyForTheClaimed /\ DrawnIsAlive
  OBVIOUS
<1>1. /\ Sound(cache) /\ Accounted(cache) /\ Waits /\ \A k \in Message \ exposed : Alone(k)
  BY DEF PicInv, Sound
<1>2. NothingIsForgotten  BY <1>1 DEF NothingIsForgotten, Accounted, Outstanding
<1>3. OverOnlyForTheClaimed  BY <1>1 DEF OverOnlyForTheClaimed, Sound, Accounted, AllClaimed
<1>4. DrawnIsAlive
  <2> SUFFICES ASSUME NEW b \in Bubble, bubble[b].url # Null, bubble[b].of \notin exposed
               PROVE  bubble[b].url \in cache.live
    BY DEF DrawnIsAlive
  <2>1. bubble[b] # NoBubble  BY DEF NoBubble
  <2>2. bubble[b].of \in Message  BY <1>1, <2>1 DEF Waits, Place
  <2>3. Holds(cache, bubble[b].of, bubble[b].url)  BY <1>1, <2>2 DEF Alone
  <2> QED  BY <1>1, <2>2, <2>3, EntryOf
<1> QED  BY <1>2, <1>3, <1>4

LEMMA PicSpecInv == PicSpec => []PicInv
  BY PicInitInv, PicNextInv, PTL DEF PicSpec

(* Every object URL the browser keeps is that of an entry or waits for a   *)
(* bubble to let go, and the browser still keeps each of those, for any    *)
(* messages, bubbles and ceilings, however the steps of put, retain,       *)
(* release and clear interleave.                                           *)
THEOREM NoFileIsForgotten == PicSpec => []NothingIsForgotten
  BY PicSpecInv, PicSafe, PTL

(* The byte count is the sum of what is kept, through every replacement,   *)
(* and the cache is over a ceiling only for entries that are claimed.      *)
THEOREM BudgetIsMet == PicSpec => []OverOnlyForTheClaimed
  BY PicSpecInv, PicSafe, PTL

(* A picture on the screen stays on it: what a bubble draws of a message   *)
(* that was never exposed is not revoked, by the budget or by another      *)
(* bubble, from the moment the bubble learns the URL.                      *)
THEOREM DrawnStaysAlive == PicSpec => []DrawnIsAlive
  BY PicSpecInv, PicSafe, PTL
=============================================================================
