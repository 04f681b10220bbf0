--------------------------- MODULE MediaFilesProofs ---------------------------
(***************************************************************************)
(* What media items keep of their files, and what an update that awaited a *)
(* disk may not undo: for any items, locations, requests and bounds.       *)
(***************************************************************************)
EXTENDS MediaFiles, SequenceTheorems, WellFoundedInduction, TLAPS

(***************************************************************************)
(* Numbers and lists                                                       *)
(***************************************************************************)
\* A nonempty set of numbers has a least.
LEMMA LeastNumber ==
  ASSUME NEW S \in SUBSET Nat, S # {}
  PROVE  \E x \in S : \A y \in S : x <= y
<1> DEFINE less == {p \in Nat \X Nat : p[1] < p[2]}
<1>1. IsWellFoundedOn(less, Nat)
  BY NatLessThanWellFounded DEF OpToRel
<1> HIDE DEF less
<1>2. PICK x \in S : \A y \in S : <<y, x>> \notin less
  BY <1>1, WFMin
<1>3. \A y \in S : y < x => <<y, x>> \in less
  BY DEF less
<1>4. \A y \in S : y \in Nat
  OBVIOUS
<1>5. \A y \in S : ~(y < x)
  BY <1>2, <1>3
<1>6. \A y \in S : x <= y
  BY <1>4, <1>5
<1> QED
  BY <1>6

\* Min and Max are what their names say where there is a least or a greatest number.
LEMMA MinIsLeast ==
  ASSUME NEW S \in SUBSET Nat, S # {}
  PROVE  Min(S) \in S /\ \A y \in S : Min(S) <= y
  BY LeastNumber DEF Min


\* RemoveFirst takes out the first of the places where a value stands.
LEMMA FirstIsRemoved ==
  ASSUME NEW s, Len(s) \in Nat, NEW e, \E i \in 1..Len(s) : s[i] = e
  PROVE  \E k \in 1..Len(s) : RemoveFirst(s, e) = RemoveAt(s, k) /\ s[k] = e
<1> DEFINE places == {i \in 1..Len(s) : s[i] = e}
<1>1. RemoveFirst(s, e) = RemoveAt(s, Min(places))
  <2>1. SelectInSeq(s, LAMBDA v : v = e) = Min(places)
    BY DEF SelectInSeq
  <2> QED
    BY <2>1 DEF RemoveFirst
<1>2. Min(places) \in places
  <2>1. places \in SUBSET Nat /\ places # {}
    OBVIOUS
  <2> HIDE DEF places
  <2> QED
    BY <2>1, MinIsLeast
<1> QED
  BY <1>1, <1>2

\* What is left when one place of a list is taken out of it.
LEMMA OneIsLeft ==
  ASSUME NEW U, NEW s \in Seq(U), NEW k \in 1..Len(s)
  PROVE  /\ RemoveAt(s, k) \in Seq(U) /\ Len(RemoveAt(s, k)) = Len(s) - 1
         /\ \A i \in 1..Len(RemoveAt(s, k)) :
              \E j \in 1..Len(s) \ {k} : RemoveAt(s, k)[i] = s[j]
<1> DEFINE a == SubSeq(s, 1, k - 1)
           b == SubSeq(s, k + 1, Len(s))
<1>1. /\ a \in Seq(U) /\ Len(a) = k - 1 /\ \A i \in 1..(k - 1) : a[i] = s[i]
      /\ b \in Seq(U) /\ Len(b) = Len(s) - k /\ \A i \in 1..(Len(s) - k) : b[i] = s[k + i]
  <2>1. \A i \in 1..Len(s) : s[i] \in U
    OBVIOUS
  <2> QED
    BY <2>1, SubSeqProperties
<1> HIDE DEF a, b
<1>2. /\ a \o b \in Seq(U) /\ Len(a \o b) = Len(s) - 1
      /\ \A i \in 1..Len(a \o b) :
           (a \o b)[i] = IF i <= k - 1 THEN s[i] ELSE s[i + 1]
  <2>1. /\ a \o b \in Seq(U) /\ Len(a \o b) = Len(a) + Len(b)
        /\ \A i \in 1..(Len(a) + Len(b)) :
             (a \o b)[i] = IF i <= Len(a) THEN a[i] ELSE b[i - Len(a)]
    BY <1>1, ConcatProperties
  <2>2. ASSUME NEW i \in 1..(Len(s) - 1), i <= k - 1 PROVE (a \o b)[i] = s[i]
    BY <1>1, <2>1, <2>2
  <2>3. ASSUME NEW i \in 1..(Len(s) - 1), ~(i <= k - 1) PROVE (a \o b)[i] = s[i + 1]
    <3>1. (a \o b)[i] = b[i - (k - 1)]
      BY <1>1, <2>1, <2>3
    <3>2. i - (k - 1) \in 1..(Len(s) - k) /\ k + (i - (k - 1)) = i + 1
      BY <2>3
    <3> QED
      BY <1>1, <3>1, <3>2
  <2>4. Len(a \o b) = Len(s) - 1
    BY <1>1, <2>1
  <2> QED
    BY <2>1, <2>2, <2>3, <2>4
<1>3. RemoveAt(s, k) = a \o b
  BY DEF RemoveAt, a, b
<1>4. ASSUME NEW i \in 1..Len(a \o b)
      PROVE  \E j \in 1..Len(s) \ {k} : (a \o b)[i] = s[j]
  <2>1. CASE i <= k - 1
    <3>1. i \in 1..Len(s) \ {k} /\ (a \o b)[i] = s[i]
      BY <1>2, <2>1
    <3> QED
      BY <3>1
  <2>2. CASE ~(i <= k - 1)
    <3>1. i + 1 \in 1..Len(s) \ {k} /\ (a \o b)[i] = s[i + 1]
      BY <1>2, <2>2
    <3> QED
      BY <3>1
  <2> QED
    BY <2>1, <2>2
<1> QED
  BY <1>2, <1>3, <1>4

\* Taking the first of a value out of a list: no other comes in, and if the value is
\* still there, the list had it twice.
LEMMA RemoveFirstKeeps ==
  ASSUME NEW U, NEW s \in Seq(U), NEW e
  PROVE  /\ RemoveFirst(s, e) \in Seq(U) /\ Len(RemoveFirst(s, e)) <= Len(s)
         /\ Range(RemoveFirst(s, e)) \subseteq Range(s)
         /\ e \in Range(RemoveFirst(s, e)) =>
              \E i, j \in DOMAIN s : i # j /\ s[i] = e /\ s[j] = e
<1>1. CASE \E i \in 1..Len(s) : s[i] = e
  <2>1. PICK k \in 1..Len(s) : RemoveFirst(s, e) = RemoveAt(s, k) /\ s[k] = e
    BY <1>1, FirstIsRemoved
  <2> DEFINE t == RemoveAt(s, k)
  <2>2. /\ t \in Seq(U) /\ Len(t) = Len(s) - 1
        /\ \A i \in 1..Len(t) : \E j \in 1..Len(s) \ {k} : t[i] = s[j]
    BY OneIsLeft
  <2> HIDE DEF t
  <2>3. DOMAIN t = 1..Len(t) /\ DOMAIN s = 1..Len(s)
    BY <2>2
  <2>4. \A x \in Range(t) : \E j \in DOMAIN s \ {k} : x = s[j]
    BY <2>2, <2>3 DEF Range
  <2>5. Range(t) \subseteq Range(s)
    BY <2>4 DEF Range
  <2>6. e \in Range(t) => \E i, j \in DOMAIN s : i # j /\ s[i] = e /\ s[j] = e
    BY <2>1, <2>3, <2>4
  <2>7. RemoveFirst(s, e) = t
    BY <2>1 DEF t
  <2> QED
    BY <2>2, <2>5, <2>6, <2>7
<1>2. CASE ~\E i \in 1..Len(s) : s[i] = e
  <2>1. RemoveFirst(s, e) = s
    BY <1>2 DEF RemoveFirst
  <2>2. e \notin Range(s)
    BY <1>2 DEF Range
  <2> QED
    BY <2>1, <2>2
<1> QED
  BY <1>1, <1>2

\* The frames that a row may have are the lists of up to MaxFrames paths.
LEMMA FramesAreLists ==
  ASSUME NEW s
  PROVE  s \in Frames <=> s \in Seq(Files \cup {Nowhere}) /\ Len(s) <= MaxFrames
<1>1. ASSUME s \in Frames PROVE s \in Seq(Files \cup {Nowhere}) /\ Len(s) <= MaxFrames
  <2>1. PICK n \in 0..MaxFrames : s \in [1..n -> Files \cup {Nowhere}]
    BY <1>1 DEF Frames
  <2> QED
    BY <2>1, MediaFilesAssumption
<1>2. ASSUME s \in Seq(Files \cup {Nowhere}), Len(s) <= MaxFrames PROVE s \in Frames
  <2>1. Len(s) \in 0..MaxFrames /\ s \in [1..Len(s) -> Files \cup {Nowhere}]
    BY <1>2, MediaFilesAssumption
  <2> QED
    BY <2>1 DEF Frames
<1> QED
  BY <1>1, <1>2

(***************************************************************************)
(* The inductive invariant                                                 *)
(***************************************************************************)
\* A row names only what clients were told of.
Known(row) == row.loc \in told \cup Keys /\ Range(row.frames) \subseteq told \cup {Nowhere}

\* What an update holds: of a row that its item was to get, the columns in set, and
\* the location among them only if it differs from where the item was.
Updating(m, row, set, from) ==
  [pc |-> m, sets |-> [c \in set |-> row[c]], from |-> from]

IsUpdate(held) ==
  \E m \in Items, row \in Row, set \in SUBSET {"loc", "frames"}, from \in told \cup Keys :
    /\ held = Updating(m, row, set, from)
    /\ Known(row) /\ ("loc" \in set => row.loc # from)

\* The file of an upload that has not ended is on disk and nobody was told of it.
IsUpload(held) == \E f \in files \ told : held = Upload(f)

Held(r) == req[r] = Idle \/ IsUpload(req[r]) \/ IsUpdate(req[r])

\* Two uploads write two files.
Apart(held, other) ==
  held.pc = "upload" /\ other.pc = "upload" => held.sets.loc # other.sets.loc

UploadsDiffer == \A r, s \in Requests : r # s => Apart(req[r], req[s])

RowsSound == \A m \in Exists : media[m] \in Row /\ Known(media[m])

RequestsSound ==
  /\ req = [r \in Requests |-> req[r]]
  /\ \A r \in Requests : Held(r)
  /\ UploadsDiffer

Sound ==
  /\ Exists \cup gone \subseteq Items /\ Exists \cap gone = {}
  /\ files \cup told \subseteq drawn /\ drawn \subseteq Files
  /\ refused \in Nat
  /\ RowsSound /\ RequestsSound

(***************************************************************************)
(* What the operators of the model return                                  *)
(***************************************************************************)
\* No two of the states a request may be in are alike.
LEMMA StatesDiffer ==
  /\ Idle.pc = "idle"
  /\ \A f : Upload(f).pc = "upload" /\ Upload(f).sets.loc = f
  /\ \A held : IsUpdate(held) => held.pc \in Items
  /\ \A held : IsUpload(held) => held.pc = "upload"
  /\ \A held, other : held.pc # "upload" => Apart(held, other)
<1>1. \A held : IsUpdate(held) => held.pc \in Items
  BY DEF IsUpdate, Updating
<1> QED
  BY <1>1 DEF Idle, Upload, IsUpload, Apart

\* What was known stays known while no answer is forgotten.
LEMMA KnownStays ==
  ASSUME told \subseteq told', NEW row, Known(row)
  PROVE  Known(row)'
  BY DEF Known

\* A row with some columns of another is a row, with its own location or the other's.
LEMMA FlushedIsRow ==
  ASSUME NEW now \in Row, NEW row \in Row, NEW set \in SUBSET {"loc", "frames"}
  PROVE  LET new == Flushed(now, [c \in set |-> row[c]])
         IN /\ new \in Row
            /\ new.loc = IF "loc" \in set THEN row.loc ELSE now.loc
            /\ new.frames = IF "frames" \in set THEN row.frames ELSE now.frames
  BY DEF Flushed, Row

\* saveMedia makes a row of what a client may name.
LEMMA UrlsMakeARow ==
  ASSUME told \subseteq Files, NEW urls \in Urls
  PROVE  LET row == [loc |-> urls[1], frames |-> Framed(urls)]
         IN row \in Row /\ Known(row)
<1>1. Framed(urls) \in Frames /\ urls[1] \in told \cup Keys
      /\ Range(Framed(urls)) \subseteq told
  <2>1. ASSUME NEW n \in 1..MaxFrames, urls \in [1..n -> told]
        PROVE  Framed(urls) \in Frames /\ urls[1] \in told /\ Range(Framed(urls)) \subseteq told
    <3>1. urls \in Seq(Files \cup {Nowhere}) /\ Len(urls) = n /\ urls[1] \in told
      BY <2>1, MediaFilesAssumption
    <3>2. <<>> \in Seq(Files \cup {Nowhere}) /\ Len(<<>>) <= MaxFrames
      BY MediaFilesAssumption
    <3>3. urls \in Frames /\ <<>> \in Frames
      <4>1. Len(urls) <= MaxFrames
        BY <3>1, MediaFilesAssumption
      <4> QED
        BY <3>1, <3>2, <4>1, FramesAreLists
    <3>4. Range(urls) \subseteq told /\ Range(<<>>) = {}
      BY <2>1 DEF Range
    <3> QED
      BY <3>1, <3>3, <3>4 DEF Framed
  <2>2. ASSUME NEW k \in Keys, urls = <<k>>
        PROVE  Framed(urls) \in Frames /\ urls[1] \in Keys /\ Range(Framed(urls)) \subseteq told
    <3>1. Framed(urls) = <<>>
      BY <2>2 DEF Framed
    <3>2. <<>> \in Seq(Files \cup {Nowhere}) /\ Len(<<>>) <= MaxFrames /\ Range(<<>>) = {}
      BY MediaFilesAssumption DEF Range
    <3> QED
      BY <2>2, <3>1, <3>2, FramesAreLists
  <2>3. (\E n \in 1..MaxFrames : urls \in [1..n -> told]) \/ (\E k \in Keys : urls = <<k>>)
    BY DEF Urls
  <2> QED
    BY <2>1, <2>2, <2>3
<1> QED
  BY <1>1 DEF Row, Known

\* updateMedia makes a row of an item's frames and the frames it uploads.
LEMMA UploadsMakeARow ==
  ASSUME told \subseteq Files, NEW loc \in told \cup Keys, NEW now \in Row, Known(now),
         NEW uploads \in 0..1,
         Len(now.frames \o [i \in 1..uploads |-> Nowhere]) <= MaxFrames
  PROVE  LET row == [loc |-> loc, frames |-> now.frames \o [i \in 1..uploads |-> Nowhere]]
         IN row \in Row /\ Known(row)
<1> DEFINE more == [i \in 1..uploads |-> Nowhere]
           all == now.frames \o more
<1>1. now.frames \in Seq(Files \cup {Nowhere})
  BY FramesAreLists DEF Row
<1>2. more \in Seq(Files \cup {Nowhere}) /\ Len(more) = uploads
      /\ \A i \in 1..uploads : more[i] = Nowhere
  OBVIOUS
<1> HIDE DEF more
<1>3. /\ all \in Seq(Files \cup {Nowhere}) /\ Len(all) = Len(now.frames) + Len(more)
      /\ \A i \in 1..(Len(now.frames) + Len(more)) :
           all[i] = IF i <= Len(now.frames) THEN now.frames[i] ELSE more[i - Len(now.frames)]
  BY <1>1, <1>2, ConcatProperties
<1> HIDE DEF all
<1>4. ASSUME NEW i \in 1..Len(all) PROVE all[i] \in Range(now.frames) \cup {Nowhere}
  <2>1. CASE i <= Len(now.frames)
    BY <1>1, <1>3, <2>1 DEF Range
  <2>2. CASE ~(i <= Len(now.frames))
    <3>1. i - Len(now.frames) \in 1..uploads
      BY <1>1, <1>2, <1>3, <2>2
    <3> QED
      BY <1>1, <1>2, <1>3, <2>2, <3>1
  <2> QED
    BY <2>1, <2>2
<1>5. Range(all) \subseteq told \cup {Nowhere}
  <2>1. Range(all) = {all[i] : i \in 1..Len(all)}
    BY <1>3 DEF Range
  <2> QED
    BY <1>4, <2>1 DEF Known
<1>6. all \in Frames
  BY <1>3, FramesAreLists DEF all, more
<1> QED
  BY <1>5, <1>6 DEF Row, Known, all, more

(***************************************************************************)
(* The invariant                                                           *)
(***************************************************************************)
LEMMA SoundAtFirst == Init => Sound
<1> SUFFICES ASSUME Init PROVE Sound
  OBVIOUS
<1>1. \A r \in Requests : req[r] = Idle
  BY DEF Init
<1>2. RequestsSound
  BY <1>1, StatesDiffer DEF Init, RequestsSound, Held, UploadsDiffer
<1>3. RowsSound /\ Exists = {}
  BY DEF Init, RowsSound, Exists
<1> QED
  BY <1>2, <1>3 DEF Init, Sound

\* What a request holds stays sound when no answer is forgotten and the file of an
\* upload is neither unlinked nor told.
LEMMA HeldStays ==
  ASSUME NEW r \in Requests, Held(r), req'[r] = req[r], told \subseteq told',
         \A f \in files \ told : req[r] = Upload(f) => f \in files' \ told'
  PROVE  Held(r)'
<1>1. CASE req[r] = Idle
  BY <1>1 DEF Held
<1>2. CASE IsUpload(req[r])
  BY <1>2 DEF Held, IsUpload
<1>3. CASE IsUpdate(req[r])
  <2>1. PICK m \in Items, row \in Row, set \in SUBSET {"loc", "frames"}, from \in told \cup Keys :
          /\ req[r] = Updating(m, row, set, from)
          /\ Known(row) /\ ("loc" \in set => row.loc # from)
    BY <1>3 DEF IsUpdate
  <2>2. Known(row)'
    BY <2>1, KnownStays
  <2>3. IsUpdate(req[r])'
    BY <2>1, <2>2 DEF IsUpdate
  <2> QED
    BY <2>3 DEF Held
<1> QED
  BY <1>1, <1>2, <1>3 DEF Held

\* The requests stay sound while none of them moves.
LEMMA RequestsStay ==
  ASSUME RequestsSound, req' = req, told \subseteq told',
         \A r \in Requests : \A f \in files \ told : req[r] = Upload(f) => f \in files' \ told'
  PROVE  RequestsSound'
<1>1. \A r \in Requests : Held(r)'
  BY HeldStays DEF RequestsSound
<1> QED
  BY <1>1 DEF RequestsSound, UploadsDiffer

\* They stay sound when one moves to a sound state, with a file of its own if it uploads.
LEMMA OneMoves ==
  ASSUME RequestsSound, NEW r \in Requests, NEW held,
         req' = [req EXCEPT ![r] = held], told \subseteq told',
         held = Idle \/ IsUpload(held)' \/ IsUpdate(held)',
         \A s \in Requests \ {r} :
           /\ \A f \in files \ told : req[s] = Upload(f) => f \in files' \ told'
           /\ Apart(held, req[s])
  PROVE  RequestsSound'
<1>1. /\ req' = [s \in Requests |-> req'[s]]
      /\ req'[r] = held /\ \A s \in Requests \ {r} : req'[s] = req[s]
  BY DEF RequestsSound
<1>2. Held(r)'
  BY <1>1 DEF Held
<1>3. \A s \in Requests \ {r} : Held(s)'
  BY <1>1, HeldStays DEF RequestsSound
<1>4. UploadsDiffer'
  <2>1. \A s, t \in Requests \ {r} : s # t => Apart(req'[s], req'[t])
    BY <1>1 DEF RequestsSound, UploadsDiffer
  <2>2. \A s \in Requests \ {r} : Apart(req'[r], req'[s])
    BY <1>1
  <2>3. \A s \in Requests \ {r} : Apart(req'[s], req'[r])
    BY <2>2 DEF Apart
  <2> QED
    BY <2>1, <2>2, <2>3 DEF UploadsDiffer
<1> QED
  BY <1>1, <1>2, <1>3, <1>4 DEF RequestsSound

\* Rows stay sound when one of them is written, and when they all stay.
LEMMA RowWritten ==
  ASSUME RowsSound, told \subseteq told', NEW m, NEW row \in Row, Known(row)',
         media' = Put(m, row)
  PROVE  /\ RowsSound' /\ Exists' = Exists \cup {m}
         /\ media'[m] = row /\ \A n \in Exists \ {m} : media'[n] = media[n]
<1>1. /\ Exists' = Exists \cup {m} /\ media'[m] = row
      /\ \A n \in Exists \ {m} : media'[n] = media[n]
  BY DEF Put, Exists
<1>2. ASSUME NEW n \in Exists' PROVE media'[n] \in Row /\ Known(media[n])'
  <2>1. CASE n = m
    BY <1>1, <2>1
  <2>2. CASE n # m
    <3>1. media'[n] = media[n] /\ media[n] \in Row /\ Known(media[n])
      BY <1>1, <2>2 DEF RowsSound
    <3> QED
      BY <3>1 DEF Known
  <2> QED
    BY <2>1, <2>2
<1> QED
  BY <1>1, <1>2 DEF RowsSound

LEMMA RowsStay ==
  ASSUME RowsSound, told \subseteq told', media' = media
  PROVE  RowsSound' /\ Exists' = Exists
  BY DEF RowsSound, Known, Exists

\* An upload in a request is of a file on disk that no row names.
LEMMA UploadIsUntold ==
  ASSUME Sound, NEW r \in Requests, req[r].pc = "upload"
  PROVE  \E f \in files \ told : req[r] = Upload(f)
<1>1. Held(r) /\ "upload" \notin Items
  BY MediaFilesAssumption DEF Sound, RequestsSound
<1> QED
  BY <1>1, StatesDiffer DEF Held, IsUpload

\* An update in a request is one.
LEMMA UpdateIsOne ==
  ASSUME Sound, NEW r \in Requests, req[r].pc \in Items
  PROVE  IsUpdate(req[r])
<1>1. Held(r) /\ "upload" \notin Items /\ "idle" \notin Items
  BY MediaFilesAssumption DEF Sound, RequestsSound
<1> QED
  BY <1>1, StatesDiffer DEF Held

LEMMA UploadFileKeeps ==
  ASSUME Sound, NEW f \in Files, UploadFile(f)
  PROVE  Sound'
<1>1. \A r \in Requests : \A g \in files \ told : req[r] = Upload(g) => g \in files' \ told'
  BY DEF Sound, UploadFile, Unused, Written
<1>2. RequestsSound'
  BY <1>1, RequestsStay DEF Sound, UploadFile
<1>3. RowsSound' /\ Exists' = Exists
  BY RowsStay DEF Sound, UploadFile
<1> QED
  BY <1>2, <1>3 DEF Sound, UploadFile, Unused, Written

LEMMA UploadBeginKeeps ==
  ASSUME Sound, NEW r \in Requests, NEW f \in Files, UploadBegin(r, f)
  PROVE  Sound'
<1>1. f \in files' \ told' /\ f \notin files \ told
  BY DEF Sound, UploadBegin, Unused, Written
<1>2. IsUpload(Upload(f))'
  BY <1>1 DEF IsUpload, Upload
<1>3. ASSUME NEW s \in Requests \ {r}
      PROVE  /\ \A g \in files \ told : req[s] = Upload(g) => g \in files' \ told'
             /\ req[s].pc = "upload" => f # req[s].sets.loc
  <2>1. \A g \in files \ told : g \in files' \ told'
    BY DEF UploadBegin, Written
  <2>2. req[s].pc = "upload" => f # req[s].sets.loc
    BY <1>1, UploadIsUntold, StatesDiffer
  <2> QED
    BY <2>1, <2>2
<1>4. RequestsSound'
  <2>1. PICK held : held = Upload(f)
    OBVIOUS
  <2>2. req' = [req EXCEPT ![r] = held] /\ told' = told /\ RequestsSound
    BY <2>1 DEF Sound, UploadBegin
  <2>3. IsUpload(held)' /\ held.sets.loc = f
    BY <1>2, <2>1, StatesDiffer DEF IsUpload
  <2>4. \A s \in Requests \ {r} :
          /\ \A g \in files \ told : req[s] = Upload(g) => g \in files' \ told'
          /\ Apart(held, req[s])
    BY <1>3, <2>3 DEF Apart
  <2> QED
    BY <2>2, <2>3, <2>4, OneMoves
<1>5. RowsSound' /\ Exists' = Exists
  BY RowsStay DEF Sound, UploadBegin
<1> QED
  BY <1>4, <1>5 DEF Sound, UploadBegin, Unused, Written

LEMMA UploadEndKeeps ==
  ASSUME Sound, NEW r \in Requests, NEW m \in Items, UploadEnd(r, m)
  PROVE  Sound'
<1>1. PICK f \in files \ told : req[r] = Upload(f)
  BY UploadIsUntold DEF UploadEnd
<1>2. req[r].sets = [loc |-> f, frames |-> <<>>] /\ told' = told \cup {f}
  BY <1>1 DEF Upload, UploadEnd
<1>3. [loc |-> f, frames |-> <<>>] \in Row
  <2>1. <<>> \in Seq(Files \cup {Nowhere}) /\ Len(<<>>) <= MaxFrames
    BY MediaFilesAssumption
  <2> QED
    BY <2>1, FramesAreLists DEF Row, Sound
<1>4. Known([loc |-> f, frames |-> <<>>])'
  BY <1>2 DEF Known, Range
<1>5. RowsSound' /\ Exists' = Exists \cup {m}
  BY <1>2, <1>3, <1>4, RowWritten DEF Sound, UploadEnd
<1>6. ASSUME NEW s \in Requests \ {r}, NEW g \in files \ told, req[s] = Upload(g)
      PROVE  g \in files' \ told'
  <2>1. g # f
    BY <1>1, <1>6, StatesDiffer DEF Sound, RequestsSound, UploadsDiffer, Apart
  <2> QED
    BY <1>2, <2>1 DEF UploadEnd
<1>7. RequestsSound'
  <2>1. /\ RequestsSound /\ told \subseteq told' /\ req' = [req EXCEPT ![r] = Idle]
        /\ \A s \in Requests \ {r} : Apart(Idle, req[s])
    BY <1>2, StatesDiffer DEF Sound, UploadEnd
  <2> QED
    BY <1>6, <2>1, OneMoves
<1> QED
  BY <1>2, <1>5, <1>7 DEF Sound, UploadEnd

LEMMA RequestEndsKeeps ==
  ASSUME Sound, NEW r \in Requests, RequestEnds(r)
  PROVE  Sound'
<1>1. RequestsSound'
  BY OneMoves, StatesDiffer DEF Sound, RequestEnds
<1>2. RowsSound' /\ Exists' = Exists
  BY RowsStay DEF Sound, RequestEnds
<1> QED
  BY <1>1, <1>2 DEF Sound, RequestEnds

LEMMA SaveMediaKeeps ==
  ASSUME Sound, NEW m \in Items, NEW urls \in Urls, SaveMedia(m, urls)
  PROVE  Sound'
<1> DEFINE row == [loc |-> urls[1], frames |-> Framed(urls)]
<1>1. row \in Row /\ Known(row) /\ told' = told
  BY UrlsMakeARow DEF Sound, SaveMedia
<1>2. Known(row)'
  BY <1>1 DEF Known
<1>3. media' = Put(m, row)
  BY DEF SaveMedia
<1> HIDE DEF row
<1>4. RowsSound' /\ Exists' = Exists \cup {m}
  BY <1>1, <1>2, <1>3, RowWritten DEF Sound
<1>5. RequestsSound'
  BY RequestsStay DEF Sound, SaveMedia
<1> QED
  BY <1>4, <1>5 DEF Sound, SaveMedia

LEMMA UpdateBeginKeeps ==
  ASSUME Sound, NEW r \in Requests, NEW m \in Exists, NEW loc \in told \cup Keys,
         NEW uploads \in 0..1, NEW replaces \in BOOLEAN, NEW busted \in BOOLEAN,
         UpdateBegin(r, m, loc, media[m].frames, replaces, uploads, busted)
  PROVE  Sound'
<1> DEFINE row == [loc |-> loc, frames |-> media[m].frames \o [i \in 1..uploads |-> Nowhere]]
           waits == replaces \/ uploads > 0
<1>1. media[m] \in Row /\ Known(media[m]) /\ told \subseteq Files /\ m \in Items
  BY DEF Sound, RowsSound
<1>2. PICK now : now = media[m]
  OBVIOUS
<1>3. row \in Row /\ Known(row)
  <2>1. Len(now.frames \o [i \in 1..uploads |-> Nowhere]) <= MaxFrames
    BY <1>2 DEF UpdateBegin
  <2>2. LET new == [loc |-> loc, frames |-> now.frames \o [i \in 1..uploads |-> Nowhere]]
        IN new \in Row /\ Known(new)
    BY <1>1, <1>2, <2>1, UploadsMakeARow
  <2> QED
    BY <1>2, <2>2
<1>4. /\ told' = told /\ drawn' = drawn /\ gone' = gone /\ refused' = refused
      /\ files \subseteq files' /\ files' \subseteq files \cup (told \cap Files)
      /\ \/ req' = [req EXCEPT ![r] = Update(m, row)] /\ media' = media
         \/ req' = req /\ media' = Put(m, row)
  BY MediaFilesAssumption DEF UpdateBegin, Sound
<1> HIDE DEF row, waits
<1>5. PICK new \in Row : new = row /\ Known(new)
  BY <1>3
<1>6. CASE req' = [req EXCEPT ![r] = Update(m, new)] /\ media' = media
  <2>1. Update(m, new) = Updating(m, new, Changed(m, new), now.loc)
    BY <1>2 DEF Update, Updating
  <2>2. Changed(m, new) \in SUBSET {"loc", "frames"} /\ now.loc \in told \cup Keys
        /\ ("loc" \in Changed(m, new) => new.loc # now.loc)
    BY <1>1, <1>2 DEF Changed, Known
  <2>3. PICK set \in SUBSET {"loc", "frames"}, from \in told \cup Keys :
          /\ Update(m, new) = Updating(m, new, set, from)
          /\ ("loc" \in set => new.loc # from)
    BY <2>1, <2>2
  <2>4. PICK held : held = Update(m, new)
    OBVIOUS
  <2>5. IsUpdate(held)'
    BY <1>1, <1>4, <1>5, <2>3, <2>4 DEF IsUpdate, Known
  <2>6. held.pc # "upload"
    BY <1>1, <2>3, <2>4, MediaFilesAssumption DEF Updating
  <2>7. RequestsSound'
    BY <1>4, <1>6, <2>4, <2>5, <2>6, OneMoves, StatesDiffer DEF Sound
  <2>8. RowsSound' /\ Exists' = Exists
    BY <1>4, <1>6, RowsStay DEF Sound
  <2> QED
    BY <1>4, <2>7, <2>8 DEF Sound
<1>7. CASE req' = req /\ media' = Put(m, new)
  <2>1. RequestsSound'
    BY <1>4, <1>7, RequestsStay DEF Sound
  <2>2. Known(new)'
    BY <1>4, <1>5 DEF Known
  <2>3. RowsSound' /\ Exists' = Exists \cup {m}
    BY <1>4, <1>5, <1>7, <2>2, RowWritten DEF Sound
  <2> QED
    BY <1>4, <2>1, <2>3 DEF Sound
<1> QED
  BY <1>4, <1>5, <1>6, <1>7

\* What an ending update makes of its item's row: the location is the row's own, or one
\* that differs from where the item was when the update began.
LEMMA UpdateWrites ==
  ASSUME Sound, NEW r \in Requests, UpdateEnd(r)
  PROVE  /\ req[r].pc \in Exists
         /\ \E row \in Row :
              /\ Known(row) /\ media' = Put(req[r].pc, row)
              /\ row.loc # media[req[r].pc].loc => row.loc # req[r].from
<1>1. req[r].pc \in Exists /\ req[r].pc \in Items
  BY DEF UpdateEnd, Sound
<1>2. PICK m \in Items, new \in Row, set \in SUBSET {"loc", "frames"}, from \in told \cup Keys :
        /\ req[r] = Updating(m, new, set, from)
        /\ Known(new) /\ ("loc" \in set => new.loc # from)
  BY <1>1, UpdateIsOne DEF IsUpdate
<1>3. req[r].pc = m /\ req[r].sets = [c \in set |-> new[c]] /\ req[r].from = from
  BY <1>2 DEF Updating
<1>4. PICK now \in Row : now = media[m] /\ Known(now)
  BY <1>1, <1>3 DEF Sound, RowsSound
<1>5. PICK row : row = Flushed(now, [c \in set |-> new[c]])
  OBVIOUS
<1>6. /\ row \in Row
      /\ row.loc = IF "loc" \in set THEN new.loc ELSE now.loc
      /\ row.frames = IF "frames" \in set THEN new.frames ELSE now.frames
  BY <1>5, FlushedIsRow
<1>7. media' = Put(m, row)
  BY <1>3, <1>4, <1>5 DEF UpdateEnd
<1>8. Known(row)
  BY <1>2, <1>4, <1>6 DEF Known
<1> QED
  BY <1>1, <1>2, <1>3, <1>4, <1>6, <1>7, <1>8

LEMMA UpdateEndKeeps ==
  ASSUME Sound, NEW r \in Requests, UpdateEnd(r)
  PROVE  Sound'
<1>1. PICK row \in Row : Known(row) /\ media' = Put(req[r].pc, row)
  BY UpdateWrites
<1>2. RowsSound' /\ Exists' = Exists \cup {req[r].pc} /\ req[r].pc \in Exists
  <2>1. Known(row)'
    BY <1>1 DEF Known, UpdateEnd
  <2>2. PICK m : m = req[r].pc
    OBVIOUS
  <2> QED
    BY <1>1, <2>1, <2>2, RowWritten, UpdateWrites DEF Sound, UpdateEnd
<1>3. RequestsSound'
  BY OneMoves, StatesDiffer DEF Sound, UpdateEnd
<1> QED
  BY <1>2, <1>3 DEF Sound, UpdateEnd

\* The rows that a deletion leaves have their locations, and of their frames all but the
\* first that is the file of the deleted item.
LEMMA LeftRows ==
  ASSUME Sound, NEW m \in Exists, NEW n \in Exists \ {m}
  PROVE  /\ Left(m)[n] \in Row /\ Known(Left(m)[n]) /\ Left(m)[n].loc = media[n].loc
         /\ media[m].loc \in Range(Left(m)[n].frames) /\ media[m].loc \notin Escaped =>
              \E i, j \in DOMAIN media[n].frames :
                i # j /\ media[n].frames[i] = media[m].loc /\ media[n].frames[j] = media[m].loc
<1>0. PICK f : f = media[m].loc
  OBVIOUS
<1>1. PICK row \in Row : row = media[n] /\ Known(row)
  BY DEF Sound, RowsSound
<1>2. PICK rest : rest = IF f \in Escaped THEN row.frames ELSE RemoveFirst(row.frames, f)
  OBVIOUS
<1>3. row.frames \in Seq(Files \cup {Nowhere}) /\ Len(row.frames) <= MaxFrames
  BY FramesAreLists DEF Row
<1>4. /\ rest \in Seq(Files \cup {Nowhere}) /\ Len(rest) <= Len(row.frames)
      /\ Range(rest) \subseteq Range(row.frames)
      /\ f \in Range(rest) /\ f \notin Escaped =>
           \E i, j \in DOMAIN row.frames : i # j /\ row.frames[i] = f /\ row.frames[j] = f
  <2>1. CASE f \in Escaped
    BY <1>2, <1>3, <2>1
  <2>2. CASE f \notin Escaped
    BY <1>2, <1>3, <2>2, RemoveFirstKeeps
  <2> QED
    BY <2>1, <2>2
<1>5. rest \in Frames
  <2>1. Len(rest) <= MaxFrames
    BY <1>3, <1>4, MediaFilesAssumption
  <2> QED
    BY <1>4, <2>1, FramesAreLists
<1>6. Left(m)[n] = [row EXCEPT !.frames = rest]
  BY <1>0, <1>1, <1>2 DEF Left
<1>7. /\ Left(m)[n] \in Row /\ Left(m)[n].loc = row.loc /\ Left(m)[n].frames = rest
  BY <1>5, <1>6 DEF Row
<1>8. Known(Left(m)[n])
  BY <1>1, <1>4, <1>7 DEF Known
<1> QED
  BY <1>0, <1>1, <1>4, <1>7, <1>8

LEMMA DeleteMediaKeeps ==
  ASSUME Sound, NEW m \in Exists, DeleteMedia(m)
  PROVE  Sound'
<1>1. told' = told /\ drawn' = drawn /\ req' = req /\ files' = files \ Unlinked(m)
  BY DEF DeleteMedia
<1>2. Unlinked(m) \subseteq told \cup Keys \cup {Nowhere}
  BY DEF Sound, RowsSound, Known, Unlinked
<1>3. files \ told \subseteq files' \ told'
  BY <1>1, <1>2, MediaFilesAssumption DEF Sound
<1>4. RequestsSound'
  BY <1>1, <1>3, RequestsStay DEF Sound
<1>5. CASE media' = Left(m) /\ gone' = gone \cup {m} /\ UNCHANGED refused
  <2>1. Exists' = Exists \ {m}
    BY <1>5 DEF Exists, Left
  <2>2. ASSUME NEW n \in Exists' PROVE media'[n] \in Row /\ Known(media[n])'
    <3>1. Left(m)[n] \in Row /\ Known(Left(m)[n])
      BY <2>1, LeftRows
    <3> QED
      BY <1>1, <1>5, <3>1 DEF Known
  <2> QED
    BY <1>1, <1>4, <1>5, <2>1, <2>2 DEF Sound, RowsSound
<1>6. CASE refused < MaxRefused /\ refused' = refused + 1 /\ UNCHANGED <<media, gone>>
  <2>1. RowsSound' /\ Exists' = Exists
    BY <1>1, <1>6, RowsStay DEF Sound
  <2> QED
    BY <1>1, <1>4, <1>6, <2>1 DEF Sound
<1> QED
  BY <1>5, <1>6 DEF DeleteMedia

LEMMA SoundStays ==
  ASSUME Sound, [Next]_vars
  PROVE  Sound'
<1>1. ASSUME NEW f \in Files, UploadFile(f) PROVE Sound'
  BY <1>1, UploadFileKeeps
<1>2. ASSUME NEW f \in Files, NEW r \in Requests, UploadBegin(r, f) PROVE Sound'
  BY <1>2, UploadBeginKeeps
<1>3. ASSUME NEW r \in Requests, RequestEnds(r) PROVE Sound'
  BY <1>3, RequestEndsKeeps
<1>4. ASSUME NEW r \in Requests, UpdateEnd(r) PROVE Sound'
  BY <1>4, UpdateEndKeeps
<1>5. ASSUME NEW r \in Requests, NEW m \in Items, UploadEnd(r, m) PROVE Sound'
  BY <1>5, UploadEndKeeps
<1>6. ASSUME NEW m \in Items, NEW urls \in Urls, SaveMedia(m, urls) PROVE Sound'
  BY <1>6, SaveMediaKeeps
<1>7. ASSUME NEW r \in Requests, NEW m \in Exists, NEW loc \in told \cup Keys,
             NEW uploads \in 0..1, NEW replaces \in BOOLEAN, NEW busted \in BOOLEAN,
             UpdateBegin(r, m, loc, media[m].frames, replaces, uploads, busted)
      PROVE  Sound'
  BY <1>7, UpdateBeginKeeps
<1>8. ASSUME NEW m \in Exists, DeleteMedia(m) PROVE Sound'
  BY <1>8, DeleteMediaKeeps
<1>9. CASE UNCHANGED vars
  <2>1. RowsSound' /\ Exists' = Exists
    BY <1>9, RowsStay DEF Sound, vars
  <2>2. RequestsSound'
    BY <1>9, RequestsStay DEF Sound, vars
  <2> QED
    BY <1>9, <2>1, <2>2 DEF Sound, vars
<1> QED
  BY <1>1, <1>2, <1>3, <1>4, <1>5, <1>6, <1>7, <1>8, <1>9 DEF Next

LEMMA AlwaysSound == Spec => []Sound
<1>1. Sound /\ [Next]_vars => Sound'
  BY SoundStays
<1> QED
  BY <1>1, SoundAtFirst, PTL DEF Spec

\* What requests hold has the type that TypeOK gives it.
LEMMA SoundIsTyped == Sound => TypeOK
<1> SUFFICES ASSUME Sound PROVE TypeOK
  OBVIOUS
<1> DEFINE held(r) == /\ req[r].pc \in {"idle", "upload"} \cup Items
                      /\ Flushed(NoRow, req[r].sets) \in Row \cup [loc : {Nowhere}, frames : Frames]
                      /\ req[r].from \in Files \cup Keys \cup {Nowhere}
<1>1. <<>> \in Frames
  <2>1. <<>> \in Seq(Files \cup {Nowhere}) /\ Len(<<>>) <= MaxFrames
    BY MediaFilesAssumption
  <2> QED
    BY <2>1, FramesAreLists
<1>2. ASSUME NEW r \in Requests, req[r] = Idle PROVE held(r)
  <2>1. Flushed(NoRow, NoRow) = NoRow
    BY DEF Flushed, NoRow
  <2> QED
    BY <1>1, <1>2, <2>1 DEF Idle, NoRow
<1>3. ASSUME NEW r \in Requests, IsUpload(req[r]) PROVE held(r)
  <2>1. PICK f \in files \ told : req[r] = Upload(f)
    BY <1>3 DEF IsUpload
  <2>2. Flushed(NoRow, [loc |-> f, frames |-> <<>>]) = [loc |-> f, frames |-> <<>>]
    BY DEF Flushed, NoRow
  <2> QED
    BY <1>1, <2>1, <2>2 DEF Upload, Row, Sound
<1>4. ASSUME NEW r \in Requests, IsUpdate(req[r]) PROVE held(r)
  <2>1. PICK m \in Items, row \in Row, set \in SUBSET {"loc", "frames"}, from \in told \cup Keys :
          req[r] = Updating(m, row, set, from)
    BY <1>4 DEF IsUpdate
  <2>2. Flushed(NoRow, [c \in set |-> row[c]]) \in Row \cup [loc : {Nowhere}, frames : Frames]
    BY <1>1 DEF Flushed, NoRow, Row
  <2> QED
    BY <2>1, <2>2 DEF Updating, Sound
<1>5. \A r \in Requests : held(r)
  BY <1>2, <1>3, <1>4 DEF Sound, RequestsSound, Held
<1> QED
  BY <1>5 DEF Sound, RowsSound, TypeOK

(***************************************************************************)
(* What items keep of their files                                          *)
(***************************************************************************)
\* A file goes only with a deletion of an item that is there.
LEMMA OnlyDeletionsUnlink ==
  ASSUME Sound, [Next]_vars, NEW f \in files \ files'
  PROVE  \E x \in Exists : DeleteMedia(x) /\ f \in Unlinked(x)
<1>1. ASSUME NEW g \in Files, UploadFile(g) PROVE FALSE
  BY <1>1 DEF UploadFile, Written
<1>2. ASSUME NEW g \in Files, NEW r \in Requests, UploadBegin(r, g) PROVE FALSE
  BY <1>2 DEF UploadBegin, Written
<1>3. ASSUME NEW r \in Requests, RequestEnds(r) \/ UpdateEnd(r) PROVE FALSE
  BY <1>3 DEF RequestEnds, UpdateEnd
<1>4. ASSUME NEW r \in Requests, NEW m \in Items, UploadEnd(r, m) PROVE FALSE
  BY <1>4 DEF UploadEnd
<1>5. ASSUME NEW m \in Items, NEW urls \in Urls, SaveMedia(m, urls) PROVE FALSE
  BY <1>5 DEF SaveMedia
<1>6. ASSUME NEW r \in Requests, NEW m \in Exists, NEW loc \in told \cup Keys,
             NEW uploads \in 0..1, NEW replaces \in BOOLEAN, NEW busted \in BOOLEAN,
             UpdateBegin(r, m, loc, media[m].frames, replaces, uploads, busted)
      PROVE  FALSE
  BY <1>6 DEF UpdateBegin
<1>7. ASSUME NEW m \in Exists, DeleteMedia(m) PROVE f \in Unlinked(m)
  BY <1>7 DEF DeleteMedia
<1>8. CASE UNCHANGED vars
  BY <1>8 DEF vars
<1> QED
  BY <1>1, <1>2, <1>3, <1>4, <1>5, <1>6, <1>7, <1>8 DEF Next

\* In a deletion that goes through, an item that stays had the row that Left leaves.
LEMMA DeletionLeaves ==
  ASSUME Sound, NEW x \in Exists, DeleteMedia(x), refused' = refused,
         NEW m \in Exists \cap Exists'
  PROVE  /\ Exists' = Exists \ {x} /\ m # x /\ media'[m] = Left(x)[m]
         /\ x \in Others(m, media[x].loc)
<1>1. media' = Left(x)
  BY DEF DeleteMedia, Sound
<1>2. Exists' = Exists \ {x}
  BY <1>1 DEF Exists, Left
<1> QED
  BY <1>1, <1>2 DEF Others

\* The file of an item that stays goes only with another at the same location.
LEMMA FileStays ==
  ASSUME Sound, [Next]_vars, NEW m \in Exists \cap Exists',
         media[m].loc = media'[m].loc, media[m].loc \in files \ files', refused' = refused
  PROVE  Others(m, media[m].loc) \ Exists' # {}
<1>1. PICK x \in Exists : DeleteMedia(x) /\ media[m].loc = media[x].loc
  <2>1. PICK x \in Exists : DeleteMedia(x) /\ media[m].loc \in Unlinked(x)
    BY OnlyDeletionsUnlink
  <2>2. media[m].loc = media[x].loc
    BY <2>1 DEF Unlinked, Found
  <2> QED
    BY <2>1, <2>2
<1>2. x \in Others(m, media[m].loc) /\ x \notin Exists'
  BY <1>1, DeletionLeaves
<1> QED
  BY <1>2

\* A frame that an item keeps loses its file only if it is listed twice, or if JSON
\* escapes its name and an item that had it is deleted.
FrameLost(m, f) ==
  \/ \E i, j \in DOMAIN media[m].frames :
       i # j /\ media[m].frames[i] = f /\ media[m].frames[j] = f
  \/ /\ f \in Escaped
     /\ \E x \in Exists \ Exists' :
          \/ media[x].loc = f
          \/ f \in Range(media[x].frames) /\ \A n \in Exists : media[n].loc # f

LEMMA FrameStays ==
  ASSUME Sound, [Next]_vars, NEW m \in Exists \cap Exists', NEW f \in files \ files',
         f \in Range(media'[m].frames), refused' = refused
  PROVE  FrameLost(m, f)
<1>1. PICK x \in Exists : DeleteMedia(x) /\ f \in Unlinked(x)
  BY OnlyDeletionsUnlink
<1>2. m # x /\ media'[m] = Left(x)[m] /\ x \in Exists \ Exists'
  BY <1>1, DeletionLeaves
<1>3. CASE f \in Escaped
  BY <1>1, <1>2, <1>3 DEF Unlinked, Found, FrameLost
<1>4. CASE f \notin Escaped
  <2>1. f = media[x].loc
    BY <1>1, <1>4 DEF Unlinked, Found
  <2>2. media[x].loc \in Range(Left(x)[m].frames)
    BY <1>2, <2>1
  <2> QED
    BY <1>1, <1>2, <1>4, <2>1, <2>2, LeftRows DEF FrameLost
<1> QED
  BY <1>3, <1>4

\* The item of an upload appears with its file, which no other item names.
LEMMA UploadArrives ==
  ASSUME Sound, NEW r \in Requests, NEW m \in Exists' \ Exists, UploadEnd(r, m)
  PROVE  /\ media'[m].loc \in files'
         /\ \A n \in Exists : media[n].loc # media'[m].loc
                              /\ media'[m].loc \notin Range(media[n].frames)
<1>1. PICK f \in files \ told : req[r] = Upload(f)
  BY UploadIsUntold DEF UploadEnd
<1>2. media'[m].loc = f /\ f \in files'
  BY <1>1 DEF UploadEnd, Put, Upload
<1>3. f \notin told \cup Keys \cup {Nowhere}
  BY MediaFilesAssumption DEF Sound
<1>4. \A n \in Exists : Known(media[n])
  BY DEF Sound, RowsSound
<1> QED
  BY <1>2, <1>3, <1>4 DEF Known

\* Files and frames are unlinked only as FileKept and FrameKept allow, and an upload's
\* item comes whole, whatever requests do while it writes.
THEOREM FilesAreKept == Spec => FilesKept
<1>1. Sound /\ [Next]_vars =>
        \A m \in Exists \cap Exists' :
          media[m].loc = media'[m].loc /\ media[m].loc \in files \ files' =>
            refused' # refused \/ Others(m, media[m].loc) \ Exists' # {}
  BY FileStays
<1>2. Sound /\ [Next]_vars =>
        \A m \in Exists \cap Exists', f \in files \ files' :
          f \in Range(media'[m].frames) =>
            \/ refused' # refused
            \/ \E i, j \in DOMAIN media[m].frames :
                 i # j /\ media[m].frames[i] = f /\ media[m].frames[j] = f
            \/ /\ f \in Escaped
               /\ \E x \in Exists \ Exists' :
                    \/ media[x].loc = f
                    \/ f \in Range(media[x].frames) /\ \A n \in Exists : media[n].loc # f
  BY FrameStays DEF FrameLost
<1>3. Sound /\ [Next]_vars =>
        \A r \in Requests, m \in Exists' \ Exists :
          UploadEnd(r, m) =>
            /\ media'[m].loc \in files'
            /\ \A n \in Exists : media[n].loc # media'[m].loc
                                 /\ media'[m].loc \notin Range(media[n].frames)
  BY UploadArrives
<1>4. Spec => FileKept
  BY <1>1, AlwaysSound, PTL DEF Spec, FileKept
<1>5. Spec => FrameKept
  BY <1>2, AlwaysSound, PTL DEF Spec, FrameKept
<1>6. Spec => UploadIsWhole
  BY <1>3, AlwaysSound, PTL DEF Spec, UploadIsWhole
<1>7. Spec => []TypeOK
  BY AlwaysSound, SoundIsTyped, PTL
<1> QED
  BY <1>4, <1>5, <1>6, <1>7 DEF FilesKept

(***************************************************************************)
(* What an update may not undo                                             *)
(***************************************************************************)
\* A row that KeyTaken lets be written shares its key with nobody, or did before.
LEMMA KeyAsked ==
  ASSUME NEW x, NEW row, media' = Put(x, row), ~KeyTaken(x, row.loc),
         NEW m \in Exists', NEW n \in Exists', m # n,
         media'[m].loc = media'[n].loc, media'[m].loc \in Keys
  PROVE  m \in Exists /\ n \in Exists /\ media[m].loc = media[n].loc
<1>1. /\ Exists' = Exists \cup {x} /\ media'[x] = row
      /\ \A y \in Exists \ {x} : media'[y] = media[y]
  BY DEF Put, Exists
<1>2. CASE m = x
  <2>1. n \in Others(x, row.loc) /\ row.loc \in Keys
    BY <1>1, <1>2 DEF Others
  <2> QED
    BY <1>1, <1>2, <2>1 DEF KeyTaken
<1>3. CASE n = x
  <2>1. m \in Others(x, row.loc) /\ row.loc \in Keys
    BY <1>1, <1>3 DEF Others
  <2> QED
    BY <1>1, <1>3, <2>1 DEF KeyTaken
<1>4. CASE m # x /\ n # x
  BY <1>1, <1>4
<1> QED
  BY <1>2, <1>3, <1>4

\* Without an ending update, two items share a key only if they did before.
LEMMA KeysStayApart ==
  ASSUME Sound, [Next]_vars, ~\E r \in Requests : UpdateEnd(r),
         NEW m \in Exists', NEW n \in Exists', m # n,
         media'[m].loc = media'[n].loc, media'[m].loc \in Keys
  PROVE  m \in Exists /\ n \in Exists /\ media[m].loc = media[n].loc
<1> DEFINE shared == m \in Exists /\ n \in Exists /\ media[m].loc = media[n].loc
<1>0. ASSUME UNCHANGED media PROVE shared
  BY <1>0 DEF Exists
<1>1. ASSUME NEW g \in Files, UploadFile(g) PROVE shared
  BY <1>0, <1>1 DEF UploadFile
<1>2. ASSUME NEW g \in Files, NEW r \in Requests, UploadBegin(r, g) PROVE shared
  BY <1>0, <1>2 DEF UploadBegin
<1>3. ASSUME NEW r \in Requests, RequestEnds(r) PROVE shared
  BY <1>0, <1>3 DEF RequestEnds
<1>4. ASSUME NEW r \in Requests, NEW x \in Items, UploadEnd(r, x) PROVE shared
  <2>1. PICK f \in files \ told : req[r] = Upload(f)
    BY <1>4, UploadIsUntold DEF UploadEnd
  <2>2. PICK row : row = req[r].sets /\ row.loc \notin Keys
    BY <2>1, MediaFilesAssumption DEF Sound, Upload
  <2> QED
    BY <1>4, <2>2, KeyAsked DEF UploadEnd, KeyTaken
<1>5. ASSUME NEW x \in Items, NEW urls \in Urls, SaveMedia(x, urls) PROVE shared
  <2>1. PICK row : row = [loc |-> urls[1], frames |-> Framed(urls)]
    OBVIOUS
  <2> QED
    BY <1>5, <2>1, KeyAsked DEF SaveMedia
<1>6. ASSUME NEW r \in Requests, NEW x \in Exists, NEW loc \in told \cup Keys,
             NEW uploads \in 0..1, NEW replaces \in BOOLEAN, NEW busted \in BOOLEAN,
             UpdateBegin(r, x, loc, media[x].frames, replaces, uploads, busted)
      PROVE  shared
  <2>1. PICK row : row = [loc |-> loc,
                          frames |-> media[x].frames \o [i \in 1..uploads |-> Nowhere]]
    OBVIOUS
  <2>2. row.loc = loc /\ ~KeyTaken(x, loc) /\ (UNCHANGED media \/ media' = Put(x, row))
    BY <1>6, <2>1 DEF UpdateBegin
  <2> QED
    BY <1>0, <2>2, KeyAsked
<1>7. ASSUME NEW x \in Exists, DeleteMedia(x) PROVE shared
  <2>1. CASE refused' = refused
    <3>1. m \in Exists \cap Exists' /\ n \in Exists \cap Exists'
      BY <1>7, <2>1 DEF DeleteMedia, Exists, Left
    <3>2. /\ m # x /\ media'[m] = Left(x)[m]
          /\ n # x /\ media'[n] = Left(x)[n]
      BY <1>7, <2>1, <3>1, DeletionLeaves
    <3> QED
      BY <3>1, <3>2, LeftRows
  <2>2. CASE refused' # refused
    BY <1>0, <1>7, <2>2 DEF DeleteMedia
  <2> QED
    BY <2>1, <2>2
<1>8. ASSUME UNCHANGED vars PROVE shared
  BY <1>0, <1>8 DEF vars
<1> HIDE DEF shared
<1>9. ASSUME NEW r \in Requests, UpdateEnd(r) PROVE shared
  BY <1>9
<1>10. shared
  BY <1>1, <1>2, <1>3, <1>4, <1>5, <1>6, <1>7, <1>8, <1>9 DEF Next
<1> QED
  BY <1>10 DEF shared

\* An update that ends never moves its item back to where it was when it began.
LEMMA NotMovedBack ==
  ASSUME Sound, NEW r \in Requests, NEW m \in Exists \cap Exists',
         req[r].pc = m, UpdateEnd(r), media'[m].loc # media[m].loc
  PROVE  media'[m].loc # req[r].from
<1>1. PICK row \in Row : media' = Put(m, row) /\ (row.loc # media[m].loc => row.loc # req[r].from)
  BY UpdateWrites
<1> QED
  BY <1>1 DEF Put

\* An update that waited for a disk lets a second item come to a stream key only where
\* it looked before its await, and never undoes a move it has not seen.
THEOREM AwaitsAreHarmless == Spec => AwaitsHarmless
<1>1. Sound /\ [Next]_vars =>
        \A m, n \in Exists' :
          m # n /\ media'[m].loc = media'[n].loc /\ media'[m].loc \in Keys =>
            \/ m \in Exists /\ n \in Exists /\ media[m].loc = media[n].loc
            \/ \E r \in Requests : UpdateEnd(r)
  BY KeysStayApart
<1>2. Sound =>
        \A r \in Requests, m \in Exists \cap Exists' :
          req[r].pc = m /\ UpdateEnd(r) /\ media'[m].loc # media[m].loc =>
            media'[m].loc # req[r].from
  BY NotMovedBack
<1>3. Spec => KeyTakenAtAwait
  BY <1>1, AlwaysSound, PTL DEF Spec, KeyTakenAtAwait
<1>4. Spec => NeverMovedBack
  BY <1>2, AlwaysSound, PTL DEF Spec, NeverMovedBack
<1> QED
  BY <1>3, <1>4 DEF AwaitsHarmless
===============================================================================
