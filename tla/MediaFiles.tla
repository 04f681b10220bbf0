------------------------------ MODULE MediaFiles ------------------------------
(***************************************************************************)
(* The rows of media items and the files they name.  The disk takes no     *)
(* part in the transaction: a file is written before its row is committed  *)
(* and unlinked before the row's deletion is, a COMMIT may be refused, and *)
(* uploadMedia and updateMedia await their writes in a worker thread while *)
(* other requests run.  A location is the path of a file, or the key of a  *)
(* stream, which has none.  A path keeps the name the client gave, and the *)
(* frames are kept as JSON text, in which some names are written with      *)
(* escapes: a search of the text for such a name finds nothing.            *)
(* Assignments and permissions are MediaLibrary.                           *)
(***************************************************************************)
EXTENDS Integers, Sequences, SequencesExt

CONSTANTS
  Items,         \* ids of the table asset
  Files, Keys,   \* the locations: paths, each drawn once, and stream keys
  Escaped,       \* paths with a letter outside ASCII, a quote or a backslash
  Nowhere,       \* a path that is recorded and under which nothing is written
  Requests,      \* the requests that upload or update
  MaxFrames,     \* bounds: frames of an item,
  MaxRefused     \* COMMITs refused, of deletions

ASSUME MediaFilesAssumption ==
  /\ Files \cap Keys = {} /\ Escaped \subseteq Files /\ Nowhere \notin Files \cup Keys
  /\ Items \cap {"idle", "upload"} = {}
  /\ MaxFrames \in Nat /\ MaxRefused \in Nat

VARIABLES
  media,     \* the rows: a location, and the frames in the description
  files,     \* the files on disk
  drawn,     \* the names ever given to a file
  told,      \* those a client was answered
  req,       \* what each request holds while it awaits its writes
  gone,      \* the ids of deleted items
  refused    \* how many deletions were refused at their COMMIT

vars == <<media, files, drawn, told, req, gone, refused>>

Frames == UNION {[1..n -> Files \cup {Nowhere}] : n \in 0..MaxFrames}
Row == [loc : Files \cup Keys, frames : Frames]
NoRow == [loc |-> Nowhere, frames |-> <<>>]

Idle == [pc |-> "idle", sets |-> NoRow, from |-> Nowhere]
Upload(f) == [pc |-> "upload", sets |-> [loc |-> f, frames |-> <<>>], from |-> Nowhere]

Exists == DOMAIN media
Put(m, row) == [x \in Exists \cup {m} |-> IF x = m THEN row ELSE media[x]]
Others(m, loc) == {n \in Exists \ {m} : media[n].loc = loc}

Init == /\ media = [m \in {} |-> NoRow]
        /\ files = {} /\ drawn = {} /\ told = {}
        /\ req = [r \in Requests |-> Idle]
        /\ gone = {} /\ refused = 0

\* Mutant: a file has the name it was uploaded with, whoever else used it.
UnusedAny == Files

\* The names FileHandling.upload_file draws from: every file gets one of its own.
Unused == Files \ drawn

Written(f) == files' = files \cup {f} /\ drawn' = drawn \cup {f}

\* uploadFile: a worker thread writes the file, and the answer names it.
UploadFile(f) ==
  /\ f \in Unused
  /\ Written(f)
  /\ told' = told \cup {f}
  /\ UNCHANGED <<media, req, gone, refused>>

\* uploadMedia, until its thread has written the file, and afterwards.
UploadBegin(r, f) ==
  /\ req[r] = Idle /\ f \in Unused
  /\ Written(f)
  /\ req' = [req EXCEPT ![r] = Upload(f)]
  /\ UNCHANGED <<media, told, gone, refused>>

UploadEnd(r, m) ==
  /\ req[r].pc = "upload" /\ m \notin Exists \cup gone
  /\ media' = Put(m, req[r].sets)
  /\ told' = told \cup {req[r].sets.loc}
  /\ req' = [req EXCEPT ![r] = Idle]
  /\ UNCHANGED <<files, drawn, gone, refused>>

\* Mutant: nobody asks who has the key.
KeyTakenNever(m, loc) == FALSE

\* process_file_location asks only for a stream key that is new to the item.
KeyTaken(m, loc) ==
  loc \in Keys /\ Others(m, loc) # {} /\ ~(m \in Exists /\ media[m].loc = loc)

\* What process_urls keeps of the urls in the description: a single one is no frame.
Framed(urls) == IF Len(urls) > 1 THEN urls ELSE <<>>

\* saveMedia of urls, uploaded before or in use elsewhere: the first is the location.
\* Without urls the row stays (its other fields are not here).
SaveMedia(m, urls) ==
  /\ m \notin gone /\ ~KeyTaken(m, urls[1])
  /\ media' = Put(m, [loc |-> urls[1], frames |-> Framed(urls)])
  /\ UNCHANGED <<files, drawn, told, req, gone, refused>>

\* Mutant: all columns are written, as they were when the row was read.
ChangedAll(m, row) == {"loc", "frames"}

\* The columns the session writes: those that differ from what it has read.
Changed(m, row) == {c \in {"loc", "frames"} : row[c] # media[m][c]}

Update(m, row) == [pc |-> m, sets |-> [c \in Changed(m, row) |-> row[c]], from |-> media[m].loc]

\* updateMedia until its await. retrieve_asset asks whether the location is taken as it
\* was given, so with a suffix that is cut off later (busted) it finds nobody. Each
\* uploaded frame is recorded under a name, and written under another that nobody
\* knows. A replacement is written to the new location; the old file stays.
UpdateBegin(r, m, loc, frames, replaces, uploads, busted) ==
  LET row == [loc |-> loc, frames |-> frames \o [i \in 1..uploads |-> Nowhere]]
      waits == replaces \/ uploads > 0
  IN /\ waits => req[r] = Idle
     /\ busted \/ Others(m, loc) = {}
     /\ ~KeyTaken(m, loc)
     /\ Len(row.frames) <= MaxFrames
     /\ replaces => loc \in Files
     /\ files' = IF replaces THEN files \cup {loc} ELSE files
     /\ IF waits THEN req' = [req EXCEPT ![r] = Update(m, row)] /\ UNCHANGED media
                 ELSE media' = Put(m, row) /\ UNCHANGED req
     /\ UNCHANGED <<drawn, told, gone, refused>>

\* The row with the columns that an update sets.
Flushed(now, sets) == [c \in DOMAIN now |-> IF c \in DOMAIN sets THEN sets[c] ELSE now[c]]

\* updateMedia after its await: an item that is gone since fails the flush.
UpdateEnd(r) ==
  /\ req[r].pc \in Exists
  /\ media' = Put(req[r].pc, Flushed(media[req[r].pc], req[r].sets))
  /\ req' = [req EXCEPT ![r] = Idle]
  /\ UNCHANGED <<files, drawn, told, gone, refused>>

\* A request that fails, is cancelled, or dies with the process: files stay.
RequestEnds(r) ==
  /\ req[r] # Idle
  /\ req' = [req EXCEPT ![r] = Idle]
  /\ UNCHANGED <<media, files, drawn, told, gone, refused>>

\* Mutant: frames that other items share with it go with the item.
UnlinkedWithFrames(m) == {media[m].loc} \cup Range(media[m].frames)

\* Mutant: an item is found by its location alone.
FoundAtLocation(f) == \E n \in Exists : media[n].loc = f

\* The query for items that use a frame, at their location or in the text of their
\* frames, finds the item itself, unless the text has the name escaped.
Found(f) == f \notin Escaped \/ \E n \in Exists : media[n].loc = f

\* What cleanup_assets unlinks: the item's file, and frames that the query has not found.
Unlinked(m) == {media[m].loc} \cup {f \in Range(media[m].frames) : ~Found(f)}

\* Mutants: nobody looks for the location among frames; the row itself stays.
LeftAll(m) == [n \in Exists \ {m} |-> media[n]]
LeftWithItself(m) == media

\* The rows it leaves: the location goes from other items' frames, where it comes first,
\* if a search of their text finds it.
Left(m) ==
  [n \in Exists \ {m} |->
     [media[n] EXCEPT !.frames = IF media[m].loc \in Escaped THEN @ ELSE RemoveFirst(@, media[m].loc)]]

\* deleteMedia: the file goes even if the COMMIT is then refused.
DeleteMedia(m) ==
  /\ files' = files \ Unlinked(m)
  /\ \/ media' = Left(m) /\ gone' = gone \cup {m} /\ UNCHANGED refused
     \/ refused < MaxRefused /\ refused' = refused + 1 /\ UNCHANGED <<media, gone>>
  /\ UNCHANGED <<drawn, told, req>>

\* What a client may name: files it was told of, once or more, or a key.
Urls == (UNION {[1..n -> told] : n \in 1..MaxFrames}) \cup {<<k>> : k \in Keys}

Next ==
  \/ \E f \in Files : UploadFile(f) \/ \E r \in Requests : UploadBegin(r, f)
  \/ \E r \in Requests : RequestEnds(r) \/ UpdateEnd(r) \/ \E m \in Items : UploadEnd(r, m)
  \/ \E m \in Items, urls \in Urls : SaveMedia(m, urls)
  \/ \E r \in Requests, m \in Exists, loc \in told \cup Keys, uploads \in 0..1,
        replaces, busted \in BOOLEAN :
       UpdateBegin(r, m, loc, media[m].frames, replaces, uploads, busted)
  \/ \E m \in Exists : DeleteMedia(m)

Spec == Init /\ [][Next]_vars
-------------------------------------------------------------------------------
\* Every variable keeps its type.
TypeOK ==
  /\ Exists \cup gone \subseteq Items /\ Exists \cap gone = {} /\ \A m \in Exists : media[m] \in Row
  /\ files \cup told \subseteq drawn /\ drawn \subseteq Files
  /\ \A r \in Requests : /\ req[r].pc \in {"idle", "upload"} \cup Items
                         /\ Flushed(NoRow, req[r].sets) \in Row \cup [loc : {Nowhere}, frames : Frames]
                         /\ req[r].from \in Files \cup Keys \cup {Nowhere}
  /\ refused \in Nat

\* Of an item that stays at its location, the file goes only with another item that was
\* saved at the same one, or by a deletion whose COMMIT was refused.
FileKept ==
  [][\A m \in Exists \cap Exists' :
       media[m].loc = media'[m].loc /\ media[m].loc \in files \ files' =>
         refused' # refused \/ Others(m, media[m].loc) \ Exists' # {}]_vars

\* A frame that an item keeps loses its file only if it is listed twice, since a
\* deletion takes the first out of the list; by a deletion that was refused; or, where
\* JSON escapes its name, with an item that is deleted from where the frame is, or that
\* had the frame too and left no item there.
FrameKept ==
  [][\A m \in Exists \cap Exists', f \in files \ files' :
       f \in Range(media'[m].frames) =>
         \/ refused' # refused
         \/ \E i, j \in DOMAIN media[m].frames :
              i # j /\ media[m].frames[i] = f /\ media[m].frames[j] = f
         \/ /\ f \in Escaped
            /\ \E x \in Exists \ Exists' :
                 \/ media[x].loc = f
                 \/ f \in Range(media[x].frames) /\ \A n \in Exists : media[n].loc # f]_vars

\* Whatever happens while uploadMedia writes, its item appears with its file, which
\* no other item names.
UploadIsWhole ==
  [][\A r \in Requests, m \in Exists' \ Exists :
       UploadEnd(r, m) =>
         /\ media'[m].loc \in files'
         /\ \A n \in Exists : media[n].loc # media'[m].loc
                              /\ media'[m].loc \notin Range(media[n].frames)]_vars

\* A second item comes to a stream key only by an update that looked before its await
\* and wrote after it, while another request took the key.
KeyTakenAtAwait ==
  [][\A m, n \in Exists' :
       m # n /\ media'[m].loc = media'[n].loc /\ media'[m].loc \in Keys =>
         \/ m \in Exists /\ n \in Exists /\ media[m].loc = media[n].loc
         \/ \E r \in Requests : UpdateEnd(r)]_vars

\* An update that ends never moves an item back to where it was when the update began:
\* what another request saved of its location meanwhile is not lost to a file list.
NeverMovedBack ==
  [][\A r \in Requests, m \in Exists \cap Exists' :
       req[r].pc = m /\ UpdateEnd(r) /\ media'[m].loc # media[m].loc =>
         media'[m].loc # req[r].from]_vars

\* What an update that waited for a disk may not undo of what others did meanwhile.
AwaitsHarmless == KeyTakenAtAwait /\ NeverMovedBack

\* What items keep of their files, whatever is saved, uploaded and deleted.
FilesKept == []TypeOK /\ FileKept /\ FrameKept /\ UploadIsWhole
===============================================================================
