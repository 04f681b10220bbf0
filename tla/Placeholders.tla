----------------------------- MODULE Placeholders -----------------------------
(***************************************************************************)
(* What scenes and recordings show of items whose owner is deleted: their  *)
(* payloads name files, not items, and deleteUser writes the placeholder   *)
(* in place of those that go.  Items go one after another, each looking at *)
(* the items still there.  Frames are looked for, and payloads rewritten,  *)
(* by the plain name in JSON text, where some names are written escaped.   *)
(* Assignments and permissions are MediaLibrary.                           *)
(***************************************************************************)
EXTENDS FiniteSets

CONSTANTS
  Ids,           \* ids of the table asset, without the placeholder's
  Files, Keys,   \* locations: paths of files, and stream keys, which have no "/"
  Picture,       \* the location of the placeholder
  Payloads,      \* the rows of scene and events
  Escaped,       \* the names json.dumps escapes: not ASCII, or with a quote or a backslash
  EscapedIn      \* those escaped in payload p: all in a recording, which json.dumps wrote
                 \* too, and in a scene, which the browser wrote, those with a quote or so

PlaceholdersAssumption ==
  Picture \notin Files /\ Escaped \subseteq Files /\ EscapedIn \in [Payloads -> SUBSET Escaped]

VARIABLES
  items,      \* the rows of asset: location, frames, whether images stand for it,
              \* and whether it belongs to the account that is to be deleted
  shows,      \* shows[p]: the locations that occur in payload p
  doomed,     \* the items deleteUser has yet to look at
  gone        \* what deleteUser has deleted so far

vars == <<items, shows, doomed, gone>>

Row == [loc : Files \cup Keys, frames : SUBSET Files, visual : BOOLEAN, own : BOOLEAN]
Exists == DOMAIN items
Mentioned(m) == {items[m].loc} \cup items[m].frames

Init == /\ \E E \in SUBSET Ids : items \in [E -> Row]
        /\ shows \in [Payloads -> SUBSET UNION {Mentioned(m) : m \in Exists}]
        /\ doomed = {} /\ gone = {}

\* deleteUser; with REASSIGN_TO_ADMIN the images stay, as the administrator's.
DeleteUser(reassigns) ==
  LET own == {m \in Exists : items[m].own}
      kept == IF reassigns THEN {m \in own : items[m].visual} ELSE {}
  IN /\ doomed = {} /\ gone = {}
     /\ items' = [m \in Exists |-> [items[m] EXCEPT !.own = @ /\ m \notin kept]]
     /\ doomed' = own \ kept
     /\ UNCHANGED <<shows, gone>>

\* Mutants: a frame is replaced whoever else has it; frames are not looked at.
UsedNever(m, f) == FALSE
UsedAlways(m, f) == TRUE

\* Another item is found that has the file, as its location or in its description.
StillUsed(m, f) == \E n \in Exists \ {m} : f = items[n].loc \/ f \in items[n].frames \ Escaped

\* The locations that are replaced: never a stream key, too short to be told from other
\* text, and no frame that another item is found to use. A location is, even if others have it:
\* its file goes.
Tokens(m) == ({items[m].loc} \cap Files) \cup {f \in items[m].frames : f # items[m].loc /\ ~StillUsed(m, f)}

Replaced(p, tokens) ==
  LET found == (shows[p] \cap tokens) \ EscapedIn[p]
  IN (shows[p] \ found) \cup IF found = {} THEN {} ELSE {Picture}

\* One turn of the loop over the items, in any order: sounds and videos, which no image
\* can stand for, are not replaced; the row goes, and its location where frames are found
\* to have it.
DeleteItem(m) ==
  /\ shows' = IF items[m].visual THEN [p \in Payloads |-> Replaced(p, Tokens(m))] ELSE shows
  /\ items' = [n \in Exists \ {m} |-> [items[n] EXCEPT !.frames = @ \ ({items[m].loc} \ Escaped)]]
  /\ doomed' = doomed \ {m}
  /\ gone' = gone \cup {items[m]}

Next == (\E reassigns \in BOOLEAN : DeleteUser(reassigns)) \/ \E m \in doomed : DeleteItem(m)
-------------------------------------------------------------------------------
Survivors == UNION {Mentioned(m) : m \in Exists}

\* When an account is deleted, no scene or recording shows a file that only its images
\* had, unless a sound or video of the account had it too, or it writes the name escaped.
ShowsWhatIsThere ==
  \A i \in gone, p \in Payloads : \A f \in (shows[p] \cap Files) \ EscapedIn[p] :
    i.visual /\ f \in {i.loc} \cup i.frames =>
      f \in Survivors \/ \E j \in gone : ~j.visual /\ f \in {j.loc} \cup j.frames

\* A payload loses a file only with an image of the account that was there, or that had
\* it as a frame when no other item was there any more, nor, unless its name is escaped,
\* had it as a frame; and it never loses one whose name it writes escaped.
PicturesStay ==
  [][\A p \in Payloads : \A f \in shows[p] \ shows'[p] :
       /\ f \in Files \ EscapedIn[p]
       /\ \E i \in gone' : i.visual /\
            \/ f = i.loc
            \/ f \in i.frames /\ \A m \in Exists' : f # items'[m].loc /\ f \notin items'[m].frames \ Escaped]_vars

\* What payloads show of the items of deleted accounts.
PayloadsHold == [](doomed = {} => ShowsWhatIsThere) /\ PicturesStay
===============================================================================
