-------------------------------- MODULE Scenes --------------------------------
(***************************************************************************)
(* The scenes saved on stages.  A scene that is deleted is only marked, as *)
(* recordings replay it; rows go with their stage or their owner.  Every   *)
(* account may save a scene on every stage.                                *)
(***************************************************************************)
EXTENDS Integers, FiniteSets, FiniteSetsExt

CONSTANTS
  Owners, Directors,   \* accounts, and those of administrators
  Boards,              \* ids of the table stage
  Titles,              \* names a browser sends: a number n stands for "Scene n"
  Untitled,            \* no name
  MaxScene             \* bound: ids of scenes

VARIABLES
  accounts, boards,    \* the accounts and the stages that exist
  scenes,              \* the rows of scene
  top                  \* the last id given

vars == <<accounts, boards, scenes, top>>

Scene == [id : Nat, stage : Boards, owner : Owners, name : Titles \cup Nat,
          order : Nat, active : BOOLEAN]

On(s) == {c \in scenes : c.stage = s}
Active(s) == {c \in On(s) : c.active}

Init == accounts = Owners /\ boards = Boards /\ scenes = {} /\ top = 0

\* Mutant: deleted scenes are not counted.
OrderActive(s) == Cardinality(Active(s)) + 1

\* The order of a new scene counts deleted ones too.
Order(s) == Cardinality(On(s)) + 1

\* Mutant: a name is compared with the last scene's.
TakenByLast(s, name) == \E c \in Active(s) : c.name = name /\ c.order = Cardinality(Active(s))

\* A name that is sent must not be an active scene's; a missing one is not asked.
Taken(s, name) == name # Untitled /\ \E c \in Active(s) : c.name = name

CreateScene(u, s, name) ==
  /\ ~Taken(s, name)
  /\ top' = top + 1
  /\ scenes' = scenes \cup
       {[id |-> top + 1, stage |-> s, owner |-> u, order |-> Order(s), active |-> TRUE,
         name |-> IF name = Untitled THEN Order(s) ELSE name]}
  /\ UNCHANGED <<accounts, boards>>

\* Mutant: the row goes.
MarkedNot(c) == {}

\* What is left of a scene that is deleted.
Marked(c) == {[c EXCEPT !.active = FALSE]}

DeleteScene(u, c) ==
  /\ u \in Directors \/ c.owner = u
  /\ scenes' = (scenes \ {c}) \cup Marked(c)
  /\ UNCHANGED <<accounts, boards, top>>

\* What StageAccess does by deleteStage, and by deleteUser, whose stages may be any.
DeleteBoard(s) ==
  /\ boards' = boards \ {s}
  /\ scenes' = scenes \ On(s)
  /\ UNCHANGED <<accounts, top>>

DeleteOwner(u, own) ==
  /\ u \notin Directors
  /\ accounts' = accounts \ {u} /\ boards' = boards \ own
  /\ scenes' = {c \in scenes : c.owner # u /\ c.stage \notin own}
  /\ UNCHANGED top

Next ==
  \/ \E u \in accounts, s \in boards, name \in Titles \cup {Untitled} :
       top < MaxScene /\ CreateScene(u, s, name)
  \/ \E u \in accounts, c \in scenes : DeleteScene(u, c)
  \/ \E s \in boards : DeleteBoard(s)
  \/ \E u \in accounts, own \in SUBSET boards : DeleteOwner(u, own)

Spec == Init /\ [][Next]_vars
-------------------------------------------------------------------------------
\* Every variable keeps its type; every scene has its stage and its owner.
TypeOK == /\ accounts \subseteq Owners /\ boards \subseteq Boards
          /\ scenes \subseteq Scene /\ top \in Nat
          /\ \A c \in scenes : c.id <= top /\ c.stage \in boards /\ c.owner \in accounts

\* Of two scenes of one name that a stage shows, nobody chose the later one's: it is
\* the automatic name, which is not compared with the names there are.
NamesChosenOnce ==
  \A s \in boards : \A b, c \in Active(s) :
    b.id < c.id /\ b.name = c.name => c.name = c.order

\* A new scene comes last in the list of the stage, deleted scenes included, unless
\* the deletion of an account has left a gap in it.
NewSceneComesLast ==
  [][\A s \in boards : \A c \in scenes' :
       c.id = top + 1 /\ c.stage = s /\ {b.order : b \in On(s)} = 1..Cardinality(On(s)) =>
         \A b \in On(s) : b.order < c.order]_vars

\* Recordings find their scenes: one goes only with its stage or with its owner, and
\* one that was deleted does not come back to the stage.
ScenesStayForReplays ==
  [][\A c \in scenes : c.stage \in boards' /\ c.owner \in accounts' =>
       \E d \in scenes' : /\ d = [c EXCEPT !.active = d.active]
                          /\ d.active => c.active]_vars

\* Scenes have their names, their places and their replays, through every step.
ScenesKept == [](TypeOK /\ NamesChosenOnce) /\ NewSceneComesLast /\ ScenesStayForReplays
===============================================================================
