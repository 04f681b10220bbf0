----------------------------- MODULE StageAccess -----------------------------
(***************************************************************************)
(* Stages, the rows of stage_attribute that say who plays on them and      *)
(* whether the foyer shows them, and who may change them.  Every resolver  *)
(* here runs whole and is committed as it settles (RequestTransactions).   *)
(* Events, scenes and media of a stage have modules of their own.          *)
(***************************************************************************)
EXTENDS Integers, Sequences, SequencesExt

CONSTANTS
  Users, Admins, Canonical,   \* accounts, those of administrators, the default one
  Stages,                     \* ids of the table stage
  Lists,                      \* what browsers save as playerAccess: lists of groups,
  None, Odd                   \*   no such row, JSON that is no list of groups

\* None, where a browser sends a value, is a field it leaves out.
ASSUME StageAccessAssumption ==
  /\ Admins \subseteq Users /\ Canonical \in Admins
  /\ Lists \subseteq Seq(SUBSET Users)
  /\ {None, Odd} \cap Seq(SUBSET Users) = {} /\ None # Odd

VARIABLES
  users,   \* the accounts that exist; an id comes once
  gone,    \* the ids of deleted accounts
  stage    \* the rows of stage by id, with their attributes

vars == <<users, gone, stage>>

Access == Seq(SUBSET Users) \cup {None, Odd}
Row == [owner : Users, access : Access, visibility : {"true", "false", None}, demo : BOOLEAN]

Exists == DOMAIN stage

Init == /\ users = Admins /\ gone = {}
        /\ stage = [s \in {} |-> None]

\* resolve_permission: a list that has not two groups is nobody's.
Permission(u, s) ==
  LET list == stage[s].access
  IN IF stage[s].owner = u THEN "owner"
     ELSE IF list \in {None, Odd} \/ Len(list) # 2 THEN "audience"
     ELSE IF u \in list[1] THEN "player"
     ELSE IF u \in list[2] THEN "editor" ELSE "audience"

\* extract_permission.
MayEdit(u, s) == u \in Admins \/ Permission(u, s) \in {"owner", "editor"}

\* Mutants: what is left out overwrites what is there.
FieldAlways(old, value) == value
AttributeAlways(old, value) == value

\* A field of the row that a save leaves out stays.
Field(old, value) == IF value = None THEN old ELSE value

\* update_stage_attribute.
Attribute(old, value) == IF value = None THEN old ELSE value

\* A row after a save of the fields in input; demo says that the name is Demo Stage.
Saved(row, input) ==
  [owner |-> Field(row.owner, input.owner), demo |-> Field(row.demo, input.demo),
   access |-> Attribute(row.access, input.access),
   visibility |-> Attribute(row.visibility, input.visibility)]

\* What browsers send: forms that save an owner and a name, access and visibility, or
\* neither (Customisation).
Named == [owner : users \cup {None}, access : {None}, visibility : {None}, demo : BOOLEAN]
Input == Named \cup [owner : {None}, access : Lists \cup {Odd, None},
                     visibility : {"true", "false", None}, demo : {None}]

\* get_foyer_stage_list.
InFoyer(s) == stage[s].visibility = "true"

Put(s, row) == stage' = [t \in Exists \cup {s} |-> IF t = s THEN row ELSE stage[t]]

CreateStage(u, s, input) ==
  /\ s \notin Exists
  /\ Put(s, Saved([owner |-> u, access |-> None, visibility |-> None,
                   demo |-> FALSE], input))
  /\ UNCHANGED <<users, gone>>

UpdateStage(u, s, input) ==
  /\ MayEdit(u, s)
  /\ Put(s, Saved(stage[s], input))
  /\ UNCHANGED <<users, gone>>

\* duplicateStage asks for no permission, and copies every attribute.
DuplicateStage(u, s, t, demo) ==
  /\ t \notin Exists
  /\ Put(t, [stage[s] EXCEPT !.owner = u, !.demo = demo])
  /\ UNCHANGED <<users, gone>>

DeleteStage(u, s) ==
  /\ MayEdit(u, s)
  /\ stage' = [t \in Exists \ {s} |-> stage[t]]
  /\ UNCHANGED <<users, gone>>

UpdateVisibility(u, s) ==
  /\ MayEdit(u, s)
  /\ Put(s, [stage[s] EXCEPT !.visibility = IF @ = "true" THEN "false" ELSE "true"])
  /\ UNCHANGED <<users, gone>>

\* Mutant: the list begins anew with the account.
WithPlayerOnly(list, u) == <<{u}, {}>>

\* assign_user_to_default_stage: the first group of a list, if there is one.
WithPlayer(list, u) ==
  IF list \in {None, Odd, <<>>} THEN list ELSE [list EXCEPT ![1] = @ \cup {u}]

\* An account registers or is created, and joins a stage of the name Demo Stage: the
\* first the database finds, if there is one.
Register(u) ==
  /\ u \notin users \cup gone
  /\ users' = users \cup {u}
  /\ LET demos == {s \in Exists : stage[s].demo}
     IN IF demos = {} THEN UNCHANGED stage
        ELSE \E s \in demos : Put(s, [stage[s] EXCEPT !.access = WithPlayer(@, u)])
  /\ UNCHANGED gone

\* Mutant: only the players are looked through.
WithoutPlayer(list, u) ==
  IF list \in {None, Odd, <<>>} THEN list ELSE [list EXCEPT ![1] = @ \ {u}]

\* The lists without an account that goes.
Without(list, u) ==
  IF list \in {None, Odd} THEN list ELSE [i \in DOMAIN list |-> list[i] \ {u}]

\* Mutant: the stages of a deleted account stay.
OwnStagesNone(u) == {}

OwnStages(u) == {s \in Exists : stage[s].owner = u}

\* delete_user, whatever becomes of the account's media: its stages go.
DeleteUser(a, u) ==
  /\ a \in Admins /\ u \in users \ {a, Canonical}
  /\ users' = users \ {u} /\ gone' = gone \cup {u}
  /\ stage' = [s \in Exists \ OwnStages(u) |->
                 [stage[s] EXCEPT !.access = Without(@, u)]]

Next ==
  \/ \E u \in Users : Register(u) \/ \E a \in users : DeleteUser(a, u)
  \/ \E u \in users, s \in Stages, input \in Named : CreateStage(u, s, input)
  \/ \E u \in users, s \in Exists :
       \/ \E input \in Input : UpdateStage(u, s, input)
       \/ \E t \in Stages, demo \in BOOLEAN : DuplicateStage(u, s, t, demo)
       \/ DeleteStage(u, s) \/ UpdateVisibility(u, s)

Spec == Init /\ [][Next]_vars
-------------------------------------------------------------------------------
\* Every variable keeps its type.
TypeOK == /\ users \cup gone \subseteq Users /\ users \cap gone = {}
          /\ Exists \subseteq Stages /\ \A s \in Exists : stage[s] \in Row

\* No stage outlives its owner: the foreign key would refuse the deletion.
OwnersExist == \A s \in Exists : stage[s].owner \in users

\* An account leaves with its id: no list keeps it, in whichever of its groups, and what
\* the others may do on the stages that stay is as it was.
ForgottenWhenDeleted ==
  [][\A u \in users \ users', s \in Exists' :
       /\ stage'[s].access \in {None, Odd} \/ \A i \in DOMAIN stage'[s].access :
                                                   u \notin stage'[s].access[i]
       /\ \A v \in users' : Permission(v, s)' = Permission(v, s)]_vars

\* What one may do on a stage changes with a save that names its owner or its lists, or
\* with one's own registration or deletion: no other save, toggle, duplicate, and nobody
\* else's coming or going, takes a place away or gives one.
PlacesChangedBySaves ==
  [][\A s \in Exists \cap Exists', v \in users \cap users' :
       Permission(v, s)' # Permission(v, s) =>
         \E u \in users, input \in Input :
           (input.owner # None \/ input.access # None) /\ UpdateStage(u, s, input)]_vars

\* What the foyer shows changes as it is told: a stage appears and disappears
\* there with a toggle or with a form that names the field, and no save of other
\* fields, registration or deletion of an account moves another's stage.
FoyerAsNamed ==
  [][\A s \in Exists \cap Exists' :
       InFoyer(s) # InFoyer(s)' =>
         \E u \in users :
           \/ UpdateVisibility(u, s)
           \/ \E input \in Input : input.visibility # None /\ UpdateStage(u, s, input)]_vars

\* Who may do what on a stage, and for how long.
PlacesKept == [](TypeOK /\ OwnersExist) /\ ForgottenWhenDeleted /\ PlacesChangedBySaves
===============================================================================
