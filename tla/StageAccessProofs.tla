--------------------------- MODULE StageAccessProofs ---------------------------
(***************************************************************************)
(* Who may do what on a stage and what the foyer shows, for any accounts,  *)
(* administrators, stages and lists of players that browsers send; and the *)
(* names, places and replays of scenes, for any titles and number of them. *)
(***************************************************************************)
EXTENDS MCStageAccess, SequenceTheorems, FiniteSetTheorems, TLAPS

Kept == TypeOK /\ OwnersExist

Groups == Seq(SUBSET Users)

\* JSON that is no list of groups is told from every list.
LEMMA ListsAreLists == ASSUME NEW list \in Groups PROVE list \notin {None, Odd}
  BY StageAccessAssumption DEF Groups

LEMMA InitKept == Init => Kept
  BY StageAccessAssumption DEF Init, Kept, TypeOK, OwnersExist, Exists

\* Put writes one row.
LEMMA PutRow ==
  ASSUME NEW s, NEW row, Put(s, row)
  PROVE  /\ Exists' = Exists \cup {s} /\ stage'[s] = row
         /\ \A t \in Exists \ {s} : stage'[t] = stage[t]
  BY DEF Put, Exists

\* A registration adds to the first group, if there is one.
LEMMA WithPlayerAdds ==
  ASSUME NEW list \in Access, NEW u \in Users
  PROVE  /\ WithPlayer(list, u) \in Access
         /\ list \in {None, Odd, <<>>} => WithPlayer(list, u) = list
         /\ list \notin {None, Odd, <<>>} =>
              /\ WithPlayer(list, u) \notin {None, Odd}
              /\ Len(WithPlayer(list, u)) = Len(list)
              /\ \A i \in 1..Len(list) : \A v \in Users \ {u} :
                   v \in WithPlayer(list, u)[i] <=> v \in list[i]
<1>1. CASE list \in {None, Odd, <<>>}
  BY <1>1 DEF WithPlayer
<1>2. CASE list \notin {None, Odd, <<>>}
  <2> DEFINE new == [list EXCEPT ![1] = @ \cup {u}]
  <2>1. list \in Groups /\ Len(list) \in Nat /\ 1 \in 1..Len(list)
    BY <1>2 DEF Access, Groups
  <2>2. new \in Groups /\ Len(new) = Len(list)
    BY <2>1 DEF Groups
  <2>3. \A i \in 1..Len(list) : new[i] = IF i = 1 THEN list[1] \cup {u} ELSE list[i]
    BY <2>1 DEF Groups
  <2>4. WithPlayer(list, u) = new
    BY <1>2 DEF WithPlayer
  <2>5. new \in Access /\ new \notin {None, Odd}
    BY <2>2, ListsAreLists DEF Access, Groups
  <2> HIDE DEF new
  <2> QED
    BY <1>2, <2>2, <2>3, <2>4, <2>5
<1> QED
  BY <1>1, <1>2

\* A deletion takes the account out of every group.
LEMMA WithoutRemoves ==
  ASSUME NEW list \in Access, NEW u \in Users
  PROVE  /\ Without(list, u) \in Access
         /\ list \in {None, Odd} => Without(list, u) = list
         /\ list \notin {None, Odd} =>
              /\ Without(list, u) \notin {None, Odd}
              /\ DOMAIN Without(list, u) = 1..Len(list)
              /\ Len(Without(list, u)) = Len(list)
              /\ \A i \in 1..Len(list) : Without(list, u)[i] = list[i] \ {u}
<1>1. CASE list \in {None, Odd}
  BY <1>1 DEF Without
<1>2. CASE list \notin {None, Odd}
  <2> DEFINE new == [i \in 1..Len(list) |-> list[i] \ {u}]
  <2>1. list \in Groups /\ Len(list) \in Nat /\ DOMAIN list = 1..Len(list)
    BY <1>2 DEF Access, Groups
  <2>2. \A i \in 1..Len(list) : list[i] \ {u} \in SUBSET Users
    BY <2>1 DEF Groups
  <2>3. new \in Groups /\ Len(new) = Len(list) /\ DOMAIN new = 1..Len(list)
    BY <2>1, <2>2, IsASeq DEF Groups
  <2>4. Without(list, u) = new
    BY <1>2, <2>1 DEF Without
  <2>5. new \in Access /\ new \notin {None, Odd}
    BY <2>3, ListsAreLists DEF Access, Groups
  <2>6. \A i \in 1..Len(list) : new[i] = list[i] \ {u}
    OBVIOUS
  <2> HIDE DEF new
  <2> QED
    BY <1>2, <2>3, <2>4, <2>5, <2>6
<1> QED
  BY <1>1, <1>2

\* What browsers send makes a row of a row.
LEMMA InputTyped ==
  ASSUME NEW input \in Input
  PROVE  /\ input.owner \in users \cup {None} /\ input.access \in Access
         /\ input.visibility \in {"true", "false", None} /\ input.demo \in BOOLEAN \cup {None}
  BY StageAccessAssumption DEF Input, Named, Access

LEMMA SavedTyped ==
  ASSUME users \subseteq Users, NEW row \in Row, NEW input \in Input
  PROVE  /\ Saved(row, input) \in Row
         /\ Saved(row, input).owner \in users \cup {row.owner}
         /\ input.owner = None => Saved(row, input).owner = row.owner
         /\ input.access = None => Saved(row, input).access = row.access
         /\ input.visibility = None => Saved(row, input).visibility = row.visibility
<1>1. /\ Field(row.owner, input.owner) \in Users
      /\ Field(row.owner, input.owner) \in users \cup {row.owner}
      /\ Field(row.demo, input.demo) \in BOOLEAN
      /\ Attribute(row.access, input.access) \in Access
      /\ Attribute(row.visibility, input.visibility) \in {"true", "false", None}
  BY InputTyped DEF Field, Attribute, Row
<1>2. /\ input.owner = None => Field(row.owner, input.owner) = row.owner
      /\ input.access = None => Attribute(row.access, input.access) = row.access
      /\ input.visibility = None => Attribute(row.visibility, input.visibility) = row.visibility
  BY DEF Field, Attribute
<1> QED
  BY <1>1, <1>2 DEF Saved, Row
-------------------------------------------------------------------------------
\* One row is written, typed and owned by somebody who is there.
LEMMA PutKept ==
  ASSUME Kept, NEW s \in Stages, NEW row \in Row, row.owner \in users, Put(s, row),
         users \subseteq users', users' \subseteq Users, gone' = gone, users' \cap gone = {}
  PROVE  Kept'
<1>1. /\ Exists' = Exists \cup {s} /\ stage'[s] = row
      /\ \A t \in Exists \ {s} : stage'[t] = stage[t]
  BY PutRow
<1> QED
  BY <1>1 DEF Kept, TypeOK, OwnersExist

LEMMA SavesKept ==
  ASSUME Kept, NEW u \in users, NEW s \in Stages, NEW input \in Input,
         CreateStage(u, s, input) \/ (s \in Exists /\ UpdateStage(u, s, input))
  PROVE  Kept'
<1>1. PICK row \in Row : row.owner \in users /\ Put(s, Saved(row, input))
  <2>1. CASE CreateStage(u, s, input)
    <3> DEFINE row == [owner |-> u, access |-> None, visibility |-> None, demo |-> FALSE]
    <3>1. row \in Row /\ row.owner = u
      BY DEF Row, Access, Kept, TypeOK
    <3> QED
      BY <2>1, <3>1 DEF CreateStage
  <2>2. CASE s \in Exists /\ UpdateStage(u, s, input)
    BY <2>2 DEF UpdateStage, Kept, TypeOK, OwnersExist
  <2> QED
    BY <2>1, <2>2
<1>2. Saved(row, input) \in Row /\ Saved(row, input).owner \in users
  BY <1>1, SavedTyped DEF Kept, TypeOK
<1> QED
  BY <1>1, <1>2, PutKept DEF CreateStage, UpdateStage, Kept, TypeOK

LEMMA DuplicateKept ==
  ASSUME Kept, NEW u \in users, NEW s \in Exists, NEW t \in Stages, NEW demo \in BOOLEAN,
         DuplicateStage(u, s, t, demo)
  PROVE  Kept'
<1>1. u \in Users /\ stage[s] \in Row
  BY DEF Kept, TypeOK
<1>2. /\ [stage[s] EXCEPT !.owner = u, !.demo = demo] \in Row
      /\ [stage[s] EXCEPT !.owner = u, !.demo = demo].owner \in users
  BY <1>1 DEF Row
<1> QED
  BY <1>2, PutKept DEF DuplicateStage, Kept, TypeOK

LEMMA ToggleKept == ASSUME Kept, NEW u \in users, NEW s \in Exists, UpdateVisibility(u, s)
                    PROVE  Kept'
<1>1. PICK v \in {"true", "false"} : Put(s, [stage[s] EXCEPT !.visibility = v])
  BY DEF UpdateVisibility
<1>2. stage[s] \in Row /\ stage[s].owner \in users /\ s \in Stages
  BY DEF Kept, TypeOK, OwnersExist
<1>3. /\ [stage[s] EXCEPT !.visibility = v] \in Row
      /\ [stage[s] EXCEPT !.visibility = v].owner = stage[s].owner
  BY <1>2 DEF Row
<1> QED
  BY <1>1, <1>2, <1>3, PutKept DEF UpdateVisibility, Kept, TypeOK

\* The row of a stage whose list is rewritten.
LEMMA ListRewritten ==
  ASSUME NEW row \in Row, NEW list \in Access
  PROVE  LET new == [row EXCEPT !.access = list]
         IN /\ new \in Row /\ new.owner = row.owner /\ new.access = list
            /\ new.visibility = row.visibility
  BY DEF Row

LEMMA RegisterKept == ASSUME Kept, NEW u \in Users, Register(u) PROVE Kept'
<1>1. /\ u \notin users \cup gone /\ users' = users \cup {u} /\ gone' = gone
      /\ users \subseteq users' /\ users' \subseteq Users /\ users' \cap gone = {}
  BY DEF Register, Kept, TypeOK
<1>2. CASE UNCHANGED stage
  BY <1>1, <1>2 DEF Kept, TypeOK, OwnersExist, Exists
<1>3. ASSUME NEW s \in Exists, Put(s, [stage[s] EXCEPT !.access = WithPlayer(@, u)]) PROVE Kept'
  <2>1. stage[s] \in Row /\ stage[s].owner \in users /\ s \in Stages
    BY DEF Kept, TypeOK, OwnersExist
  <2>2. stage[s].access \in Access
    BY <2>1 DEF Row
  <2>3. PICK list \in Access : list = WithPlayer(stage[s].access, u)
    BY <2>2, WithPlayerAdds
  <2>4. Put(s, [stage[s] EXCEPT !.access = list])
    BY <1>3, <2>3
  <2> QED
    BY <1>1, <2>1, <2>4, ListRewritten, PutKept
<1> QED
  BY <1>2, <1>3 DEF Register

\* What the deletion of an account leaves of the rows.
LEMMA DeleteUserRows ==
  ASSUME Kept, NEW a, NEW u \in users, DeleteUser(a, u)
  PROVE  /\ users' = users \ {u} /\ gone' = gone \cup {u}
         /\ Exists' \subseteq Exists /\ u \in Users
         /\ \A s \in Exists' : /\ stage[s] \in Row /\ stage[s].owner \in users \ {u}
                               /\ stage[s].access \in Access
                               /\ stage'[s] \in Row /\ stage'[s].owner = stage[s].owner
                               /\ stage'[s].access = Without(stage[s].access, u)
                               /\ stage'[s].visibility = stage[s].visibility
<1>1. /\ users' = users \ {u} /\ gone' = gone \cup {u} /\ u \in Users
      /\ stage' = [s \in Exists \ OwnStages(u) |-> [stage[s] EXCEPT !.access = Without(@, u)]]
  BY DEF DeleteUser, Kept, TypeOK
<1>2. Exists' = Exists \ OwnStages(u)
  BY <1>1 DEF Exists
<1>3. ASSUME NEW s \in Exists'
      PROVE  /\ stage[s] \in Row /\ stage[s].owner \in users \ {u} /\ stage[s].access \in Access
             /\ stage'[s] \in Row /\ stage'[s].owner = stage[s].owner
             /\ stage'[s].access = Without(stage[s].access, u)
             /\ stage'[s].visibility = stage[s].visibility
  <2>1. stage[s] \in Row /\ stage[s].owner \in users \ {u}
    BY <1>2, <1>3 DEF Kept, TypeOK, OwnersExist, OwnStages
  <2>2. stage[s].access \in Access
    BY <2>1 DEF Row
  <2>3. PICK list \in Access : list = Without(stage[s].access, u)
    BY <1>1, <2>2, WithoutRemoves
  <2>4. stage'[s] = [stage[s] EXCEPT !.access = list]
    BY <1>1, <1>2, <2>3
  <2> QED
    BY <2>1, <2>2, <2>3, <2>4, ListRewritten
<1> QED
  BY <1>1, <1>2, <1>3

LEMMA DeleteUserKept == ASSUME Kept, NEW a, NEW u \in users, DeleteUser(a, u) PROVE Kept'
  BY DeleteUserRows DEF Kept, TypeOK, OwnersExist

LEMMA DeleteStageKept == ASSUME Kept, NEW u, NEW s, DeleteStage(u, s) PROVE Kept'
<1>1. Exists' = Exists \ {s} /\ \A t \in Exists' : stage'[t] = stage[t]
  BY DEF DeleteStage, Exists
<1> QED
  BY <1>1 DEF DeleteStage, Kept, TypeOK, OwnersExist

\* The steps, one action each.
LEMMA Steps ==
  ASSUME [Next]_vars
  PROVE  \/ \E u \in Users : Register(u)
         \/ \E a \in users, u \in users : DeleteUser(a, u)
         \/ \E u \in users, s \in Stages, input \in Named : CreateStage(u, s, input)
         \/ \E u \in users, s \in Exists, input \in Input : UpdateStage(u, s, input)
         \/ \E u \in users, s \in Exists, t \in Stages, demo \in BOOLEAN : DuplicateStage(u, s, t, demo)
         \/ \E u \in users, s \in Exists : DeleteStage(u, s)
         \/ \E u \in users, s \in Exists : UpdateVisibility(u, s)
         \/ UNCHANGED vars
<1>1. ASSUME NEW a \in users, NEW u \in Users, DeleteUser(a, u) PROVE u \in users
  BY <1>1 DEF DeleteUser
<1> QED
  BY <1>1, Zenon DEF Next

LEMMA StepKept == Kept /\ [Next]_vars => Kept'
<1> SUFFICES ASSUME Kept, [Next]_vars PROVE Kept'
  OBVIOUS
<1>1. CASE UNCHANGED vars
  BY <1>1 DEF vars, Kept, TypeOK, OwnersExist, Exists
<1>2. Exists \subseteq Stages /\ Named \subseteq Input
  BY Zenon DEF Kept, TypeOK, Input
<1>3. ASSUME NEW u \in users, NEW s \in Stages, NEW input \in Named, CreateStage(u, s, input)
      PROVE  Kept'
  BY <1>2, <1>3, SavesKept
<1>4. ASSUME NEW u \in users, NEW s \in Exists, NEW input \in Input, UpdateStage(u, s, input)
      PROVE  Kept'
  BY <1>2, <1>4, SavesKept
<1> QED
  BY <1>1, <1>3, <1>4, Steps, DuplicateKept, ToggleKept, RegisterKept, DeleteUserKept,
     DeleteStageKept, Zenon
-------------------------------------------------------------------------------
Both == Exists \cap Exists'

\* What a step does to the row of a stage that is there before and after.
LEMMA StepOnRow ==
  ASSUME Kept, [Next]_vars, NEW s \in Both
  PROVE  \/ stage'[s] = stage[s] /\ users \subseteq users'
         \/ \E u \in users, input \in Input :
              UpdateStage(u, s, input) /\ stage'[s] = Saved(stage[s], input) /\ users' = users
         \/ \E u \in users : /\ UpdateVisibility(u, s) /\ users' = users
                             /\ stage'[s].owner = stage[s].owner
                             /\ stage'[s].access = stage[s].access
         \/ \E u \in Users \ users : /\ users' = users \cup {u}
                                     /\ stage'[s].owner = stage[s].owner
                                     /\ stage'[s].access = WithPlayer(stage[s].access, u)
                                     /\ stage'[s].visibility = stage[s].visibility
         \/ \E a \in users, u \in users : DeleteUser(a, u)
<1>1. stage[s] \in Row /\ stage[s].access \in Access /\ s \in Exists
  BY DEF Both, Kept, TypeOK, Row
<1>2. ASSUME NEW u \in users, NEW t \in Stages, NEW input \in Named, CreateStage(u, t, input)
      PROVE  stage'[s] = stage[s] /\ users' = users
  BY <1>1, <1>2, PutRow DEF CreateStage
<1>3. ASSUME NEW u \in users, NEW t \in Exists, NEW input \in Input, UpdateStage(u, t, input)
      PROVE  users' = users /\ stage'[s] = IF s = t THEN Saved(stage[s], input) ELSE stage[s]
  BY <1>1, <1>3, PutRow DEF UpdateStage
<1>4. ASSUME NEW u \in users, NEW r \in Exists, NEW t \in Stages, NEW demo \in BOOLEAN,
             DuplicateStage(u, r, t, demo)
      PROVE  stage'[s] = stage[s] /\ users' = users
  BY <1>1, <1>4, PutRow DEF DuplicateStage
<1>5. ASSUME NEW u, NEW t, DeleteStage(u, t) PROVE stage'[s] = stage[s] /\ users' = users
  BY <1>5 DEF DeleteStage, Both, Exists
<1>6. ASSUME NEW u \in users, NEW t \in Exists, UpdateVisibility(u, t)
      PROVE  /\ users' = users
             /\ s # t => stage'[s] = stage[s]
             /\ stage'[s].owner = stage[s].owner /\ stage'[s].access = stage[s].access
  <2>1. PICK v : Put(t, [stage[t] EXCEPT !.visibility = v])
    BY <1>6 DEF UpdateVisibility
  <2>2. s # t => stage'[s] = stage[s]
    BY <1>1, <2>1, PutRow
  <2>3. s = t => stage'[s] = [stage[s] EXCEPT !.visibility = v]
    BY <2>1, PutRow
  <2>4. stage'[s].owner = stage[s].owner /\ stage'[s].access = stage[s].access
    BY <1>1, <2>2, <2>3 DEF Row
  <2> QED
    BY <1>6, <2>2, <2>4 DEF UpdateVisibility
<1>7. ASSUME NEW u \in Users, Register(u)
      PROVE  /\ u \notin users /\ users' = users \cup {u}
             /\ \/ stage'[s] = stage[s]
                \/ /\ stage'[s].owner = stage[s].owner
                   /\ stage'[s].access = WithPlayer(stage[s].access, u)
                   /\ stage'[s].visibility = stage[s].visibility
  <2>1. u \notin users /\ users' = users \cup {u}
    BY <1>7 DEF Register
  <2>2. ASSUME NEW t \in Exists, Put(t, [stage[t] EXCEPT !.access = WithPlayer(@, u)])
        PROVE  \/ stage'[s] = stage[s]
               \/ /\ stage'[s].owner = stage[s].owner
                  /\ stage'[s].access = WithPlayer(stage[s].access, u)
                  /\ stage'[s].visibility = stage[s].visibility
    <3>1. s # t => stage'[s] = stage[s]
      BY <1>1, <2>2, PutRow
    <3>2. PICK list \in Access : list = WithPlayer(stage[s].access, u)
      BY <1>1, WithPlayerAdds
    <3>3. s = t => stage'[s] = [stage[s] EXCEPT !.access = list]
      BY <2>2, <3>2, PutRow
    <3>4. LET new == [stage[s] EXCEPT !.access = list]
          IN new.owner = stage[s].owner /\ new.access = list /\ new.visibility = stage[s].visibility
      BY <1>1, ListRewritten
    <3> QED
      BY <3>1, <3>2, <3>3, <3>4
  <2> QED
    BY <1>7, <2>1, <2>2 DEF Register
<1>8. CASE UNCHANGED vars
  BY <1>8 DEF vars
<1>9. ASSUME NEW u \in users, NEW t \in Exists, NEW input \in Input, UpdateStage(u, t, input)
      PROVE  \/ stage'[s] = stage[s] /\ users' = users
             \/ UpdateStage(u, s, input) /\ stage'[s] = Saved(stage[s], input) /\ users' = users
  BY <1>3, <1>9
<1>10. ASSUME NEW u \in users, NEW t \in Exists, UpdateVisibility(u, t)
       PROVE  \/ stage'[s] = stage[s] /\ users' = users
              \/ /\ UpdateVisibility(u, s) /\ users' = users
                 /\ stage'[s].owner = stage[s].owner /\ stage'[s].access = stage[s].access
  BY <1>6, <1>10
<1> QED
  BY <1>2, <1>4, <1>5, <1>7, <1>8, <1>9, <1>10, Steps

\* The permission of an account is what the row's owner and list say of it.
LEMMA SamePermission ==
  ASSUME NEW s, NEW v, stage'[s].owner = stage[s].owner, stage'[s].access = stage[s].access
  PROVE  Permission(v, s)' = Permission(v, s)
  BY DEF Permission

LEMMA SamePlaces ==
  ASSUME NEW s, NEW v, stage'[s].owner = stage[s].owner,
         NEW list \in Access, NEW new \in Access, list = stage[s].access, new = stage'[s].access,
         list \in {None, Odd} <=> new \in {None, Odd},
         list \notin {None, Odd} =>
           /\ Len(new) = Len(list)
           /\ \A i \in 1..Len(list) : v \in new[i] <=> v \in list[i]
  PROVE  Permission(v, s)' = Permission(v, s)
<1>1. CASE list \in {None, Odd} \/ Len(list) # 2
  BY <1>1 DEF Permission
<1>2. CASE list \notin {None, Odd} /\ Len(list) = 2
  <2>1. 1 \in 1..Len(list) /\ 2 \in 1..Len(list)
    BY <1>2
  <2>2. (v \in new[1] <=> v \in list[1]) /\ (v \in new[2] <=> v \in list[2])
    BY <1>2, <2>1
  <2> QED
    BY <1>2, <2>2 DEF Permission
<1> QED
  BY <1>1, <1>2

Forgotten ==
  \A u \in users \ users', s \in Exists' :
    /\ stage'[s].access \in {None, Odd} \/ \A i \in DOMAIN stage'[s].access :
                                                u \notin stage'[s].access[i]
    /\ \A v \in users' : Permission(v, s)' = Permission(v, s)

ChangedBySaves ==
  \A s \in Exists \cap Exists', v \in users \cap users' :
    Permission(v, s)' # Permission(v, s) =>
      \E u \in users, input \in Input :
        (input.owner # None \/ input.access # None) /\ UpdateStage(u, s, input)

ShownAsNamed ==
  \A s \in Exists \cap Exists' :
    InFoyer(s) # InFoyer(s)' =>
      \E u \in users :
        \/ UpdateVisibility(u, s)
        \/ \E input \in Input : input.visibility # None /\ UpdateStage(u, s, input)

\* The others keep their places when an account goes.
LEMMA DeletionKeepsPlaces ==
  ASSUME Kept, NEW a, NEW u \in users, DeleteUser(a, u), NEW s \in Exists', NEW v \in users'
  PROVE  Permission(v, s)' = Permission(v, s)
<1>1. /\ stage[s].access \in Access /\ stage'[s].owner = stage[s].owner
      /\ stage'[s].access = Without(stage[s].access, u) /\ u \in Users /\ v # u
  BY DeleteUserRows
<1>2. PICK list \in Access, new \in Access :
        list = stage[s].access /\ new = stage'[s].access /\ new = Without(list, u)
  BY <1>1, WithoutRemoves
<1>3. list \in {None, Odd} <=> new \in {None, Odd}
  BY <1>1, <1>2, WithoutRemoves
<1>4. ASSUME list \notin {None, Odd}
      PROVE  Len(new) = Len(list) /\ \A i \in 1..Len(list) : v \in new[i] <=> v \in list[i]
  BY <1>1, <1>2, <1>4, WithoutRemoves
<1> QED
  BY <1>1, <1>2, <1>3, <1>4, SamePlaces

LEMMA AreForgotten == ASSUME Kept, [Next]_vars PROVE Forgotten
<1> SUFFICES ASSUME NEW u \in users \ users', NEW s \in Exists'
             PROVE  /\ stage'[s].access \in {None, Odd} \/ \A i \in DOMAIN stage'[s].access :
                                                               u \notin stage'[s].access[i]
                    /\ \A v \in users' : Permission(v, s)' = Permission(v, s)
  BY DEF Forgotten
<1>1. PICK a, w \in users : DeleteUser(a, w)
  BY Steps DEF vars, Register, CreateStage, UpdateStage, DuplicateStage, DeleteStage,
               UpdateVisibility
<1>2. /\ u = w /\ u \in Users /\ stage[s].access \in Access
      /\ stage'[s].access = Without(stage[s].access, u)
  BY <1>1, DeleteUserRows
<1>3. PICK list \in Access : list = stage[s].access /\ stage'[s].access = Without(list, u)
  BY <1>2
<1>4. stage'[s].access \in {None, Odd} \/ \A i \in DOMAIN stage'[s].access :
                                              u \notin stage'[s].access[i]
  BY <1>2, <1>3, WithoutRemoves
<1> QED
  BY <1>1, <1>4, DeletionKeepsPlaces

LEMMA SavesChange == ASSUME Kept, [Next]_vars PROVE ChangedBySaves
<1> SUFFICES ASSUME NEW s \in Both, NEW v \in users \cap users',
                    Permission(v, s)' # Permission(v, s)
             PROVE  \E u \in users, input \in Input :
                      (input.owner # None \/ input.access # None) /\ UpdateStage(u, s, input)
  BY DEF ChangedBySaves, Both
<1>1. stage[s] \in Row /\ stage[s].access \in Access /\ users \subseteq Users
  BY DEF Both, Kept, TypeOK, Row
<1>2. ~(stage'[s].owner = stage[s].owner /\ stage'[s].access = stage[s].access)
  BY SamePermission
<1>3. ASSUME NEW u \in users, NEW input \in Input, UpdateStage(u, s, input),
             stage'[s] = Saved(stage[s], input)
      PROVE  input.owner # None \/ input.access # None
  BY <1>1, <1>2, <1>3, SavedTyped
<1>4. ASSUME NEW u \in Users \ users, stage'[s].owner = stage[s].owner,
             stage'[s].access = WithPlayer(stage[s].access, u)
      PROVE  FALSE
  <2>1. PICK list \in Access, new \in Access :
          list = stage[s].access /\ new = stage'[s].access /\ new = WithPlayer(list, u)
    BY <1>1, <1>4, WithPlayerAdds
  <2>2. list \notin {None, Odd, <<>>}
    BY <1>2, <1>4, <2>1, WithPlayerAdds
  <2>3. list \notin {None, Odd} /\ new \notin {None, Odd} /\ Len(new) = Len(list)
    BY <2>1, <2>2, WithPlayerAdds
  <2>4. v \in Users \ {u}
    BY <1>1
  <2>5. \A i \in 1..Len(list) : v \in new[i] <=> v \in list[i]
    BY <2>1, <2>2, <2>4, WithPlayerAdds
  <2> QED
    BY <1>4, <2>1, <2>3, <2>5, SamePlaces
<1>5. ASSUME NEW a \in users, NEW u \in users, DeleteUser(a, u) PROVE FALSE
  BY <1>5, DeletionKeepsPlaces DEF Both
<1> QED
  BY <1>2, <1>3, <1>4, <1>5, StepOnRow

LEMMA FoyerNamed == ASSUME Kept, [Next]_vars PROVE ShownAsNamed
<1> SUFFICES ASSUME NEW s \in Both, stage[s].visibility # stage'[s].visibility
             PROVE  \E u \in users :
                      \/ UpdateVisibility(u, s)
                      \/ \E input \in Input : input.visibility # None /\ UpdateStage(u, s, input)
  BY DEF ShownAsNamed, Both, InFoyer
<1>1. stage[s] \in Row /\ users \subseteq Users
  BY DEF Both, Kept, TypeOK
<1>2. ASSUME NEW u \in users, NEW input \in Input, stage'[s] = Saved(stage[s], input)
      PROVE  input.visibility # None
  BY <1>1, <1>2, SavedTyped
<1>3. ASSUME NEW a \in users, NEW u \in users, DeleteUser(a, u) PROVE FALSE
  BY <1>3, DeleteUserRows DEF Both
<1> QED
  BY <1>2, <1>3, StepOnRow

\* No stage outlives its owner, a deleted account is in nobody's list, and what one may
\* do on a stage changes with a save of its owner or lists and in no other way.
THEOREM PlacesAreKept == Spec => PlacesKept
<1>1. Kept => TypeOK /\ OwnersExist
  BY DEF Kept
<1>2. Kept /\ [Next]_vars => [Forgotten]_vars /\ [ChangedBySaves]_vars
  BY AreForgotten, SavesChange
<1> QED
  BY <1>1, <1>2, InitKept, StepKept, PTL
  DEF Spec, PlacesKept, ForgottenWhenDeleted, PlacesChangedBySaves, Forgotten, ChangedBySaves

\* A stage enters and leaves the foyer with a toggle or a form that names the field,
\* whatever else is saved, duplicated, registered or deleted.
THEOREM FoyerIsAsNamed == Spec => FoyerAsNamed
<1>1. Kept /\ [Next]_vars => [ShownAsNamed]_vars
  BY FoyerNamed
<1> QED
  BY <1>1, InitKept, StepKept, PTL DEF Spec, FoyerAsNamed, ShownAsNamed
-------------------------------------------------------------------------------
(***************************************************************************)
(* Scenes, in the behaviours that show them                                *)
(***************************************************************************)
\* Ids come from a sequence, and a stage has finitely many scenes to count.
ScenesHeld == /\ C!TypeOK /\ C!NamesChosenOnce
              /\ \A b, c \in scenes : b.id = c.id => b = c
              /\ IsFiniteSet(scenes)

LEMMA ScenesInit == C!Init => ScenesHeld
  BY FS_EmptySet DEF C!Init, ScenesHeld, C!TypeOK, C!NamesChosenOnce, C!Active, C!On

\* The order of a new scene is a number above the count of the stage's scenes.
LEMMA OrderIsNext ==
  ASSUME ScenesHeld, NEW s
  PROVE  /\ Cardinality(C!On(s)) \in Nat /\ C!Order(s) = C!Cardinality(C!On(s)) + 1
         /\ C!Cardinality(C!On(s)) = Cardinality(C!On(s))
<1>1. C!On(s) \in SUBSET scenes
  BY DEF C!On
<1>2. IsFiniteSet(C!On(s))
  BY <1>1, FS_Subset DEF ScenesHeld
<1>3. C!Cardinality(C!On(s)) = Cardinality(C!On(s))
  BY DEF C!Cardinality, Cardinality
<1> QED
  BY <1>2, <1>3, FS_CardinalityType DEF C!Order

\* The row that saveScene adds, and what its guard says of it.
SavedScene(u, s, name) ==
  [id |-> top + 1, stage |-> s, owner |-> u, order |-> C!Order(s), active |-> TRUE,
   name |-> IF name = Untitled THEN C!Order(s) ELSE name]

LEMMA SavedSceneTyped ==
  ASSUME ScenesHeld, NEW u \in accounts, NEW s \in boards, NEW name \in Titles \cup {Untitled}
  PROVE  /\ SavedScene(u, s, name) \in C!Scene
         /\ SavedScene(u, s, name).id = top + 1 /\ SavedScene(u, s, name).stage = s
         /\ SavedScene(u, s, name).owner = u
         /\ SavedScene(u, s, name).order = Cardinality(C!On(s)) + 1
         /\ SavedScene(u, s, name).name = IF name = Untitled THEN C!Order(s) ELSE name
<1>1. Cardinality(C!On(s)) \in Nat /\ C!Order(s) = Cardinality(C!On(s)) + 1
  BY OrderIsNext
<1>2. top \in Nat /\ u \in Owners /\ s \in Boards
  BY DEF ScenesHeld, C!TypeOK
<1> QED
  BY <1>1, <1>2 DEF SavedScene, C!Scene

LEMMA SceneSaved ==
  ASSUME ScenesHeld, NEW u \in accounts, NEW s \in boards, NEW name \in Titles \cup {Untitled},
         C!CreateScene(u, s, name)
  PROVE  ScenesHeld'
<1>1. PICK c0 \in C!Scene : c0 = SavedScene(u, s, name)
  BY SavedSceneTyped
<1>2. /\ c0.id = top + 1 /\ c0.stage = s /\ c0.owner = u
      /\ c0.order = C!Order(s) /\ c0.name = IF name = Untitled THEN C!Order(s) ELSE name
  BY <1>1, SavedSceneTyped, OrderIsNext
<1>3. /\ scenes' = scenes \cup {c0} /\ top' = top + 1
      /\ ~C!Taken(s, name) /\ UNCHANGED <<accounts, boards>>
  BY <1>1 DEF C!CreateScene, SavedScene
<1>4. top \in Nat /\ \A c \in scenes : c \in C!Scene /\ c.id \in Nat /\ c.id <= top
  BY DEF ScenesHeld, C!TypeOK, C!Scene
<1>5. C!TypeOK'
  BY <1>2, <1>3, <1>4 DEF ScenesHeld, C!TypeOK
<1>6. C!NamesChosenOnce'
  <2> SUFFICES ASSUME NEW t \in boards, NEW b \in scenes', NEW c \in scenes',
                      b.stage = t, c.stage = t, b.active, c.active,
                      b.id < c.id, b.name = c.name
               PROVE  c.name = c.order
    BY <1>3 DEF C!NamesChosenOnce, C!Active, C!On
  <2>1. CASE c # c0
    <3>1. b # c0 /\ b \in scenes /\ c \in scenes
      BY <1>2, <1>3, <1>4, <2>1
    <3> QED
      BY <3>1 DEF ScenesHeld, C!NamesChosenOnce, C!Active, C!On
  <2>2. CASE c = c0
    <3>1. b # c0 /\ b \in scenes
      BY <1>2, <1>3, <1>4, <2>2
    <3>2. name = Untitled
      BY <1>2, <1>3, <2>2, <3>1 DEF C!Taken, C!Active, C!On
    <3> QED
      BY <1>2, <2>2, <3>2
  <2> QED
    BY <2>1, <2>2
<1>7. (\A b, c \in scenes : b.id = c.id => b = c)'
  BY <1>2, <1>3, <1>4 DEF ScenesHeld
<1>8. IsFiniteSet(scenes)'
  BY <1>3, FS_AddElement DEF ScenesHeld
<1> QED
  BY <1>5, <1>6, <1>7, <1>8 DEF ScenesHeld

\* What is left of a scene that is deleted: all but its place among the active.
LEMMA MarkedScene ==
  ASSUME ScenesHeld, NEW c \in scenes
  PROVE  \E d \in C!Scene : /\ C!Marked(c) = {d} /\ d = [c EXCEPT !.active = FALSE] /\ ~d.active
                            /\ d.id = c.id /\ d.stage = c.stage /\ d.owner = c.owner
                            /\ d.name = c.name /\ d.order = c.order
<1> DEFINE d == [c EXCEPT !.active = FALSE]
<1>1. c \in C!Scene
  BY DEF ScenesHeld, C!TypeOK
<1>2. /\ d \in C!Scene /\ d.id = c.id /\ d.stage = c.stage /\ d.owner = c.owner
      /\ d.name = c.name /\ d.order = c.order
  BY <1>1 DEF C!Scene
<1>3. ~d.active
  BY <1>1 DEF C!Scene
<1>4. C!Marked(c) = {d}
  BY DEF C!Marked
<1> QED
  BY <1>2, <1>3, <1>4

LEMMA SceneDeleted ==
  ASSUME ScenesHeld, NEW u \in accounts, NEW c \in scenes, C!DeleteScene(u, c) PROVE ScenesHeld'
<1>1. PICK d \in C!Scene : /\ C!Marked(c) = {d} /\ ~d.active
                           /\ d.id = c.id /\ d.stage = c.stage /\ d.owner = c.owner
                           /\ d.name = c.name /\ d.order = c.order
  BY MarkedScene
<1>2. scenes' = (scenes \ {c}) \cup {d} /\ UNCHANGED <<accounts, boards, top>>
  BY <1>1 DEF C!DeleteScene
<1>3. C!TypeOK' /\ C!NamesChosenOnce'
  <2>1. C!TypeOK'
    BY <1>1, <1>2 DEF ScenesHeld, C!TypeOK
  <2>2. \A a \in scenes' : a.active => a \in scenes
    BY <1>1, <1>2
  <2>3. C!NamesChosenOnce'
    BY <1>2, <2>2 DEF ScenesHeld, C!NamesChosenOnce, C!Active, C!On
  <2> QED
    BY <2>1, <2>3
<1>4. (\A a, b \in scenes : a.id = b.id => a = b)'
  BY <1>1, <1>2 DEF ScenesHeld
<1>5. IsFiniteSet(scenes)'
  BY <1>2, FS_AddElement, FS_Subset DEF ScenesHeld
<1> QED
  BY <1>3, <1>4, <1>5 DEF ScenesHeld

\* Rows go: with their stage, or with their owner.
LEMMA ScenesLost ==
  ASSUME ScenesHeld, scenes' \subseteq scenes, UNCHANGED top,
         accounts' \subseteq accounts, boards' \subseteq boards,
         \A c \in scenes' : c.stage \in boards' /\ c.owner \in accounts'
  PROVE  ScenesHeld'
<1>1. C!TypeOK' /\ C!NamesChosenOnce'
  BY DEF ScenesHeld, C!TypeOK, C!NamesChosenOnce, C!Active, C!On
<1>2. IsFiniteSet(scenes)'
  BY FS_Subset DEF ScenesHeld
<1> QED
  BY <1>1, <1>2 DEF ScenesHeld

LEMMA ScenesStep == ScenesHeld /\ [C!Next]_C!vars => ScenesHeld'
<1> SUFFICES ASSUME ScenesHeld, [C!Next]_C!vars PROVE ScenesHeld'
  OBVIOUS
<1>1. ASSUME NEW s \in boards, C!DeleteBoard(s) PROVE ScenesHeld'
  <2>1. \A c \in scenes : c.stage \in boards /\ c.owner \in accounts
    BY DEF ScenesHeld, C!TypeOK
  <2> QED
    BY <1>1, <2>1, ScenesLost DEF C!DeleteBoard, C!On
<1>2. ASSUME NEW u \in accounts, NEW own \in SUBSET boards, C!DeleteOwner(u, own) PROVE ScenesHeld'
  <2>1. \A c \in scenes : c.stage \in boards /\ c.owner \in accounts
    BY DEF ScenesHeld, C!TypeOK
  <2> QED
    BY <1>2, <2>1, ScenesLost DEF C!DeleteOwner
<1>3. CASE UNCHANGED C!vars
  BY <1>3 DEF C!vars, ScenesHeld, C!TypeOK, C!NamesChosenOnce, C!Active, C!On
<1> QED
  BY <1>1, <1>2, <1>3, SceneSaved, SceneDeleted DEF C!Next
-------------------------------------------------------------------------------
ComesLast ==
  \A s \in boards : \A c \in scenes' :
    c.id = top + 1 /\ c.stage = s /\ {b.order : b \in C!On(s)} = 1..C!Cardinality(C!On(s)) =>
      \A b \in C!On(s) : b.order < c.order

ReplaysFind ==
  \A c \in scenes : c.stage \in boards' /\ c.owner \in accounts' =>
    \E d \in scenes' : /\ d = [c EXCEPT !.active = d.active]
                       /\ d.active => c.active

\* A scene of an id that is new is the one a CreateScene adds.
LEMMA SceneComesLast == ASSUME ScenesHeld, [C!Next]_C!vars PROVE ComesLast
<1> SUFFICES ASSUME NEW s \in boards, NEW c \in scenes', c.id = top + 1, c.stage = s,
                    {b.order : b \in C!On(s)} = 1..C!Cardinality(C!On(s)), NEW b \in C!On(s)
             PROVE  b.order < c.order
  BY DEF ComesLast
<1>1. top \in Nat /\ \A a \in scenes : a.id \in Nat /\ a.id <= top
  BY DEF ScenesHeld, C!TypeOK, C!Scene
<1>2. c.id \notin {a.id : a \in scenes}
  BY <1>1
<1>3. PICK u \in accounts, t \in boards, name \in Titles \cup {Untitled} : C!CreateScene(u, t, name)
  <2>1. ASSUME NEW u \in accounts, NEW a \in scenes, C!DeleteScene(u, a) PROVE FALSE
    <3>1. PICK d : C!Marked(a) = {d} /\ d.id = a.id
      BY MarkedScene
    <3> QED
      BY <1>2, <2>1, <3>1 DEF C!DeleteScene
  <2>2. ASSUME NEW t \in boards, C!DeleteBoard(t) PROVE FALSE
    BY <1>2, <2>2 DEF C!DeleteBoard
  <2>3. ASSUME NEW u \in accounts, NEW own \in SUBSET boards, C!DeleteOwner(u, own) PROVE FALSE
    BY <1>2, <2>3 DEF C!DeleteOwner
  <2>4. scenes' # scenes
    BY <1>2
  <2> QED
    BY <2>1, <2>2, <2>3, <2>4 DEF C!Next, C!vars
<1>4. scenes' = scenes \cup {SavedScene(u, t, name)}
  BY <1>3 DEF C!CreateScene, SavedScene
<1>5. c = SavedScene(u, t, name)
  BY <1>2, <1>4
<1>6. t = s /\ c.order = Cardinality(C!On(s)) + 1 /\ Cardinality(C!On(s)) \in Nat
  BY <1>5, SavedSceneTyped, OrderIsNext
<1>7. b.order \in 1..Cardinality(C!On(s))
  BY OrderIsNext
<1> QED
  BY <1>6, <1>7

LEMMA ReplaysStay == ASSUME ScenesHeld, [C!Next]_C!vars PROVE ReplaysFind
<1> SUFFICES ASSUME NEW c \in scenes, c.stage \in boards', c.owner \in accounts'
             PROVE  \E d \in scenes' : d = [c EXCEPT !.active = d.active] /\ (d.active => c.active)
  BY DEF ReplaysFind
<1>1. c = [c EXCEPT !.active = c.active] /\ c \in C!Scene
  BY DEF ScenesHeld, C!TypeOK, C!Scene
<1>2. CASE c \in scenes'
  BY <1>1, <1>2
<1>3. CASE c \notin scenes'
  <2>1. PICK u \in accounts : C!DeleteScene(u, c)
    BY <1>3 DEF C!Next, C!vars, C!CreateScene, C!DeleteScene, C!DeleteBoard, C!DeleteOwner, C!On
  <2>2. PICK d \in C!Scene : C!Marked(c) = {d} /\ d = [c EXCEPT !.active = FALSE] /\ ~d.active
    BY MarkedScene
  <2>3. d \in scenes' /\ d.active = FALSE
    BY <2>1, <2>2 DEF C!DeleteScene, C!Scene
  <2> QED
    BY <2>2, <2>3
<1> QED
  BY <1>2, <1>3

\* A step of the whole is a step of the scenes, or they rest.
LEMMA ScenesOfWhole == [MCNext]_<<part, vars, C!vars>> => [C!Next]_C!vars
  BY DEF MCNext, C!vars

\* Scenes keep names that were chosen apart, come last in their stage's list, and go
\* only with their stage or owner, so that recordings find them.
THEOREM ScenesAreKept == MCSpec => ScenesKept
<1>1. MCInit => ScenesHeld
  BY ScenesInit DEF MCInit
<1>2. ScenesHeld => C!TypeOK /\ C!NamesChosenOnce
  BY DEF ScenesHeld
<1>3. ScenesHeld /\ [C!Next]_C!vars => [ComesLast]_C!vars /\ [ReplaysFind]_C!vars
  BY SceneComesLast, ReplaysStay
<1>4. ScenesHeld /\ [MCNext]_<<part, vars, C!vars>> =>
        ScenesHeld' /\ [ComesLast]_C!vars /\ [ReplaysFind]_C!vars
  BY <1>3, ScenesStep, ScenesOfWhole
<1> QED
  BY <1>1, <1>2, <1>4, PTL
  DEF MCSpec, ScenesKept, C!ScenesKept, C!NewSceneComesLast, C!ScenesStayForReplays, ComesLast, ReplaysFind
===============================================================================
