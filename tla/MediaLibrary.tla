----------------------------- MODULE MediaLibrary -----------------------------
(***************************************************************************)
(* The media of the studio: which stages an item is assigned to and in     *)
(* which order (parent_stage), who may use it and who is told so           *)
(* (asset_usage and the bell), and what happens to both when items, stages *)
(* and users go. No mutation awaits after its first write, so each is one  *)
(* step; one that raises is rolled back and is no step. Files on disk,     *)
(* tags, licences and the dormant flag (all that deleteMediaOnStage ever   *)
(* sets, see README) are left out.                                         *)
(***************************************************************************)
EXTENDS Integers, Sequences, FiniteSets, FiniteSetsExt, Functions

CONSTANTS
  Users, Admins,        \* the accounts, and those with an admin's role
  Canonical,            \* the account of CANONICAL_ADMIN_USERNAME
  Stages,
  Media, Placeholder,   \* media items, and the one that stands for deleted ones
  Kinds,                \* media types
  KeptKinds,            \* KEEP_MEDIA_TYPES_ON_REASSIGN
  SoundKinds,           \* NON_SUBSTITUTABLE_MEDIA_TYPES
  Levels,               \* the copyright levels in use
  Exits, None,          \* exit settings, and NULL (both exit fields behave alike)
  UserLists,            \* the lists of users saveMedia may be given
  MaxWanted,            \* bounds: assignments in one input,
  MaxLink, MaxUsage     \* ids of parent_stage and of asset_usage

ASSUME MediaAssumption ==
  /\ Admins \subseteq Users /\ Canonical \in Admins
  /\ Placeholder \in Media
  /\ KeptKinds \subseteq Kinds /\ SoundKinds \subseteq Kinds /\ Kinds \ SoundKinds # {}
  /\ Levels \subseteq 0..3 /\ 0 \in Levels
  /\ None \notin Exits
  /\ UserLists \subseteq SUBSET Users /\ \A listed \in UserLists : IsFiniteSet(listed)
  /\ MaxWanted \in Nat /\ MaxLink \in Nat /\ MaxUsage \in Nat

VARIABLES
  users,    \* the accounts that exist
  stages,   \* the stages that exist
  media,    \* the items that exist, with their owner, kind and copyright level
  links,    \* the rows of parent_stage
  usages    \* the rows of asset_usage

vars == <<users, stages, media, links, usages>>

Strict == 2   \* the level at which a use needs approval

Item == [owner : Users, kind : Kinds, level : Levels]
Link == [id : Nat, stage : Stages, media : Media, exit : Exits \cup {None}]
Usage == [id : Nat, media : Media, user : Users, approved : BOOLEAN,
          ownerSeen : BOOLEAN, requesterSeen : BOOLEAN]

Items == DOMAIN media
Put(m, item) == [x \in Items \cup {m} |-> IF x = m THEN item ELSE media[x]]
Without(S) == [x \in Items \ S |-> media[x]]

\* Mutant: ids are counted, and come again.
TopCounted(rows) == Cardinality(rows)

\* New rows have ids above all others of their table.
Top(rows) == Max({r.id : r \in rows} \cup {0})

LinksOf(s, m) == {l \in links : l.stage = s /\ l.media = m}
OnStage(s, m) == LinksOf(s, m) # {}
Place(s, m) == Min({l.id : l \in LinksOf(s, m)})
ExitsOf(s, m) == {l.exit : l \in LinksOf(s, m)}
UsagesOf(m, u) == {r \in usages : r.media = m /\ r.user = u}

Init == /\ users = Users
        /\ stages = {}
        /\ media = [m \in {} |-> 0]
        /\ links = {} /\ usages = {}
-------------------------------------------------------------------------------
(***************************************************************************)
(* Stages and their assignments                                            *)
(***************************************************************************)
CreateStage(s) ==
  /\ s \notin stages
  /\ stages' = stages \cup {s}
  /\ UNCHANGED <<users, media, links, usages>>

\* Whoever may edit the stage, its playerAccess included.
DeleteStage(s) ==
  /\ s \in stages
  /\ stages' = stages \ {s}
  /\ links' = {l \in links : l.stage # s}
  /\ UNCHANGED <<users, media, usages>>

\* copy_data reads the rows of s without an order and adds them so.
DuplicateStage(s, t) ==
  /\ s \in stages /\ t \notin stages
  /\ stages' = stages \cup {t}
  /\ LET rows == {l \in links : l.stage = s}
         ids == (Top(links) + 1)..(Top(links) + Cardinality(rows))
     IN \E id \in Bijection(rows, ids) :
          links' = links \cup {[l EXCEPT !.id = id[l], !.stage = t] : l \in rows}
  /\ UNCHANGED <<users, media, usages>>

\* assign_media, by the owner of s or an admin: all rows of s are written anew, with
\* what the snapshot has of their exits; of two rows of one item it has either.
Rearranged(s, list, exit) ==
  {l \in links : l.stage # s}
    \cup {[id |-> Top(links) + i, stage |-> s, media |-> list[i], exit |-> exit[list[i]]] :
          i \in DOMAIN list}

\* Mutant: the rows are written anew without a snapshot.
SnapshotsBare(s, S) == {[m \in S |-> None]}

Snapshots(s, S) ==
  {exit \in [S -> Exits \cup {None}] :
     \A m \in S : exit[m] \in IF OnStage(s, m) THEN ExitsOf(s, m) ELSE {None}}

AssignMedia(s, list) ==
  /\ s \in stages
  /\ \E exit \in Snapshots(s, Range(list)) : links' = Rearranged(s, list, exit)
  /\ UNCHANGED <<users, stages, media, usages>>

\* The positions of wanted at which a stage comes for the first time.
Firsts(wanted) ==
  {i \in DOMAIN wanted : \A j \in 1..(i - 1) : wanted[j].stage # wanted[i].stage}

Added(m, wanted, S) ==
  {[id |-> Top(links) + i, stage |-> wanted[i].stage, media |-> m, exit |-> wanted[i].exit] :
   i \in S}

\* Mutant, and the code before 2026-09: every row of m is written anew.
SyncedAfresh(m, wanted) ==
  {l \in links : l.media # m} \cup Added(m, wanted, Firsts(wanted))

\* sync_asset_assignments: of the rows of m the first on each wanted stage stays,
\* with its exit where none is given; the stages it is new on get a row.
Synced(m, wanted) ==
  LET first == {l \in links : l.media = m /\ l.id = Place(l.stage, m)}
      stays == {p \in first \X Firsts(wanted) : p[1].stage = wanted[p[2]].stage}
  IN {l \in links : l.media # m}
       \cup {[p[1] EXCEPT !.exit = IF wanted[p[2]].exit = None THEN @ ELSE wanted[p[2]].exit] :
             p \in stays}
       \cup Added(m, wanted, {i \in Firsts(wanted) : ~OnStage(wanted[i].stage, m)})

\* The assignments an input may name.
Wanted(exits) ==
  UNION {[1..n -> [stage : stages, exit : exits]] : n \in 0..MaxWanted}

\* assign_stages, and quick_assign_mutation after a look at the stages' ids.
AssignStages(m, wanted) ==
  /\ m \in Items
  /\ links' = Synced(m, wanted)
  /\ UNCHANGED <<users, stages, media, usages>>

\* update_stage_assignment, by the owner of either or an admin, changes the row it
\* happens to find first.
UpdateStageAssignment(l, exit) ==
  /\ links' = (links \ {l}) \cup {[l EXCEPT !.exit = exit]}
  /\ UNCHANGED <<users, stages, media, usages>>
-------------------------------------------------------------------------------
(***************************************************************************)
(* Permissions and the bell                                                *)
(***************************************************************************)
\* What the bell shows to a requester (get_notifications).
OnRequestersBell(r) == r.approved /\ ~r.requesterSeen

RequestPermission(u, m) ==
  /\ m \in Items
  /\ usages' = usages \cup {[id |-> Top(usages) + 1, media |-> m, user |-> u,
                             approved |-> media[m].level # Strict,
                             ownerSeen |-> FALSE, requesterSeen |-> TRUE]}
  /\ UNCHANGED <<users, stages, media, links>>

MayAnswer(u, r) == u = media[r.media].owner \/ u \in Admins

\* confirm_permission: the answer yes is kept and told, the answer no deletes.
ConfirmPermission(u, r, approved) ==
  /\ MayAnswer(u, r)
  /\ usages' = (usages \ {r}) \cup
       IF approved THEN {[r EXCEPT !.approved = TRUE, !.ownerSeen = TRUE, !.requesterSeen = FALSE]}
                   ELSE {}
  /\ UNCHANGED <<users, stages, media, links>>

\* Mutant: a dismissal clears the row from both bells.
DismissedOnBoth(u, r) == [r EXCEPT !.requesterSeen = TRUE, !.ownerSeen = TRUE]

\* The side the caller is on; an admin who is on neither clears both.
Dismissed(u, r) ==
  LET isOwner == u = media[r.media].owner
      isRequester == u = r.user
  IN [r EXCEPT !.requesterSeen = @ \/ isRequester \/ ~isOwner,
               !.ownerSeen = @ \/ isOwner \/ ~isRequester]

DismissNotification(u, r) ==
  /\ MayAnswer(u, r) \/ u = r.user
  /\ usages' = (usages \ {r}) \cup {Dismissed(u, r)}
  /\ UNCHANGED <<users, stages, media, links>>

\* Mutant: saving an item leaves approved users who are not listed.
UnlistedGoKept(m, listed) == IF listed = {} THEN {r \in usages : r.media = m} ELSE {}

\* The rows update_asset_permissions deletes: all if the list is empty, else the
\* approved ones of users who are not on it.
UnlistedGo(m, listed) ==
  {r \in usages : r.media = m /\ (listed = {} \/ (r.approved /\ r.user \notin listed))}

\* Those it approves: of every user on the list a row, whichever is found first,
\* or a new one.
ListedApproved(m, listed, found) ==
  LET new == {u \in listed : UsagesOf(m, u) = {}}
      ids == (Top(usages) + 1)..(Top(usages) + Cardinality(new))
  IN {({[r EXCEPT !.approved = TRUE] : r \in found}
         \cup {[id |-> id[u], media |-> m, user |-> u, approved |-> TRUE,
                ownerSeen |-> FALSE, requesterSeen |-> FALSE] : u \in new}) :
      id \in Bijection(new, ids)}

\* Of every listed user with rows, one of them.
Founds(m, listed) ==
  {S \in SUBSET {r \in usages : r.media = m /\ r.user \in listed} :
     \A u \in listed : UsagesOf(m, u) # {} => Cardinality(S \cap UsagesOf(m, u)) = 1}

SavePermissions(m, listed) ==
  \E found \in Founds(m, listed) :
    \E approved \in ListedApproved(m, listed, found) :
      usages' = ((usages \ UnlistedGo(m, listed)) \ found) \cup approved
-------------------------------------------------------------------------------
(***************************************************************************)
(* Media items and users                                                   *)
(***************************************************************************)
\* upload_media
UploadMedia(u, m, kind) ==
  /\ m \notin Items
  /\ media' = Put(m, [owner |-> u, kind |-> kind, level |-> 0])
  /\ UNCHANGED <<users, stages, links, usages>>

\* update_media, which leaves owner and level alone.
UpdateMedia(m, kind) ==
  /\ m \in Items
  /\ media' = Put(m, [media[m] EXCEPT !.kind = kind])
  /\ UNCHANGED <<users, stages, links, usages>>

\* save_media, of a new item or, by its owner or an admin, of one that exists.
SaveMedia(m, item, wanted, listed) ==
  /\ media' = Put(m, item)
  /\ links' = Synced(m, wanted)
  /\ SavePermissions(m, listed)
  /\ UNCHANGED <<users, stages>>

\* Mutant: what was asked for outlives the item.
DropMediaOnly(m) ==
  /\ media' = Without({m})
  /\ links' = {l \in links : l.media # m}
  /\ UNCHANGED <<users, stages, usages>>

DropMedia(m) ==
  /\ media' = Without({m})
  /\ links' = {l \in links : l.media # m}
  /\ usages' = {r \in usages : r.media # m}
  /\ UNCHANGED <<users, stages>>

\* deleteMedia, and updateMediaStatus with Remove, by its owner or an admin.
DeleteMedia(m) ==
  /\ m \in Items
  /\ DropMedia(m)

\* Mutant: the assignments of deleted items are not handed on.
SubstitutedByNothing(L, doomed, visual, order) == {l \in L : l.media \notin doomed}

\* _substitute_placeholder for the visual items among the doomed, in an order the
\* database gives: the rows of the first on a stage become the placeholder's,
\* unless it is on that stage already; all others go.
Substituted(L, doomed, visual, order) ==
  LET before(l) == {k \in L : k.stage = l.stage /\ \/ k.media = Placeholder
                                                   \/ k.media \in visual /\ order[k.media] < order[l.media]}
      heirs == {l \in L : l.media \in visual /\ before(l) = {}}
  IN {l \in L : l.media \notin doomed} \cup {[l EXCEPT !.media = Placeholder] : l \in heirs}

\* The registration of an account, under a name that is free.
CreateUser(u) ==
  /\ u \notin users
  /\ users' = users \cup {u}
  /\ UNCHANGED <<stages, media, links, usages>>

\* delete_user, for an owner of the stages S: what the user asked for goes first, then
\* the stages, then the items, except those kept for the canonical admin; while the
\* user owns the placeholder, the foreign key refuses.
DeleteUser(u, S, kept) ==
  LET mine == {m \in Items : media[m].owner = u}
      stays == {m \in mine : media[m].kind \in kept}
      doomed == mine \ stays
      visual == {m \in doomed : media[m].kind \notin SoundKinds}
      stand == IF Placeholder \in Items THEN media[Placeholder]
               ELSE [owner |-> Canonical, kind |-> CHOOSE k \in Kinds : k \notin SoundKinds, level |-> 0]
      left == [x \in (Items \cup {Placeholder}) \ doomed |->
                 IF x = Placeholder THEN stand
                 ELSE IF x \in stays THEN [media[x] EXCEPT !.owner = Canonical] ELSE media[x]]
  IN /\ u \in users \ {Canonical}
     /\ Placeholder \notin mine
     /\ users' = users \ {u}
     /\ stages' = stages \ S
     /\ media' = left
     /\ \E order \in Bijection(visual, 1..Cardinality(visual)) :
          links' = Substituted({l \in links : l.stage \notin S}, doomed, visual, order)
     /\ usages' = {r \in usages : r.user # u /\ r.media \notin doomed}

Assignments ==
  \/ \E s \in Stages : CreateStage(s) \/ DeleteStage(s) \/ \E t \in Stages : DuplicateStage(s, t)
  \/ \E s \in Stages, n \in 0..MaxWanted : \E list \in [1..n -> Items] : AssignMedia(s, list)
  \/ \E m \in Items, wanted \in Wanted({None}) : AssignStages(m, wanted)
  \/ \E l \in links, e \in Exits \cup {None} : UpdateStageAssignment(l, e)

Permissions ==
  \/ \E u \in users, m \in Items : RequestPermission(u, m)
  \/ \E u \in users, r \in usages :
       \/ \E approved \in BOOLEAN : ConfirmPermission(u, r, approved)
       \/ DismissNotification(u, r)

Library ==
  \/ \E u \in users, m \in Media \ {Placeholder}, k \in Kinds : UploadMedia(u, m, k)
  \/ \E m \in Items, k \in Kinds : UpdateMedia(m, k)
  \/ \E o \in users, m \in Items \cup (Media \ {Placeholder}), k \in Kinds, l \in Levels :
       \E wanted \in Wanted(Exits \cup {None}), listed \in {S \in UserLists : S \subseteq users} :
         SaveMedia(m, [owner |-> o, kind |-> k, level |-> l], wanted, listed)
  \/ \E m \in Items : DeleteMedia(m)
  \/ \E u \in Users : CreateUser(u)
  \/ \E u \in users, S \in SUBSET stages, kept \in {KeptKinds, {}} : DeleteUser(u, S, kept)

Next == /\ Assignments \/ Permissions \/ Library
        /\ Top(links') <= MaxLink /\ Top(usages') <= MaxUsage

Spec == Init /\ [][Next]_vars
-------------------------------------------------------------------------------
\* Every variable keeps its type, and a row's id is its own.
TypeOK ==
  /\ users \subseteq Users
  /\ stages \subseteq Stages
  /\ Items \subseteq Media /\ \A m \in Items : media[m] \in Item
  /\ links \subseteq Link /\ usages \subseteq Usage
  /\ \A l, k \in links : l.id = k.id => l = k
  /\ \A r, q \in usages : r.id = q.id => r = q

\* No row outlives what it refers to, whatever goes and in which order: an item has its
\* owner, an assignment its stage and its item, a permission its item and its user.
NothingDangles ==
  /\ \A m \in Items : media[m].owner \in users
  /\ \A l \in links : l.stage \in stages /\ l.media \in Items
  /\ \A r \in usages : r.media \in Items /\ r.user \in users

\* An assignment that survives keeps its place in the order of its stage, and what
\* is new on the stage comes after it, whatever was saved about the item or about
\* others, on this stage or elsewhere; only assign_media arranges, and the placeholder
\* takes the place of what it stands for.
PlaceKept ==
  [][\A s \in Stages, m \in Media :
       OnStage(s, m) /\ OnStage(s, m)' =>
         \/ /\ Place(s, m)' = Place(s, m)
            /\ \A n \in Media : ~OnStage(s, n) /\ OnStage(s, n)' =>
                 Place(s, n)' > Place(s, m) \/ (n = Placeholder /\ users' # users)
         \/ \E n \in 0..MaxWanted : \E list \in [1..n -> Items] : AssignMedia(s, list)
    ]_vars

\* An exit that was set for an item on a stage does not fall back to the default
\* while the item is on the stage, unless the default is asked for.
ExitKept ==
  [][\A s \in Stages, m \in Media :
       OnStage(s, m) /\ OnStage(s, m)' /\ None \notin ExitsOf(s, m) /\ None \in ExitsOf(s, m)' =>
         \E l \in LinksOf(s, m) : UpdateStageAssignment(l, None)]_vars

\* Where a deleted user's visual item was on a stage that goes on, the placeholder is,
\* at the place of one of those items or where it already was.
PlaceholderTakesOver ==
  [][users \ users' # {} =>
       \A s \in Stages, m \in Items :
         OnStage(s, m) /\ s \in stages' /\ m \notin Items' /\ media[m].kind \notin SoundKinds =>
           /\ OnStage(s, Placeholder)'
           /\ \E x \in Media : OnStage(s, x) /\ Place(s, Placeholder)' = Place(s, x)
                               /\ x \in (Items \ Items') \cup {Placeholder}]_vars

\* u is not the owner and has an approved row for an item of the strict level.
UsesStrictly(u, m) ==
  /\ m \in Items
  /\ media[m].level = Strict /\ media[m].owner # u
  /\ \E r \in UsagesOf(m, u) : r.approved

\* The lists of users with which a save of m may have been this step.
SavedLists(m) ==
  {listed \in UserLists :
     \E wanted \in Wanted(Exits \cup {None}) : SaveMedia(m, media'[m], wanted, listed)}

\* Nobody comes by the use of a strict item, or keeps it when an item becomes strict,
\* but by an answer to a request of theirs or by a save that lists them.
StrictUseIsGranted ==
  [][\A u \in users', m \in Items' :
       UsesStrictly(u, m)' /\ ~UsesStrictly(u, m) =>
         \/ \E a \in users, r \in UsagesOf(m, u) : ConfirmPermission(a, r, TRUE)
         \/ SavedLists(m) # {} /\ \A listed \in SavedLists(m) : u \in listed]_vars

\* A requester who was told yes is told until they, or an admin, dismiss it or the
\* permission goes; no change of owner, level or list clears it, nor the owner's bell.
YesIsTold ==
  [][\A r \in usages :
       OnRequestersBell(r) =>
         \/ \A q \in usages' : q.id # r.id
         \/ \E q \in usages' : q.id = r.id /\ OnRequestersBell(q)
         \/ LET by == {u \in users : DismissNotification(u, r)}
            IN by # {} /\ by \subseteq {r.user} \cup Admins]_vars
===============================================================================
