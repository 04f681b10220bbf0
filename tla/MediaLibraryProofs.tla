-------------------------- MODULE MediaLibraryProofs --------------------------
(***************************************************************************)
(* The tables of the media library keep their types, nothing in them       *)
(* outlives what it refers to, and the order of a stage, exits, permissions *)
(* and answers survive what is done to others: for any accounts, stages,   *)
(* items, kinds and bounds.                                                *)
(***************************************************************************)
EXTENDS MediaLibrary, FiniteSetTheorems, WellFoundedInduction, TLAPS

(***************************************************************************)
(* Numbers                                                                 *)
(***************************************************************************)
\* A nonempty set of numbers has a least.
LEMMA LeastNumber ==
  ASSUME NEW S \in SUBSET Nat, S # {}
  PROVE  \E x \in S : \A y \in S : x <= y
<1> DEFINE less == {p \in Nat \X Nat : p[1] < p[2]}
<1>1. IsWellFoundedOn(less, Nat)
  BY NatLessThanWellFounded DEF OpToRel
<1> HIDE DEF less
<1>2. PICK x \in S : \A y \in S : <<y, x>> \notin less
  BY <1>1, WFMin
<1>3. \A y \in S : y < x => <<y, x>> \in less
  BY DEF less
<1>4. \A y \in S : y \in Nat
  OBVIOUS
<1>5. \A y \in S : ~(y < x)
  BY <1>2, <1>3
<1>6. \A y \in S : x <= y
  BY <1>4, <1>5
<1> QED
  BY <1>6

\* Min and Max are what their names say where there is a least or a greatest number.
LEMMA MinIsLeast ==
  ASSUME NEW S \in SUBSET Nat, S # {}
  PROVE  Min(S) \in S /\ \A y \in S : Min(S) <= y
  BY LeastNumber DEF Min

LEMMA MaxIsGreatest ==
  ASSUME NEW S \in SUBSET Nat, S # {}, NEW b \in Nat, \A x \in S : x <= b
  PROVE  Max(S) \in S /\ \A y \in S : y <= Max(S)
<1> DEFINE above == {n \in Nat : \A x \in S : x <= n}
<1>1. b \in above
  OBVIOUS
<1>2. PICK n \in above : \A k \in above : n <= k
  BY <1>1, LeastNumber
<1>3. n \in S
  <2> SUFFICES ASSUME n \notin S PROVE FALSE
    OBVIOUS
  <2>1. \A x \in S : x \in Nat /\ x < n
    BY <1>2
  <2>2. PICK x \in S : x \in Nat /\ x < n
    BY <2>1
  <2>3. n \in Nat /\ n - 1 \in Nat
    BY <2>2
  <2>4. \A y \in S : y <= n - 1
    BY <2>1, <2>3
  <2> QED
    BY <1>2, <2>3, <2>4
<1>4. \A y \in S : n >= y
  OBVIOUS
<1> QED
  BY <1>3, <1>4 DEF Max

\* With ids of their own and a bound on them, rows are finitely many.
LEMMA FinitelyMany ==
  ASSUME NEW rows, \A r \in rows : r.id \in Nat, NEW b \in Nat, \A r \in rows : r.id <= b,
         \A r, q \in rows : r.id = q.id => r = q
  PROVE  IsFiniteSet(rows)
<1> DEFINE id == [r \in rows |-> r.id]
<1>1. id \in [rows -> 0..b] /\ \A r, q \in rows : id[r] = id[q] => r = q
  OBVIOUS
<1>2. id \in Injection(rows, 0..b)
  BY <1>1 DEF Injection, IsInjective
<1>3. IsFiniteSet(0..b)
  BY FS_Interval
<1> QED
  BY <1>2, <1>3, FS_Injection

(***************************************************************************)
(* Types: every row has an id of its own, below a bound                    *)
(***************************************************************************)
Bounded(rows) == \E b \in Nat : \A r \in rows : r.id <= b
OwnIds(rows) == \A r, q \in rows : r.id = q.id => r = q

Typed == TypeOK /\ Bounded(links) /\ Bounded(usages) /\ IsFiniteSet(Items)

LEMMA TopIsGreatest ==
  ASSUME NEW rows, \A r \in rows : r.id \in Nat, Bounded(rows)
  PROVE  Top(rows) \in Nat /\ \A r \in rows : r.id <= Top(rows)
<1> DEFINE ids == {r.id : r \in rows} \cup {0}
<1>1. PICK b \in Nat : \A r \in rows : r.id <= b
  BY DEF Bounded
<1>2. ids \in SUBSET Nat /\ ids # {} /\ \A x \in ids : x <= b
  BY <1>1
<1>3. \A r \in rows : r.id \in ids
  OBVIOUS
<1> HIDE DEF ids
<1>4. Max(ids) \in ids /\ \A x \in ids : x <= Max(ids)
  BY <1>1, <1>2, MaxIsGreatest
<1> QED
  BY <1>2, <1>3, <1>4 DEF Top, ids

\* What a step may rely on.
LEMMA IdsBelowTop ==
  ASSUME Typed
  PROVE  /\ Top(links) \in Nat /\ Top(usages) \in Nat
         /\ \A l \in links : l \in Link /\ l.id \in Nat /\ l.id <= Top(links)
         /\ \A r \in usages : r \in Usage /\ r.id \in Nat /\ r.id <= Top(usages)
         /\ OwnIds(links) /\ OwnIds(usages)
         /\ IsFiniteSet(links) /\ IsFiniteSet(usages)
<1>1. /\ \A l \in links : l \in Link /\ l.id \in Nat
      /\ \A r \in usages : r \in Usage /\ r.id \in Nat
      /\ OwnIds(links) /\ OwnIds(usages)
  BY DEF Typed, TypeOK, Link, Usage, OwnIds
<1>2. Bounded(links) /\ Bounded(usages)
  BY DEF Typed
<1>3. IsFiniteSet(links) /\ IsFiniteSet(usages)
  BY <1>1, <1>2, FinitelyMany DEF Bounded, OwnIds
<1> QED
  BY <1>1, <1>2, <1>3, TopIsGreatest

\* A table that has lost rows and got others with ids that are new to it.
LEMMA TableGrows ==
  ASSUME NEW old, NEW new, OwnIds(old), OwnIds(new), NEW top \in Nat, NEW b \in Nat,
         \A r \in old : r.id \in Nat /\ r.id <= top,
         \A r \in new : r.id \in Nat /\ top < r.id /\ r.id <= b
  PROVE  OwnIds(old \cup new) /\ Bounded(old \cup new)
<1>1. OwnIds(old \cup new)
  BY DEF OwnIds
<1>2. top + b \in Nat /\ \A r \in old \cup new : r.id <= top + b
  OBVIOUS
<1> QED
  BY <1>1, <1>2 DEF Bounded

\* The inputs of a save: the positions of a list are numbers, and of those at
\* which a stage comes for the first time each has its own stage.
LEMMA WantedTyped ==
  ASSUME Typed, NEW exits \in SUBSET (Exits \cup {None}), NEW wanted \in Wanted(exits)
  PROVE  /\ \A i \in DOMAIN wanted : /\ i \in 1..MaxWanted /\ wanted[i].stage \in stages
                                     /\ wanted[i].exit \in Exits \cup {None}
         /\ Firsts(wanted) \subseteq DOMAIN wanted
         /\ \A i, j \in Firsts(wanted) : wanted[i].stage = wanted[j].stage => i = j
<1>1. PICK n \in 0..MaxWanted : wanted \in [1..n -> [stage : stages, exit : exits]]
  BY DEF Wanted
<1>2. MaxWanted \in Nat
  BY MediaAssumption DEF MediaAssumption
<1>3. \A i, j \in Firsts(wanted) : wanted[i].stage = wanted[j].stage => i = j
  <2> SUFFICES ASSUME NEW i \in Firsts(wanted), NEW j \in Firsts(wanted),
                      wanted[i].stage = wanted[j].stage, i < j
               PROVE  FALSE
    BY <1>1 DEF Firsts
  <2>1. i \in 1..(j - 1)
    BY <1>1 DEF Firsts
  <2> QED
    BY <2>1 DEF Firsts
<1> QED
  BY <1>1, <1>2, <1>3 DEF Firsts

\* sync_asset_assignments row by row: one of another item, the first of m on a wanted
\* stage with the exit that is given, or a new one.
StaysAs(l, k, wanted, i) ==
  /\ k.media \in Media /\ k.id = Place(k.stage, k.media) /\ k.stage = wanted[i].stage
  /\ l = [k EXCEPT !.exit = IF wanted[i].exit = None THEN k.exit ELSE wanted[i].exit]

AddedAs(l, m, wanted, i) ==
  l = [id |-> Top(links) + i, stage |-> wanted[i].stage, media |-> m, exit |-> wanted[i].exit]

LEMMA SyncedRows ==
  ASSUME Typed, NEW m \in Media, NEW wanted
  PROVE  \A l : l \in Synced(m, wanted) <=>
           \/ l \in links /\ l.media # m
           \/ \E k \in links, i \in Firsts(wanted) : k.media = m /\ StaysAs(l, k, wanted, i)
           \/ \E i \in Firsts(wanted) : ~OnStage(wanted[i].stage, m) /\ AddedAs(l, m, wanted, i)
<1> DEFINE first == {l \in links : l.media = m /\ l.id = Place(l.stage, m)}
           stays == {p \in first \X Firsts(wanted) : p[1].stage = wanted[p[2]].stage}
           kept == {[p[1] EXCEPT !.exit = IF wanted[p[2]].exit = None THEN @ ELSE wanted[p[2]].exit] :
                      p \in stays}
           new == {i \in Firsts(wanted) : ~OnStage(wanted[i].stage, m)}
<1>1. Synced(m, wanted) = {l \in links : l.media # m} \cup kept \cup Added(m, wanted, new)
  BY DEF Synced
<1>2. \A l : l \in kept <=> \E k \in links, i \in Firsts(wanted) : k.media = m /\ StaysAs(l, k, wanted, i)
  <2>1. ASSUME NEW l \in kept
        PROVE  \E k \in links, i \in Firsts(wanted) : k.media = m /\ StaysAs(l, k, wanted, i)
    <3>1. PICK p \in stays : l = [p[1] EXCEPT !.exit = IF wanted[p[2]].exit = None THEN @ ELSE wanted[p[2]].exit]
      OBVIOUS
    <3>2. PICK k \in links, i \in Firsts(wanted) : /\ k = p[1] /\ i = p[2] /\ k.media = m
                                                   /\ k.id = Place(k.stage, m) /\ k.stage = wanted[i].stage
      OBVIOUS
    <3> QED BY <3>1, <3>2 DEF StaysAs
  <2>2. ASSUME NEW l, NEW k \in links, NEW i \in Firsts(wanted), k.media = m, StaysAs(l, k, wanted, i)
        PROVE  l \in kept
    <3> DEFINE p == <<k, i>>
    <3>1. p \in stays /\ p[1] = k /\ p[2] = i
      BY <2>2 DEF StaysAs
    <3>2. l = [p[1] EXCEPT !.exit = IF wanted[p[2]].exit = None THEN @ ELSE wanted[p[2]].exit]
      BY <2>2, <3>1 DEF StaysAs
    <3> HIDE DEF p
    <3> QED BY <3>1, <3>2
  <2> QED BY <2>1, <2>2
<1>3. \A l : l \in Added(m, wanted, new) <=>
        \E i \in Firsts(wanted) : ~OnStage(wanted[i].stage, m) /\ AddedAs(l, m, wanted, i)
  BY DEF Added, AddedAs
<1> HIDE DEF kept, new
<1> QED BY <1>1, <1>2, <1>3

LEMMA RowStays ==
  ASSUME Typed, NEW exits \in SUBSET (Exits \cup {None}), NEW wanted \in Wanted(exits),
         NEW k \in links, NEW i \in Firsts(wanted), NEW l, StaysAs(l, k, wanted, i)
  PROVE  /\ l \in Link /\ l.id = k.id /\ l.stage = k.stage /\ l.media = k.media
         /\ l.exit = IF wanted[i].exit = None THEN k.exit ELSE wanted[i].exit
<1>1. k \in Link
  BY IdsBelowTop
<1>2. wanted[i].exit \in Exits \cup {None}
  BY WantedTyped
<1>3. PICK e \in Exits \cup {None} : /\ l = [k EXCEPT !.exit = e]
                                     /\ e = IF wanted[i].exit = None THEN k.exit ELSE wanted[i].exit
  BY <1>1, <1>2 DEF StaysAs, Link
<1> QED
  BY <1>1, <1>3 DEF Link

LEMMA RowAdded ==
  ASSUME Typed, NEW m \in Media, NEW exits \in SUBSET (Exits \cup {None}), NEW wanted \in Wanted(exits),
         NEW i \in Firsts(wanted), NEW l, AddedAs(l, m, wanted, i)
  PROVE  /\ l \in Link /\ l.id = Top(links) + i /\ l.stage = wanted[i].stage /\ l.media = m
         /\ l.exit = wanted[i].exit
         /\ l.stage \in stages /\ i \in 1..MaxWanted /\ Top(links) < l.id
<1>1. /\ i \in 1..MaxWanted /\ wanted[i].stage \in stages /\ wanted[i].exit \in Exits \cup {None}
      /\ MaxWanted \in Nat /\ Top(links) \in Nat /\ stages \subseteq Stages
  BY WantedTyped, IdsBelowTop, MediaAssumption DEF MediaAssumption, Typed, TypeOK
<1>2. Top(links) + i \in Nat /\ Top(links) < Top(links) + i
  BY <1>1
<1> QED
  BY <1>1, <1>2 DEF AddedAs, Link

LEMMA SyncedTyped ==
  ASSUME Typed, NEW m \in Media, NEW exits \in SUBSET (Exits \cup {None}), NEW wanted \in Wanted(exits)
  PROVE  Synced(m, wanted) \subseteq Link /\ OwnIds(Synced(m, wanted)) /\ Bounded(Synced(m, wanted))
<1> DEFINE S == Synced(m, wanted)
           Other(l) == l \in links /\ l.media # m
           Kept(l, k, i) == k.media = m /\ StaysAs(l, k, wanted, i)
           New(l, i) == ~OnStage(wanted[i].stage, m) /\ AddedAs(l, m, wanted, i)
<1>1. \A l \in S : \/ Other(l)
                   \/ \E k \in links, i \in Firsts(wanted) : Kept(l, k, i)
                   \/ \E i \in Firsts(wanted) : New(l, i)
  BY SyncedRows
<1>2. /\ Top(links) \in Nat /\ MaxWanted \in Nat /\ OwnIds(links)
      /\ \A l \in links : l \in Link /\ l.id \in Nat /\ l.id <= Top(links)
  BY IdsBelowTop, MediaAssumption DEF MediaAssumption
<1>3. \A l : \A k \in links, i \in Firsts(wanted) : Kept(l, k, i) =>
        /\ l \in Link /\ l.id = k.id /\ l.stage = k.stage /\ l.media = m /\ l.id <= Top(links)
        /\ k.stage = wanted[i].stage
  BY <1>2, RowStays DEF StaysAs
<1>4. \A l : \A i \in Firsts(wanted) : New(l, i) =>
        l \in Link /\ l.id = Top(links) + i /\ i \in 1..MaxWanted
  BY RowAdded
<1>5. \A i, j \in Firsts(wanted) : wanted[i].stage = wanted[j].stage => i = j
  BY WantedTyped
<1>6. S \subseteq Link /\ \A l \in S : l.id <= Top(links) + MaxWanted
  <2> SUFFICES ASSUME NEW l \in S PROVE l \in Link /\ l.id <= Top(links) + MaxWanted
    OBVIOUS
  <2>1. CASE Other(l)
    BY <1>2, <2>1
  <2>2. CASE \E k \in links, i \in Firsts(wanted) : Kept(l, k, i)
    <3> HIDE DEF Kept
    <3>1. l \in Link /\ l.id <= Top(links) /\ l.id \in Nat
      BY <1>3, <2>2 DEF Link
    <3> QED BY <1>2, <3>1
  <2>3. CASE \E i \in Firsts(wanted) : New(l, i)
    <3> HIDE DEF New
    <3> QED BY <1>2, <1>4, <2>3
  <2> QED BY <1>1, <2>1, <2>2, <2>3
<1>7. OwnIds(S)
  <2> SUFFICES ASSUME NEW l \in S, NEW q \in S, l.id = q.id PROVE l = q
    BY DEF OwnIds
  <2> HIDE DEF S, Kept, New
  <2>1. CASE Other(l) /\ Other(q)
    BY <1>2, <2>1 DEF OwnIds
  <2>2. ASSUME NEW a \in S, NEW b \in S, a.id = b.id, Other(a),
               NEW k \in links, NEW i \in Firsts(wanted), Kept(b, k, i) PROVE FALSE
    <3>1. a = k
      BY <1>2, <1>3, <2>2 DEF OwnIds
    <3> QED BY <2>2, <3>1 DEF Kept
  <2>3. ASSUME NEW a \in S, NEW b \in S, a.id = b.id, a.id <= Top(links), a.id \in Nat,
               NEW i \in Firsts(wanted), New(b, i) PROVE FALSE
    BY <1>2, <1>4, <2>3
  <2>4. ASSUME NEW k \in links, NEW i \in Firsts(wanted), Kept(l, k, i),
               NEW h \in links, NEW j \in Firsts(wanted), Kept(q, h, j) PROVE l = q
    <3>1. k = h
      BY <1>2, <1>3, <2>4 DEF OwnIds
    <3>2. i = j
      BY <1>3, <1>5, <2>4, <3>1
    <3> QED BY <2>4, <3>1, <3>2 DEF Kept, StaysAs
  <2>5. ASSUME NEW i \in Firsts(wanted), New(l, i), NEW j \in Firsts(wanted), New(q, j) PROVE l = q
    <3>1. i = j
      BY <1>2, <1>4, <2>5
    <3> QED BY <2>5, <3>1 DEF New, AddedAs
  <2>6. \A a \in S : Other(a) \/ (\E k \in links, i \in Firsts(wanted) : Kept(a, k, i))
                       => a.id <= Top(links) /\ a.id \in Nat
    BY <1>2, <1>3 DEF Link
  <2> QED BY <1>1, <2>1, <2>2, <2>3, <2>4, <2>5, <2>6
<1>8. Top(links) + MaxWanted \in Nat
  BY <1>2
<1> QED
  BY <1>6, <1>7, <1>8 DEF Bounded

LEMMA AssignmentsTyped == Typed /\ Assignments => Typed'
<1> SUFFICES ASSUME Typed, Assignments
             PROVE  Typed'
  OBVIOUS
<1>1. /\ Top(links) \in Nat /\ OwnIds(links) /\ IsFiniteSet(links)
      /\ \A l \in links : l \in Link /\ l.id \in Nat /\ l.id <= Top(links)
  BY IdsBelowTop
<1>2. ASSUME UNCHANGED <<users, media, usages>>, stages' \subseteq Stages,
             links' \subseteq Link, OwnIds(links'), Bounded(links')
      PROVE  Typed'
  BY <1>2 DEF Typed, TypeOK, OwnIds, Bounded, Items
<1>3. ASSUME NEW L \in SUBSET links
      PROVE  L \subseteq Link /\ OwnIds(L) /\ Bounded(L)
  BY <1>1 DEF OwnIds, Bounded
<1>4. ASSUME NEW s \in Stages, CreateStage(s) \/ DeleteStage(s)
      PROVE  Typed'
  BY <1>2, <1>3, <1>4 DEF CreateStage, DeleteStage, Typed, TypeOK
<1>5. ASSUME NEW s \in Stages, NEW t \in Stages, DuplicateStage(s, t)
      PROVE  Typed'
  <2> DEFINE rows == {l \in links : l.stage = s}
             top == Top(links) + Cardinality(rows)
             copy(id, l) == [l EXCEPT !.id = id[l], !.stage = t]
  <2>1. Cardinality(rows) \in Nat
    BY <1>1, FS_Subset, FS_CardinalityType
  <2>2. PICK id \in Bijection(rows, (Top(links) + 1)..top) :
          links' = links \cup {copy(id, l) : l \in rows}
    BY <1>5 DEF DuplicateStage
  <2>3. /\ \A l \in rows : id[l] \in (Top(links) + 1)..top
        /\ \A l, k \in rows : id[l] = id[k] => l = k
    BY <2>2 DEF Bijection, Injection, IsInjective
  <2>4. ASSUME NEW l \in rows
        PROVE  /\ copy(id, l) \in Link /\ copy(id, l).id = id[l]
               /\ id[l] \in Nat /\ Top(links) < id[l] /\ id[l] <= top
    <3>1. PICK n \in Nat : n = id[l] /\ Top(links) < n /\ n <= top
      BY <1>1, <2>1, <2>3
    <3>2. copy(id, l) = [l EXCEPT !.id = n, !.stage = t] /\ l \in Link
      BY <1>1, <3>1
    <3> QED BY <3>1, <3>2 DEF Link
  <2> HIDE DEF copy, top
  <2> DEFINE new == {copy(id, l) : l \in rows}
  <2>5. /\ OwnIds(new)
        /\ \A r \in new : r \in Link /\ r.id \in Nat /\ Top(links) < r.id /\ r.id <= top
    BY <2>3, <2>4 DEF OwnIds
  <2>6. top \in Nat
    BY <1>1, <2>1 DEF top
  <2> HIDE DEF new
  <2>7. OwnIds(links \cup new) /\ Bounded(links \cup new)
    BY <1>1, <2>5, <2>6, TableGrows
  <2>8. links' = links \cup new
    BY <2>2 DEF new
  <2> QED BY <1>1, <1>2, <1>5, <2>5, <2>7, <2>8 DEF DuplicateStage, Typed, TypeOK
<1>6. ASSUME NEW s \in Stages, NEW n \in 0..MaxWanted, NEW list \in [1..n -> Items],
             AssignMedia(s, list)
      PROVE  Typed'
  <2> DEFINE old == {l \in links : l.stage # s}
  <2>1. PICK exit \in Snapshots(s, Range(list)) : links' = Rearranged(s, list, exit)
    BY <1>6 DEF AssignMedia
  <2> DEFINE new == {[id |-> Top(links) + i, stage |-> s, media |-> list[i], exit |-> exit[list[i]]] :
                       i \in DOMAIN list}
  <2>2. n \in Nat /\ MaxWanted \in Nat /\ \A i \in 1..n : i \in Nat /\ i > 0 /\ i <= MaxWanted
    BY MediaAssumption DEF MediaAssumption
  <2>3. \A i \in 1..n : list[i] \in Media /\ exit[list[i]] \in Exits \cup {None}
    BY DEF Typed, TypeOK, Snapshots, Range
  <2>4. /\ OwnIds(new)
        /\ \A r \in new : r \in Link /\ r.id \in Nat /\ Top(links) < r.id
                          /\ r.id <= Top(links) + MaxWanted
    BY <1>1, <2>2, <2>3 DEF OwnIds, Link
  <2>5. links' = old \cup new
    BY <2>1 DEF Rearranged
  <2>6. Top(links) + MaxWanted \in Nat
    BY <1>1, <2>2
  <2>7. /\ \A l \in old : l \in links
        /\ OwnIds(old)
    BY <1>3
  <2> HIDE DEF new, old
  <2>8. OwnIds(old \cup new) /\ Bounded(old \cup new)
    BY <1>1, <2>4, <2>6, <2>7, TableGrows
  <2> QED BY <1>1, <1>2, <1>6, <2>4, <2>5, <2>7, <2>8 DEF AssignMedia, Typed, TypeOK
<1>7. ASSUME NEW m \in Items, NEW wanted \in Wanted({None}), AssignStages(m, wanted)
      PROVE  Typed'
  BY <1>2, <1>7, SyncedTyped DEF AssignStages, Typed, TypeOK
<1>8. ASSUME NEW l \in links, NEW e \in Exits \cup {None}, UpdateStageAssignment(l, e)
      PROVE  Typed'
  <2> DEFINE q == [l EXCEPT !.exit = e]
  <2>1. q \in Link /\ q.id = l.id
    BY <1>1 DEF Link
  <2>2. links' = (links \ {l}) \cup {q}
    BY <1>8 DEF UpdateStageAssignment
  <2> HIDE DEF q
  <2>3. links' \subseteq Link /\ OwnIds(links') /\ \A k \in links' : k.id <= Top(links)
    BY <1>1, <2>1, <2>2 DEF OwnIds
  <2> QED BY <1>1, <1>2, <1>8, <2>3 DEF UpdateStageAssignment, Typed, TypeOK, Bounded
<1> QED
  BY <1>4, <1>5, <1>6, <1>7, <1>8 DEF Assignments

LEMMA PermissionsTyped == Typed /\ Permissions => Typed'
<1> SUFFICES ASSUME Typed, Permissions
             PROVE  Typed'
  OBVIOUS
<1>1. /\ Top(usages) \in Nat /\ OwnIds(usages)
      /\ \A r \in usages : r \in Usage /\ r.id \in Nat /\ r.id <= Top(usages)
  BY IdsBelowTop
<1>2. ASSUME UNCHANGED <<users, media, stages, links>>,
             usages' \subseteq Usage, OwnIds(usages'), Bounded(usages')
      PROVE  Typed'
  BY <1>2 DEF Typed, TypeOK, OwnIds, Bounded, Items
<1>3. ASSUME UNCHANGED <<users, media, stages, links>>, NEW r \in usages, NEW q \in Usage, q.id = r.id,
             usages' \subseteq (usages \ {r}) \cup {q}
      PROVE  Typed'
  <2>1. usages' \subseteq Usage /\ OwnIds(usages') /\ \A p \in usages' : p.id <= Top(usages)
    BY <1>1, <1>3 DEF OwnIds
  <2> QED BY <1>1, <1>2, <1>3, <2>1 DEF Bounded
<1>4. ASSUME NEW u \in users, NEW m \in Items, RequestPermission(u, m)
      PROVE  Typed'
  <2> DEFINE q == [id |-> Top(usages) + 1, media |-> m, user |-> u,
                   approved |-> media[m].level # Strict,
                   ownerSeen |-> FALSE, requesterSeen |-> TRUE]
  <2>1. q \in Usage /\ q.id = Top(usages) + 1
    BY <1>1 DEF Typed, TypeOK, Usage
  <2>2. usages' = usages \cup {q}
    BY <1>4 DEF RequestPermission
  <2> HIDE DEF q
  <2>3. usages' \subseteq Usage /\ OwnIds(usages') /\ \A p \in usages' : p.id <= Top(usages) + 1
    BY <1>1, <2>1, <2>2 DEF OwnIds
  <2> QED BY <1>1, <1>2, <1>4, <2>3 DEF RequestPermission, Bounded
<1>5. ASSUME NEW u \in users, NEW r \in usages, NEW approved \in BOOLEAN,
             ConfirmPermission(u, r, approved)
      PROVE  Typed'
  <2> DEFINE q == [r EXCEPT !.approved = TRUE, !.ownerSeen = TRUE, !.requesterSeen = FALSE]
  <2>1. q \in Usage /\ q.id = r.id
    BY <1>1 DEF Usage
  <2>2. usages' \subseteq (usages \ {r}) \cup {q}
    BY <1>5 DEF ConfirmPermission
  <2> QED BY <1>3, <1>5, <2>1, <2>2 DEF ConfirmPermission
<1>6. ASSUME NEW u \in users, NEW r \in usages, DismissNotification(u, r)
      PROVE  Typed'
  <2>1. Dismissed(u, r) \in Usage /\ Dismissed(u, r).id = r.id
    BY <1>1 DEF Usage, Dismissed
  <2>2. usages' \subseteq (usages \ {r}) \cup {Dismissed(u, r)}
    BY <1>6 DEF DismissNotification
  <2> QED BY <1>3, <1>6, <2>1, <2>2 DEF DismissNotification
<1> QED
  BY <1>4, <1>5, <1>6 DEF Permissions

\* saveMedia row by row: one it leaves alone, one it approves, or a new one.
Approved(r) == [r EXCEPT !.approved = TRUE]

LEMMA ApprovedTyped ==
  ASSUME Typed, NEW r \in usages
  PROVE  /\ Approved(r) \in Usage /\ Approved(r).approved = TRUE
         /\ Approved(r).id = r.id /\ Approved(r).media = r.media /\ Approved(r).user = r.user
         /\ Approved(r).ownerSeen = r.ownerSeen /\ Approved(r).requesterSeen = r.requesterSeen
<1>1. r \in Usage
  BY IdsBelowTop
<1> QED BY <1>1 DEF Usage, Approved

LEMMA SavedRows ==
  ASSUME Typed, NEW m \in Media, NEW listed \in UserLists, SavePermissions(m, listed)
  PROVE  /\ usages' \subseteq Usage /\ OwnIds(usages') /\ Bounded(usages')
         /\ \A r \in usages' :
              \/ r \in usages \ UnlistedGo(m, listed)
              \/ \E q \in usages : q.media = m /\ q.user \in listed /\ r = Approved(q)
              \/ Top(usages) < r.id /\ r.media = m /\ r.user \in listed
         /\ \A q \in usages : q \in usages' \/ Approved(q) \in usages' \/ q \in UnlistedGo(m, listed)
<1> DEFINE new == {u \in listed : UsagesOf(m, u) = {}}
           top == Top(usages) + Cardinality(new)
<1>1. PICK found \in Founds(m, listed) :
        \E approved \in ListedApproved(m, listed, found) :
          usages' = ((usages \ UnlistedGo(m, listed)) \ found) \cup approved
  BY DEF SavePermissions
<1>2. PICK id \in Bijection(new, (Top(usages) + 1)..top) :
        usages' = ((usages \ UnlistedGo(m, listed)) \ found)
                    \cup ({Approved(r) : r \in found}
                      \cup {[id |-> id[u], media |-> m, user |-> u, approved |-> TRUE,
                             ownerSeen |-> FALSE, requesterSeen |-> FALSE] : u \in new})
  BY <1>1 DEF ListedApproved, Approved
<1>3. /\ Top(usages) \in Nat /\ OwnIds(usages)
      /\ \A r \in usages : r \in Usage /\ r.id \in Nat /\ r.id <= Top(usages)
  BY IdsBelowTop
<1>4. \A r \in found : r \in usages /\ r.media = m /\ r.user \in listed
  BY DEF Founds
<1>5. IsFiniteSet(listed) /\ listed \subseteq Users
  BY MediaAssumption DEF MediaAssumption
<1>6. Cardinality(new) \in Nat
  BY <1>5, FS_Subset, FS_CardinalityType
<1>7. /\ \A u \in new : id[u] \in (Top(usages) + 1)..top
      /\ \A u, v \in new : id[u] = id[v] => u = v
  BY <1>2 DEF Bijection, Injection, IsInjective
<1>8. ASSUME NEW u \in new
      PROVE  id[u] \in Nat /\ Top(usages) < id[u] /\ id[u] <= top
  BY <1>3, <1>6, <1>7
<1>9. top \in Nat
  BY <1>3, <1>6
<1> DEFINE old == ((usages \ UnlistedGo(m, listed)) \ found) \cup {Approved(r) : r \in found}
           added == {[id |-> id[u], media |-> m, user |-> u, approved |-> TRUE,
                      ownerSeen |-> FALSE, requesterSeen |-> FALSE] : u \in new}
<1>10. usages' = old \cup added
  BY <1>2
<1>11. \A r \in old : \/ r \in usages \ UnlistedGo(m, listed) /\ r \notin found
                      \/ \E q \in found : r = Approved(q)
  OBVIOUS
<1>12. /\ OwnIds(added)
       /\ \A r \in added : /\ r \in Usage /\ r.id \in Nat /\ Top(usages) < r.id /\ r.id <= top
                           /\ r.media = m /\ r.user \in listed
  <2> DEFINE row(u) == [id |-> id[u], media |-> m, user |-> u, approved |-> TRUE,
                        ownerSeen |-> FALSE, requesterSeen |-> FALSE]
  <2> HIDE DEF top
  <2>1. \A u \in new : /\ row(u) \in Usage /\ row(u).id = id[u]
                       /\ row(u).media = m /\ row(u).user \in listed
    BY <1>5, <1>8 DEF Usage
  <2>2. added = {row(u) : u \in new}
    OBVIOUS
  <2> HIDE DEF row, added, new
  <2> QED BY <1>7, <1>8, <2>1, <2>2 DEF OwnIds
<1>13. /\ OwnIds(old)
       /\ \A r \in old : r \in Usage /\ r.id \in Nat /\ r.id <= Top(usages)
  <2> HIDE DEF old
  <2>1. \A r \in old : /\ r \in Usage /\ r.id \in Nat /\ r.id <= Top(usages)
                       /\ \E q \in usages : q.id = r.id /\ r = IF q \in found THEN Approved(q) ELSE q
    <3> SUFFICES ASSUME NEW r \in old
                 PROVE  \E q \in usages : /\ r = IF q \in found THEN Approved(q) ELSE q
                                          /\ r \in Usage /\ r.id \in Nat /\ r.id <= Top(usages)
                                          /\ q.id = r.id
      OBVIOUS
    <3>1. CASE r \in usages /\ r \notin found
      BY <1>3, <3>1
    <3>2. ASSUME NEW q \in found, r = Approved(q)
          PROVE  q \in usages /\ r \in Usage /\ r.id = q.id
      BY <1>4, <3>2, ApprovedTyped
    <3> QED BY <1>3, <1>11, <3>1, <3>2
  <2>2. ASSUME NEW a \in old, NEW b \in old, a.id = b.id
        PROVE  a = b
    <3>1. PICK p \in usages : p.id = a.id /\ a = IF p \in found THEN Approved(p) ELSE p
      BY <2>1
    <3>2. PICK q \in usages : q.id = b.id /\ b = IF q \in found THEN Approved(q) ELSE q
      BY <2>1
    <3>3. p = q
      BY <1>3, <2>2, <3>1, <3>2 DEF OwnIds
    <3> QED BY <3>1, <3>2, <3>3
  <2> QED BY <2>1, <2>2 DEF OwnIds
<1>14. usages' \subseteq Usage /\ OwnIds(usages') /\ Bounded(usages')
  <2> HIDE DEF old, added, top
  <2> QED BY <1>3, <1>9, <1>10, <1>12, <1>13, TableGrows
<1>15. \A r \in usages' :
         \/ r \in usages \ UnlistedGo(m, listed)
         \/ \E q \in usages : q.media = m /\ q.user \in listed /\ r = Approved(q)
         \/ Top(usages) < r.id /\ r.media = m /\ r.user \in listed
  <2> HIDE DEF old, added
  <2> QED BY <1>4, <1>10, <1>11, <1>12
<1>16. \A q \in usages : q \in usages' \/ Approved(q) \in usages' \/ q \in UnlistedGo(m, listed)
  BY <1>10
<1> QED
  BY <1>14, <1>15, <1>16

\* With the placeholder in place of what goes, a row is one of what stays, or that of
\* an item that goes and has no row before it on its stage.
Before(l, L, visual, order) ==
  {k \in L : k.stage = l.stage /\ \/ k.media = Placeholder
                                  \/ k.media \in visual /\ order[k.media] < order[l.media]}

LEMMA SubstitutedRows ==
  ASSUME NEW L \in SUBSET Link, NEW doomed, NEW visual, NEW order
  PROVE  \A l : l \in Substituted(L, doomed, visual, order) <=>
           \/ l \in L /\ l.media \notin doomed
           \/ \E k \in L : /\ k.media \in visual /\ Before(k, L, visual, order) = {}
                           /\ l = [k EXCEPT !.media = Placeholder]
<1> DEFINE heirs == {l \in L : l.media \in visual /\ Before(l, L, visual, order) = {}}
<1>1. Substituted(L, doomed, visual, order)
        = {l \in L : l.media \notin doomed} \cup {[l EXCEPT !.media = Placeholder] : l \in heirs}
  BY DEF Substituted, Before
<1> QED BY <1>1

LEMMA StandsIn ==
  ASSUME NEW k \in Link
  PROVE  /\ [k EXCEPT !.media = Placeholder] \in Link
         /\ [k EXCEPT !.media = Placeholder].id = k.id
         /\ [k EXCEPT !.media = Placeholder].stage = k.stage
         /\ [k EXCEPT !.media = Placeholder].media = Placeholder
         /\ [k EXCEPT !.media = Placeholder].exit = k.exit
  BY MediaAssumption DEF MediaAssumption, Link

LEMMA SubstitutedTyped ==
  ASSUME Typed, NEW L \in SUBSET links, NEW doomed, NEW visual \in SUBSET doomed, NEW order
  PROVE  LET S == Substituted(L, doomed, visual, order)
         IN  S \subseteq Link /\ OwnIds(S) /\ Bounded(S)
<1> DEFINE S == Substituted(L, doomed, visual, order)
<1>1. /\ Top(links) \in Nat /\ OwnIds(links)
      /\ \A l \in links : l \in Link /\ l.id \in Nat /\ l.id <= Top(links)
  BY IdsBelowTop
<1>2. \A l \in S : \E k \in links :
        \/ l = k /\ k.media \notin doomed
        \/ l = [k EXCEPT !.media = Placeholder] /\ k.media \in doomed
  BY <1>1, SubstitutedRows
<1>3. \A l \in S : \E k \in links :
        /\ l.id = k.id /\ l \in Link
        /\ \/ l = k /\ k.media \notin doomed
           \/ l = [k EXCEPT !.media = Placeholder] /\ k.media \in doomed
  BY <1>1, <1>2, StandsIn
<1> HIDE DEF S
<1>4. S \subseteq Link /\ OwnIds(S) /\ \A l \in S : l.id <= Top(links)
  BY <1>1, <1>3 DEF OwnIds
<1> QED BY <1>1, <1>4 DEF Bounded, S

\* What the deletion of an account does: to the items, which go, are inherited or stay
\* (the placeholder may be made for it), and to the rows.
Goes(u, S, doomed, visual, order) ==
  /\ u \in users /\ u # Canonical
  /\ doomed \subseteq Items /\ Placeholder \notin doomed /\ \A m \in doomed : media[m].owner = u
  /\ visual = {m \in doomed : media[m].kind \notin SoundKinds}
  /\ order \in Bijection(visual, 1..Cardinality(visual))
  /\ users' = users \ {u} /\ stages' = stages \ S
  /\ Items' = (Items \cup {Placeholder}) \ doomed
  /\ \A x \in Items' :
       \/ x \in Items /\ media[x].owner # u /\ media'[x] = media[x]
       \/ x \in Items /\ media[x].owner = u /\ media'[x] = [media[x] EXCEPT !.owner = Canonical]
       \/ x = Placeholder /\ x \notin Items /\ media'[x] \in Item
            /\ media'[x].owner = Canonical /\ media'[x].level = 0
  /\ links' = Substituted({l \in links : l.stage \notin S}, doomed, visual, order)
  /\ usages' = {r \in usages : r.user # u /\ r.media \notin doomed}

LEMMA UserGoes ==
  ASSUME NEW u \in users, NEW S, NEW kept, DeleteUser(u, S, kept), Typed
  PROVE  \E doomed, visual, order : Goes(u, S, doomed, visual, order)
<1> DEFINE mine == {m \in Items : media[m].owner = u}
           stays == {m \in mine : media[m].kind \in kept}
           doomed == mine \ stays
           visual == {m \in doomed : media[m].kind \notin SoundKinds}
           stand == IF Placeholder \in Items THEN media[Placeholder]
                 ELSE [owner |-> Canonical, kind |-> CHOOSE k \in Kinds : k \notin SoundKinds, level |-> 0]
           left == [x \in (Items \cup {Placeholder}) \ doomed |->
                      IF x = Placeholder THEN stand
                      ELSE IF x \in stays THEN [media[x] EXCEPT !.owner = Canonical] ELSE media[x]]
           rest == {l \in links : l.stage \notin S}
<1>1. PICK order \in Bijection(visual, 1..Cardinality(visual)) :
        links' = Substituted(rest, doomed, visual, order)
  BY DEF DeleteUser
<1>2. /\ u # Canonical /\ Placeholder \notin mine
      /\ users' = users \ {u} /\ stages' = stages \ S /\ media' = left
      /\ usages' = {r \in usages : r.user # u /\ r.media \notin doomed}
  BY DEF DeleteUser
<1>3. Items' = (Items \cup {Placeholder}) \ doomed
  BY <1>2 DEF Items
<1>4. ASSUME NEW x \in Items'
      PROVE  \/ x \in Items /\ media[x].owner # u /\ media'[x] = media[x]
             \/ x \in Items /\ media[x].owner = u /\ media'[x] = [media[x] EXCEPT !.owner = Canonical]
             \/ x = Placeholder /\ x \notin Items /\ media'[x] \in Item
                  /\ media'[x].owner = Canonical /\ media'[x].level = 0
  <2>1. CASE x = Placeholder /\ x \in Items
    BY <1>2, <1>3, <2>1
  <2>2. CASE x = Placeholder /\ x \notin Items
    <3> DEFINE kind == CHOOSE k \in Kinds : k \notin SoundKinds
    <3>1. kind \in Kinds /\ Canonical \in Users /\ 0 \in Levels
      BY MediaAssumption DEF MediaAssumption
    <3>2. media'[x] = [owner |-> Canonical, kind |-> kind, level |-> 0]
      BY <1>2, <1>3, <2>2
    <3> HIDE DEF kind
    <3> QED BY <2>2, <3>1, <3>2 DEF Item
  <2>3. CASE x # Placeholder
    BY <1>2, <1>3, <2>3
  <2> QED BY <2>1, <2>2, <2>3
<1>5. doomed \subseteq Items /\ Placeholder \notin doomed /\ \A m \in doomed : media[m].owner = u
  BY <1>2
<1> HIDE DEF left, stand, stays, mine
<1>6. Goes(u, S, doomed, visual, order)
  <2>1. visual = {m \in doomed : media[m].kind \notin SoundKinds}
    OBVIOUS
  <2> HIDE DEF doomed, visual
  <2> QED BY <1>1, <1>2, <1>3, <1>4, <1>5, <2>1 DEF Goes
<1> QED BY <1>6

LEMMA GoesTyped ==
  ASSUME Typed, NEW u, NEW S, NEW doomed, NEW visual, NEW order, Goes(u, S, doomed, visual, order)
  PROVE  Typed'
<1>1. links' \subseteq Link /\ OwnIds(links') /\ Bounded(links')
  <2> DEFINE L == {l \in links : l.stage \notin S}
  <2>1. L \in SUBSET links /\ visual \in SUBSET doomed
        /\ links' = Substituted(L, doomed, visual, order)
    BY DEF Goes
  <2> HIDE DEF L
  <2> QED BY <2>1, SubstitutedTyped
<1>2. usages' \subseteq Usage /\ OwnIds(usages') /\ Bounded(usages')
  BY DEF Goes, Typed, TypeOK, OwnIds, Bounded
<1>3. Items' \subseteq Media /\ \A x \in Items' : media'[x] \in Item
  <2>1. \A x \in Items : x \in Media /\ media[x] \in Item
    BY DEF Typed, TypeOK
  <2>2. Placeholder \in Media /\ Canonical \in Users
    BY MediaAssumption DEF MediaAssumption
  <2>3. \A i \in Item : [i EXCEPT !.owner = Canonical] \in Item
    BY <2>2 DEF Item
  <2>4. Items' \subseteq Items \cup {Placeholder}
    BY DEF Goes
  <2>5. ASSUME NEW x \in Items'
        PROVE  \/ x \in Items /\ media'[x] = media[x]
               \/ x \in Items /\ media'[x] = [media[x] EXCEPT !.owner = Canonical]
               \/ media'[x] \in Item
    BY DEF Goes
  <2> QED BY <2>1, <2>2, <2>3, <2>4, <2>5
<1>4. users' \subseteq Users /\ stages' \subseteq Stages
  BY DEF Goes, Typed, TypeOK
<1>5. IsFiniteSet(Items')
  <2>1. IsFiniteSet(Items \cup {Placeholder})
    BY FS_AddElement DEF Typed
  <2>2. Items' \in SUBSET (Items \cup {Placeholder})
    BY DEF Goes
  <2> QED BY <2>1, <2>2, FS_Subset
<1> QED BY <1>1, <1>2, <1>3, <1>4, <1>5 DEF Typed, TypeOK, OwnIds

LEMMA LibraryTyped == Typed /\ Library => Typed'
<1> SUFFICES ASSUME Typed, Library
             PROVE  Typed'
  OBVIOUS
<1>1. ASSUME NEW u \in users, NEW m \in Media, NEW k \in Kinds, UploadMedia(u, m, k)
      PROVE  Typed'
  <2>1. [owner |-> u, kind |-> k, level |-> 0] \in Item
    BY MediaAssumption DEF MediaAssumption, Typed, TypeOK, Item
  <2> QED BY <1>1, <2>1, FS_AddElement DEF UploadMedia, Put, Typed, TypeOK, Items, Bounded
<1>2. ASSUME NEW m \in Items, NEW k \in Kinds, UpdateMedia(m, k)
      PROVE  Typed'
  <2>1. [media[m] EXCEPT !.kind = k] \in Item /\ m \in Media
    BY DEF Typed, TypeOK, Item
  <2> QED BY <1>2, <2>1, FS_AddElement DEF UpdateMedia, Put, Typed, TypeOK, Items, Bounded
<1>3. ASSUME NEW o \in users, NEW m \in Items \cup (Media \ {Placeholder}), NEW k \in Kinds,
             NEW l \in Levels, NEW wanted \in Wanted(Exits \cup {None}), NEW listed \in UserLists,
             SaveMedia(m, [owner |-> o, kind |-> k, level |-> l], wanted, listed)
      PROVE  Typed'
  <2>1. [owner |-> o, kind |-> k, level |-> l] \in Item /\ m \in Media
    BY DEF Typed, TypeOK, Item
  <2>2. Items' \subseteq Media /\ \A x \in Items' : media'[x] \in Item
    BY <1>3, <2>1 DEF SaveMedia, Put, Typed, TypeOK, Items
  <2>3. links' \subseteq Link /\ OwnIds(links') /\ Bounded(links')
    BY <1>3, <2>1, SyncedTyped DEF SaveMedia
  <2>4. usages' \subseteq Usage /\ OwnIds(usages') /\ Bounded(usages')
    BY <1>3, <2>1, SavedRows DEF SaveMedia
  <2>5. IsFiniteSet(Items')
    BY <1>3, FS_AddElement DEF SaveMedia, Put, Typed, Items
  <2> QED BY <1>3, <2>2, <2>3, <2>4, <2>5 DEF SaveMedia, Typed, TypeOK, OwnIds
<1>4. ASSUME NEW m \in Items, DeleteMedia(m)
      PROVE  Typed'
  BY <1>4, FS_RemoveElement DEF DeleteMedia, DropMedia, Without, Typed, TypeOK, Items, Bounded
<1>5. ASSUME NEW u \in Users, CreateUser(u)
      PROVE  Typed'
  BY <1>5 DEF CreateUser, Typed, TypeOK, Items, Bounded
<1> QED
  BY <1>1, <1>2, <1>3, <1>4, <1>5, UserGoes, GoesTyped DEF Library

LEMMA InitTyped == Init => Typed
  BY FS_EmptySet DEF Init, Typed, TypeOK, Items, Bounded

LEMMA StepTyped == Typed /\ [Next]_vars => Typed'
<1>1. Typed /\ UNCHANGED vars => Typed'
  BY DEF vars, Typed, TypeOK, Items, Bounded
<1> QED BY <1>1, AssignmentsTyped, PermissionsTyped, LibraryTyped DEF Next

\* The tables keep their types, and every row has an id of its own, also where many are
\* written anew in one statement.
THEOREM TypeCorrect == Spec => []TypeOK
<1>1. Typed => TypeOK
  BY DEF Typed
<1> QED BY <1>1, InitTyped, StepTyped, PTL DEF Spec
-------------------------------------------------------------------------------
(***************************************************************************)
(* References: the heir of a deleted user's items cannot go                *)
(***************************************************************************)
Sound == NothingDangles /\ Canonical \in users

LEMMA InitSound == Init => Sound
  BY MediaAssumption DEF Init, Sound, NothingDangles, Items, MediaAssumption

\* What saveMedia and assign_stages leave of the assignments refers to stages that
\* exist, and to m or what was referred to before.
LEMMA SyncedRefers ==
  ASSUME Typed, Sound, NEW m \in Media,
         NEW exits \in SUBSET (Exits \cup {None}), NEW wanted \in Wanted(exits)
  PROVE  \A l \in Synced(m, wanted) : l.stage \in stages /\ (l.media = m \/ l.media \in Items)
<1> SUFFICES ASSUME NEW l \in Synced(m, wanted)
             PROVE  l.stage \in stages /\ (l.media = m \/ l.media \in Items)
  OBVIOUS
<1>1. CASE l \in links
  BY <1>1 DEF Sound, NothingDangles
<1>2. ASSUME NEW k \in links, NEW i \in Firsts(wanted), k.media = m, StaysAs(l, k, wanted, i)
      PROVE  l.stage \in stages /\ l.media = m
  BY <1>2, RowStays DEF Sound, NothingDangles
<1>3. ASSUME NEW i \in Firsts(wanted), AddedAs(l, m, wanted, i)
      PROVE  l.stage \in stages /\ l.media = m
  BY <1>3, RowAdded
<1> QED BY <1>1, <1>2, <1>3, SyncedRows

LEMMA AssignmentsSound == Typed /\ Sound /\ Assignments => Sound'
<1> SUFFICES ASSUME Typed, Sound, Assignments
             PROVE  Sound'
  OBVIOUS
<1> USE DEF Sound, NothingDangles, Items
<1>1. ASSUME NEW s \in Stages, CreateStage(s) \/ DeleteStage(s)
      PROVE  Sound'
  BY <1>1 DEF CreateStage, DeleteStage
<1>2. ASSUME NEW s \in Stages, NEW t \in Stages, DuplicateStage(s, t)
      PROVE  Sound'
  <2> DEFINE rows == {l \in links : l.stage = s}
             ids == (Top(links) + 1)..(Top(links) + Cardinality(rows))
  <2>1. PICK id \in Bijection(rows, ids) :
          links' = links \cup {[l EXCEPT !.id = id[l], !.stage = t] : l \in rows}
    BY <1>2 DEF DuplicateStage
  <2>2. \A l \in rows : l \in Link
    BY IdsBelowTop
  <2>3. \A k \in {[l EXCEPT !.id = id[l], !.stage = t] : l \in rows} :
          k.stage = t /\ k.media \in Items
    BY <2>2 DEF Link
  <2> QED BY <1>2, <2>1, <2>3 DEF DuplicateStage
<1>3. ASSUME NEW s \in Stages, NEW n \in 0..MaxWanted, NEW list \in [1..n -> Items],
             AssignMedia(s, list)
      PROVE  Sound'
  <2>1. PICK exit \in Snapshots(s, Range(list)) : links' = Rearranged(s, list, exit)
    BY <1>3 DEF AssignMedia
  <2>2. \A l \in Rearranged(s, list, exit) : l.stage \in stages /\ l.media \in Items
    BY <1>3 DEF AssignMedia, Rearranged
  <2> QED BY <1>3, <2>1, <2>2 DEF AssignMedia
<1>4. ASSUME NEW m \in Items, NEW wanted \in Wanted({None}), AssignStages(m, wanted)
      PROVE  Sound'
  <2>1. \A l \in links' : l.stage \in stages /\ l.media \in Items
    BY <1>4, SyncedRefers DEF AssignStages, Typed, TypeOK
  <2> QED BY <1>4, <2>1 DEF AssignStages
<1>5. ASSUME NEW l \in links, NEW e, UpdateStageAssignment(l, e)
      PROVE  Sound'
  <2>1. [l EXCEPT !.exit = e].stage = l.stage /\ [l EXCEPT !.exit = e].media = l.media
    BY IdsBelowTop DEF Link
  <2> QED BY <1>5, <2>1 DEF UpdateStageAssignment
<1> QED
  BY <1>1, <1>2, <1>3, <1>4, <1>5 DEF Assignments

LEMMA PermissionsSound == Typed /\ Sound /\ Permissions => Sound'
<1> SUFFICES ASSUME Typed, Sound, Permissions
             PROVE  Sound'
  OBVIOUS
<1> USE DEF Sound, NothingDangles, Items
<1>1. ASSUME NEW u \in users, NEW m \in Items, RequestPermission(u, m)
      PROVE  Sound'
  BY <1>1 DEF RequestPermission
<1>2. ASSUME NEW r \in usages, NEW q, q.media = r.media, q.user = r.user,
             usages' \subseteq (usages \ {r}) \cup {q}, UNCHANGED <<users, stages, media, links>>
      PROVE  Sound'
  BY <1>2
<1>3. \A r \in usages : r \in Usage
  BY IdsBelowTop
<1>4. ASSUME NEW u \in users, NEW r \in usages, NEW approved \in BOOLEAN,
             ConfirmPermission(u, r, approved)
      PROVE  Sound'
  <2> DEFINE q == [r EXCEPT !.approved = TRUE, !.ownerSeen = TRUE, !.requesterSeen = FALSE]
  <2>1. q.media = r.media /\ q.user = r.user
    BY <1>3 DEF Usage
  <2> QED BY <1>2, <1>4, <2>1 DEF ConfirmPermission
<1>5. ASSUME NEW u \in users, NEW r \in usages, DismissNotification(u, r)
      PROVE  Sound'
  <2>1. Dismissed(u, r).media = r.media /\ Dismissed(u, r).user = r.user
    BY <1>3 DEF Dismissed, Usage
  <2> QED BY <1>2, <1>5, <2>1 DEF DismissNotification
<1> QED
  BY <1>1, <1>4, <1>5 DEF Permissions

LEMMA SaveSound ==
  ASSUME Typed, Sound, NEW m \in Media, NEW item \in [owner : users, kind : Kinds, level : Levels],
         NEW wanted \in Wanted(Exits \cup {None}),
         NEW listed \in {S \in UserLists : S \subseteq users},
         SaveMedia(m, item, wanted, listed)
  PROVE  Sound'
<1>1. /\ Items' = Items \cup {m}
      /\ \A x \in Items' : media'[x] = item \/ (x \in Items /\ media'[x] = media[x])
  BY DEF SaveMedia, Put, Items
<1>2. \A x \in Items' : media'[x].owner \in users
  BY <1>1 DEF Sound, NothingDangles
<1>3. \A l \in links' : l.stage \in stages /\ l.media \in Items'
  BY <1>1, SyncedRefers DEF SaveMedia
<1>4. \A r \in usages' : r.media \in Items' /\ r.user \in users
  <2>1. \A q \in usages : Approved(q).media = q.media /\ Approved(q).user = q.user
    BY ApprovedTyped
  <2> QED BY <1>1, <2>1, SavedRows DEF SaveMedia, Sound, NothingDangles
<1> QED BY <1>2, <1>3, <1>4 DEF SaveMedia, Sound, NothingDangles

LEMMA GoesSound ==
  ASSUME Typed, Sound, NEW u, NEW S, NEW doomed, NEW visual, NEW order,
         Goes(u, S, doomed, visual, order)
  PROVE  Sound'
<1> DEFINE L == {l \in links : l.stage \notin S}
<1>1. /\ links' = Substituted(L, doomed, visual, order)
      /\ Items' = (Items \cup {Placeholder}) \ doomed /\ Placeholder \notin doomed
      /\ users' = users \ {u} /\ u # Canonical /\ stages' = stages \ S
      /\ usages' = {r \in usages : r.user # u /\ r.media \notin doomed}
  BY DEF Goes
<1>2. \A x \in Items' : media'[x].owner \in users'
  <2>1. \A x \in Items : [media[x] EXCEPT !.owner = Canonical].owner = Canonical
    BY DEF Typed, TypeOK, Item
  <2>2. ASSUME NEW x \in Items'
        PROVE  \/ x \in Items /\ media[x].owner # u /\ media'[x] = media[x]
               \/ x \in Items /\ media'[x] = [media[x] EXCEPT !.owner = Canonical]
               \/ media'[x].owner = Canonical
    BY DEF Goes
  <2> QED BY <1>1, <2>1, <2>2 DEF Sound, NothingDangles
<1>3. \A l \in links' : l.stage \in stages' /\ l.media \in Items'
  <2>1. \A l \in L : l \in Link /\ l.stage \in stages' /\ l.media \in Items
    BY <1>1, IdsBelowTop DEF Sound, NothingDangles
  <2>2. L \in SUBSET Link
    BY <2>1
  <2> HIDE DEF L
  <2> SUFFICES ASSUME NEW l \in Substituted(L, doomed, visual, order)
               PROVE  l.stage \in stages' /\ l.media \in Items'
    BY <1>1
  <2>3. CASE l \in L /\ l.media \notin doomed
    BY <1>1, <2>1, <2>3
  <2>4. ASSUME NEW k \in L, l = [k EXCEPT !.media = Placeholder]
        PROVE  l.stage \in stages' /\ l.media \in Items'
    BY <1>1, <2>1, <2>4, StandsIn
  <2> QED BY <2>2, <2>3, <2>4, SubstitutedRows
<1>4. \A r \in usages' : r.media \in Items' /\ r.user \in users'
  BY <1>1 DEF Sound, NothingDangles
<1> QED BY <1>1, <1>2, <1>3, <1>4 DEF Sound, NothingDangles

LEMMA LibrarySound == Typed /\ Sound /\ Library => Sound'
<1> SUFFICES ASSUME Typed, Sound, Library
             PROVE  Sound'
  OBVIOUS
<1>1. ASSUME NEW u \in users, NEW m, NEW k, UploadMedia(u, m, k)
      PROVE  Sound'
  BY <1>1 DEF UploadMedia, Put, Sound, NothingDangles, Items
<1>2. ASSUME NEW m \in Items, NEW k, UpdateMedia(m, k)
      PROVE  Sound'
  <2>1. [media[m] EXCEPT !.kind = k].owner = media[m].owner
    BY DEF Typed, TypeOK, Item
  <2> QED BY <1>2, <2>1 DEF UpdateMedia, Put, Sound, NothingDangles, Items
<1>3. ASSUME NEW u, CreateUser(u)
      PROVE  Sound'
  BY <1>3 DEF CreateUser, Sound, NothingDangles, Items
<1>4. ASSUME NEW m, DeleteMedia(m)
      PROVE  Sound'
  BY <1>4 DEF DeleteMedia, DropMedia, Without, Sound, NothingDangles, Items
<1>5. Items \subseteq Media
  BY DEF Typed, TypeOK
<1> QED
  BY <1>1, <1>2, <1>3, <1>4, <1>5, SaveSound, UserGoes, GoesSound DEF Library

LEMMA StepSound == Typed /\ Sound /\ [Next]_vars => Sound'
<1>1. Sound /\ UNCHANGED vars => Sound'
  BY DEF vars, Sound, NothingDangles, Items
<1> QED BY <1>1, AssignmentsSound, PermissionsSound, LibrarySound DEF Next

\* No order of deletions leaves an item without its owner, an assignment without its
\* stage or item, or a permission without its item or user.
THEOREM ReferencesHold == Spec => []NothingDangles
<1>1. Sound => NothingDangles
  BY DEF Sound
<1> QED BY <1>1, InitTyped, InitSound, StepTyped, StepSound, PTL DEF Spec
-------------------------------------------------------------------------------
(***************************************************************************)
(* The order of a stage and its exits                                      *)
(***************************************************************************)

\* What a step may do to the assignments.
LoseSome ==
  /\ links' \subseteq links
  /\ \A l \in links : l \in links' \/ ~OnStage(l.stage, l.media)'

LEMMA StepsByLinks ==
  ASSUME Typed, Sound, [Next]_vars
  PROVE  \/ LoseSome
         \/ \E s, t \in Stages : DuplicateStage(s, t)
         \/ \E s \in Stages, n \in 0..MaxWanted : \E list \in [1..n -> Items] : AssignMedia(s, list)
         \/ \E m \in Media, exits \in SUBSET (Exits \cup {None}) :
              \E wanted \in Wanted(exits) : links' = Synced(m, wanted)
         \/ \E l \in links, e \in Exits \cup {None} : UpdateStageAssignment(l, e)
         \/ \E u, S, doomed, visual, order : Goes(u, S, doomed, visual, order)
<1> USE DEF LoseSome, OnStage, LinksOf
<1>1. ASSUME UNCHANGED links PROVE LoseSome
  BY <1>1
<1>2. ASSUME Assignments
      PROVE  \/ LoseSome
             \/ \E s, t \in Stages : DuplicateStage(s, t)
             \/ \E s \in Stages, n \in 0..MaxWanted : \E list \in [1..n -> Items] : AssignMedia(s, list)
             \/ \E m \in Media, exits \in SUBSET (Exits \cup {None}) :
                  \E wanted \in Wanted(exits) : links' = Synced(m, wanted)
             \/ \E l \in links, e \in Exits \cup {None} : UpdateStageAssignment(l, e)
  <2>1. ASSUME NEW s \in Stages, CreateStage(s) \/ DeleteStage(s)
        PROVE  LoseSome
    BY <2>1 DEF CreateStage, DeleteStage
  <2>2. ASSUME NEW m \in Items, NEW wanted \in Wanted({None}), AssignStages(m, wanted)
        PROVE  \E x \in Media, exits \in SUBSET (Exits \cup {None}) :
                 \E w \in Wanted(exits) : links' = Synced(x, w)
    <3>1. m \in Media /\ {None} \in SUBSET (Exits \cup {None})
      BY DEF Typed, TypeOK
    <3> QED BY <2>2, <3>1 DEF AssignStages
  <2> HIDE DEF LoseSome
  <2> QED BY <1>2, <2>1, <2>2 DEF Assignments
<1>3. ASSUME Permissions
      PROVE  UNCHANGED links
  BY <1>3 DEF Permissions, RequestPermission, ConfirmPermission, DismissNotification
<1>4. ASSUME Library
      PROVE  \/ LoseSome
             \/ \E m \in Media, exits \in SUBSET (Exits \cup {None}) :
                  \E wanted \in Wanted(exits) : links' = Synced(m, wanted)
             \/ \E u, S, doomed, visual, order : Goes(u, S, doomed, visual, order)
  <2>1. ASSUME NEW m \in Items, DeleteMedia(m)
        PROVE  LoseSome
    BY <2>1 DEF DeleteMedia, DropMedia
  <2>2. ASSUME NEW m \in Items \cup (Media \ {Placeholder}), NEW item,
               NEW wanted \in Wanted(Exits \cup {None}), NEW listed, SaveMedia(m, item, wanted, listed)
        PROVE  \E x \in Media, exits \in SUBSET (Exits \cup {None}) :
                 \E w \in Wanted(exits) : links' = Synced(x, w)
    BY <2>2 DEF SaveMedia, Typed, TypeOK
  <2>3. ASSUME NEW u \in users, NEW S, NEW kept, DeleteUser(u, S, kept)
        PROVE  \E v, T, doomed, visual, order : Goes(v, T, doomed, visual, order)
    BY <2>3, UserGoes
  <2>4. ASSUME NEW u, NEW m, NEW k, UploadMedia(u, m, k) \/ UpdateMedia(m, k) \/ CreateUser(u)
        PROVE  UNCHANGED links
    BY <2>4 DEF UploadMedia, UpdateMedia, CreateUser
  <2> HIDE DEF LoseSome
  <2> QED BY <1>1, <1>4, <2>1, <2>2, <2>3, <2>4 DEF Library
<1> HIDE DEF LoseSome
<1> QED BY <1>1, <1>2, <1>3, <1>4 DEF Next, vars

\* The ids of the rows of an item on a stage, now or after a step.
IdsIn(L, s, m) == {k.id : k \in {h \in L : h.stage = s /\ h.media = m}}

LEMMA IdsInRows ==
  /\ \A L, s, m : IdsIn(L, s, m) # {} <=> \E k \in L : k.stage = s /\ k.media = m
  /\ \A L, s, m, i : i \in IdsIn(L, s, m) <=> \E k \in L : k.stage = s /\ k.media = m /\ k.id = i
  BY DEF IdsIn

LEMMA PlaceInRows ==
  /\ \A s, m : OnStage(s, m) <=> IdsIn(links, s, m) # {}
  /\ \A s, m : OnStage(s, m)' <=> IdsIn(links', s, m) # {}
  /\ \A s, m : Place(s, m) = Min(IdsIn(links, s, m))
  /\ \A s, m : Place(s, m)' = Min(IdsIn(links', s, m))
  BY DEF OnStage, LinksOf, Place, IdsIn

\* The first row of an item on a stage.
LEMMA FirstRow ==
  ASSUME NEW L, L \subseteq Link, NEW s, NEW m, IdsIn(L, s, m) # {}
  PROVE  /\ Min(IdsIn(L, s, m)) \in Nat
         /\ \E k \in L : k.stage = s /\ k.media = m /\ k.id = Min(IdsIn(L, s, m))
         /\ \A k \in L : k.stage = s /\ k.media = m => Min(IdsIn(L, s, m)) <= k.id
<1>1. IdsIn(L, s, m) \in SUBSET Nat
  BY IdsInRows DEF Link
<1>2. Min(IdsIn(L, s, m)) \in IdsIn(L, s, m) /\ \A i \in IdsIn(L, s, m) : Min(IdsIn(L, s, m)) <= i
  BY <1>1, MinIsLeast
<1> QED BY <1>1, <1>2, IdsInRows

LEMMA PlaceIsFirst ==
  ASSUME Typed, NEW s, NEW m, OnStage(s, m)
  PROVE  /\ Place(s, m) \in Nat /\ Place(s, m) <= Top(links)
         /\ \E k \in links : k.stage = s /\ k.media = m /\ k.id = Place(s, m)
         /\ \A k \in links : k.stage = s /\ k.media = m => Place(s, m) <= k.id
<1>1. links \subseteq Link /\ Top(links) \in Nat /\ \A k \in links : k.id <= Top(links)
  BY IdsBelowTop
<1>2. IdsIn(links, s, m) # {} /\ Place(s, m) = Min(IdsIn(links, s, m))
  BY PlaceInRows
<1>3. /\ Min(IdsIn(links, s, m)) \in Nat
      /\ \E k \in links : k.stage = s /\ k.media = m /\ k.id = Min(IdsIn(links, s, m))
      /\ \A k \in links : k.stage = s /\ k.media = m => Min(IdsIn(links, s, m)) <= k.id
  BY <1>1, <1>2, FirstRow
<1> QED BY <1>1, <1>2, <1>3

\* What is said of one stage.
PlaceStays(s) ==
  \A m \in Media :
    OnStage(s, m) /\ OnStage(s, m)' =>
      /\ Place(s, m)' = Place(s, m)
      /\ \A n \in Media : ~OnStage(s, n) /\ OnStage(s, n)' =>
           Place(s, n)' > Place(s, m) \/ (n = Placeholder /\ users' # users)

\* On a stage where every item has the rows it had, or none, nothing moves.
LEMMA SameIdsSamePlace ==
  ASSUME NEW s, \A m \in Media : OnStage(s, m)' => IdsIn(links', s, m) = IdsIn(links, s, m)
  PROVE  PlaceStays(s)
  BY PlaceInRows DEF PlaceStays

LEMMA SyncedStays ==
  ASSUME Typed, NEW m \in Media, NEW exits \in SUBSET (Exits \cup {None}), NEW wanted \in Wanted(exits),
         links' = Synced(m, wanted), NEW s
  PROVE  PlaceStays(s)
<1>1. \A l \in links' :
        \/ l \in links /\ l.media # m
        \/ \E k \in links : k.media = m /\ l.media = m /\ l.stage = k.stage /\ l.id = k.id
                            /\ k.id = Place(k.stage, m)
        \/ /\ ~OnStage(l.stage, m) /\ l.media = m /\ l.id > Top(links)
  <2> SUFFICES ASSUME NEW l \in Synced(m, wanted)
               PROVE  \/ l \in links /\ l.media # m
                      \/ \E k \in links : k.media = m /\ l.media = m /\ l.stage = k.stage /\ l.id = k.id
                                          /\ k.id = Place(k.stage, m)
                      \/ /\ ~OnStage(l.stage, m) /\ l.media = m /\ l.id > Top(links)
    OBVIOUS
  <2>1. ASSUME NEW k \in links, NEW i \in Firsts(wanted), k.media = m, StaysAs(l, k, wanted, i)
        PROVE  l.media = m /\ l.stage = k.stage /\ l.id = k.id /\ k.id = Place(k.stage, m)
    BY <2>1, RowStays DEF StaysAs
  <2>2. ASSUME NEW i \in Firsts(wanted), ~OnStage(wanted[i].stage, m), AddedAs(l, m, wanted, i)
        PROVE  ~OnStage(l.stage, m) /\ l.media = m /\ l.id > Top(links)
    <3>1. l.stage = wanted[i].stage /\ l.media = m /\ Top(links) < l.id /\ l \in Link
      BY <2>2, RowAdded
    <3> QED BY <2>2, <3>1, IdsBelowTop DEF Link
  <2> QED BY <2>1, <2>2, SyncedRows
<1>2. \A l \in links : l.media # m => l \in links'
  BY SyncedRows
<1>3. links' \subseteq Link
  BY SyncedTyped
<1>4. ASSUME NEW x \in Media, x # m
      PROVE  IdsIn(links', s, x) = IdsIn(links, s, x)
  BY <1>1, <1>2, <1>4 DEF IdsIn
<1>5. ASSUME OnStage(s, m), OnStage(s, m)'
      PROVE  Place(s, m)' = Place(s, m)
  <2>1. \A l \in links' : l.stage = s /\ l.media = m => l.id = Place(s, m)
    BY <1>1, <1>5
  <2>2. IdsIn(links', s, m) # {} /\ Place(s, m)' = Min(IdsIn(links', s, m))
    BY <1>5, PlaceInRows
  <2>3. \E k \in links' : k.stage = s /\ k.media = m /\ k.id = Min(IdsIn(links', s, m))
    BY <1>3, <2>2, FirstRow
  <2> QED BY <2>1, <2>2, <2>3
<1>6. ASSUME NEW n \in Media, ~OnStage(s, n), OnStage(s, n)'
      PROVE  Place(s, n)' \in Int /\ Place(s, n)' > Top(links)
  <2>1. n = m
    BY <1>4, <1>6, PlaceInRows
  <2>2. \A l \in links' : l.stage = s /\ l.media = n => l.id > Top(links)
    BY <1>1, <1>6, <2>1 DEF OnStage, LinksOf
  <2>3. IdsIn(links', s, n) # {} /\ Place(s, n)' = Min(IdsIn(links', s, n))
    BY <1>6, PlaceInRows
  <2>4. /\ Min(IdsIn(links', s, n)) \in Nat
        /\ \E k \in links' : k.stage = s /\ k.media = n /\ k.id = Min(IdsIn(links', s, n))
    BY <1>3, <2>3, FirstRow
  <2> QED BY <2>2, <2>3, <2>4
<1>7. ASSUME NEW x \in Media, OnStage(s, x), OnStage(s, x)'
      PROVE  Place(s, x)' = Place(s, x) /\ Place(s, x) \in Nat /\ Place(s, x) <= Top(links)
  <2>1. Place(s, x)' = Place(s, x)
    BY <1>4, <1>5, <1>7, PlaceInRows
  <2> QED BY <1>7, <2>1, PlaceIsFirst
<1>8. Top(links) \in Nat
  BY IdsBelowTop
<1> QED BY <1>6, <1>7, <1>8 DEF PlaceStays

\* What a deletion leaves of the assignments: rows of what stays, and rows that become
\* the placeholder's, where nothing comes before them.
Remaining(S) == {l \in links : l.stage \notin S}

LEMMA GoesRows ==
  ASSUME Typed, NEW u, NEW S, NEW doomed, NEW visual, NEW order, Goes(u, S, doomed, visual, order)
  PROVE  /\ \A l \in links' :
              \/ l \in Remaining(S) /\ l.media \notin doomed
              \/ \E k \in Remaining(S) :
                   /\ k.media \in visual /\ Before(k, Remaining(S), visual, order) = {}
                   /\ l.media = Placeholder /\ l.stage = k.stage /\ l.id = k.id
         /\ \A k \in Remaining(S) :
              k.media \in visual /\ Before(k, Remaining(S), visual, order) = {} =>
                \E l \in links' : l.media = Placeholder /\ l.stage = k.stage /\ l.id = k.id
         /\ \A l \in Remaining(S) : l.media \notin doomed => l \in links'
<1> DEFINE L == Remaining(S)
<1>1. links' = Substituted(L, doomed, visual, order)
  BY DEF Goes, Remaining
<1>2. L \in SUBSET Link
  BY IdsBelowTop DEF Remaining
<1> HIDE DEF L
<1>3. \A l : l \in links' <=>
        \/ l \in L /\ l.media \notin doomed
        \/ \E k \in L : /\ k.media \in visual /\ Before(k, L, visual, order) = {}
                        /\ l = [k EXCEPT !.media = Placeholder]
  BY <1>1, <1>2, SubstitutedRows
<1>4. \A k \in L : /\ [k EXCEPT !.media = Placeholder].media = Placeholder
                   /\ [k EXCEPT !.media = Placeholder].stage = k.stage
                   /\ [k EXCEPT !.media = Placeholder].id = k.id
  BY <1>2, StandsIn
<1>5. \A l \in links' :
        \/ l \in L /\ l.media \notin doomed
        \/ \E k \in L : /\ k.media \in visual /\ Before(k, L, visual, order) = {}
                        /\ l.media = Placeholder /\ l.stage = k.stage /\ l.id = k.id
  <2> SUFFICES ASSUME NEW l \in links', ~(l \in L /\ l.media \notin doomed)
               PROVE  \E k \in L : /\ k.media \in visual /\ Before(k, L, visual, order) = {}
                                   /\ l.media = Placeholder /\ l.stage = k.stage /\ l.id = k.id
    OBVIOUS
  <2>1. PICK k \in L : /\ k.media \in visual /\ Before(k, L, visual, order) = {}
                       /\ l = [k EXCEPT !.media = Placeholder]
    BY <1>3
  <2> QED BY <1>4, <2>1
<1>6. \A k \in L : k.media \in visual /\ Before(k, L, visual, order) = {} =>
        \E l \in links' : l.media = Placeholder /\ l.stage = k.stage /\ l.id = k.id
  <2> SUFFICES ASSUME NEW k \in L, k.media \in visual, Before(k, L, visual, order) = {}
               PROVE  [k EXCEPT !.media = Placeholder] \in links'
    BY <1>4
  <2> QED BY <1>3
<1>7. \A l \in L : l.media \notin doomed => l \in links'
  BY <1>3
<1> QED BY <1>5, <1>6, <1>7 DEF L

\* On a stage that stays every item has the rows it had, except that the placeholder
\* may have come.
LEMMA GoesStays ==
  ASSUME Typed, NEW u, NEW S, NEW doomed, NEW visual, NEW order, Goes(u, S, doomed, visual, order),
         NEW s
  PROVE  /\ \A x \in Media \ {Placeholder} : OnStage(s, x)' => IdsIn(links', s, x) = IdsIn(links, s, x)
         /\ OnStage(s, Placeholder) /\ OnStage(s, Placeholder)' =>
              IdsIn(links', s, Placeholder) = IdsIn(links, s, Placeholder)
         /\ \A l \in links' : OnStage(l.stage, l.media) => l \in links
<1> DEFINE L == Remaining(S)
<1>1. L \subseteq links /\ (\A l \in links : l.stage \notin S => l \in L) /\ \A l \in L : l.stage \notin S
  BY DEF Remaining
<1>2. Placeholder \notin doomed /\ \A m \in visual : m \in doomed
  BY DEF Goes
<1>3. \A l \in links' : \/ l \in L /\ l.media \notin doomed
                        \/ \E k \in L : /\ k.media \in visual /\ Before(k, L, visual, order) = {}
                                        /\ l.media = Placeholder /\ l.stage = k.stage /\ l.id = k.id
  BY GoesRows
<1>4. \A l \in L : l.media \notin doomed => l \in links'
  BY GoesRows
<1> HIDE DEF L
<1>5. \A l \in links' : l.stage \notin S
  BY <1>1, <1>3
<1>6. ASSUME NEW x \in Media \ {Placeholder}, OnStage(s, x)'
      PROVE  IdsIn(links', s, x) = IdsIn(links, s, x)
  <2>1. s \notin S /\ x \notin doomed
    BY <1>3, <1>5, <1>6 DEF OnStage, LinksOf
  <2>2. \A l : l \in links' /\ l.stage = s /\ l.media = x <=> l \in links /\ l.stage = s /\ l.media = x
    BY <1>1, <1>3, <1>4, <2>1
  <2> QED BY <2>2 DEF IdsIn
<1>7. ASSUME NEW l \in links', OnStage(l.stage, l.media)
      PROVE  l \in links
  <2> SUFFICES ASSUME l.media = Placeholder PROVE l \in links
    BY <1>1, <1>3
  <2>1. PICK h \in L : h.stage = l.stage /\ h.media = Placeholder
    BY <1>1, <1>5, <1>7 DEF OnStage, LinksOf
  <2>2. \A k \in L : k.stage = l.stage => h \in Before(k, L, visual, order)
    BY <2>1 DEF Before
  <2> QED BY <1>1, <1>3, <2>2
<1>8. ASSUME OnStage(s, Placeholder), OnStage(s, Placeholder)'
      PROVE  IdsIn(links', s, Placeholder) = IdsIn(links, s, Placeholder)
  <2>1. s \notin S
    BY <1>5, <1>8 DEF OnStage, LinksOf
  <2>2. \A l : l \in links' /\ l.stage = s /\ l.media = Placeholder
                 <=> l \in links /\ l.stage = s /\ l.media = Placeholder
    BY <1>1, <1>2, <1>4, <1>7, <1>8, <2>1
  <2> QED BY <2>2 DEF IdsIn
<1> QED BY <1>6, <1>7, <1>8

LEMMA PlacesStay ==
  ASSUME Typed, Sound, [Next]_vars, NEW s \in Stages
  PROVE  PlaceStays(s) \/ \E n \in 0..MaxWanted : \E list \in [1..n -> Items] : AssignMedia(s, list)
<1>1. CASE LoseSome
  <2>1. \A m \in Media : OnStage(s, m)' => IdsIn(links', s, m) = IdsIn(links, s, m)
    BY <1>1 DEF LoseSome, IdsIn
  <2> QED BY <2>1, SameIdsSamePlace
<1>2. ASSUME NEW r \in Stages, NEW t \in Stages, DuplicateStage(r, t)
      PROVE  PlaceStays(s)
  <2>1. CASE s = t
    <3>1. t \notin stages
      BY <1>2 DEF DuplicateStage
    <3>2. \A m : ~OnStage(t, m)
      BY <3>1 DEF Sound, NothingDangles, OnStage, LinksOf
    <3> QED BY <2>1, <3>2 DEF PlaceStays
  <2>2. CASE s # t
    <3> DEFINE rows == {l \in links : l.stage = r}
               ids == (Top(links) + 1)..(Top(links) + Cardinality(rows))
    <3>1. PICK id \in Bijection(rows, ids) :
            links' = links \cup {[l EXCEPT !.id = id[l], !.stage = t] : l \in rows}
      BY <1>2 DEF DuplicateStage
    <3>2. \A l \in rows : [l EXCEPT !.id = id[l], !.stage = t].stage = t
      BY IdsBelowTop DEF Link
    <3>3. \A m : IdsIn(links', s, m) = IdsIn(links, s, m)
      BY <2>2, <3>1, <3>2 DEF IdsIn
    <3> QED BY <3>3, SameIdsSamePlace
  <2> QED BY <2>1, <2>2
<1>3. ASSUME NEW r \in Stages, NEW n \in 0..MaxWanted, NEW list \in [1..n -> Items],
             AssignMedia(r, list), r # s
      PROVE  PlaceStays(s)
  <2>1. PICK exit \in Snapshots(r, Range(list)) : links' = Rearranged(r, list, exit)
    BY <1>3 DEF AssignMedia
  <2>2. \A l : l \in links' /\ l.stage = s <=> l \in links /\ l.stage = s
    BY <1>3, <2>1 DEF Rearranged
  <2>3. \A m : IdsIn(links', s, m) = IdsIn(links, s, m)
    BY <2>2 DEF IdsIn
  <2> QED BY <2>3, SameIdsSamePlace
<1>4. ASSUME NEW l \in links, NEW e \in Exits \cup {None}, UpdateStageAssignment(l, e)
      PROVE  PlaceStays(s)
  <2> DEFINE q == [l EXCEPT !.exit = e]
  <2>1. q.id = l.id /\ q.stage = l.stage /\ q.media = l.media
    BY IdsBelowTop DEF Link
  <2>2. links' = (links \ {l}) \cup {q}
    BY <1>4 DEF UpdateStageAssignment
  <2> HIDE DEF q
  <2>3. \A m, i : i \in IdsIn(links', s, m) <=> i \in IdsIn(links, s, m)
    BY <2>1, <2>2, IdsInRows
  <2>4. \A m : IdsIn(links', s, m) = IdsIn(links, s, m)
    BY <2>3
  <2> QED BY <2>4, SameIdsSamePlace
<1>5. ASSUME NEW u, NEW S, NEW doomed, NEW visual, NEW order, Goes(u, S, doomed, visual, order)
      PROVE  PlaceStays(s)
  <2>1. users' # users
    BY <1>5 DEF Goes
  <2>2. \A m \in Media : OnStage(s, m) /\ OnStage(s, m)' => IdsIn(links', s, m) = IdsIn(links, s, m)
    BY <1>5, GoesStays
  <2>3. \A n \in Media : ~OnStage(s, n) /\ OnStage(s, n)' => n = Placeholder
    BY <1>5, GoesStays, PlaceInRows
  <2> QED BY <2>1, <2>2, <2>3, PlaceInRows DEF PlaceStays
<1> QED BY <1>1, <1>2, <1>3, <1>4, <1>5, SyncedStays, StepsByLinks

\* Whatever is saved, requested or deleted, an item that stays on a stage keeps its
\* place there, and what is new comes after it.
THEOREM PlacesAreKept == Spec => PlaceKept
<1> DEFINE Stays ==
      \A s \in Stages, m \in Media :
        OnStage(s, m) /\ OnStage(s, m)' =>
          \/ /\ Place(s, m)' = Place(s, m)
             /\ \A n \in Media : ~OnStage(s, n) /\ OnStage(s, n)' =>
                  Place(s, n)' > Place(s, m) \/ (n = Placeholder /\ users' # users)
          \/ \E n \in 0..MaxWanted : \E list \in [1..n -> Items] : AssignMedia(s, list)
<1>1. Typed /\ Sound /\ [Next]_vars => [Stays]_vars
  BY PlacesStay DEF PlaceStays
<1> QED BY <1>1, InitTyped, InitSound, StepTyped, StepSound, PTL DEF Spec, PlaceKept
-------------------------------------------------------------------------------
\* What is said of one item on one stage.
ExitStays(s, m) ==
  OnStage(s, m) /\ OnStage(s, m)' /\ None \notin ExitsOf(s, m) /\ None \in ExitsOf(s, m)' =>
    \E l \in LinksOf(s, m) : UpdateStageAssignment(l, None)

LEMMA ExitsInRows ==
  /\ \A s, m, e : e \in ExitsOf(s, m) <=> \E l \in links : l.stage = s /\ l.media = m /\ l.exit = e
  /\ \A s, m, e : e \in ExitsOf(s, m)' <=> \E l \in links' : l.stage = s /\ l.media = m /\ l.exit = e
  /\ \A s, m : OnStage(s, m) <=> \E l \in links : l.stage = s /\ l.media = m
  BY DEF ExitsOf, OnStage, LinksOf

\* Where every row is an old one, or has its exit from one.
LEMMA ExitsFromRows ==
  ASSUME NEW s, NEW m,
         OnStage(s, m) => \A l \in links' : l.stage = s /\ l.media = m /\ l.exit = None =>
                            \E k \in links : k.stage = s /\ k.media = m /\ k.exit = None
  PROVE  ExitStays(s, m)
  BY ExitsInRows DEF ExitStays

LEMMA ExitsStay ==
  ASSUME Typed, Sound, [Next]_vars, NEW s \in Stages, NEW m \in Media
  PROVE  ExitStays(s, m)
<1>1. CASE LoseSome
  BY <1>1, ExitsFromRows DEF LoseSome
<1>2. ASSUME NEW r \in Stages, NEW t \in Stages, DuplicateStage(r, t)
      PROVE  ExitStays(s, m)
  <2> DEFINE rows == {l \in links : l.stage = r}
             ids == (Top(links) + 1)..(Top(links) + Cardinality(rows))
  <2>1. PICK id \in Bijection(rows, ids) :
          links' = links \cup {[l EXCEPT !.id = id[l], !.stage = t] : l \in rows}
    BY <1>2 DEF DuplicateStage
  <2>2. \A l \in rows : [l EXCEPT !.id = id[l], !.stage = t].stage = t
    BY IdsBelowTop DEF Link
  <2>3. ~OnStage(t, m)
    BY <1>2 DEF DuplicateStage, Sound, NothingDangles, OnStage, LinksOf
  <2>4. \A l \in links' : l \in links \/ l.stage = t
    BY <2>1, <2>2
  <2> QED BY <2>3, <2>4, ExitsFromRows
<1>3. ASSUME NEW r \in Stages, NEW n \in 0..MaxWanted, NEW list \in [1..n -> Items],
             AssignMedia(r, list)
      PROVE  ExitStays(s, m)
  <2>1. PICK exit \in Snapshots(r, Range(list)) : links' = Rearranged(r, list, exit)
    BY <1>3 DEF AssignMedia
  <2>2. ASSUME NEW l \in links', OnStage(l.stage, l.media)
        PROVE  l \in links \/ l.exit \in ExitsOf(l.stage, l.media)
    <3>1. CASE l \in links
      BY <3>1
    <3>2. ASSUME NEW i \in DOMAIN list,
                 l = [id |-> Top(links) + i, stage |-> r, media |-> list[i], exit |-> exit[list[i]]]
          PROVE  l.exit \in ExitsOf(l.stage, l.media)
      <4>1. l.stage = r /\ l.media = list[i] /\ l.exit = exit[list[i]] /\ list[i] \in Range(list)
        BY <3>2 DEF Range
      <4> QED BY <2>2, <4>1 DEF Snapshots
    <3> QED BY <2>1, <3>1, <3>2 DEF Rearranged
  <2> QED BY <2>2, ExitsInRows, ExitsFromRows
<1>4. ASSUME NEW x \in Media, NEW exits \in SUBSET (Exits \cup {None}), NEW wanted \in Wanted(exits),
             links' = Synced(x, wanted)
      PROVE  ExitStays(s, m)
  <2>1. ASSUME NEW l \in links', OnStage(l.stage, l.media), l.exit = None
        PROVE  \E k \in links : k.stage = l.stage /\ k.media = l.media /\ k.exit = None
    <3>1. ASSUME NEW k \in links, NEW i \in Firsts(wanted), StaysAs(l, k, wanted, i)
          PROVE  k.stage = l.stage /\ k.media = l.media /\ k.exit = None
      <4>1. /\ l.stage = k.stage /\ l.media = k.media
            /\ l.exit = IF wanted[i].exit = None THEN k.exit ELSE wanted[i].exit
        BY <1>4, <3>1, RowStays
      <4> QED BY <2>1, <4>1
    <3>2. ASSUME NEW i \in Firsts(wanted), ~OnStage(wanted[i].stage, x), AddedAs(l, x, wanted, i)
          PROVE  FALSE
      <4>1. l.stage = wanted[i].stage /\ l.media = x
        BY <1>4, <3>2, RowAdded
      <4> QED BY <2>1, <3>2, <4>1
    <3>3. \/ l \in links
          \/ \E k \in links, i \in Firsts(wanted) : k.media = x /\ StaysAs(l, k, wanted, i)
          \/ \E i \in Firsts(wanted) : ~OnStage(wanted[i].stage, x) /\ AddedAs(l, x, wanted, i)
      BY <1>4, SyncedRows
    <3> QED BY <2>1, <3>1, <3>2, <3>3
  <2> QED BY <2>1, ExitsFromRows
<1>5. ASSUME NEW l \in links, NEW e \in Exits \cup {None}, UpdateStageAssignment(l, e)
      PROVE  ExitStays(s, m)
  <2> DEFINE q == [l EXCEPT !.exit = e]
  <2>1. q.stage = l.stage /\ q.media = l.media /\ q.exit = e
    BY IdsBelowTop DEF Link
  <2>2. links' = (links \ {l}) \cup {q}
    BY <1>5 DEF UpdateStageAssignment
  <2> HIDE DEF q
  <2>3. CASE e = None /\ l \in LinksOf(s, m)
    BY <1>5, <2>3 DEF ExitStays
  <2>4. CASE e # None \/ l \notin LinksOf(s, m)
    <3>1. l.stage = s /\ l.media = m => e # None
      BY <2>4 DEF LinksOf
    <3> QED BY <2>1, <2>2, <3>1, ExitsFromRows
  <2> QED BY <2>3, <2>4
<1>6. ASSUME NEW u, NEW S, NEW doomed, NEW visual, NEW order, Goes(u, S, doomed, visual, order)
      PROVE  ExitStays(s, m)
  <2>1. \A l \in links' : OnStage(l.stage, l.media) => l \in links
    BY <1>6, GoesStays
  <2> QED BY <2>1, ExitsFromRows
<1> QED BY <1>1, <1>2, <1>3, <1>4, <1>5, <1>6, StepsByLinks

\* An exit that was set does not fall back while the item is on the stage, by whatever
\* save, arrangement or deletion, unless that is what is asked for.
THEOREM ExitsAreKept == Spec => ExitKept
<1> DEFINE Stays ==
      \A s \in Stages, m \in Media :
        OnStage(s, m) /\ OnStage(s, m)' /\ None \notin ExitsOf(s, m) /\ None \in ExitsOf(s, m)' =>
          \E l \in LinksOf(s, m) : UpdateStageAssignment(l, None)
<1>1. Typed /\ Sound /\ [Next]_vars => [Stays]_vars
  BY ExitsStay DEF ExitStays
<1> QED BY <1>1, InitTyped, InitSound, StepTyped, StepSound, PTL DEF Spec, ExitKept

\* Only a deletion takes accounts.
LEMMA StepsByUsers ==
  ASSUME Typed, [Next]_vars, users \ users' # {}
  PROVE  \E u, S, doomed, visual, order : Goes(u, S, doomed, visual, order)
<1>1. ~UNCHANGED users
  OBVIOUS
<1>2. ~Assignments /\ ~Permissions /\ ~UNCHANGED vars
  BY <1>1 DEF Assignments, CreateStage, DeleteStage, DuplicateStage, AssignMedia, AssignStages,
              UpdateStageAssignment, Permissions, RequestPermission, ConfirmPermission,
              DismissNotification, vars
<1>3. ~\E u \in Users : CreateUser(u)
  BY DEF CreateUser
<1>4. \E u \in users, S \in SUBSET stages, kept \in {KeptKinds, {}} : DeleteUser(u, S, kept)
  BY <1>1, <1>2, <1>3 DEF Next, Library, UploadMedia, UpdateMedia, SaveMedia, DeleteMedia, DropMedia
<1> QED BY <1>4, UserGoes

\* The first of the visual items of s, in the order the database gives them.
LEMMA FirstVisual ==
  ASSUME Typed, NEW u, NEW S, NEW doomed, NEW visual, NEW order, Goes(u, S, doomed, visual, order),
         NEW s, NEW m \in visual, OnStage(s, m)
  PROVE  \E x \in visual : /\ OnStage(s, x)
                           /\ \A y \in visual : OnStage(s, y) => y = x \/ order[x] < order[y]
                           /\ \A y \in visual : OnStage(s, y) => ~(order[y] < order[x])
<1> DEFINE D == {x \in visual : OnStage(s, x)}
           numbers == {order[x] : x \in D}
<1>1. visual \in SUBSET Items /\ order \in Bijection(visual, 1..Cardinality(visual))
  BY DEF Goes
<1>2. Cardinality(visual) \in Nat
  BY <1>1, FS_Subset, FS_CardinalityType DEF Typed
<1>3. /\ \A x \in visual : order[x] \in Nat
      /\ \A x, y \in visual : order[x] = order[y] => x = y
  BY <1>1, <1>2 DEF Bijection, Injection, IsInjective
<1>4. numbers \in SUBSET Nat /\ order[m] \in numbers
  BY <1>3
<1> HIDE DEF numbers
<1>5. PICK least \in numbers : \A n \in numbers : least <= n
  BY <1>4, LeastNumber
<1>6. PICK x \in D : order[x] = least
  BY <1>5 DEF numbers
<1>7. ASSUME NEW y \in visual, OnStage(s, y)
      PROVE  (y = x \/ order[x] < order[y]) /\ ~(order[y] < order[x])
  <2>1. order[y] \in numbers
    BY <1>7 DEF numbers
  <2>2. order[x] <= order[y] /\ order[x] \in Nat /\ order[y] \in Nat
    BY <1>3, <1>5, <1>6, <1>7, <2>1
  <2> QED BY <1>3, <1>6, <1>7, <2>2
<1> QED BY <1>6, <1>7

LEMMA TakesOver ==
  ASSUME Typed, NEW u, NEW S, NEW doomed, NEW visual, NEW order, Goes(u, S, doomed, visual, order),
         NEW s, s \in stages', NEW m \in visual, OnStage(s, m)
  PROVE  /\ OnStage(s, Placeholder)'
         /\ \E x \in Media : OnStage(s, x) /\ Place(s, Placeholder)' = Place(s, x)
                             /\ x \in (Items \ Items') \cup {Placeholder}
<1>1. /\ s \notin S /\ Placeholder \notin doomed /\ visual \subseteq doomed /\ doomed \subseteq Items
      /\ Items' = (Items \cup {Placeholder}) \ doomed
  BY DEF Goes
<1>2. Placeholder \in Media /\ Items \subseteq Media
  BY MediaAssumption DEF MediaAssumption, Typed, TypeOK
<1>3. \A l \in links : l.stage = s => l \in Remaining(S)
  BY <1>1 DEF Remaining
<1>4. CASE OnStage(s, Placeholder)
  <2>1. PICK h \in links : h.stage = s /\ h.media = Placeholder
    BY <1>4 DEF OnStage, LinksOf
  <2>2. h \in links'
    BY <1>1, <1>3, <2>1, GoesRows
  <2>3. OnStage(s, Placeholder)'
    BY <2>1, <2>2 DEF OnStage, LinksOf
  <2>4. Place(s, Placeholder)' = Place(s, Placeholder)
    BY <1>4, <2>3, GoesStays, PlaceInRows
  <2> QED BY <1>2, <1>4, <2>3, <2>4
<1>5. CASE ~OnStage(s, Placeholder)
  <2>1. PICK x \in visual : /\ OnStage(s, x)
                            /\ \A y \in visual : OnStage(s, y) => y = x \/ order[x] < order[y]
                            /\ \A y \in visual : OnStage(s, y) => ~(order[y] < order[x])
    BY FirstVisual
  <2>2. \A k \in Remaining(S) : k.stage = s => OnStage(s, k.media)
    BY DEF Remaining, OnStage, LinksOf
  <2>3. ASSUME NEW k \in Remaining(S), k.stage = s, k.media = x
        PROVE  \E l \in links' : l.media = Placeholder /\ l.stage = s /\ l.id = k.id
    <3>1. Before(k, Remaining(S), visual, order) = {}
      BY <1>5, <2>1, <2>2, <2>3 DEF Before
    <3> QED BY <2>1, <2>3, <3>1, GoesRows
  <2>4. ASSUME NEW l \in links', l.media = Placeholder, l.stage = s
        PROVE  \E k \in links : k.stage = s /\ k.media = x /\ k.id = l.id
    <3>1. l \notin Remaining(S)
      BY <1>5, <2>2, <2>4
    <3>2. PICK k \in Remaining(S) : /\ k.media \in visual /\ Before(k, Remaining(S), visual, order) = {}
                                    /\ l.stage = k.stage /\ l.id = k.id
      BY <3>1, GoesRows
    <3>3. PICK h \in Remaining(S) : h.stage = s /\ h.media = x
      BY <1>3, <2>1 DEF OnStage, LinksOf
    <3>4. ~(order[x] < order[k.media])
      BY <2>1, <2>4, <3>2, <3>3 DEF Before
    <3>5. k.media = x
      BY <2>1, <2>2, <2>4, <3>2, <3>4
    <3> QED BY <2>4, <3>2, <3>5 DEF Remaining
  <2>5. \A i : i \in IdsIn(links', s, Placeholder) <=> i \in IdsIn(links, s, x)
    BY <1>3, <2>3, <2>4, IdsInRows
  <2>6. IdsIn(links', s, Placeholder) = IdsIn(links, s, x)
    BY <2>5
  <2>7. OnStage(s, Placeholder)' /\ Place(s, Placeholder)' = Place(s, x)
    BY <2>1, <2>6, PlaceInRows
  <2>8. x \in Media /\ x \in Items \ Items'
    BY <1>1, <1>2
  <2> QED BY <2>1, <2>7, <2>8
<1> QED BY <1>4, <1>5

\* What a deletion takes off a stage that goes on, unless it was sound, the placeholder
\* has the place of, whatever the order in which the items are gone through.
THEOREM PlaceholderStandsIn == Spec => PlaceholderTakesOver
<1> DEFINE Takes ==
      users \ users' # {} =>
       \A s \in Stages, m \in Items :
         OnStage(s, m) /\ s \in stages' /\ m \notin Items' /\ media[m].kind \notin SoundKinds =>
           /\ OnStage(s, Placeholder)'
           /\ \E x \in Media : OnStage(s, x) /\ Place(s, Placeholder)' = Place(s, x)
                               /\ x \in (Items \ Items') \cup {Placeholder}
<1>1. ASSUME Typed, [Next]_vars
      PROVE  Takes
  <2> SUFFICES ASSUME users \ users' # {}, NEW s \in Stages, NEW m \in Items,
                      OnStage(s, m), s \in stages', m \notin Items', media[m].kind \notin SoundKinds
               PROVE  /\ OnStage(s, Placeholder)'
                      /\ \E x \in Media : OnStage(s, x) /\ Place(s, Placeholder)' = Place(s, x)
                                          /\ x \in (Items \ Items') \cup {Placeholder}
    OBVIOUS
  <2>1. PICK u, S, doomed, visual, order : Goes(u, S, doomed, visual, order)
    BY <1>1, StepsByUsers
  <2>2. m \in visual
    BY <2>1 DEF Goes
  <2> QED BY <1>1, <2>1, <2>2, TakesOver
<1>2. Typed /\ [Next]_vars => [Takes]_vars
  BY <1>1
<1> QED BY <1>2, InitTyped, StepTyped, PTL DEF Spec, PlaceholderTakesOver
-------------------------------------------------------------------------------
(***************************************************************************)
(* Permissions and answers                                                 *)
(***************************************************************************)
\* What a step does to the permissions.
LEMMA StepsByUsages ==
  ASSUME Typed, Next
  PROVE  \/ usages' \subseteq usages
         \/ \E u \in users, m \in Items : RequestPermission(u, m)
         \/ \E u \in users, r \in usages, approved \in BOOLEAN : ConfirmPermission(u, r, approved)
         \/ \E u \in users, r \in usages : DismissNotification(u, r)
         \/ \E m \in Media, listed \in UserLists : SavePermissions(m, listed)
<1>1. ASSUME Assignments
      PROVE  usages' = usages
  BY <1>1 DEF Assignments, CreateStage, DeleteStage, DuplicateStage, AssignMedia, AssignStages,
              UpdateStageAssignment
<1>2. Items \subseteq Media
  BY DEF Typed, TypeOK
<1>3. ASSUME Library
      PROVE  \/ usages' \subseteq usages
             \/ \E m \in Media, listed \in UserLists : SavePermissions(m, listed)
  <2>1. ASSUME NEW u, NEW S, NEW kept, DeleteUser(u, S, kept)
        PROVE  usages' \subseteq usages
    BY <2>1 DEF DeleteUser
  <2> QED BY <1>2, <1>3, <2>1 DEF Library, UploadMedia, UpdateMedia, SaveMedia, DeleteMedia, DropMedia,
                                  CreateUser
<1> QED BY <1>1, <1>3 DEF Next, Permissions

\* What is said of one row.
AnswerTold(r) ==
  OnRequestersBell(r) =>
    \/ \A q \in usages' : q.id # r.id
    \/ \E q \in usages' : q.id = r.id /\ OnRequestersBell(q)
    \/ LET by == {u \in users : DismissNotification(u, r)}
       IN by # {} /\ by \subseteq {r.user} \cup Admins

LEMMA DismissedRow ==
  ASSUME Typed, NEW u, NEW r \in usages
  PROVE  /\ Dismissed(u, r).id = r.id /\ Dismissed(u, r).media = r.media /\ Dismissed(u, r).user = r.user
         /\ Dismissed(u, r).approved = r.approved
         /\ ~r.requesterSeen /\ u # r.user /\ u = media[r.media].owner =>
              ~Dismissed(u, r).requesterSeen
<1>1. r \in Usage
  BY IdsBelowTop
<1> QED BY <1>1 DEF Usage, Dismissed

\* Whoever takes an answer off the bell of its requester is the requester or an admin.
LEMMA DismissedBy ==
  ASSUME Typed, NEW r \in usages, OnRequestersBell(r), NEW u, DismissNotification(u, r)
  PROVE  (\E q \in usages' : q.id = r.id /\ OnRequestersBell(q)) \/ u \in {r.user} \cup Admins
<1>1. Dismissed(u, r) \in usages'
  BY DEF DismissNotification
<1>2. Dismissed(u, r).id = r.id /\ Dismissed(u, r).approved = r.approved
      /\ (u # r.user /\ u = media[r.media].owner => ~Dismissed(u, r).requesterSeen)
  BY DismissedRow DEF OnRequestersBell
<1>3. CASE u # r.user /\ u = media[r.media].owner
  BY <1>1, <1>2, <1>3 DEF OnRequestersBell
<1> QED BY <1>3 DEF DismissNotification, MayAnswer

LEMMA AnswersAreTold ==
  ASSUME Typed, Next, NEW r \in usages
  PROVE  AnswerTold(r)
<1> SUFFICES ASSUME OnRequestersBell(r), \A q \in usages' : q.id = r.id => ~OnRequestersBell(q)
             PROVE  \/ \A q \in usages' : q.id # r.id
                    \/ LET by == {u \in users : DismissNotification(u, r)}
                       IN by # {} /\ by \subseteq {r.user} \cup Admins
  BY DEF AnswerTold
<1>1. /\ Top(usages) \in Nat /\ OwnIds(usages)
      /\ \A q \in usages : q \in Usage /\ q.id \in Nat /\ q.id <= Top(usages)
  BY IdsBelowTop
<1>2. r \notin usages'
  OBVIOUS
<1>3. CASE usages' \subseteq usages
  BY <1>1, <1>2, <1>3 DEF OwnIds
<1>4. ASSUME NEW u, NEW m, RequestPermission(u, m)
      PROVE  FALSE
  BY <1>2, <1>4 DEF RequestPermission
<1>5. ASSUME NEW u, NEW q \in usages, NEW approved \in BOOLEAN, ConfirmPermission(u, q, approved)
      PROVE  usages' \subseteq usages
  <2>1. q = r
    BY <1>2, <1>5 DEF ConfirmPermission
  <2> DEFINE told == [r EXCEPT !.approved = TRUE, !.ownerSeen = TRUE, !.requesterSeen = FALSE]
  <2>2. told.id = r.id /\ OnRequestersBell(told)
    BY <1>1 DEF Usage, OnRequestersBell
  <2>3. told \notin usages'
    BY <2>2
  <2> QED BY <1>5, <2>1, <2>3 DEF ConfirmPermission
<1>6. ASSUME NEW u \in users, NEW q \in usages, DismissNotification(u, q)
      PROVE  LET by == {v \in users : DismissNotification(v, r)}
             IN by # {} /\ by \subseteq {r.user} \cup Admins
  <2>1. q = r
    BY <1>2, <1>6 DEF DismissNotification
  <2> QED BY <1>6, <2>1, DismissedBy
<1>7. ASSUME NEW m \in Media, NEW listed \in UserLists, SavePermissions(m, listed)
      PROVE  \A q \in usages' : q.id # r.id
  <2> SUFFICES ASSUME NEW q \in usages', q.id = r.id
               PROVE  FALSE
    OBVIOUS
  <2>1. Approved(r) \notin usages'
    BY ApprovedTyped DEF OnRequestersBell
  <2>2. \/ q \in usages \ UnlistedGo(m, listed)
        \/ \E p \in usages : q = Approved(p)
        \/ Top(usages) < q.id
    BY <1>7, SavedRows
  <2>3. CASE q \in usages \ UnlistedGo(m, listed)
    BY <1>1, <1>2, <2>3 DEF OwnIds
  <2>4. ASSUME NEW p \in usages, q = Approved(p)
        PROVE  FALSE
    <3>1. p = r
      BY <1>1, <2>4, ApprovedTyped DEF OwnIds
    <3> QED BY <2>1, <2>4, <3>1
  <2>5. CASE Top(usages) < q.id
    BY <1>1, <2>5
  <2> QED BY <2>2, <2>3, <2>4, <2>5
<1> QED BY <1>3, <1>4, <1>5, <1>6, <1>7, StepsByUsages

\* No change of owner, level or list, and no dismissal by the owner, takes an answer
\* from the bell of the requester who was told yes.
THEOREM AnswersStayTold == Spec => YesIsTold
<1> DEFINE Told ==
      \A r \in usages :
       OnRequestersBell(r) =>
         \/ \A q \in usages' : q.id # r.id
         \/ \E q \in usages' : q.id = r.id /\ OnRequestersBell(q)
         \/ LET by == {u \in users : DismissNotification(u, r)}
            IN by # {} /\ by \subseteq {r.user} \cup Admins
<1>1. Typed /\ [Next]_vars => [Told]_vars
  BY AnswersAreTold DEF AnswerTold
<1> QED BY <1>1, InitTyped, StepTyped, PTL DEF Spec, YesIsTold

\* Where neither owner nor level of m changes, its use is come by only with a row that
\* is approved now and was not.
LEMMA UseByRow ==
  ASSUME NEW u, NEW m, UsesStrictly(u, m)', ~UsesStrictly(u, m),
         m \in Items, media'[m].owner # u => media[m].owner # u, media'[m].level = media[m].level
  PROVE  /\ media[m].level = Strict
         /\ \E r \in usages' : r.media = m /\ r.user = u /\ r.approved
         /\ \A r \in usages : r.media = m /\ r.user = u => ~r.approved
  BY DEF UsesStrictly, UsagesOf

LEMMA SavedFor ==
  ASSUME Typed, NEW u, NEW m \in Media, UsesStrictly(u, m)', NEW listed \in SavedLists(m)
  PROVE  u \in listed
<1>1. PICK r \in usages' : r.media = m /\ r.user = u /\ r.approved
  BY DEF UsesStrictly, UsagesOf
<1>2. listed \in UserLists /\ SavePermissions(m, listed)
  BY DEF SavedLists, SaveMedia
<1>3. \/ r \in usages \ UnlistedGo(m, listed)
      \/ \E q \in usages : q.user \in listed /\ r = Approved(q)
      \/ r.user \in listed
  BY <1>2, SavedRows
<1>4. \A q \in usages : Approved(q).user = q.user
  BY ApprovedTyped
<1> QED BY <1>1, <1>3, <1>4 DEF UnlistedGo

LEMMA UseIsGranted ==
  ASSUME Typed, Next, NEW u \in users', NEW m \in Items', UsesStrictly(u, m)', ~UsesStrictly(u, m)
  PROVE  \/ \E a \in users, r \in UsagesOf(m, u) : ConfirmPermission(a, r, TRUE)
         \/ SavedLists(m) # {} /\ \A listed \in SavedLists(m) : u \in listed
<1>1. /\ \A r \in usages : r \in Usage
      /\ Items \subseteq Media /\ \A x \in Items : media[x] \in Item
  BY IdsBelowTop DEF Typed, TypeOK
<1>2. ASSUME UNCHANGED <<media, usages>>
      PROVE  FALSE
  BY <1>2 DEF UsesStrictly, UsagesOf, Items
<1>3. CASE Assignments
  BY <1>2, <1>3 DEF Assignments, CreateStage, DeleteStage, DuplicateStage, AssignMedia, AssignStages,
                    UpdateStageAssignment
<1>4. ASSUME UNCHANGED media
      PROVE  /\ media[m].level = Strict
             /\ \E r \in usages' : r.media = m /\ r.user = u /\ r.approved
             /\ \A r \in usages : r.media = m /\ r.user = u => ~r.approved
  BY <1>4, UseByRow DEF Items
<1>5. ASSUME NEW v, NEW x \in Items, RequestPermission(v, x)
      PROVE  FALSE
  <2> DEFINE q == [id |-> Top(usages) + 1, media |-> x, user |-> v,
                   approved |-> media[x].level # Strict, ownerSeen |-> FALSE, requesterSeen |-> TRUE]
  <2>1. usages' = usages \cup {q} /\ UNCHANGED media
    BY <1>5 DEF RequestPermission
  <2>2. q.media = m => ~q.approved
    BY <1>4, <2>1
  <2> HIDE DEF q
  <2> QED BY <1>4, <2>1, <2>2
<1>6. ASSUME NEW a \in users, NEW r \in usages, NEW approved \in BOOLEAN, ConfirmPermission(a, r, approved)
      PROVE  \E b \in users, q \in UsagesOf(m, u) : ConfirmPermission(b, q, TRUE)
  <2> DEFINE told == [r EXCEPT !.approved = TRUE, !.ownerSeen = TRUE, !.requesterSeen = FALSE]
  <2>1. told.media = r.media /\ told.user = r.user
    BY <1>1 DEF Usage
  <2>2. usages' \subseteq usages \cup {told} /\ (~approved => usages' \subseteq usages) /\ UNCHANGED media
    BY <1>6 DEF ConfirmPermission
  <2> HIDE DEF told
  <2>3. r \in UsagesOf(m, u) /\ approved
    BY <1>4, <2>1, <2>2 DEF UsagesOf
  <2>4. approved = TRUE
    BY <2>3
  <2> QED BY <1>6, <2>3, <2>4
<1>7. ASSUME NEW v \in users, NEW r \in usages, DismissNotification(v, r)
      PROVE  FALSE
  <2>1. usages' = (usages \ {r}) \cup {Dismissed(v, r)} /\ UNCHANGED media
    BY <1>7 DEF DismissNotification
  <2> QED BY <1>4, <2>1, DismissedRow
<1>8. ASSUME NEW v, NEW x \in Media, NEW k, UploadMedia(v, x, k)
      PROVE  FALSE
  <2>1. /\ x \notin Items /\ usages' = usages
        /\ m = x => media'[m].level = 0
        /\ m # x => m \in Items /\ media'[m] = media[m]
    BY <1>8 DEF UploadMedia, Put, Items
  <2> QED BY <2>1, UseByRow DEF UsesStrictly, Strict
<1>9. ASSUME NEW x \in Items, NEW k \in Kinds, UpdateMedia(x, k)
      PROVE  FALSE
  <2>1. [media[x] EXCEPT !.kind = k].owner = media[x].owner /\ [media[x] EXCEPT !.kind = k].level = media[x].level
    BY <1>1 DEF Item
  <2>2. m \in Items /\ media'[m].owner = media[m].owner /\ media'[m].level = media[m].level
        /\ usages' = usages
    BY <1>9, <2>1 DEF UpdateMedia, Put, Items
  <2> QED BY <2>2, UseByRow
<1>10. ASSUME NEW x \in Items \cup (Media \ {Placeholder}), NEW item,
              NEW wanted \in Wanted(Exits \cup {None}), NEW listed \in UserLists,
              SaveMedia(x, item, wanted, listed)
       PROVE  SavedLists(m) # {} /\ \A some \in SavedLists(m) : u \in some
  <2>1. CASE x = m
    <3>1. media'[m] = item
      BY <1>10, <2>1 DEF SaveMedia, Put, Items
    <3>2. listed \in SavedLists(m)
      BY <1>10, <2>1, <3>1 DEF SavedLists
    <3> QED BY <1>1, <2>1, <3>2, SavedFor
  <2>2. CASE x # m
    <3>1. m \in Items /\ media'[m] = media[m]
      BY <1>10, <2>2 DEF SaveMedia, Put, Items
    <3>2. PICK r \in usages' : r.media = m /\ r.user = u /\ r.approved
      BY <3>1, UseByRow
    <3>3. x \in Media /\ SavePermissions(x, listed)
      BY <1>1, <1>10 DEF SaveMedia
    <3>4. \/ r \in usages
          \/ \E q \in usages : q.media = x /\ r = Approved(q)
          \/ r.media = x
      BY <3>3, SavedRows
    <3>5. \A q \in usages : Approved(q).media = q.media
      BY ApprovedTyped
    <3> QED BY <2>2, <3>1, <3>2, <3>4, <3>5, UseByRow
  <2> QED BY <2>1, <2>2
<1>11. ASSUME NEW x, DeleteMedia(x)
       PROVE  FALSE
  <2>1. m \in Items /\ media'[m] = media[m] /\ usages' \subseteq usages
    BY <1>11 DEF DeleteMedia, DropMedia, Without, Items
  <2> QED BY <2>1, UseByRow
<1>12. ASSUME NEW v \in users, NEW S, NEW kept, DeleteUser(v, S, kept)
       PROVE  FALSE
  <2>1. PICK w, T, doomed, visual, order : Goes(w, T, doomed, visual, order)
    BY <1>12, UserGoes
  <2>2. usages' \subseteq usages /\ u # w
    BY <2>1 DEF Goes
  <2>3. media'[m].level = Strict
    BY DEF UsesStrictly
  <2>4. \/ m \in Items /\ media[m].owner # w /\ media'[m] = media[m]
        \/ m \in Items /\ media[m].owner = w /\ media'[m] = [media[m] EXCEPT !.owner = Canonical]
    BY <2>1, <2>3 DEF Goes, Strict
  <2>5. m \in Items /\ media'[m].level = media[m].level /\ (media'[m].owner # u => media[m].owner # u)
    BY <1>1, <2>2, <2>4 DEF Item
  <2> QED BY <2>2, <2>5, UseByRow
<1>13. ASSUME NEW v, CreateUser(v)
       PROVE  FALSE
  BY <1>2, <1>13 DEF CreateUser
<1>14. CASE Permissions
  BY <1>5, <1>6, <1>7, <1>14 DEF Permissions
<1>15. CASE Library
  BY <1>1, <1>8, <1>9, <1>10, <1>11, <1>12, <1>13, <1>15 DEF Library
<1> QED BY <1>3, <1>14, <1>15 DEF Next

\* Nobody comes by the use of a strict item but by an answer or by a save that lists
\* them, also when an item becomes strict, changes hands or is inherited.
THEOREM StrictUseGranted == Spec => StrictUseIsGranted
<1> DEFINE Granted ==
      \A u \in users', m \in Items' :
       UsesStrictly(u, m)' /\ ~UsesStrictly(u, m) =>
         \/ \E a \in users, r \in UsagesOf(m, u) : ConfirmPermission(a, r, TRUE)
         \/ SavedLists(m) # {} /\ \A listed \in SavedLists(m) : u \in listed
<1>1. Typed /\ [Next]_vars => [Granted]_vars
  BY UseIsGranted
<1> QED BY <1>1, InitTyped, StepTyped, PTL DEF Spec, StrictUseIsGranted
===============================================================================
