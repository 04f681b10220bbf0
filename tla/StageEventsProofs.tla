--------------------------- MODULE StageEventsProofs ---------------------------
(***************************************************************************)
(* What the tables of events and performances satisfy under every order of *)
(* sweeps, recordings, duplicates, deletions and commits of the archive,   *)
(* for any stages, slugs, patterns, messages and bounds.                   *)
(***************************************************************************)
EXTENDS StageEvents, FiniteSetTheorems, TLAPS

Steps == {"none", "sweep", "commit-sweep", "save", "commit-save"}

\* Ids of rows come from the sequence, once each; what the archive inserts is live.
RowsHold ==
  /\ rows \subseteq Row /\ open \subseteq Row /\ nextId \in Nat /\ sent \subseteq Messages
  /\ \A r \in rows \cup open : r.id < nextId
  /\ \A r, q \in rows \cup open : r.id = q.id => r = q
  /\ \A r \in open : r.perf = Live /\ r \notin rows

\* So do the ids of performances; rows and performances refer to what there is.
PerfsHold ==
  /\ slug \in [Stages -> Slugs \cup {NoSlug, Gone}]
  /\ perfs \subseteq Performance /\ nextPerf \in Nat \ {0} /\ now \in Nat
  /\ \A f \in perfs : 0 < f.id /\ f.id < nextPerf
  /\ \A f, g \in perfs : f.id = g.id => f = g
  /\ NothingDangles

\* While a mutation is under way nothing else touches its stage and performance, and
\* rows are only added: what it has read and written is still true of the tables.
SweepHolds ==
  /\ tx.step \in {"sweep", "commit-sweep"} =>
       /\ tx.stage \in Stages /\ Exists(tx.stage)
       /\ 0 < tx.perf /\ tx.perf < nextPerf
       /\ \A f \in perfs : f.id # tx.perf
  /\ tx.step = "sweep" =>
       \A i \in tx.ids : \E r \in Matching(ILike, tx.stage, RowsOf(Live)) : r.id = i
  /\ tx.step = "commit-sweep" =>
       /\ \A q \in tx.out : \E r \in RowsOf(Live) : q = [r EXCEPT !.perf = tx.perf]
       /\ \A i \in tx.ids : \E q \in tx.out : q.id = i

SaveHolds ==
  /\ tx.step \in {"save", "commit-save"} => \E f \in perfs : f.id = tx.perf
  /\ tx.step = "commit-save" =>
       /\ \A q \in tx.out : /\ q.perf = tx.perf /\ q.id < nextId
                            /\ \A r \in rows \cup open : r.id # q.id
       /\ \A q, p \in tx.out : q.id = p.id => q = p

TxTyped ==
  /\ tx \in [step : Steps, stage : Stages \cup {NoSlug}, perf : Nat, ids : SUBSET Nat,
             out : SUBSET Row, time : Nat]
  /\ tx.step = "none" => Idle

Sound == RowsHold /\ PerfsHold /\ TxTyped /\ SweepHolds /\ SaveHolds

LEMMA InitSound == Init => Sound
  BY StageEventsAssumption
  DEF Init, Sound, RowsHold, PerfsHold, TxTyped, SweepHolds, SaveHolds, NothingDangles, NoTx,
      Idle, Steps

\* The tables are finite, having as many ids as rows.
LEMMA RowsFinite == ASSUME RowsHold, NEW S \in SUBSET rows
                    PROVE  IsFiniteSet(S) /\ Cardinality(S) \in Nat
<1> DEFINE f == [r \in S |-> r.id]
<1>1. f \in Injection(S, 0..nextId)
  <2>1. \A r \in S : r.id \in 0..nextId
    BY DEF RowsHold, Row
  <2>2. \A r, q \in S : f[r] = f[q] => r = q
    BY DEF RowsHold
  <2> QED
    BY <2>1, <2>2, Zenon DEF Injection, IsInjective
<1>2. IsFiniteSet(0..nextId)
  BY FS_Interval DEF RowsHold
<1> QED
  BY <1>1, <1>2, FS_Injection, FS_CardinalityType

\* Copies are rows of their performance, with ids drawn from the sequence in the order
\* of the originals.
LEMMA CopiesDrawn ==
  ASSUME RowsHold, NEW S \in SUBSET rows, NEW p \in Nat, NEW created \in [S -> Nat]
  PROVE  /\ Copies(S, p, created) \subseteq Row
         /\ \A q \in Copies(S, p, created) :
              q.perf = p /\ nextId <= q.id /\ q.id < nextId + Cardinality(S)
         /\ \A q, o \in Copies(S, p, created) : q.id = o.id => q = o
<1> DEFINE below(r) == {q \in S : q.id < r.id}
           copy(r) == [id |-> nextId + Cardinality(below(r)), msg |-> r.msg,
                       perf |-> p, created |-> created[r]]
<1>1. Copies(S, p, created) = {copy(r) : r \in S}
  BY DEF Copies
<1>2. IsFiniteSet(S) /\ Cardinality(S) \in Nat /\ nextId \in Nat
  BY RowsFinite DEF RowsHold
<1>3. ASSUME NEW r \in S
      PROVE  /\ IsFiniteSet(below(r)) /\ Cardinality(below(r)) \in Nat
             /\ Cardinality(below(r)) < Cardinality(S)
             /\ r.id \in Nat /\ r.msg \in Messages
  <2>1. r.id \in Nat /\ r.msg \in Messages
    BY DEF RowsHold, Row
  <2>2. r \notin below(r) /\ below(r) \in SUBSET S
    BY <2>1
  <2>3. /\ IsFiniteSet(below(r)) /\ Cardinality(below(r)) <= Cardinality(S)
        /\ Cardinality(S) # Cardinality(below(r))
    BY <1>2, <2>2, FS_Subset
  <2> QED
    BY <1>2, <2>1, <2>3, FS_CardinalityType
<1>4. ASSUME NEW r \in S, NEW q \in S, r.id < q.id
      PROVE  Cardinality(below(r)) < Cardinality(below(q))
  <2>1. \A s \in S : s.id \in Nat
    BY DEF RowsHold, Row
  <2>2. below(r) \in SUBSET below(q) /\ r \in below(q) /\ r \notin below(r)
    BY <1>4, <2>1
  <2>3. /\ Cardinality(below(r)) <= Cardinality(below(q))
        /\ Cardinality(below(q)) # Cardinality(below(r))
    BY <1>3, <2>2, FS_Subset
  <2>4. Cardinality(below(r)) \in Nat /\ Cardinality(below(q)) \in Nat
    BY <1>3
  <2> HIDE DEF below
  <2> QED
    BY <2>3, <2>4
<1> HIDE DEF below
<1>5. ASSUME NEW r \in S PROVE /\ copy(r) \in Row /\ copy(r).perf = p
                               /\ nextId <= copy(r).id /\ copy(r).id < nextId + Cardinality(S)
  BY <1>2, <1>3 DEF Row
<1>6. ASSUME NEW r \in S, NEW q \in S, copy(r).id = copy(q).id PROVE r = q
  <2>1. Cardinality(below(r)) = Cardinality(below(q))
    BY <1>2, <1>3, <1>6
  <2>2. r.id = q.id
    BY <1>3, <1>4, <2>1
  <2> QED
    BY <2>2 DEF RowsHold
<1> HIDE DEF copy
<1> QED
  BY <1>1, <1>5, <1>6
-------------------------------------------------------------------------------
\* The archive adds live rows with ids of their own, which no mutation has seen.
LEMMA ArchiveSound == Sound /\ Archive => Sound'
<1> SUFFICES ASSUME Sound, Archive PROVE Sound'
  OBVIOUS
<1> USE DEF Sound
<1>1. ASSUME NEW m \in Messages, ArchiveInsert(m) PROVE Sound'
  <2> DEFINE r0 == [id |-> nextId, msg |-> m, perf |-> Live, created |-> now]
  <2>1. /\ open' = open \cup {r0} /\ sent' = sent \cup {m}
        /\ nextId' = nextId + 1 /\ now' = now + 1
        /\ UNCHANGED <<slug, perfs, nextPerf, rows, tx>>
    BY <1>1 DEF ArchiveInsert
  <2>2. r0 \in Row /\ r0.perf = Live /\ r0.id = nextId /\ nextId \in Nat /\ now \in Nat
    BY DEF Row, Live, RowsHold, PerfsHold
  <2> HIDE DEF r0
  <2>3. \A r \in rows \cup open : r.id \in Nat /\ r.id < nextId
    BY DEF RowsHold, Row
  <2>4. RowsHold'
    BY <2>1, <2>2, <2>3 DEF RowsHold
  <2>5. PerfsHold' /\ TxTyped' /\ SweepHolds'
    BY <2>1, <2>2 DEF PerfsHold, TxTyped, SweepHolds, NothingDangles, Exists, Idle, Matching, RowsOf
  <2>6. \A q \in tx.out : q.id \in Nat
    BY DEF TxTyped, Row
  <2>7. SaveHolds'
    BY <2>1, <2>2, <2>6 DEF SaveHolds
  <2> QED
    BY <2>4, <2>5, <2>7
<1>2. ASSUME NEW r \in open, ArchiveCommit(r) \/ ArchiveFail(r) PROVE Sound'
  <2>1. /\ open' = open \ {r} /\ rows' \in {rows, rows \cup {r}}
        /\ UNCHANGED <<slug, perfs, nextPerf, nextId, sent, now, tx>>
    BY <1>2 DEF ArchiveCommit, ArchiveFail
  <2>2. r.perf = Live /\ rows \subseteq rows' /\ rows' \cup open' \subseteq rows \cup open
    BY <2>1 DEF RowsHold
  <2>3. RowsHold'
    BY <2>1, <2>2 DEF RowsHold
  <2>4. PerfsHold'
    BY <2>1, <2>2 DEF PerfsHold, NothingDangles, Exists
  <2>5. RowsOf(Live) \subseteq RowsOf(Live)'
    BY <2>2 DEF RowsOf
  <2>6. Matching(ILike, tx.stage, RowsOf(Live)) \subseteq Matching(ILike, tx.stage, RowsOf(Live))'
    BY <2>1, <2>5 DEF Matching
  <2>7. SweepHolds'
    BY <2>1, <2>5, <2>6 DEF SweepHolds, Exists
  <2>8. TxTyped' /\ SaveHolds'
    BY <2>1, <2>2 DEF TxTyped, Idle, SaveHolds
  <2> QED
    BY <2>3, <2>4, <2>7, <2>8
<1> QED
  BY <1>1, <1>2 DEF Archive

\* Without a transaction there is nothing to say of one.
LEMMA IdleHolds ==
  ASSUME Sound, Idle, tx' = tx PROVE TxTyped' /\ SweepHolds' /\ SaveHolds'
  BY DEF Sound, TxTyped, SweepHolds, SaveHolds, Idle, NoTx, Steps

\* A stage is created, duplicated or renamed: it has a slug afterwards.
LEMMA SluggedSound ==
  ASSUME Sound, Idle, NEW s \in Stages, NEW l \in Slugs, slug' = [slug EXCEPT ![s] = l],
         UNCHANGED <<perfs, nextPerf, rows, open, nextId, sent, now, tx>>
  PROVE  Sound'
<1>1. PerfsHold'
  BY DEF Sound, PerfsHold, NothingDangles, Exists, Performance
<1>2. RowsHold'
  BY DEF Sound, RowsHold
<1> QED
  BY <1>1, <1>2, IdleHolds DEF Sound

\* Stages go with their performances, and these with their rows.
LEMMA DropSound ==
  ASSUME Sound, Idle, NEW S \in SUBSET Stages, NEW others \in SUBSET rows, DropStages(S, others)
  PROVE  Sound'
<1>1. /\ rows' \subseteq rows /\ perfs' \subseteq perfs
      /\ UNCHANGED <<nextPerf, open, nextId, sent, now, tx>>
  BY DEF DropStages
<1>2. RowsHold'
  BY <1>1 DEF Sound, RowsHold
<1>3. slug' \in [Stages -> Slugs \cup {NoSlug, Gone}] /\ \A s \in Stages \ S : slug'[s] = slug[s]
  BY DEF DropStages, Sound, PerfsHold
<1>4. NothingDangles'
  <2>1. ASSUME NEW r \in rows', r.perf # Live PROVE \E f \in perfs' : f.id = r.perf
    <3>1. PICK f \in perfs : f.id = r.perf
      BY <1>1, <2>1 DEF Sound, PerfsHold, NothingDangles
    <3>2. f.stage \notin S
      BY <3>1 DEF DropStages
    <3> QED
      BY <3>1, <3>2 DEF DropStages
  <2>2. ASSUME NEW f \in perfs' PROVE Exists(f.stage)'
    <3>1. f \in perfs /\ f.stage \notin S /\ f.stage \in Stages
      BY DEF DropStages, Sound, PerfsHold, Performance
    <3>2. slug[f.stage] \in Slugs
      BY <3>1 DEF Sound, PerfsHold, NothingDangles, Exists
    <3> QED
      BY <1>3, <3>1, <3>2 DEF Exists
  <2> QED
    BY <2>1, <2>2 DEF NothingDangles
<1>5. PerfsHold'
  BY <1>1, <1>3, <1>4 DEF Sound, PerfsHold
<1> QED
  BY <1>1, <1>2, <1>5, IdleHolds DEF Sound

\* A new performance without rows.
LEMMA CreatePerformanceSound ==
  ASSUME Sound, NEW s \in Stages, CreatePerformance(s) PROVE Sound'
<1> DEFINE f0 == [id |-> nextPerf, stage |-> s, since |-> now, recording |-> TRUE]
<1>1. /\ Idle /\ Exists(s)
      /\ perfs' = perfs \cup {f0} /\ nextPerf' = nextPerf + 1 /\ now' = now + 1
      /\ UNCHANGED <<slug, rows, open, nextId, sent, tx>>
  BY DEF CreatePerformance
<1>2. f0 \in Performance /\ f0.id = nextPerf /\ f0.stage = s /\ nextPerf \in Nat \ {0} /\ now \in Nat
  BY DEF Performance, Sound, PerfsHold
<1> HIDE DEF f0
<1>3. \A f \in perfs : f.id \in Nat /\ f.id < nextPerf
  BY DEF Sound, PerfsHold, Performance
<1>4. NothingDangles'
  BY <1>1, <1>2 DEF Sound, PerfsHold, NothingDangles, Exists
<1>5. PerfsHold'
  BY <1>1, <1>2, <1>3, <1>4 DEF Sound, PerfsHold
<1>6. RowsHold'
  BY <1>1 DEF Sound, RowsHold
<1> QED
  BY <1>1, <1>5, <1>6, IdleHolds DEF Sound
LEMMA SweepCountSound == ASSUME Sound, NEW s \in Stages, SweepCount(s) PROVE Sound'
<1> DEFINE found == Matching(ILike, s, RowsOf(Live))
<1>1. /\ Idle /\ Exists(s)
      /\ tx' = [NoTx EXCEPT !.step = "sweep", !.stage = s, !.perf = nextPerf,
                            !.ids = IdsOf(found), !.time = now]
      /\ nextPerf' = nextPerf + 1 /\ now' = now + 1
      /\ UNCHANGED <<slug, perfs, rows, open, nextId, sent>>
  BY DEF SweepCount
<1>2. /\ tx'.step = "sweep" /\ tx'.stage = s /\ tx'.perf = nextPerf /\ tx'.out = {}
      /\ tx'.ids = IdsOf(found)
  BY <1>1 DEF NoTx
<1>3. found \subseteq rows /\ IdsOf(found) \subseteq Nat
  BY DEF Matching, RowsOf, IdsOf, Sound, RowsHold, Row
<1>4. nextPerf \in Nat \ {0} /\ now \in Nat /\ \A f \in perfs : f.id \in Nat /\ f.id < nextPerf
  BY DEF Sound, PerfsHold, Performance
<1>5. RowsHold'
  BY <1>1 DEF Sound, RowsHold
<1>6. PerfsHold'
  BY <1>1, <1>4 DEF Sound, PerfsHold, NothingDangles, Exists
<1>7. TxTyped'
  BY <1>1, <1>3, <1>4 DEF TxTyped, NoTx, Steps, Idle
<1>8. SweepHolds'
  <2>1. \A i \in tx'.ids : \E r \in Matching(ILike, s, RowsOf(Live)) : r.id = i
    BY <1>2 DEF IdsOf
  <2>2. Matching(ILike, s, RowsOf(Live))' = Matching(ILike, s, RowsOf(Live))
    BY <1>1 DEF Matching, RowsOf
  <2>3. Matching(ILike, tx.stage, RowsOf(Live))' = Matching(ILike, s, RowsOf(Live))
    BY <1>1, <1>2 DEF Matching, RowsOf
  <2>4. /\ tx'.stage \in Stages /\ Exists(tx.stage)' /\ 0 < tx'.perf /\ tx'.perf < nextPerf'
        /\ \A f \in perfs' : f.id # tx'.perf
    BY <1>1, <1>2, <1>4 DEF Exists
  <2> QED
    BY <1>2, <2>1, <2>3, <2>4 DEF SweepHolds
<1>9. SaveHolds'
  BY <1>2 DEF SaveHolds
<1> QED
  BY <1>5, <1>6, <1>7, <1>8, <1>9 DEF Sound

\* The UPDATE finds at least what was counted: rows are only added meanwhile.
LEMMA SweepUpdateSound == ASSUME Sound, SweepUpdate PROVE Sound'
<1> DEFINE found == Matching(ILike, tx.stage, RowsOf(Live))
           moved == {[r EXCEPT !.perf = tx.perf] : r \in found}
<1>1. /\ tx.step = "sweep"
      /\ tx' = [tx EXCEPT !.step = "commit-sweep", !.out = moved]
      /\ UNCHANGED <<slug, perfs, nextPerf, rows, open, nextId, sent, now>>
  BY DEF SweepUpdate, SweepWith
<1>2. found \subseteq RowsOf(Live) /\ RowsOf(Live) \subseteq Row /\ tx.perf \in Nat
  BY DEF Matching, RowsOf, Sound, RowsHold, TxTyped
<1>3. \A r \in found : /\ [r EXCEPT !.perf = tx.perf] \in Row
                       /\ [r EXCEPT !.perf = tx.perf].id = r.id
  BY <1>2 DEF Row
<1>4. /\ tx'.step = "commit-sweep" /\ tx'.stage = tx.stage /\ tx'.perf = tx.perf
      /\ tx'.ids = tx.ids /\ tx'.out = moved
  BY <1>1 DEF Sound, TxTyped
<1>5. RowsHold' /\ PerfsHold'
  BY <1>1 DEF Sound, RowsHold, PerfsHold, NothingDangles, Exists
<1>6. TxTyped'
  <2>1. moved \subseteq Row
    BY <1>3
  <2> HIDE DEF moved
  <2> QED
    BY <1>1, <2>1 DEF Sound, TxTyped, Steps
<1>7. SweepHolds'
  <2>1. \A q \in moved : \E r \in RowsOf(Live) : q = [r EXCEPT !.perf = tx.perf]
    BY <1>2
  <2>2. \A i \in tx.ids : \E r \in found : r.id = i
    BY <1>1 DEF Sound, SweepHolds
  <2>3. \A i \in tx.ids : \E q \in moved : q.id = i
    BY <1>3, <2>2
  <2>4. RowsOf(Live)' = RowsOf(Live)
    BY <1>1 DEF RowsOf
  <2> HIDE DEF moved, found
  <2>5. /\ tx.stage \in Stages /\ Exists(tx.stage) /\ 0 < tx.perf /\ tx.perf < nextPerf
        /\ \A f \in perfs : f.id # tx.perf
    BY <1>1 DEF Sound, SweepHolds
  <2> QED
    BY <1>1, <1>4, <2>1, <2>3, <2>4, <2>5 DEF SweepHolds, Exists
<1>8. SaveHolds'
  BY <1>4 DEF SaveHolds
<1> QED
  BY <1>5, <1>6, <1>7, <1>8 DEF Sound

\* What a sweep writes are live rows that are still there, with a new performance.
LEMMA SweptRows ==
  ASSUME Sound, tx.step = "commit-sweep", NEW q \in tx.out
  PROVE  /\ q \in Row /\ q.perf = tx.perf
         /\ \E r \in rows : r.perf = Live /\ r.id = q.id /\ q = [r EXCEPT !.perf = q.perf]
<1>1. PICK r \in RowsOf(Live) : q = [r EXCEPT !.perf = tx.perf]
  BY DEF Sound, SweepHolds
<1>2. r \in rows /\ r \in Row /\ r.perf = Live
  BY DEF RowsOf, Sound, RowsHold
<1>3. q \in Row /\ q.perf = tx.perf /\ q.id = r.id
  BY <1>1, <1>2 DEF Row, Sound, TxTyped
<1> QED
  BY <1>1, <1>2, <1>3

\* A finished transaction leaves none.
LEMMA NoTxHolds ==
  ASSUME tx' = NoTx PROVE TxTyped' /\ SweepHolds' /\ SaveHolds'
  BY DEF TxTyped, SweepHolds, SaveHolds, Idle, NoTx, Steps

LEMMA SweepCommitSound == ASSUME Sound, SweepCommit PROVE Sound'
<1> DEFINE f0 == [id |-> tx.perf, stage |-> tx.stage, since |-> tx.time, recording |-> FALSE]
<1>1. /\ tx.step = "commit-sweep" /\ tx' = NoTx
      /\ rows' = {r \in rows : r.id \notin IdsOf(tx.out)} \cup tx.out
      /\ perfs' = perfs \cup {f0}
      /\ UNCHANGED <<slug, nextPerf, open, nextId, sent, now>>
  BY DEF SweepCommit
<1>2. /\ tx.stage \in Stages /\ Exists(tx.stage) /\ 0 < tx.perf /\ tx.perf < nextPerf
      /\ tx.perf \in Nat /\ tx.time \in Nat
  BY <1>1 DEF Sound, SweepHolds, TxTyped
<1>3. f0 \in Performance /\ f0.id = tx.perf /\ f0.stage = tx.stage
  BY <1>2 DEF Performance
<1> HIDE DEF f0
<1>4. RowsHold'
  <2>1. \A q \in tx.out : q \in Row /\ \E r \in rows : r.id = q.id
    BY <1>1, SweptRows
  <2>2. rows' \subseteq Row /\ \A r \in rows' \cup open : r.id < nextId
    BY <1>1, <2>1 DEF Sound, RowsHold
  <2>3. \A q, o \in tx.out : q.id = o.id => q = o
    <3> SUFFICES ASSUME NEW q \in tx.out, NEW o \in tx.out, q.id = o.id PROVE q = o
      OBVIOUS
    <3>1. PICK r \in rows : r.id = q.id /\ q = [r EXCEPT !.perf = tx.perf]
      BY <1>1, SweptRows
    <3>2. PICK t \in rows : t.id = o.id /\ o = [t EXCEPT !.perf = tx.perf]
      BY <1>1, SweptRows
    <3> QED
      BY <3>1, <3>2 DEF Sound, RowsHold
  <2>4. \A q \in tx.out, o \in open : q.id # o.id
    <3> SUFFICES ASSUME NEW q \in tx.out, NEW o \in open, q.id = o.id PROVE FALSE
      OBVIOUS
    <3>1. PICK r \in rows : r.id = q.id /\ r.perf = Live /\ q = [r EXCEPT !.perf = tx.perf]
      BY <1>1, SweptRows
    <3>2. r = o
      BY <3>1 DEF Sound, RowsHold
    <3> QED
      BY <3>2 DEF Sound, RowsHold
  <2> QED
    BY <1>1, <2>2, <2>3, <2>4 DEF Sound, RowsHold, IdsOf
<1>5. NothingDangles'
  <2>1. \A q \in tx.out : q.perf = f0.id
    BY <1>1, <1>3, SweptRows
  <2> QED
    BY <1>1, <1>2, <1>3, <2>1 DEF Sound, PerfsHold, NothingDangles, Exists
<1>6. PerfsHold'
  <2>1. \A f \in perfs : f.id # tx.perf
    BY <1>1 DEF Sound, SweepHolds
  <2>2. \A f, g \in perfs' : f.id = g.id => f = g
    BY <1>1, <1>3, <2>1 DEF Sound, PerfsHold
  <2>3. \A f \in perfs' : f \in Performance /\ 0 < f.id /\ f.id < nextPerf
    BY <1>1, <1>2, <1>3 DEF Sound, PerfsHold
  <2> QED
    BY <1>1, <1>5, <2>2, <2>3 DEF Sound, PerfsHold
<1> QED
  BY <1>1, <1>4, <1>6, NoTxHolds DEF Sound

LEMMA SaveBeginSound == ASSUME Sound, NEW f \in perfs, SaveBegin(f) PROVE Sound'
<1>1. /\ tx' = [NoTx EXCEPT !.step = "save", !.stage = f.stage, !.perf = f.id, !.time = now]
      /\ UNCHANGED <<slug, perfs, nextPerf, rows, open, nextId, sent, now>>
  BY DEF SaveBegin
<1>2. tx'.step = "save" /\ tx'.perf = f.id
  BY <1>1 DEF NoTx
<1>3. f.stage \in Stages /\ f.id \in Nat /\ now \in Nat
  BY DEF Sound, PerfsHold, Performance
<1>4. RowsHold' /\ PerfsHold'
  BY <1>1 DEF Sound, RowsHold, PerfsHold, NothingDangles, Exists
<1>5. TxTyped'
  BY <1>1, <1>3 DEF TxTyped, NoTx, Steps, Idle
<1>6. SweepHolds' /\ SaveHolds'
  BY <1>1, <1>2 DEF SweepHolds, SaveHolds
<1> QED
  BY <1>4, <1>5, <1>6 DEF Sound

LEMMA SaveSelectSound == ASSUME Sound, SaveSelect PROVE Sound'
<1>1. PICK found \in SUBSET rows :
        /\ tx.step = "save"
        /\ tx' = [tx EXCEPT !.step = "commit-save", !.out = Copies(found, tx.perf, Created(found))]
        /\ nextId' = nextId + Cardinality(found)
        /\ UNCHANGED <<slug, perfs, nextPerf, rows, open, sent, now>>
  <2> DEFINE found == {r \in Matching(ILike, tx.stage, rows) :
                         WithId(tx.perf).since < r.created /\ r.created < tx.time}
  <2>1. found \in SUBSET rows
    BY DEF Matching
  <2> QED
    BY <2>1 DEF SaveSelect
<1> DEFINE copies == Copies(found, tx.perf, Created(found))
<1>2. Created(found) \in [found -> Nat] /\ tx.perf \in Nat
  BY DEF Created, Sound, RowsHold, Row, TxTyped
<1>3. /\ copies \subseteq Row
      /\ \A q \in copies : q.perf = tx.perf /\ nextId <= q.id /\ q.id < nextId + Cardinality(found)
      /\ \A q, o \in copies : q.id = o.id => q = o
  BY <1>2, CopiesDrawn DEF Sound
<1> HIDE DEF copies
<1>4. Cardinality(found) \in Nat /\ nextId \in Nat
  BY RowsFinite DEF Sound, RowsHold
<1>5. /\ tx'.step = "commit-save" /\ tx'.perf = tx.perf /\ tx'.out = copies
      /\ TxTyped'
  BY <1>1, <1>3 DEF Sound, TxTyped, Steps, Idle, copies
<1>6. \A r \in rows \cup open : r.id \in Nat /\ r.id < nextId
  BY DEF Sound, RowsHold, Row
<1>7. RowsHold'
  BY <1>1, <1>4, <1>6 DEF Sound, RowsHold
<1>8. PerfsHold'
  BY <1>1 DEF Sound, PerfsHold, NothingDangles, Exists
<1>9. SweepHolds'
  BY <1>5 DEF SweepHolds
<1>10. SaveHolds'
  <2>1. \A q \in copies : q.id \in Nat
    BY <1>3 DEF Row
  <2>2. \A q \in copies : /\ q.perf = tx.perf /\ q.id < nextId'
                         /\ \A r \in rows' \cup open' : r.id # q.id
    BY <1>1, <1>3, <1>4, <1>6, <2>1
  <2>3. \E f \in perfs' : f.id = tx'.perf
    BY <1>1, <1>5 DEF Sound, SaveHolds
  <2> QED
    BY <1>3, <1>5, <2>2, <2>3 DEF SaveHolds
<1> QED
  BY <1>5, <1>7, <1>8, <1>9, <1>10 DEF Sound

LEMMA SaveCommitSound == ASSUME Sound, SaveCommit PROVE Sound'
<1>1. /\ tx.step = "commit-save" /\ tx' = NoTx
      /\ rows' = rows \cup tx.out
      /\ perfs' = {IF f.id = tx.perf THEN [f EXCEPT !.recording = FALSE] ELSE f : f \in perfs}
      /\ UNCHANGED <<slug, nextPerf, open, nextId, sent, now>>
  BY DEF SaveCommit
<1>2. /\ tx.out \subseteq Row
      /\ \A q \in tx.out : /\ q.perf = tx.perf /\ q.id < nextId
                          /\ \A r \in rows \cup open : r.id # q.id
      /\ \A q, p \in tx.out : q.id = p.id => q = p
      /\ \E f \in perfs : f.id = tx.perf
  BY <1>1 DEF Sound, TxTyped, SaveHolds
<1>3. RowsHold'
  BY <1>1, <1>2 DEF Sound, RowsHold
<1>4. \A f \in perfs : /\ [f EXCEPT !.recording = FALSE] \in Performance
                       /\ [f EXCEPT !.recording = FALSE].id = f.id
                       /\ [f EXCEPT !.recording = FALSE].stage = f.stage
  BY DEF Sound, PerfsHold, Performance
<1> DEFINE saved(f) == IF f.id = tx.perf THEN [f EXCEPT !.recording = FALSE] ELSE f
<1>4a. \A f \in perfs : /\ saved(f) \in Performance
                        /\ saved(f).id = f.id /\ saved(f).stage = f.stage
  BY <1>4 DEF Sound, PerfsHold
<1>4b. perfs' = {saved(f) : f \in perfs}
  BY <1>1
<1> HIDE DEF saved
<1>5. \A g \in perfs' : /\ g \in Performance
                        /\ \E f \in perfs : g = saved(f) /\ g.id = f.id /\ g.stage = f.stage
  BY <1>4a, <1>4b
<1>6. \A f \in perfs : \E g \in perfs' : g.id = f.id
  BY <1>4a, <1>4b
<1>7. NothingDangles'
  <2>1. ASSUME NEW r \in rows', r.perf # Live PROVE \E f \in perfs' : f.id = r.perf
    <3>1. \E f \in perfs : f.id = r.perf
      BY <1>1, <1>2, <2>1 DEF Sound, PerfsHold, NothingDangles
    <3> QED
      BY <1>6, <3>1
  <2>2. ASSUME NEW g \in perfs' PROVE Exists(g.stage)'
    BY <1>1, <1>5 DEF Sound, PerfsHold, NothingDangles, Exists
  <2> QED
    BY <2>1, <2>2 DEF NothingDangles
<1>8. PerfsHold'
  <2>1. \A g, h \in perfs' : g.id = h.id => g = h
    BY <1>5 DEF Sound, PerfsHold
  <2>2. \A g \in perfs' : 0 < g.id /\ g.id < nextPerf
    BY <1>5 DEF Sound, PerfsHold
  <2> QED
    BY <1>1, <1>5, <1>7, <2>1, <2>2 DEF Sound, PerfsHold
<1> QED
  BY <1>1, <1>3, <1>8, NoTxHolds DEF Sound

LEMMA RollbackSound == ASSUME Sound, Rollback PROVE Sound'
<1>1. RowsHold' /\ PerfsHold'
  BY DEF Rollback, Sound, RowsHold, PerfsHold, NothingDangles, Exists
<1> QED
  BY <1>1, NoTxHolds DEF Sound, Rollback

LEMMA DuplicatePerformanceSound ==
  ASSUME Sound, NEW f \in perfs, DuplicatePerformance(f) PROVE Sound'
<1> DEFINE found == RowsOf(f.id)
           copies == Copies(found, nextPerf, [r \in found |-> now])
           f0 == [f EXCEPT !.id = nextPerf, !.since = now]
<1>1. /\ Idle /\ rows' = rows \cup copies /\ perfs' = perfs \cup {f0}
      /\ nextPerf' = nextPerf + 1 /\ nextId' = nextId + Cardinality(found) /\ now' = now + 1
      /\ UNCHANGED <<slug, open, sent, tx>>
  BY DEF DuplicatePerformance
<1>2. found \in SUBSET rows /\ now \in Nat /\ nextPerf \in Nat \ {0} /\ nextId \in Nat
  BY DEF RowsOf, Sound, RowsHold, PerfsHold
<1>3. /\ copies \subseteq Row
      /\ \A q \in copies : q.perf = nextPerf /\ nextId <= q.id /\ q.id < nextId + Cardinality(found)
      /\ \A q, o \in copies : q.id = o.id => q = o
  <2>1. [r \in found |-> now] \in [found -> Nat]
    BY <1>2
  <2> QED
    BY <1>2, <2>1, CopiesDrawn DEF Sound
<1>4. Cardinality(found) \in Nat
  BY <1>2, RowsFinite DEF Sound
<1>5. f0 \in Performance /\ f0.id = nextPerf /\ f0.stage = f.stage
  BY <1>2 DEF Sound, PerfsHold, Performance
<1> HIDE DEF copies, f0, found
<1>6. \A r \in rows \cup open : r.id \in Nat /\ r.id < nextId
  BY DEF Sound, RowsHold, Row
<1>7. \A q \in copies : q.id \in Nat
  BY <1>3 DEF Row
<1>8. RowsHold'
  <2>1. rows' \subseteq Row /\ nextId' \in Nat /\ \A r \in rows' \cup open' : r.id < nextId'
    BY <1>1, <1>2, <1>3, <1>4, <1>6, <1>7 DEF Sound, RowsHold
  <2>2. \A q \in copies, r \in rows \cup open : q.id # r.id
    BY <1>2, <1>3, <1>6, <1>7
  <2> QED
    BY <1>1, <1>3, <2>1, <2>2 DEF Sound, RowsHold
<1>9. \A g \in perfs : g.id \in Nat /\ 0 < g.id /\ g.id < nextPerf
  BY DEF Sound, PerfsHold, Performance
<1>10. NothingDangles'
  BY <1>1, <1>3, <1>5 DEF Sound, PerfsHold, NothingDangles, Exists
<1>11. PerfsHold'
  <2>1. \A g \in perfs' : /\ g \in Performance /\ g.id \in Nat
                          /\ 0 < g.id /\ g.id < nextPerf'
    BY <1>1, <1>2, <1>5, <1>9 DEF Sound, PerfsHold
  <2>2. \A g, h \in perfs' : g.id = h.id => g = h
    BY <1>1, <1>2, <1>5, <1>9 DEF Sound, PerfsHold
  <2> QED
    BY <1>1, <1>2, <1>10, <2>1, <2>2 DEF Sound, PerfsHold
<1> QED
  BY <1>1, <1>8, <1>11, IdleHolds DEF Sound

LEMMA DeletePerformanceSound ==
  ASSUME Sound, NEW f \in perfs, DeletePerformance(f) PROVE Sound'
<1>1. /\ Idle /\ rows' = rows \ RowsOf(f.id) /\ perfs' = perfs \ {f}
      /\ UNCHANGED <<slug, nextPerf, open, nextId, sent, now, tx>>
  BY DEF DeletePerformance
<1>2. RowsHold'
  BY <1>1 DEF Sound, RowsHold
<1>3. NothingDangles'
  BY <1>1 DEF Sound, PerfsHold, NothingDangles, Exists, RowsOf
<1>4. PerfsHold'
  BY <1>1, <1>3 DEF Sound, PerfsHold
<1> QED
  BY <1>1, <1>2, <1>4, IdleHolds DEF Sound

LEMMA StepSound == Sound /\ [Next]_vars => Sound'
<1> SUFFICES ASSUME Sound, [Next]_vars PROVE Sound'
  OBVIOUS
<1>1. CASE Archive
  BY <1>1, ArchiveSound
<1>2. CASE StageMutation
  <2>1. PICK s \in Stages :
          \/ \E l \in Slugs : CreateStage(s, l) \/ RenameStage(s, l)
          \/ \E l \in ShortNames, t \in Stages : DuplicateStage(s, t, l)
          \/ DeleteStage(s) \/ SweepCount(s) \/ CreatePerformance(s)
    BY <1>2 DEF StageMutation
  <2>2. ASSUME NEW l \in Slugs, CreateStage(s, l) \/ RenameStage(s, l) PROVE Sound'
    BY <2>2, SluggedSound DEF CreateStage, RenameStage
  <2>3. ASSUME NEW l \in ShortNames, NEW t \in Stages, DuplicateStage(s, t, l) PROVE Sound'
    BY <2>3, SluggedSound, StageEventsAssumption DEF DuplicateStage
  <2>4. CASE DeleteStage(s)
    BY <2>4, DropSound DEF DeleteStage
  <2> QED
    BY <2>1, <2>2, <2>3, <2>4, SweepCountSound, CreatePerformanceSound
<1>3. CASE PerformanceMutation
  BY <1>3, SaveBeginSound, DuplicatePerformanceSound, DeletePerformanceSound
  DEF PerformanceMutation
<1>4. ASSUME NEW S \in (SUBSET Stages) \ {{}}, DeleteUser(S) PROVE Sound'
  <2> DEFINE others == rows \ UNION {Matching(Like, s, RowsOf(Live)) : s \in S}
  <2>1. others \in SUBSET rows
    OBVIOUS
  <2>2. Idle /\ DropStages(S, others)
    BY <1>4 DEF DeleteUser
  <2> HIDE DEF others
  <2> QED
    BY <2>1, <2>2, DropSound
<1>5. CASE UNCHANGED vars
  BY <1>5 DEF vars, Sound, RowsHold, PerfsHold, TxTyped, SweepHolds, SaveHolds, NothingDangles,
              Exists, Idle, Matching, RowsOf
<1> QED
  BY <1>1, <1>2, <1>3, <1>4, <1>5, SweepUpdateSound, SweepCommitSound, SaveSelectSound,
     SaveCommitSound, RollbackSound DEF Next

\* The types hold, row ids are unique, no row outlives its performance and no
\* performance its stage, whatever the archive commits between two statements.
THEOREM TablesAreSound == Spec => []TablesHold
<1>1. Sound => TablesHold
  BY DEF Sound, RowsHold, PerfsHold, TxTyped, TablesHold, TypeOK
<1> QED
  BY <1>1, InitSound, StepSound, PTL DEF Spec
-------------------------------------------------------------------------------
FreshRows == \A q \in rows' : q \in rows \/ \A r \in rows : r.id # q.id

Deletions == \E S \in SUBSET Stages, others \in SUBSET rows :
               /\ Idle /\ DropStages(S, others)
               /\ \A r \in rows \ others : r.perf = Live

\* The steps by what they do to the rows: nothing, or one of six changes.
LEMMA StepsByRows ==
  [Next]_vars => \/ UNCHANGED rows
                 \/ \E r \in open : ArchiveCommit(r)
                 \/ Deletions
                 \/ \E f \in perfs : DuplicatePerformance(f) \/ DeletePerformance(f)
                 \/ SweepCommit \/ SaveCommit
<1> SUFFICES ASSUME [Next]_vars, ~UNCHANGED rows
             PROVE  \/ \E r \in open : ArchiveCommit(r)
                    \/ Deletions
                    \/ \E f \in perfs : DuplicatePerformance(f) \/ DeletePerformance(f)
                    \/ SweepCommit \/ SaveCommit
  OBVIOUS
<1>1. ASSUME NEW s \in Stages, DeleteStage(s) PROVE Deletions
  <2>1. PICK S \in SUBSET Stages : S = {s}
    OBVIOUS
  <2>2. Idle /\ DropStages(S, rows) /\ \A r \in rows \ rows : r.perf = Live
    BY <1>1, <2>1 DEF DeleteStage
  <2> QED
    BY <2>2 DEF Deletions
<1>2. ASSUME NEW S \in SUBSET Stages, DeleteUser(S) PROVE Deletions
  <2> DEFINE matched == UNION {Matching(Like, s, RowsOf(Live)) : s \in S}
  <2>1. \A r \in matched : r.perf = Live
    BY DEF Matching, RowsOf
  <2>2. Idle /\ DropStages(S, rows \ matched)
    BY <1>2 DEF DeleteUser
  <2> HIDE DEF matched
  <2>3. rows \ matched \in SUBSET rows /\ \A r \in rows \ (rows \ matched) : r.perf = Live
    BY <2>1
  <2> QED
    BY <2>2, <2>3 DEF Deletions
<1>3. CASE Archive
  BY <1>3 DEF Archive, ArchiveInsert, ArchiveFail
<1>4. CASE StageMutation
  BY <1>1, <1>4 DEF StageMutation, CreateStage, RenameStage, DuplicateStage, SweepCount,
                    CreatePerformance
<1>5. CASE PerformanceMutation
  BY <1>5 DEF PerformanceMutation, SaveBegin
<1>6. ~(SweepUpdate \/ SaveSelect \/ Rollback \/ UNCHANGED vars)
  BY DEF vars, SweepUpdate, SweepWith, SaveSelect, Rollback
<1> QED
  BY <1>2, <1>3, <1>4, <1>5, <1>6 DEF Next

\* What duplicating a performance adds: rows of a new performance, with new ids.
LEMMA DuplicateAdds ==
  ASSUME Sound, NEW f \in perfs, DuplicatePerformance(f)
  PROVE  \A q \in rows' \ rows : q.perf = nextPerf /\ \A r \in rows : r.id # q.id
<1> DEFINE copies == Copies(RowsOf(f.id), nextPerf, [r \in RowsOf(f.id) |-> now])
<1>1. rows' = rows \cup copies
  BY DEF DuplicatePerformance
<1>2. /\ RowsOf(f.id) \in SUBSET rows /\ nextPerf \in Nat /\ nextId \in Nat
      /\ [r \in RowsOf(f.id) |-> now] \in [RowsOf(f.id) -> Nat]
  BY DEF RowsOf, Sound, RowsHold, PerfsHold
<1>3. copies \subseteq Row /\ \A q \in copies : q.perf = nextPerf /\ nextId <= q.id
  BY <1>2, CopiesDrawn DEF Sound
<1>4. \A r \in rows : r.id \in Nat /\ r.id < nextId
  BY DEF Sound, RowsHold, Row
<1>5. \A q \in copies : q.id \in Nat
  BY <1>3 DEF Row
<1> HIDE DEF copies
<1> QED
  BY <1>1, <1>2, <1>3, <1>4, <1>5

\* Every step but the end of a sweep leaves the rows it keeps as they are, and adds
\* rows with ids of their own.
LEMMA RowsAreFresh == ASSUME Sound, [Next]_vars, ~SweepCommit PROVE FreshRows
<1>1. ASSUME NEW r \in open, ArchiveCommit(r) PROVE FreshRows
  BY <1>1 DEF ArchiveCommit, FreshRows, Sound, RowsHold
<1>2. CASE Deletions
  BY <1>2 DEF Deletions, DropStages, FreshRows
<1>3. ASSUME NEW f \in perfs, DuplicatePerformance(f) PROVE FreshRows
  BY <1>3, DuplicateAdds DEF FreshRows
<1>4. ASSUME NEW f \in perfs, DeletePerformance(f) PROVE FreshRows
  BY <1>4 DEF DeletePerformance, FreshRows
<1>5. CASE SaveCommit
  BY <1>5 DEF SaveCommit, FreshRows, Sound, SaveHolds
<1>6. CASE UNCHANGED rows
  BY <1>6 DEF FreshRows
<1> QED
  BY <1>1, <1>2, <1>3, <1>4, <1>5, <1>6, StepsByRows

MovesOnlyBySweep ==
  \A r \in rows, q \in rows' :
     (q.id = r.id /\ q # r) => /\ r.perf = Live
                               /\ q = [r EXCEPT !.perf = q.perf]
                               /\ \A f \in perfs : f.id # q.perf

LEMMA MovesOnly == ASSUME Sound, [Next]_vars PROVE MovesOnlyBySweep
<1> SUFFICES ASSUME NEW r \in rows, NEW q \in rows', q.id = r.id, q # r
             PROVE  /\ r.perf = Live
                    /\ q = [r EXCEPT !.perf = q.perf]
                    /\ \A f \in perfs : f.id # q.perf
  BY DEF MovesOnlyBySweep
<1>1. q \notin rows
  BY DEF Sound, RowsHold
<1>2. SweepCommit
  BY <1>1, RowsAreFresh DEF FreshRows
<1>3. tx.step = "commit-sweep" /\ q \in tx.out
  BY <1>1, <1>2 DEF SweepCommit
<1>4. PICK t \in rows : t.perf = Live /\ t.id = q.id /\ q = [t EXCEPT !.perf = q.perf]
  BY <1>3, SweptRows
<1>5. t = r
  BY <1>4 DEF Sound, RowsHold
<1>6. q.perf = tx.perf /\ \A f \in perfs : f.id # tx.perf
  BY <1>3, SweptRows DEF Sound, SweepHolds
<1> QED
  BY <1>4, <1>5, <1>6

\* An archived row never changes its performance nor becomes live again, and a live one
\* moves only into a performance that is new: by the sweep, whatever else happens.
THEOREM OnlySweepMoves == Spec => OnlySweepMovesRows
<1>1. Sound /\ [Next]_vars => MovesOnlyBySweep
  BY MovesOnly
<1>2. Sound /\ [Next]_vars => [MovesOnlyBySweep]_vars
  BY <1>1
<1> QED
  BY <1>2, InitSound, StepSound, PTL DEF Spec, OnlySweepMovesRows, MovesOnlyBySweep

\* Sets of rows by performance: what each of the six changes leaves alone.
OwnRowsStay ==
  \A f \in perfs : (\E g \in perfs' : g.id = f.id /\ tx.perf # f.id)
     => {r \in rows' : r.perf = f.id} = RowsOf(f.id)

LEMMA OwnRows == ASSUME Sound, [Next]_vars PROVE OwnRowsStay
<1> SUFFICES ASSUME NEW f \in perfs, NEW g \in perfs', g.id = f.id, tx.perf # f.id
             PROVE  {r \in rows' : r.perf = f.id} = RowsOf(f.id)
  BY DEF OwnRowsStay
<1>1. f.id \in Nat /\ 0 < f.id /\ f.id < nextPerf /\ f.id # Live /\ nextPerf \in Nat
  BY DEF Sound, PerfsHold, Performance, Live
<1>2. CASE UNCHANGED rows
  BY <1>2 DEF RowsOf
<1>3. ASSUME NEW r \in open, ArchiveCommit(r) PROVE {q \in rows' : q.perf = f.id} = RowsOf(f.id)
  <2>1. rows' = rows \cup {r} /\ r.perf # f.id
    BY <1>1, <1>3 DEF ArchiveCommit, Sound, RowsHold
  <2> QED
    BY <2>1 DEF RowsOf
<1>4. CASE Deletions
  <2>1. PICK S \in SUBSET Stages, others \in SUBSET rows :
          DropStages(S, others) /\ \A r \in rows \ others : r.perf = Live
    BY <1>4 DEF Deletions
  <2>2. f = g /\ f.stage \notin S
    BY <2>1 DEF DropStages, Sound, PerfsHold
  <2>3. \A h \in perfs : h.stage \in S => h.id # f.id
    BY <2>2 DEF Sound, PerfsHold
  <2>4. rows' = {r \in others : \A h \in perfs : h.stage \in S => r.perf # h.id}
    BY <2>1 DEF DropStages
  <2>5. \A r \in rows : r.perf = f.id => r \in rows'
    BY <1>1, <2>1, <2>3, <2>4
  <2>6. rows' \subseteq rows
    BY <2>4
  <2> QED
    BY <2>5, <2>6 DEF RowsOf
<1>5. ASSUME NEW h \in perfs, DuplicatePerformance(h)
      PROVE  {q \in rows' : q.perf = f.id} = RowsOf(f.id)
  <2>1. rows \subseteq rows'
    BY <1>5 DEF DuplicatePerformance
  <2>2. \A q \in rows' \ rows : q.perf # f.id
    BY <1>1, <1>5, DuplicateAdds
  <2> QED
    BY <2>1, <2>2 DEF RowsOf
<1>6. ASSUME NEW h \in perfs, DeletePerformance(h)
      PROVE  {q \in rows' : q.perf = f.id} = RowsOf(f.id)
  <2>1. f = g /\ h # f /\ h.id # f.id
    BY <1>6 DEF DeletePerformance, Sound, PerfsHold
  <2> QED
    BY <1>6, <2>1 DEF DeletePerformance, RowsOf
<1>7. CASE SweepCommit
  <2>1. /\ tx.step = "commit-sweep"
        /\ rows' = {r \in rows : r.id \notin IdsOf(tx.out)} \cup tx.out
    BY <1>7 DEF SweepCommit
  <2>2. \A q \in tx.out : /\ q.perf # f.id
                          /\ \A r \in rows : r.id = q.id => r.perf = Live
    BY <2>1, SweptRows DEF Sound, RowsHold
  <2>3. \A r \in rows : r.perf = f.id => r.id \notin IdsOf(tx.out)
    BY <1>1, <2>2 DEF IdsOf
  <2> QED
    BY <2>1, <2>2, <2>3 DEF RowsOf
<1>8. CASE SaveCommit
  BY <1>8 DEF SaveCommit, Sound, SaveHolds, RowsOf
<1> QED
  BY <1>2, <1>3, <1>4, <1>5, <1>6, <1>7, <1>8, StepsByRows

\* A performance that outlives a step keeps exactly its rows, unless it is the one the
\* transaction under way saves: no sweep, duplicate, deletion or late commit reaches it.
THEOREM SnapshotsAreFrozen == Spec => SnapshotIsFrozen
<1>1. Sound /\ [Next]_vars => [OwnRowsStay]_vars
  BY OwnRows
<1> QED
  BY <1>1, InitSound, StepSound, PTL DEF Spec, SnapshotIsFrozen, OwnRowsStay

CountedIsArchived ==
  (tx.step = "commit-sweep" /\ perfs' # perfs)
     => \A q \in rows' : q.id \in tx.ids => q.perf = tx.perf

LEMMA Counted == ASSUME Sound, [Next]_vars PROVE CountedIsArchived
<1> SUFFICES ASSUME tx.step = "commit-sweep", perfs' # perfs,
                    NEW q \in rows', q.id \in tx.ids
             PROVE  q.perf = tx.perf
  BY DEF CountedIsArchived
<1>1. ~Idle
  BY DEF Idle, NoTx
<1>2. SweepCommit
  BY <1>1 DEF Next, vars, Archive, ArchiveInsert, ArchiveCommit, ArchiveFail, StageMutation,
     CreateStage, RenameStage, DuplicateStage, DeleteStage, SweepCount, CreatePerformance,
     PerformanceMutation, SaveBegin, DuplicatePerformance, DeletePerformance, DeleteUser,
     SweepUpdate, SweepWith, SaveSelect, SaveCommit, Rollback
<1>3. q.id \in IdsOf(tx.out)
  BY DEF Sound, SweepHolds, IdsOf
<1>4. q \in tx.out
  BY <1>2, <1>3 DEF SweepCommit
<1> QED
  BY <1>4, SweptRows

\* Every row a sweep counted has left the live view when its COMMIT shows the new
\* performance, though its UPDATE looked again and writers committed in between.
THEOREM SweepTakesItsCount == Spec => SweepTakesWhatItCounted
<1>1. Sound /\ [Next]_vars => [CountedIsArchived]_vars
  BY Counted
<1> QED
  BY <1>1, InitSound, StepSound, PTL DEF Spec, SweepTakesWhatItCounted, CountedIsArchived
===============================================================================
