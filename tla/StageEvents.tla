----------------------------- MODULE StageEvents -----------------------------
(***************************************************************************)
(* The events table and what the stage and performance mutations do with   *)
(* it: sweep, recording, duplicates, deletions, renaming.  Events belong   *)
(* to a stage only by the slug in their topic, and to a performance by a   *)
(* number without a foreign key.  A mutation has the event loop to itself  *)
(* from its first statement to its COMMIT (RequestTransactions), but the   *)
(* writers of the archive insert and commit between its statements, which  *)
(* each see what is committed when they run.                               *)
(***************************************************************************)
EXTENDS Integers, FiniteSets, FiniteSetsExt

CONSTANTS
  Stages,           \* stage ids
  Slugs,            \* values of stage.file_location
  NoSlug,           \* in place of a slug: the stage was never created
  Gone,             \* in place of a slug: the stage was deleted
  ShortNames,       \* the slugs get_short_name can make: letters, digits, dashes
  Messages,         \* live messages, each sent once
  SlugOf,           \* SlugOf[m]: the slug in the topic of m
  Like,             \* <<p, l>>: slug l LIKE pattern p (a _ in p is any character)
  ILike,            \* <<p, l>>: slug l ILIKE pattern p (letter case ignored too)
  MaxPerformances,  \* bound: performances ever created
  MaxRows           \* bound: rows ever inserted

ASSUME StageEventsAssumption ==
  /\ ShortNames \subseteq Slugs
  /\ SlugOf \in [Messages -> Slugs]
  /\ Like \subseteq ILike /\ ILike \subseteq Slugs \X Slugs
  /\ \A l \in Slugs : <<l, l>> \in Like
  /\ NoSlug \notin Slugs /\ Gone \notin Slugs /\ NoSlug # Gone
  /\ MaxPerformances \in Nat /\ MaxRows \in Nat

VARIABLES
  slug,      \* slug[s]: the stage's file_location, NoSlug or Gone
  perfs,     \* the performances there are
  nextPerf,  \* the sequence behind performance.id
  rows,      \* committed rows of events
  open,      \* rows the archive has inserted and not committed
  nextId,    \* the sequence behind events.id
  sent,      \* messages the archive has taken
  now,       \* datetime.now(), as a count of the times given to rows
  tx         \* the transaction of the mutation under way

vars == <<slug, perfs, nextPerf, rows, open, nextId, sent, now, tx>>

Live == 0     \* events.performance_id IS NULL
Row == [id : Nat, msg : Messages, perf : Nat, created : Nat]
Performance == [id : Nat, stage : Stages, since : Nat, recording : BOOLEAN]

\* step: the statement a mutation is about to run; ids: the rows it has counted;
\* out: the rows it has written; time: when it began.
NoTx == [step |-> "none", stage |-> NoSlug, perf |-> 0, ids |-> {}, out |-> {}, time |-> 0]

Idle == tx = NoTx
Exists(s) == slug[s] \in Slugs
RowsOf(p) == {r \in rows : r.perf = p}
IdsOf(S) == {r.id : r \in S}
WithId(p) == CHOOSE f \in perfs : f.id = p
Matching(rel, s, S) == {r \in S : <<slug[s], SlugOf[r.msg]>> \in rel}

\* Copies of S as new rows of performance p, numbered from the sequence in the
\* order of the originals; created[r] is the creation time of the copy of r.
Copies(S, p, created) ==
  {[id |-> nextId + Cardinality({q \in S : q.id < r.id}), msg |-> r.msg,
    perf |-> p, created |-> created[r]] : r \in S}

Created(S) == [r \in S |-> r.created]

Init ==
  /\ slug = [s \in Stages |-> NoSlug]
  /\ perfs = {} /\ nextPerf = 1
  /\ rows = {} /\ open = {} /\ nextId = 1
  /\ sent = {} /\ now = 1
  /\ tx = NoTx
-------------------------------------------------------------------------------
(***************************************************************************)
(* event_archive                                                           *)
(***************************************************************************)
\* A writer runs its INSERT.
ArchiveInsert(m) ==
  /\ m \notin sent
  /\ nextId <= MaxRows
  /\ open' = open \cup {[id |-> nextId, msg |-> m, perf |-> Live, created |-> now]}
  /\ sent' = sent \cup {m}
  /\ nextId' = nextId + 1 /\ now' = now + 1
  /\ UNCHANGED <<slug, perfs, nextPerf, rows, tx>>

\* It commits, in any order with the other writers and with the mutations.
ArchiveCommit(r) ==
  /\ open' = open \ {r}
  /\ rows' = rows \cup {r}
  /\ UNCHANGED <<slug, perfs, nextPerf, nextId, sent, now, tx>>

\* Its transaction fails.
ArchiveFail(r) ==
  /\ open' = open \ {r}
  /\ UNCHANGED <<slug, perfs, nextPerf, rows, nextId, sent, now, tx>>
-------------------------------------------------------------------------------
(***************************************************************************)
(* Stages                                                                  *)
(***************************************************************************)
\* create_stage takes the client's slug as it is; ids are never given twice.
CreateStage(s, l) ==
  /\ Idle
  /\ slug[s] = NoSlug
  /\ slug' = [slug EXCEPT ![s] = l]
  /\ UNCHANGED <<perfs, nextPerf, rows, open, nextId, sent, now, tx>>

\* get_short_name: the duplicate has a short name that is no stage's slug.
DuplicateStage(s, t, l) ==
  /\ Idle
  /\ Exists(s) /\ slug[t] = NoSlug
  /\ \A u \in Stages : slug[u] # l
  /\ slug' = [slug EXCEPT ![t] = l]
  /\ UNCHANGED <<perfs, nextPerf, rows, open, nextId, sent, now, tx>>

\* update_stage with a file_location: archived rows keep their old topics.
RenameStage(s, l) ==
  /\ Idle
  /\ Exists(s)
  /\ slug' = [slug EXCEPT ![s] = l]
  /\ UNCHANGED <<perfs, nextPerf, rows, open, nextId, sent, now, tx>>

\* Mutant: the performances go and their events stay.
DropStagesOnly(S, others) ==
  /\ rows' = others
  /\ perfs' = {f \in perfs : f.stage \notin S}
  /\ slug' = [s \in Stages |-> IF s \in S THEN Gone ELSE slug[s]]
  /\ UNCHANGED <<nextPerf, open, nextId, sent, now, tx>>

\* delete_stage, for the stages S: their performances and the events of those.
DropStages(S, others) ==
  /\ rows' = {r \in others : \A f \in perfs : f.stage \in S => r.perf # f.id}
  /\ perfs' = {f \in perfs : f.stage \notin S}
  /\ slug' = [s \in Stages |-> IF s \in S THEN Gone ELSE slug[s]]
  /\ UNCHANGED <<nextPerf, open, nextId, sent, now, tx>>

\* The mutation: live events stay behind.
DeleteStage(s) ==
  /\ Idle
  /\ Exists(s)
  /\ DropStages({s}, rows)

\* delete_user, for an owner of the stages S: live events LIKE their slugs go too.
DeleteUser(S) ==
  /\ Idle
  /\ \A s \in S : Exists(s)
  /\ DropStages(S, rows \ UNION {Matching(Like, s, RowsOf(Live)) : s \in S})
-------------------------------------------------------------------------------
(***************************************************************************)
(* sweep_stage                                                             *)
(***************************************************************************)
\* events.count() finds some, and the INSERT of the performance draws its id.
SweepCount(s) ==
  /\ Idle
  /\ Exists(s)
  /\ nextPerf <= MaxPerformances
  /\ LET found == Matching(ILike, s, RowsOf(Live))
     IN /\ found # {}
        /\ tx' = [NoTx EXCEPT !.step = "sweep", !.stage = s, !.perf = nextPerf,
                              !.ids = IdsOf(found), !.time = now]
  /\ nextPerf' = nextPerf + 1
  /\ now' = now + 1
  /\ UNCHANGED <<slug, perfs, rows, open, nextId, sent>>

SweepWith(found) ==
  /\ tx.step = "sweep"
  /\ tx' = [tx EXCEPT !.step = "commit-sweep",
                      !.out = {[r EXCEPT !.perf = tx.perf] : r \in found}]
  /\ UNCHANGED <<slug, perfs, nextPerf, rows, open, nextId, sent, now>>

\* Mutant: the UPDATE compares letter case, which the count ignored.
SweepUpdateLike == SweepWith(Matching(Like, tx.stage, RowsOf(Live)))

\* Mutant: the UPDATE forgets performance_id IS NULL.
SweepUpdateAll == SweepWith(Matching(ILike, tx.stage, rows))

\* events.update(): a statement of its own, which finds what is live by now.
SweepUpdate == SweepWith(Matching(ILike, tx.stage, RowsOf(Live)))

\* COMMIT: the rows it updated and the new performance become visible.
SweepCommit ==
  /\ tx.step = "commit-sweep"
  /\ rows' = {r \in rows : r.id \notin IdsOf(tx.out)} \cup tx.out
  /\ perfs' = perfs \cup {[id |-> tx.perf, stage |-> tx.stage, since |-> tx.time,
                           recording |-> FALSE]}
  /\ tx' = NoTx
  /\ UNCHANGED <<slug, nextPerf, open, nextId, sent, now>>
-------------------------------------------------------------------------------
(***************************************************************************)
(* Performances                                                            *)
(***************************************************************************)
\* create_performance (startRecording)
CreatePerformance(s) ==
  /\ Idle
  /\ Exists(s)
  /\ nextPerf <= MaxPerformances
  /\ perfs' = perfs \cup {[id |-> nextPerf, stage |-> s, since |-> now, recording |-> TRUE]}
  /\ nextPerf' = nextPerf + 1
  /\ now' = now + 1
  /\ UNCHANGED <<slug, rows, open, nextId, sent, tx>>

\* save_recording takes the time, for any performance, recording or not.
SaveBegin(f) ==
  /\ Idle
  /\ tx' = [NoTx EXCEPT !.step = "save", !.stage = f.stage, !.perf = f.id, !.time = now]
  /\ UNCHANGED <<slug, perfs, nextPerf, rows, open, nextId, sent, now>>

\* Mutant: the copies are numbered without drawing from the sequence.
SaveSelectUndrawn ==
  /\ tx.step = "save"
  /\ LET since == WithId(tx.perf).since
         found == {r \in Matching(ILike, tx.stage, rows) : since < r.created /\ r.created < tx.time}
     IN /\ found # {}
        /\ tx' = [tx EXCEPT !.step = "commit-save", !.out = Copies(found, tx.perf, Created(found))]
  /\ UNCHANGED <<slug, perfs, nextPerf, rows, open, nextId, sent, now>>

\* It reads the stage's rows created in between, whatever performance they are of,
\* and adds a copy of each; finding none is an error.
SaveSelect ==
  /\ tx.step = "save"
  /\ LET since == WithId(tx.perf).since
         found == {r \in Matching(ILike, tx.stage, rows) : since < r.created /\ r.created < tx.time}
     IN /\ found # {}
        /\ nextId + Cardinality(found) <= MaxRows + 1
        /\ tx' = [tx EXCEPT !.step = "commit-save", !.out = Copies(found, tx.perf, Created(found))]
        /\ nextId' = nextId + Cardinality(found)
  /\ UNCHANGED <<slug, perfs, nextPerf, rows, open, sent, now>>

SaveCommit ==
  /\ tx.step = "commit-save"
  /\ rows' = rows \cup tx.out
  /\ perfs' = {IF f.id = tx.perf THEN [f EXCEPT !.recording = FALSE] ELSE f : f \in perfs}
  /\ tx' = NoTx
  /\ UNCHANGED <<slug, nextPerf, open, nextId, sent, now>>

\* The mutation raises or its COMMIT fails: rolled back; sequences do not go back.
Rollback ==
  /\ ~Idle
  /\ tx' = NoTx
  /\ UNCHANGED <<slug, perfs, nextPerf, rows, open, nextId, sent, now>>

\* duplicate_performance_with_trimmed_pauses: new rows, created now.
DuplicatePerformance(f) ==
  /\ Idle
  /\ nextPerf <= MaxPerformances
  /\ RowsOf(f.id) # {}
  /\ nextId + Cardinality(RowsOf(f.id)) <= MaxRows + 1
  /\ LET found == RowsOf(f.id)
     IN rows' = rows \cup Copies(found, nextPerf, [r \in found |-> now])
  /\ perfs' = perfs \cup {[f EXCEPT !.id = nextPerf, !.since = now]}
  /\ nextPerf' = nextPerf + 1
  /\ nextId' = nextId + Cardinality(RowsOf(f.id))
  /\ now' = now + 1
  /\ UNCHANGED <<slug, open, sent, tx>>

\* Mutant: the events of a deleted performance are live again (ON DELETE SET NULL).
DeletePerformanceSetNull(f) ==
  /\ Idle
  /\ rows' = {IF r.perf = f.id THEN [r EXCEPT !.perf = Live] ELSE r : r \in rows}
  /\ perfs' = perfs \ {f}
  /\ UNCHANGED <<slug, nextPerf, open, nextId, sent, now, tx>>

\* delete_performance
DeletePerformance(f) ==
  /\ Idle
  /\ rows' = rows \ RowsOf(f.id)
  /\ perfs' = perfs \ {f}
  /\ UNCHANGED <<slug, nextPerf, open, nextId, sent, now, tx>>

Archive == \/ \E m \in Messages : ArchiveInsert(m)
           \/ \E r \in open : ArchiveCommit(r) \/ ArchiveFail(r)

StageMutation == \E s \in Stages :
                   \/ \E l \in Slugs : CreateStage(s, l) \/ RenameStage(s, l)
                   \/ \E l \in ShortNames, t \in Stages : DuplicateStage(s, t, l)
                   \/ DeleteStage(s) \/ SweepCount(s) \/ CreatePerformance(s)

PerformanceMutation == \E f \in perfs : \/ SaveBegin(f) \/ DuplicatePerformance(f)
                                        \/ DeletePerformance(f)

Next == \/ Archive \/ StageMutation \/ PerformanceMutation
        \/ \E S \in (SUBSET Stages) \ {{}} : DeleteUser(S)
        \/ SweepUpdate \/ SweepCommit \/ SaveSelect \/ SaveCommit \/ Rollback

Spec == Init /\ [][Next]_vars
-------------------------------------------------------------------------------
\* Every variable keeps its type, and a row's id is its own.
TypeOK ==
  /\ slug \in [Stages -> Slugs \cup {NoSlug, Gone}]
  /\ perfs \subseteq Performance /\ nextPerf \in Nat
  /\ rows \subseteq Row /\ open \subseteq Row /\ nextId \in Nat
  /\ sent \subseteq Messages /\ now \in Nat
  /\ tx.out \subseteq Row
  /\ \A r, q \in rows \cup open : r.id = q.id => r = q

\* No row names a performance that is not there (no foreign key says so), nor does
\* a performance name a stage that is not there.
NothingDangles ==
  /\ \A r \in rows : r.perf # Live => \E f \in perfs : f.id = r.perf
  /\ \A f \in perfs : Exists(f.stage)

\* What the tables of rows and performances always satisfy.
TablesHold == TypeOK /\ NothingDangles

\* A row is changed in one way only: a live one is swept into a performance that is
\* new. No deletion or rollback brings an archived row back to the live view.
OnlySweepMovesRows ==
  [][\A r \in rows, q \in rows' :
        (q.id = r.id /\ q # r) => /\ r.perf = Live
                                  /\ q = [r EXCEPT !.perf = q.perf]
                                  /\ \A f \in perfs : f.id # q.perf]_vars

\* The rows of a performance are what its sweep, its duplication or its last save
\* made them: nothing is added behind a snapshot's back, nothing taken from it.
SnapshotIsFrozen ==
  [][\A f \in perfs : (\E g \in perfs' : g.id = f.id /\ tx.perf # f.id)
        => {r \in rows' : r.perf = f.id} = RowsOf(f.id)]_vars

\* What a sweep counted, it archives: when it commits, all those rows and whatever
\* was committed before its UPDATE have left the live view together.
SweepTakesWhatItCounted ==
  [][(tx.step = "commit-sweep" /\ perfs' # perfs)
        => \A q \in rows' : q.id \in tx.ids => q.perf = tx.perf]_vars

\* What the tests of sweep_stage ask: a sweep touches only events of the stage's own
\* file_location, and so none of another stage's.
SweepIsolation ==
  tx.step = "commit-sweep" =>
     \A r \in tx.out, s \in Stages : SlugOf[r.msg] = slug[s] => slug[s] = slug[tx.stage]
===============================================================================
