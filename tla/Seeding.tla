-------------------------------- MODULE Seeding --------------------------------
(***************************************************************************)
(* The installation of the Demo Stage.  The bootstrap commits the admin    *)
(* and the placeholder, looks whether there are stages, and seeds in a     *)
(* second transaction; the services wait for it to end well.  It can die   *)
(* anywhere and be started again; a run by hand asks nothing.  A COMMIT    *)
(* that fails is logged, and the run goes on.  Files are copied outside    *)
(* the transaction.  The API can delete what was seeded.                   *)
(***************************************************************************)
EXTENDS Integers, Sequences, SequencesExt

CONSTANTS
  Assigned, Unassigned,   \* the demo media, on the stage and not
  Placeholder,            \* the deleted-media placeholder
  MaxDeaths, MaxDeleted,  \* bounds: runs that die, deletions by the API,
  MaxRefused              \* COMMITs that are refused

Media == Assigned \cup Unassigned
SeedingAssumption == /\ IsFiniteSet(Assigned) /\ IsFiniteSet(Unassigned)
                     /\ {Placeholder, "admin", "stage", "scene", "board"} \cap Media = {}
                     /\ Placeholder \notin {"admin", "stage", "scene", "board"}
Things == Media \cup {Placeholder, "admin", "stage", "scene", "board"}

VARIABLES
  rows,      \* rows[x]: how often x is in the database
  links,     \* the media assigned to the Demo Stage
  others,    \* whether there are other stages
  disk,      \* the files in the uploads volume
  run,       \* the things a run has still to see to, and what it has flushed
  up,        \* whether the services have been started
  deaths, deleted, refused

vars == <<rows, links, others, disk, run, up, deaths, deleted, refused>>

Idle == [todo |-> <<>>, by |-> "nobody", own |-> {}]
Begun(todo, by) == [todo |-> todo, by |-> by, own |-> {}]

\* In the order of main, media in the order of the manifest.
Plan == <<"admin", Placeholder>> \o SetToSeq(Assigned) \o SetToSeq(Unassigned)
        \o <<"stage", "scene", "board">>

Init == /\ rows = [x \in Things |-> 0] /\ links = {} /\ others = FALSE
        /\ disk = {} /\ run = Idle /\ up = FALSE
        /\ deaths = 0 /\ deleted = 0 /\ refused = 0

\* The bootstrap starts whenever the containers are deployed; a run by hand while the
\* services are up.
Bootstrap == /\ run = Idle
             /\ run' = Begun(<<"admin", Placeholder>>, "bootstrap")
             /\ UNCHANGED <<rows, links, others, disk, up, deaths, deleted, refused>>

ByHand == /\ run = Idle /\ up
          /\ run' = Begun(Plan, "operator")
          /\ UNCHANGED <<rows, links, others, disk, up, deaths, deleted, refused>>

\* Mutant: a file that is there already is an error.
CopiesOnce(x) == x \notin disk

\* copy_file overwrites.
Copies(x) == TRUE

\* Mutant: what is there already is made again.
MissingAlways(x) == TRUE

\* Every step looks whether its thing is there.
Missing(x) == rows[x] = 0 /\ x \notin run.own

\* Media are copied every time, the placeholder where it is not.
NeedsCopy(x) == x \in Media \/ (x = Placeholder /\ x \notin disk)

\* The stage takes the media the run has found or made, which must still be there.
MediaThere == \A m \in Assigned : rows[m] > 0 \/ m \in run.own

\* One step of the seed: files first, then the row, if there is none.
Step ==
  /\ run.todo # <<>>
  /\ LET x == Head(run.todo)
     IN /\ NeedsCopy(x) => Copies(x)
        /\ disk' = IF NeedsCopy(x) THEN disk \cup {x} ELSE disk
        /\ x = "stage" /\ Missing(x) => MediaThere
        /\ run' = [run EXCEPT !.todo = Tail(@),
                              !.own = IF Missing(x) THEN @ \cup {x} ELSE @]
  /\ UNCHANGED <<rows, links, others, up, deaths, deleted, refused>>

\* The bootstrap looks for stages before its own COMMIT and then seeds, or the run ends.
GoesOn ==
  IF run.by = "bootstrap" /\ rows["stage"] = 0 /\ ~others
  THEN run' = Begun(Plan, "seed") /\ UNCHANGED up
  ELSE run' = Idle /\ up' = TRUE

\* The COMMIT of a transaction, whether or not the run hears of it.
Committed == [x \in Things |-> IF x \in run.own THEN rows[x] + 1 ELSE rows[x]]
Commit ==
  /\ run # Idle /\ run.todo = <<>>
  /\ rows' = Committed
  /\ links' = IF "stage" \in run.own THEN Assigned ELSE links
  /\ GoesOn
  /\ UNCHANGED <<others, disk, deaths, deleted, refused>>

\* The database refuses it, or loses the connection before: __exit__ logs it and rolls
\* back, and the run goes on as if it had committed.
CommitRefused ==
  /\ run.own # {} /\ run.todo = <<>> /\ refused < MaxRefused
  /\ refused' = refused + 1
  /\ GoesOn
  /\ UNCHANGED <<rows, links, others, disk, deaths, deleted>>

\* Mutant: every step is committed by itself.
KeptSteps(x) == IF x \in run.own THEN 1 ELSE 0

\* What a run that dies leaves of its transaction.
Kept(x) == 0

Die ==
  /\ run # Idle /\ deaths < MaxDeaths
  /\ rows' = [x \in Things |-> rows[x] + Kept(x)]
  /\ run' = Idle /\ deaths' = deaths + 1
  /\ UNCHANGED <<links, others, disk, up, deleted, refused>>

\* A run that finds media gone that it has seen fails at the foreign key.
Fail ==
  /\ run.todo # <<>> /\ Head(run.todo) = "stage" /\ Missing("stage")
  /\ ~MediaThere
  /\ run' = Idle
  /\ UNCHANGED <<rows, links, others, disk, up, deaths, deleted, refused>>

\* The API, while the services are up. Live events outlive their stage, a sweep takes
\* them away; an item assigned in the open transaction cannot be deleted.
Deletes(x) ==
  /\ up /\ rows[x] > 0 /\ deleted < MaxDeleted
  /\ x \in Assigned => "stage" \notin run.own
  /\ x \in Media \cup {"stage", "board"}
  /\ rows' = [rows EXCEPT ![x] = 0, !["scene"] = IF x = "stage" THEN 0 ELSE @]
  /\ links' = IF x = "stage" THEN {} ELSE links \ {x}
  /\ disk' = disk \ {x}
  /\ deleted' = deleted + 1
  /\ UNCHANGED <<others, run, up, deaths, refused>>

CreateOther == /\ up /\ others' = TRUE
               /\ UNCHANGED <<rows, links, disk, run, up, deaths, deleted, refused>>

Next == Bootstrap \/ ByHand \/ Step \/ Commit \/ CommitRefused \/ Die \/ Fail \/ CreateOther
        \/ \E x \in Things : Deletes(x)
-------------------------------------------------------------------------------
\* However often runs die and are started again, nothing is seeded twice.
NothingTwice == \A x \in Things : rows[x] <= 1

\* The services find the whole Demo Stage the first time they start: whatever died
\* before, its media are there with their files and assigned, and its scene
\* and board. Or, when the seed's COMMIT has just been refused, they find nothing of it.
StartsComplete ==
  [][~up /\ up' =>
       \/ /\ \A x \in Things : rows'[x] = 1
          /\ links' = Assigned /\ Media \cup {Placeholder} \subseteq disk'
       \/ /\ refused' # refused /\ links' = {}
          /\ \A x \in Things \ {"admin", Placeholder} : rows'[x] = 0]_vars

\* What run_bootstrap promises: a fresh install that failed to seed exits non-zero, which
\* blocks the services. It does not: the run of this property finds it violated.
FailedSeedBlocks == [][~up /\ up' => rows'["stage"] = 1]_vars

\* A bootstrap that nothing kills gets the services up, whatever runs before it have left:
\* rows they committed and files they copied are in nobody's way.
Installed == \A n \in 0..MaxDeaths : (run # Idle /\ ~up /\ deaths = n) ~> (up \/ deaths > n)

\* An installation is seeded once, and as a whole or not at all, however often its runs die
\* and whichever of their COMMITs is refused.
SeededWhole == []NothingTwice /\ StartsComplete
===============================================================================
