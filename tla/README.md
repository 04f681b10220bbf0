# A TLA+ model of the UpStage backend

The backend of UpStage, an online stage: a GraphQL API over PostgreSQL, and
workers that listen to the MQTT broker over which players and audiences drive a
stage live. This directory holds a specification of it in TLA+, the
configurations that model-check it with TLC, and theorems about it checked by
TLAPS. `PROJECT.json` lists the components, the runs, the theorems, the hazards
they are aimed at, and the source lines every definition stands for.

Paths below are relative to `src/src/upstage_backend/`.

## 1. Inventory

| Component | State | Operations | What is hard | What makes it correct |
|---|---|---|---|---|
| **Event archive** `event_archive/` (a process of its own) | a bounded `asyncio.Queue`, a `stop` event, rows of `events` | subscribe, enqueue, write, drain, shut down | several writers, reconnections, database errors, SIGTERM with a blocked `put()`, restarts | a message is stored at most once, in a replayable order; `join()` is exact; the process ends |
| **Request transactions** `global_config/db_context.py`, `schema.py`, `main.py` | one SQLAlchemy session per request, row locks in PostgreSQL, one event loop | open, commit or roll back when a root mutation settles, tear down | a blocking driver under cooperative scheduling; awaits between statements; refused, lost and cancelled COMMITs | no lock outlives the loop's attention; what a client is told is what the database has |
| **Stage events** `stages/services/stage.py`, `performance_config/services/performance.py`, `studio_management/services/studio.py` | `stage`, `performance`, `events` | create, duplicate, rename, delete, sweep, record, duplicate a performance, delete a user | events belong to a stage only by a pattern on their topic; the archive commits between statements; no foreign key | archived rows stay where they are; nothing dangles; a sweep takes what it counted |
| **Timeline compression** `performance_config/timeline_trim.py` | none (a loop) | shrink idle gaps | accumulated shifts | gaps are capped exactly, order and start are kept |
| **Media assignments** `stages/services/assignment.py`, `media.py`, `asset.py` | `parent_stage` rows, whose ids are the saved order | assign, reorder, rebuild from the media's or the stage's side | two writers of one relation | order and exit settings of surviving pairs are kept |
| **Permissions and bell** `studio.py`, `stage.py`, `asset.py` | `asset_usage` rows with two `seen` flags | request, confirm, dismiss, `saveMedia`'s user list | three parties and admins act on one row in any order | nobody's open request leaves every bell unanswered |
| **Media files** `asset.py`, `media.py`, `files/` | files on disk, `asset` rows, frames in JSON | upload, save, update, delete | the disk takes no part in the transaction; two resolvers await a thread that writes; frames are searched for as text | an item loses its file only with an item that shares it |
| **Pictures in payloads** `studio.py` | file names inside the JSON of scenes and events | replaced when an account is deleted | items share files, and go one after another; names are looked for in JSON text, where some are escaped | no recording shows a file that went, and none loses one that stays, but for escaped names |
| **Scenes** `performance_config/services/scene.py` | `scene` rows | save, delete (a mark) | order and automatic name count deleted rows | recordings find their scenes; chosen names are distinct |
| **Sessions** `authentication/` | `user_session`, tokens in browsers | log in, refresh, log out | tokens exchanged twice, answers lost, tokens equal within a second, pairs cut by a second's turn | one row per login; nobody is logged out by a browser that shares no token |
| **Users, password reset** `users/`, `studio.py` | `upstage_user`, one-time codes | register, create in batches, update, delete, ask for a code, use it | mails go before the COMMIT | names and addresses have one owner, codes live once |
| **Stage attributes** `stage.py`, `stage_operation.py` | owner and key-value rows | create, update, duplicate, toggle, delete | saves of some of the fields; lists of ids with no foreign key | places on a stage change only as they are told |
| **Statistics worker** `upstage_stats/` | one row per stage | follow retained messages | broken connections, failing transactions | rows come to say what the broker says |
| **New installation** `stages/scripts/` | rows and files of the Demo Stage | bootstrap, seed | runs that die and are repeated, COMMITs that fail silently | seeded once, and as a whole or not at all, before the services start |
| **Video posters** `files/video_poster.py` | a picture beside each video | extract in uploads and in the backfill | two writers of one file, timeouts | a whole poster stays |
| **Mail** `mails/` | none (SMTP) | compose and send | lists that are shared, merged and split; one address written in several ways | everybody gets what is theirs and sees nobody else |
| **RTMP authentication, upload limits, payments, licences, options, migrations** | single rows, or none | | no state of interest of their own | |

How they interact. Clients publish to the broker; the archive is the only writer
of new live rows of `events`. The API never talks to the archive: the two meet in
the `events` table alone, where the API's mutations select by topic, and the
archive's commits fall between any two of their statements. All API requests share
one event loop and reach the database with a driver that blocks it; the statistics
worker and scripts are other processes that may hold the same row locks. Files,
mails and tokens are outside every transaction: what a mutation does to them is done
whatever becomes of its COMMIT.

## 2. Modules

    EventLog               what the archive promises (abstract)
      ^ implemented by
    EventArchive           subscriber, queue, writers, shutdown, crash
      EventArchiveProofs     six theorems           MCEventArchive  two runs
    RequestTransactions    the event loop, sessions and row locks
      RequestTransactionsProofs  four theorems      MCRequestTransactions  one run
    StageEvents            the events table under all its mutations and the archive
      StageEventsProofs      four theorems          MCStageEvents  one passing run, one violation
    MediaLibrary           items, their assignments to stages, permissions, the bell
      MediaLibraryProofs     seven theorems         MCMediaPlaces, MCMediaLibrary  a run each
    MediaFiles             rows of items and the files they name
      MediaFilesProofs       two theorems           MCMediaFiles  one run
    Accounts               users and one-time codes     \
    Sessions               logins, refreshes, logouts   / MCAccounts  one run
      AccountsProofs         four theorems
    StageAccess            owners, places, the foyer    \
    Scenes                 scenes of stages             / MCStageAccess  one run
      StageAccessProofs      three theorems
    TimelineTrim           the loop of timeline_trim.py \
    Statistics             the statistics worker        |
    Seeding                the Demo Stage's bootstrap   | MCWorkers  two runs
    VideoPosters           ffmpeg and the backfill      |
    Mails                  create_email and send_async  |
    Placeholders           pictures in payloads         /
      WorkersProofs          six theorems

Several modules share an MC module and a run where they have no state in common: the
variable `part` says which of them a behaviour shows, and the others rest (in
`MCMediaPlaces`, which of two instances of the same module). A theorem about
such a part is stated of `MCSpec`, the behaviours of the whole, with the part's constants free.

The composition is by abstraction: `StageEvents` takes from `EventArchive` only
that a writer inserts and later commits or fails, and from `RequestTransactions`
that a mutation whose resolver never awaits has the loop to itself from its first
statement to its COMMIT.

### EventArchive

One action is what a task does between two awaits. `sub`, `wpc` and `main` are
the places at which the subscriber, each writer and `main()` wait.

- `subscribe_loop`: `SubLoop` (the `while`), `SubConnect`, `SubRefused`,
  `SubError` and `SubBackoff` (reconnection), `SubBreak` (`stop` seen at a message),
  `SubSkip` (retained, statistics), `SubAccept` (stamp and `put()`, which may block
  with the item in hand), `SubPut` (`put()` resumes, without a look at `stop`).
- `writer_loop`: `WriterTake` (and the undecodable payload, dropped in the same
  step), `WriterInsert`, `WriterCommit`, `WriterFail` (logged, dropped),
  `WriterSettle` (`task_done()`), `WriterExit`. The one-second poll of `get()`
  changes nothing and is the idle state itself.
- `main`: `Signal`, `JoinReturns`, `JoinTimesOut`, `Exit`. `stop` is
  `main # "serve"`, since `main()` waits for nothing else before it.
- `Crash` restarts every task; only the table and its sequence remain.
- `Publish` and `LinkBreak` are the broker and the network (external).

Kept apart from the code: the clock hands out every stamp once and never goes
back; a message is published once; the heartbeat task is left out.

### RequestTransactions

A request is a sequence of root mutations, a mutation a sequence of steps:
`write` (a statement that locks a row), `commit` (a commit of the resolver's own)
and `await`. `Settle`, `SettleRefused`, `SettleUnknown` and `Fail` are
`end_transaction_after_root_mutation`, with the COMMIT taken, refused, or cut off. A
COMMIT of unknown outcome is answered with an error like a refused one, as in the code
(`db_context.py:107-112`); the history variable `cut` keeps where it happened, for the
property: an error leaves nothing, or all with only the answer wrong.
`Teardown` and `Cancel` are `request_session`. A blocked statement is a `write`
that is not enabled while `loop` stays with its request, so nobody else runs; `lock_timeout` is
one of the errors of `Fail`. The ASSUME `RequestAssumption` states the rule that
is written above `upload_media`: no write may be pending at an await
(`Disciplined`). TLC checks it for the four shapes of resolver that the code has;
the theorems hold for every program that keeps it. The resolvers that await
(`upload_media`, `update_media`, `login`, `create`, the payments) were read for it:
they await before their first write, or commit in between.

### StageEvents

Rows carry the message, the performance and the creation time; a slug is a model
value, and `Like` and `ILike` say which slugs a slug used as a pattern matches.
The instance has one slug with an underscore (`MY_stage`) that, letter case
ignored, matches another (`my-stage`). Mutations that run one statement on
`events` are one action (`DeleteStage`, `DeleteUser`, `DuplicatePerformance`, ...);
`sweep_stage` and `save_recording` are split at the statements between which a
commit of the archive matters (`SweepCount`, `SweepUpdate`, `SweepCommit`;
`SaveBegin`, `SaveSelect`, `SaveCommit`), and `Rollback` ends either. Who may call
a mutation is left out: the properties do not depend on it.

### MediaLibrary

`links` are the rows of `parent_stage`, `usages` those of `asset_usage`, `media` maps
an item to its owner, kind (media type) and copyright level. Row ids matter: the order
of `parent_stage` ids is the saved order of a stage's media, so a new row gets the
next id above all others (`Top`; a sequence would also skip ids, which no property can
tell). One action is one mutation: none of them awaits after its first write.

- Assignments: `AssignMedia` deletes and rewrites a stage's rows with a snapshot of
  their exits (`Snapshots`, `Rearranged`); `AssignStages` (also quick assign) and
  `SaveMedia` go through `Synced`, which is `sync_asset_assignments`;
  `UpdateStageAssignment` sets one row's exit, NULL included; `DuplicateStage` copies
  rows in any order, because `copy_data` asks for none.
- Permissions: `RequestPermission`, `ConfirmPermission`, `DismissNotification`
  (`Dismissed` has the four cases of who the caller is), and the user list of
  `SaveMedia` (`UnlistedGo`, `ListedApproved`; of several rows of one user either is found).
- Deletions: `DeleteMedia`, `DeleteStage`, `DeleteUser` (with the heir of what is
  kept, and `Substituted` for the placeholder; sessions run without autoflush, so rows
  of one item do not see each other's replacement).

`exit` stands for either of two exit fields, which behave alike. Left out: names,
tags, licences, files, who may call a mutation where somebody always may (a stage's
owner or an admin), and the dormant flag. The latter is all that
`deleteMediaOnStage` ever sets: it asks `if asset.stages`, a dynamic relationship,
which is true with or without rows (`stages/services/media.py:221`).

### TimelineTrim

`compress_sorted_times_ms` as a state machine, one step per turn of the loop; times
are whole milliseconds instead of floats, so rounding is not modelled.

### MediaFiles

`media` maps an item to its location and to the frames in its description; `files`
is the disk, `told` the locations a client may name. A file's name is drawn once
(`Unused`, a UUID). `UploadFile` and `SaveMedia` are `uploadFile` and `saveMedia`;
`UploadBegin`/`UploadEnd` and `UpdateBegin`/`UpdateEnd` are `upload_media` and
`update_media` before and after their `await`, with the columns that SQLAlchemy will
flush held in `req` (`Changed`: only those that differ from what was read);
`RequestEnds` is an error, a cancellation or a crash there. `DeleteMedia` unlinks first,
and its COMMIT may be refused. What the code does here that a reader may not expect,
and the model has:

- an uploaded frame is recorded under one name and written under another
  (`stages/services/media.py:209-211` against `files/file_handling.py:56`): `Nowhere`;
- a frame's file is kept when its item goes, because the query for items that use it finds
  the item itself (`assets/services/asset.py:572-585`), unless the name is one that JSON
  writes with escapes (`Escaped`): a file keeps the name it had at the client, the
  description is what `json.dumps` wrote, and a name with a letter outside ASCII, a quote
  or a backslash is not found in it. Then only an item *at* the frame saves the file
  (`Found`, `Unlinked`), and other items that have the frame lose it;
- `retrieve_asset` looks for another item at the location as it was given, so that a
  cache suffix (`?t=`), cut off later, bypasses it: `busted`;
- a deletion takes the item's location out of other items' frames where it comes first and
  leaves any second one (`list.remove`, `assets/services/asset.py:609`), and leaves all
  where the name is escaped: `Left`.

A name also carries a UUID, so the wildcards that `contains` leaves in a name (`_`, `%`)
match no other file.

Size limits and file types are left out.

### Placeholders

`deleteUser` writes the placeholder's location over the files of the images it deletes
in the payloads of scenes and events. A payload is the set of locations in it, and
`EscapedIn` says which of them it writes with escapes: a recording, which `json.dumps`
wrote (the archive stores JSON), has all of `Escaped` so, a scene, which a browser
wrote, only names with a quote or a backslash. The code looks for plain names: `Replaced`
passes escaped ones by, and `StillUsed` does not see them among the frames of other items.
`DeleteItem` is one turn of the loop; `Tokens` are the locations it replaces: the item's
own even if other items have it (its file is unlinked), a frame only if no other
item is found to have it, never a stream key. `deleteMedia` by the owner replaces nothing.

### Accounts and Sessions

`Accounts` has the rows of `upstage_user` and of the one-time codes: `Register`,
`CreateUsers`, `UpdateUser`, `DeleteUser`, `RequestPasswordReset`, `ResetPassword`.
A mail is handed to a task of its own at once, so a refused COMMIT (`Refuse`) leaves the
mail that it was to announce. Two users may have the same code, and the reset then
finds either.

In `Sessions` a token is its user and its second: `create_token` puts nothing else in it
and cuts the time to seconds, so two logins of one second share a pair. Each token of a pair
has a reading of the clock of its own (`at` and `renew`; `Later` is the clock in between), so
two pairs may also share one token and not the other. `Refresh` finds and deletes rows by the
refresh token alone (`RefreshRows`), `Logout` and `Authenticated` (the decorator) go by the
access token (`AccessRows`). As in the code,
`Refresh` asks neither for the refresh token's expiry nor for an active account, and
`Logout` deletes the first row of a pair that several may have. An answer can be lost
(`Answered`). The field `login` is a history variable for `OnePairPerLogin`.

### StageAccess and Scenes

`stage` maps a stage to its owner and its attributes; `None` is a row that is not there,
or a field that a browser leaves out, and `Odd` stands for JSON that is no list of groups.
`Permission` is `resolve_permission`, `Saved` what `createStage` and `updateStage` do with
the fields they are given. `Register` appends a new account to the players of the Demo
Stage; `DeleteUser` takes its id out of all lists. `duplicateStage` asks for no
permission and copies `playerAccess`.

`Scenes` keeps rows with a mark: `CreateScene` (which asks for no permission on the stage;
only a name that is sent is compared with others), `DeleteScene`, and the deletions of
stages and accounts. A resolver of `StageAccess`, `Scenes`, `Accounts`, `Sessions` and
`MediaLibrary` never awaits between its first look at the database and its COMMIT, so it
is one step (the rule that `RequestTransactions` is about).

### Statistics, Seeding, VideoPosters, Mails

- `Statistics`: counts are abstracted to how often they changed. A (re)connection
  subscribes anew and gets all retained messages (`Connect`); a message is recorded or
  lost to a refused transaction (`Record`, `RecordFails`).
- `Seeding`: a run has things to see to, in order (`Plan`), and what it has flushed; the
  bootstrap commits the admin and the placeholder, asks whether there are stages, and
  seeds in a second transaction (`Commit`, `GoesOn`). `Die` rolls back, copied files stay.
  `CommitRefused` is a COMMIT that fails: `ScopedSession` logs it, rolls back and returns, and
  the run goes on as if it had committed (`database.py:80-93`). One whose outcome is unknown is
  either of the two.
  `ByHand` is the script run without the gate, while the API deletes what was seeded.
- `VideoPosters`: `Look` and `Open` are apart, since another extractor may come between;
  `TimedOut` unlinks the poster whoever wrote it; `Breaks` leaves half a poster, which
  `HasPoster` takes for one.
- `Mails`: `Notice`, `System` and `Studio` are the callers with their lists; `Compose` is
  `create_email`, `Send` is `send_async`. A caller that gives no Bcc list has the default
  argument of `send`, one list object for all calls (`default`). A list is how often each
  string is in it: its order reaches nobody. The code compares strings, and the addresses are
  read off the headers only when the mail is sent (`Reads`): `sendSystemEmail` splits at
  commas and strips nothing, so one address may come padded beside the plain one, pass the
  filters and stand in the envelope twice; the studio's lists are stripped (`Studio`), but a
  name in front of an address makes it another string there too.

## 3. What the runs check

| Run | Bounds | Properties | States |
|---|---|---|---|
| `archive_safety` | 4 messages (one malformed, one retained), 2 writers, capacity 1, one crash, one link fault, one database fault | `TypeOK`, `AtMostOnce`, `ReplayOrder`, `JoinAccounting`, `StrandedAtMostOne`, `ImplementsLog` | 364 k |
| `archive_liveness` | 3 messages, same faults without the crash, no symmetry | `QueuedIsDecided`, `ShutdownCompletes` | 97 k |
| `request_transactions` | 3 requests of different shapes, 2 rows, another process | `TypeOK`, `NoLockAcrossYield`, `AnswerMatchesDatabase`, `AllOrNothing`, `EveryRequestEnds` | 79 k |
| `stage_events` | 2 stages, 2 slugs, 3 messages, 2 performances, 4 rows | `TablesHold` (types, nothing dangles), `OnlySweepMovesRows`, `SnapshotIsFrozen`, `SweepTakesWhatItCounted` | 1.5 M |
| `stage_isolation` | 2 messages, 4 rows | `SweepIsolation`: violated | |
| `media_places` | 1 user, 2 stages, 2 items of one kind, 2 assignments an input, row ids to 6; or 2 users, 1 stage, 2 items of 2 kinds and the placeholder, assignment ids to 3, a permission | `TypeOK`, `NothingDangles`, `PlaceKept`, `ExitKept`, `PlaceholderTakesOver` | 36 k |
| `media_bell` | 3 users, 1 item and the placeholder, levels free and strict, 2 permissions | `StrictUseIsGranted`, `YesIsTold` | 34 k |
| `accounts` | the canonical admin and 2 accounts, 3 names, 3 addresses, 2 codes, one refused COMMIT; 2 browsers, 2 accounts, 3 seconds, 3 session rows | `AccountsHold`, `SessionsHold`, `NoRevival`, `OthersKeepTheirSession` | 157 k |
| `media_files` | 2 items, 2 files (the name of one is escaped in JSON), a stream key, 2 frames, a request that awaits, one refused deletion | `FilesKept`, `AwaitsHarmless` | 65 k |
| `stage_access` | an administrator and 2 accounts, 2 stages, 3 lists of groups, JSON that is none; 2 stages with 4 scenes, names chosen, automatic and equal to an automatic one | `PlacesKept`, `FoyerAsNamed`, `ScenesKept` | 114 k |
| `workers` | all sorted timelines of at most 4 events at times 0..5, all pauses; 2 stages with 3 changes of their counts, 2 faults; 3 demo media, 2 dying runs, 2 refused COMMITs, 2 deletions; 2 videos, 2 extractors, 2 timeouts; lists of 2 out of 6 strings (3 addresses, one in two writings, blanks, and the empty string); all tables of 2 items over 2 files (one escaped) and a key, a scene and a recording | `TimesHold`, `RowsFollow`, `SeededWhole`, `Installed`, `WholePostersStay`, `MailsReachTheirOwn`, `PayloadsHold` | 278 k |
| `failed_seed` | the bootstrap, one refused COMMIT; the other workers have next to nothing to do | `FailedSeedBlocks`: violated | |

Where a module has several facts to say of one matter they are the conjuncts of one
property, each named and commented in the module: `AccountsHold` (`OneOwnerEach`,
`CodesAreFresh`, `ApprovalToldOnce`), `SessionsHold` (`OnePairPerLogin`,
`SessionsHaveUsers`), `FilesKept` (`FileKept`, `FrameKept`, `UploadIsWhole`),
`AwaitsHarmless` (`KeyTakenAtAwait`, `NeverMovedBack`), `PlacesKept` (`OwnersExist`,
`ForgottenWhenDeleted`, `PlacesChangedBySaves`), `ScenesKept` (`NamesChosenOnce`,
`NewSceneComesLast`, `ScenesStayForReplays`), `SeededWhole` (`NothingTwice`,
`StartsComplete`), `TimesHold` (`PausesCapped`, `OrderKept`),
`PayloadsHold` (`ShowsWhatIsThere`, `PicturesStay`).
Most of them say what the code guarantees and name the exceptions it has: an item
loses its file to one that shares it (`FileKept`), a key gets a second item through an
await (`KeyTakenAtAwait`), a poster is broken by an extractor that looked too early
(`WholePostersStay`), a browser is logged out by one that has the same access token or
the same refresh token, issued in the same second (`OthersKeepTheirSession`), an error may
hide a COMMIT that took effect (`AnswerMatchesDatabase`), an escaped name is not found
(`FrameKept`, `ShowsWhatIsThere`, `PicturesStay`), services start on nothing right after a
refused COMMIT (`StartsComplete`), an address written in two ways gets a mail twice
(`MailsReachTheirOwn`).

Why the bounds are enough. A queue of one with two writers already gives every
blocking and every overtaking: the second item blocks the subscriber, the third
can be committed before the first. One fault of each kind, at any point, is what a
property can tell apart; a second one only repeats the first from a state that the
first leads to. In `request_transactions` two requests contend for either row and
the third for both, with the other process as a fourth party. In `stage_events`
two performances are the least for a copy of a copy, and three messages give two
on one slug and one on the slug that its pattern also matches. In `media_places`, which has
two instances of one module, two items give an order, a second stage one to leave alone, and
six ids let the same rows be rewritten twice; three ids put both items of a user and the
placeholder on one stage. In `media_bell` owner, requester and admin are three
people, and two rows are a user's duplicate requests or two users' requests.
In `accounts` three accounts are two owners and a third party, and two codes a user's old
and new one, or two users' equal ones; of sessions, two browsers in one second
share a pair, and a third row and second let it be exchanged and come again, or let a
login fall across a second's turn and share one token only. In
`media_files` one request awaits while every other operation falls into its await; two
files are a location and its successor, or a location and a frame, and either of them
may be the escaped one; two items are what shares them. In
`stage_access` two accounts are the one that leaves and the one whose place must stay,
and four scenes give a gap in the order and an automatic name met twice. In `workers`
every part is small enough to be exhausted; one refused COMMIT for each of a bootstrap's two
is what `MaxRefused` has, and two strings for one address are what a filter can miss.
Symmetry is used only in runs without liveness (`ImplementsLog` and the action
properties are safety properties, invariant under the permutations used); `workers`
and `archive_liveness` have none.

The safety runs let the system stop (`CHECK_DEADLOCK FALSE`): the archive exits,
requests end, and the bounds on messages, rows and performances are reached.

### Fairness

`EventArchive`: each task is weakly fair, since asyncio runs every ready task and
connecting, the poll, the back-off and a database call end; nothing makes the
broker publish, a link break or a signal come. `ShutdownCompletes` therefore has
its exception: a subscriber that waits for a message of a quiet broker does not
see `stop`, and the process then ends only by Docker's SIGKILL.
`RequestTransactions`: weak fairness of what is on the loop and of what a worker
thread computes, strong fairness of `Resume`, because the loop's ready queue is
first come first served. Nothing makes another process release its row:
`EveryRequestEnds` holds because `lock_timeout` makes the blocked statement fail.
`MCWorkers`: weak fairness of the statistics client's reconnection and of its thread
(the MQTT library's loop), and of the steps of a bootstrap that is under way. Nobody need
start another: its container has `restart: "no"` (`app_containers/docker-compose.yaml`),
so `Installed` says of any run that was started, by whoever deploys, that it gets the
services up unless it dies (a refused COMMIT does not keep it from that). Nothing is
assumed of publications, faults, dying runs and deletions, which are bounded.

### Disagreements with the documents

- `stage_isolation`: a test (tests/event_archive_tests/test_writer_and_stage_flow.py:253)
  says a sweep touches only events of its own slug; the slug is an unescaped
  `ILIKE` pattern (`stages/services/stage.py:492`).

- `failed_seed`: the script (scripts/run_bootstrap.py:9-12) says it exits non-zero when a
  fresh install failed to seed, which blocks the dependent services; a COMMIT that fails is
  only logged (`global_config/database.py:80`), `bootstrap` returns True, the script exits
  with 0, and the services start without a Demo Stage. `StartsComplete` says what does hold: all
  of it or nothing, and nothing only there.

Without a run of their own, met while modelling:

- the guide (DEVELOPER_GUIDE.md:593, 732) says every live message is persisted and any
  exception restarts the container; a failing transaction is logged and its message
  dropped (`event_archive/writer.py:83`; `EventLog!Lose`);
- the guide (433, 491) calls a performance a snapshot of the live stream; `saveRecording`
  copies archived rows too, and can be repeated (`performance_config/services/performance.py:207`);
- the guide (470) says the live view is empty after a sweep; a row that the archive commits
  between the sweep's UPDATE and its COMMIT stays (`SweepTakesWhatItCounted` allows it);
- a comment (`stages/services/stage.py:686`) says a strict request is approved only by the
  owner's answer, which lights the requester's bell; `saveMedia` with the requester on its
  list approves it silently (`assets/services/asset.py:345`);
- a comment (`files/video_poster.py:94-95`) says that half a poster is replaced by the next
  run; the check at line 77 passes it by (`HasPoster`);
- a comment of `create_email` says that listed support admins are removed; in a mail of the
  studio one listed as To stays there and comes in Bcc too (`Split`). A system mail whose
  subject is the welcome's loses its Bcc list.

## 4. What is proved

For every value of the constants that the ASSUMEs admit, with no bound on
messages, writers, requests, rows or the length of a timeline.

**EventArchiveProofs.** `Typed` (the type invariant, and that a writer or the
subscriber has an item exactly where its code has one) is inductive and gives
`TypeCorrect`, `JoinIsExact` and `AtMostOneStranded` with an invariant each. For
`StoredAtMostOnce` the property is far from inductive: `OneWay` says that a
message is in at most one of the places it passes through (inbox, subscriber's
hand, queue, a writer), once in each, only if it was published, and stored only
when it has left the last. For `ReplayInOrder`, `InOrder` says that what has been
stamped was published before anything still in the inbox, and that stamps grow
with publication over everything accepted: queue, hands and table together,
so that overtaking writers cannot disturb it. `ArchiveImplementsLog` is the refinement:
what is pending in the log is what is worth storing and on its way, so `Publish` is a
publication and `WriterCommit` a storing; every other step, a crash or a broken link
included, can only take messages out of the hands that hold them: `Lose`, or a stutter.

**RequestTransactionsProofs.** The invariant is a ledger (`Books`): from the
position of a request alone it says which writes of the mutation under way are
pending (those after the last own commit) and which are saved, that an answered
mutation is saved wholly or up to one of its own commits (wholly after an error only where the
connection broke in the COMMIT), and that pending work and
row locks exist only for the request on the loop. `Disciplined` is used in one place:
at an await the ledger leaves nothing pending. `LocksStayOnTheLoop`,
`AnswersAreTrue` and `UnitsAreAtomic` follow.

**MediaLibraryProofs.** `Typed` adds to the tables' types that ids are bounded, so that a
new row's id, one above the greatest, exists and is its own (`TypeCorrect`). `NothingDangles`
needs one fact beside it: the canonical admin exists, since that account inherits what a
deleted user leaves (`ReferencesHold`). From both, one step at a time: `PlacesAreKept` and
`ExitsAreKept` go by what a step may do to the assignments (`StepsByLinks`: it loses some, or
is one of five that write them), the bell's two by what it may do to the permissions
(`StepsByUsages`). The place of an item on a stage is its least id there:
`PlacesAreKept` shows that what `sync_asset_assignments` and a substitution leave has that
id, and what they add a greater one. For `PlaceholderStandsIn`, of the visual items that
go there is a first in the order in which they are gone through (`FirstVisual`); its rows
become the placeholder's unless the placeholder was there before (`TakesOver`).

**StageEventsProofs.** `Sound` adds to the tables' types that ids of rows and performances
come from their sequences, once each, and what is true of a transaction between its
statements: a sweep's performance is nobody's yet, what it counted is still live and what
it has written stands for live rows (`SweepHolds`); a recording's copies have ids that no
row has (`SaveHolds`). It is inductive because mutations exclude each other and the
archive only adds live rows meanwhile. `TablesAreSound` follows from it, and from it and
one step `OnlySweepMoves`, `SnapshotsAreFrozen` and `SweepTakesItsCount`: six changes of
the rows have to be looked at (`StepsByRows`).

**MediaFilesProofs.** `Sound` says what a request holds over its await: an upload, a file on
disk that nobody was told of, no two the same one; an update, columns of a row whose
locations clients were told of, the location among them only if it differs from what was read.
With that an upload's file is nobody's while it is written, which gives `UploadIsWhole`
(`FilesAreKept`), and what an update flushes never names the place it started from
(`AwaitsAreHarmless`). `FrameKept` needs what `Left` leaves of a list: a location that
is in it once, and not escaped, is not in what is left (`LeftRows`); of other frames only an
escaped one that no item is at is unlinked.

**AccountsProofs.** `AccountsHold` lacks one thing: an account that is neither active nor
was ever deactivated has had no more mails than COMMITs were refused (`ToldOnly`), which is
why an approval's mail is its first or follows a refusal. For `SessionsAreKept` the ids and
logins of the rows have a bound and no row is of a second to come (`RowsKept`), so a new row's id is its
own. `NoPairRevives`: tokens are only issued for the present second or one that comes during
the step. `OthersDoNotLogOut`: rows go with their account, by a logout with their access token,
or by a refresh with their refresh token (`RowsGoFor`); a browser whose rows all go in one step
has its access token, or every such row's refresh token, in the hand that did it.

**StageAccessProofs.** The types and owners are inductive. `StepOnRow` says what a step
does to a stage that outlives it; that a list with one account more or less gives
everybody else the same place (`SamePlaces`) leaves saves as the only way to change one.
Of scenes the type, distinct ids and a finite table are inductive (`ScenesHeld`), so that the
order of a new scene is a number above the count; `ScenesAreKept` is then a matter of one step.

**WorkersProofs.** Six theorems about five of the parts, an invariant for each.

- Timelines: the last new time is the last old time less `removal`; with it each turn of
  the loop keeps the pauses and the order.
- Posters (`PostersSound`): an extractor that looked for a poster, or is writing it, is not the one
  that made the whole one, so whoever breaks it looked before it was there.
- Payloads (`ShowsSound`): at every turn of the loop, and not only at its end, a payload shows
  a file of a deleted image only if a survivor or a deleted sound or video has it, or it writes
  the name escaped. A frame that is in use but not found is replaced (`OthersHave`).
- The bootstrap (`SeedSound`): what a run has flushed is not committed yet; until the services are up
  nothing but the admin and the placeholder is committed, and a run of the seed has done all
  that it has no more to see to, so that its COMMIT is whole, and a refused one leaves nothing
  (`CommitKeeps`, `RefusedKeeps`).
- Mails (`MailsSound`): the default Bcc list stays empty, and what is sent is composed of
  the job alone. `TakenOf` counts each string in the headers of a mail, `ByAddress` goes from strings to
  the addresses they are read as, for any `Reads`. Lists may be of any length, not only `MaxListed`.

What is assumed of constants: that sets the code takes from the database are finite where it
counts or goes through them (`Assigned`, `Unassigned`, lists of users), that names of different
kinds differ, that bounds are numbers, and what the code's configuration gives (`Admins`,
`Canonical`, `Placeholder` exist; the sender and support are strings that are not empty; every
string is read as one address or none; every payload has its set of names that it writes escaped; programs keep the rule of
no pending write at an await).

Proofs changed the models where they were wrong: `Left` had taken all equal names out of a list
of files, where the code takes one. The inductive invariants of `MediaFilesProofs` and
`WorkersProofs` were model-checked, on the instances of their runs, before they were proved.

Only model-checked: the liveness properties `QueuedIsDecided`, `ShutdownCompletes`,
`EveryRequestEnds` and `Installed`, and `RowsFollow`, which is a liveness property too:
TLAPS 1.4.5 has no rules for fairness. `SweepIsolation` and `FailedSeedBlocks` are
violated. Every other
property of a run is a theorem.

## 5. Not modelled

- *Archive*: the heartbeat only logs. The clock hands out every stamp once and never goes
  back; a receiver whose clock is set back would stamp later messages with earlier times, and
  `ReplayOrder` says nothing of that case.
- *Stage events*: reads. A client that polls with `id > cursor`
  (`stages/services/stage_operation.py:99`) can miss a row that is committed late with a low
  id; a renamed stage's performances keep rows of the old slug, which its event list does not
  find (`stages/services/stage.py:336`); a stage that takes a deleted one's slug starts with
  its live rows (408); the order of replays is asked of the database (450). These follow from
  the states of the model, but no property is stated of what a reader sees.
- *Timeline compression*: the conversion between seconds and milliseconds
  (`performance_config/timeline_trim.py:20` tells them apart by size), and rounding.
- *Sessions*: the lifetime of a refresh token, which depends on the role: no code asks for it.
- *Media*: names, tags, licences, size limits and file types; the dormant flag.
- *Stages*: JSON that is a list of other things than groups, which `resolve_permission`
  reads a little differently from JSON that is no list (`Odd`); the status toggle,
  the last access and the lists of stages; descriptions and covers.
- *Statistics*: the rows of connections and the counter that saves every tenth live client.
- *Installation*: demo users, their grants and the system configuration.
- *Mail*: bodies, attachments, the SMTP dialogue.
- *Left out for good*: RTMP authentication (a decision on a signature and its expiry),
  upload limits (a comparison of numbers; by its docstring `effective_upload_limit` is what
  a user "can actually upload", but it returns a user's own cap even when that exceeds
  the server's maximum, `users/services/upload_limit.py:70`), payments (calls
  to Stripe), licences and options (single rows), GraphQL parsing and validation,
  migrations and maintenance scripts: they keep no state of the running system or are
  not this repository's code.

What would come next: a reader in `StageEvents`; an abstract specification for the sessions
and for the files, as `EventLog` is for the archive, with the refinements proved.
