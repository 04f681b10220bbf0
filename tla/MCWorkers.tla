------------------------------- MODULE MCWorkers -------------------------------
(***************************************************************************)
(* Small instances of the workers and scripts beside the API: TimelineTrim *)
(* and, as parts of their own, Statistics, Seeding, VideoPosters, Mails    *)
(* and Placeholders.                                                       *)
(***************************************************************************)
EXTENDS TimelineTrim, TLC

CONSTANTS MaxLength, MaxTime,
          Slugs, MaxPublished, MaxFaults,
          Assigned, Unassigned, Placeholder, MaxDeaths, MaxDeleted, MaxRefused,
          Videos, Extractors, Nobody, MaxLost,
          Ids, Files, Keys, Picture, Payloads, scene, recording, Escaped, EscapedIn,
          pat, help, helpToo, server, spaces, Parts, Addresses, Reads, NoAddress, Blank,
          From, Support, MaxListed

VARIABLES part,
          retained, wire, connected, row, unsaved, faults,
          rows, links, others, disk, run, up, deaths, deleted, refused,
          poster, doing, lost,
          job, msg, sent, default,
          items, shows, doomed, gone

S == INSTANCE Statistics
D == INSTANCE Seeding
V == INSTANCE VideoPosters
M == INSTANCE Mails WITH wire <- sent
H == INSTANCE Placeholders

ASSUME WorkersConstants == D!SeedingAssumption /\ M!MailsAssumption /\ H!PlaceholdersAssumption

MCTimelines == {t \in UNION {[1..n -> 0..MaxTime] : n \in 0..MaxLength} :
                  \A k \in 2..Len(t) : t[k - 1] <= t[k]}
MCPauses == 0..MaxTime
MCSupport == {help}
MCAddresses == {pat, help, server}
MCReads == [x \in Parts |-> CASE x \in Addresses -> x [] x = helpToo -> help [] OTHER -> NoAddress]
MCEscapedIn == scene :> {} @@ recording :> Escaped

statistics == <<retained, wire, connected, row, unsaved, faults>>
seeding == <<rows, links, others, disk, run, up, deaths, deleted, refused>>
posters == <<poster, doing, lost>>
mails == <<job, msg, sent, default>>
payloads == <<items, shows, doomed, gone>>
all == <<part, vars, statistics, seeding, posters, mails, payloads>>

Rest == times = <<>> /\ minPause = 0 /\ out = <<>> /\ removal = 0
NoItems == items = [m \in {} |-> 0] /\ shows = [p \in Payloads |-> {}] /\ doomed = {} /\ gone = {}
MCInit == /\ S!Init /\ D!Init /\ V!Init /\ M!Init
          /\ \/ part = "trim" /\ Init /\ NoItems
             \/ part \in {"statistics", "seeding", "posters", "mails"} /\ Rest /\ NoItems
             \/ part = "payloads" /\ Rest /\ H!Init

Trim == part = "trim" /\ Next /\ UNCHANGED <<part, statistics, seeding, posters, mails, payloads>>
Count(A) == part = "statistics" /\ A /\ UNCHANGED <<part, vars, seeding, posters, mails, payloads>>
Seed(A) == part = "seeding" /\ A /\ UNCHANGED <<part, vars, statistics, posters, mails, payloads>>
Frame == part = "posters" /\ V!Next /\ UNCHANGED <<part, vars, statistics, seeding, mails, payloads>>
Mail == part = "mails" /\ M!Next /\ UNCHANGED <<part, vars, statistics, seeding, posters, payloads>>
Show == part = "payloads" /\ H!Next /\ UNCHANGED <<part, vars, statistics, seeding, posters, mails>>

MCNext == Trim \/ Count(S!Next) \/ Seed(D!Next) \/ Frame \/ Mail \/ Show

\* The worker's client reconnects and takes its messages; a run of the bootstrap goes on
\* while nothing kills it, and nobody need start another.
MCSpec == /\ MCInit /\ [][MCNext]_all
          /\ WF_all(Count(S!Connect)) /\ WF_all(Count(S!Record))
          /\ WF_all(Seed(D!Step)) /\ WF_all(Seed(D!Commit))

\* The properties of the parts, stated there.
RowsFollow == S!RowsFollow
SeededWhole == D!SeededWhole
Installed == D!Installed
FailedSeedBlocks == D!FailedSeedBlocks
WholePostersStay == V!WholePostersStay
MailsReachTheirOwn == M!MailsReachTheirOwn
PayloadsHold == H!PayloadsHold
===============================================================================
