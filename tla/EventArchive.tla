----------------------------- MODULE EventArchive -----------------------------
(***************************************************************************)
(* The event_archive process: one MQTT subscriber, a bounded asyncio.Queue *)
(* and a few Postgres writers in one TaskGroup, with its graceful shutdown *)
(* (SIGTERM), broker disconnections, database errors and process crashes.  *)
(* One action is what a task does between two awaits.                      *)
(***************************************************************************)
EXTENDS Integers, Sequences, FiniteSets

CONSTANTS
  Messages,        \* the messages the broker may publish, each once
  Retained,        \* those it delivers with the retain flag
  Statistics,      \* those whose topic ends with "statistics"
  Undecodable,     \* those whose payload is not valid JSON
  Writers,         \* EVENT_ARCHIVE_WRITERS writer tasks
  Capacity,        \* EVENT_ARCHIVE_QUEUE_CAPACITY
  NoItem,          \* an empty hand
  MaxLinkFaults,   \* bound: broken or refused connections
  MaxDbFaults,     \* bound: failing transactions
  MaxCrashes       \* bound: crashes of the process

ASSUME ArchiveAssumption ==
  /\ Retained \subseteq Messages
  /\ Statistics \subseteq Messages
  /\ Undecodable \subseteq Messages
  /\ Capacity \in Nat \ {0}
  /\ MaxLinkFaults \in Nat /\ MaxDbFaults \in Nat /\ MaxCrashes \in Nat
  /\ Writers # {}
  /\ IsFiniteSet(Writers)
  /\ NoItem \notin [msg : Messages, ts : Nat]

VARIABLES
  published,   \* broker: the messages it has published, in order
  inbox,       \* aiomqtt: messages delivered to the client, not yet iterated
  link,        \* the MQTT connection: "down", "up", "broken"
  sub,         \* subscribe_loop: "loop", "connect", "recv", "put", "backoff", "done"
  held,        \* the item the subscriber waits to put, or NoItem
  queue,       \* asyncio.Queue(maxsize=Capacity)
  unfinished,  \* the queue's unfinished-task count, what join() waits for
  wpc,         \* writer_loop of each writer: "idle", "insert", "commit", "settle", "done"
  item,        \* the item each writer has taken, or NoItem
  rowid,       \* the id its INSERT drew from the sequence (0 before)
  main,        \* main(): "serve", "join", "leave", "exit"
  events,      \* committed rows of the events table
  nextId,      \* the sequence behind events.id
  clock,       \* time.time(), as a count of the stamps handed out
  linkFaults, dbFaults, crashes     \* how much of each bound is used

brokerVars == <<published, inbox, link, linkFaults>>
subVars    == <<sub, held, clock>>
queueVars  == <<queue, unfinished>>
writerVars == <<wpc, item, rowid>>
tableVars  == <<events, nextId, dbFaults>>
ctlVars    == <<main, crashes>>
vars == <<brokerVars, subVars, queueVars, writerVars, tableVars, ctlVars>>

Item == [msg : Messages, ts : Nat]
Row  == [id : Nat, msg : Messages, ts : Nat]
RangeOf(s) == {s[i] : i \in DOMAIN s}
stop == main # "serve"    \* stop.is_set(): main() waits for nothing else
Skipped == Retained \cup Statistics

Init ==
  /\ published = <<>> /\ inbox = <<>> /\ link = "down" /\ linkFaults = 0
  /\ sub = "loop" /\ held = NoItem /\ clock = 0
  /\ queue = <<>> /\ unfinished = 0
  /\ wpc = [w \in Writers |-> "idle"]
  /\ item = [w \in Writers |-> NoItem]
  /\ rowid = [w \in Writers |-> 0]
  /\ events = {} /\ nextId = 1 /\ dbFaults = 0
  /\ main = "serve" /\ crashes = 0
-------------------------------------------------------------------------------
\* The broker publishes m; only a subscribed client (clean session, QoS 0) gets it.
Publish(m) ==
  /\ m \notin RangeOf(published)
  /\ published' = Append(published, m)
  /\ inbox' = IF link = "up" THEN Append(inbox, m) ELSE inbox
  /\ UNCHANGED <<link, linkFaults, subVars, queueVars, writerVars, tableVars, ctlVars>>

\* The connection dies under the subscriber, which learns of it in "recv".
LinkBreak ==
  /\ link = "up"
  /\ linkFaults < MaxLinkFaults
  /\ link' = "broken"
  /\ linkFaults' = linkFaults + 1
  /\ UNCHANGED <<published, inbox, subVars, queueVars, writerVars, tableVars, ctlVars>>

(***************************************************************************)
(* subscribe_loop                                                          *)
(***************************************************************************)
\* while not stop.is_set()
SubLoop ==
  /\ sub = "loop"
  /\ sub' = IF stop THEN "done" ELSE "connect"
  /\ UNCHANGED <<brokerVars, held, clock, queueVars, writerVars, tableVars, ctlVars>>

\* aiomqtt.Client.__aenter__ and client.subscribe succeed, stop set meanwhile or not.
SubConnect ==
  /\ sub = "connect"
  /\ sub' = "recv"
  /\ link' = "up"
  /\ UNCHANGED <<published, inbox, linkFaults, held, clock, queueVars, writerVars,
                 tableVars, ctlVars>>

\* Leaving the Client context, by break or by an exception: what aiomqtt still
\* buffers is gone. With stop set the loop ends, else it waits RECONNECT_DELAY.
LeaveClient ==
  /\ link' = "down"
  /\ inbox' = <<>>
  /\ sub' = IF stop THEN "done" ELSE "backoff"

\* The connection is refused.
SubRefused ==
  /\ sub = "connect"
  /\ linkFaults < MaxLinkFaults
  /\ linkFaults' = linkFaults + 1
  /\ LeaveClient
  /\ UNCHANGED <<published, held, clock, queueVars, writerVars, tableVars, ctlVars>>

\* client.messages raises MqttError on a broken connection; messages already
\* buffered are iterated first or dropped, whichever future completes first.
SubError ==
  /\ sub = "recv"
  /\ link = "broken"
  /\ LeaveClient
  /\ UNCHANGED <<published, linkFaults, held, clock, queueVars, writerVars, tableVars, ctlVars>>

\* wait_for(stop.wait(), RECONNECT_DELAY) ends, by the event or by the timeout.
SubBackoff ==
  /\ sub = "backoff"
  /\ sub' = "loop"
  /\ UNCHANGED <<brokerVars, held, clock, queueVars, writerVars, tableVars, ctlVars>>

\* A message arrives after stop: break, dropping it.
SubBreak ==
  /\ sub = "recv" /\ inbox # <<>>
  /\ stop
  /\ LeaveClient
  /\ UNCHANGED <<published, linkFaults, held, clock, queueVars, writerVars, tableVars, ctlVars>>

\* Retained and statistics messages are skipped.
SubSkip ==
  /\ sub = "recv" /\ inbox # <<>>
  /\ ~stop
  /\ Head(inbox) \in Skipped
  /\ inbox' = Tail(inbox)
  /\ UNCHANGED <<published, link, linkFaults, subVars, queueVars, writerVars, tableVars, ctlVars>>

Put(it) == /\ queue' = Append(queue, it)
           /\ unfinished' = unfinished + 1

\* Mutant: a queue without maxsize.
SubAcceptUnbounded ==
  /\ sub = "recv" /\ inbox # <<>>
  /\ ~stop
  /\ Head(inbox) \notin Skipped
  /\ inbox' = Tail(inbox)
  /\ clock' = clock + 1
  /\ Put([msg |-> Head(inbox), ts |-> clock])
  /\ UNCHANGED <<published, link, linkFaults, sub, held, writerVars, tableVars, ctlVars>>

\* Mutant: retained and statistics messages are archived like any other.
SubAcceptAll ==
  /\ sub = "recv" /\ inbox # <<>>
  /\ ~stop
  /\ Len(queue) < Capacity
  /\ inbox' = Tail(inbox)
  /\ clock' = clock + 1
  /\ Put([msg |-> Head(inbox), ts |-> clock])
  /\ UNCHANGED <<published, link, linkFaults, sub, held, writerVars, tableVars, ctlVars>>

\* The message is stamped and put at once, or the subscriber waits for a slot.
SubAccept ==
  /\ sub = "recv" /\ inbox # <<>>
  /\ ~stop
  /\ Head(inbox) \notin Skipped
  /\ inbox' = Tail(inbox)
  /\ clock' = clock + 1
  /\ LET it == [msg |-> Head(inbox), ts |-> clock]
     IN \/ /\ Len(queue) < Capacity
           /\ Put(it)
           /\ UNCHANGED <<sub, held>>
        \/ /\ Len(queue) = Capacity
           /\ sub' = "put"
           /\ held' = it
           /\ UNCHANGED queueVars
  /\ UNCHANGED <<published, link, linkFaults, writerVars, tableVars, ctlVars>>

\* queue.put() resumes: stop is not looked at again before the item is queued.
SubPut ==
  /\ sub = "put"
  /\ Len(queue) < Capacity
  /\ Put(held)
  /\ held' = NoItem
  /\ sub' = "recv"
  /\ UNCHANGED <<brokerVars, clock, writerVars, tableVars, ctlVars>>
-------------------------------------------------------------------------------
(***************************************************************************)
(* writer_loop. "idle" is the loop's head and the one-second poll of       *)
(* queue.get(), which returns to the head with nothing lost.               *)
(***************************************************************************)
\* Mutant: an undecodable payload is dropped without task_done().
WriterTakeUndone(w) ==
  /\ wpc[w] = "idle"
  /\ queue # <<>>
  /\ queue' = Tail(queue)
  /\ IF Head(queue).msg \in Undecodable
       THEN UNCHANGED <<wpc, item>>
       ELSE /\ item' = [item EXCEPT ![w] = Head(queue)]
            /\ wpc' = [wpc EXCEPT ![w] = "insert"]
  /\ UNCHANGED <<unfinished, rowid, brokerVars, subVars, tableVars, ctlVars>>

\* An undecodable payload is logged and dropped without an await in between.
WriterTake(w) ==
  /\ wpc[w] = "idle"
  /\ queue # <<>>
  /\ queue' = Tail(queue)
  /\ \/ /\ Head(queue).msg \in Undecodable
        /\ unfinished' = unfinished - 1
        /\ UNCHANGED <<wpc, item>>
     \/ /\ Head(queue).msg \notin Undecodable
        /\ item' = [item EXCEPT ![w] = Head(queue)]
        /\ wpc' = [wpc EXCEPT ![w] = "insert"]
        /\ UNCHANGED unfinished
  /\ UNCHANGED <<rowid, brokerVars, subVars, tableVars, ctlVars>>

\* The INSERT of the transaction runs: the row has its id, nobody sees it yet.
WriterInsert(w) ==
  /\ wpc[w] = "insert"
  /\ rowid' = [rowid EXCEPT ![w] = nextId]
  /\ nextId' = nextId + 1
  /\ wpc' = [wpc EXCEPT ![w] = "commit"]
  /\ UNCHANGED <<item, events, dbFaults, brokerVars, subVars, queueVars, ctlVars>>

\* Mutant: the row is stamped by its writer, when the INSERT runs.
RowOfStampedLate(w) == [id |-> rowid[w], msg |-> item[w].msg, ts |-> rowid[w]]

\* The row that writer w has inserted and not yet committed.
RowOf(w) == [id |-> rowid[w], msg |-> item[w].msg, ts |-> item[w].ts]

\* Mutant: an error that hides a COMMIT which took effect is retried.
WriterCommitRetried(w) ==
  /\ wpc[w] = "commit"
  /\ events' = events \cup {RowOf(w)}
  /\ \E next \in {"insert", "settle"} : wpc' = [wpc EXCEPT ![w] = next]
  /\ UNCHANGED <<item, rowid, nextId, dbFaults, brokerVars, subVars, queueVars, ctlVars>>

\* The COMMIT of session.begin() takes effect in the database.
WriterCommit(w) ==
  /\ wpc[w] = "commit"
  /\ events' = events \cup {RowOf(w)}
  /\ wpc' = [wpc EXCEPT ![w] = "settle"]
  /\ UNCHANGED <<item, rowid, nextId, dbFaults, brokerVars, subVars, queueVars, ctlVars>>

\* The transaction fails and is rolled back: logged, never retried. An error
\* reported after the COMMIT took effect is WriterCommit with a log line.
WriterFail(w) ==
  /\ wpc[w] \in {"insert", "commit"}
  /\ dbFaults < MaxDbFaults
  /\ dbFaults' = dbFaults + 1
  /\ wpc' = [wpc EXCEPT ![w] = "settle"]
  /\ UNCHANGED <<item, rowid, events, nextId, brokerVars, subVars, queueVars, ctlVars>>

\* finally: queue.task_done()
WriterSettle(w) ==
  /\ wpc[w] = "settle"
  /\ unfinished' = unfinished - 1
  /\ wpc' = [wpc EXCEPT ![w] = "idle"]
  /\ item' = [item EXCEPT ![w] = NoItem]
  /\ rowid' = [rowid EXCEPT ![w] = 0]
  /\ UNCHANGED <<queue, brokerVars, subVars, tableVars, ctlVars>>

\* Mutant: while not stop.is_set()
WriterExitAtOnce(w) ==
  /\ wpc[w] = "idle"
  /\ stop
  /\ wpc' = [wpc EXCEPT ![w] = "done"]
  /\ UNCHANGED <<item, rowid, brokerVars, subVars, queueVars, tableVars, ctlVars>>

\* Mutant: while not queue.empty()
WriterExitIdle(w) ==
  /\ wpc[w] = "idle"
  /\ queue = <<>>
  /\ wpc' = [wpc EXCEPT ![w] = "done"]
  /\ UNCHANGED <<item, rowid, brokerVars, subVars, queueVars, tableVars, ctlVars>>

\* while not (stop.is_set() and queue.empty())
WriterExit(w) ==
  /\ wpc[w] = "idle"
  /\ stop
  /\ queue = <<>>
  /\ wpc' = [wpc EXCEPT ![w] = "done"]
  /\ UNCHANGED <<item, rowid, brokerVars, subVars, queueVars, tableVars, ctlVars>>
-------------------------------------------------------------------------------
(***************************************************************************)
(* main                                                                    *)
(***************************************************************************)
\* SIGTERM or SIGINT: loop.add_signal_handler(sig, stop.set)
Signal ==
  /\ main = "serve"
  /\ main' = "join"
  /\ UNCHANGED <<crashes, brokerVars, subVars, queueVars, writerVars, tableVars>>

\* queue.join() returns: every queued item was answered with task_done().
JoinReturns ==
  /\ main = "join"
  /\ unfinished = 0
  /\ main' = "leave"
  /\ UNCHANGED <<crashes, brokerVars, subVars, queueVars, writerVars, tableVars>>

\* Mutant: queue.join() without a timeout.
JoinForever == FALSE /\ UNCHANGED vars

\* Ten seconds pass with items still unfinished: a warning, and on it goes.
JoinTimesOut ==
  /\ main = "join"
  /\ unfinished # 0
  /\ main' = "leave"
  /\ UNCHANGED <<crashes, brokerVars, subVars, queueVars, writerVars, tableVars>>

AllWritersDone == \A w \in Writers : wpc[w] = "done"

\* The TaskGroup has waited for every task.
Exit ==
  /\ main = "leave"
  /\ sub = "done"
  /\ AllWritersDone
  /\ main' = "exit"
  /\ UNCHANGED <<crashes, brokerVars, subVars, queueVars, writerVars, tableVars>>

\* The process dies and Docker restarts it: every task starts over, open
\* transactions are rolled back, and only the table and its sequence remain.
Crash ==
  /\ main # "exit"
  /\ crashes < MaxCrashes
  /\ crashes' = crashes + 1
  /\ link' = "down" /\ inbox' = <<>>
  /\ sub' = "loop" /\ held' = NoItem
  /\ queue' = <<>> /\ unfinished' = 0
  /\ wpc' = [w \in Writers |-> "idle"]
  /\ item' = [w \in Writers |-> NoItem]
  /\ rowid' = [w \in Writers |-> 0]
  /\ main' = "serve"
  /\ UNCHANGED <<published, linkFaults, clock, tableVars>>

Broker == LinkBreak \/ \E m \in Messages : Publish(m)

Subscriber == \/ SubLoop \/ SubConnect \/ SubRefused \/ SubError \/ SubBackoff
              \/ SubBreak \/ SubSkip \/ SubAccept \/ SubPut

Writer(w) == \/ WriterTake(w) \/ WriterInsert(w) \/ WriterCommit(w)
             \/ WriterFail(w) \/ WriterSettle(w) \/ WriterExit(w)

Main == Signal \/ JoinReturns \/ JoinTimesOut \/ Exit

Next == Broker \/ Subscriber \/ Main \/ Crash \/ \E w \in Writers : Writer(w)

Spec == Init /\ [][Next]_vars

\* asyncio runs every ready task, and connecting, the poll of queue.get(), the
\* back-off and a database call all end: each task is weakly fair. Nothing makes
\* the broker publish, the connection break, or a signal arrive.
Fairness == /\ WF_vars(Subscriber)
            /\ \A w \in Writers : WF_vars(Writer(w))
            /\ WF_vars(JoinReturns \/ JoinTimesOut \/ Exit)

FairSpec == Spec /\ Fairness
-------------------------------------------------------------------------------
\* Every variable keeps its type and the queue its bound, whatever is lost,
\* retried or restarted.
TypeOK ==
  /\ published \in Seq(Messages) /\ inbox \in Seq(Messages)
  /\ link \in {"down", "up", "broken"}
  /\ sub \in {"loop", "connect", "recv", "put", "backoff", "done"}
  /\ held \in Item \cup {NoItem}
  /\ queue \in Seq(Item) /\ Len(queue) <= Capacity
  /\ unfinished \in Int
  /\ wpc \in [Writers -> {"idle", "insert", "commit", "settle", "done"}]
  /\ item \in [Writers -> Item \cup {NoItem}]
  /\ rowid \in [Writers -> Nat]
  /\ main \in {"serve", "join", "leave", "exit"}
  /\ events \subseteq Row /\ nextId \in Nat \ {0} /\ clock \in Nat
  /\ linkFaults \in Nat /\ dbFaults \in Nat /\ crashes \in Nat

HeldItems == IF held = NoItem THEN {} ELSE {held}
Holding == {w \in Writers : item[w] # NoItem}

\* Where a message that is not yet decided can be.
InHand(m) == \/ m \in RangeOf(inbox)
             \/ \E it \in HeldItems \cup RangeOf(queue) : it.msg = m
             \/ \E w \in Holding : item[w].msg = m /\ wpc[w] # "settle"

Stored(m) == \E r \in events : r.msg = m

\* A published message is stored as at most one row, and a row's id is its own:
\* not through a writer that takes it twice, a reconnection, or a crash between
\* COMMIT and task_done().
AtMostOnce == \A r1, r2 \in events : (r1.msg = r2.msg \/ r1.id = r2.id) => r1 = r2

\* Rows sorted by mqtt_timestamp, as get_event_list sorts them, come in the order
\* the broker published them, though several writers commit them in any order.
ReplayOrder ==
  \A i, j \in DOMAIN published : \A r1, r2 \in events :
     (r1.msg = published[i] /\ r2.msg = published[j] /\ i < j) => r1.ts < r2.ts

\* join() counts what is queued or in a writer's hands, so that it neither hangs
\* on a drained queue nor returns early, and task_done() is never called once too
\* often (which raises, and takes the TaskGroup down).
JoinAccounting == unfinished = Len(queue) + Cardinality(Holding)

\* Once the writers have left, at most one item that the subscriber took from the
\* broker is left behind: the one whose put() was blocked when stop was set.
StrandedAtMostOne == AllWritersDone => Len(queue) + Cardinality(HeldItems) <= 1

\* The archive implements EventLog.
fateOf == [m \in Messages |-> IF Stored(m) THEN "stored"
                              ELSE IF InHand(m) THEN "pending"
                              ELSE IF m \in RangeOf(published) THEN "lost"
                              ELSE "unsent"]

Log == INSTANCE EventLog
         WITH Storable <- Messages \ (Skipped \cup Undecodable), fate <- fateOf

ImplementsLog == Log!Spec

\* A message queued while the service runs is decided: stored or dropped.
QueuedIsDecided ==
  \A m \in Messages :
     (~stop /\ \E it \in RangeOf(queue) : it.msg = m) ~> ~InHand(m)

\* After a signal the process exits, unless the subscriber is left waiting for a
\* message of a quiet broker, which is the one wait that stop does not end.
AwaitsBroker == sub = "recv" /\ inbox = <<>> /\ link = "up"

ShutdownCompletes ==
  stop ~> \/ main = "exit"
          \/ ~stop
          \/ AwaitsBroker /\ AllWritersDone /\ main = "leave"
===============================================================================
