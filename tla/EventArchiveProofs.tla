-------------------------- MODULE EventArchiveProofs --------------------------
(***************************************************************************)
(* Proofs about EventArchive, for any messages, writers, queue capacity    *)
(* and number of faults.                                                   *)
(***************************************************************************)
EXTENDS EventArchive, FiniteSetTheorems, TLAPS

\* What a task has in its hand follows from where it is in its loop.
HandsOK == /\ sub = "put" <=> held # NoItem
           /\ \A w \in Writers :
                wpc[w] \in {"insert", "commit", "settle"} <=> item[w] # NoItem

Typed == TypeOK /\ HandsOK

LEMMA ItemIsNotNothing == \A it \in Item : it # NoItem
  BY ArchiveAssumption DEF Item

\* Every variable keeps its type, the queue its bound, and every hand its item.
LEMMA TypedInit == Init => Typed
  BY ArchiveAssumption DEF Init, Typed, TypeOK, HandsOK

LEMMA TypedStep == Typed /\ [Next]_vars => Typed'
<1> SUFFICES ASSUME Typed, [Next]_vars PROVE Typed'
  OBVIOUS
<1> USE DEF Typed, TypeOK, HandsOK,
            brokerVars, subVars, queueVars, writerVars, tableVars, ctlVars
<1>1. ASSUME NEW m \in Messages, Publish(m) PROVE Typed'
  BY <1>1 DEF Publish
<1>2. CASE LinkBreak
  BY <1>2 DEF LinkBreak
<1>3. CASE SubLoop
  BY <1>3 DEF SubLoop
<1>4. CASE SubConnect
  BY <1>4 DEF SubConnect
<1>5. CASE SubRefused
  BY <1>5 DEF SubRefused, LeaveClient
<1>6. CASE SubError
  BY <1>6 DEF SubError, LeaveClient
<1>7. CASE SubBackoff
  BY <1>7 DEF SubBackoff
<1>8. CASE SubBreak
  BY <1>8 DEF SubBreak, LeaveClient
<1>9. CASE SubSkip
  BY <1>9 DEF SubSkip
<1>10. CASE SubAccept
  <2> DEFINE it == [msg |-> Head(inbox), ts |-> clock]
  <2>1. Head(inbox) \in Messages /\ Tail(inbox) \in Seq(Messages)
    BY <1>10 DEF SubAccept
  <2>2. it \in Item /\ it # NoItem
    BY <2>1, ItemIsNotNothing DEF Item
  <2>3. CASE Len(queue) < Capacity /\ Put(it) /\ UNCHANGED <<sub, held>>
    <3>1. queue' \in Seq(Item) /\ Len(queue') <= Capacity
      BY <2>2, <2>3, ArchiveAssumption DEF Put
    <3> QED
      BY <1>10, <2>1, <2>3, <3>1 DEF SubAccept, Put
  <2>4. CASE Len(queue) = Capacity /\ sub' = "put" /\ held' = it /\ UNCHANGED queueVars
    BY <1>10, <2>1, <2>2, <2>4 DEF SubAccept
  <2> QED
    BY <1>10, <2>3, <2>4 DEF SubAccept
<1>11. CASE SubPut
  <2>1. held \in Item /\ Len(queue) < Capacity
    BY <1>11 DEF SubPut
  <2>2. queue' \in Seq(Item) /\ Len(queue') <= Capacity
    BY <1>11, <2>1, ArchiveAssumption DEF SubPut, Put
  <2> QED
    BY <1>11, <2>2 DEF SubPut, Put
<1>12. ASSUME NEW w \in Writers, WriterTake(w) PROVE Typed'
  <2>1. /\ Head(queue) \in Item /\ Head(queue) # NoItem
        /\ Tail(queue) \in Seq(Item) /\ Len(Tail(queue)) <= Capacity
    BY <1>12, ItemIsNotNothing, ArchiveAssumption DEF WriterTake
  <2>2. CASE Head(queue).msg \in Undecodable
    BY <1>12, <2>1, <2>2 DEF WriterTake
  <2>3. CASE Head(queue).msg \notin Undecodable
    BY <1>12, <2>1, <2>3 DEF WriterTake
  <2> QED
    BY <2>2, <2>3
<1>13. ASSUME NEW w \in Writers, WriterInsert(w) PROVE Typed'
  BY <1>13 DEF WriterInsert
<1>14. ASSUME NEW w \in Writers, WriterCommit(w) PROVE Typed'
  <2>1. RowOf(w) \in Row
    BY <1>14 DEF WriterCommit, RowOf, Row, Item
  <2> QED
    BY <1>14, <2>1 DEF WriterCommit
<1>15. ASSUME NEW w \in Writers, WriterFail(w) PROVE Typed'
  BY <1>15 DEF WriterFail
<1>16. ASSUME NEW w \in Writers, WriterSettle(w) PROVE Typed'
  BY <1>16 DEF WriterSettle
<1>17. ASSUME NEW w \in Writers, WriterExit(w) PROVE Typed'
  BY <1>17 DEF WriterExit
<1>18. CASE Signal
  BY <1>18 DEF Signal
<1>19. CASE JoinReturns
  BY <1>19 DEF JoinReturns
<1>20. CASE JoinTimesOut
  BY <1>20 DEF JoinTimesOut
<1>21. CASE Exit
  BY <1>21 DEF Exit
<1>22. CASE Crash
  BY <1>22, ArchiveAssumption DEF Crash
<1>23. CASE UNCHANGED vars
  BY <1>23 DEF vars
<1> QED
  BY <1>1, <1>2, <1>3, <1>4, <1>5, <1>6, <1>7, <1>8, <1>9, <1>10, <1>11, <1>12,
     <1>13, <1>14, <1>15, <1>16, <1>17, <1>18, <1>19, <1>20, <1>21, <1>22, <1>23
  DEF Next, Broker, Subscriber, Writer, Main

THEOREM TypeCorrect == Spec => []TypeOK
<1>1. Typed => TypeOK
  BY DEF Typed
<1> QED
  BY <1>1, TypedInit, TypedStep, PTL DEF Spec
-------------------------------------------------------------------------------
(***************************************************************************)
(* StrandedAtMostOne.  A writer leaves only when stop is set and the queue *)
(* is empty; from then on the one item that can still be put is the one    *)
(* the subscriber was holding, so the bound is inductive as soon as some   *)
(* writer has left, rather than all of them.                               *)
(***************************************************************************)
SomeWriterDone == \E w \in Writers : wpc[w] = "done"

AfterDrain == SomeWriterDone => stop /\ Len(queue) + Cardinality(HeldItems) <= 1

LEMMA HeldCount == /\ held = NoItem => Cardinality(HeldItems) = 0
                   /\ held # NoItem => Cardinality(HeldItems) = 1
  BY FS_EmptySet, FS_Singleton DEF HeldItems

LEMMA HeldCountNext == /\ held' = NoItem => Cardinality(HeldItems') = 0
                       /\ held' # NoItem => Cardinality(HeldItems') = 1
  BY FS_EmptySet, FS_Singleton DEF HeldItems

LEMMA AfterDrainStep == Typed /\ AfterDrain /\ [Next]_vars => AfterDrain'
<1> SUFFICES ASSUME Typed, AfterDrain, [Next]_vars, SomeWriterDone'
             PROVE  stop' /\ Len(queue') + Cardinality(HeldItems') <= 1
  BY DEF AfterDrain
<1> USE HeldCount, HeldCountNext
    DEF Typed, TypeOK, HandsOK, AfterDrain, SomeWriterDone, stop,
        brokerVars, subVars, queueVars, writerVars, tableVars, ctlVars
<1>1. CASE Broker
  BY <1>1 DEF Broker, LinkBreak, Publish
<1>2. CASE SubLoop \/ SubConnect \/ SubRefused \/ SubError \/ SubBackoff \/ SubBreak \/ SubSkip
  BY <1>2 DEF SubLoop, SubConnect, SubRefused, SubError, SubBackoff, SubBreak, SubSkip,
              LeaveClient
<1>3. CASE SubAccept
  BY <1>3 DEF SubAccept
<1>4. CASE SubPut
  <2>1. Len(queue') = Len(queue) + 1
    BY <1>4 DEF SubPut, Put
  <2> QED
    BY <1>4, <2>1 DEF SubPut
<1>5. ASSUME NEW w \in Writers, WriterTake(w)
      PROVE  stop' /\ Len(queue') + Cardinality(HeldItems') <= 1
  <2>1. Len(queue') = Len(queue) - 1
    BY <1>5 DEF WriterTake
  <2> QED
    BY <1>5, <2>1 DEF WriterTake
<1>6. ASSUME NEW w \in Writers,
             WriterInsert(w) \/ WriterCommit(w) \/ WriterFail(w) \/ WriterSettle(w)
      PROVE  stop' /\ Len(queue') + Cardinality(HeldItems') <= 1
  BY <1>6 DEF WriterInsert, WriterCommit, WriterFail, WriterSettle
<1>7. ASSUME NEW w \in Writers, WriterExit(w)
      PROVE  stop' /\ Len(queue') + Cardinality(HeldItems') <= 1
  BY <1>7 DEF WriterExit
<1>8. CASE Main
  BY <1>8 DEF Main, Signal, JoinReturns, JoinTimesOut, Exit
<1>9. CASE Crash
  BY <1>9 DEF Crash
<1>10. CASE UNCHANGED vars
  BY <1>10 DEF vars
<1> QED
  BY <1>1, <1>2, <1>3, <1>4, <1>5, <1>6, <1>7, <1>8, <1>9, <1>10
  DEF Next, Subscriber, Writer

\* At most one accepted item is left behind by the writers.
THEOREM AtMostOneStranded == Spec => []StrandedAtMostOne
<1>1. Init => AfterDrain
  BY DEF Init, AfterDrain, SomeWriterDone
<1>2. AfterDrain => StrandedAtMostOne
  BY ArchiveAssumption DEF AfterDrain, SomeWriterDone, StrandedAtMostOne, AllWritersDone
<1> QED
  BY <1>1, <1>2, TypedInit, TypedStep, AfterDrainStep, PTL DEF Spec
-------------------------------------------------------------------------------
(***************************************************************************)
(* JoinAccounting is inductive as it stands: a put raises the count and    *)
(* the queue, a take moves one from the queue to the hands, task_done()    *)
(* lowers the count as the hand is emptied.                                *)
(***************************************************************************)
LEMMA HoldingFinite == IsFiniteSet(Holding) /\ Cardinality(Holding) \in Nat
<1>1. Holding \subseteq Writers
  BY DEF Holding
<1> QED
  BY <1>1, ArchiveAssumption, FS_Subset, FS_CardinalityType

LEMMA JoinAccountingStep == Typed /\ JoinAccounting /\ [Next]_vars => JoinAccounting'
<1> SUFFICES ASSUME Typed, JoinAccounting, [Next]_vars PROVE JoinAccounting'
  OBVIOUS
<1> USE HoldingFinite DEF Typed, TypeOK, HandsOK, JoinAccounting,
        brokerVars, subVars, queueVars, writerVars, tableVars, ctlVars
<1>1. ASSUME UNCHANGED <<queue, unfinished, item>> PROVE JoinAccounting'
  BY <1>1 DEF Holding
<1>2. ASSUME NEW it \in Item, Put(it), UNCHANGED item PROVE JoinAccounting'
  <2>1. Len(queue') = Len(queue) + 1
    BY <1>2 DEF Put
  <2> QED
    BY <1>2, <2>1 DEF Put, Holding
<1>3. CASE SubAccept
  <2> DEFINE it == [msg |-> Head(inbox), ts |-> clock]
  <2>1. it \in Item
    BY <1>3 DEF SubAccept, Item
  <2>2. Put(it) \/ UNCHANGED queueVars
    BY <1>3 DEF SubAccept
  <2>3. UNCHANGED item
    BY <1>3 DEF SubAccept
  <2> QED
    BY <1>1, <1>2, <2>1, <2>2, <2>3
<1>4. CASE SubPut
  BY <1>2, <1>4 DEF SubPut
<1>5. ASSUME NEW w \in Writers, WriterTake(w) PROVE JoinAccounting'
  <2>1. Len(queue') = Len(queue) - 1 /\ Head(queue) \in Item /\ Head(queue) # NoItem
    BY <1>5, ItemIsNotNothing DEF WriterTake
  <2>2. CASE Head(queue).msg \in Undecodable
    <3>1. Holding' = Holding
      BY <1>5, <2>2 DEF WriterTake, Holding
    <3> QED
      BY <1>5, <2>1, <2>2, <3>1 DEF WriterTake
  <2>3. CASE Head(queue).msg \notin Undecodable
    <3>1. Holding' = Holding \cup {w} /\ w \notin Holding
      BY <1>5, <2>1, <2>3 DEF WriterTake, Holding
    <3>2. Cardinality(Holding') = Cardinality(Holding) + 1
      BY <3>1, FS_AddElement
    <3> QED
      BY <1>5, <2>1, <2>3, <3>2 DEF WriterTake
  <2> QED
    BY <2>2, <2>3
<1>6. ASSUME NEW w \in Writers, WriterSettle(w) PROVE JoinAccounting'
  <2>1. Holding' = Holding \ {w} /\ w \in Holding
    BY <1>6 DEF WriterSettle, Holding
  <2>2. Cardinality(Holding') = Cardinality(Holding) - 1
    BY <2>1, FS_RemoveElement
  <2> QED
    BY <1>6, <2>2 DEF WriterSettle
<1>7. CASE Crash
  <2>1. Holding' = {}
    BY <1>7 DEF Crash, Holding
  <2> QED
    BY <1>7, <2>1, FS_EmptySet DEF Crash
<1>8. ASSUME NEW w \in Writers,
             WriterInsert(w) \/ WriterCommit(w) \/ WriterFail(w) \/ WriterExit(w)
      PROVE  JoinAccounting'
  BY <1>1, <1>8 DEF WriterInsert, WriterCommit, WriterFail, WriterExit
<1>9. CASE Broker \/ Main \/ UNCHANGED vars
  BY <1>1, <1>9 DEF Broker, Publish, LinkBreak, Main, Signal, JoinReturns, JoinTimesOut, Exit, vars
<1>10. CASE \/ SubLoop \/ SubConnect \/ SubRefused \/ SubError \/ SubBackoff
           \/ SubBreak \/ SubSkip
  BY <1>1, <1>10 DEF SubLoop, SubConnect, SubRefused, SubError, SubBackoff, SubBreak, SubSkip
<1> QED
  BY <1>3, <1>4, <1>5, <1>6, <1>7, <1>8, <1>9, <1>10 DEF Next, Subscriber, Writer

\* join() waits for exactly what is queued or in a writer's hand.
THEOREM JoinIsExact == Spec => []JoinAccounting
<1>1. Init => JoinAccounting
  <2>1. Init => Holding = {}
    BY DEF Init, Holding
  <2> QED
    BY <2>1, FS_EmptySet DEF Init, JoinAccounting
<1> QED
  BY <1>1, TypedInit, TypedStep, JoinAccountingStep, PTL DEF Spec
-------------------------------------------------------------------------------
(***************************************************************************)
(* AtMostOnce.  The table alone does not say why a message is not stored   *)
(* again: it is because a message is in one place at a time on its way     *)
(* from the broker to the table, and because a writer that may still       *)
(* commit holds a message and an id that no row has.                       *)
(***************************************************************************)
InInbox(m) == \E i \in 1..Len(inbox) : inbox[i] = m
InHeld(m) == held # NoItem /\ held.msg = m
InQueue(m) == \E i \in 1..Len(queue) : queue[i].msg = m
InWork(m) == \E w \in Writers : item[w] # NoItem /\ item[w].msg = m
Sent(m) == \E i \in 1..Len(published) : published[i] = m

InOnePlace ==
  \A m \in Messages :
     /\ InInbox(m) => ~InHeld(m) /\ ~InQueue(m) /\ ~InWork(m) /\ ~Stored(m)
     /\ InHeld(m) => ~InQueue(m) /\ ~InWork(m) /\ ~Stored(m)
     /\ InQueue(m) => ~InWork(m) /\ ~Stored(m)
     /\ InInbox(m) \/ InHeld(m) \/ InQueue(m) \/ InWork(m) \/ Stored(m) => Sent(m)

NoRepeats ==
  /\ \A i, j \in 1..Len(inbox) : inbox[i] = inbox[j] => i = j
  /\ \A i, j \in 1..Len(queue) : queue[i].msg = queue[j].msg => i = j
  /\ \A w, v \in Writers :
       (item[w] # NoItem /\ item[v] # NoItem /\ item[w].msg = item[v].msg) => w = v

MayCommit(w) == wpc[w] \in {"insert", "commit"}

NothingCommittedYet ==
  /\ \A w \in Writers : MayCommit(w) => ~Stored(item[w].msg)
  /\ \A w \in Writers : wpc[w] = "commit" =>
       /\ rowid[w] < nextId
       /\ \A r \in events : r.id # rowid[w]
       /\ \A v \in Writers : (wpc[v] = "commit" /\ rowid[v] = rowid[w]) => v = w
  /\ \A r \in events : r.id < nextId

OneWay == InOnePlace /\ NoRepeats /\ NothingCommittedYet /\ AtMostOnce

\* What the places of a message depend on.
LEMMA PlacesUnchanged ==
  ASSUME OneWay, UNCHANGED <<published, inbox, held, queue, writerVars, events, nextId>>
  PROVE  OneWay'
  BY DEF OneWay, InOnePlace, NoRepeats, NothingCommittedYet, AtMostOnce, MayCommit,
         InInbox, InHeld, InQueue, InWork, Sent, Stored, writerVars

LEMMA TailFacts ==
  ASSUME NEW S, NEW s \in Seq(S), s # <<>>
  PROVE  /\ Len(s) \in Nat \ {0} /\ Head(s) = s[1] /\ s[1] \in S
         /\ Tail(s) \in Seq(S) /\ Len(Tail(s)) = Len(s) - 1
         /\ \A i \in 1..Len(Tail(s)) : Tail(s)[i] = s[i + 1]
  OBVIOUS

LEMMA AppendFacts ==
  ASSUME NEW S, NEW s \in Seq(S), NEW e \in S
  PROVE  /\ Len(Append(s, e)) = Len(s) + 1
         /\ Append(s, e)[Len(s) + 1] = e
         /\ \A i \in 1..Len(s) : Append(s, e)[i] = s[i]
  OBVIOUS

\* A message leaves the front of the inbox, which holds it once.
LEMMA InboxTail ==
  ASSUME Typed, NoRepeats, inbox # <<>>, inbox' = Tail(inbox)
  PROVE  /\ \A m \in Messages : InInbox(m)' <=> InInbox(m) /\ m # Head(inbox)
         /\ \A i, j \in 1..Len(inbox') : inbox'[i] = inbox'[j] => i = j
         /\ Head(inbox) \in Messages /\ InInbox(Head(inbox))
<1>1. inbox \in Seq(Messages)
  BY DEF Typed, TypeOK
<1>2. /\ Len(inbox) \in Nat \ {0} /\ Head(inbox) = inbox[1] /\ inbox[1] \in Messages
      /\ Len(inbox') = Len(inbox) - 1
      /\ \A i \in 1..Len(inbox') : inbox'[i] = inbox[i + 1]
  BY <1>1, TailFacts
<1>3. \A i, j \in 1..Len(inbox) : inbox[i] = inbox[j] => i = j
  BY DEF NoRepeats
<1>4. ASSUME NEW m \in Messages PROVE InInbox(m)' <=> InInbox(m) /\ m # Head(inbox)
  <2>1. ASSUME InInbox(m)' PROVE InInbox(m) /\ m # Head(inbox)
    <3>1. PICK i \in 1..Len(inbox') : inbox'[i] = m
      BY <2>1 DEF InInbox
    <3>2. i + 1 \in 1..Len(inbox) /\ inbox[i + 1] = m /\ i + 1 # 1 /\ 1 \in 1..Len(inbox)
      BY <1>2, <3>1
    <3> QED
      BY <1>2, <1>3, <3>2 DEF InInbox
  <2>2. ASSUME InInbox(m), m # Head(inbox) PROVE InInbox(m)'
    <3>1. PICK i \in 1..Len(inbox) : inbox[i] = m
      BY <2>2 DEF InInbox
    <3>2. i - 1 \in 1..Len(inbox') /\ inbox'[i - 1] = m
      BY <1>2, <2>2, <3>1
    <3> QED
      BY <3>2 DEF InInbox
  <2> QED
    BY <2>1, <2>2
<1>5. ASSUME NEW i \in 1..Len(inbox'), NEW j \in 1..Len(inbox'), inbox'[i] = inbox'[j]
      PROVE  i = j
  <2>1. /\ i + 1 \in 1..Len(inbox) /\ j + 1 \in 1..Len(inbox)
        /\ inbox[i + 1] = inbox[j + 1]
    BY <1>2, <1>5
  <2> QED
    BY <1>3, <2>1
<1>6. InInbox(Head(inbox))
  BY <1>2 DEF InInbox
<1> QED
  BY <1>2, <1>4, <1>5, <1>6

\* The item at the front of the queue leaves it.
LEMMA QueueTail ==
  ASSUME Typed, NoRepeats, queue # <<>>, queue' = Tail(queue)
  PROVE  /\ \A m \in Messages : InQueue(m)' <=> InQueue(m) /\ m # Head(queue).msg
         /\ \A i, j \in 1..Len(queue') : queue'[i].msg = queue'[j].msg => i = j
         /\ Head(queue) \in Item /\ InQueue(Head(queue).msg)
<1>1. queue \in Seq(Item)
  BY DEF Typed, TypeOK
<1>2. /\ Len(queue) \in Nat \ {0} /\ Head(queue) = queue[1] /\ queue[1] \in Item
      /\ Len(queue') = Len(queue) - 1
      /\ \A i \in 1..Len(queue') : queue'[i] = queue[i + 1]
  BY <1>1, TailFacts
<1>3. \A i, j \in 1..Len(queue) : queue[i].msg = queue[j].msg => i = j
  BY DEF NoRepeats
<1>4. ASSUME NEW m \in Messages PROVE InQueue(m)' <=> InQueue(m) /\ m # Head(queue).msg
  <2>1. ASSUME InQueue(m)' PROVE InQueue(m) /\ m # Head(queue).msg
    <3>1. PICK i \in 1..Len(queue') : queue'[i].msg = m
      BY <2>1 DEF InQueue
    <3>2. i + 1 \in 1..Len(queue) /\ queue[i + 1].msg = m /\ i + 1 # 1 /\ 1 \in 1..Len(queue)
      BY <1>2, <3>1
    <3> QED
      BY <1>2, <1>3, <3>2 DEF InQueue
  <2>2. ASSUME InQueue(m), m # Head(queue).msg PROVE InQueue(m)'
    <3>1. PICK i \in 1..Len(queue) : queue[i].msg = m
      BY <2>2 DEF InQueue
    <3>2. i - 1 \in 1..Len(queue') /\ queue'[i - 1].msg = m
      BY <1>2, <2>2, <3>1
    <3> QED
      BY <3>2 DEF InQueue
  <2> QED
    BY <2>1, <2>2
<1>5. ASSUME NEW i \in 1..Len(queue'), NEW j \in 1..Len(queue'), queue'[i].msg = queue'[j].msg
      PROVE  i = j
  <2>1. /\ i + 1 \in 1..Len(queue) /\ j + 1 \in 1..Len(queue)
        /\ queue[i + 1].msg = queue[j + 1].msg
    BY <1>2, <1>5
  <2> QED
    BY <1>3, <2>1
<1>6. InQueue(Head(queue).msg)
  BY <1>2 DEF InQueue
<1> QED
  BY <1>2, <1>4, <1>5, <1>6

\* An item joins the queue, which does not hold its message yet.
LEMMA QueueAppend ==
  ASSUME Typed, NoRepeats, NEW it \in Item, ~InQueue(it.msg), queue' = Append(queue, it)
  PROVE  /\ \A m \in Messages : InQueue(m)' <=> InQueue(m) \/ m = it.msg
         /\ \A i, j \in 1..Len(queue') : queue'[i].msg = queue'[j].msg => i = j
<1>1. queue \in Seq(Item) /\ Len(queue) \in Nat
  BY DEF Typed, TypeOK
<1>2. /\ Len(queue') = Len(queue) + 1 /\ queue'[Len(queue) + 1] = it
      /\ \A i \in 1..Len(queue) : queue'[i] = queue[i]
  BY <1>1, AppendFacts
<1>3. \A i \in 1..Len(queue') : i \in 1..Len(queue) \/ i = Len(queue) + 1
  BY <1>1, <1>2
<1>4. Len(queue) + 1 \in 1..Len(queue') /\ \A i \in 1..Len(queue) : i \in 1..Len(queue')
  BY <1>1, <1>2
<1> QED
  BY <1>2, <1>3, <1>4 DEF NoRepeats, InQueue

LEMMA PublishOneWay ==
  ASSUME Typed, OneWay, NEW m \in Messages, Publish(m) PROVE OneWay'
<1> USE DEF subVars, queueVars, writerVars, tableVars, ctlVars
<1>1. ~Sent(m) /\ published \in Seq(Messages) /\ inbox \in Seq(Messages)
  BY DEF Publish, RangeOf, Sent, Typed, TypeOK
<1>2. ~InInbox(m) /\ ~InHeld(m) /\ ~InQueue(m) /\ ~InWork(m) /\ ~Stored(m)
  BY <1>1 DEF OneWay, InOnePlace
<1>3. /\ Len(published') = Len(published) + 1 /\ published'[Len(published) + 1] = m
      /\ \A i \in 1..Len(published) : published'[i] = published[i]
  BY <1>1, AppendFacts DEF Publish
<1>4. \A n \in Messages : Sent(n)' <=> Sent(n) \/ n = m
  <2>1. \A i \in 1..Len(published') : i \in 1..Len(published) \/ i = Len(published) + 1
    BY <1>1, <1>3
  <2>2. /\ Len(published) + 1 \in 1..Len(published')
        /\ \A i \in 1..Len(published) : i \in 1..Len(published')
    BY <1>1, <1>3
  <2> QED
    BY <1>3, <2>1, <2>2 DEF Sent
<1>5. /\ UNCHANGED <<held, queue, writerVars, events, nextId>>
      /\ inbox' = Append(inbox, m) \/ inbox' = inbox
  BY DEF Publish
<1>6. \A n \in Messages : /\ InHeld(n)' <=> InHeld(n)
                          /\ InQueue(n)' <=> InQueue(n)
                          /\ InWork(n)' <=> InWork(n)
                          /\ Stored(n)' <=> Stored(n)
  BY <1>5 DEF InHeld, InQueue, InWork, Stored
<1>7. /\ \A n \in Messages : InInbox(n)' => InInbox(n) \/ n = m
      /\ \A i, j \in 1..Len(inbox') : inbox'[i] = inbox'[j] => i = j
  <2>1. CASE inbox' = inbox
    BY <2>1 DEF OneWay, NoRepeats, InInbox
  <2>2. CASE inbox' = Append(inbox, m)
    <3>1. /\ Len(inbox') = Len(inbox) + 1 /\ inbox'[Len(inbox) + 1] = m
          /\ \A i \in 1..Len(inbox) : inbox'[i] = inbox[i]
      BY <1>1, <2>2, AppendFacts
    <3>2. \A i \in 1..Len(inbox') : i \in 1..Len(inbox) \/ i = Len(inbox) + 1
      BY <1>1, <3>1
    <3> QED
      BY <1>2, <3>1, <3>2 DEF OneWay, NoRepeats, InInbox
  <2> QED
    BY <1>5, <2>1, <2>2
<1>8. InOnePlace'
  BY <1>2, <1>4, <1>6, <1>7 DEF OneWay, InOnePlace
<1> QED
  BY <1>5, <1>7, <1>8 DEF OneWay, NoRepeats, NothingCommittedYet, AtMostOnce, MayCommit, Stored

\* The client is left: the inbox is gone.
LEMMA LeaveOneWay ==
  ASSUME Typed, OneWay, LeaveClient,
         UNCHANGED <<published, held, queue, writerVars, events, nextId>>
  PROVE  OneWay'
<1>1. inbox' = <<>> /\ Len(inbox') = 0
  BY DEF LeaveClient
<1> QED
  BY <1>1 DEF OneWay, InOnePlace, NoRepeats, NothingCommittedYet, AtMostOnce, MayCommit,
              InInbox, InHeld, InQueue, InWork, Sent, Stored, writerVars

LEMMA SkipOneWay == ASSUME Typed, OneWay, SubSkip PROVE OneWay'
<1> USE DEF subVars, queueVars, writerVars, tableVars, ctlVars
<1>1. inbox # <<>> /\ inbox' = Tail(inbox)
  BY DEF SubSkip
<1>2. UNCHANGED <<published, held, queue, writerVars, events, nextId>>
  BY DEF SubSkip
<1>3. /\ \A m \in Messages : InInbox(m)' => InInbox(m)
      /\ \A i, j \in 1..Len(inbox') : inbox'[i] = inbox'[j] => i = j
  BY <1>1, InboxTail DEF OneWay
<1>4. InOnePlace'
  BY <1>2, <1>3 DEF OneWay, InOnePlace, InHeld, InQueue, InWork, Sent, Stored
<1> QED
  BY <1>2, <1>3, <1>4 DEF OneWay, NoRepeats, NothingCommittedYet, AtMostOnce, MayCommit, Stored

LEMMA AcceptOneWay == ASSUME Typed, OneWay, SubAccept PROVE OneWay'
<1> USE DEF subVars, queueVars, writerVars, tableVars, ctlVars
<1> DEFINE it == [msg |-> Head(inbox), ts |-> clock]
<1>1. inbox # <<>> /\ inbox' = Tail(inbox) /\ sub = "recv"
  BY DEF SubAccept
<1>2. UNCHANGED <<published, writerVars, events, nextId>>
  BY DEF SubAccept
<1>3. /\ \A m \in Messages : InInbox(m)' <=> InInbox(m) /\ m # Head(inbox)
      /\ \A i, j \in 1..Len(inbox') : inbox'[i] = inbox'[j] => i = j
      /\ Head(inbox) \in Messages /\ InInbox(Head(inbox))
  BY <1>1, InboxTail DEF OneWay
<1>4. it \in Item /\ it # NoItem /\ it.msg = Head(inbox) /\ held = NoItem
  BY <1>1, <1>3, ItemIsNotNothing DEF Item, Typed, TypeOK, HandsOK
<1>5. ~InQueue(it.msg)
  BY <1>3, <1>4 DEF OneWay, InOnePlace
<1>6. \A m \in Messages : /\ InWork(m)' <=> InWork(m)
                          /\ Stored(m)' <=> Stored(m)
                          /\ Sent(m)' <=> Sent(m)
  BY <1>2 DEF InWork, Stored, Sent
<1>7. CASE Put(it) /\ UNCHANGED held
  <2>1. /\ \A m \in Messages : InQueue(m)' <=> InQueue(m) \/ m = it.msg
        /\ \A i, j \in 1..Len(queue') : queue'[i].msg = queue'[j].msg => i = j
    BY <1>4, <1>5, <1>7, QueueAppend DEF Put, OneWay
  <2>2. \A m \in Messages : ~InHeld(m) /\ ~InHeld(m)'
    BY <1>4, <1>7 DEF InHeld
  <2>3. InOnePlace'
    BY <1>3, <1>4, <1>6, <2>1, <2>2 DEF OneWay, InOnePlace
  <2> QED
    BY <1>2, <1>3, <2>1, <2>3
    DEF OneWay, NoRepeats, NothingCommittedYet, AtMostOnce, MayCommit, Stored
<1>8. CASE held' = it /\ UNCHANGED queueVars
  <2>1. \A m \in Messages : /\ InHeld(m)' <=> m = Head(inbox)
                            /\ InQueue(m)' <=> InQueue(m)
                            /\ ~InHeld(m)
    BY <1>4, <1>8 DEF InHeld, InQueue
  <2>2. InOnePlace'
    BY <1>3, <1>6, <2>1 DEF OneWay, InOnePlace
  <2> QED
    BY <1>2, <1>3, <1>8, <2>2
    DEF OneWay, NoRepeats, NothingCommittedYet, AtMostOnce, MayCommit, Stored
<1> QED
  BY <1>7, <1>8 DEF SubAccept

LEMMA PutOneWay == ASSUME Typed, OneWay, SubPut PROVE OneWay'
<1> USE DEF brokerVars, subVars, queueVars, writerVars, tableVars, ctlVars
<1>1. held \in Item /\ held # NoItem /\ held.msg \in Messages
  BY DEF SubPut, Typed, TypeOK, HandsOK, Item
<1>2. UNCHANGED <<published, inbox, writerVars, events, nextId>> /\ held' = NoItem
  BY DEF SubPut
<1>3. \A m \in Messages : /\ InHeld(m) <=> m = held.msg
                          /\ ~InHeld(m)'
  BY <1>1, <1>2 DEF InHeld
<1>4. ~InQueue(held.msg)
  BY <1>1, <1>3 DEF OneWay, InOnePlace
<1>5. /\ \A m \in Messages : InQueue(m)' <=> InQueue(m) \/ m = held.msg
      /\ \A i, j \in 1..Len(queue') : queue'[i].msg = queue'[j].msg => i = j
  BY <1>1, <1>4, QueueAppend DEF SubPut, Put, OneWay
<1>6. \A m \in Messages : /\ InInbox(m)' <=> InInbox(m)
                          /\ InWork(m)' <=> InWork(m)
                          /\ Stored(m)' <=> Stored(m)
                          /\ Sent(m)' <=> Sent(m)
  BY <1>2 DEF InInbox, InWork, Stored, Sent
<1>7. InOnePlace'
  BY <1>3, <1>5, <1>6 DEF OneWay, InOnePlace
<1> QED
  BY <1>2, <1>5, <1>7
  DEF OneWay, NoRepeats, NothingCommittedYet, AtMostOnce, MayCommit, Stored

\* A writer takes the front of the queue, and drops it or holds it alone.
LEMMA TakeOneWay == ASSUME Typed, OneWay, NEW w \in Writers, WriterTake(w) PROVE OneWay'
<1> USE DEF brokerVars, subVars, tableVars, ctlVars
<1> DEFINE it == Head(queue)
<1>1. queue # <<>> /\ queue' = Tail(queue) /\ wpc[w] = "idle"
  BY DEF WriterTake
<1>2. UNCHANGED <<published, inbox, held, rowid, events, nextId>>
  BY DEF WriterTake
<1>3. /\ \A m \in Messages : InQueue(m)' <=> InQueue(m) /\ m # it.msg
      /\ \A i, j \in 1..Len(queue') : queue'[i].msg = queue'[j].msg => i = j
      /\ it \in Item /\ InQueue(it.msg) /\ it # NoItem /\ it.msg \in Messages
  BY <1>1, QueueTail, ItemIsNotNothing DEF OneWay, Item
<1>4. ~InWork(it.msg) /\ ~Stored(it.msg)
  BY <1>3 DEF OneWay, InOnePlace
<1>5. \A m \in Messages : /\ InInbox(m)' <=> InInbox(m)
                          /\ InHeld(m)' <=> InHeld(m)
                          /\ Stored(m)' <=> Stored(m)
                          /\ Sent(m)' <=> Sent(m)
  BY <1>2 DEF InInbox, InHeld, Stored, Sent
<1>6. CASE UNCHANGED <<wpc, item>>
  <2>1. \A m \in Messages : InWork(m)' <=> InWork(m)
    BY <1>6 DEF InWork
  <2>2. InOnePlace'
    BY <1>3, <1>5, <2>1 DEF OneWay, InOnePlace
  <2> QED
    BY <1>2, <1>3, <1>6, <2>2
    DEF OneWay, NoRepeats, NothingCommittedYet, AtMostOnce, MayCommit, Stored
<1>7. CASE item' = [item EXCEPT ![w] = it] /\ wpc' = [wpc EXCEPT ![w] = "insert"]
  <2>1. /\ item[w] = NoItem /\ item'[w] = it /\ wpc'[w] = "insert"
        /\ \A v \in Writers \ {w} : item'[v] = item[v] /\ wpc'[v] = wpc[v]
    BY <1>1, <1>7 DEF Typed, TypeOK, HandsOK
  <2>2. \A m \in Messages : InWork(m)' <=> InWork(m) \/ m = it.msg
    BY <1>3, <2>1 DEF InWork
  <2>3. InOnePlace'
    BY <1>3, <1>4, <1>5, <2>2 DEF OneWay, InOnePlace
  <2>4. \A v, u \in Writers :
           (item'[v] # NoItem /\ item'[u] # NoItem /\ item'[v].msg = item'[u].msg) => v = u
    BY <1>3, <1>4, <2>1 DEF OneWay, NoRepeats, InWork
  <2>5. NothingCommittedYet'
    BY <1>2, <1>4, <2>1 DEF OneWay, NothingCommittedYet, MayCommit, Stored
  <2> QED
    BY <1>2, <1>3, <2>3, <2>4, <2>5 DEF OneWay, NoRepeats, AtMostOnce
<1> QED
  BY <1>6, <1>7 DEF WriterTake

\* The INSERT draws an id above every row's and every other writer's.
LEMMA InsertOneWay == ASSUME Typed, OneWay, NEW w \in Writers, WriterInsert(w) PROVE OneWay'
<1> USE DEF brokerVars, subVars, queueVars, ctlVars
<1>1. /\ UNCHANGED <<published, inbox, held, queue, item, events>>
      /\ wpc[w] = "insert" /\ wpc'[w] = "commit" /\ rowid'[w] = nextId /\ nextId' = nextId + 1
      /\ \A v \in Writers \ {w} : wpc'[v] = wpc[v] /\ rowid'[v] = rowid[v]
  BY DEF WriterInsert, Typed, TypeOK
<1>2. InOnePlace' /\ NoRepeats' /\ AtMostOnce'
  BY <1>1 DEF OneWay, InOnePlace, NoRepeats, AtMostOnce, InInbox, InHeld, InQueue, InWork,
              Sent, Stored
<1>3. \A r \in events : r.id \in Nat
  BY DEF Typed, TypeOK, Row
<1>4. nextId \in Nat /\ \A v \in Writers : rowid[v] \in Nat
  BY DEF Typed, TypeOK
<1>5. NothingCommittedYet'
  <2>1. \A v \in Writers : MayCommit(v)' => ~Stored(item[v].msg)'
    BY <1>1 DEF OneWay, NothingCommittedYet, MayCommit, Stored
  <2>2. \A r \in events' : r.id < nextId'
    BY <1>1, <1>3, <1>4 DEF OneWay, NothingCommittedYet
  <2>3. ASSUME NEW v \in Writers, wpc'[v] = "commit"
        PROVE  /\ rowid'[v] < nextId'
               /\ \A r \in events' : r.id # rowid'[v]
               /\ \A u \in Writers : (wpc'[u] = "commit" /\ rowid'[u] = rowid'[v]) => u = v
    <3>1. CASE v = w
      BY <1>1, <1>3, <1>4, <3>1 DEF OneWay, NothingCommittedYet
    <3>2. CASE v # w
      BY <1>1, <1>3, <1>4, <2>3, <3>2 DEF OneWay, NothingCommittedYet
    <3> QED
      BY <3>1, <3>2
  <2> QED
    BY <1>1, <2>1, <2>2, <2>3 DEF NothingCommittedYet
<1> QED
  BY <1>2, <1>5 DEF OneWay

\* The COMMIT adds a row whose message and id no row has, and which no other
\* writer can still add.
LEMMA CommitOneWay == ASSUME Typed, OneWay, NEW w \in Writers, WriterCommit(w) PROVE OneWay'
<1> USE DEF brokerVars, subVars, queueVars, ctlVars
<1> DEFINE r0 == RowOf(w)
<1>1. /\ UNCHANGED <<published, inbox, held, queue, item, rowid, nextId>>
      /\ wpc[w] = "commit" /\ wpc'[w] = "settle" /\ events' = events \cup {r0}
      /\ \A v \in Writers \ {w} : wpc'[v] = wpc[v]
  BY DEF WriterCommit, Typed, TypeOK
<1>2. /\ item[w] \in Item /\ item[w] # NoItem /\ item[w].msg \in Messages
      /\ r0.id = rowid[w] /\ r0.msg = item[w].msg
  BY <1>1 DEF Typed, TypeOK, HandsOK, Item, RowOf
<1>3. /\ ~Stored(r0.msg) /\ r0.id < nextId /\ InWork(r0.msg)
      /\ \A r \in events : r.id # r0.id
  BY <1>1, <1>2 DEF OneWay, NothingCommittedYet, MayCommit, InWork
<1>4. \A m \in Messages : Stored(m)' <=> Stored(m) \/ m = r0.msg
  BY <1>1 DEF Stored
<1>5. \A m \in Messages : /\ InInbox(m)' <=> InInbox(m)
                          /\ InHeld(m)' <=> InHeld(m)
                          /\ InQueue(m)' <=> InQueue(m)
                          /\ InWork(m)' <=> InWork(m)
                          /\ Sent(m)' <=> Sent(m)
  BY <1>1 DEF InInbox, InHeld, InQueue, InWork, Sent
<1>6. InOnePlace'
  BY <1>2, <1>3, <1>4, <1>5 DEF OneWay, InOnePlace
<1>7. NoRepeats'
  BY <1>1 DEF OneWay, NoRepeats
<1>8. AtMostOnce'
  BY <1>1, <1>3 DEF OneWay, AtMostOnce, Stored
<1>9. NothingCommittedYet'
  <2>1. ASSUME NEW v \in Writers, MayCommit(v)' PROVE ~Stored(item[v].msg)'
    <3>1. v # w /\ MayCommit(v) /\ item[v] # NoItem
      BY <1>1, <2>1 DEF MayCommit, Typed, TypeOK, HandsOK
    <3>2. item[v].msg # r0.msg
      BY <1>2, <3>1 DEF OneWay, NoRepeats
    <3>3. ~Stored(item[v].msg)
      BY <3>1 DEF OneWay, NothingCommittedYet
    <3> QED
      BY <1>1, <3>2, <3>3 DEF Stored
  <2>2. ASSUME NEW v \in Writers, wpc'[v] = "commit"
        PROVE  /\ rowid'[v] < nextId'
               /\ \A r \in events' : r.id # rowid'[v]
               /\ \A u \in Writers : (wpc'[u] = "commit" /\ rowid'[u] = rowid'[v]) => u = v
    <3>1. v # w /\ wpc[v] = "commit"
      BY <1>1, <2>2
    <3> QED
      BY <1>1, <1>2, <3>1 DEF OneWay, NothingCommittedYet
  <2>3. \A r \in events' : r.id < nextId'
    BY <1>1, <1>3 DEF OneWay, NothingCommittedYet
  <2> QED
    BY <1>1, <2>1, <2>2, <2>3 DEF NothingCommittedYet
<1> QED
  BY <1>6, <1>7, <1>8, <1>9 DEF OneWay

\* A writer that gives up, leaves or empties its hand can no longer commit.
LEMMA DoneOneWay ==
  ASSUME Typed, OneWay, NEW w \in Writers,
         WriterFail(w) \/ WriterExit(w) \/ WriterSettle(w)
  PROVE  OneWay'
<1> USE DEF brokerVars, subVars, queueVars, writerVars, tableVars, ctlVars
<1>1. /\ UNCHANGED <<published, inbox, held, queue, events, nextId>>
      /\ ~MayCommit(w)'
      /\ item'[w] \in {item[w], NoItem}
      /\ \A v \in Writers \ {w} : /\ wpc'[v] = wpc[v]
                                  /\ item'[v] = item[v]
                                  /\ rowid'[v] = rowid[v]
  BY DEF WriterFail, WriterExit, WriterSettle, MayCommit, Typed, TypeOK
<1>2. \A m \in Messages : /\ InWork(m)' => InWork(m)
                          /\ InInbox(m)' <=> InInbox(m)
                          /\ InHeld(m)' <=> InHeld(m)
                          /\ InQueue(m)' <=> InQueue(m)
                          /\ Stored(m)' <=> Stored(m)
                          /\ Sent(m)' <=> Sent(m)
  BY <1>1 DEF InInbox, InHeld, InQueue, InWork, Sent, Stored
<1>3. InOnePlace'
  BY <1>2 DEF OneWay, InOnePlace
<1>4. NoRepeats' /\ AtMostOnce'
  BY <1>1 DEF OneWay, NoRepeats, AtMostOnce
<1>5. NothingCommittedYet'
  BY <1>1 DEF OneWay, NothingCommittedYet, MayCommit, Stored
<1> QED
  BY <1>3, <1>4, <1>5 DEF OneWay

\* A crash empties every place but the table.
LEMMA CrashOneWay == ASSUME Typed, OneWay, Crash PROVE OneWay'
<1> USE DEF tableVars
<1>1. /\ Len(inbox') = 0 /\ Len(queue') = 0 /\ held' = NoItem
      /\ \A w \in Writers : wpc'[w] = "idle" /\ item'[w] = NoItem
      /\ UNCHANGED <<published, events, nextId>>
  BY DEF Crash
<1>2. \A m \in Messages : /\ ~InInbox(m)'
                          /\ ~InHeld(m)'
                          /\ ~InQueue(m)'
                          /\ ~InWork(m)'
                          /\ Stored(m)' <=> Stored(m)
                          /\ Sent(m)' <=> Sent(m)
  BY <1>1 DEF InInbox, InHeld, InQueue, InWork, Sent, Stored
<1> QED
  BY <1>1, <1>2 DEF OneWay, InOnePlace, NoRepeats, NothingCommittedYet, AtMostOnce, MayCommit

LEMMA OneWayStep == Typed /\ OneWay /\ [Next]_vars => OneWay'
<1> SUFFICES ASSUME Typed, OneWay, [Next]_vars PROVE OneWay'
  OBVIOUS
<1> USE DEF brokerVars, subVars, queueVars, writerVars, tableVars, ctlVars
<1>1. CASE LinkBreak \/ SubLoop \/ SubConnect \/ SubBackoff \/ Main \/ UNCHANGED vars
  <2>1. UNCHANGED <<published, inbox, held, queue, writerVars, events, nextId>>
    BY <1>1 DEF LinkBreak, SubLoop, SubConnect, SubBackoff,
                Main, Signal, JoinReturns, JoinTimesOut, Exit, vars
  <2> QED
    BY <2>1, PlacesUnchanged
<1>2. CASE SubRefused \/ SubError \/ SubBreak
  <2>1. LeaveClient /\ UNCHANGED <<published, held, queue, writerVars, events, nextId>>
    BY <1>2 DEF SubRefused, SubError, SubBreak
  <2> QED
    BY <2>1, LeaveOneWay
<1> QED
  BY <1>1, <1>2, PublishOneWay, SkipOneWay, AcceptOneWay, PutOneWay, TakeOneWay,
     InsertOneWay, CommitOneWay, DoneOneWay, CrashOneWay
  DEF Next, Broker, Subscriber, Writer

\* A message has at most one row in the table, and an id one row.
THEOREM StoredAtMostOnce == Spec => []AtMostOnce
<1>1. Init => OneWay
  BY DEF Init, OneWay, InOnePlace, NoRepeats, NothingCommittedYet, AtMostOnce, MayCommit,
         InInbox, InHeld, InQueue, InWork, Stored
<1>2. OneWay => AtMostOnce
  BY DEF OneWay
<1> QED
  BY <1>1, <1>2, TypedInit, TypedStep, OneWayStep, PTL DEF Spec
-------------------------------------------------------------------------------
(***************************************************************************)
(* ReplayOrder.  The writers are free to overtake each other, so the order *)
(* is carried by the stamps: what the subscriber has accepted so far was   *)
(* published before anything still in the inbox, which is itself in order. *)
(***************************************************************************)
Before(m, n) == \E i, j \in 1..Len(published) : i < j /\ published[i] = m /\ published[j] = n

\* What has been stamped and is not lost, as items.
Accepted == HeldItems \cup {queue[i] : i \in 1..Len(queue)}
            \cup {item[w] : w \in Holding} \cup {[msg |-> r.msg, ts |-> r.ts] : r \in events}

InOrder ==
  /\ \A i, j \in 1..Len(published) : published[i] = published[j] => i = j
  /\ \A i \in 1..Len(inbox) : Sent(inbox[i])
  /\ \A i, j \in 1..Len(inbox) : i < j => Before(inbox[i], inbox[j])
  /\ \A a \in Accepted : Sent(a.msg) /\ a.ts < clock
  /\ \A a \in Accepted, i \in 1..Len(inbox) : Before(a.msg, inbox[i])
  /\ \A a, b \in Accepted : Before(a.msg, b.msg) => a.ts < b.ts

LEMMA AcceptedTyped == Typed => Accepted \subseteq Item
<1> SUFFICES ASSUME Typed PROVE Accepted \subseteq Item
  OBVIOUS
<1>1. HeldItems \subseteq Item
  BY DEF Typed, TypeOK, HeldItems
<1>2. \A i \in 1..Len(queue) : queue[i] \in Item
  BY DEF Typed, TypeOK
<1>3. \A w \in Holding : item[w] \in Item
  BY DEF Typed, TypeOK, Holding
<1>4. \A r \in events : r.msg \in Messages /\ r.ts \in Nat
  BY DEF Typed, TypeOK, Row
<1>5. {[msg |-> r.msg, ts |-> r.ts] : r \in events} \subseteq Item
  BY <1>4 DEF Item
<1> QED
  BY <1>1, <1>2, <1>3, <1>5 DEF Accepted

\* No step but SubAccept adds to what is accepted, and it adds one item.
LEMMA AcceptedStep ==
  ASSUME Typed, [Next]_vars
  PROVE  Accepted' \subseteq Accepted \cup (IF SubAccept THEN {[msg |-> Head(inbox), ts |-> clock]}
                                            ELSE {})
<1> USE DEF brokerVars, subVars, queueVars, writerVars, tableVars, ctlVars
<1>1. CASE UNCHANGED <<held, queue, item, events>>
  BY <1>1 DEF Accepted, HeldItems, Holding
<1>2. CASE SubAccept
  <2> DEFINE it == [msg |-> Head(inbox), ts |-> clock]
  <2>1. it \in Item /\ queue \in Seq(Item)
    BY <1>2 DEF SubAccept, Typed, TypeOK, Item
  <2>2. UNCHANGED <<item, events>>
    BY <1>2 DEF SubAccept
  <2>3. /\ held' = held \/ held' = it
        /\ queue' = queue \/ queue' = Append(queue, it)
    BY <1>2 DEF SubAccept, Put
  <2>4. \A i \in 1..Len(queue') : queue'[i] = it \/ \E j \in 1..Len(queue) : queue'[i] = queue[j]
    BY <2>1, <2>3, AppendFacts
  <2> QED
    BY <1>2, <2>2, <2>3, <2>4 DEF Accepted, HeldItems, Holding
<1>3. CASE SubPut
  <2>1. held \in Item /\ held # NoItem /\ queue \in Seq(Item)
    BY <1>3 DEF SubPut, Typed, TypeOK, HandsOK
  <2>2. /\ UNCHANGED <<item, events>>
        /\ held' = NoItem
        /\ queue' = Append(queue, held)
    BY <1>3 DEF SubPut, Put
  <2>3. \A i \in 1..Len(queue') : queue'[i] = held \/ \E j \in 1..Len(queue) : queue'[i] = queue[j]
    BY <2>1, <2>2, AppendFacts
  <2> QED
    BY <2>1, <2>2, <2>3 DEF Accepted, HeldItems, Holding
<1>4. ASSUME NEW w \in Writers, WriterTake(w) PROVE Accepted' \subseteq Accepted
  <2>1. queue \in Seq(Item) /\ queue # <<>> /\ queue' = Tail(queue) /\ UNCHANGED <<held, events>>
    BY <1>4 DEF WriterTake, Typed, TypeOK
  <2>2. /\ Head(queue) = queue[1] /\ 1 \in 1..Len(queue)
        /\ \A i \in 1..Len(queue') : i + 1 \in 1..Len(queue) /\ queue'[i] = queue[i + 1]
    BY <2>1, TailFacts
  <2>3. \A v \in Writers : item'[v] = item[v] \/ item'[v] = Head(queue)
    BY <1>4 DEF WriterTake, Typed, TypeOK
  <2> QED
    BY <2>1, <2>2, <2>3 DEF Accepted, HeldItems, Holding
<1>5. ASSUME NEW w \in Writers, WriterCommit(w) PROVE Accepted' \subseteq Accepted
  <2>1. /\ UNCHANGED <<held, queue, item>> /\ events' = events \cup {RowOf(w)}
        /\ w \in Holding /\ item[w] \in Item
    BY <1>5 DEF WriterCommit, Typed, TypeOK, HandsOK, Holding
  <2>2. [msg |-> RowOf(w).msg, ts |-> RowOf(w).ts] = item[w]
    BY <2>1 DEF RowOf, Item
  <2> QED
    BY <2>1, <2>2 DEF Accepted, HeldItems, Holding
<1>6. ASSUME NEW w \in Writers, WriterSettle(w) PROVE Accepted' \subseteq Accepted
  <2>1. /\ UNCHANGED <<held, queue, events>>
        /\ \A v \in Writers : item'[v] = item[v] \/ item'[v] = NoItem
    BY <1>6 DEF WriterSettle, Typed, TypeOK
  <2> QED
    BY <2>1 DEF Accepted, HeldItems, Holding
<1>7. CASE Crash
  <2>1. /\ held' = NoItem /\ Len(queue') = 0 /\ UNCHANGED events
        /\ \A v \in Writers : item'[v] = NoItem
    BY <1>7 DEF Crash
  <2> QED
    BY <2>1 DEF Accepted, HeldItems, Holding
<1>8. CASE Broker \/ Main \/ UNCHANGED vars
  BY <1>1, <1>8 DEF Broker, Publish, LinkBreak, Main, Signal, JoinReturns, JoinTimesOut, Exit, vars
<1>9. CASE \/ SubLoop \/ SubConnect \/ SubRefused \/ SubError \/ SubBackoff
           \/ SubBreak \/ SubSkip
  BY <1>1, <1>9 DEF SubLoop, SubConnect, SubRefused, SubError, SubBackoff, SubBreak, SubSkip
<1>10. ASSUME NEW w \in Writers, WriterInsert(w) \/ WriterFail(w) \/ WriterExit(w)
       PROVE  Accepted' \subseteq Accepted
  <2>1. UNCHANGED <<held, queue, item, events>>
    BY <1>10 DEF WriterInsert, WriterFail, WriterExit
  <2> QED
    BY <2>1 DEF Accepted, HeldItems, Holding
<1> QED
  BY <1>2, <1>3, <1>4, <1>5, <1>6, <1>7, <1>8, <1>9, <1>10 DEF Next, Subscriber, Writer

\* Publishing orders the new message behind all others and nothing else anew.
LEMMA PublishOrder ==
  ASSUME Typed, InOrder, NEW m \in Messages, Publish(m)
  PROVE  /\ \A i, j \in 1..Len(published') : published'[i] = published'[j] => i = j
         /\ ~Sent(m) /\ Sent(m)'
         /\ \A n \in Messages : Sent(n) => Sent(n)' /\ Before(n, m)'
         /\ \A n, o \in Messages : Before(n, o) => Before(n, o)'
         /\ \A n, o \in Messages : Before(n, o)' /\ o # m => Before(n, o)
<1>1. published \in Seq(Messages) /\ Len(published) \in Nat
  BY DEF Typed, TypeOK
<1>2. ~Sent(m) /\ published' = Append(published, m)
  BY <1>1 DEF Publish, RangeOf, Sent
<1>3. /\ Len(published') = Len(published) + 1 /\ published'[Len(published) + 1] = m
      /\ \A i \in 1..Len(published) : published'[i] = published[i]
  BY <1>1, <1>2, AppendFacts
<1>4. /\ \A i \in 1..Len(published') : i \in 1..Len(published) \/ i = Len(published) + 1
      /\ \A i \in 1..Len(published) : i \in 1..Len(published') /\ i < Len(published) + 1
      /\ Len(published) + 1 \in 1..Len(published')
  BY <1>1, <1>3
<1>5. \A i, j \in 1..Len(published') : published'[i] = published'[j] => i = j
  BY <1>2, <1>3, <1>4 DEF InOrder, Sent
<1>6. Sent(m)' /\ \A n \in Messages : Sent(n) => Sent(n)'
  BY <1>3, <1>4 DEF Sent
<1>7. ASSUME NEW n \in Messages, Sent(n) PROVE Before(n, m)'
  BY <1>3, <1>4, <1>7 DEF Sent, Before
<1>8. ASSUME NEW n \in Messages, NEW o \in Messages, Before(n, o) PROVE Before(n, o)'
  BY <1>3, <1>4, <1>8 DEF Before
<1>9. ASSUME NEW n \in Messages, NEW o \in Messages, Before(n, o)', o # m PROVE Before(n, o)
  <2>1. PICK i, j \in 1..Len(published') :
           i < j /\ published'[i] = n /\ published'[j] = o
    BY <1>9 DEF Before
  <2>2. j \in 1..Len(published) /\ i \in 1..Len(published)
    BY <1>1, <1>3, <1>4, <1>9, <2>1
  <2> QED
    BY <1>3, <2>1, <2>2 DEF Before
<1> QED
  BY <1>2, <1>5, <1>6, <1>7, <1>8, <1>9

\* What is before a message is not behind it.
LEMMA BeforeOnce ==
  ASSUME InOrder, NEW m, NEW n PROVE ~(Before(m, n) /\ Before(n, m))
<1> SUFFICES ASSUME Before(m, n), Before(n, m) PROVE FALSE
  OBVIOUS
<1>1. PICK i, j \in 1..Len(published) : i < j /\ published[i] = m /\ published[j] = n
  BY DEF Before
<1>2. PICK k, l \in 1..Len(published) : k < l /\ published[k] = n /\ published[l] = m
  BY DEF Before
<1>3. i = l /\ j = k
  BY <1>1, <1>2 DEF InOrder
<1> QED
  BY <1>1, <1>2, <1>3

\* The three ways a step changes what InOrder is about.
LEMMA InOrderPublish ==
  ASSUME Typed, InOrder, NEW m \in Messages, Publish(m) PROVE InOrder'
<1>1. /\ inbox \in Seq(Messages) /\ Accepted \subseteq Item
      /\ inbox' = inbox \/ inbox' = Append(inbox, m)
      /\ clock' = clock /\ Accepted' = Accepted
  BY AcceptedTyped DEF Publish, Typed, TypeOK, Accepted, HeldItems, Holding, subVars, queueVars,
                       writerVars, tableVars
<1>2. /\ \A i \in 1..Len(inbox) : inbox[i] \in Messages
      /\ \A a \in Accepted : a.msg \in Messages
  BY <1>1 DEF Item
<1>3. \/ inbox' = inbox
      \/ /\ Len(inbox') = Len(inbox) + 1 /\ inbox'[Len(inbox) + 1] = m
         /\ \A i \in 1..Len(inbox) : inbox'[i] = inbox[i]
  BY <1>1, AppendFacts
<1>4. \A i \in 1..Len(inbox') : \/ i \in 1..Len(inbox) /\ inbox'[i] = inbox[i]
                                \/ inbox'[i] = m /\ \A j \in 1..Len(inbox') : j <= i
  BY <1>1, <1>3
<1>5. \A i \in 1..Len(inbox') : Sent(inbox[i])'
  BY <1>2, <1>4, PublishOrder DEF InOrder
<1>6. \A i, j \in 1..Len(inbox') : i < j => Before(inbox[i], inbox[j])'
  <2> SUFFICES ASSUME NEW i \in 1..Len(inbox'), NEW j \in 1..Len(inbox'), i < j
               PROVE  Before(inbox[i], inbox[j])'
    OBVIOUS
  <2>1. i \in 1..Len(inbox) /\ inbox'[i] = inbox[i]
    BY <1>4
  <2> QED
    BY <1>2, <1>4, <2>1, PublishOrder DEF InOrder
<1>7. \A a \in Accepted' : Sent(a.msg)' /\ a.ts < clock'
  BY <1>1, <1>2, PublishOrder DEF InOrder
<1>8. \A a \in Accepted', i \in 1..Len(inbox') : Before(a.msg, inbox[i])'
  BY <1>1, <1>2, <1>4, PublishOrder DEF InOrder
<1>9. \A a, b \in Accepted' : Before(a.msg, b.msg)' => a.ts < b.ts
  <2> SUFFICES ASSUME NEW a \in Accepted, NEW b \in Accepted, Before(a.msg, b.msg)'
               PROVE  a.ts < b.ts
    BY <1>1
  <2>1. Sent(b.msg) /\ ~Sent(m)
    BY PublishOrder DEF InOrder
  <2>2. b.msg # m
    BY <2>1
  <2>3. Before(a.msg, b.msg)
    BY <1>2, <2>2, PublishOrder
  <2> QED
    BY <2>3 DEF InOrder
<1>10. \A i, j \in 1..Len(published') : published'[i] = published'[j] => i = j
  BY PublishOrder
<1> QED
  BY <1>5, <1>6, <1>7, <1>8, <1>9, <1>10 DEF InOrder

LEMMA InOrderAccept ==
  ASSUME Typed, InOrder, SubAccept PROVE InOrder'
<1> DEFINE it == [msg |-> Head(inbox), ts |-> clock]
<1>1. /\ inbox \in Seq(Messages) /\ inbox # <<>> /\ inbox' = Tail(inbox)
      /\ published' = published /\ clock' = clock + 1 /\ clock \in Nat
  BY DEF SubAccept, Typed, TypeOK
<1>2. /\ Head(inbox) = inbox[1] /\ 1 \in 1..Len(inbox)
      /\ \A i \in 1..Len(inbox') : /\ i + 1 \in 1..Len(inbox) /\ inbox'[i] = inbox[i + 1]
                                   /\ 1 < i + 1
  BY <1>1, TailFacts
<1>3. /\ Accepted' \subseteq Accepted \cup {it} /\ Accepted \subseteq Item
      /\ it.msg = inbox[1] /\ it.ts = clock
  BY <1>2, AcceptedStep, AcceptedTyped DEF Next, Subscriber
<1>4. /\ \A m : Sent(m)' <=> Sent(m)
      /\ \A m, n : Before(m, n)' <=> Before(m, n)
  BY <1>1 DEF Sent, Before
<1>5. \A i \in 1..Len(inbox') : Sent(inbox[i])'
  BY <1>2, <1>4 DEF InOrder
<1>6. \A i, j \in 1..Len(inbox') : i < j => Before(inbox[i], inbox[j])'
  BY <1>2, <1>4 DEF InOrder
<1>7. \A a \in Accepted' : Sent(a.msg)' /\ a.ts < clock'
  <2>1. \A a \in Accepted : Sent(a.msg) /\ a.ts < clock /\ a.ts \in Nat
    BY <1>3 DEF InOrder, Item
  <2>2. Sent(it.msg)
    BY <1>2, <1>3 DEF InOrder
  <2> QED
    BY <1>1, <1>3, <1>4, <2>1, <2>2
<1>8. \A a \in Accepted', i \in 1..Len(inbox') : Before(a.msg, inbox[i])'
  BY <1>2, <1>3, <1>4 DEF InOrder
<1>9. \A a, b \in Accepted' : Before(a.msg, b.msg)' => a.ts < b.ts
  <2> SUFFICES ASSUME NEW a \in Accepted', NEW b \in Accepted', Before(a.msg, b.msg)
               PROVE  a.ts < b.ts
    BY <1>4
  <2>1. CASE a \in Accepted /\ b \in Accepted
    BY <2>1 DEF InOrder
  <2>2. CASE a \in Accepted /\ b = it
    BY <1>3, <2>2 DEF InOrder
  <2>3. CASE a = it /\ b \in Accepted
    <3>1. Before(b.msg, a.msg)
      BY <1>2, <1>3, <2>3 DEF InOrder
    <3> QED
      BY <3>1, BeforeOnce
  <2>4. CASE a = it /\ b = it
    BY <2>4, BeforeOnce
  <2> QED
    BY <1>3, <2>1, <2>2, <2>3, <2>4
<1>10. \A i, j \in 1..Len(published') : published'[i] = published'[j] => i = j
  BY <1>1 DEF InOrder
<1> QED
  BY <1>5, <1>6, <1>7, <1>8, <1>9, <1>10 DEF InOrder

\* Anything else only takes away: from the inbox's front, all of it, or none.
LEMMA InOrderShrink ==
  ASSUME Typed, InOrder, UNCHANGED <<published, clock>>, Accepted' \subseteq Accepted,
         \/ inbox' = inbox
         \/ inbox' = <<>>
         \/ inbox # <<>> /\ inbox' = Tail(inbox)
  PROVE  InOrder'
<1>1. inbox \in Seq(Messages)
  BY DEF Typed, TypeOK
<1>2. \/ \A i \in 1..Len(inbox') : i \in 1..Len(inbox) /\ inbox'[i] = inbox[i]
      \/ \A i \in 1..Len(inbox') : i + 1 \in 1..Len(inbox) /\ inbox'[i] = inbox[i + 1]
  BY <1>1, TailFacts
<1>3. /\ \A m : Sent(m)' <=> Sent(m)
      /\ \A m, n : Before(m, n)' <=> Before(m, n)
  BY DEF Sent, Before
<1>4. /\ \A i \in 1..Len(inbox') : Sent(inbox'[i])
      /\ \A a \in Accepted', i \in 1..Len(inbox') : Before(a.msg, inbox'[i])
  BY <1>2 DEF InOrder
<1>5. \A i, j \in 1..Len(inbox') : i < j => Before(inbox'[i], inbox'[j])
  BY <1>2 DEF InOrder
<1> QED
  BY <1>3, <1>4, <1>5 DEF InOrder

LEMMA InOrderStep == Typed /\ InOrder /\ [Next]_vars => InOrder'
<1> SUFFICES ASSUME Typed, InOrder, [Next]_vars PROVE InOrder'
  OBVIOUS
<1> USE DEF brokerVars, subVars, queueVars, writerVars, tableVars, ctlVars
<1>1. CASE SubAccept
  BY <1>1, InOrderAccept
<1>2. ASSUME NEW m \in Messages, Publish(m) PROVE InOrder'
  BY <1>2, InOrderPublish
<1>3. CASE ~SubAccept /\ ~\E m \in Messages : Publish(m)
  <2>1. Accepted' \subseteq Accepted
    BY <1>3, AcceptedStep
  <2>2. CASE LinkBreak \/ Main \/ Crash \/ UNCHANGED vars
    <3>1. UNCHANGED <<published, clock>> /\ (inbox' = inbox \/ inbox' = <<>>)
      BY <2>2 DEF LinkBreak, Main, Signal, JoinReturns, JoinTimesOut, Exit, Crash, vars
    <3> QED
      BY <2>1, <3>1, InOrderShrink
  <2>3. CASE \/ SubLoop \/ SubConnect \/ SubRefused \/ SubError \/ SubBackoff
             \/ SubBreak \/ SubSkip \/ SubPut
    <3>1. /\ UNCHANGED <<published, clock>>
          /\ \/ inbox' = inbox \/ inbox' = <<>>
             \/ inbox # <<>> /\ inbox' = Tail(inbox)
      BY <2>3 DEF SubLoop, SubConnect, SubRefused, SubError, SubBackoff, SubBreak, SubSkip,
                  SubPut, LeaveClient
    <3> QED
      BY <2>1, <3>1, InOrderShrink
  <2>4. ASSUME NEW w \in Writers, Writer(w) PROVE InOrder'
    <3>1. UNCHANGED <<published, clock, inbox>>
      BY <2>4 DEF Writer, WriterTake, WriterInsert, WriterCommit, WriterFail, WriterSettle,
                  WriterExit
    <3> QED
      BY <2>1, <3>1, InOrderShrink
  <2> QED
    BY <1>3, <2>2, <2>3, <2>4 DEF Next, Broker, Subscriber
<1> QED
  BY <1>1, <1>2, <1>3

\* Sorted by their stamps, the rows come in the order of publication.
THEOREM ReplayInOrder == Spec => []ReplayOrder
<1>1. Init => InOrder
  <2> SUFFICES ASSUME Init PROVE InOrder
    OBVIOUS
  <2>1. Accepted = {}
    BY DEF Init, Accepted, HeldItems, Holding
  <2> QED
    BY <2>1 DEF Init, InOrder
<1>2. Typed /\ InOrder => ReplayOrder
  <2> SUFFICES ASSUME Typed, InOrder,
                      NEW i \in DOMAIN published, NEW j \in DOMAIN published,
                      NEW r1 \in events, NEW r2 \in events,
                      r1.msg = published[i], r2.msg = published[j], i < j
               PROVE  r1.ts < r2.ts
    BY DEF ReplayOrder
  <2> DEFINE a == [msg |-> r1.msg, ts |-> r1.ts]
             b == [msg |-> r2.msg, ts |-> r2.ts]
  <2>1. a \in Accepted /\ b \in Accepted
    BY DEF Accepted
  <2>2. DOMAIN published = 1..Len(published)
    BY DEF Typed, TypeOK
  <2>3. Before(a.msg, b.msg)
    BY <2>2 DEF Before
  <2>4. a.ts < b.ts
    BY <2>1, <2>3 DEF InOrder
  <2> QED
    BY <2>4
<1> QED
  BY <1>1, <1>2, TypedInit, TypedStep, InOrderStep, PTL DEF Spec
-------------------------------------------------------------------------------
(***************************************************************************)
(* ImplementsLog.  A message in hand came from the broker and is worth     *)
(* storing once a writer has it; every step but a publication and a COMMIT *)
(* can only take messages out of hand, which is Lose.                      *)
(***************************************************************************)
InWriting(m) == \E w \in Writers : item[w] # NoItem /\ item[w].msg = m /\ wpc[w] # "settle"
Pending(m) == InInbox(m) \/ InHeld(m) \/ InQueue(m) \/ InWriting(m)

WorthStoring ==
  /\ held # NoItem => held.msg \notin Skipped
  /\ \A i \in 1..Len(queue) : queue[i].msg \notin Skipped
  /\ \A w \in Writers : item[w] # NoItem => item[w].msg \notin Skipped \cup Undecodable

HandsArePending == \A m \in Messages : InHand(m) <=> Pending(m)

LEMMA InHandIsPending == Typed => HandsArePending
<1> SUFFICES ASSUME Typed, NEW m \in Messages PROVE InHand(m) <=> Pending(m)
  BY DEF HandsArePending
<1>1. DOMAIN inbox = 1..Len(inbox) /\ DOMAIN queue = 1..Len(queue)
  BY DEF Typed, TypeOK
<1>2. m \in RangeOf(inbox) <=> InInbox(m)
  BY <1>1 DEF RangeOf, InInbox
<1>3. (\E it \in HeldItems : it.msg = m) <=> InHeld(m)
  BY DEF HeldItems, InHeld
<1>4. (\E it \in RangeOf(queue) : it.msg = m) <=> InQueue(m)
  BY <1>1 DEF RangeOf, InQueue
<1>5. (\E w \in Holding : item[w].msg = m /\ wpc[w] # "settle") <=> InWriting(m)
  BY DEF Holding, InWriting
<1> QED
  BY <1>2, <1>3, <1>4, <1>5 DEF InHand, Pending

LEMMA WorthStoringStep == Typed /\ OneWay /\ WorthStoring /\ [Next]_vars => WorthStoring'
<1> SUFFICES ASSUME Typed, OneWay, WorthStoring, [Next]_vars PROVE WorthStoring'
  OBVIOUS
<1> USE DEF brokerVars, subVars, queueVars, writerVars, tableVars, ctlVars
<1>1. ASSUME UNCHANGED <<held, queue, item>> PROVE WorthStoring'
  BY <1>1 DEF WorthStoring
<1>2. ASSUME NEW it \in Item, it.msg \notin Skipped, queue' = Append(queue, it)
      PROVE  \A i \in 1..Len(queue') : queue'[i].msg \notin Skipped
  <2>1. queue \in Seq(Item) /\ Len(queue) \in Nat
    BY DEF Typed, TypeOK
  <2>2. /\ Len(queue') = Len(queue) + 1 /\ queue'[Len(queue) + 1] = it
        /\ \A i \in 1..Len(queue) : queue'[i] = queue[i]
    BY <1>2, <2>1, AppendFacts
  <2>3. \A i \in 1..Len(queue') : i \in 1..Len(queue) \/ i = Len(queue) + 1
    BY <2>1, <2>2
  <2> QED
    BY <1>2, <2>2, <2>3 DEF WorthStoring
<1>3. CASE SubAccept
  <2> DEFINE it == [msg |-> Head(inbox), ts |-> clock]
  <2>1. it \in Item /\ it.msg \notin Skipped
    BY <1>3 DEF SubAccept, Item, Typed, TypeOK
  <2>2. CASE Put(it) /\ UNCHANGED <<sub, held>>
    BY <1>2, <1>3, <2>1, <2>2 DEF SubAccept, Put, WorthStoring
  <2>3. CASE held' = it /\ UNCHANGED queueVars
    BY <1>3, <2>1, <2>3 DEF SubAccept, WorthStoring
  <2> QED
    BY <1>3, <2>2, <2>3 DEF SubAccept
<1>4. CASE SubPut
  <2>1. held \in Item /\ held.msg \notin Skipped
    BY <1>4 DEF SubPut, Typed, TypeOK, HandsOK, WorthStoring
  <2> QED
    BY <1>2, <1>4, <2>1 DEF SubPut, Put, WorthStoring
<1>5. ASSUME NEW w \in Writers, WriterTake(w) PROVE WorthStoring'
  <2>1. queue \in Seq(Item) /\ queue # <<>> /\ queue' = Tail(queue)
    BY <1>5 DEF WriterTake, Typed, TypeOK
  <2>2. /\ Len(queue) \in Nat \ {0} /\ Head(queue) = queue[1] /\ Len(queue') = Len(queue) - 1
        /\ \A i \in 1..Len(queue') : queue'[i] = queue[i + 1]
    BY <2>1, TailFacts
  <2>3. Head(queue).msg \notin Skipped
    BY <2>2 DEF WorthStoring
  <2>4. \A i \in 1..Len(queue') : queue'[i].msg \notin Skipped
    <3>1. \A i \in 1..Len(queue') : i + 1 \in 1..Len(queue)
      BY <2>2
    <3> QED
      BY <2>2, <3>1 DEF WorthStoring
  <2>5. \A v \in Writers : item'[v] # NoItem => item'[v].msg \notin Skipped \cup Undecodable
    BY <1>5, <2>3 DEF WriterTake, WorthStoring, Typed, TypeOK
  <2> QED
    BY <1>5, <2>4, <2>5 DEF WriterTake, WorthStoring
<1>6. ASSUME NEW w \in Writers, WriterSettle(w) PROVE WorthStoring'
  BY <1>6 DEF WriterSettle, WorthStoring, Typed, TypeOK
<1>7. CASE Crash
  BY <1>7 DEF Crash, WorthStoring
<1>8. ASSUME NEW w \in Writers,
             WriterInsert(w) \/ WriterCommit(w) \/ WriterFail(w) \/ WriterExit(w)
      PROVE  WorthStoring'
  BY <1>1, <1>8 DEF WriterInsert, WriterCommit, WriterFail, WriterExit
<1>9. CASE Broker \/ Main \/ UNCHANGED vars
  BY <1>1, <1>9 DEF Broker, Publish, LinkBreak, Main, Signal, JoinReturns, JoinTimesOut, Exit, vars
<1>10. CASE \/ SubLoop \/ SubConnect \/ SubRefused \/ SubError \/ SubBackoff
           \/ SubBreak \/ SubSkip
  BY <1>1, <1>10 DEF SubLoop, SubConnect, SubRefused, SubError, SubBackoff, SubBreak, SubSkip
<1> QED
  BY <1>3, <1>4, <1>5, <1>6, <1>7, <1>8, <1>9, <1>10 DEF Next, Subscriber, Writer

\* A step that neither publishes nor commits takes nothing into hand.
LEMMA HandsOnlyEmpty ==
  ASSUME Typed, OneWay, [Next]_vars, UNCHANGED <<published, events>>
  PROVE  \A m \in Messages : Pending(m)' => Pending(m)
<1> USE DEF brokerVars, subVars, queueVars, writerVars, tableVars, ctlVars
<1> SUFFICES ASSUME NEW m \in Messages, Pending(m)' PROVE Pending(m)
  OBVIOUS
<1>1. ASSUME inbox' = <<>> \/ inbox' = inbox, UNCHANGED <<held, queue, item, wpc>>
      PROVE  Pending(m)
  BY <1>1 DEF Pending, InInbox, InHeld, InQueue, InWriting
<1>2. CASE SubSkip
  <2>1. InInbox(m)' => InInbox(m)
    BY <1>2, InboxTail DEF SubSkip, OneWay
  <2> QED
    BY <1>2, <2>1 DEF SubSkip, Pending, InHeld, InQueue, InWriting
<1>3. CASE SubAccept
  <2> DEFINE it == [msg |-> Head(inbox), ts |-> clock]
  <2>1. /\ InInbox(m)' => InInbox(m)
        /\ Head(inbox) \in Messages /\ InInbox(Head(inbox))
    BY <1>3, InboxTail DEF SubAccept, OneWay
  <2>2. InWriting(m)' <=> InWriting(m)
    BY <1>3 DEF SubAccept, InWriting
  <2>3. it \in Item /\ it.msg = Head(inbox)
    BY <1>3, <2>1 DEF Item, Typed, TypeOK
  <2>4. CASE Put(it) /\ UNCHANGED <<sub, held>>
    <3>1. ~InQueue(it.msg)
      BY <2>1, <2>3 DEF OneWay, InOnePlace
    <3>2. InQueue(m)' => InQueue(m) \/ m = Head(inbox)
      BY <2>3, <2>4, <3>1, QueueAppend DEF Put, OneWay
    <3>3. InHeld(m)' <=> InHeld(m)
      BY <2>4 DEF InHeld
    <3> QED
      BY <2>1, <2>2, <3>2, <3>3 DEF Pending
  <2>5. CASE held' = it /\ UNCHANGED queueVars
    <3>1. (InQueue(m)' <=> InQueue(m)) /\ (InHeld(m)' => m = Head(inbox))
      BY <2>5 DEF InQueue, InHeld
    <3> QED
      BY <2>1, <2>2, <3>1 DEF Pending
  <2> QED
    BY <1>3, <2>4, <2>5 DEF SubAccept
<1>4. CASE SubPut
  <2>1. held \in Item /\ held # NoItem /\ held.msg \in Messages /\ InHeld(held.msg)
    BY <1>4 DEF SubPut, Typed, TypeOK, HandsOK, Item, InHeld
  <2>2. ~InQueue(held.msg)
    BY <2>1 DEF OneWay, InOnePlace
  <2>3. InQueue(m)' => InQueue(m) \/ m = held.msg
    BY <1>4, <2>1, <2>2, QueueAppend DEF SubPut, Put, OneWay
  <2>4. (InInbox(m)' <=> InInbox(m)) /\ (InWriting(m)' <=> InWriting(m)) /\ ~InHeld(m)'
    BY <1>4 DEF SubPut, InInbox, InWriting, InHeld
  <2> QED
    BY <2>1, <2>3, <2>4 DEF Pending
<1>5. ASSUME NEW w \in Writers, WriterTake(w) PROVE Pending(m)
  <2>1. (InQueue(m)' => InQueue(m)) /\ InQueue(Head(queue).msg)
    BY <1>5, QueueTail DEF WriterTake, OneWay
  <2>2. (InInbox(m)' <=> InInbox(m)) /\ (InHeld(m)' <=> InHeld(m))
    BY <1>5 DEF WriterTake, InInbox, InHeld
  <2>3. InWriting(m)' => InWriting(m) \/ m = Head(queue).msg
    BY <1>5 DEF WriterTake, InWriting, Typed, TypeOK
  <2> QED
    BY <2>1, <2>2, <2>3 DEF Pending
<1>6. ASSUME NEW w \in Writers,
             WriterInsert(w) \/ WriterFail(w) \/ WriterSettle(w) \/ WriterExit(w)
      PROVE  Pending(m)
  <2>1. UNCHANGED <<inbox, held, queue>>
    BY <1>6 DEF WriterInsert, WriterFail, WriterSettle, WriterExit
  <2>2. InWriting(m)' => InWriting(m)
    BY <1>6 DEF WriterInsert, WriterFail, WriterSettle, WriterExit, InWriting,
                Typed, TypeOK, HandsOK
  <2> QED
    BY <2>1, <2>2 DEF Pending, InInbox, InHeld, InQueue
<1>7. CASE Crash
  BY <1>7 DEF Crash, Pending, InInbox, InHeld, InQueue, InWriting
<1>8. CASE LinkBreak \/ Main \/ UNCHANGED vars
  BY <1>1, <1>8 DEF LinkBreak, Main, Signal, JoinReturns, JoinTimesOut, Exit, vars
<1>9. CASE SubLoop \/ SubConnect \/ SubRefused \/ SubError \/ SubBackoff \/ SubBreak
  BY <1>1, <1>9 DEF SubLoop, SubConnect, SubRefused, SubError, SubBackoff, SubBreak, LeaveClient
<1>10. ASSUME NEW n \in Messages, Publish(n) PROVE FALSE
  <2>1. published \in Seq(Messages) /\ published' = Append(published, n)
    BY <1>10 DEF Publish, Typed, TypeOK
  <2>2. Len(published') = Len(published) + 1 /\ Len(published) \in Nat
    BY <2>1, AppendFacts
  <2> QED
    BY <2>2
<1>11. ASSUME NEW w \in Writers, WriterCommit(w) PROVE FALSE
  <2>1. ~Stored(item[w].msg) /\ RowOf(w) \in events' /\ RowOf(w).msg = item[w].msg
    BY <1>11 DEF WriterCommit, OneWay, NothingCommittedYet, MayCommit, RowOf
  <2> QED
    BY <2>1 DEF Stored
<1> QED
  BY <1>2, <1>3, <1>4, <1>5, <1>6, <1>7, <1>8, <1>9, <1>10, <1>11
  DEF Next, Broker, Subscriber, Writer
\* Such a step is Lose, with what it takes out of hand.
LEMMA OthersLose ==
  ASSUME OneWay, HandsArePending, HandsArePending', UNCHANGED <<published, events>>,
         \A m \in Messages : Pending(m)' => Pending(m)
  PROVE  Log!Lose
<1> DEFINE S == {m \in Messages : fateOf[m] = "pending" /\ ~Pending(m)'}
<1>1. S \in SUBSET {m \in Messages : fateOf[m] = "pending"}
  OBVIOUS
<1>2. ASSUME NEW m \in Messages
      PROVE  fateOf'[m] = IF m \in S THEN "lost" ELSE fateOf[m]
  <2>1. /\ Stored(m)' <=> Stored(m)
        /\ RangeOf(published)' = RangeOf(published)
    BY DEF Stored
  <2>2. Pending(m) /\ ~Stored(m) => m \in RangeOf(published)
    <3>1. ASSUME Pending(m) PROVE Sent(m)
      BY <3>1 DEF Pending, InWriting, InWork, OneWay, InOnePlace
    <3> QED
      BY <3>1 DEF Sent, RangeOf
  <2>3. (InHand(m) <=> Pending(m)) /\ (InHand(m)' <=> Pending(m)')
    BY DEF HandsArePending
  <2> QED
    BY <2>1, <2>2, <2>3 DEF fateOf
<1>3. fateOf' = [m \in Messages |-> IF m \in S THEN "lost" ELSE fateOf[m]]
  <2> HIDE DEF S
  <2> QED
    BY <1>2 DEF fateOf
<1> QED
  BY <1>1, <1>3 DEF Log!Lose

\* The broker's message is taken in hand, or nobody hears of it.
LEMMA PublishPublishes ==
  ASSUME Typed, OneWay, HandsArePending, HandsArePending', NEW m \in Messages, Publish(m)
  PROVE  Log!Publish(m)
<1> USE DEF subVars, queueVars, writerVars, tableVars, ctlVars
<1>1. published \in Seq(Messages) /\ inbox \in Seq(Messages)
  BY DEF Typed, TypeOK
<1>2. m \notin RangeOf(published) /\ RangeOf(published') = RangeOf(published) \cup {m}
  <2>1. /\ published' \in Seq(Messages) /\ Len(published') = Len(published) + 1
        /\ published'[Len(published) + 1] = m
        /\ \A i \in 1..Len(published) : published'[i] = published[i]
    BY <1>1, AppendFacts DEF Publish
  <2>2. DOMAIN published' = DOMAIN published \cup {Len(published) + 1}
    BY <1>1, <2>1
  <2>3. \A i \in DOMAIN published : published'[i] = published[i]
    BY <1>1, <2>1
  <2> QED
    BY <2>1, <2>2, <2>3 DEF Publish, RangeOf
<1>3. \A n \in Messages : /\ Stored(n)' <=> Stored(n)
                          /\ InHeld(n)' <=> InHeld(n)
                          /\ InQueue(n)' <=> InQueue(n)
                          /\ InWriting(n)' <=> InWriting(n)
  BY DEF Publish, Stored, InHeld, InQueue, InWriting
<1>4. \A n \in Messages \ {m} : InInbox(n)' <=> InInbox(n)
  <2>1. CASE inbox' = inbox
    BY <2>1 DEF InInbox
  <2>2. CASE inbox' = Append(inbox, m)
    <3>1. /\ Len(inbox') = Len(inbox) + 1 /\ inbox'[Len(inbox) + 1] = m
          /\ \A i \in 1..Len(inbox) : inbox'[i] = inbox[i]
      BY <1>1, <2>2, AppendFacts
    <3>2. /\ \A i \in 1..Len(inbox') : i \in 1..Len(inbox) \/ i = Len(inbox) + 1
          /\ \A i \in 1..Len(inbox) : i \in 1..Len(inbox')
      BY <1>1, <3>1
    <3> QED
      BY <3>1, <3>2 DEF InInbox
  <2> QED
    BY <2>1, <2>2 DEF Publish
<1>5. ~Pending(m) /\ ~Stored(m)
  <2>1. ~Sent(m)
    BY <1>1, <1>2 DEF Sent, RangeOf
  <2> QED
    BY <2>1 DEF Pending, InWriting, InWork, OneWay, InOnePlace
<1>6. fateOf[m] = "unsent" /\ fateOf'[m] \in {"pending", "lost"}
  BY <1>2, <1>3, <1>5 DEF fateOf, HandsArePending
<1>7. ASSUME NEW n \in Messages \ {m} PROVE fateOf'[n] = fateOf[n]
  <2>1. Pending(n)' <=> Pending(n)
    BY <1>3, <1>4 DEF Pending
  <2> QED
    BY <1>2, <1>3, <2>1 DEF fateOf, HandsArePending
<1>8. fateOf' = [fateOf EXCEPT ![m] = fateOf'[m]]
  BY <1>7 DEF fateOf
<1> QED
  BY <1>6, <1>8 DEF Log!Publish

\* The COMMIT stores what its writer had in hand, which is worth it.
LEMMA CommitStores ==
  ASSUME Typed, OneWay, WorthStoring, HandsArePending, HandsArePending',
         NEW w \in Writers, WriterCommit(w)
  PROVE  \E m \in Messages : Log!Store(m)
<1> USE DEF brokerVars, subVars, queueVars, ctlVars
<1>1. /\ UNCHANGED <<published, inbox, held, queue, item>>
      /\ wpc[w] = "commit" /\ wpc'[w] = "settle" /\ events' = events \cup {RowOf(w)}
      /\ \A v \in Writers \ {w} : wpc'[v] = wpc[v]
  BY DEF WriterCommit, Typed, TypeOK
<1>2. PICK m \in Messages : item[w] \in Item /\ item[w] # NoItem /\ item[w].msg = m
  BY <1>1 DEF Typed, TypeOK, HandsOK, Item
<1>3. m \in Messages \ (Skipped \cup Undecodable)
  BY <1>2 DEF WorthStoring
<1>4. ~Stored(m) /\ Pending(m)
  BY <1>1, <1>2 DEF OneWay, NothingCommittedYet, MayCommit, Pending, InWriting
<1>5. fateOf[m] = "pending" /\ fateOf'[m] = "stored"
  <2>1. RowOf(w).msg = m /\ RowOf(w) \in events'
    BY <1>1, <1>2 DEF RowOf
  <2>2. Stored(m)'
    BY <2>1 DEF Stored
  <2> QED
    BY <1>2, <1>4, <2>2 DEF fateOf, HandsArePending
<1>6. ASSUME NEW n \in Messages \ {m} PROVE fateOf'[n] = fateOf[n]
  <2>1. Stored(n)' <=> Stored(n)
    BY <1>1, <1>2 DEF Stored, RowOf
  <2>2. InWriting(n)' <=> InWriting(n)
    BY <1>1, <1>2 DEF InWriting
  <2>3. Pending(n)' <=> Pending(n)
    BY <1>1, <2>2 DEF Pending, InInbox, InHeld, InQueue
  <2> QED
    BY <1>1, <2>1, <2>3 DEF fateOf, HandsArePending
<1>7. fateOf' = [fateOf EXCEPT ![m] = "stored"]
  BY <1>2, <1>5, <1>6 DEF fateOf
<1> QED
  BY <1>2, <1>3, <1>5, <1>7 DEF Log!Store

LEMMA EveryStepMaps ==
  ASSUME Typed, OneWay, WorthStoring, HandsArePending, HandsArePending', [Next]_vars
  PROVE  [Log!Next]_fateOf
<1> USE DEF brokerVars, subVars, queueVars, writerVars, tableVars, ctlVars
<1>1. ASSUME NEW m \in Messages, Publish(m) PROVE Log!Next
  BY <1>1, PublishPublishes DEF Log!Next
<1>2. ASSUME NEW w \in Writers, WriterCommit(w) PROVE Log!Next
  BY <1>2, CommitStores DEF Log!Next
<1>3. CASE UNCHANGED <<published, events>>
  BY <1>3, HandsOnlyEmpty, OthersLose DEF Log!Next
<1>4. \/ \E m \in Messages : Publish(m)
      \/ \E w \in Writers : WriterCommit(w)
      \/ UNCHANGED <<published, events>>
  BY DEF Next, Broker, LinkBreak, Subscriber, SubLoop, SubConnect, SubRefused, SubError, SubBackoff,
         SubBreak, SubSkip, SubAccept, SubPut, Writer, WriterTake, WriterInsert, WriterFail,
         WriterSettle, WriterExit, Main, Signal, JoinReturns, JoinTimesOut, Exit, Crash, vars
<1> QED
  BY <1>1, <1>2, <1>3, <1>4

\* The archive implements EventLog: every message has one fate, decided once, and no
\* crash, fault, or order of the writers stores what is not worth storing.
THEOREM ArchiveImplementsLog == Spec => ImplementsLog
<1>1. Init => OneWay /\ WorthStoring
  BY DEF Init, OneWay, InOnePlace, NoRepeats, NothingCommittedYet, AtMostOnce, MayCommit,
         InInbox, InHeld, InQueue, InWork, Stored, WorthStoring
<1>2. Init => Log!Init
  <2> SUFFICES ASSUME Init PROVE fateOf = [m \in Messages |-> "unsent"]
    BY DEF Log!Init
  <2>1. \A m \in Messages : ~Stored(m) /\ ~InHand(m) /\ m \notin RangeOf(published)
    BY DEF Init, Stored, InHand, RangeOf, HeldItems, Holding
  <2> QED
    BY <2>1 DEF fateOf
<1>3. ASSUME Typed, OneWay, WorthStoring, HandsArePending, HandsArePending', [Next]_vars
      PROVE  [Log!Next]_fateOf
  BY <1>3, EveryStepMaps
<1> QED
  BY <1>1, <1>2, <1>3, TypedInit, TypedStep, OneWayStep, WorthStoringStep, InHandIsPending, PTL
  DEF Spec, ImplementsLog, Log!Spec
===============================================================================
