----------------------- MODULE RequestTransactionsProofs -----------------------
(***************************************************************************)
(* Proofs about RequestTransactions, for any requests, rows and programs   *)
(* that keep the rule of no write pending at an await: no lock is held     *)
(* across a yield, answers match the database, units are all or nothing.   *)
(***************************************************************************)
EXTENDS RequestTransactions, TLAPS

LEMMA ProgramFacts ==
  /\ \A r \in Requests : /\ Program[r] \in Seq(Seq(Step)) /\ Len(Program[r]) \in Nat
                         /\ DOMAIN Program[r] = 1..Len(Program[r])
  /\ \A r \in Requests : \A m \in 1..Len(Program[r]) :
        /\ Program[r][m] \in Seq(Step) /\ Len(Program[r][m]) \in Nat
        /\ DOMAIN Program[r][m] = 1..Len(Program[r][m])
        /\ Disciplined(Program[r][m])
  /\ \A r \in Requests : r # NoRequest /\ r # Other
  BY RequestAssumption

LEMMA EndTyped ==
  ASSUME TypeOK, NEW r \in Requests, NEW d, EndTransaction(r, d)
  PROVE  /\ lock' \in [Rows -> Requests \cup {NoRequest, Other}]
         /\ pending' \in [Requests -> SUBSET (Nat \X Nat)]
         /\ saved' \in [Requests -> SUBSET (Nat \X Nat)]
  BY DEF EndTransaction, TypeOK

\* What EndTransaction does, request by request.
LEMMA EndFacts ==
  ASSUME TypeOK, NEW r \in Requests, NEW d, EndTransaction(r, d)
  PROVE  /\ pending'[r] = {}
         /\ saved'[r] = saved[r] \/ saved'[r] = saved[r] \cup pending[r]
         /\ d = TRUE => saved'[r] = saved[r] \cup pending[r]
         /\ d = FALSE => saved'[r] = saved[r]
         /\ \A q \in Requests : q # r => pending'[q] = pending[q] /\ saved'[q] = saved[q]
         /\ \A x \in Rows : lock'[x] # r /\ \A q \in Requests : lock'[x] = q => lock[x] = q
  BY RequestAssumption DEF EndTransaction, TypeOK

LEMMA AnswerTyped ==
  ASSUME TypeOK, NEW r \in Requests, InMutation(r), NEW a \in Answers, Answer(r, a)
  PROVE  /\ answer' \in [Requests -> Seq(Answers)]
         /\ loop' = NoRequest /\ phase' = phase
         /\ pos' \in [Requests -> Nat] /\ pos'[r] = 1
         /\ mut' \in [Requests -> Nat] /\ mut'[r] \in (mut[r] + 1)..(Len(Program[r]) + 1)
         /\ a = "ok" => mut'[r] = mut[r] + 1
         /\ \A q \in Requests : q # r => mut'[q] = mut[q] /\ pos'[q] = pos[q] /\ answer'[q] = answer[q]
         /\ answer'[r] = Append(answer[r], a)
<1>1. mut[r] \in 1..Len(Program[r]) /\ Len(Program[r]) \in Nat
  BY ProgramFacts DEF InMutation
<1>2. answer[r] \in Seq(Answers) /\ Append(answer[r], a) \in Seq(Answers)
  BY DEF TypeOK
<1>3. \/ mut' = [mut EXCEPT ![r] = mut[r] + 1]
      \/ a # "ok" /\ mut' = [mut EXCEPT ![r] = Len(Program[r]) + 1]
  BY DEF Answer
<1>4. /\ mut' \in [Requests -> Nat]
      /\ mut'[r] \in (mut[r] + 1)..(Len(Program[r]) + 1)
      /\ a = "ok" => mut'[r] = mut[r] + 1
      /\ \A q \in Requests : q # r => mut'[q] = mut[q]
  <2>1. mut \in [Requests -> Nat] /\ mut[r] + 1 \in Nat /\ Len(Program[r]) + 1 \in Nat
    BY <1>1 DEF TypeOK
  <2>2. CASE mut' = [mut EXCEPT ![r] = mut[r] + 1]
    <3>1. mut' \in [Requests -> Nat] /\ mut'[r] = mut[r] + 1
      BY <2>1, <2>2
    <3> QED
      BY <1>1, <2>2, <3>1
  <2>3. CASE a # "ok" /\ mut' = [mut EXCEPT ![r] = Len(Program[r]) + 1]
    <3>1. mut' \in [Requests -> Nat] /\ mut'[r] = Len(Program[r]) + 1
      BY <2>1, <2>3
    <3> QED
      BY <1>1, <2>3, <3>1
  <2> QED
    BY <1>3, <2>2, <2>3
<1>5. /\ loop' = NoRequest /\ phase' = phase
      /\ answer' = [answer EXCEPT ![r] = Append(answer[r], a)] /\ pos' = [pos EXCEPT ![r] = 1]
  BY DEF Answer
<1>6. answer \in [Requests -> Seq(Answers)] /\ pos \in [Requests -> Nat]
  BY DEF TypeOK
<1>7. /\ answer' \in [Requests -> Seq(Answers)] /\ answer'[r] = Append(answer[r], a)
      /\ \A q \in Requests : q # r => answer'[q] = answer[q]
  BY <1>2, <1>5, <1>6
<1>8. pos' \in [Requests -> Nat] /\ pos'[r] = 1 /\ \A q \in Requests : q # r => pos'[q] = pos[q]
  BY <1>5, <1>6
<1>9. \A q \in Requests : q # r => mut'[q] = mut[q] /\ pos'[q] = pos[q] /\ answer'[q] = answer[q]
  BY <1>4, <1>7, <1>8, Zenon
<1> QED
  BY <1>4, <1>5, <1>7, <1>8, <1>9
-------------------------------------------------------------------------------
(***************************************************************************)
(* Types                                                                   *)
(***************************************************************************)
PosOK(r) == /\ mut[r] \in 1..(Len(Program[r]) + 1)
            /\ InMutation(r) => pos[r] \in 1..(Len(Current(r)) + 1)

\* One request's position moves to a place in its program; the others stay.
LEMMA PositionsOf ==
  ASSUME TypeOK, NEW r \in Requests,
         mut' \in [Requests -> Nat], pos' \in [Requests -> Nat],
         \A q \in Requests : q # r => mut'[q] = mut[q] /\ pos'[q] = pos[q],
         PosOK(r)'
  PROVE  \A q \in Requests : PosOK(q)'
  BY DEF TypeOK, PosOK, InMutation, Current

\* The step that moves on inside a resolver.
LEMMA NextStepTyped ==
  ASSUME TypeOK, NEW r \in Requests, InMutation(r), pos[r] \in DOMAIN Current(r),
         mut' = mut, pos' = [pos EXCEPT ![r] = pos[r] + 1]
  PROVE  pos' \in [Requests -> Nat] /\ \A q \in Requests : PosOK(q)'
<1>1. /\ mut[r] \in 1..Len(Program[r])
      /\ DOMAIN Current(r) = 1..Len(Current(r)) /\ Len(Current(r)) \in Nat
  BY ProgramFacts DEF InMutation, Current
<1>2. /\ mut \in [Requests -> Nat] /\ pos \in [Requests -> Nat]
      /\ mut[r] \in 1..(Len(Program[r]) + 1)
  BY DEF TypeOK
<1>3. pos' \in [Requests -> Nat] /\ pos'[r] = pos[r] + 1
  BY <1>2
<1>4. pos'[r] \in 1..(Len(Current(r)) + 1)
  BY <1>1, <1>3
<1>5. PosOK(r)'
  BY <1>2, <1>4 DEF PosOK, InMutation, Current
<1>6. \A q \in Requests : q # r => mut'[q] = mut[q] /\ pos'[q] = pos[q]
  BY <1>2
<1> QED
  BY <1>2, <1>3, <1>5, <1>6, PositionsOf

\* The step that answers a root mutation.
LEMMA AnsweredTyped ==
  ASSUME TypeOK, NEW r \in Requests, InMutation(r), NEW a \in Answers, Answer(r, a)
  PROVE  \A q \in Requests : PosOK(q)'
<1>1. PosOK(r)'
  <2>1. /\ mut'[r] \in (mut[r] + 1)..(Len(Program[r]) + 1) /\ pos'[r] = 1
        /\ mut[r] \in 1..Len(Program[r])
    BY AnswerTyped, ProgramFacts DEF InMutation
  <2>2. mut'[r] \in 1..(Len(Program[r]) + 1)
    BY <2>1, ProgramFacts
  <2>3. mut'[r] \in DOMAIN Program[r] => 1 \in 1..(Len(Program[r][mut'[r]]) + 1)
    BY ProgramFacts
  <2> QED
    BY <2>1, <2>2, <2>3 DEF PosOK, InMutation, Current
<1> QED
  BY <1>1, AnswerTyped, PositionsOf

LEMMA TypeStep == TypeOK /\ [Next]_vars => TypeOK'
<1> SUFFICES ASSUME TypeOK, [Next]_vars PROVE TypeOK'
  OBVIOUS
<1>1. ASSUME NEW r \in Requests, DoWrite(r) \/ DoAwait(r) \/ DoCommit(r) PROVE TypeOK'
  <2>1. /\ InMutation(r) /\ pos[r] \in DOMAIN Current(r)
        /\ mut' = mut /\ pos' = [pos EXCEPT ![r] = pos[r] + 1]
    BY <1>1 DEF DoWrite, DoAwait, DoCommit, AtStep
  <2>2. pos' \in [Requests -> Nat] /\ \A q \in Requests : PosOK(q)'
    BY <2>1, NextStepTyped
  <2>3. CASE DoWrite(r)
    <3>1. <<mut[r], pos[r]>> \in Nat \X Nat
      BY DEF TypeOK
    <3>2. pending' \in [Requests -> SUBSET (Nat \X Nat)]
      BY <2>3, <3>1 DEF DoWrite, TypeOK
    <3>3. lock' \in [Rows -> Requests \cup {NoRequest, Other}]
      BY <2>3 DEF DoWrite, TypeOK
    <3> QED
      BY <2>1, <2>2, <2>3, <3>2, <3>3 DEF DoWrite, TypeOK, PosOK
  <2>4. CASE DoAwait(r)
    BY <2>1, <2>2, <2>4 DEF DoAwait, TypeOK, PosOK
  <2>5. CASE DoCommit(r)
    BY <2>1, <2>2, <2>5, EndTyped DEF DoCommit, TypeOK, PosOK
  <2> QED
    BY <1>1, <2>3, <2>4, <2>5
<1>2. ASSUME NEW r \in Requests,
             CommitLost(r) \/ Settle(r) \/ SettleRefused(r) \/ SettleUnknown(r) \/ Fail(r)
      PROVE  TypeOK'
  <2>1. PICK a \in Answers, d \in BOOLEAN : Answer(r, a) /\ EndTransaction(r, d)
    BY <1>2 DEF CommitLost, Settle, SettleRefused, SettleUnknown, Fail, Answers
  <2>2. InMutation(r)
    BY <1>2 DEF CommitLost, Settle, SettleRefused, SettleUnknown, Fail, AtStep, AtReturn
  <2>3. cut' \in [Requests -> SUBSET Nat]
    <3>1. cut' = cut \/ cut' = [cut EXCEPT ![r] = cut[r] \cup {mut[r]}]
      BY <1>2 DEF CommitLost, Settle, SettleRefused, SettleUnknown, Fail
    <3>2. cut \in [Requests -> SUBSET Nat] /\ mut[r] \in Nat
      BY DEF TypeOK
    <3> QED
      BY <3>1, <3>2
  <2> QED
    BY <2>1, <2>2, <2>3, EndTyped, AnswerTyped, AnsweredTyped DEF TypeOK, PosOK
<1>3. ASSUME NEW r \in Requests, Cancel(r) \/ Teardown(r) PROVE TypeOK'
  <2>1. PICK d \in BOOLEAN : EndTransaction(r, d)
    BY <1>3 DEF Cancel, Teardown
  <2> QED
    BY <1>3, <2>1, EndTyped DEF Cancel, Teardown, TypeOK, InMutation, Current
<1>4. ASSUME NEW r \in Requests, Resume(r) \/ Awaited(r) PROVE TypeOK'
  BY <1>4 DEF Resume, Awaited, TypeOK, InMutation, Current
<1>5. ASSUME NEW x \in Rows, OtherLocks(x) \/ OtherUnlocks(x) PROVE TypeOK'
  BY <1>5 DEF OtherLocks, OtherUnlocks, TypeOK, InMutation, Current
<1>6. CASE UNCHANGED vars
  BY <1>6 DEF vars, TypeOK, InMutation, Current
<1> QED
  BY <1>1, <1>2, <1>3, <1>4, <1>5, <1>6 DEF Next, OnLoop

\* Every variable keeps its type, and every position is one of the program.
THEOREM TypeCorrect == Spec => []TypeOK
<1>1. Init => TypeOK
  <2> SUFFICES ASSUME Init PROVE TypeOK
    OBVIOUS
  <2>1. \A r \in Requests : /\ 1 \in 1..(Len(Program[r]) + 1)
                            /\ 1 \in DOMAIN Program[r] => 1 \in 1..(Len(Program[r][1]) + 1)
    <3> TAKE r \in Requests
    <3>1. 1 \in 1..(Len(Program[r]) + 1)
      BY ProgramFacts
    <3>2. ASSUME 1 \in DOMAIN Program[r] PROVE 1 \in 1..(Len(Program[r][1]) + 1)
      <4>1. Len(Program[r][1]) \in Nat
        BY <3>2, ProgramFacts
      <4> QED
        BY <4>1
    <3> QED
      BY <3>1, <3>2
  <2> QED
    BY <2>1 DEF Init, TypeOK, InMutation, Current
<1> QED
  BY <1>1, TypeStep, PTL DEF Spec
-------------------------------------------------------------------------------
(***************************************************************************)
(* The ledger: what is pending and what is saved of every mutation, from   *)
(* the position of its request.                                            *)
(***************************************************************************)
IsWrite(p, i) == i \in 1..Len(p) /\ p[i].do = "write"

\* A commit of p's own, before position n, made write i durable.
Covered(p, i, n) == \E j \in 1..Len(p) : i < j /\ j < n /\ p[j].do = "commit"

\* All of mutation m is durable; or what its own commits before n had covered.
AllSaved(r, m) == \A i \in Nat : <<m, i>> \in saved[r] <=> IsWrite(Program[r][m], i)
PartSaved(r, m) ==
  \E n \in Nat : \A i \in Nat : <<m, i>> \in saved[r] <=> (/\ IsWrite(Program[r][m], i)
                                                          /\ Covered(Program[r][m], i, n))

\* Mutation m of r, at position n of it.
UnderWay(r, m, n) ==
  /\ \A i \in Nat : <<m, i>> \in saved[r] <=> (/\ IsWrite(Program[r][m], i)
                                              /\ Covered(Program[r][m], i, n))
  /\ \A k, i \in Nat : <<k, i>> \in pending[r] <=> (/\ k = m /\ i < n
                                                   /\ IsWrite(Program[r][m], i)
                                                   /\ ~Covered(Program[r][m], i, n))

Told(r, m) == /\ answer[r][m] = "ok" => AllSaved(r, m)
              /\ answer[r][m] = "error" => PartSaved(r, m) \/ (m \in cut[r] /\ AllSaved(r, m))

Ledger(r) ==
  /\ IF InMutation(r) THEN UnderWay(r, mut[r], pos[r]) /\ Len(answer[r]) = mut[r] - 1
                      ELSE pending[r] = {}
  /\ \A m \in 1..Len(Program[r]) : \A i \in Nat : m > mut[r] => <<m, i>> \notin saved[r]
  /\ \A m \in 1..Len(Program[r]) : m < mut[r] => AllSaved(r, m) \/ PartSaved(r, m)
  /\ \A m \in 1..Len(answer[r]) : m < mut[r] /\ Told(r, m)

Books == /\ \A r \in Requests : Ledger(r)
         /\ \A r \in Requests : loop # r => pending[r] = {}
         /\ \A r \in Requests, x \in Rows : lock[x] = r => pending[r] # {}

\* A request that a step does not touch keeps its ledger.
LEMMA LedgerUntouched ==
  ASSUME NEW q \in Requests, Ledger(q),
         mut'[q] = mut[q], pos'[q] = pos[q], pending'[q] = pending[q], saved'[q] = saved[q],
         answer'[q] = answer[q], cut'[q] = cut[q]
  PROVE  Ledger(q)'
<1>1. /\ \A m : AllSaved(q, m)' <=> AllSaved(q, m)
      /\ \A m : PartSaved(q, m)' <=> PartSaved(q, m)
      /\ \A m, n : UnderWay(q, m, n)' <=> UnderWay(q, m, n)
      /\ InMutation(q)' <=> InMutation(q)
  BY DEF AllSaved, PartSaved, UnderWay, InMutation
<1>2. \A m : Told(q, m)' <=> Told(q, m)
  BY <1>1 DEF Told
<1>3. UnderWay(q, mut[q], pos[q])' <=> UnderWay(q, mut[q], pos[q])
  BY DEF UnderWay
<1> QED
  BY <1>1, <1>2, <1>3 DEF Ledger

\* Nothing is covered before the first commit could be.
LEMMA CoveredLate ==
  ASSUME NEW p, NEW i, NEW n \in {0, 1}, IsWrite(p, i) PROVE ~Covered(p, i, n)
  BY DEF IsWrite, Covered

LEMMA LedgerAnswered ==
  ASSUME TypeOK, NEW r \in Requests, Ledger(r), InMutation(r), NEW m \in Nat, m = mut[r],
         NEW a \in Answers, Answer(r, a),
         pending'[r] = {},
         \A k \in Nat, i \in Nat : k # m => (<<k, i>> \in saved'[r] <=> <<k, i>> \in saved[r]),
         a = "ok" => AllSaved(r, m)', cut[r] \subseteq cut'[r],
         a = "error" => PartSaved(r, m)' \/ (m \in cut'[r] /\ AllSaved(r, m)'),
         AllSaved(r, m)' \/ PartSaved(r, m)'
  PROVE  Ledger(r)'
<1>1. /\ m \in 1..Len(Program[r]) /\ Len(Program[r]) \in Nat /\ DOMAIN Program[r] = 1..Len(Program[r])
      /\ Len(answer[r]) = m - 1
  BY ProgramFacts DEF InMutation, Ledger
<1>2. /\ mut'[r] \in (m + 1)..(Len(Program[r]) + 1) /\ pos'[r] = 1
      /\ mut'[r] = m + 1 \/ mut'[r] = Len(Program[r]) + 1
      /\ answer[r] \in Seq(Answers) /\ answer'[r] = Append(answer[r], a)
  BY AnswerTyped DEF Answer, TypeOK
<1>3. /\ Len(answer'[r]) = m /\ answer'[r][m] = a
      /\ \A k \in 1..Len(answer[r]) : answer'[r][k] = answer[r][k]
  BY <1>1, <1>2
<1>4. \A k \in Nat : k # m => /\ AllSaved(r, k)' <=> AllSaved(r, k)
                              /\ PartSaved(r, k)' <=> PartSaved(r, k)
  BY DEF AllSaved, PartSaved
<1>5. \A k \in 1..Len(Program[r]) : k > m => \A i \in Nat : <<k, i>> \notin saved'[r]
  BY <1>1 DEF Ledger
<1>6. IF InMutation(r)' THEN UnderWay(r, mut[r], pos[r])' /\ Len(answer'[r]) = mut'[r] - 1
                        ELSE pending'[r] = {}
  <2>1. CASE InMutation(r)'
    <3>1. mut'[r] = m + 1 /\ mut'[r] \in 1..Len(Program[r])
      BY <1>1, <1>2, <2>1 DEF InMutation
    <3>2. \A i \in Nat : <<mut'[r], i>> \notin saved'[r]
      BY <1>1, <1>5, <3>1
    <3>3. \A i \in Nat : IsWrite(Program[r][mut'[r]], i) => /\ ~Covered(Program[r][mut'[r]], i, 1)
                                                            /\ ~(i < 1)
      BY CoveredLate DEF IsWrite
    <3>4. UnderWay(r, mut[r], pos[r])'
      BY <1>2, <3>2, <3>3 DEF UnderWay
    <3> QED
      BY <1>3, <2>1, <3>1, <3>4
  <2> QED
    BY <2>1
<1>7. \A k \in 1..Len(Program[r]) : \A i \in Nat : k > mut'[r] => <<k, i>> \notin saved'[r]
  <2>1. \A k \in 1..Len(Program[r]) : k > mut'[r] => k > m
    BY <1>1, <1>2
  <2> QED
    BY <1>5, <2>1
<1>8. ASSUME NEW k \in 1..Len(Program[r]), k < mut'[r] PROVE (AllSaved(r, k) \/ PartSaved(r, k))'
  <2>1. CASE k < m
    BY <1>1, <1>4, <2>1 DEF Ledger
  <2>2. CASE k > m
    <3>1. \A i \in Nat : /\ <<k, i>> \notin saved'[r]
                         /\ IsWrite(Program[r][k], i) => ~Covered(Program[r][k], i, 0)
      BY <1>5, <2>2, CoveredLate
    <3> QED
      BY <3>1 DEF PartSaved
  <2> QED
    BY <1>1, <2>1, <2>2
<1>9. ASSUME NEW k \in 1..Len(answer'[r]) PROVE k < mut'[r] /\ Told(r, k)'
  <2>1. CASE k = m
    <3>1. Told(r, m)'
      BY <1>3 DEF Told
    <3> QED
      BY <1>1, <1>2, <2>1, <3>1
  <2>2. CASE k # m
    <3>1. k \in 1..Len(answer[r]) /\ k \in Nat /\ k < mut'[r]
      BY <1>1, <1>2, <1>3, <2>2
    <3>2. Told(r, k)
      BY <3>1 DEF Ledger
    <3> QED
      BY <1>3, <1>4, <2>2, <3>1, <3>2 DEF Told
  <2> QED
    BY <2>1, <2>2
<1> QED
  BY <1>6, <1>7, <1>8, <1>9 DEF Ledger

\* A step inside mutation m keeps what is said of the others.
LEMMA LedgerMoved ==
  ASSUME TypeOK, NEW r \in Requests, Ledger(r), InMutation(r), NEW m \in Nat, m = mut[r],
         mut' = mut, answer' = answer, cut' = cut, NEW n \in Nat, pos'[r] = n,
         \A k \in Nat, i \in Nat : k # m => (<<k, i>> \in saved'[r] <=> <<k, i>> \in saved[r]),
         UnderWay(r, m, n)'
  PROVE  Ledger(r)'
<1>1. /\ m \in 1..Len(Program[r]) /\ Len(Program[r]) \in Nat
      /\ InMutation(r)' /\ mut'[r] = m /\ answer'[r] = answer[r] /\ Len(answer[r]) = m - 1
  BY ProgramFacts DEF InMutation, Ledger
<1>2. \A k \in Nat : k # m => /\ AllSaved(r, k)' <=> AllSaved(r, k)
                              /\ PartSaved(r, k)' <=> PartSaved(r, k)
  BY DEF AllSaved, PartSaved
<1>3. \A k \in 1..Len(answer[r]) : k # m /\ k \in Nat /\ k < m /\ Told(r, k)
  BY <1>1 DEF Ledger
<1>4. \A k \in 1..Len(answer[r]) : Told(r, k)'
  BY <1>1, <1>2, <1>3 DEF Told
<1>5. UnderWay(r, mut[r], pos[r])'
  BY <1>1 DEF UnderWay
<1>6. \A k \in 1..Len(Program[r]) : \A i \in Nat : k > m => <<k, i>> \notin saved'[r]
  BY <1>1 DEF Ledger
<1>7. \A k \in 1..Len(Program[r]) : k < m => (AllSaved(r, k) \/ PartSaved(r, k))'
  BY <1>1, <1>2 DEF Ledger
<1> QED
  BY <1>1, <1>3, <1>4, <1>5, <1>6, <1>7 DEF Ledger

\* One step further, only a commit covers more than before.
LEMMA CoveredNext ==
  ASSUME NEW p, Len(p) \in Nat, NEW n \in 1..Len(p), NEW i \in Nat
  PROVE  Covered(p, i, n + 1) <=> Covered(p, i, n) \/ (i < n /\ p[n].do = "commit")
  BY DEF Covered

\* Where request r is, between the steps of a resolver.
LEMMA AtStepFacts ==
  ASSUME TypeOK, NEW r \in Requests, Ledger(r), NEW kind, AtStep(r, kind)
  PROVE  /\ InMutation(r) /\ mut[r] \in Nat /\ pos[r] \in Nat
         /\ mut[r] \in 1..Len(Program[r])
         /\ Current(r) = Program[r][mut[r]]
         /\ Len(Current(r)) \in Nat /\ pos[r] \in 1..Len(Current(r))
         /\ Current(r)[pos[r]].do = kind
         /\ UnderWay(r, mut[r], pos[r])
  BY ProgramFacts DEF TypeOK, Ledger, AtStep, InMutation, Current

LEMMA LedgerWrite ==
  ASSUME TypeOK, NEW r \in Requests, Ledger(r), DoWrite(r)
  PROVE  Ledger(r)' /\ <<mut[r], pos[r]>> \in pending'[r]
<1> SUFFICES ASSUME NEW m \in Nat, m = mut[r], NEW n \in Nat, n = pos[r]
             PROVE  Ledger(r)' /\ <<mut[r], pos[r]>> \in pending'[r]
  BY DEF TypeOK
<1> DEFINE p == Program[r][m]
<1>1. /\ InMutation(r)
      /\ Len(p) \in Nat /\ n \in 1..Len(p) /\ p[n].do = "write" /\ UnderWay(r, m, n)
  BY AtStepFacts DEF DoWrite
<1>2. /\ mut' = mut /\ answer' = answer /\ cut' = cut /\ saved' = saved /\ pos'[r] = n + 1
      /\ pending'[r] = pending[r] \cup {<<m, n>>}
  BY DEF DoWrite, TypeOK
<1>3. \A i \in Nat : Covered(p, i, n + 1) <=> Covered(p, i, n)
  BY <1>1, CoveredNext
<1>4. IsWrite(p, n) /\ ~Covered(p, n, n)
  BY <1>1 DEF IsWrite, Covered
<1>5. \A k, i \in Nat : <<k, i>> \in pending'[r] <=> (/\ k = m /\ i < n + 1
                                                     /\ IsWrite(p, i) /\ ~Covered(p, i, n + 1))
  <2> SUFFICES ASSUME NEW k \in Nat, NEW i \in Nat
               PROVE  <<k, i>> \in pending'[r] <=> (/\ k = m /\ i < n + 1
                                                   /\ IsWrite(p, i) /\ ~Covered(p, i, n + 1))
    OBVIOUS
  <2>1. <<k, i>> \in pending[r] <=> k = m /\ i < n /\ IsWrite(p, i) /\ ~Covered(p, i, n)
    BY <1>1 DEF UnderWay
  <2>2. <<k, i>> \in pending'[r] <=> <<k, i>> \in pending[r] \/ (k = m /\ i = n)
    BY <1>2
  <2>3. i < n + 1 <=> i < n \/ i = n
    BY <1>1
  <2> QED
    BY <1>3, <1>4, <2>1, <2>2, <2>3
<1>6. \A i \in Nat : <<m, i>> \in saved'[r] <=> IsWrite(p, i) /\ Covered(p, i, n + 1)
  BY <1>1, <1>2, <1>3 DEF UnderWay
<1>7. UnderWay(r, m, n + 1)'
  BY <1>1, <1>2, <1>5, <1>6 DEF UnderWay
<1>8. Ledger(r)'
  BY <1>1, <1>2, <1>7, LedgerMoved
<1> QED
  BY <1>2, <1>8

LEMMA LedgerCommit ==
  ASSUME TypeOK, NEW r \in Requests, Ledger(r), DoCommit(r)
  PROVE  Ledger(r)'
<1> SUFFICES ASSUME NEW m \in Nat, m = mut[r], NEW n \in Nat, n = pos[r]
             PROVE  Ledger(r)'
  BY DEF TypeOK
<1> DEFINE p == Program[r][m]
<1>1. /\ InMutation(r)
      /\ Len(p) \in Nat /\ n \in 1..Len(p) /\ p[n].do = "commit" /\ UnderWay(r, m, n)
  BY AtStepFacts DEF DoCommit
<1>2. /\ mut' = mut /\ answer' = answer /\ cut' = cut /\ pos'[r] = n + 1
      /\ saved'[r] = saved[r] \cup pending[r] /\ pending'[r] = {}
  BY EndFacts DEF DoCommit, TypeOK
<1>3. \A i \in Nat : /\ Covered(p, i, n + 1) <=> Covered(p, i, n) \/ i < n
                     /\ IsWrite(p, i) => i # n
  BY <1>1, CoveredNext DEF IsWrite
<1>4. \A i \in Nat : Covered(p, i, n) => i < n
  BY <1>1 DEF Covered
<1>5. \A i \in Nat : <<m, i>> \in saved'[r] <=> IsWrite(p, i) /\ Covered(p, i, n + 1)
  BY <1>1, <1>2, <1>3, <1>4 DEF UnderWay
<1>6. \A i \in Nat : IsWrite(p, i) /\ i < n + 1 => Covered(p, i, n + 1)
  BY <1>1, <1>3
<1>7. \A k, i \in Nat : k # m => (<<k, i>> \in saved'[r] <=> <<k, i>> \in saved[r])
  BY <1>1, <1>2 DEF UnderWay
<1>8. UnderWay(r, m, n + 1)'
  BY <1>1, <1>2, <1>5, <1>6 DEF UnderWay
<1> QED
  BY <1>1, <1>2, <1>7, <1>8, LedgerMoved

\* An await finds nothing pending: a write before it would be covered.
LEMMA LedgerAwait ==
  ASSUME TypeOK, NEW r \in Requests, Ledger(r), DoAwait(r)
  PROVE  Ledger(r)' /\ pending[r] = {}
<1> SUFFICES ASSUME NEW m \in Nat, m = mut[r], NEW n \in Nat, n = pos[r]
             PROVE  Ledger(r)' /\ pending[r] = {}
  BY DEF TypeOK
<1> DEFINE p == Program[r][m]
<1>1. /\ InMutation(r) /\ m \in 1..Len(Program[r])
      /\ Len(p) \in Nat /\ n \in 1..Len(p) /\ p[n].do = "await" /\ UnderWay(r, m, n)
  BY AtStepFacts DEF DoAwait
<1>2. /\ mut' = mut /\ answer' = answer /\ saved' = saved /\ pending' = pending /\ pos'[r] = n + 1
      /\ cut' = cut
  BY DEF DoAwait, TypeOK
<1>3. \A i \in Nat : /\ Covered(p, i, n + 1) <=> Covered(p, i, n)
                     /\ IsWrite(p, i) => i # n
  BY <1>1, CoveredNext DEF IsWrite
<1>4. Disciplined(p) /\ DOMAIN p = 1..Len(p)
  BY <1>1, ProgramFacts
<1>5. \A i \in Nat : IsWrite(p, i) /\ i < n => Covered(p, i, n)
  <2> SUFFICES ASSUME NEW i \in Nat, IsWrite(p, i), i < n PROVE Covered(p, i, n)
    OBVIOUS
  <2>1. PICK j \in (i + 1)..(n - 1) : p[j].do = "commit"
    BY <1>1, <1>4 DEF Disciplined, IsWrite
  <2> QED
    BY <1>1, <2>1 DEF Covered
<1>6. pending[r] = {}
  <2>1. pending[r] \subseteq Nat \X Nat
    BY DEF TypeOK
  <2> QED
    BY <1>1, <1>5, <2>1 DEF UnderWay
<1>7. \A i \in Nat : IsWrite(p, i) /\ i < n + 1 => Covered(p, i, n + 1)
  BY <1>1, <1>3, <1>5
<1>8. UnderWay(r, m, n + 1)'
  BY <1>1, <1>2, <1>3, <1>6, <1>7 DEF UnderWay
<1> QED
  BY <1>1, <1>2, <1>6, <1>8, LedgerMoved

\* The four ways a mutation is answered.
LEMMA LedgerEnd ==
  ASSUME TypeOK, NEW r \in Requests, Ledger(r),
         CommitLost(r) \/ Settle(r) \/ SettleRefused(r) \/ SettleUnknown(r) \/ Fail(r)
  PROVE  Ledger(r)'
<1> SUFFICES ASSUME NEW m \in Nat, m = mut[r], NEW n \in Nat, n = pos[r] PROVE Ledger(r)'
  BY DEF TypeOK
<1> DEFINE p == Program[r][m]
<1>1. /\ InMutation(r) /\ UnderWay(r, m, n) /\ p = Current(r)
      /\ Len(p) \in Nat /\ DOMAIN p = 1..Len(p)
  <2>1. InMutation(r)
    BY DEF CommitLost, Settle, SettleRefused, SettleUnknown, Fail, AtStep, AtReturn
  <2> QED
    BY <2>1, ProgramFacts DEF Ledger, InMutation, Current
<1>2. pending'[r] = {}
  BY EndFacts DEF CommitLost, Settle, SettleRefused, SettleUnknown, Fail
<1>3. \A k \in Nat, i \in Nat : k # m => (<<k, i>> \in saved'[r] <=> <<k, i>> \in saved[r])
  <2>1. saved'[r] = saved[r] \/ saved'[r] = saved[r] \cup pending[r]
    BY EndFacts DEF CommitLost, Settle, SettleRefused, SettleUnknown, Fail
  <2> QED
    BY <1>1, <2>1 DEF UnderWay
<1>4. ASSUME saved'[r] = saved[r] PROVE PartSaved(r, m)'
  BY <1>1, <1>4 DEF PartSaved, UnderWay
<1>5. ASSUME saved'[r] = saved[r] \cup pending[r], AtReturn(r) PROVE AllSaved(r, m)'
  <2>1. \A i \in Nat : IsWrite(p, i) => i < n
    BY <1>1, <1>5 DEF AtReturn, IsWrite
  <2> QED
    BY <1>1, <1>5, <2>1 DEF AllSaved, UnderWay
<1>6. CASE CommitLost(r)
  <2>1. n \in 1..Len(p) /\ p[n].do = "commit" /\ saved'[r] = saved[r] \cup pending[r]
        /\ Answer(r, "error") /\ cut' = cut
    BY <1>1, <1>6, EndFacts DEF CommitLost, AtStep
  <2>2. \A i \in Nat : /\ Covered(p, i, n + 1) <=> Covered(p, i, n) \/ i < n
                       /\ Covered(p, i, n) => i < n
    BY <1>1, <2>1, CoveredNext DEF Covered
  <2>3. \A i \in Nat : <<m, i>> \in saved'[r] <=> IsWrite(p, i) /\ Covered(p, i, n + 1)
    BY <1>1, <2>1, <2>2 DEF UnderWay
  <2>4. PartSaved(r, m)'
    BY <2>3 DEF PartSaved
  <2> QED
    BY <1>1, <1>2, <1>3, <2>1, <2>4, LedgerAnswered DEF Answers
<1>7. CASE Settle(r)
  <2>1. saved'[r] = saved[r] \cup pending[r] /\ AtReturn(r) /\ Answer(r, "ok") /\ cut' = cut
    BY <1>7, EndFacts DEF Settle
  <2> QED
    BY <1>1, <1>2, <1>3, <1>5, <2>1, LedgerAnswered DEF Answers
<1>8. CASE SettleRefused(r) \/ Fail(r)
  <2>1. saved'[r] = saved[r] /\ Answer(r, "error") /\ cut' = cut
    BY <1>8, EndFacts DEF SettleRefused, Fail
  <2> QED
    BY <1>1, <1>2, <1>3, <1>4, <2>1, LedgerAnswered DEF Answers
<1>9. CASE SettleUnknown(r)
  <2>1. /\ saved'[r] = saved[r] \/ saved'[r] = saved[r] \cup pending[r]
        /\ AtReturn(r) /\ Answer(r, "error")
    BY <1>9, EndFacts DEF SettleUnknown
  <2>2. AllSaved(r, m)' \/ PartSaved(r, m)'
    BY <1>4, <1>5, <2>1
  <2>3. cut'[r] = cut[r] \cup {m}
    BY <1>9 DEF SettleUnknown, TypeOK
  <2> QED
    BY <1>1, <1>2, <1>3, <2>1, <2>2, <2>3, LedgerAnswered DEF Answers
<1> QED
  BY <1>6, <1>7, <1>8, <1>9

\* A session that has the loop's attention and ends holds nothing; a closed or
\* waiting one neither.
LEMMA LedgerClosed ==
  ASSUME TypeOK, NEW r \in Requests, Ledger(r), pending[r] = {},
         mut' = mut, pos' = pos, answer' = answer, cut' = cut, NEW d, EndTransaction(r, d)
  PROVE  Ledger(r)'
<1>1. pending'[r] = pending[r] /\ saved'[r] = saved[r]
  BY EndFacts
<1> QED
  BY <1>1, LedgerUntouched

LEMMA BooksStep == TypeOK /\ Books /\ [Next]_vars => Books'
<1> SUFFICES ASSUME TypeOK, Books, [Next]_vars PROVE Books'
  OBVIOUS
<1>1. ASSUME NEW r \in Requests, DoWrite(r) PROVE Books'
  <2>1. /\ Ledger(r)' /\ pending'[r] # {} /\ loop' = r
        /\ UNCHANGED <<mut, saved, answer, cut>> /\ loop = r
        /\ \A q \in Requests : q # r => pending'[q] = pending[q] /\ pos'[q] = pos[q]
    BY <1>1, LedgerWrite DEF Books, DoWrite, TypeOK
  <2>2. \A q \in Requests : q # r => Ledger(q)'
    BY <2>1, LedgerUntouched DEF Books
  <2>3. \A x \in Rows, q \in Requests : lock'[x] = q => lock[x] = q \/ q = r
    BY <1>1 DEF DoWrite, TypeOK
  <2> QED
    BY <2>1, <2>2, <2>3 DEF Books
<1>2. ASSUME NEW r \in Requests, DoAwait(r) PROVE Books'
  <2>1. /\ Ledger(r)' /\ pending[r] = {}
        /\ UNCHANGED <<mut, saved, answer, cut, pending, lock>> /\ loop = r
        /\ \A q \in Requests : q # r => pos'[q] = pos[q]
    BY <1>2, LedgerAwait DEF Books, DoAwait, TypeOK
  <2>2. \A q \in Requests : q # r => Ledger(q)'
    BY <2>1, LedgerUntouched DEF Books
  <2> QED
    BY <2>1, <2>2 DEF Books
<1>3. ASSUME NEW r \in Requests, NEW d \in BOOLEAN, EndTransaction(r, d), Ledger(r)',
             loop = r \/ loop = NoRequest,
             \A q \in Requests : q # r => /\ mut'[q] = mut[q] /\ pos'[q] = pos[q]
                                          /\ answer'[q] = answer[q] /\ cut'[q] = cut[q]
      PROVE  Books'
  <2>1. /\ pending'[r] = {}
        /\ \A q \in Requests : q # r => pending'[q] = pending[q] /\ saved'[q] = saved[q]
        /\ \A x \in Rows : lock'[x] # r /\ \A q \in Requests : lock'[x] = q => lock[x] = q
    BY <1>3, EndFacts
  <2>2. \A q \in Requests : q # r => Ledger(q)' /\ pending[q] = {}
    BY <1>3, <2>1, LedgerUntouched, ProgramFacts DEF Books
  <2> QED
    BY <1>3, <2>1, <2>2 DEF Books
<1>4. ASSUME NEW r \in Requests, DoCommit(r) PROVE Books'
  <2>1. \A q \in Requests : q # r => /\ mut'[q] = mut[q] /\ pos'[q] = pos[q]
                                     /\ answer'[q] = answer[q] /\ cut'[q] = cut[q]
    BY <1>4 DEF DoCommit, TypeOK
  <2>2. Ledger(r)' /\ loop = r /\ EndTransaction(r, TRUE)
    BY <1>4, LedgerCommit DEF Books, DoCommit
  <2> QED
    BY <1>3, <2>1, <2>2
<1>5. ASSUME NEW r \in Requests,
             CommitLost(r) \/ Settle(r) \/ SettleRefused(r) \/ SettleUnknown(r) \/ Fail(r)
      PROVE  Books'
  <2>1. PICK a \in Answers, d \in BOOLEAN : Answer(r, a) /\ EndTransaction(r, d)
    BY <1>5 DEF CommitLost, Settle, SettleRefused, SettleUnknown, Fail, Answers
  <2>2. InMutation(r) /\ loop = r
    BY <1>5 DEF CommitLost, Settle, SettleRefused, SettleUnknown, Fail, AtStep, AtReturn
  <2>3. \A q \in Requests : q # r => /\ mut'[q] = mut[q] /\ pos'[q] = pos[q]
                                     /\ answer'[q] = answer[q] /\ cut'[q] = cut[q]
    <3>1. \A q \in Requests : q # r => cut'[q] = cut[q]
      BY <1>5 DEF CommitLost, Settle, SettleRefused, SettleUnknown, Fail, TypeOK
    <3> QED
      BY <2>1, <2>2, <3>1, AnswerTyped
  <2>4. Ledger(r)'
    BY <1>5, LedgerEnd DEF Books
  <2> QED
    BY <1>3, <2>1, <2>2, <2>3, <2>4
<1>6. ASSUME NEW r \in Requests, Cancel(r) \/ Teardown(r) PROVE Books'
  <2>1. pending[r] = {} /\ UNCHANGED <<mut, pos, answer, cut>> /\ (loop = r \/ loop = NoRequest)
    BY <1>6, ProgramFacts DEF Cancel, Teardown, Books, Ledger
  <2>2. PICK d \in BOOLEAN : EndTransaction(r, d)
    BY <1>6 DEF Cancel, Teardown
  <2>3. Ledger(r)'
    BY <2>1, <2>2, LedgerClosed DEF Books
  <2> QED
    BY <1>3, <2>1, <2>2, <2>3
<1>7. ASSUME UNCHANGED <<mut, pos, pending, saved, answer, cut>>,
             \A q \in Requests : loop' # q => pending[q] = {},
             \A q \in Requests, x \in Rows : lock'[x] = q => lock[x] = q
      PROVE  Books'
  <2>1. \A q \in Requests : Ledger(q)'
    BY <1>7, LedgerUntouched DEF Books
  <2> QED
    BY <1>7, <2>1 DEF Books
<1>8. ASSUME NEW r \in Requests, Resume(r) \/ Awaited(r) PROVE Books'
  BY <1>7, <1>8, ProgramFacts DEF Resume, Awaited, Books
<1>9. ASSUME NEW x \in Rows, OtherLocks(x) \/ OtherUnlocks(x) PROVE Books'
  <2>1. \A q \in Requests, y \in Rows : lock'[y] = q => lock[y] = q
    BY <1>9, ProgramFacts DEF OtherLocks, OtherUnlocks, TypeOK
  <2> QED
    BY <1>7, <1>9, <2>1 DEF OtherLocks, OtherUnlocks, Books
<1>10. CASE UNCHANGED vars
  BY <1>7, <1>10 DEF vars, Books
<1> QED
  BY <1>1, <1>2, <1>4, <1>5, <1>6, <1>8, <1>9, <1>10 DEF Next, OnLoop

LEMMA BooksInit == Init => Books
<1> SUFFICES ASSUME Init PROVE Books
  OBVIOUS
<1>1. ASSUME NEW r \in Requests PROVE Ledger(r)
  <2>1. /\ mut[r] = 1 /\ pos[r] = 1 /\ pending[r] = {} /\ saved[r] = {} /\ answer[r] = <<>>
    BY DEF Init
  <2>2. \A p, i : IsWrite(p, i) => ~Covered(p, i, 1) /\ ~(i < 1)
    BY CoveredLate DEF IsWrite
  <2>3. UnderWay(r, 1, 1)
    BY <2>1, <2>2 DEF UnderWay
  <2> QED
    BY <2>1, <2>3 DEF Ledger
<1>2. \A r \in Requests, x \in Rows : lock[x] # r
  BY ProgramFacts DEF Init
<1> QED
  BY <1>1, <1>2 DEF Init, Books
-------------------------------------------------------------------------------
\* Whatever the programs, if they keep the rule: while the loop is another's or
\* nobody's, a request holds no row lock and has nothing uncommitted.
THEOREM LocksStayOnTheLoop == Spec => []NoLockAcrossYield
<1>1. Books => NoLockAcrossYield
  BY DEF Books, NoLockAcrossYield
<1> QED
  BY <1>1, BooksInit, TypeCorrect, TypeStep, BooksStep, PTL DEF Spec

\* The answered and the reached mutations, from the ledger.
LEMMA LedgerMutations ==
  ASSUME TypeOK, NEW r \in Requests, Ledger(r), NEW m \in 1..Len(Program[r])
  PROVE  AllSaved(r, m) \/ PartSaved(r, m)
<1>1. mut[r] \in Nat /\ m \in Nat
  BY ProgramFacts DEF TypeOK
<1>2. CASE m < mut[r]
  BY <1>2 DEF Ledger
<1>3. CASE m = mut[r]
  <2>1. InMutation(r) /\ pos[r] \in Nat
    BY <1>3, ProgramFacts DEF InMutation, TypeOK
  <2>2. UnderWay(r, m, pos[r])
    BY <1>3, <2>1 DEF Ledger
  <2> QED
    BY <2>1, <2>2 DEF PartSaved, UnderWay
<1>4. CASE m > mut[r]
  <2>1. \A i \in Nat : /\ <<m, i>> \notin saved[r]
                       /\ IsWrite(Program[r][m], i) => ~Covered(Program[r][m], i, 0)
    BY <1>4, CoveredLate DEF Ledger
  <2> QED
    BY <2>1 DEF PartSaved
<1> QED
  BY <1>1, <1>2, <1>3, <1>4

\* What a client was told of a mutation is what the database has of it.
THEOREM AnswersAreTrue == Spec => []AnswerMatchesDatabase
<1>1. TypeOK /\ Books => AnswerMatchesDatabase
  <2> SUFFICES ASSUME TypeOK, Books, NEW r \in Requests, NEW m \in DOMAIN answer[r]
               PROVE  LET p == Program[r][m]
                      IN /\ answer[r][m] = "ok" => SavedOf(r, m) = WritesOf(p)
                         /\ answer[r][m] = "error" =>
                               \/ SavedOf(r, m) \cap LastUnit(p) = {}
                               \/ m \in cut[r] /\ SavedOf(r, m) = WritesOf(p)
    BY DEF AnswerMatchesDatabase
  <2> DEFINE p == Program[r][m]
  <2>1. m \in 1..Len(answer[r]) /\ m \in Nat
    BY DEF TypeOK
  <2>2. Ledger(r) /\ m < mut[r] /\ Told(r, m)
    BY <2>1 DEF Books, Ledger
  <2>3. m \in 1..Len(Program[r])
    BY <2>1, <2>2, ProgramFacts DEF TypeOK
  <2>4. DOMAIN p = 1..Len(p) /\ Len(p) \in Nat
    BY <2>3, ProgramFacts
  <2>5. ASSUME AllSaved(r, m) PROVE SavedOf(r, m) = WritesOf(p)
    BY <2>4, <2>5 DEF AllSaved, SavedOf, WritesOf, IsWrite
  <2>6. ASSUME PartSaved(r, m) PROVE SavedOf(r, m) \cap LastUnit(p) = {}
    <3>1. \A i \in SavedOf(r, m) : \E j \in DOMAIN p : j > i /\ p[j].do = "commit"
      <4>1. PICK n \in Nat : \A i \in Nat : <<m, i>> \in saved[r] <=> IsWrite(p, i) /\ Covered(p, i, n)
        BY <2>6 DEF PartSaved
      <4>2. \A i \in SavedOf(r, m) : i \in Nat /\ Covered(p, i, n)
        BY <2>4, <4>1 DEF SavedOf
      <4> QED
        BY <2>4, <4>2 DEF Covered
    <3> QED
      BY <3>1 DEF LastUnit
  <2> QED
    BY <2>2, <2>5, <2>6 DEF Told
<1> QED
  BY <1>1, BooksInit, TypeCorrect, BooksStep, PTL DEF Spec

\* Two writes of one unit are durable together or not at all.
THEOREM UnitsAreAtomic == Spec => []AllOrNothing
<1>1. TypeOK /\ Books => AllOrNothing
  <2> SUFFICES ASSUME TypeOK, Books, NEW r \in Requests, NEW m \in DOMAIN Program[r],
                      NEW i \in WritesOf(Program[r][m]), NEW k \in WritesOf(Program[r][m]),
                      i < k, \A j \in i..k : Program[r][m][j].do # "commit"
               PROVE  i \in SavedOf(r, m) <=> k \in SavedOf(r, m)
    BY DEF AllOrNothing
  <2> DEFINE p == Program[r][m]
  <2>1. m \in 1..Len(Program[r]) /\ DOMAIN p = 1..Len(p) /\ Len(p) \in Nat
    BY ProgramFacts
  <2>2. IsWrite(p, i) /\ IsWrite(p, k) /\ i \in Nat /\ k \in Nat
    BY <2>1 DEF WritesOf, IsWrite
  <2>3. AllSaved(r, m) \/ PartSaved(r, m)
    BY <2>1, LedgerMutations DEF Books
  <2>4. <<m, i>> \in saved[r] <=> <<m, k>> \in saved[r]
    <3>1. CASE AllSaved(r, m)
      BY <2>2, <3>1 DEF AllSaved
    <3>2. CASE PartSaved(r, m)
      <4>1. PICK n \in Nat : \A l \in Nat : <<m, l>> \in saved[r] <=> IsWrite(p, l) /\ Covered(p, l, n)
        BY <3>2 DEF PartSaved
      <4>2. Covered(p, i, n) <=> Covered(p, k, n)
        BY <2>1, <2>2 DEF Covered
      <4> QED
        BY <2>2, <4>1, <4>2
    <3> QED
      BY <2>3, <3>1, <3>2
  <2> QED
    BY <2>1, <2>2, <2>4 DEF SavedOf, IsWrite
<1> QED
  BY <1>1, BooksInit, TypeCorrect, BooksStep, PTL DEF Spec
===============================================================================
