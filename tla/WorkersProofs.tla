----------------------------- MODULE WorkersProofs -----------------------------
(***************************************************************************)
(* Proofs about the workers and scripts beside the API: the pauses and the *)
(* order of a duplicated timeline, posters that stay whole, what scenes    *)
(* and recordings show of deleted items, an installation seeded once and   *)
(* as a whole, and mails that reach their own.  For every value of their   *)
(* constants.                                                              *)
(***************************************************************************)
EXTENDS MCWorkers, FiniteSetTheorems, TLAPS

(***************************************************************************)
(* TimelineTrim                                                            *)
(***************************************************************************)
\* The last event has moved by `removal', which is no more than the time before it.
IInv == /\ times \in Timelines /\ minPause \in Pauses /\ removal \in Nat
        /\ out \in Seq(Int) /\ Len(out) <= Len(times)
        /\ times # <<>> => /\ Len(out) >= 1
                           /\ out[1] = times[1]
                           /\ out[Len(out)] = times[Len(out)] - removal
        /\ PausesCapped
        /\ OrderKept

LEMMA TimelineFacts ==
  ASSUME NEW t \in Timelines
  PROVE  /\ t \in Seq(Nat) /\ Len(t) \in Nat
         /\ \A k \in 1..Len(t) : t[k] \in Nat
         /\ \A k \in 2..Len(t) : t[k - 1] <= t[k]
  BY TimelineAssumption

\* One more event: it moves by what is removed by now, its gap's excess included.
LEMMA TurnKeeps == IInv /\ Next => IInv'
<1> SUFFICES ASSUME IInv, Next PROVE IInv'
  OBVIOUS
<1> DEFINE k == Len(out) + 1
           n == Len(out)
<1>1. /\ times \in Seq(Nat) /\ Len(times) \in Nat /\ n \in Nat /\ minPause \in Nat
      /\ k <= Len(times) /\ removal \in Nat /\ out \in Seq(Int)
      /\ n >= 1
  <2>1. k <= Len(times) /\ n \in Nat /\ Len(times) \in Nat
    BY TimelineFacts DEF Next, IInv
  <2>2. times # <<>>
    BY <2>1
  <2> QED
    BY <2>1, <2>2, TimelineFacts, TimelineAssumption DEF IInv
<1>2. /\ times[k] \in Nat /\ times[n] \in Nat /\ times[n] <= times[k]
      /\ out[n] = times[n] - removal /\ out[1] = times[1] /\ times[1] \in Nat
  <2>1. k \in 2..Len(times) /\ n = k - 1 /\ n \in 1..Len(times) /\ 1 \in 1..Len(times)
    BY <1>1
  <2>2. times[k - 1] <= times[k] /\ \A i \in 1..Len(times) : times[i] \in Nat
    BY <2>1, TimelineFacts DEF IInv
  <2> QED
    BY <1>1, <2>1, <2>2 DEF IInv
<1>3. Gap(times, k) = times[k] - times[n]
  BY <1>1 DEF Gap
<1>4. /\ Excess(k) \in Nat
      /\ times[k] - times[n] - Excess(k) = IF Gap(times, k) <= minPause THEN Gap(times, k) ELSE minPause
      /\ Excess(k) <= times[k] - times[n]
  <2>1. Gap(times, k) \in Nat
    BY <1>2, <1>3
  <2>2. minPause \in Nat /\ times[k] \in Nat /\ times[n] \in Nat
    BY <1>1, <1>2
  <2>3. CASE Gap(times, k) > minPause
    <3>1. Excess(k) = Gap(times, k) - minPause
      BY <2>3 DEF Excess
    <3> HIDE DEF k, n
    <3> QED
      BY <1>3, <2>1, <2>2, <2>3, <3>1
  <2>4. CASE ~(Gap(times, k) > minPause)
    <3>1. Excess(k) = 0
      BY <2>4 DEF Excess
    <3>2. Gap(times, k) <= minPause
      BY <2>1, <2>2, <2>4
    <3> HIDE DEF k, n
    <3> QED
      BY <1>3, <2>1, <2>2, <3>1, <3>2
  <2> QED
    BY <2>3, <2>4
<1>5. /\ times' = times /\ minPause' = minPause
      /\ removal' = removal + Excess(k)
      /\ out' = Append(out, times[k] - removal')
  BY DEF Next
<1>6. /\ removal' \in Nat /\ times[k] - removal' \in Int
      /\ out' \in Seq(Int) /\ Len(out') = k /\ out'[k] = times[k] - removal'
      /\ \A i \in 1..n : out'[i] = out[i]
  <2>1. removal' \in Nat
    <3>1. removal \in Nat /\ Excess(k) \in Nat /\ removal' = removal + Excess(k)
      BY <1>1, <1>4, <1>5
    <3> HIDE DEF k
    <3> QED
      BY <3>1
  <2>2. times[k] - removal' \in Int
    BY <1>2, <2>1
  <2>3. out \in Seq(Int) /\ Len(out) = n /\ k = n + 1
    BY <1>1
  <2>4. removal' \in Nat /\ times[k] - removal' \in Int /\ out' = Append(out, times[k] - removal')
    BY <1>5, <2>1, <2>2
  <2> HIDE DEF k, n
  <2> QED
    BY <2>3, <2>4
<1>7. /\ out'[k] - out[n] = times[k] - times[n] - Excess(k)
      /\ out[n] <= out'[k] /\ out'[k] <= times[k]
  <2>1. out'[k] = times[k] - (removal + Excess(k)) /\ Excess(k) \in Nat /\ removal \in Nat
    BY <1>1, <1>4, <1>5, <1>6
  <2> HIDE DEF k, n
  <2> QED
    BY <1>2, <1>4, <2>1
<1>8. PausesCapped'
  <2> SUFFICES ASSUME NEW i \in 2..k
               PROVE  Gap(out', i) = IF Gap(times, i) <= minPause THEN Gap(times, i) ELSE minPause
    BY <1>5, <1>6 DEF PausesCapped, Gap
  <2>1. CASE i = k
    <3>1. Gap(out', i) = out'[k] - out[n] /\ Gap(times, i) = Gap(times, k)
      <4>1. k - 1 = n /\ n \in 1..n /\ out'[n] = out[n]
        BY <1>1, <1>6
      <4>2. Gap(out', i) = out'[k] - out'[n]
        BY <2>1, <4>1 DEF Gap
      <4> QED
        BY <2>1, <4>1, <4>2
    <3> QED
      BY <1>4, <1>7, <3>1
  <2>2. CASE i # k
    <3>1. i \in 2..n /\ i - 1 \in 1..n /\ i \in 1..n
      BY <1>1, <2>2
    <3>2. Gap(out', i) = Gap(out, i)
      BY <1>6, <3>1 DEF Gap
    <3> QED
      BY <3>1, <3>2 DEF IInv, PausesCapped
  <2> QED
    BY <2>1, <2>2
<1>9. OrderKept'
  <2>1. DOMAIN out = 1..n /\ DOMAIN out' = 1..k
    BY <1>1, <1>6
  <2>2. \A i \in 1..n : /\ out[1] <= out[i] /\ out[i] <= times[i]
                        /\ i > 1 => out[i - 1] <= out[i]
    BY <2>1 DEF IInv, OrderKept
  <2>3. out'[1] = out[1] /\ out'[n] = out[n] /\ 1 \in 1..n /\ n \in 1..n
    BY <1>1, <1>6
  <2> SUFFICES ASSUME NEW i \in 1..k
               PROVE  /\ out'[1] <= out'[i] /\ out'[i] <= times[i]
                      /\ out'[1] = times[1]
                      /\ i > 1 => out'[i - 1] <= out'[i]
    BY <1>5, <2>1 DEF OrderKept
  <2>4. CASE i = k
    <3>1. out[1] <= out[n] /\ out[1] \in Int /\ out[n] \in Int /\ out'[k] \in Int
      <4>1. out[1] <= out[n]
        BY <2>2, <2>3
      <4> QED
        BY <1>1, <1>6, <4>1
    <3>2. out[1] <= out'[k]
      BY <1>7, <3>1
    <3> QED
      BY <1>1, <1>2, <1>7, <2>3, <2>4, <3>2
  <2>5. CASE i # k
    <3>1. i \in 1..n /\ (i > 1 => i - 1 \in 1..n)
      BY <1>1, <2>5
    <3> QED
      BY <1>2, <1>6, <2>2, <2>3, <3>1
  <2> QED
    BY <2>4, <2>5
<1> QED
  BY <1>1, <1>2, <1>5, <1>6, <1>8, <1>9 DEF IInv

LEMMA IInvStep == IInv /\ [Next]_vars => IInv'
<1> SUFFICES ASSUME IInv, UNCHANGED vars PROVE IInv'
  BY TurnKeeps
<1> QED
  BY DEF IInv, vars, PausesCapped, OrderKept

LEMMA IInvInit == Init => IInv
<1> SUFFICES ASSUME Init PROVE IInv
  OBVIOUS
<1>1. times \in Timelines /\ times \in Seq(Nat) /\ Len(times) \in Nat
  BY TimelineFacts DEF Init
<1>2. CASE times = <<>>
  BY <1>1, <1>2 DEF Init, IInv, PausesCapped, OrderKept
<1>3. CASE times # <<>>
  <2>1. /\ out = <<times[1]>> /\ times[1] \in Nat /\ Len(times) >= 1
    BY <1>1, <1>3 DEF Init
  <2> QED
    BY <1>1, <1>3, <2>1 DEF Init, IInv, PausesCapped, OrderKept
<1> QED
  BY <1>2, <1>3

\* The new times are natural numbers, as many as there are events so far.
THEOREM TypeCorrect == Spec => []TypeOK
<1>1. IInv => TypeOK
  <2> SUFFICES ASSUME IInv PROVE TypeOK
    OBVIOUS
  <2>1. \A i \in 1..Len(out) : out[i] \in Nat
    <3> TAKE i \in 1..Len(out)
    <3>1. times # <<>> /\ out[1] = times[1] /\ times[1] \in Nat
      BY TimelineFacts DEF IInv
    <3>2. out[1] <= out[i] /\ out[i] \in Int
      BY DEF IInv, OrderKept
    <3> QED
      BY <3>1, <3>2
  <2>2. out \in Seq(Nat)
    BY <2>1 DEF IInv
  <2> QED
    BY <2>2 DEF IInv, TypeOK
<1> QED
  BY <1>1, IInvInit, IInvStep, PTL DEF Spec

\* Each pause of the duplicate is the original's or minPause, the shorter one, and the
\* events keep their order and their start; none is later than it was.
THEOREM TimesAreKept == Spec => []TimesHold
<1>1. IInv => TimesHold
  BY DEF IInv, TimesHold
<1> QED
  BY <1>1, IInvInit, IInvStep, PTL DEF Spec

(***************************************************************************)
(* VideoPosters                                                            *)
(***************************************************************************)
Busy == [pc : {"looked", "writes"}, video : Videos]
Posters == [by : Extractors \cup {Nobody}, whole : BOOLEAN]

\* An extractor that has looked for a poster, or writes it, did not make the whole one.
PostersSound ==
  /\ poster \in [Videos -> Posters]
  /\ doing \in [Extractors -> Busy \cup {V!Free}]
  /\ \A x \in Extractors, v \in Videos :
       doing[x] \in Busy /\ doing[x].video = v => ~(poster[v].whole /\ poster[v].by = x)

LEMMA PostersAtFirst == V!Init => PostersSound
<1> SUFFICES ASSUME V!Init PROVE PostersSound
  OBVIOUS
<1>1. \A x \in Extractors : doing[x] \notin Busy
  BY DEF V!Init, V!Free, Busy
<1> QED
  BY <1>1 DEF V!Init, PostersSound, Posters, V!NoPoster

\* A poster that was whole is not any more.
Broken(v) == poster[v].whole /\ ~poster'[v].whole

LEMMA FreeIsNotBusy == V!Free.pc = "free" /\ V!Free \notin Busy
  BY DEF V!Free, Busy

\* What the five steps keep of the posters, and which of them may break a whole one.
LEMMA PostersStay ==
  ASSUME PostersSound, V!Next
  PROVE  /\ PostersSound'
         /\ \A v \in Videos : Broken(v) =>
              \E x \in Extractors :
                doing[x].video = v /\ doing[x] # doing'[x] /\ poster[v].by # x
<1> PICK x \in Extractors :
      V!Open(x) \/ V!Finish(x) \/ V!TimedOut(x) \/ V!Breaks(x) \/ \E v \in Videos : V!Look(x, v)
  BY DEF V!Next
<1>1. ASSUME NEW v \in Videos, V!Look(x, v) PROVE PostersSound' /\ \A w \in Videos : ~Broken(w)
  <2>1. ~poster[v].whole
    BY <1>1 DEF V!Look, V!HasPoster, V!NoPoster
  <2>2. [pc |-> "looked", video |-> v] \in Busy
    BY DEF Busy
  <2> QED
    BY <1>1, <2>1, <2>2 DEF V!Look, PostersSound, Broken
<1>2. CASE V!Open(x)
  <2>1. doing[x] \in Busy /\ doing[x].pc = "looked"
    BY <1>2, FreeIsNotBusy DEF V!Open, PostersSound
  <2>2. PICK v \in Videos : v = doing[x].video
    BY <2>1 DEF Busy
  <2>3. [doing[x] EXCEPT !.pc = "writes"] = [pc |-> "writes", video |-> v]
    BY <2>1, <2>2 DEF Busy
  <2>4. /\ poster' = [poster EXCEPT ![v] = [by |-> x, whole |-> FALSE]]
        /\ doing' = [doing EXCEPT ![x] = [pc |-> "writes", video |-> v]]
    BY <1>2, <2>2, <2>3 DEF V!Open
  <2>5. [pc |-> "writes", video |-> v] \in Busy /\ [by |-> x, whole |-> FALSE] \in Posters
    BY DEF Busy, Posters
  <2>6. PostersSound'
    BY <2>4, <2>5 DEF PostersSound
  <2>7. doing'[x].pc = "writes" /\ (poster[v].whole => poster[v].by # x)
    BY <2>1, <2>2, <2>4 DEF PostersSound
  <2>8. \A w \in Videos \ {v} : ~Broken(w)
    BY <2>4 DEF Broken, PostersSound
  <2> QED
    BY <2>1, <2>2, <2>6, <2>7, <2>8 DEF Broken
<1>3. CASE V!Finish(x)
  <2>1. doing[x] \in Busy
    BY <1>3, FreeIsNotBusy DEF V!Finish, PostersSound
  <2>2. [by |-> x, whole |-> TRUE] \in Posters
    BY DEF Posters
  <2>3. \A w \in Videos : ~Broken(w)
    BY <1>3 DEF V!Finish, Broken
  <2>4. /\ poster' \in [Videos -> Posters] /\ doing' \in [Extractors -> Busy \cup {V!Free}]
        /\ doing'[x] \notin Busy /\ \A y \in Extractors \ {x} : doing'[y] = doing[y]
        /\ \A v \in Videos : poster'[v] = poster[v] \/ poster'[v].by = x
    BY <1>3, <2>2, FreeIsNotBusy DEF V!Finish, PostersSound
  <2>5. PostersSound'
    BY <2>4 DEF PostersSound
  <2> QED
    BY <2>3, <2>5
<1>4. CASE V!TimedOut(x)
  <2>1. doing[x] \in Busy /\ doing[x].pc = "writes"
    BY <1>4, FreeIsNotBusy DEF V!TimedOut, PostersSound
  <2>2. PICK v \in Videos : v = doing[x].video
    BY <2>1 DEF Busy
  <2>3. /\ poster' = [poster EXCEPT ![v] = V!NoPoster]
        /\ doing' = [doing EXCEPT ![x] = V!Free]
    BY <1>4, <2>2 DEF V!TimedOut
  <2>4. V!NoPoster \in Posters /\ ~V!NoPoster.whole
    BY DEF V!NoPoster, Posters
  <2>5. PostersSound'
    BY <2>3, <2>4, FreeIsNotBusy DEF PostersSound
  <2>6. doing'[x] # doing[x] /\ (poster[v].whole => poster[v].by # x)
    BY <2>1, <2>2, <2>3, FreeIsNotBusy DEF PostersSound
  <2>7. \A w \in Videos \ {v} : ~Broken(w)
    BY <2>3 DEF Broken, PostersSound
  <2> QED
    BY <2>2, <2>5, <2>6, <2>7 DEF Broken
<1>5. CASE V!Breaks(x)
  BY <1>5, FreeIsNotBusy DEF V!Breaks, PostersSound, Broken
<1> QED
  BY <1>1, <1>2, <1>3, <1>4, <1>5

\* No step of the other parts touches the posters.
LEMMA OthersLeavePosters ==
  ASSUME [MCNext]_all, ~V!Next PROVE UNCHANGED posters
  BY DEF MCNext, Trim, Count, Seed, Frame, Mail, Show, all

LEMMA PostersAlwaysSound ==
  ASSUME PostersSound, [MCNext]_all
  PROVE  /\ PostersSound'
         /\ \A v \in Videos : Broken(v) =>
              \E x \in Extractors :
                doing[x].video = v /\ doing[x] # doing'[x] /\ poster[v].by # x
<1>1. CASE V!Next
  BY <1>1, PostersStay
<1>2. CASE ~V!Next
  <2>1. UNCHANGED <<poster, doing>>
    BY <1>2, OthersLeavePosters DEF posters
  <2> QED
    BY <2>1 DEF PostersSound, Broken
<1> QED
  BY <1>1, <1>2

\* A whole poster is broken only by an extractor that looked before another made it.
THEOREM WholePostersAreKept == MCSpec => WholePostersStay
<1>1. MCInit => PostersSound
  BY PostersAtFirst DEF MCInit
<1>2. PostersSound /\ [MCNext]_all => PostersSound'
  BY PostersAlwaysSound
<1>3. PostersSound /\ [MCNext]_all =>
        \A v \in Videos : poster[v].whole /\ ~poster'[v].whole =>
          \E x \in Extractors : doing[x].video = v /\ doing[x] # doing'[x] /\ poster[v].by # x
  BY PostersAlwaysSound DEF Broken
<1> QED
  BY <1>1, <1>2, <1>3, PTL DEF MCSpec, WholePostersStay, V!WholePostersStay

(***************************************************************************)
(* Placeholders                                                            *)
(***************************************************************************)
\* A payload shows a file of a deleted image only if a survivor has it, or a deleted
\* sound or video: at every turn of the loop, not only when it has ended.
ShowsSound ==
  /\ H!Exists \subseteq Ids /\ \A m \in H!Exists : items[m] \in H!Row
  /\ shows = [p \in Payloads |-> shows[p]]
  /\ doomed \subseteq H!Exists
  /\ H!ShowsWhatIsThere

Has(item, f) == f = item.loc \/ f \in item.frames

LEMMA SurvivorsHave ==
  \A f : f \in H!Survivors <=> \E n \in H!Exists : Has(items[n], f)
  BY DEF H!Survivors, H!Mentioned, Has

LEMMA ShowsAtFirst ==
  ASSUME NoItems \/ H!Init
  PROVE  ShowsSound
<1>1. gone = {} /\ doomed = {}
  BY DEF NoItems, H!Init
<1>2. CASE NoItems
  BY <1>1, <1>2 DEF NoItems, ShowsSound, H!Exists, H!ShowsWhatIsThere
<1>3. CASE H!Init
  BY <1>1, <1>3 DEF H!Init, ShowsSound, H!Exists, H!ShowsWhatIsThere
<1> QED
  BY <1>2, <1>3

LEMMA DeleteUserKeepsShows ==
  ASSUME ShowsSound, NEW reassigns \in BOOLEAN, H!DeleteUser(reassigns)
  PROVE  ShowsSound' /\ shows' = shows
<1>1. gone = {} /\ gone' = {} /\ shows' = shows
  BY DEF H!DeleteUser
<1>2. /\ H!Exists' = H!Exists /\ doomed' \subseteq H!Exists
      /\ \A m \in H!Exists : \E b \in BOOLEAN : items'[m] = [items[m] EXCEPT !.own = b]
  <2>1. PICK kept : items' = [m \in H!Exists |-> [items[m] EXCEPT !.own = @ /\ m \notin kept]]
    BY DEF H!DeleteUser
  <2>2. \A m \in H!Exists : items'[m] = [items[m] EXCEPT !.own = items[m].own /\ m \notin kept]
    BY <2>1
  <2>3. H!Exists' = H!Exists
    BY <2>1 DEF H!Exists
  <2> QED
    BY <2>2, <2>3 DEF H!DeleteUser
<1>3. ASSUME NEW m \in H!Exists PROVE items'[m] \in H!Row
  <2>1. PICK b \in BOOLEAN : items'[m] = [items[m] EXCEPT !.own = b]
    BY <1>2
  <2>2. PICK its \in H!Row : its = items[m]
    BY DEF ShowsSound
  <2> QED
    BY <2>1, <2>2 DEF H!Row
<1> QED
  BY <1>1, <1>2, <1>3 DEF ShowsSound, H!ShowsWhatIsThere

\* What one turn of the loop leaves.
LEMMA DeletedItem ==
  ASSUME ShowsSound, NEW m \in doomed, H!DeleteItem(m)
  PROVE  /\ m \in H!Exists /\ H!Exists' = H!Exists \ {m} /\ gone' = gone \cup {items[m]}
         /\ \A n \in H!Exists' : items'[n] = [items[n] EXCEPT !.frames = @ \ ({items[m].loc} \ Escaped)]
         /\ shows' = [p \in Payloads |-> shows'[p]]
         /\ \A p \in Payloads : shows'[p] = IF items[m].visual
                                            THEN H!Replaced(p, H!Tokens(m)) ELSE shows[p]
<1>1. m \in H!Exists
  BY DEF ShowsSound
<1>2. items' = [n \in H!Exists \ {m} |-> [items[n] EXCEPT !.frames = @ \ ({items[m].loc} \ Escaped)]]
  BY DEF H!DeleteItem
<1>3. H!Exists' = H!Exists \ {m}
  BY <1>2 DEF H!Exists
<1>4. shows' = [p \in Payloads |-> shows'[p]]
      /\ \A p \in Payloads : shows'[p] = IF items[m].visual
                                         THEN H!Replaced(p, H!Tokens(m)) ELSE shows[p]
  BY DEF H!DeleteItem, ShowsSound
<1> QED
  BY <1>1, <1>2, <1>3, <1>4 DEF H!DeleteItem

\* Every other item keeps what it has, but the location of the one that goes as a frame.
LEMMA OthersHave ==
  ASSUME ShowsSound, NEW m \in doomed, H!DeleteItem(m), NEW n \in H!Exists \ {m}
  PROVE  /\ items'[n] \in H!Row /\ items'[n].loc = items[n].loc /\ items'[n].frames \subseteq items[n].frames
         /\ \A f : Has(items'[n], f) => Has(items[n], f)
         /\ \A f : Has(items[n], f) /\ f # items[m].loc => Has(items'[n], f)
<1>1. PICK its \in H!Row : its = items[n]
  BY DEF ShowsSound
<1>2. PICK cut : cut = {items[m].loc} \ Escaped
  OBVIOUS
<1>3. items'[n] = [its EXCEPT !.frames = its.frames \ cut]
  BY <1>1, <1>2, DeletedItem
<1> QED
  BY <1>1, <1>2, <1>3 DEF H!Row, Has

\* A file of an item stays in a payload that does not write it escaped only if the item is
\* no image, or as a frame that another item has too.
LEMMA TokensGo ==
  ASSUME ShowsSound, NEW m \in doomed, H!DeleteItem(m), NEW p \in Payloads,
         NEW f \in (shows'[p] \cap Files) \ EscapedIn[p]
  PROVE  /\ f \in shows[p]
         /\ items[m].visual /\ Has(items[m], f) =>
              f # items[m].loc /\ \E n \in H!Exists \ {m} : Has(items[n], f)
<1>1. f # Picture
  BY WorkersConstants DEF H!PlaceholdersAssumption
<1>2. f \in shows[p] /\ (items[m].visual => f \notin H!Tokens(m))
  <2>1. shows'[p] = IF items[m].visual THEN H!Replaced(p, H!Tokens(m)) ELSE shows[p]
    BY DeletedItem
  <2>2. \A tokens : f \in H!Replaced(p, tokens) => f \in shows[p] \ tokens
    BY <1>1 DEF H!Replaced
  <2>3. CASE items[m].visual
    <3>1. f \in H!Replaced(p, H!Tokens(m))
      BY <2>1, <2>3
    <3> QED
      BY <2>2, <3>1
  <2>4. CASE ~items[m].visual
    BY <2>1, <2>4
  <2> QED
    BY <2>3, <2>4
<1>3. ASSUME Has(items[m], f), f \notin H!Tokens(m)
      PROVE  f # items[m].loc /\ \E n \in H!Exists \ {m} : Has(items[n], f)
  BY <1>3 DEF H!Tokens, H!StillUsed, H!Mentioned, Has
<1> QED
  BY <1>2, <1>3

LEMMA DeleteItemKeepsShows ==
  ASSUME ShowsSound, NEW m \in doomed, H!DeleteItem(m)
  PROVE  ShowsSound'
<1>1. ASSUME NEW i \in gone', NEW p \in Payloads, NEW f \in (shows'[p] \cap Files) \ EscapedIn[p],
             i.visual, Has(i, f)
      PROVE  \/ \E n \in H!Exists \ {m} : Has(items'[n], f)
             \/ \E j \in gone' : ~j.visual /\ Has(j, f)
  <2>1. f \in (shows[p] \cap Files) \ EscapedIn[p] /\ gone' = gone \cup {items[m]}
    BY <1>1, TokensGo, DeletedItem
  <2>2. items[m].visual \in BOOLEAN
    BY DEF ShowsSound, H!Row
  <2>3. \/ \E n \in H!Exists : Has(items[n], f)
        \/ \E j \in gone : ~j.visual /\ Has(j, f)
    <3>1. CASE i \in gone
      <4>1. f \in H!Survivors \/ \E j \in gone : ~j.visual /\ f \in {j.loc} \cup j.frames
        BY <1>1, <2>1, <3>1 DEF ShowsSound, H!ShowsWhatIsThere, Has
      <4> QED
        BY <4>1, SurvivorsHave DEF Has
    <3>2. CASE i = items[m]
      BY <1>1, <3>2, DeletedItem
    <3> QED
      BY <2>1, <3>1, <3>2
  <2>4. CASE \E j \in gone : ~j.visual /\ Has(j, f)
    BY <2>1, <2>4
  <2>5. CASE Has(items[m], f) /\ ~items[m].visual
    BY <2>1, <2>5
  <2>6. CASE Has(items[m], f) /\ items[m].visual
    BY <1>1, <2>6, TokensGo, OthersHave
  <2>7. CASE ~Has(items[m], f)
    <3>1. f # items[m].loc
      BY <2>7 DEF Has
    <3> QED
      BY <2>3, <2>4, <2>7, <3>1, OthersHave
  <2> QED
    BY <2>4, <2>5, <2>6, <2>7
<1>2. H!ShowsWhatIsThere'
  <2>1. \A f : f \in H!Survivors' <=> \E n \in H!Exists' : Has(items'[n], f)
    BY DEF H!Survivors, H!Mentioned, Has
  <2> SUFFICES ASSUME NEW i \in gone', NEW p \in Payloads, NEW f \in (shows'[p] \cap Files) \ EscapedIn[p],
                      i.visual, f \in {i.loc} \cup i.frames
               PROVE  f \in H!Survivors' \/ \E j \in gone' : ~j.visual /\ f \in {j.loc} \cup j.frames
    BY DEF H!ShowsWhatIsThere
  <2>2. Has(i, f)
    BY DEF Has
  <2>3. \/ \E n \in H!Exists \ {m} : Has(items'[n], f)
        \/ \E j \in gone' : ~j.visual /\ Has(j, f)
    BY <1>1, <2>2
  <2> QED
    BY <2>1, <2>3, DeletedItem DEF Has
<1>3. doomed' = doomed \ {m}
  BY DEF H!DeleteItem
<1>4. \A n \in H!Exists' : items'[n] \in H!Row
  BY DeletedItem, OthersHave
<1> QED
  BY <1>2, <1>3, <1>4, DeletedItem DEF ShowsSound

\* PicturesStay's condition on a file that a payload loses.
TakenWithImage(f, p) ==
  /\ f \in Files \ EscapedIn[p]
  /\ \E i \in gone' : i.visual /\
       \/ f = i.loc
       \/ f \in i.frames /\ \A m \in H!Exists' : f # items'[m].loc /\ f \notin items'[m].frames \ Escaped

\* A payload loses a file only with an image that has it, alone as far as is found.
LEMMA OnlyTokensGo ==
  ASSUME ShowsSound, NEW m \in doomed, H!DeleteItem(m), NEW p \in Payloads,
         NEW f \in shows[p] \ shows'[p]
  PROVE  TakenWithImage(f, p)
<1>1. items[m].visual /\ f \in H!Tokens(m) \ EscapedIn[p]
  <2>1. shows'[p] = IF items[m].visual THEN H!Replaced(p, H!Tokens(m)) ELSE shows[p]
    BY DeletedItem
  <2>2. items[m].visual /\ f \notin H!Replaced(p, H!Tokens(m))
    BY <2>1
  <2>3. \A tokens : f \notin H!Replaced(p, tokens) => f \in tokens \ EscapedIn[p]
    BY DEF H!Replaced
  <2> QED
    BY <2>2, <2>3
<1>2. items[m] \in H!Row /\ items[m] \in gone'
  BY DeletedItem DEF ShowsSound
<1>3. CASE f = items[m].loc
  BY <1>1, <1>2, <1>3 DEF H!Tokens, TakenWithImage
<1>4. CASE f # items[m].loc
  <2>1. /\ f \in items[m].frames
        /\ \A n \in H!Exists \ {m} : f # items[n].loc /\ f \notin items[n].frames \ Escaped
    BY <1>1, <1>4 DEF H!Tokens, H!StillUsed
  <2>2. \A n \in H!Exists' : f # items'[n].loc /\ f \notin items'[n].frames \ Escaped
    BY <2>1, DeletedItem, OthersHave
  <2>3. f \in Files
    BY <1>2, <2>1 DEF H!Row
  <2> QED
    BY <1>1, <1>2, <2>1, <2>2, <2>3 DEF TakenWithImage
<1> QED
  BY <1>3, <1>4

LEMMA ShowsStay ==
  ASSUME ShowsSound, [MCNext]_all
  PROVE  ShowsSound' /\ \A p \in Payloads : \A f \in shows[p] \ shows'[p] : TakenWithImage(f, p)
<1>1. CASE \E reassigns \in BOOLEAN : H!DeleteUser(reassigns)
  BY <1>1, DeleteUserKeepsShows
<1>2. ASSUME NEW m \in doomed, H!DeleteItem(m)
      PROVE  ShowsSound' /\ \A p \in Payloads : \A f \in shows[p] \ shows'[p] : TakenWithImage(f, p)
  BY <1>2, DeleteItemKeepsShows, OnlyTokensGo
<1>3. CASE ~H!Next
  <2>1. UNCHANGED <<items, shows, doomed, gone>>
    BY <1>3 DEF MCNext, Trim, Count, Seed, Frame, Mail, Show, all, payloads
  <2> QED
    BY <2>1 DEF ShowsSound, H!Exists, H!ShowsWhatIsThere, H!Survivors, H!Mentioned
<1> QED
  BY <1>1, <1>2, <1>3 DEF H!Next

\* When an account is deleted, scenes and recordings show no file that only its images
\* had, except under an escaped name, and lose none but what these images had, a frame only
\* if nothing else is found to have it.
THEOREM PayloadsAreSound == MCSpec => PayloadsHold
<1>1. MCInit => ShowsSound
  BY ShowsAtFirst DEF MCInit
<1>2. ShowsSound /\ [MCNext]_all => ShowsSound'
  BY ShowsStay
<1>3. ShowsSound /\ [MCNext]_all =>
        \A p \in Payloads : \A f \in shows[p] \ shows'[p] :
          /\ f \in Files \ EscapedIn[p]
          /\ \E i \in gone' : i.visual /\
               \/ f = i.loc
               \/ f \in i.frames /\ \A m \in H!Exists' : f # items'[m].loc /\ f \notin items'[m].frames \ Escaped
  BY ShowsStay DEF TakenWithImage
<1>4. ShowsSound => H!ShowsWhatIsThere
  BY DEF ShowsSound
<1>5. MCSpec => []ShowsSound
  BY <1>1, <1>2, PTL DEF MCSpec
<1>6. MCSpec => H!PicturesStay
  BY <1>3, <1>5, PTL DEF MCSpec, H!PicturesStay
<1>7. MCSpec => [](doomed = {} => H!ShowsWhatIsThere)
  BY <1>4, <1>5, PTL
<1> QED
  BY <1>6, <1>7 DEF PayloadsHold, H!PayloadsHold

(***************************************************************************)
(* Seeding                                                                 *)
(***************************************************************************)
\* A finite set made into a sequence: all its elements, and no others.
LEMMA SeqOfSet ==
  ASSUME NEW set, IsFiniteSet(set)
  PROVE  /\ D!SetToSeq(set) \in Seq(set)
         /\ \A x \in set : \E i \in 1..Len(D!SetToSeq(set)) : D!SetToSeq(set)[i] = x
<1> DEFINE n == Cardinality(set)
           f == D!SetToSeq(set)
<1>1. n \in Nat /\ ExistsBijection(1..n, set)
  BY FS_CardinalityType
<1>2. PICK g : g \in [1..n -> set] /\ \A a, b \in 1..n : g[a] = g[b] => a = b
  BY <1>1 DEF ExistsBijection, Bijection, Injection, IsInjective
<1>3. D!Cardinality(set) = n
  BY DEF D!Cardinality, Cardinality
<1>4. g \in [1..n -> set] /\ D!IsInjective(g)
  BY <1>2 DEF D!IsInjective
<1>5. f \in [1..n -> set] /\ D!IsInjective(f)
  BY <1>3, <1>4 DEF D!SetToSeq
<1> HIDE DEF f
<1>6. f \in Injection(1..n, set)
  BY <1>5 DEF Injection, IsInjective, D!IsInjective
<1>7. IsFiniteSet(1..n) /\ Cardinality(1..n) = n
  BY <1>1, FS_Interval
<1>8. f \in Surjection(1..n, set)
  BY <1>6, <1>7, FS_Injection
<1>9. f \in Seq(set) /\ Len(f) = n
  BY <1>1, <1>5
<1>10. \A x \in set : \E i \in 1..n : f[i] = x
  BY <1>8 DEF Surjection
<1> QED
  BY <1>9, <1>10 DEF f

In(todo, x) == \E i \in 1..Len(todo) : todo[i] = x

\* The plan of a seed has every thing, and nothing else.
LEMMA PlanIsWhole == D!Plan \in Seq(D!Things) /\ \A x \in D!Things : In(D!Plan, x)
<1> DEFINE a == <<"admin", Placeholder>>
           b == D!SetToSeq(Assigned)
           c == D!SetToSeq(Unassigned)
           d == <<"stage", "scene", "board">>
<1>1. IsFiniteSet(Assigned) /\ IsFiniteSet(Unassigned)
  BY WorkersConstants DEF D!SeedingAssumption, D!IsFiniteSet, IsFiniteSet
<1>2. /\ b \in Seq(Assigned) /\ \A x \in Assigned : In(b, x)
      /\ c \in Seq(Unassigned) /\ \A x \in Unassigned : In(c, x)
  BY <1>1, SeqOfSet DEF In
<1> HIDE DEF b, c
<1>3. /\ a \in Seq(D!Things) /\ Len(a) = 2 /\ a[1] = "admin" /\ a[2] = Placeholder
      /\ d \in Seq(D!Things) /\ Len(d) = 3 /\ d[1] = "stage" /\ d[2] = "scene" /\ d[3] = "board"
  BY DEF D!Things
<1>4. b \in Seq(D!Things) /\ c \in Seq(D!Things)
  <2>1. Assigned \subseteq D!Things /\ Unassigned \subseteq D!Things
    BY DEF D!Things, D!Media
  <2> QED
    BY <1>2, <2>1
<1>5. In(a, "admin") /\ In(a, Placeholder) /\ In(d, "stage") /\ In(d, "scene") /\ In(d, "board")
  BY <1>3 DEF In
<1> HIDE DEF a, d
<1>6. ASSUME NEW u \in Seq(D!Things), NEW v \in Seq(D!Things)
      PROVE  u \o v \in Seq(D!Things) /\ \A x : In(u, x) \/ In(v, x) => In(u \o v, x)
  <2>1. u \o v \in Seq(D!Things) /\ Len(u \o v) = Len(u) + Len(v)
        /\ (\A i \in 1..Len(u) : (u \o v)[i] = u[i])
        /\ (\A i \in 1..Len(v) : (u \o v)[Len(u) + i] = v[i])
    OBVIOUS
  <2>2. ASSUME NEW x, NEW i \in 1..Len(u), u[i] = x PROVE In(u \o v, x)
    <3>1. i \in 1..Len(u \o v) /\ (u \o v)[i] = x
      BY <2>1, <2>2
    <3> QED
      BY <3>1 DEF In
  <2>3. ASSUME NEW x, NEW i \in 1..Len(v), v[i] = x PROVE In(u \o v, x)
    <3>1. Len(u) + i \in 1..Len(u \o v) /\ (u \o v)[Len(u) + i] = x
      BY <2>1, <2>3
    <3> QED
      BY <3>1 DEF In
  <2> QED
    BY <2>1, <2>2, <2>3 DEF In
<1>7. D!Plan = ((a \o b) \o c) \o d
  BY DEF D!Plan, a, b, c, d
<1>8. a \o b \in Seq(D!Things) /\ \A x : In(a, x) \/ In(b, x) => In(a \o b, x)
  BY <1>3, <1>4, <1>6
<1>9. (a \o b) \o c \in Seq(D!Things) /\ \A x : In(a \o b, x) \/ In(c, x) => In((a \o b) \o c, x)
  BY <1>4, <1>6, <1>8
<1>10. /\ D!Plan \in Seq(D!Things)
       /\ \A x : In((a \o b) \o c, x) \/ In(d, x) => In(D!Plan, x)
  BY <1>3, <1>6, <1>7, <1>9
<1> QED
  BY <1>2, <1>5, <1>8, <1>9, <1>10 DEF D!Things, D!Media

\* A turn takes the first off the list; all others are left.
LEMMA HeadAndTail ==
  ASSUME NEW todo \in Seq(D!Things), todo # <<>>
  PROVE  /\ Head(todo) \in D!Things /\ Tail(todo) \in Seq(D!Things)
         /\ \A x : In(todo, x) => x = Head(todo) \/ In(Tail(todo), x)
         /\ \A x : In(Tail(todo), x) => In(todo, x)
<1>1. /\ Len(todo) \in Nat \ {0} /\ Head(todo) = todo[1] /\ Head(todo) \in D!Things
      /\ Tail(todo) \in Seq(D!Things) /\ Len(Tail(todo)) = Len(todo) - 1
      /\ \A i \in 1..(Len(todo) - 1) : Tail(todo)[i] = todo[i + 1]
  OBVIOUS
<1>2. ASSUME NEW i \in 1..Len(todo)
      PROVE  todo[i] = Head(todo) \/ In(Tail(todo), todo[i])
  <2>1. CASE i = 1
    BY <1>1, <2>1
  <2>2. CASE i # 1
    <3>1. i - 1 \in 1..Len(Tail(todo)) /\ Tail(todo)[i - 1] = todo[i]
      BY <1>1, <2>2
    <3> QED
      BY <3>1 DEF In
  <2> QED
    BY <2>1, <2>2
<1>3. ASSUME NEW i \in 1..Len(Tail(todo))
      PROVE  In(todo, Tail(todo)[i])
  <2>1. i + 1 \in 1..Len(todo) /\ Tail(todo)[i] = todo[i + 1]
    BY <1>1
  <2> QED
    BY <2>1 DEF In
<1> QED
  BY <1>1, <1>2, <1>3 DEF In

Runs == [todo : Seq(D!Things), by : {"nobody", "bootstrap", "seed", "operator"}, own : SUBSET D!Things]

\* What a seed has seen to: the row, committed or its own, and for media the file.
Done(x) == /\ rows[x] = 1 \/ x \in run.own
           /\ x \in D!Media \cup {Placeholder} => x \in disk

\* Before the services are up nothing but the admin and the placeholder is committed,
\* and a run of the seed has done all that it has no more to see to.
NotYetUp ==
  /\ links = {} /\ ~others /\ run.by # "operator"
  /\ \A x \in D!Things \ {"admin", Placeholder} : rows[x] = 0
  /\ run.by = "bootstrap" =>
       \A x \in D!Things : In(run.todo, x) \/ x \in run.own => x \in {"admin", Placeholder}
  /\ run.by = "seed" => \A x \in D!Things : In(run.todo, x) \/ Done(x)

SeedSound ==
  /\ rows \in [D!Things -> {0, 1}] /\ run \in Runs
  /\ up \in BOOLEAN /\ others \in BOOLEAN /\ refused \in Nat
  /\ run.by = "nobody" => run = D!Idle
  /\ \A x \in run.own : rows[x] = 0
  /\ ~up => NotYetUp

LEMMA NamesDiffer ==
  /\ {"admin", Placeholder, "stage", "scene", "board"} \subseteq D!Things
  /\ "stage" \notin {"admin", Placeholder} /\ D!Media \subseteq D!Things
  /\ {"admin", "stage", "scene", "board"} \cap (D!Media \cup {Placeholder}) = {}
  BY WorkersConstants DEF D!SeedingAssumption, D!Things

LEMMA SeedAtFirst == D!Init => SeedSound
<1> SUFFICES ASSUME D!Init PROVE SeedSound
  OBVIOUS
<1>1. run \in Runs /\ run = D!Idle /\ run.own = {} /\ run.by = "nobody"
  BY DEF D!Init, D!Idle, Runs
<1> QED
  BY <1>1 DEF D!Init, SeedSound, NotYetUp

\* A run that begins has all to do, and nothing of its own.
LEMMA RunsBegin ==
  ASSUME NEW todo \in Seq(D!Things), NEW by \in {"bootstrap", "seed", "operator"}
  PROVE  /\ D!Begun(todo, by) \in Runs /\ D!Begun(todo, by).todo = todo
         /\ D!Begun(todo, by).by = by /\ D!Begun(todo, by).own = {}
  BY DEF D!Begun, Runs

LEMMA FirstTwo ==
  /\ <<"admin", Placeholder>> \in Seq(D!Things)
  /\ \A x : In(<<"admin", Placeholder>>, x) => x \in {"admin", Placeholder}
  BY DEF In, D!Things

LEMMA BootstrapKeeps == ASSUME SeedSound, D!Bootstrap PROVE SeedSound'
<1>1. /\ run' \in Runs /\ run'.todo = <<"admin", Placeholder>>
      /\ run'.by = "bootstrap" /\ run'.own = {}
  BY FirstTwo, RunsBegin DEF D!Bootstrap
<1>2. /\ rows' = rows /\ links' = links /\ others' = others /\ up' = up /\ refused' = refused
  BY DEF D!Bootstrap
<1> QED
  BY <1>1, <1>2, FirstTwo DEF SeedSound, NotYetUp

LEMMA ByHandKeeps == ASSUME SeedSound, D!ByHand PROVE SeedSound'
<1>1. run' \in Runs /\ run'.by = "operator" /\ run'.own = {}
  BY PlanIsWhole, RunsBegin DEF D!ByHand
<1>2. rows' = rows /\ others' = others /\ up' = up /\ refused' = refused /\ up
  BY DEF D!ByHand
<1> QED
  BY <1>1, <1>2 DEF SeedSound

LEMMA StepKeeps == ASSUME SeedSound, D!Step PROVE SeedSound'
<1>0. PICK x : x = Head(run.todo)
  OBVIOUS
<1>1. /\ run.todo \in Seq(D!Things) /\ run.todo # <<>> /\ run.own \subseteq D!Things
      /\ run \in Runs
  BY DEF SeedSound, Runs, D!Step
<1>2. /\ x \in D!Things /\ Tail(run.todo) \in Seq(D!Things)
      /\ \A y : In(run.todo, y) => y = x \/ In(Tail(run.todo), y)
      /\ \A y : In(Tail(run.todo), y) => In(run.todo, y)
  BY <1>0, <1>1, HeadAndTail
<1>3. In(run.todo, x)
  BY <1>0, <1>1 DEF In
<1>4. /\ run' = [run EXCEPT !.todo = Tail(run.todo),
                            !.own = IF D!Missing(x) THEN run.own \cup {x} ELSE run.own]
      /\ disk' = IF D!NeedsCopy(x) THEN disk \cup {x} ELSE disk
      /\ rows' = rows /\ links' = links /\ others' = others /\ up' = up /\ refused' = refused
  BY <1>0 DEF D!Step
<1>5. /\ run' \in Runs /\ run'.todo = Tail(run.todo) /\ run'.by = run.by
      /\ run'.own = IF D!Missing(x) THEN run.own \cup {x} ELSE run.own
  BY <1>1, <1>2, <1>4 DEF Runs
<1>6. \A y \in run'.own : rows[y] = 0
  BY <1>5 DEF SeedSound, D!Missing
<1>7. run.by # "nobody"
  BY <1>1 DEF SeedSound, D!Idle
<1>8. Done(x)'
  <2>1. rows[x] = 1 \/ x \in run'.own
    BY <1>2, <1>5 DEF D!Missing, SeedSound
  <2>2. x \in D!Media \cup {Placeholder} => x \in disk'
    BY <1>4 DEF D!NeedsCopy
  <2> QED
    BY <1>4, <2>1, <2>2 DEF Done
<1>9. \A y : Done(y) => Done(y)'
  BY <1>4, <1>5 DEF Done
<1>10. ASSUME ~up PROVE NotYetUp'
  <2>1. NotYetUp
    BY <1>10 DEF SeedSound
  <2>2. ASSUME run.by = "bootstrap", NEW y \in D!Things, In(Tail(run.todo), y) \/ y \in run'.own
        PROVE  y \in {"admin", Placeholder}
    BY <1>2, <1>3, <1>5, <2>1, <2>2 DEF NotYetUp
  <2>3. ASSUME run.by = "seed", NEW y \in D!Things PROVE In(Tail(run.todo), y) \/ Done(y)'
    BY <1>2, <1>8, <1>9, <2>1, <2>3 DEF NotYetUp
  <2> QED
    BY <1>4, <1>5, <2>1, <2>2, <2>3 DEF NotYetUp
<1> QED
  BY <1>4, <1>5, <1>6, <1>7, <1>10 DEF SeedSound

\* A COMMIT, while the services are not up, is the bootstrap's first, or the seed's.
LEMMA CommitKeeps ==
  ASSUME SeedSound, D!Commit
  PROVE  /\ SeedSound'
         /\ ~up /\ up' => /\ \A x \in D!Things : rows'[x] = 1
                          /\ links' = Assigned /\ D!Media \cup {Placeholder} \subseteq disk'
<1>1. /\ rows \in [D!Things -> {0, 1}] /\ run \in Runs /\ run.own \subseteq D!Things
      /\ run # D!Idle /\ run.todo = <<>> /\ run.by # "nobody" /\ \A x : ~In(run.todo, x)
  BY DEF D!Commit, SeedSound, Runs, In
<1>2. /\ rows' = [x \in D!Things |-> IF x \in run.own THEN rows[x] + 1 ELSE rows[x]]
      /\ links' = IF "stage" \in run.own THEN Assigned ELSE links
      /\ others' = others /\ disk' = disk /\ refused' = refused
  BY DEF D!Commit, D!Committed
<1>3. rows' \in [D!Things -> {0, 1}] /\ \A x \in D!Things : rows'[x] = 1 <=> rows[x] = 1 \/ x \in run.own
  BY <1>1, <1>2 DEF SeedSound
<1>4. CASE run.by = "bootstrap" /\ rows["stage"] = 0 /\ ~others
  <2>1. run' = D!Begun(D!Plan, "seed") /\ up' = up
    BY <1>4 DEF D!Commit, D!GoesOn
  <2>2. run' \in Runs /\ run'.todo = D!Plan /\ run'.by = "seed" /\ run'.own = {}
    BY <2>1, PlanIsWhole, RunsBegin
  <2>3. ASSUME ~up PROVE NotYetUp'
    <3>1. NotYetUp /\ run.own \subseteq {"admin", Placeholder}
      BY <1>1, <1>4, <2>3 DEF SeedSound, NotYetUp
    <3>2. \A x \in D!Things \ {"admin", Placeholder} : rows'[x] = 0
      BY <1>1, <1>2, <3>1 DEF NotYetUp
    <3>3. links' = {}
      BY <1>2, <3>1, NamesDiffer DEF NotYetUp
    <3> QED
      BY <1>2, <2>2, <3>1, <3>2, <3>3, PlanIsWhole DEF NotYetUp
  <2> QED
    BY <1>2, <1>3, <2>1, <2>2, <2>3 DEF SeedSound
<1>5. CASE ~(run.by = "bootstrap" /\ rows["stage"] = 0 /\ ~others)
  <2>1. run' = D!Idle /\ up' = TRUE
    BY <1>5 DEF D!Commit, D!GoesOn
  <2>2. run' \in Runs /\ run'.own = {}
    BY <2>1 DEF D!Idle, Runs
  <2>3. ASSUME ~up
        PROVE  /\ \A x \in D!Things : rows'[x] = 1
               /\ links' = Assigned /\ D!Media \cup {Placeholder} \subseteq disk'
    <3>1. NotYetUp /\ rows["stage"] = 0
      BY <2>3, NamesDiffer DEF SeedSound, NotYetUp
    <3>2. run.by = "seed"
      BY <1>1, <1>5, <3>1 DEF NotYetUp, Runs
    <3>3. \A x \in D!Things : Done(x)
      BY <1>1, <3>1, <3>2 DEF NotYetUp
    <3>4. "stage" \in run.own
      BY <3>1, <3>3, NamesDiffer DEF Done
    <3>5. D!Media \cup {Placeholder} \subseteq disk
      BY <3>3, NamesDiffer DEF Done
    <3> QED
      BY <1>2, <1>3, <3>3, <3>4, <3>5 DEF Done
  <2> QED
    BY <1>2, <1>3, <2>1, <2>2, <2>3 DEF SeedSound
<1> QED
  BY <1>4, <1>5

\* A COMMIT that is refused leaves no more than the bootstrap's own was to.
LEMMA RefusedKeeps ==
  ASSUME SeedSound, D!CommitRefused
  PROVE  /\ SeedSound'
         /\ ~up => /\ refused' # refused /\ links' = {}
                   /\ \A x \in D!Things \ {"admin", Placeholder} : rows'[x] = 0
<1>1. /\ rows' = rows /\ links' = links /\ others' = others /\ disk' = disk
      /\ refused' = refused + 1 /\ run.own # {}
  BY DEF D!CommitRefused
<1>2. ASSUME ~up
      PROVE  links' = {} /\ \A x \in D!Things \ {"admin", Placeholder} : rows'[x] = 0
  BY <1>1, <1>2 DEF SeedSound, NotYetUp
<1>3. refused \in Nat
  BY DEF SeedSound
<1>4. CASE run.by = "bootstrap" /\ rows["stage"] = 0 /\ ~others
  <2>1. run' = D!Begun(D!Plan, "seed") /\ up' = up
    BY <1>4 DEF D!CommitRefused, D!GoesOn
  <2>2. run' \in Runs /\ run'.todo = D!Plan /\ run'.by = "seed" /\ run'.own = {}
    BY <2>1, PlanIsWhole, RunsBegin
  <2>3. ASSUME ~up PROVE NotYetUp'
    BY <1>1, <1>2, <1>4, <2>2, <2>3, PlanIsWhole DEF NotYetUp
  <2> QED
    BY <1>1, <1>2, <1>3, <2>1, <2>2, <2>3 DEF SeedSound
<1>5. CASE ~(run.by = "bootstrap" /\ rows["stage"] = 0 /\ ~others)
  <2>1. run' = D!Idle /\ up' = TRUE
    BY <1>5 DEF D!CommitRefused, D!GoesOn
  <2>2. run' \in Runs /\ run'.own = {}
    BY <2>1 DEF D!Idle, Runs
  <2> QED
    BY <1>1, <1>2, <1>3, <2>1, <2>2 DEF SeedSound
<1> QED
  BY <1>4, <1>5

LEMMA RunStops ==
  ASSUME SeedSound, D!Die \/ D!Fail
  PROVE  SeedSound' /\ up' = up
<1>1. run' = D!Idle /\ links' = links /\ others' = others /\ up' = up /\ refused' = refused
  BY DEF D!Die, D!Fail
<1>2. rows' = rows
  <2>1. CASE D!Die
    <3>1. rows' = [x \in D!Things |-> rows[x] + 0]
      BY <2>1 DEF D!Die, D!Kept
    <3> QED
      BY <3>1 DEF SeedSound
  <2>2. CASE D!Fail
    BY <2>2 DEF D!Fail
  <2> QED
    BY <2>1, <2>2
<1>3. run' \in Runs /\ run'.own = {} /\ run'.by = "nobody"
  BY <1>1 DEF D!Idle, Runs
<1> QED
  BY <1>1, <1>2, <1>3 DEF SeedSound, NotYetUp

LEMMA ApiKeeps ==
  ASSUME SeedSound, D!CreateOther \/ \E x \in D!Things : D!Deletes(x)
  PROVE  SeedSound' /\ up' = up
<1>1. up /\ up' = up /\ run' = run /\ others' \in BOOLEAN /\ refused' = refused
  BY DEF D!CreateOther, D!Deletes, SeedSound
<1>2. rows' \in [D!Things -> {0, 1}] /\ \A x \in D!Things : rows[x] = 0 => rows'[x] = 0
  <2>1. CASE D!CreateOther
    BY <2>1 DEF D!CreateOther, SeedSound
  <2>2. ASSUME NEW x \in D!Things, D!Deletes(x)
        PROVE  rows' \in [D!Things -> {0, 1}] /\ \A y \in D!Things : rows[y] = 0 => rows'[y] = 0
    BY <2>2 DEF D!Deletes, SeedSound
  <2> QED
    BY <2>1, <2>2
<1>3. run.own \subseteq D!Things
  BY DEF SeedSound, Runs
<1> QED
  BY <1>1, <1>2, <1>3 DEF SeedSound

LEMMA SeedStays ==
  ASSUME SeedSound, [MCNext]_all
  PROVE  /\ SeedSound'
         /\ ~up /\ up' =>
              \/ /\ \A x \in D!Things : rows'[x] = 1
                 /\ links' = Assigned /\ D!Media \cup {Placeholder} \subseteq disk'
              \/ /\ refused' # refused /\ links' = {}
                 /\ \A x \in D!Things \ {"admin", Placeholder} : rows'[x] = 0
<1>1. CASE D!Bootstrap
  BY <1>1, BootstrapKeeps DEF D!Bootstrap
<1>2. CASE D!ByHand
  BY <1>2, ByHandKeeps DEF D!ByHand
<1>3. CASE D!Step
  BY <1>3, StepKeeps DEF D!Step
<1>4. CASE D!Commit
  BY <1>4, CommitKeeps
<1>5. CASE D!Die \/ D!Fail
  BY <1>5, RunStops
<1>6. CASE D!CommitRefused
  BY <1>6, RefusedKeeps
<1>7. CASE D!CreateOther \/ \E x \in D!Things : D!Deletes(x)
  BY <1>7, ApiKeeps
<1>8. CASE ~D!Next
  <2>1. UNCHANGED seeding
    BY <1>8 DEF MCNext, Trim, Count, Seed, Frame, Mail, Show, all
  <2> QED
    BY <2>1 DEF seeding, SeedSound, NotYetUp, Done
<1> QED
  BY <1>1, <1>2, <1>3, <1>4, <1>5, <1>6, <1>7, <1>8 DEF D!Next

\* However often runs die and are started again, nothing is seeded twice, and the
\* services first start on the whole Demo Stage, or right after a refused COMMIT on none of it.
THEOREM SeedsAreWhole == MCSpec => SeededWhole
<1>1. MCInit => SeedSound
  BY SeedAtFirst DEF MCInit
<1>2. SeedSound /\ [MCNext]_all => SeedSound'
  BY SeedStays
<1>3. SeedSound /\ [MCNext]_all =>
        (~up /\ up' =>
           \/ /\ \A x \in D!Things : rows'[x] = 1
              /\ links' = Assigned /\ D!Media \cup {Placeholder} \subseteq disk'
           \/ /\ refused' # refused /\ links' = {}
              /\ \A x \in D!Things \ {"admin", Placeholder} : rows'[x] = 0)
  BY SeedStays
<1>4. SeedSound => D!NothingTwice
  BY DEF SeedSound, D!NothingTwice
<1>5. MCSpec => []SeedSound
  BY <1>1, <1>2, PTL DEF MCSpec
<1>6. MCSpec => D!StartsComplete
  BY <1>3, <1>5, PTL DEF MCSpec, D!StartsComplete
<1>7. MCSpec => []D!NothingTwice
  BY <1>4, <1>5, PTL
<1> QED
  BY <1>6, <1>7 DEF SeededWhole, D!SeededWhole

(***************************************************************************)
(* Mails                                                                   *)
(***************************************************************************)
Counts == [Parts -> Nat]

\* What a caller may ask for: no notice has a Bcc list of its own.
IsJob(asked) ==
  \E kind \in {"none", "notice", "system", "studio"}, to \in Counts, bcc \in Counts, w \in BOOLEAN :
    /\ asked = M!Job(kind, to, bcc, w)
    /\ kind = "notice" => bcc = M!Empty
    /\ kind \in {"none", "studio"} => ~w

\* The default list stays empty, the headers are those of the job, and the server has
\* what the headers say.
MailsSound ==
  /\ default = M!Empty /\ IsJob(job)
  /\ msg # M!None => job # M!NoJob /\ msg = M!Composed
  /\ sent # M!Nothing => msg # M!None /\ sent = M!Sent

LEMMA ListsCount ==
  /\ M!Empty \in Counts
  /\ \A set : M!Once(set) \in Counts
  /\ \A set : \A l \in M!Lists(set) : l \in Counts
<1>1. \A set : M!Once(set) \in Counts
  BY DEF M!Once, Counts
<1>2. ASSUME NEW set, NEW l \in M!Lists(set) PROVE l \in Counts
  <2>1. l \in [Parts -> 0..MaxListed]
    BY DEF M!Lists
  <2>2. 0..MaxListed \subseteq Nat
    OBVIOUS
  <2> QED
    BY <2>1, <2>2 DEF Counts
<1> QED
  BY <1>1, <1>2 DEF M!Empty

LEMMA MailsAtFirst == M!Init => MailsSound
<1> SUFFICES ASSUME M!Init PROVE MailsSound
  OBVIOUS
<1>1. IsJob(M!NoJob)
  BY ListsCount DEF IsJob, M!NoJob
<1> QED
  BY <1>1 DEF M!Init, MailsSound

LEMMA AskKeeps == ASSUME MailsSound, M!Ask PROVE MailsSound'
<1>1. job = M!NoJob /\ msg' = msg /\ sent' = sent /\ default' = default /\ msg = M!None /\ sent = M!Nothing
  BY DEF M!Ask, MailsSound
<1>2. IsJob(job')
  <2>1. CASE M!Notice
    <3>1. PICK set \in {{x} : x \in Parts} \cup {Support}, w \in BOOLEAN :
            job' = M!Job("notice", M!Once(set), default, w)
      BY <2>1 DEF M!Notice
    <3> QED
      BY <3>1, ListsCount DEF IsJob, MailsSound
  <2>2. CASE M!System
    <3>1. PICK to \in Counts, bcc \in Counts, w \in BOOLEAN : job' = M!Job("system", to, bcc, w)
      BY <2>2, ListsCount DEF M!System
    <3> QED
      BY <3>1 DEF IsJob
  <2>3. CASE M!Studio
    <3>1. PICK to \in Counts, bcc \in Counts : job' = M!Job("studio", to, bcc, FALSE)
      BY <2>3, ListsCount DEF M!Studio
    <3> QED
      BY <3>1 DEF IsJob
  <2> QED
    BY <2>1, <2>2, <2>3 DEF M!Ask
<1> QED
  BY <1>1, <1>2 DEF MailsSound, IsJob

LEMMA ComposeKeeps == ASSUME MailsSound, M!Compose PROVE MailsSound'
<1>1. /\ job' = job /\ job # M!NoJob /\ msg = M!None /\ msg' = M!Composed
      /\ sent' = sent /\ default' = default /\ sent = M!Nothing
  BY DEF M!Compose, M!DefaultAfter, MailsSound
<1>2. M!Composed' = M!Composed
  BY <1>1 DEF M!Composed, M!Split
<1> QED
  BY <1>1, <1>2 DEF MailsSound, IsJob

LEMMA SendKeeps == ASSUME MailsSound, M!Send \/ M!End PROVE MailsSound'
<1>1. CASE M!Send
  <2>1. /\ job' = job /\ msg' = msg /\ default' = default /\ msg # M!None /\ sent' = M!Sent
    BY <1>1 DEF M!Send
  <2>2. M!Composed' = M!Composed /\ M!Sent' = M!Sent
    BY <2>1 DEF M!Composed, M!Split, M!Sent, M!Taken
  <2> QED
    BY <2>1, <2>2 DEF MailsSound, IsJob
<1>2. CASE M!End
  <2>1. job' = M!NoJob /\ msg' = M!None /\ sent' = M!Nothing /\ default' = default
    BY <1>2 DEF M!End
  <2>2. IsJob(M!NoJob)
    BY ListsCount DEF IsJob, M!NoJob
  <2> QED
    BY <2>1, <2>2 DEF MailsSound, IsJob
<1> QED
  BY <1>1, <1>2

LEMMA MailsStay ==
  ASSUME MailsSound, [MCNext]_all
  PROVE  MailsSound'
<1>1. CASE M!Next
  BY <1>1, AskKeeps, ComposeKeeps, SendKeeps DEF M!Next
<1>2. CASE ~M!Next
  <2>1. UNCHANGED <<job, msg, sent, default>>
    BY <1>2 DEF MCNext, Trim, Count, Seed, Frame, Mail, Show, all, mails
  <2> QED
    BY <2>1 DEF MailsSound, IsJob, M!Composed, M!Split, M!Sent, M!Taken
<1> QED
  BY <1>1, <1>2

\* How often each address is in the lists that mails are composed of.
LEMMA CountsOf ==
  /\ \A l \in Counts : M!Cleaned(l) \in Counts
       /\ \A a \in Parts : M!Cleaned(l)[a] = IF a = Blank THEN 0 ELSE l[a]
  /\ \A l \in Counts : \A set : M!ButSupport(l, set) \in Counts
       /\ \A a \in Parts : M!ButSupport(l, set)[a] =
            IF a = From \/ a \in Support \/ a \in set THEN 0 ELSE l[a]
  /\ \A set : M!Once(set) \in Counts /\ \A a \in Parts : M!Once(set)[a] = IF a \in set THEN 1 ELSE 0
  /\ \A x, y \in Counts : M!Together(x, y) \in Counts
       /\ \A a \in Parts : M!Together(x, y)[a] = x[a] + y[a]
  /\ \A l : \A a : a \in M!On(l) <=> a \in Parts /\ l[a] > 0
<1>1. \A l \in Counts : M!Cleaned(l) \in Counts
       /\ \A a \in Parts : M!Cleaned(l)[a] = IF a = Blank THEN 0 ELSE l[a]
  BY DEF M!Cleaned, M!Without, Counts
<1>2. \A l \in Counts : \A set : M!ButSupport(l, set) \in Counts
       /\ \A a \in Parts : M!ButSupport(l, set)[a] =
            IF a = From \/ a \in Support \/ a \in set THEN 0 ELSE l[a]
  BY DEF M!ButSupport, M!Without, Counts
<1>3. \A set : M!Once(set) \in Counts /\ \A a \in Parts : M!Once(set)[a] = IF a \in set THEN 1 ELSE 0
  BY DEF M!Once, Counts
<1>4. \A x, y \in Counts : M!Together(x, y) \in Counts
       /\ \A a \in Parts : M!Together(x, y)[a] = x[a] + y[a]
  BY DEF M!Together, Counts
<1>5. \A l : \A a : a \in M!On(l) <=> a \in Parts /\ l[a] > 0
  BY DEF M!On
<1> QED
  BY <1>1, <1>2, <1>3, <1>4, <1>5

\* The To header: what the split leaves of it, and the sender.
LEMMA SenderIsShown ==
  ASSUME NEW to \in Counts, NEW bcc \in Counts
  PROVE  LET m == M!WithSender([to |-> to, bcc |-> bcc])
         IN /\ m.bcc = bcc /\ m.to \in Counts
            /\ \A a \in Parts : m.to[a] = IF a = From /\ to[a] = 0 THEN 1 ELSE to[a]
<1> DEFINE m == M!WithSender([to |-> to, bcc |-> bcc])
           more == M!Together(M!Once({From}), to)
<1>1. From \in Parts
  BY WorkersConstants DEF M!MailsAssumption
<1>2. m.bcc = bcc /\ m.to = IF From \in M!On(to) THEN to ELSE more
  BY DEF M!WithSender
<1>3. more \in Counts /\ \A a \in Parts : more[a] = (IF a = From THEN 1 ELSE 0) + to[a]
  BY CountsOf
<1>4. From \in M!On(to) <=> to[From] > 0
  BY <1>1, CountsOf
<1>5. \A a \in Parts : to[a] \in Nat
  BY DEF Counts
<1> HIDE DEF more, m
<1> QED
  BY <1>1, <1>2, <1>3, <1>4, <1>5 DEF m

\* The strings of a mail whose split is to and bcc: those its headers show, and how often
\* each is in its headers.
LEMMA TakenOf ==
  ASSUME MailsSound, sent # M!Nothing, NEW to \in Counts, NEW bcc \in Counts,
         M!Split(M!Cleaned(job.to), M!Cleaned(job.bcc)) = [to |-> to, bcc |-> bcc]
  PROVE  /\ \A a : a \in M!On(msg.to) <=> a \in Parts /\ (a = From \/ to[a] > 0)
         /\ \A a \in Parts : M!Taken[a] =
              (IF a = From /\ to[a] = 0 THEN 1 ELSE to[a]) + bcc[a]
         /\ \A a : a \in M!On(M!Taken) <=> a \in Parts /\ (a = From \/ to[a] > 0 \/ bcc[a] > 0)
<1>1. PICK m : m = M!WithSender([to |-> to, bcc |-> bcc])
  OBVIOUS
<1>2. msg = m
  BY <1>1 DEF MailsSound, M!Composed
<1>3. /\ m.bcc = bcc /\ m.to \in Counts
      /\ \A a \in Parts : m.to[a] = IF a = From /\ to[a] = 0 THEN 1 ELSE to[a]
  BY <1>1, SenderIsShown
<1>4. PICK taken : taken = M!Taken
  OBVIOUS
<1>5. taken = M!Together(m.to, bcc)
  BY <1>2, <1>3, <1>4 DEF M!Taken
<1>6. \A a \in Parts : taken[a] = m.to[a] + bcc[a]
  BY <1>3, <1>5, CountsOf
<1>7. \A a \in Parts : to[a] \in Nat /\ bcc[a] \in Nat
  BY DEF Counts
<1>8. ASSUME NEW a PROVE a \in M!On(m.to) <=> a \in Parts /\ (a = From \/ to[a] > 0)
  BY <1>3, <1>7, CountsOf
<1>9. ASSUME NEW a PROVE a \in M!On(taken) <=> a \in Parts /\ (a = From \/ to[a] > 0 \/ bcc[a] > 0)
  BY <1>3, <1>6, <1>7, CountsOf
<1> QED
  BY <1>2, <1>3, <1>4, <1>6, <1>8, <1>9

\* What is so of the strings of a mail is so of the addresses they are read as.
LEMMA ByAddress ==
  ASSUME MailsSound, sent # M!Nothing, NEW own, NEW header,
         ~job.welcome => own \subseteq M!On(M!Taken),
         M!On(M!Taken) \subseteq own, M!On(msg.to) \subseteq header
  PROVE  /\ ~job.welcome => M!Read(own) \subseteq sent.envelope
         /\ sent.envelope \subseteq M!Read(own)
         /\ sent.shown \subseteq M!Read(header)
         /\ \A a \in sent.twice : \E x, y \in own :
              Reads[x] = a /\ Reads[y] = a /\ (x = y => M!Taken[x] > 1)
<1>1. PICK shown, taken : shown = M!On(msg.to) /\ taken = M!Taken
  OBVIOUS
<1>2. /\ sent.shown = M!Read(shown) /\ sent.envelope = M!Read(M!On(taken))
      /\ sent.twice = M!Twice(taken)
  BY <1>1 DEF MailsSound, M!Sent
<1>3. \A some, more : some \subseteq more => M!Read(some) \subseteq M!Read(more)
  BY DEF M!Read
<1>4. \A a \in M!Twice(taken) : \E x, y \in M!On(taken) :
        Reads[x] = a /\ Reads[y] = a /\ (x = y => taken[x] > 1)
  BY DEF M!Twice
<1> QED
  BY <1>1, <1>2, <1>3, <1>4

\* The recipients that join a Bcc list, without support and the sender.
LEMMA MovedOf ==
  ASSUME NEW to \in Counts, NEW bcc \in Counts
  PROVE  /\ M!Moved(to, bcc) \in Counts
         /\ \A a \in Parts : M!Moved(to, bcc)[a] =
              bcc[a] + (IF to[a] > 0 /\ a # From /\ bcc[a] = 0 THEN 1 ELSE 0)
<1>1. PICK joining : joining = M!On(to) \ ({From} \cup M!On(bcc))
  OBVIOUS
<1>2. \A a \in Parts : to[a] \in Nat /\ bcc[a] \in Nat
  BY DEF Counts
<1>3. \A a \in Parts : a \in joining <=> to[a] > 0 /\ a # From /\ bcc[a] = 0
  BY <1>1, <1>2, CountsOf
<1>4. M!Moved(to, bcc) = M!Together(bcc, M!Once(joining))
  BY <1>1 DEF M!Moved
<1> QED
  BY <1>3, <1>4, CountsOf

\* Support joins a Bcc list that no longer has it.
LEMMA SupportJoins ==
  ASSUME NEW bcc \in Counts, NEW shown
  PROVE  /\ M!Together(M!Once(Support), M!ButSupport(bcc, shown)) \in Counts
         /\ \A a \in Parts : M!Together(M!Once(Support), M!ButSupport(bcc, shown))[a] =
              IF a \in Support THEN 1 ELSE IF a = From \/ a \in shown THEN 0 ELSE bcc[a]
<1>1. PICK rest : rest = M!ButSupport(bcc, shown)
  OBVIOUS
<1>2. rest \in Counts /\ \A a \in Parts : rest[a] =
            IF a = From \/ a \in Support \/ a \in shown THEN 0 ELSE bcc[a]
  BY <1>1, CountsOf
<1>3. \A a \in Parts : bcc[a] \in Nat
  BY DEF Counts
<1> QED
  BY <1>1, <1>2, <1>3, CountsOf

LEMMA MailsAreTheirOwn == MailsSound => M!MailsReachTheirOwn
<1> SUFFICES ASSUME MailsSound, sent # M!Nothing PROVE M!MailsReachTheirOwn
  BY DEF M!MailsReachTheirOwn
<1>1. PICK kind \in {"none", "notice", "system", "studio"}, to \in Counts, bcc \in Counts, w \in BOOLEAN :
        /\ job = M!Job(kind, to, bcc, w)
        /\ kind = "notice" => bcc = M!Empty
        /\ kind \in {"none", "studio"} => ~w
  BY DEF MailsSound, IsJob
<1>2. job.kind = kind /\ job.to = to /\ job.bcc = bcc /\ job.welcome = w
  BY <1>1 DEF M!Job
<1>3. PICK cto, cbcc : cto = M!Cleaned(to) /\ cbcc = M!Cleaned(bcc)
  OBVIOUS
<1>4. /\ cto \in Counts /\ cbcc \in Counts
      /\ \A a \in Parts : cto[a] = (IF a = Blank THEN 0 ELSE to[a])
      /\ \A a \in Parts : cbcc[a] = (IF a = Blank THEN 0 ELSE bcc[a])
  BY <1>3, CountsOf
<1>5. From \in Parts /\ From # Blank /\ Support \subseteq Parts /\ Blank \notin Support
  BY WorkersConstants DEF M!MailsAssumption
<1>6. \A a \in Parts : /\ to[a] \in Nat /\ bcc[a] \in Nat
                       /\ cto[a] \in Nat /\ cbcc[a] \in Nat
                       /\ cto[a] > 0 => to[a] > 0
                       /\ bcc[a] <= 1 => cbcc[a] <= 1
  BY <1>4 DEF Counts
<1>7. kind = "notice" => \A a \in Parts : cbcc[a] = 0
  BY <1>1, <1>4, CountsOf DEF M!Empty
<1>8. \A a : a \in M!Listed <=> a \in Parts /\ (cto[a] > 0 \/ cbcc[a] > 0)
  BY <1>2, <1>3, <1>7, CountsOf DEF M!Listed
<1>9. \A a : a \in M!Own <=> a \in M!Listed \cup {From} \cup Support
  BY DEF M!Own
<1>10. \A a : a \in M!MayShow <=> a = From \/ (~(kind # "studio" /\ ~w) /\ a \in M!On(to))
  BY <1>2 DEF M!MayShow, M!Quiet
<1>11. /\ \A a : a \in M!On(to) <=> a \in Parts /\ to[a] > 0
       /\ \A a : a \in M!On(cto) <=> a \in Parts /\ cto[a] > 0
  BY CountsOf
<1>12. M!Quiet <=> kind # "studio" /\ ~w
  BY <1>2 DEF M!Quiet
<1>13. CASE kind = "studio"
  <2>1. PICK copies : copies = M!Together(M!Once(Support), M!ButSupport(cbcc, M!On(cto)))
    OBVIOUS
  <2>2. M!Split(cto, cbcc) = [to |-> cto, bcc |-> copies]
    BY <1>2, <1>13, <2>1 DEF M!Split
  <2>3. /\ copies \in Counts
        /\ \A a \in Parts : copies[a] =
             IF a \in Support THEN 1 ELSE IF a = From \/ a \in M!On(cto) THEN 0 ELSE cbcc[a]
    BY <1>4, <2>1, SupportJoins
  <2>4. /\ \A a : a \in M!On(msg.to) <=> a \in Parts /\ (a = From \/ cto[a] > 0)
        /\ \A a : a \in M!On(M!Taken) <=> a \in Parts /\ (a = From \/ cto[a] > 0 \/ copies[a] > 0)
    BY <1>2, <1>3, <1>4, <2>2, <2>3, TakenOf
  <2>5. \A a : a \in M!On(M!Taken) <=> a \in M!Listed \cup {From} \cup Support
    BY <1>5, <1>6, <1>8, <1>11, <2>3, <2>4
  <2>6. \A a \in M!On(msg.to) : a = From \/ a \in M!On(to)
    BY <1>6, <1>11, <2>4
  <2> QED
    <3>1. M!Own \subseteq M!On(M!Taken) /\ M!On(M!Taken) \subseteq M!Own /\ M!On(msg.to) \subseteq M!MayShow
      BY <1>13, <1>9, <1>10, <2>5, <2>6
    <3>2. /\ M!Read(M!Own) \subseteq sent.envelope /\ sent.envelope \subseteq M!Read(M!Own)
          /\ sent.shown \subseteq M!Read(M!MayShow)
      BY <1>1, <1>2, <1>13, <3>1, ByAddress
    <3> QED
      BY <1>13, <1>12, <3>2 DEF M!MailsReachTheirOwn
<1>14. CASE kind # "studio" /\ w
  <2>1. M!Split(cto, cbcc) = [to |-> cto, bcc |-> M!Empty]
    BY <1>2, <1>14 DEF M!Split
  <2>2. M!Empty \in Counts /\ \A a \in Parts : M!Empty[a] = 0
    BY CountsOf DEF M!Empty
  <2>3. /\ \A a : a \in M!On(msg.to) <=> a \in Parts /\ (a = From \/ cto[a] > 0)
        /\ \A a : a \in M!On(M!Taken) <=> a \in Parts /\ (a = From \/ cto[a] > 0 \/ M!Empty[a] > 0)
    BY <1>2, <1>3, <1>4, <2>1, <2>2, TakenOf
  <2>4. \A a \in M!On(M!Taken) : a \in M!Listed \cup {From} \cup Support
    BY <1>8, <2>2, <2>3
  <2>5. \A a \in M!On(msg.to) : a = From \/ a \in M!On(to)
    BY <1>6, <1>11, <2>3
  <2> QED
    <3>1. M!On(M!Taken) \subseteq M!Own /\ M!On(msg.to) \subseteq M!MayShow
      BY <1>14, <1>9, <1>10, <2>4, <2>5
    <3>2. sent.envelope \subseteq M!Read(M!Own) /\ sent.shown \subseteq M!Read(M!MayShow)
      BY <1>2, <1>14, <3>1, ByAddress
    <3> QED
      BY <1>2, <1>14, <1>12, <3>2 DEF M!MailsReachTheirOwn
<1>15. CASE kind # "studio" /\ ~w
  <2>1. PICK joined : joined = M!Moved(cto, cbcc)
    OBVIOUS
  <2>2. joined \in Counts /\ \A a \in Parts : joined[a] =
          cbcc[a] + (IF cto[a] > 0 /\ a # From /\ cbcc[a] = 0 THEN 1 ELSE 0)
    BY <1>4, <2>1, MovedOf
  <2>3. PICK copies : copies = M!Together(M!Once(Support), M!ButSupport(joined, {}))
    OBVIOUS
  <2>4. M!Split(cto, cbcc) = [to |-> M!Empty, bcc |-> copies]
    BY <1>2, <1>15, <2>1, <2>3 DEF M!Split
  <2>5. /\ copies \in Counts
        /\ \A a \in Parts : copies[a] =
             IF a \in Support THEN 1 ELSE IF a = From THEN 0 ELSE joined[a]
    BY <2>2, <2>3, SupportJoins
  <2>6. M!Empty \in Counts /\ \A a \in Parts : M!Empty[a] = 0
    BY CountsOf DEF M!Empty
  <2>7. /\ \A a : a \in M!On(msg.to) <=> a \in Parts /\ (a = From \/ M!Empty[a] > 0)
        /\ \A a \in Parts : M!Taken[a] =
             (IF a = From /\ M!Empty[a] = 0 THEN 1 ELSE M!Empty[a]) + copies[a]
        /\ \A a : a \in M!On(M!Taken) <=> a \in Parts /\ (a = From \/ M!Empty[a] > 0 \/ copies[a] > 0)
    BY <1>2, <1>3, <2>4, <2>5, <2>6, TakenOf
  <2>8. \A a \in Parts : M!Taken[a] = (IF a = From THEN 1 ELSE 0) + copies[a]
    BY <2>6, <2>7
  <2>9. \A a : a \in M!On(M!Taken) <=> a \in M!Listed \cup {From} \cup Support
    <3>1. \A a \in Parts : /\ copies[a] > 0 <=> a \in Support \/ (a # From /\ (cto[a] > 0 \/ cbcc[a] > 0))
                           /\ M!Empty[a] = 0
      BY <1>6, <2>2, <2>5, <2>6
    <3> QED
      BY <1>5, <1>8, <2>7, <3>1
  <2>10. M!On(msg.to) \subseteq {From}
    BY <2>6, <2>7
  <2>11. ASSUME NEW a \in Parts, M!Taken[a] > 1
         PROVE  bcc[a] > 1 \/ (a = From /\ a \in Support)
    <3>1. CASE bcc[a] > 1
      BY <3>1
    <3>2. CASE ~(bcc[a] > 1)
      <4>1. cbcc[a] \in Nat /\ cbcc[a] <= 1
        <5>1. bcc[a] \in Nat /\ cbcc[a] \in Nat /\ (bcc[a] <= 1 => cbcc[a] <= 1)
          BY <1>6
        <5> QED
          BY <3>2, <5>1
      <4>2. joined[a] \in Nat /\ joined[a] <= 1
        BY <2>2, <4>1
      <4> QED
        BY <2>5, <2>8, <2>11, <4>2
    <3> QED
      BY <3>1, <3>2
  <2>12. M!Own \subseteq M!On(M!Taken) /\ M!On(M!Taken) \subseteq M!Own /\ M!Own \subseteq Parts
    BY <1>5, <1>8, <1>9, <2>9
  <2>13. /\ M!Read(M!Own) \subseteq sent.envelope /\ sent.envelope \subseteq M!Read(M!Own)
         /\ sent.shown \subseteq M!Read(M!MayShow)
         /\ \A a \in sent.twice : \E x, y \in M!Own :
              Reads[x] = a /\ Reads[y] = a /\ (x = y => M!Taken[x] > 1)
    BY <1>2, <1>15, <1>10, <2>10, <2>12, ByAddress
  <2>14. ASSUME NEW a \in sent.twice
         PROVE  \E x, y \in M!Own : /\ Reads[x] = a /\ Reads[y] = a
                                    /\ x = y => job.bcc[x] > 1 \/ (x = From /\ x \in Support)
    <3>1. PICK x \in M!Own, y \in M!Own : Reads[x] = a /\ Reads[y] = a /\ (x = y => M!Taken[x] > 1)
      BY <2>13
    <3>2. x = y => bcc[x] > 1 \/ (x = From /\ x \in Support)
      BY <2>11, <2>12, <3>1
    <3> QED
      BY <1>2, <3>1, <3>2
  <2> QED
    <3>1. \A a \in sent.twice :
            \E x, y \in M!Own : /\ Reads[x] = a /\ Reads[y] = a
                                /\ x = y => job.bcc[x] > 1 \/ (x = From /\ x \in Support)
      BY <2>14
    <3>2. /\ M!Read(M!Own) \subseteq sent.envelope /\ sent.envelope \subseteq M!Read(M!Own)
          /\ sent.shown \subseteq M!Read(M!MayShow)
      BY <2>13
    <3> QED
      BY <3>1, <3>2 DEF M!MailsReachTheirOwn
<1> QED
  BY <1>13, <1>14, <1>15

\* A mail reaches all who are listed for it and support, and nobody who was listed for an
\* earlier one, its headers show only whom they may show, and where all recipients are
\* in Bcc it comes once to everybody who is listed once and in one way: create_email and
\* send_async.
THEOREM MailsReachOnlyTheirOwn == MCSpec => []MailsReachTheirOwn
<1>1. MCInit => MailsSound
  BY MailsAtFirst DEF MCInit
<1>2. MailsSound /\ [MCNext]_all => MailsSound'
  BY MailsStay
<1>3. MailsSound => MailsReachTheirOwn
  BY MailsAreTheirOwn DEF MailsReachTheirOwn
<1> QED
  BY <1>1, <1>2, <1>3, PTL DEF MCSpec
===============================================================================
