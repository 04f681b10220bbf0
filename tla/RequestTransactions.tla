-------------------------- MODULE RequestTransactions --------------------------
(***************************************************************************)
(* The GraphQL API process: asyncio requests on one event loop, each with  *)
(* one SQLAlchemy session over blocking psycopg2.  A request runs its root *)
(* mutations in turn; the GraphQL layer ends the transaction the moment a  *)
(* resolver settles; the HTTP middleware commits what is left at teardown. *)
(* A statement that waits for a row lock stalls the whole loop.            *)
(***************************************************************************)
EXTENDS Integers, Sequences

CONSTANTS
  Requests,    \* the HTTP requests
  Rows,        \* the database rows they write
  Program,     \* Program[r]: the root mutations of r, each a sequence of steps
  NoRequest,   \* nobody, where a request is named
  Other        \* another process with row locks: statistics worker, script, psql

\* What a resolver does to the database and to the loop: a statement that locks
\* and writes a row, a commit of its own, or an await.
Write(x) == [do |-> "write", row |-> x]
Commit == [do |-> "commit"]
Await == [do |-> "await"]
Step == {Write(x) : x \in Rows} \cup {Commit, Await}

\* The rule written above upload_media: no write may be pending at an await.
Disciplined(p) ==
  \A i, k \in DOMAIN p :
     (i < k /\ p[i].do = "write" /\ p[k].do = "await")
        => \E j \in (i + 1)..(k - 1) : p[j].do = "commit"

ASSUME RequestAssumption ==
  /\ Program \in [Requests -> Seq(Seq(Step))]
  /\ \A r \in Requests : \A m \in DOMAIN Program[r] : Disciplined(Program[r][m])
  /\ NoRequest \notin Requests /\ Other \notin Requests /\ Other # NoRequest

\* Resolvers of the four shapes the code has.
PlainMutation(x) == <<Write(x)>>
UploadMedia(type, asset) == <<Await, Write(type), Commit, Await, Write(asset)>>
UpdateLastAccess(stage) == <<Write(stage), Commit>>
Login(user) == <<Await, Write(user)>>

VARIABLES
  loop,      \* the request whose code is on the event loop, or NoRequest
  phase,     \* "new", "ready", "waiting", "closed"
  mut,       \* the root mutation r is at, one past the last when it tears down
  pos,       \* the step of it to be taken
  lock,      \* lock[x]: who holds the lock of row x
  pending,   \* pending[r]: steps <<mutation, position>> written, not committed
  saved,     \* saved[r]: those that are durable
  answer     \* answer[r]: what r's client is told of each mutation so far

\* A history variable, which no guard reads.
VARIABLE
  cut        \* cut[r]: mutations whose connection broke in the COMMIT that settles them

vars == <<loop, phase, mut, pos, lock, pending, saved, answer, cut>>

Answers == {"ok", "error"}

Init ==
  /\ loop = NoRequest
  /\ phase = [r \in Requests |-> "new"]
  /\ mut = [r \in Requests |-> 1]
  /\ pos = [r \in Requests |-> 1]
  /\ lock = [x \in Rows |-> NoRequest]
  /\ pending = [r \in Requests |-> {}]
  /\ saved = [r \in Requests |-> {}]
  /\ answer = [r \in Requests |-> <<>>]
  /\ cut = [r \in Requests |-> {}]

InMutation(r) == mut[r] \in DOMAIN Program[r]
Current(r) == Program[r][mut[r]]
AtStep(r, kind) == InMutation(r) /\ pos[r] \in DOMAIN Current(r) /\ Current(r)[pos[r]].do = kind
AtReturn(r) == InMutation(r) /\ pos[r] = Len(Current(r)) + 1

\* The end of a transaction: what is pending becomes durable or not, and its
\* row locks are free.
EndTransaction(r, durable) ==
  /\ saved' = [saved EXCEPT ![r] = IF durable THEN @ \cup pending[r] ELSE @]
  /\ pending' = [pending EXCEPT ![r] = {}]
  /\ lock' = [x \in Rows |-> IF lock[x] = r THEN NoRequest ELSE lock[x]]
-------------------------------------------------------------------------------
\* The loop turns to a request that has just come or is ready to go on.
Resume(r) ==
  /\ loop = NoRequest
  /\ phase[r] \in {"new", "ready"}
  /\ loop' = r
  /\ phase' = [phase EXCEPT ![r] = "ready"]
  /\ UNCHANGED <<mut, pos, lock, pending, saved, answer, cut>>

\* What a worker thread or an HTTP call computed is there.
Awaited(r) ==
  /\ phase[r] = "waiting"
  /\ phase' = [phase EXCEPT ![r] = "ready"]
  /\ UNCHANGED <<loop, mut, pos, lock, pending, saved, answer, cut>>

\* A statement takes its row's lock; it waits, and the loop with it, for another.
DoWrite(r) ==
  /\ loop = r
  /\ AtStep(r, "write")
  /\ LET x == Current(r)[pos[r]].row
     IN /\ lock[x] \in {NoRequest, r}
        /\ lock' = [lock EXCEPT ![x] = r]
  /\ pending' = [pending EXCEPT ![r] = @ \cup {<<mut[r], pos[r]>>}]
  /\ pos' = [pos EXCEPT ![r] = @ + 1]
  /\ UNCHANGED <<loop, phase, mut, saved, answer, cut>>

\* The field is answered; the loop turns to others before the next root mutation
\* or the teardown.  After an error the document may go on or be abandoned.
Answer(r, a) ==
  /\ answer' = [answer EXCEPT ![r] = Append(@, a)]
  /\ loop' = NoRequest
  /\ pos' = [pos EXCEPT ![r] = 1]
  /\ \/ mut' = [mut EXCEPT ![r] = @ + 1]
     \/ a # "ok" /\ mut' = [mut EXCEPT ![r] = Len(Program[r]) + 1]
  /\ UNCHANGED phase

\* The resolver commits by itself.
DoCommit(r) ==
  /\ loop = r
  /\ AtStep(r, "commit")
  /\ EndTransaction(r, TRUE)
  /\ pos' = [pos EXCEPT ![r] = @ + 1]
  /\ UNCHANGED <<loop, phase, mut, answer, cut>>

\* The connection is lost after its COMMIT took effect: the resolver raises.
CommitLost(r) ==
  /\ loop = r
  /\ AtStep(r, "commit")
  /\ EndTransaction(r, TRUE)
  /\ Answer(r, "error")
  /\ UNCHANGED cut

\* The resolver awaits: the loop is free for another request.
DoAwait(r) ==
  /\ loop = r
  /\ AtStep(r, "await")
  /\ loop' = NoRequest
  /\ phase' = [phase EXCEPT ![r] = "waiting"]
  /\ pos' = [pos EXCEPT ![r] = @ + 1]
  /\ UNCHANGED <<mut, lock, pending, saved, answer, cut>>

\* Mutant: the transaction stays open until the teardown (before the 2026-09-19 fix).
SettleLate(r) ==
  /\ loop = r
  /\ AtReturn(r)
  /\ Answer(r, "ok")
  /\ UNCHANGED <<lock, pending, saved, cut>>

\* end_transaction_after_root_mutation: the resolver returned, COMMIT at once.
Settle(r) ==
  /\ loop = r
  /\ AtReturn(r)
  /\ EndTransaction(r, TRUE)
  /\ Answer(r, "ok")
  /\ UNCHANGED cut

\* The COMMIT is refused: rolled back, and the client is told so.
SettleRefused(r) ==
  /\ loop = r
  /\ AtReturn(r)
  /\ pending[r] # {}
  /\ EndTransaction(r, FALSE)
  /\ Answer(r, "error")
  /\ UNCHANGED cut

\* The connection is lost while the COMMIT runs: it took effect or it did not, and
\* the client is told what it is told of a refused one.
SettleUnknown(r) ==
  /\ loop = r
  /\ AtReturn(r)
  /\ pending[r] # {}
  /\ \E durable \in BOOLEAN : EndTransaction(r, durable)
  /\ Answer(r, "error")
  /\ cut' = [cut EXCEPT ![r] = @ \cup {mut[r]}]

\* Mutant: an error leaves what was flushed for the teardown to commit.
FailKeeps(r) ==
  /\ loop = r
  /\ InMutation(r)
  /\ EndTransaction(r, TRUE)
  /\ Answer(r, "error")
  /\ UNCHANGED cut

\* Mutant: no lock_timeout, so a statement that waits for a row cannot fail.
FailUnlessBlocked(r) ==
  /\ AtStep(r, "write") => lock[Current(r)[pos[r]].row] # Other
  /\ loop = r
  /\ InMutation(r)
  /\ EndTransaction(r, FALSE)
  /\ Answer(r, "error")
  /\ UNCHANGED cut

\* Mutant: an error of the teardown is answered as if a mutation had raised it.
FailAnywhere(r) ==
  /\ loop = r
  /\ EndTransaction(r, FALSE)
  /\ Answer(r, "error")
  /\ UNCHANGED cut

\* The resolver raises or returns an exception, anywhere; a statement that waited
\* lock_timeout for a row is one that raises.
Fail(r) ==
  /\ loop = r
  /\ InMutation(r)
  /\ EndTransaction(r, FALSE)
  /\ Answer(r, "error")
  /\ UNCHANGED cut

\* The client goes away while the request is off the loop: CancelledError at its
\* await rolls back, and the session is closed.
Cancel(r) ==
  /\ loop = NoRequest
  /\ phase[r] \in {"ready", "waiting"}
  /\ EndTransaction(r, FALSE)
  /\ phase' = [phase EXCEPT ![r] = "closed"]
  /\ UNCHANGED <<loop, mut, pos, answer, cut>>

\* request_session leaves: what is pending is committed, the session closed.
Teardown(r) ==
  /\ loop = r
  /\ ~InMutation(r)
  /\ EndTransaction(r, TRUE)
  /\ phase' = [phase EXCEPT ![r] = "closed"]
  /\ loop' = NoRequest
  /\ UNCHANGED <<mut, pos, answer, cut>>

OtherLocks(x) ==
  /\ lock[x] = NoRequest
  /\ lock' = [lock EXCEPT ![x] = Other]
  /\ UNCHANGED <<loop, phase, mut, pos, pending, saved, answer, cut>>

OtherUnlocks(x) ==
  /\ lock[x] = Other
  /\ lock' = [lock EXCEPT ![x] = NoRequest]
  /\ UNCHANGED <<loop, phase, mut, pos, pending, saved, answer, cut>>

OnLoop(r) == \/ DoWrite(r) \/ DoCommit(r) \/ CommitLost(r) \/ DoAwait(r)
             \/ Settle(r) \/ SettleRefused(r) \/ SettleUnknown(r)
             \/ Fail(r) \/ Teardown(r)

Next == \/ \E r \in Requests : Resume(r) \/ Awaited(r) \/ OnLoop(r) \/ Cancel(r)
        \/ \E x \in Rows : OtherLocks(x) \/ OtherUnlocks(x)

Spec == Init /\ [][Next]_vars

\* The loop runs what is on it and picks its ready requests first come first
\* served; worker threads and HTTP calls end. Nothing makes another process
\* release a row.
Fairness == \A r \in Requests : /\ WF_vars(OnLoop(r))
                                /\ WF_vars(Awaited(r))
                                /\ SF_vars(Resume(r))

FairSpec == Spec /\ Fairness
-------------------------------------------------------------------------------
\* Every variable keeps its type, and no request runs past the end of a resolver
\* or of its document.
TypeOK ==
  /\ loop \in Requests \cup {NoRequest}
  /\ phase \in [Requests -> {"new", "ready", "waiting", "closed"}]
  /\ mut \in [Requests -> Nat] /\ pos \in [Requests -> Nat]
  /\ \A r \in Requests : /\ mut[r] \in 1..(Len(Program[r]) + 1)
                         /\ InMutation(r) => pos[r] \in 1..(Len(Current(r)) + 1)
  /\ lock \in [Rows -> Requests \cup {NoRequest, Other}]
  /\ pending \in [Requests -> SUBSET (Nat \X Nat)]
  /\ saved \in [Requests -> SUBSET (Nat \X Nat)]
  /\ answer \in [Requests -> Seq(Answers)]
  /\ cut \in [Requests -> SUBSET Nat]

\* No request holds a row lock, or anything uncommitted, while the loop belongs to
\* another or to none: the 2026-09-19 outage was exactly such a lock.
NoLockAcrossYield ==
  \A r \in Requests : loop # r => /\ pending[r] = {}
                                  /\ \A x \in Rows : lock[x] # r

WritesOf(p) == {i \in DOMAIN p : p[i].do = "write"}

\* The writes of p after its last own commit, which settle with the resolver.
LastUnit(p) == {i \in WritesOf(p) : \A j \in DOMAIN p : j > i => p[j].do # "commit"}

SavedOf(r, m) == {i \in DOMAIN Program[r][m] : <<m, i>> \in saved[r]}

\* A mutation answered "ok" is durable to its last write. One answered "error" left
\* nothing behind but what its resolver had committed before, or else it is durable
\* to its last write and only its answer is wrong: the connection broke while the
\* COMMIT ran, which the client cannot tell from a refusal.
AnswerMatchesDatabase ==
  \A r \in Requests : \A m \in DOMAIN answer[r] :
     LET p == Program[r][m]
     IN /\ answer[r][m] = "ok" => SavedOf(r, m) = WritesOf(p)
        /\ answer[r][m] = "error" =>
              \/ SavedOf(r, m) \cap LastUnit(p) = {}
              \/ m \in cut[r] /\ SavedOf(r, m) = WritesOf(p)

\* Two writes with no commit between them are durable together or not at all, in
\* every state and whatever fails, is refused or is cancelled.
AllOrNothing ==
  \A r \in Requests : \A m \in DOMAIN Program[r] :
     \A i, k \in WritesOf(Program[r][m]) :
        (i < k /\ \A j \in i..k : Program[r][m][j].do # "commit")
           => (i \in SavedOf(r, m) <=> k \in SavedOf(r, m))

\* Every request is answered and closed, though another process may sit on a row.
EveryRequestEnds == \A r \in Requests : <>(phase[r] = "closed")
===============================================================================
