------------------------------- MODULE Sessions -------------------------------
(***************************************************************************)
(* Login, refresh and logout over the rows of user_session, and the        *)
(* decorator that admits a request.  A token says nothing but whose it is  *)
(* and when it expires, in whole seconds, so that two access tokens, or    *)
(* two refresh tokens, of one user and one second are the same.  A pair's  *)
(* two tokens are made from two readings of the clock, and may be of       *)
(* different seconds.  The resolvers await nothing once they have looked   *)
(* at the database, so each is one step, during which the clock may go on; *)
(* one that raises, or whose COMMIT is refused, is no step.                *)
(***************************************************************************)
EXTENDS Integers, FiniteSets, FiniteSetsExt

CONSTANTS
  Users, Admins,      \* the accounts, and those with the role of an administrator
  Canonical,          \* the account of CANONICAL_ADMIN_USERNAME
  Clients,            \* the browsers
  NoPair,             \* a browser that keeps no tokens
  AccessLife,         \* seconds until an access token expires
  MaxClock, MaxRow    \* bounds: the clock, ids of user_session

\* What the constants are: the instances of this module assume it.
SessionsAssumption ==
  /\ Admins \subseteq Users /\ Canonical \in Admins
  /\ AccessLife \in Nat \ {0} /\ MaxClock \in Nat /\ MaxRow \in Nat
  /\ NoPair \notin [user : Users, at : Nat, renew : Nat]

VARIABLES
  clock,      \* the second it is
  status,     \* an account: not approved yet or deactivated, active, deleted
  sessions,   \* the rows of user_session
  hand        \* the pair of tokens each browser keeps

vars == <<clock, status, sessions, hand>>

\* The seconds an access token and a refresh token were issued.
Pair == [user : Users, at : Nat, renew : Nat]
\* login, a number no code sees: of the login whose chain of refreshes the row ends.
Row == [id : Nat, user : Users, at : Nat, renew : Nat, login : Nat]

PairOf(r) == [user |-> r.user, at |-> r.at, renew |-> r.renew]

\* The rows with the access token of a pair, or of a row; those with its refresh token.
AccessRows(pair) == {r \in sessions : r.user = pair.user /\ r.at = pair.at}
RefreshRows(pair) == {r \in sessions : r.user = pair.user /\ r.renew = pair.renew}

\* Mutant: expiry is cut to every other second.
SecondRounded(t) == t - (t % 2)

\* What create_token keeps of the time of issue.
Second(t) == t

\* Mutant: ids are counted, and come again.
TopCounted == Cardinality(sessions)

\* New rows have ids above all others of the table.
Top == Max({r.id : r \in sessions} \cup {r.login : r \in sessions} \cup {0})

Init == /\ clock = 0
        /\ status = [u \in Users |-> IF u \in Admins THEN "active" ELSE "inactive"]
        /\ sessions = {}
        /\ hand = [c \in Clients |-> NoPair]

Tick == /\ clock < MaxClock
        /\ clock' = clock + 1
        /\ UNCHANGED <<status, sessions, hand>>

\* What the decorator asks: the row of the bearer's access token, which has not
\* expired, and an active account, of one of the roles where there are any.
Authenticated(c, allowed) ==
  /\ hand[c] # NoPair
  /\ clock < hand[c].at + AccessLife
  /\ AccessRows(hand[c]) # {}
  /\ status[hand[c].user] = "active"
  /\ hand[c].user \in allowed

\* The answer reaches the browser, which keeps what it says, or is lost on the way.
Answered(c, pair) == hand' = [hand EXCEPT ![c] = pair] \/ UNCHANGED hand

\* The pair issued to u, in a row that goes on with the chain of a login: the access
\* token now, the refresh token at a later reading of the clock.
Issued(id, u, login, later) ==
  [id |-> id, user |-> u, at |-> Second(clock), renew |-> Second(later), login |-> login]

\* What the clock can read while a request is served.
Later == clock..MaxClock

\* login, with the right password.
Login(c, u) ==
  /\ status[u] = "active"
  /\ \E later \in Later :
       LET row == Issued(Top + 1, u, Top + 1, later)
       IN /\ sessions' = sessions \cup {row}
          /\ Answered(c, PairOf(row))
          /\ clock' = later
  /\ UNCHANGED status

\* Mutants: the row exchanged stays for a while; all rows of its user go.
ExchangedKept(r) == {}
ExchangedAll(r) == {q \in sessions : q.user = r.user}

\* The rows refresh_token deletes for the row it found first: all of its refresh token.
Exchanged(r) == RefreshRows(r)

\* refresh_token, which looks for the refresh token alone: whether it has expired and
\* the account is active is not asked.
Refresh(c) ==
  /\ hand[c] # NoPair
  /\ \E r \in RefreshRows(hand[c]), later \in Later :
       LET row == Issued(Top + 1, r.user, r.login, later)
       IN /\ sessions' = (sessions \ Exchanged(r)) \cup {row}
          /\ Answered(c, PairOf(row))
          /\ clock' = later
  /\ UNCHANGED status

\* logout deletes the first row of the access token, expired or not.
Logout(c) ==
  /\ hand[c] # NoPair
  /\ \E r \in AccessRows(hand[c]) : sessions' = sessions \ {r}
  /\ Answered(c, NoPair)
  /\ UNCHANGED <<clock, status>>

\* A browser whose storage is cleared.
Forget(c) ==
  /\ hand[c] # NoPair
  /\ hand' = [hand EXCEPT ![c] = NoPair]
  /\ UNCHANGED <<clock, status, sessions>>

\* What update_user does to an account's status; its sessions are left as they are.
SetActive(c, u, active) ==
  /\ Authenticated(c, Users)
  /\ status[u] # "deleted"
  /\ status' = [status EXCEPT ![u] = IF active THEN "active" ELSE "inactive"]
  /\ UNCHANGED <<clock, sessions, hand>>

\* Mutant: a deleted account's sessions are left to expire.
DeletedSessionsNone(u) == {}

\* What _cleanup_user_references deletes here.
DeletedSessions(u) == {r \in sessions : r.user = u}

DeleteUser(c, u) ==
  /\ Authenticated(c, Admins)
  /\ u \notin {Canonical, hand[c].user} /\ status[u] # "deleted"
  /\ status' = [status EXCEPT ![u] = "deleted"]
  /\ sessions' = sessions \ DeletedSessions(u)
  /\ UNCHANGED <<clock, hand>>

Next ==
  \/ Tick
  \/ /\ Top < MaxRow
     /\ \E c \in Clients : Refresh(c) \/ \E u \in Users : Login(c, u)
  \/ \E c \in Clients : Logout(c) \/ Forget(c)
  \/ \E c \in Clients, u \in Users :
       DeleteUser(c, u) \/ \E active \in BOOLEAN : SetActive(c, u, active)

Spec == Init /\ [][Next]_vars
-------------------------------------------------------------------------------
\* Every variable keeps its type, and a row's id is its own.
TypeOK ==
  /\ clock \in Nat
  /\ status \in [Users -> {"inactive", "active", "deleted"}]
  /\ sessions \subseteq Row
  /\ \A r, q \in sessions : r.id = q.id => r = q
  /\ hand \in [Clients -> Pair \cup {NoPair}]

\* However often refresh tokens are exchanged, by whichever browsers and with answers
\* lost on the way, a login has one row at most: an exchanged pair lives on in no
\* row beside its successor's.
OnePairPerLogin == \A r, q \in sessions : r.login = q.login => r = q

\* No session outlives its account: the foreign key to the users would refuse
\* the COMMIT of a deletion that leaves one.
SessionsHaveUsers == \A r \in sessions : status[r.user] # "deleted"

\* An access token, or a refresh token, that no row has once its second is over never
\* comes back: neither a login, a refresh nor an account's reactivation makes one valid
\* that was logged out or exchanged.
NoRevival ==
  [][\A r \in sessions' : /\ r.at < clock => AccessRows(r) # {}
                          /\ r.renew < clock => RefreshRows(r) # {}]_vars

\* A browser that is logged in, its access token in some row, is logged out by the
\* deletion of its account, by the logout of a browser with the same access token, or
\* by a refresh with the refresh token of every row that has its access token: by its
\* own doing, or by a browser that was issued a token of the account in the same second
\* and so has the same. No other login, refresh, logout or change of an account does it.
OthersKeepTheirSession ==
  [][\A c \in Clients :
       /\ hand[c] # NoPair /\ AccessRows(hand[c]) # {}
       /\ \A r \in sessions' : r.user = hand[c].user => r.at # hand[c].at
       => \/ status'[hand[c].user] = "deleted"
          \/ \E d \in Clients :
               \/ Logout(d) /\ hand[d].user = hand[c].user /\ hand[d].at = hand[c].at
               \/ Refresh(d) /\ AccessRows(hand[c]) \subseteq RefreshRows(hand[d])]_vars

\* What the table of sessions always satisfies.
SessionsHold == TypeOK /\ OnePairPerLogin /\ SessionsHaveUsers
===============================================================================
