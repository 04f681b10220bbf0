---------------------------- MODULE AccountsProofs ----------------------------
(***************************************************************************)
(* Names, addresses, codes and approvals of accounts, for any accounts,    *)
(* names, addresses, codes and number of refused COMMITs; and the rows of  *)
(* user_session, for any accounts, browsers, lifetime and bounds.          *)
(***************************************************************************)
EXTENDS MCAccounts, WellFoundedInduction, TLAPS

\* An account that is neither active nor was deactivated has not been approved: every
\* mail that says so belongs to a COMMIT that was refused.
Waits(u) == u \in Exists /\ ~users[u].active /\ ~users[u].deactivated

ToldOnly == /\ \A u \in Ids : approvals[u] <= 1 + refused
            /\ \A u \in Ids : Waits(u) => approvals[u] <= refused
            /\ \A u \in Ids \ drawn : approvals[u] = 0

Kept == TypeOK /\ OneOwnerEach /\ CodesAreFresh /\ ToldOnly

LEMMA KeptHolds == Kept => AccountsHold
<1> SUFFICES ASSUME Kept PROVE ApprovalToldOnce
  BY DEF Kept, AccountsHold
<1>1. ASSUME refused = 0, NEW u \in Exists, approvals[u] > 0
      PROVE  users[u].active \/ users[u].deactivated
  <2>1. u \in Ids /\ approvals[u] \in Nat
    BY DEF Kept, TypeOK
  <2>2. ~(approvals[u] <= refused)
    BY <1>1, <2>1
  <2>3. ~Waits(u)
    BY <2>1, <2>2 DEF Kept, ToldOnly
  <2> QED
    BY <2>3 DEF Waits
<1> QED
  BY <1>1 DEF Kept, ToldOnly, ApprovalToldOnce

\* A new account has its type, and is nobody's before.
LEMMA NewUserTyped ==
  ASSUME NEW name \in Names, NEW email \in Emails, NEW active \in BOOLEAN
  PROVE  /\ NewUser(name, email, active) \in User
         /\ NewUser(name, email, active).name = name
         /\ NewUser(name, email, active).email = email
  BY DEF NewUser, User, Roles

LEMMA InitKept == Init => Kept
<1> SUFFICES ASSUME Init PROVE Kept
  OBVIOUS
<1>1. PICK name \in Names, email \in Emails :
        users = [u \in {Canonical} |-> [NewUser(name, email, TRUE) EXCEPT !.role = "ADMIN"]]
  BY DEF Init
<1>2. drawn = {Canonical} /\ codes = {} /\ unused = {} /\ approvals = [u \in Ids |-> 0] /\ refused = 0
  BY DEF Init
<1>3. [NewUser(name, email, TRUE) EXCEPT !.role = "ADMIN"] \in User
  BY DEF NewUser, User, Roles
<1>4. Exists = {Canonical} /\ users[Canonical] \in User
  BY <1>1, <1>3 DEF Exists
<1>5. TypeOK
  BY <1>2, <1>4, AccountsAssumption DEF TypeOK
<1>6. OneOwnerEach /\ CodesAreFresh
  BY <1>2, <1>4 DEF OneOwnerEach, CodesAreFresh
<1>7. ToldOnly
  BY <1>2 DEF ToldOnly
<1> QED
  BY <1>5, <1>6, <1>7 DEF Kept

\* Codes and mails stay as they are while accounts are added, and accounts that are
\* there stay as they are.
LEMMA AddedKept ==
  ASSUME Kept, NEW new \in SUBSET (Ids \ drawn), DOMAIN users' = Exists \cup new,
         \A u \in Exists : users'[u] = users[u],
         \A u \in new : users'[u] \in User,
         \A u \in new, v \in Exists :
           users'[u].name # users[v].name /\ users'[u].email # users[v].email,
         \A u, v \in new : u # v => /\ users'[u].name # users'[v].name
                                    /\ users'[u].email # users'[v].email,
         drawn' = drawn \cup new, UNCHANGED <<codes, unused, approvals, refused>>
  PROVE  Kept'
<1>1. Exists' = Exists \cup new
  BY DEF Exists
<1>2. TypeOK'
  BY <1>1 DEF Kept, TypeOK
<1>3. OneOwnerEach'
  BY <1>1 DEF Kept, OneOwnerEach
<1>4. CodesAreFresh'
  BY <1>1 DEF Kept, CodesAreFresh
<1>5. ToldOnly'
  <2>1. \A u \in Ids \ drawn' : approvals'[u] = 0
    BY DEF Kept, ToldOnly
  <2>2. ASSUME NEW u \in Ids, Waits(u)' PROVE approvals[u] <= refused
    <3>1. CASE u \in new
      <4>1. approvals[u] = 0 /\ refused \in Nat
        BY <3>1 DEF Kept, ToldOnly, TypeOK
      <4> QED
        BY <4>1
    <3>2. CASE u \in Exists
      <4>1. Waits(u)
        BY <2>2, <3>2 DEF Waits
      <4> QED
        BY <4>1 DEF Kept, ToldOnly
    <3> QED
      BY <1>1, <2>2, <3>1, <3>2 DEF Waits
  <2> QED
    BY <2>1, <2>2 DEF Kept, ToldOnly
<1> QED
  BY <1>2, <1>3, <1>4, <1>5 DEF Kept

LEMMA RegisterKept ==
  ASSUME Kept, NEW u \in Ids, NEW name \in Names, NEW email \in Emails, Register(u, name, email)
  PROVE  Kept'
<1>1. PICK user \in User : user = NewUser(name, email, FALSE)
  BY NewUserTyped
<1>2. user.name = name /\ user.email = email
  BY <1>1, NewUserTyped
<1>3. /\ u \notin drawn /\ u \notin Exists
      /\ users' = [x \in Exists \cup {u} |-> IF x = u THEN user ELSE users[x]]
      /\ drawn' = drawn \cup {u} /\ UNCHANGED <<codes, unused, approvals, refused>>
  BY <1>1 DEF Register, Put, Kept, TypeOK
<1>4. \A v \in Exists : user.name # users[v].name /\ user.email # users[v].email
  BY <1>2 DEF Register, Taken
<1>5. PICK new \in SUBSET (Ids \ drawn) : new = {u}
  BY <1>3
<1>6. DOMAIN users' = Exists \cup new
  BY <1>3, <1>5
<1>7. (\A v \in Exists : users'[v] = users[v]) /\ users'[u] = user
  BY <1>3
<1> QED
  BY <1>3, <1>4, <1>5, <1>6, <1>7, AddedKept

LEMMA CreateUsersKept ==
  ASSUME Kept, NEW by, NEW batch \in SUBSET (Ids \ drawn),
         NEW names \in [batch -> Names], NEW emails \in [batch -> Emails],
         CreateUsers(by, names, emails)
  PROVE  Kept'
<1>1. /\ IsInjective(names) /\ IsInjective(emails)
      /\ \A u \in batch : ~Taken(names[u], emails[u])
      /\ users' = [x \in Exists \cup batch |->
                     IF x \in batch THEN NewUser(names[x], emails[x], TRUE) ELSE users[x]]
      /\ drawn' = drawn \cup batch
      /\ UNCHANGED <<codes, unused, approvals, refused>>
  BY DEF CreateUsers
<1>2. batch \cap Exists = {}
  BY DEF Kept, TypeOK
<1>3. \A u \in batch : /\ users'[u] \in User
                       /\ users'[u].name = names[u] /\ users'[u].email = emails[u]
  <2> SUFFICES ASSUME NEW u \in batch
               PROVE  /\ users'[u] \in User
                      /\ users'[u].name = names[u] /\ users'[u].email = emails[u]
    OBVIOUS
  <2>1. users'[u] = NewUser(names[u], emails[u], TRUE)
    BY <1>1
  <2>2. names[u] \in Names /\ emails[u] \in Emails
    OBVIOUS
  <2>3. /\ NewUser(names[u], emails[u], TRUE) \in User
        /\ NewUser(names[u], emails[u], TRUE).name = names[u]
        /\ NewUser(names[u], emails[u], TRUE).email = emails[u]
    BY <2>2 DEF NewUser, User, Roles
  <2> QED
    BY <2>1, <2>3
<1>4. \A u \in Exists : users'[u] = users[u]
  BY <1>1, <1>2
<1>5. \A u \in batch, v \in Exists :
        users'[u].name # users[v].name /\ users'[u].email # users[v].email
  <2> TAKE u \in batch, v \in Exists
  <2>1. users[v].name # names[u] /\ users[v].email # emails[u]
    BY <1>1 DEF Taken
  <2>2. users'[u].name = names[u] /\ users'[u].email = emails[u]
    BY <1>3
  <2> QED
    BY <2>1, <2>2
<1>6. \A u, v \in batch : u # v => /\ users'[u].name # users'[v].name
                                   /\ users'[u].email # users'[v].email
  <2> SUFFICES ASSUME NEW u \in batch, NEW v \in batch, u # v
               PROVE  users'[u].name # users'[v].name /\ users'[u].email # users'[v].email
    OBVIOUS
  <2>1. names[u] # names[v] /\ emails[u] # emails[v]
    BY <1>1 DEF IsInjective
  <2> QED
    BY <1>3, <2>1
<1> QED
  BY <1>1, <1>3, <1>4, <1>5, <1>6, AddedKept
-------------------------------------------------------------------------------
\* What an update makes of an account: its name stays, a deactivation is stamped.
LEMMA UpdatedUser ==
  ASSUME NEW user \in User, NEW email \in Emails, NEW role \in Roles, NEW active \in BOOLEAN
  PROVE  LET new == Updated(user, email, role, active)
         IN /\ new \in User /\ new.name = user.name /\ new.email = email
            /\ new.active = active
            /\ new.deactivated = (user.deactivated \/ (user.active /\ ~active))
  BY DEF Updated, User

\* The account is saved: the mail, if one was sent, was its first or follows a refusal.
LEMMA UpdateKept ==
  ASSUME Kept, NEW by, NEW u \in Exists, NEW email \in Emails, NEW role \in Roles,
         NEW active \in BOOLEAN, UpdateUser(by, u, email, role, active),
         users' = Put(u, Updated(users[u], email, role, active)),
         UNCHANGED <<drawn, codes, refused>>
  PROVE  Kept'
<1> DEFINE mails == IF ApprovedNow(u, active) THEN 1 ELSE 0
<1>1. /\ unused' = unused /\ ~OthersEmail(u, email)
      /\ approvals' = [approvals EXCEPT ![u] = @ + mails]
  BY DEF UpdateUser
<1>2. PICK new \in User :
        /\ new = Updated(users[u], email, role, active)
        /\ new.name = users[u].name /\ new.email = email /\ new.active = active
        /\ new.deactivated = (users[u].deactivated \/ (users[u].active /\ ~active))
  BY UpdatedUser DEF Kept, TypeOK
<1>3. users' = [x \in Exists |-> IF x = u THEN new ELSE users[x]]
  BY <1>2 DEF Put
<1>4. Exists' = Exists /\ u \in Ids /\ u \in drawn
  BY <1>3 DEF Exists, Kept, TypeOK
<1>5. mails \in {0, 1} /\ approvals \in [Ids -> Nat] /\ refused \in Nat
  BY DEF Kept, TypeOK
<1>6. (~ApprovedNow(u, active) => mails = 0) /\ (ApprovedNow(u, active) => mails = 1)
  OBVIOUS
<1> HIDE DEF mails
<1>7. /\ approvals' \in [Ids -> Nat] /\ approvals'[u] = approvals[u] + mails
      /\ \A v \in Ids \ {u} : approvals'[v] = approvals[v]
  BY <1>1, <1>4, <1>5
<1>8. TypeOK'
  <2>1. \A v \in Exists' : users'[v] \in User
    BY <1>2, <1>3, <1>4 DEF Kept, TypeOK
  <2> QED
    BY <1>1, <1>4, <1>7, <2>1 DEF Kept, TypeOK
<1>9. OneOwnerEach'
  <2>1. \A v \in Exists \ {u} : new.email # users[v].email /\ new.name # users[v].name
    BY <1>1, <1>2 DEF OthersEmail, Kept, OneOwnerEach
  <2> QED
    BY <1>3, <1>4, <2>1 DEF Kept, OneOwnerEach
<1>10. CodesAreFresh'
  BY <1>1, <1>4 DEF Kept, CodesAreFresh
<1>11. ToldOnly'
  <2>1. ASSUME NEW v \in Ids \ {u} PROVE Waits(v)' => Waits(v)
    BY <1>3, <1>4, <2>1 DEF Waits
  <2>2. ApprovedNow(u, active) => Waits(u) /\ ~Waits(u)'
    BY <1>2, <1>3, <1>4 DEF ApprovedNow, Waits
  <2>3. Waits(u)' => Waits(u) /\ ~ApprovedNow(u, active)
    BY <1>2, <1>3, <1>4 DEF ApprovedNow, Waits
  <2>4. approvals'[u] <= 1 + refused
    <3>1. CASE ApprovedNow(u, active)
      <4>1. approvals[u] <= refused /\ mails = 1
        BY <1>4, <1>6, <2>2, <3>1 DEF Kept, ToldOnly
      <4> QED
        BY <1>4, <1>5, <1>7, <4>1
    <3>2. CASE ~ApprovedNow(u, active)
      <4>1. approvals[u] <= 1 + refused /\ mails = 0
        BY <1>4, <1>6, <3>2 DEF Kept, ToldOnly
      <4> QED
        BY <1>4, <1>5, <1>7, <4>1
    <3> QED
      BY <3>1, <3>2
  <2>5. ASSUME Waits(u)' PROVE approvals'[u] <= refused
    <3>1. approvals[u] <= refused /\ mails = 0
      BY <1>4, <1>6, <2>3, <2>5 DEF Kept, ToldOnly
    <3> QED
      BY <1>4, <1>5, <1>7, <3>1
  <2>6. \A v \in Ids : approvals'[v] <= 1 + refused'
    BY <1>7, <2>4 DEF Kept, ToldOnly
  <2>7. \A v \in Ids : Waits(v)' => approvals'[v] <= refused'
    BY <1>7, <2>1, <2>5 DEF Kept, ToldOnly
  <2>8. \A v \in Ids \ drawn' : approvals'[v] = 0
    BY <1>4, <1>7 DEF Kept, ToldOnly
  <2> QED
    BY <2>6, <2>7, <2>8 DEF ToldOnly
<1> QED
  BY <1>8, <1>9, <1>10, <1>11 DEF Kept

\* The COMMIT is refused: one mail more at most, and one refusal to blame for it.
LEMMA RefusedKept ==
  ASSUME Kept, NEW u \in Exists, NEW n \in {0, 1}, Refuse,
         approvals' = [approvals EXCEPT ![u] = @ + n],
         unused \subseteq unused', unused' \subseteq Code
  PROVE  Kept'
<1>1. /\ refused \in Nat /\ refused' = refused + 1 /\ UNCHANGED <<users, drawn, codes>>
      /\ approvals \in [Ids -> Nat] /\ u \in Ids /\ u \in drawn
  BY DEF Refuse, Kept, TypeOK
<1>2. Exists' = Exists /\ \A v \in Ids : Waits(v)' <=> Waits(v)
  BY <1>1 DEF Exists, Waits
<1>3. approvals' \in [Ids -> Nat] /\ \A v \in Ids : approvals'[v] <= approvals[v] + 1
  BY <1>1
<1>4. TypeOK' /\ OneOwnerEach' /\ CodesAreFresh'
  BY <1>1, <1>2, <1>3 DEF Kept, TypeOK, OneOwnerEach, CodesAreFresh
<1>5. ToldOnly'
  <2>1. \A v \in Ids : approvals[v] <= 1 + refused => approvals'[v] <= 1 + refused'
    BY <1>1, <1>3
  <2>2. \A v \in Ids : approvals[v] <= refused => approvals'[v] <= refused'
    BY <1>1, <1>3
  <2>3. \A v \in Ids \ drawn : approvals'[v] = approvals[v]
    BY <1>1
  <2> QED
    BY <1>1, <1>2, <2>1, <2>2, <2>3 DEF Kept, ToldOnly
<1> QED
  BY <1>4, <1>5 DEF Kept

LEMMA UpdateUserKept ==
  ASSUME Kept, NEW by, NEW u \in Exists, NEW email \in Emails, NEW role \in Roles,
         NEW active \in BOOLEAN, UpdateUser(by, u, email, role, active)
  PROVE  Kept'
<1>1. CASE users' = Put(u, Updated(users[u], email, role, active))
           /\ UNCHANGED <<drawn, codes, refused>>
  BY <1>1, UpdateKept
<1>2. CASE ApprovedNow(u, active) /\ Refuse
  BY <1>2, RefusedKept DEF UpdateUser, Kept, TypeOK
<1> QED
  BY <1>1, <1>2 DEF UpdateUser
-------------------------------------------------------------------------------
LEMMA DeleteUserKept == ASSUME Kept, NEW by, NEW u, DeleteUser(by, u) PROVE Kept'
<1>1. /\ users' = [x \in Exists \ {u} |-> users[x]] /\ codes' = {r \in codes : r.user # u}
      /\ UNCHANGED <<drawn, unused, approvals, refused>>
  BY DEF DeleteUser, CodesLeft
<1>2. Exists' = Exists \ {u} /\ \A v \in Exists' : users'[v] = users[v]
  BY <1>1 DEF Exists
<1>3. TypeOK' /\ OneOwnerEach' /\ CodesAreFresh'
  BY <1>1, <1>2 DEF Kept, TypeOK, OneOwnerEach, CodesAreFresh
<1>4. \A v \in Ids : Waits(v)' => Waits(v)
  BY <1>1, <1>2 DEF Waits
<1> QED
  BY <1>1, <1>3, <1>4 DEF Kept, ToldOnly

\* Accounts and approvals stay as they are while codes come and go.
LEMMA CodesKept ==
  ASSUME Kept, UNCHANGED <<users, drawn, approvals, refused>>,
         codes' \subseteq unused', unused' \subseteq Code,
         \A r \in codes' : r.user \in Exists,
         \A r, q \in codes' : r.user = q.user => r = q
  PROVE  Kept'
<1>1. Exists' = Exists /\ \A v \in Ids : Waits(v)' <=> Waits(v)
  BY DEF Exists, Waits
<1>2. TypeOK' /\ OneOwnerEach' /\ CodesAreFresh'
  BY <1>1 DEF Kept, TypeOK, OneOwnerEach, CodesAreFresh
<1> QED
  BY <1>1, <1>2 DEF Kept, ToldOnly

LEMMA RequestKept ==
  ASSUME Kept, NEW u \in Exists, NEW code \in Codes, RequestPasswordReset(u, code) PROVE Kept'
<1>1. PICK r0 \in Code : r0 = [user |-> u, code |-> code] /\ r0.user = u
  <2>1. u \in Ids
    BY DEF Kept, TypeOK
  <2>2. [user |-> u, code |-> code] \in Code /\ [user |-> u, code |-> code].user = u
    BY <2>1 DEF Code
  <2> QED
    BY <2>2
<1>2. unused' = unused \cup {r0} /\ approvals' = approvals
  BY <1>1 DEF RequestPasswordReset
<1>3. unused \subseteq unused' /\ unused' \subseteq Code
  BY <1>2 DEF Kept, TypeOK
<1>4. CASE Refuse
  <2>1. approvals' = [approvals EXCEPT ![u] = @ + 0]
    BY <1>2 DEF Kept, TypeOK
  <2> QED
    BY <1>3, <1>4, <2>1, RefusedKept
<1>5. CASE codes' = CodesLeft(u) \cup {r0} /\ UNCHANGED <<users, drawn, refused>>
  BY <1>1, <1>2, <1>3, <1>5, CodesKept DEF CodesLeft, Kept, CodesAreFresh
<1> QED
  BY <1>1, <1>4, <1>5 DEF RequestPasswordReset

LEMMA ResetKept == ASSUME Kept, NEW r \in codes, ResetPassword(r) PROVE Kept'
  BY CodesKept DEF ResetPassword, Kept, CodesAreFresh, TypeOK

LEMMA StepKept == Kept /\ [Next]_vars => Kept'
<1> SUFFICES ASSUME Kept, [Next]_vars PROVE Kept'
  OBVIOUS
<1>1. CASE UNCHANGED vars
  BY <1>1 DEF vars, Kept, TypeOK, OneOwnerEach, CodesAreFresh, ToldOnly, Waits, Exists
<1> QED
  BY <1>1, RegisterKept, CreateUsersKept, UpdateUserKept, DeleteUserKept, RequestKept, ResetKept
  DEF Next

\* Names and addresses belong to one account each, codes are fresh and each user's only
\* one, and an approval is told once but for refused COMMITs, in every reachable state.
THEOREM AccountsAreKept == Spec => []AccountsHold
  BY InitKept, StepKept, KeptHolds, PTL DEF Spec
-------------------------------------------------------------------------------
(***************************************************************************)
(* Sessions, in the behaviours that show them                              *)
(***************************************************************************)
\* A nonempty set of numbers has a least, and one with a bound a greatest.
LEMMA LeastNumber ==
  ASSUME NEW N \in SUBSET Nat, N # {}
  PROVE  \E x \in N : \A y \in N : x <= y
<1> DEFINE less == {p \in Nat \X Nat : p[1] < p[2]}
<1>1. IsWellFoundedOn(less, Nat)
  BY NatLessThanWellFounded DEF OpToRel
<1> HIDE DEF less
<1>2. PICK x \in N : \A y \in N : <<y, x>> \notin less
  BY <1>1, WFMin
<1>3. \A y \in N : y \in Nat /\ ~(y < x)
  BY <1>2 DEF less
<1>4. \A y \in N : x <= y
  BY <1>3
<1> QED
  BY <1>4

LEMMA MaxIsGreatest ==
  ASSUME NEW N \in SUBSET Nat, N # {}, NEW b \in Nat, \A x \in N : x <= b
  PROVE  S!Max(N) \in N /\ \A y \in N : y <= S!Max(N)
<1> DEFINE above == {n \in Nat : \A x \in N : x <= n}
<1>1. b \in above
  OBVIOUS
<1>2. PICK n \in above : \A k \in above : n <= k
  BY <1>1, LeastNumber
<1>3. n \in N
  <2> SUFFICES ASSUME n \notin N PROVE FALSE
    OBVIOUS
  <2>1. \A x \in N : x \in Nat /\ x < n
    BY <1>2
  <2>2. PICK x \in N : x \in Nat /\ x < n
    BY <2>1
  <2>3. n \in Nat /\ n - 1 \in Nat
    BY <2>2
  <2>4. \A y \in N : y <= n - 1
    BY <2>1, <2>3
  <2> QED
    BY <1>2, <2>3, <2>4
<1>4. \E x \in N : \A y \in N : x >= y
  BY <1>2, <1>3
<1> QED
  BY <1>4 DEF S!Max

\* What is used of the rows: SessionsHold, no row of a second to come, and ids and
\* logins that are not beyond some number.
RowsKept == /\ SessionsHold
            /\ \A r \in sessions : r.at <= clock
            /\ \E b \in Nat : \A r \in sessions : r.id <= b /\ r.login <= b

LEMMA TopAboveRows ==
  ASSUME RowsKept
  PROVE  /\ S!Top \in Nat /\ clock \in Nat
         /\ \A r \in sessions : /\ r \in S!Row /\ r.id <= S!Top /\ r.login <= S!Top
                                /\ r.id \in Nat /\ r.login \in Nat /\ r.user \in Users
                                /\ S!PairOf(r) \in S!Pair
<1> DEFINE N == {r.id : r \in sessions} \cup {r.login : r \in sessions} \cup {0}
<1>1. clock \in Nat /\ \A r \in sessions : /\ r \in S!Row /\ r.id \in Nat /\ r.login \in Nat /\ r.user \in Users
                                           /\ S!PairOf(r) \in S!Pair
  BY DEF RowsKept, SessionsHold, S!SessionsHold, S!TypeOK, S!Row, S!PairOf, S!Pair
<1>2. PICK b \in Nat : \A r \in sessions : r.id <= b /\ r.login <= b
  BY DEF RowsKept
<1>3. N \in SUBSET Nat /\ N # {} /\ \A n \in N : n <= b
  BY <1>1, <1>2
<1>4. \A r \in sessions : r.id \in N /\ r.login \in N
  OBVIOUS
<1>5. S!Top = S!Max(N)
  BY DEF S!Top
<1> HIDE DEF N
<1>6. S!Max(N) \in N /\ \A n \in N : n <= S!Max(N)
  BY <1>3, MaxIsGreatest
<1> QED
  BY <1>1, <1>3, <1>4, <1>5, <1>6

\* The row of a pair issued now.
LEMMA IssuedRow ==
  ASSUME RowsKept, NEW u \in Users, NEW login \in Nat, NEW later \in S!Later
  PROVE  /\ later \in Nat /\ clock <= later
         /\ S!Issued(S!Top + 1, u, login, later) \in S!Row
         /\ S!Issued(S!Top + 1, u, login, later).id = S!Top + 1
         /\ S!Issued(S!Top + 1, u, login, later).user = u
         /\ S!Issued(S!Top + 1, u, login, later).at = clock
         /\ S!Issued(S!Top + 1, u, login, later).renew = later
         /\ S!Issued(S!Top + 1, u, login, later).login = login
         /\ S!PairOf(S!Issued(S!Top + 1, u, login, later)) \in S!Pair
<1>1. later \in Nat /\ clock <= later /\ S!Top + 1 \in Nat /\ clock \in Nat
  BY TopAboveRows DEF S!Later
<1> QED
  BY <1>1 DEF S!Issued, S!Second, S!Row, S!PairOf, S!Pair

LEMMA HandKept ==
  ASSUME RowsKept, NEW c \in Clients, NEW pair \in S!Pair \cup {NoPair}, S!Answered(c, pair)
  PROVE  hand' \in [Clients -> S!Pair \cup {NoPair}]
  BY DEF S!Answered, RowsKept, SessionsHold, S!SessionsHold, S!TypeOK

\* A row is added to those that remain, of a login none of them is of.
LEMMA AddedRowKept ==
  ASSUME RowsKept, NEW rest \in SUBSET sessions, NEW row \in S!Row,
         sessions' = rest \cup {row}, clock' \in Nat, clock <= clock', status' = status,
         hand' \in [Clients -> S!Pair \cup {NoPair}],
         row.id = S!Top + 1, row.at = clock, status[row.user] # "deleted",
         row.login <= S!Top + 1, \A r \in rest : r.login # row.login
  PROVE  RowsKept'
<1>1. S!Top \in Nat /\ clock \in Nat
      /\ \A r \in rest : r \in S!Row /\ r.id \in Nat /\ r.login \in Nat /\ r.id <= S!Top /\ r.login <= S!Top
  BY TopAboveRows
<1>2. S!TypeOK'
  <2>1. sessions' \subseteq S!Row
    BY <1>1
  <2>2. \A r, q \in sessions' : r.id = q.id => r = q
    BY <1>1 DEF RowsKept, SessionsHold, S!SessionsHold, S!TypeOK
  <2> QED BY <2>1, <2>2 DEF RowsKept, SessionsHold, S!SessionsHold, S!TypeOK
<1>3. S!OnePairPerLogin' /\ S!SessionsHaveUsers'
  BY DEF RowsKept, SessionsHold, S!SessionsHold, S!OnePairPerLogin, S!SessionsHaveUsers
<1>4. \A r \in sessions' : r.at <= clock'
  <2>1. \A r \in rest : r.at \in Nat /\ r.at <= clock
    BY <1>1 DEF RowsKept, S!Row
  <2> QED BY <1>1, <2>1
<1>5. S!Top + 1 \in Nat /\ \A r \in sessions' : r.id <= S!Top + 1 /\ r.login <= S!Top + 1
  BY <1>1
<1> QED BY <1>2, <1>3, <1>4, <1>5 DEF RowsKept, SessionsHold, S!SessionsHold

\* Rows go, and the account of none that stays is deleted.
LEMMA FewerRowsKept ==
  ASSUME RowsKept, sessions' \subseteq sessions, clock' \in Nat, clock <= clock',
         status' \in [Users -> {"inactive", "active", "deleted"}],
         hand' \in [Clients -> S!Pair \cup {NoPair}],
         \A r \in sessions' : status'[r.user] # "deleted"
  PROVE  RowsKept'
<1>1. SessionsHold'
  BY DEF RowsKept, SessionsHold, S!SessionsHold, S!TypeOK, S!OnePairPerLogin, S!SessionsHaveUsers
<1>2. \A r \in sessions' : r.at <= clock'
  BY TopAboveRows DEF RowsKept, S!Row
<1> QED BY <1>1, <1>2 DEF RowsKept

LEMMA SessionsInit == S!Init => RowsKept
<1> SUFFICES ASSUME S!Init PROVE RowsKept
  OBVIOUS
<1>1. S!TypeOK /\ S!OnePairPerLogin /\ S!SessionsHaveUsers
  BY DEF S!Init, S!TypeOK, S!OnePairPerLogin, S!SessionsHaveUsers
<1> QED BY <1>1 DEF S!Init, RowsKept, SessionsHold, S!SessionsHold

LEMMA SessionsStep == RowsKept /\ [S!Next]_S!vars => RowsKept'
<1> SUFFICES ASSUME RowsKept, [S!Next]_S!vars PROVE RowsKept'
  OBVIOUS
<1>1. /\ clock \in Nat /\ status \in [Users -> {"inactive", "active", "deleted"}]
      /\ hand \in [Clients -> S!Pair \cup {NoPair}]
      /\ \A r \in sessions : status[r.user] # "deleted"
  BY DEF RowsKept, SessionsHold, S!SessionsHold, S!TypeOK, S!SessionsHaveUsers
<1>2. CASE UNCHANGED S!vars
  BY <1>1, <1>2, FewerRowsKept DEF S!vars
<1>3. CASE S!Tick
  BY <1>1, <1>3, FewerRowsKept DEF S!Tick
<1>4. ASSUME NEW c \in Clients, S!Refresh(c)
      PROVE  RowsKept'
  <2>1. PICK r \in S!RefreshRows(hand[c]), later \in S!Later :
          /\ sessions' = (sessions \ S!Exchanged(r)) \cup {S!Issued(S!Top + 1, r.user, r.login, later)}
          /\ S!Answered(c, S!PairOf(S!Issued(S!Top + 1, r.user, r.login, later)))
          /\ clock' = later
    BY <1>4 DEF S!Refresh
  <2>2. r \in sessions /\ r.user \in Users /\ r.login \in Nat /\ r.login <= S!Top /\ S!Top \in Nat
    BY TopAboveRows DEF S!RefreshRows
  <2>3. \A q \in sessions \ S!Exchanged(r) : q.login # r.login
    BY <2>2 DEF S!Exchanged, S!RefreshRows, RowsKept, SessionsHold, S!SessionsHold, S!OnePairPerLogin
  <2>4. hand' \in [Clients -> S!Pair \cup {NoPair}]
    BY <2>1, <2>2, IssuedRow, HandKept
  <2>5. clock' \in Nat /\ clock <= clock' /\ status' = status
    BY <1>4, <2>1, <2>2, IssuedRow DEF S!Refresh
  <2> DEFINE row == S!Issued(S!Top + 1, r.user, r.login, later)
  <2>6. /\ row \in S!Row /\ row.id = S!Top + 1 /\ row.user = r.user /\ row.at = clock
        /\ row.login = r.login
    BY <2>2, IssuedRow
  <2>7. sessions' = (sessions \ S!Exchanged(r)) \cup {row}
    BY <2>1
  <2>8. row.login <= S!Top + 1 /\ status[row.user] # "deleted"
    BY <1>1, <2>2, <2>6
  <2> HIDE DEF row
  <2> QED BY <2>3, <2>4, <2>5, <2>6, <2>7, <2>8, AddedRowKept
<1>5. ASSUME NEW c \in Clients, NEW u \in Users, S!Login(c, u)
      PROVE  RowsKept'
  <2>1. S!Top \in Nat /\ S!Top + 1 \in Nat /\ S!Top + 1 <= S!Top + 1
    BY TopAboveRows
  <2>2. PICK later \in S!Later :
          /\ sessions' = sessions \cup {S!Issued(S!Top + 1, u, S!Top + 1, later)}
          /\ S!Answered(c, S!PairOf(S!Issued(S!Top + 1, u, S!Top + 1, later)))
          /\ clock' = later
    BY <1>5 DEF S!Login
  <2> DEFINE row == S!Issued(S!Top + 1, u, S!Top + 1, later)
  <2>3. /\ row \in S!Row /\ row.id = S!Top + 1 /\ row.user = u /\ row.at = clock
        /\ row.login = S!Top + 1 /\ S!PairOf(row) \in S!Pair
        /\ clock' \in Nat /\ clock <= clock'
    BY <2>1, <2>2, IssuedRow
  <2>4. sessions' = sessions \cup {row} /\ status' = status
        /\ status[u] = "active" /\ S!Answered(c, S!PairOf(row))
    BY <1>5, <2>2 DEF S!Login
  <2> HIDE DEF row
  <2>5. \A r \in sessions : r.login # row.login
    BY <2>1, <2>3, TopAboveRows
  <2>6. hand' \in [Clients -> S!Pair \cup {NoPair}]
    BY <2>3, <2>4, HandKept
  <2> QED BY <2>1, <2>3, <2>4, <2>5, <2>6, AddedRowKept
<1>6. ASSUME NEW c \in Clients, S!Logout(c)
      PROVE  RowsKept'
  <2>1. hand' \in [Clients -> S!Pair \cup {NoPair}]
    BY <1>6, HandKept DEF S!Logout
  <2> QED BY <1>1, <1>6, <2>1, FewerRowsKept DEF S!Logout
<1>7. ASSUME NEW c \in Clients, S!Forget(c)
      PROVE  RowsKept'
  BY <1>1, <1>7, FewerRowsKept DEF S!Forget
<1>8. ASSUME NEW c, NEW u \in Users, S!DeleteUser(c, u)
      PROVE  RowsKept'
  BY <1>1, <1>8, FewerRowsKept DEF S!DeleteUser, S!DeletedSessions
<1>9. ASSUME NEW c, NEW u \in Users, NEW active \in BOOLEAN, S!SetActive(c, u, active)
      PROVE  RowsKept'
  BY <1>1, <1>9, FewerRowsKept DEF S!SetActive
<1> QED
  BY <1>2, <1>3, <1>4, <1>5, <1>6, <1>7, <1>8, <1>9 DEF S!Next

\* A step of the whole is a step of the sessions, or they rest.
LEMMA SessionsOfWhole == [MCNext]_<<part, vars, S!vars>> => [S!Next]_S!vars
  BY DEF MCNext, S!vars

\* However tokens are exchanged and lost, a login has one row, which its account outlives.
THEOREM SessionsAreKept == MCSpec => []SessionsHold
<1>1. MCInit => RowsKept
  BY SessionsInit DEF MCInit
<1>2. RowsKept /\ [MCNext]_<<part, vars, S!vars>> => RowsKept'
  BY SessionsStep, SessionsOfWhole
<1>3. RowsKept => SessionsHold
  BY DEF RowsKept
<1> QED BY <1>1, <1>2, <1>3, PTL DEF MCSpec

\* What a step leaves of the rows: all, but for those of a refresh token that some
\* browser exchanges, or of an access token it gives up, or of an account that is
\* deleted; what is new is of now or later.
LEMMA RowsGoFor ==
  ASSUME RowsKept, S!Next
  PROVE  /\ \A r \in sessions' : r \in sessions \/ (r.at = clock /\ r.renew \in Nat /\ clock <= r.renew)
         /\ \/ \A r \in sessions : r \in sessions' \/ status'[r.user] = "deleted"
            \/ \E d \in Clients :
                 S!Refresh(d) /\ \A r \in sessions : r \in sessions' \/ r \in S!RefreshRows(hand[d])
            \/ \E d \in Clients :
                 S!Logout(d) /\ \A r \in sessions : r \in sessions' \/ r \in S!AccessRows(hand[d])
<1>1. CASE UNCHANGED sessions
  BY <1>1
<1>2. ASSUME NEW c \in Clients, S!Refresh(c)
      PROVE  /\ \A r \in sessions' : r \in sessions \/ (r.at = clock /\ r.renew \in Nat /\ clock <= r.renew)
             /\ \A r \in sessions : r \in sessions' \/ r \in S!RefreshRows(hand[c])
  <2>1. PICK r \in S!RefreshRows(hand[c]), later \in S!Later :
          sessions' = (sessions \ S!Exchanged(r)) \cup {S!Issued(S!Top + 1, r.user, r.login, later)}
    BY <1>2 DEF S!Refresh
  <2>2. r \in sessions /\ r.user = hand[c].user /\ r.renew = hand[c].renew
    BY DEF S!RefreshRows
  <2> DEFINE row == S!Issued(S!Top + 1, r.user, r.login, later)
  <2>3. row.at = clock /\ row.renew = later /\ later \in Nat /\ clock <= later
    BY <2>2, TopAboveRows, IssuedRow
  <2>4. S!Exchanged(r) = S!RefreshRows(hand[c])
    BY <2>2 DEF S!Exchanged, S!RefreshRows
  <2> HIDE DEF row
  <2>5. sessions' = (sessions \ S!Exchanged(r)) \cup {row}
    BY <2>1 DEF row
  <2> QED BY <2>3, <2>4, <2>5
<1>3. ASSUME NEW c \in Clients, NEW u \in Users, S!Login(c, u)
      PROVE  /\ sessions \subseteq sessions'
             /\ \A r \in sessions' : r \in sessions \/ (r.at = clock /\ r.renew \in Nat /\ clock <= r.renew)
  <2>1. PICK later \in S!Later : sessions' = sessions \cup {S!Issued(S!Top + 1, u, S!Top + 1, later)}
    BY <1>3 DEF S!Login
  <2> DEFINE row == S!Issued(S!Top + 1, u, S!Top + 1, later)
  <2>2. row.at = clock /\ row.renew = later /\ later \in Nat /\ clock <= later
    BY TopAboveRows, IssuedRow
  <2> HIDE DEF row
  <2>3. sessions' = sessions \cup {row}
    BY <2>1 DEF row
  <2> QED BY <2>2, <2>3
<1>4. ASSUME NEW c \in Clients, S!Logout(c)
      PROVE  /\ sessions' \subseteq sessions
             /\ \A r \in sessions : r \in sessions' \/ r \in S!AccessRows(hand[c])
  BY <1>4 DEF S!Logout
<1>5. ASSUME NEW c, NEW u \in Users, S!DeleteUser(c, u)
      PROVE  /\ sessions' \subseteq sessions
             /\ \A r \in sessions : r \in sessions' \/ status'[r.user] = "deleted"
  <2>1. status'[u] = "deleted"
    BY <1>5 DEF S!DeleteUser, RowsKept, SessionsHold, S!SessionsHold, S!TypeOK
  <2> QED BY <1>5, <2>1 DEF S!DeleteUser, S!DeletedSessions
<1>6. CASE S!Tick \/ (\E c \in Clients : S!Forget(c))
           \/ \E c \in Clients, u \in Users, active \in BOOLEAN : S!SetActive(c, u, active)
  BY <1>1, <1>6 DEF S!Tick, S!Forget, S!SetActive
<1> QED
  BY <1>2, <1>3, <1>4, <1>5, <1>6 DEF S!Next

\* No login, refresh or reactivation makes a token of a second that is over valid again.
THEOREM NoPairRevives == MCSpec => NoRevival
<1> DEFINE Lives == \A r \in sessions' : /\ r.at < clock => S!AccessRows(r) # {}
                                         /\ r.renew < clock => S!RefreshRows(r) # {}
<1>1. RowsKept /\ [S!Next]_S!vars => [Lives]_S!vars
  <2> SUFFICES ASSUME RowsKept, S!Next, NEW r \in sessions', r.at < clock \/ r.renew < clock
               PROVE  S!AccessRows(r) # {} /\ S!RefreshRows(r) # {}
    OBVIOUS
  <2>1. r \in sessions
    BY RowsGoFor, TopAboveRows
  <2> QED BY <2>1 DEF S!AccessRows, S!RefreshRows
<1>2. MCInit => RowsKept
  BY SessionsInit DEF MCInit
<1>3. RowsKept /\ [MCNext]_<<part, vars, S!vars>> => RowsKept' /\ [Lives]_S!vars
  BY <1>1, SessionsStep, SessionsOfWhole
<1> QED BY <1>2, <1>3, PTL DEF MCSpec, NoRevival, S!NoRevival

\* A browser that is logged in is not logged out by what others do, but by the deletion
\* of its account or by one that was issued a token of the account in the same second.
THEOREM OthersDoNotLogOut == MCSpec => OthersKeepTheirSession
<1> DEFINE Keeps ==
      \A c \in Clients :
       /\ hand[c] # NoPair /\ S!AccessRows(hand[c]) # {}
       /\ \A r \in sessions' : r.user = hand[c].user => r.at # hand[c].at
       => \/ status'[hand[c].user] = "deleted"
          \/ \E d \in Clients :
               \/ S!Logout(d) /\ hand[d].user = hand[c].user /\ hand[d].at = hand[c].at
               \/ S!Refresh(d) /\ S!AccessRows(hand[c]) \subseteq S!RefreshRows(hand[d])
<1>1. RowsKept /\ [S!Next]_S!vars => [Keeps]_S!vars
  <2> SUFFICES ASSUME RowsKept, S!Next, NEW c \in Clients, S!AccessRows(hand[c]) # {},
                      \A r \in sessions' : r.user = hand[c].user => r.at # hand[c].at
               PROVE  \/ status'[hand[c].user] = "deleted"
                      \/ \E d \in Clients :
                           \/ S!Logout(d) /\ hand[d].user = hand[c].user /\ hand[d].at = hand[c].at
                           \/ S!Refresh(d) /\ S!AccessRows(hand[c]) \subseteq S!RefreshRows(hand[d])
    OBVIOUS
  <2>1. PICK q \in sessions : q.user = hand[c].user /\ q.at = hand[c].at
    BY DEF S!AccessRows
  <2>2. \A r \in S!AccessRows(hand[c]) : r \in sessions /\ r \notin sessions'
    BY DEF S!AccessRows
  <2>3. q \in S!AccessRows(hand[c]) /\ q \notin sessions'
    BY <2>1, <2>2 DEF S!AccessRows
  <2>4. CASE \A r \in sessions : r \in sessions' \/ status'[r.user] = "deleted"
    BY <2>1, <2>3, <2>4
  <2>5. ASSUME NEW d \in Clients, S!Refresh(d),
               \A r \in sessions : r \in sessions' \/ r \in S!RefreshRows(hand[d])
        PROVE  S!AccessRows(hand[c]) \subseteq S!RefreshRows(hand[d])
    BY <2>2, <2>5
  <2>6. ASSUME NEW d \in Clients, S!Logout(d),
               \A r \in sessions : r \in sessions' \/ r \in S!AccessRows(hand[d])
        PROVE  hand[d].user = hand[c].user /\ hand[d].at = hand[c].at
    BY <2>1, <2>3, <2>6 DEF S!AccessRows
  <2> QED BY <2>4, <2>5, <2>6, RowsGoFor
<1>2. MCInit => RowsKept
  BY SessionsInit DEF MCInit
<1>3. RowsKept /\ [MCNext]_<<part, vars, S!vars>> => RowsKept' /\ [Keeps]_S!vars
  BY <1>1, SessionsStep, SessionsOfWhole
<1> QED BY <1>2, <1>3, PTL DEF MCSpec, OthersKeepTheirSession, S!OthersKeepTheirSession
===============================================================================
