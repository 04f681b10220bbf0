------------------------------- MODULE Accounts -------------------------------
(***************************************************************************)
(* The accounts: registration, creation in batches, what an administrator  *)
(* sets, deletion, and the codes that reset a forgotten password.  No      *)
(* resolver awaits between its checks and its writes, so each is one step, *)
(* committed whole; but mails are handed to a task of their own at once,   *)
(* and go out even when the COMMIT is refused.  Passwords and profile      *)
(* fields are left out, and so is what a deletion does to sessions         *)
(* (Sessions), media (MediaLibrary) and stages (StageAccess).              *)
(***************************************************************************)
EXTENDS Integers, FiniteSets, Functions

CONSTANTS
  Ids,             \* ids of upstage_user, each drawn once
  Canonical,       \* the id of the account of CANONICAL_ADMIN_USERNAME
  Names, Emails,   \* user names and addresses; a name may look like an address
  Codes,           \* the six digits of a code: two users may get the same
  MaxRefused,      \* bounds: COMMITs refused,
  MaxUnused        \* codes mailed and not used

ASSUME AccountsAssumption ==
  /\ Canonical \in Ids
  /\ MaxRefused \in Nat /\ MaxUnused \in Nat

Roles == {"PLAYER", "ADMIN"}   \* players, and administrators of either kind

VARIABLES
  users,     \* the accounts that exist
  drawn,     \* the ids that were ever given
  codes,     \* the rows of one-time codes
  unused,    \* the codes mailed to a user and not used for a reset since
  approvals, \* how many mails told a user that the registration is approved
  refused    \* how many COMMITs were refused

vars == <<users, drawn, codes, unused, approvals, refused>>

User == [name : Names, email : Emails, role : Roles, active : BOOLEAN, deactivated : BOOLEAN]
Code == [user : Ids, code : Codes]

Exists == DOMAIN users
Put(u, user) == [x \in Exists \cup {u} |-> IF x = u THEN user ELSE users[x]]

\* Mutant: the role is left at the column's default, which is none of the roles.
NewUserDefault(name, email, active) ==
  [name |-> name, email |-> email, role |-> "0", active |-> active, deactivated |-> FALSE]

NewUser(name, email, active) ==
  [name |-> name, email |-> email, role |-> "PLAYER", active |-> active, deactivated |-> FALSE]

Init ==
  \E name \in Names, email \in Emails :
    /\ users = [u \in {Canonical} |-> [NewUser(name, email, TRUE) EXCEPT !.role = "ADMIN"]]
    /\ drawn = {Canonical}
    /\ codes = {} /\ unused = {}
    /\ approvals = [u \in Ids |-> 0]
    /\ refused = 0

\* A COMMIT that is refused leaves nothing but the mails.
Refuse == /\ refused < MaxRefused
          /\ refused' = refused + 1
          /\ UNCHANGED <<users, drawn, codes>>

\* Whoever authenticated admits: an active account, of one of the roles.
Acts(u, roles) == u \in Exists /\ users[u].active /\ users[u].role \in roles

\* find_one, and the query of validate_user_information.
Taken(name, email) == \E u \in Exists : users[u].name = name \/ users[u].email = email

\* createUser: a registration, to be approved.
Register(u, name, email) ==
  /\ u \notin drawn
  /\ ~Taken(name, email)
  /\ users' = Put(u, NewUser(name, email, FALSE))
  /\ drawn' = drawn \cup {u}
  /\ UNCHANGED <<codes, unused, approvals, refused>>

\* batchUserCreation: all of the batch or none, under names and addresses that differ.
CreateUsers(by, names, emails) ==
  LET batch == DOMAIN names
  IN /\ Acts(by, {"ADMIN"})
     /\ batch \cap drawn = {}
     /\ IsInjective(names) /\ IsInjective(emails)
     /\ \A u \in batch : ~Taken(names[u], emails[u])
     /\ users' = [x \in Exists \cup batch |->
                    IF x \in batch THEN NewUser(names[x], emails[x], TRUE) ELSE users[x]]
     /\ drawn' = drawn \cup batch
     /\ UNCHANGED <<codes, unused, approvals, refused>>

\* Mutants of the two below: an address is compared with nobody's; the mail goes out at
\* every activation.
OthersEmailNever(u, email) == FALSE
ApprovedNowAlways(u, active) == active /\ ~users[u].active

\* _check_existing_email
OthersEmail(u, email) == \E v \in Exists \ {u} : users[v].email = email

\* _handle_active_status: an account that becomes active and was never deactivated.
ApprovedNow(u, active) == active /\ ~users[u].active /\ ~users[u].deactivated

\* _update_user_fields: a deactivation is stamped, for good. (To leave the address of
\* a guest out, or the role, is to give the one there is.)
Updated(user, email, role, active) ==
  [user EXCEPT !.email = email,
               !.role = role,
               !.active = active,
               !.deactivated = @ \/ (user.active /\ ~active)]

\* updateUser, whose mail is sent before the COMMIT.
UpdateUser(by, u, email, role, active) ==
  /\ Acts(by, Roles)
  /\ u \in Exists
  /\ ~OthersEmail(u, email)
  /\ approvals' = [approvals EXCEPT ![u] = @ + IF ApprovedNow(u, active) THEN 1 ELSE 0]
  /\ \/ /\ users' = Put(u, Updated(users[u], email, role, active))
        /\ UNCHANGED <<drawn, codes, refused>>
     \/ ApprovedNow(u, active) /\ Refuse
  /\ UNCHANGED unused

\* Mutant: the codes of a deleted user stay.
CodesLeftAll(u) == codes

\* What _cleanup_user_references and request_password_reset leave of the codes.
CodesLeft(u) == {r \in codes : r.user # u}

\* deleteUser
DeleteUser(by, u) ==
  /\ Acts(by, {"ADMIN"})
  /\ u \in Exists \ {by, Canonical}
  /\ users' = [x \in Exists \ {u} |-> users[x]]
  /\ codes' = CodesLeft(u)
  /\ UNCHANGED <<drawn, unused, approvals, refused>>

\* requestPasswordReset for an address or a name: if it is the name of one account and
\* the address of another, either is found. Its mail is sent before the COMMIT.
RequestPasswordReset(u, code) ==
  /\ u \in Exists
  /\ unused' = unused \cup {[user |-> u, code |-> code]}
  /\ \/ /\ codes' = CodesLeft(u) \cup {[user |-> u, code |-> code]}
        /\ UNCHANGED <<users, drawn, refused>>
     \/ Refuse
  /\ UNCHANGED approvals

\* resetPassword, given a code: of the users with that code either is found.
ResetPassword(r) ==
  /\ r.user \in Exists
  /\ codes' = codes \ {r}
  /\ unused' = unused \ {r}
  /\ UNCHANGED <<users, drawn, approvals, refused>>

Next ==
  \/ \E u \in Ids, name \in Names, email \in Emails : Register(u, name, email)
  \/ \E by \in Exists, batch \in SUBSET (Ids \ drawn) :
       \E names \in [batch -> Names], emails \in [batch -> Emails] : CreateUsers(by, names, emails)
  \/ \E by, u \in Exists, email \in Emails, role \in Roles, active \in BOOLEAN :
       UpdateUser(by, u, email, role, active)
  \/ \E by, u \in Exists : DeleteUser(by, u)
  \/ /\ Cardinality(unused) < MaxUnused
     /\ \E u \in Exists, code \in Codes : RequestPasswordReset(u, code)
  \/ \E r \in codes : ResetPassword(r)

Spec == Init /\ [][Next]_vars
-------------------------------------------------------------------------------
\* Every variable keeps its type.
TypeOK ==
  /\ Exists \subseteq drawn /\ drawn \subseteq Ids
  /\ \A u \in Exists : users[u] \in User
  /\ codes \subseteq Code /\ unused \subseteq Code
  /\ approvals \in [Ids -> Nat] /\ refused \in Nat

\* A name belongs to one account, and so does an address, whichever of registration, batch
\* and update gave it. (One account's name may be another's address: each is a column.)
OneOwnerEach ==
  \A u, v \in Exists :
    u # v => users[u].name # users[v].name /\ users[u].email # users[v].email

\* A user has one code at most, no code outlives its user (the foreign key would
\* refuse the deletion), and none is there that was not mailed, or that was used for a
\* reset since.
CodesAreFresh ==
  /\ \A r \in codes : r.user \in Exists
  /\ \A r, q \in codes : r.user = q.user => r = q
  /\ codes \subseteq unused

\* An approval is told once, however often the account is deactivated and activated
\* again, except that a mail whose COMMIT was refused comes again; and without a
\* refusal it is only told of an account that has been activated.
ApprovalToldOnce ==
  /\ \A u \in Ids : approvals[u] <= 1 + refused
  /\ refused = 0 => \A u \in Exists : approvals[u] > 0 => users[u].active \/ users[u].deactivated

\* What the tables of accounts and codes, and the mails sent so far, always satisfy.
AccountsHold == TypeOK /\ OneOwnerEach /\ CodesAreFresh /\ ApprovalToldOnce
===============================================================================
