------------------------------ MODULE MCAccounts ------------------------------
(***************************************************************************)
(* An instance of Accounts and one of Sessions, which share no state here: *)
(* a behaviour shows one of the two, and the other rests.                  *)
(***************************************************************************)
EXTENDS Accounts, TLC

CONSTANTS root, ann, bob, cara, n1, n2, n3, e1, e2, e3, k1, k2, c1, c2,
          Users, Admins, Clients, NoPair, AccessLife, MaxClock, MaxRow

VARIABLES part, clock, status, sessions, hand

S == INSTANCE Sessions

ASSUME SessionsConstants == S!SessionsAssumption

MCInit == /\ part \in {"accounts", "sessions"}
          /\ Init /\ S!Init /\ users[root].name = n1

MCNext == /\ \/ part = "accounts" /\ Next /\ UNCHANGED <<clock, status, sessions, hand>>
             \/ part = "sessions" /\ S!Next /\ UNCHANGED vars
          /\ UNCHANGED part

MCSpec == MCInit /\ [][MCNext]_<<part, vars, S!vars>>

\* The properties of Sessions, stated there.
SessionsHold == S!SessionsHold
NoRevival == S!NoRevival
OthersKeepTheirSession == S!OthersKeepTheirSession

\* Accounts, names, addresses, codes and browsers may be exchanged for each other.
Symmetry == Permutations({ann, bob}) \cup Permutations({n2, n3}) \cup
            Permutations({e1, e2, e3}) \cup Permutations({k1, k2}) \cup Permutations({c1, c2})
===============================================================================
