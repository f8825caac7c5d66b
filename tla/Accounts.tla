------------------------------ MODULE Accounts ------------------------------
(***************************************************************************)
(* What sign-in and organizations promise, with no session, transaction or *)
(* slug in sight: an account appears once, an organization appears         *)
(* together with the membership of its owner, who has an account, and both *)
(* stay for good.                                                          *)
(* Tenancy implements these accounts.                                      *)
(***************************************************************************)
CONSTANTS
  People,        \* those who may have an account
  Titles,        \* the identities that organizations may take
  NoOne          \* the owner of an organization without members

VARIABLES
  accounts,      \* people who have an account
  organizations, \* titles that organizations have taken
  owner          \* the one member of each of them

accountVars == <<accounts, organizations, owner>>

AccountsInit ==
  /\ accounts = {} /\ organizations = {}
  /\ owner = [o \in Titles |-> NoOne]

SignUp(u) == u \notin accounts /\ accounts' = accounts \cup {u}

(* A person founds an organization, perhaps with the first thing they do.  *)
Found(u, o) ==
  /\ o \notin organizations
  /\ organizations' = organizations \cup {o}
  /\ owner' = [owner EXCEPT ![o] = u]
  /\ SignUp(u) \/ (u \in accounts /\ UNCHANGED accounts)

AccountsNext ==
  \E u \in People :
    \/ SignUp(u) /\ UNCHANGED <<organizations, owner>>
    \/ \E o \in Titles : Found(u, o)

AccountsSpec == AccountsInit /\ [][AccountsNext]_accountVars
=============================================================================
