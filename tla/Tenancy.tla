------------------------------ MODULE Tenancy ------------------------------
(***************************************************************************)
(* Users, organizations and their domains, as the requests of the API make *)
(* and use them.  A request is one session: current_user finds or inserts  *)
(* its user, the handler checks and writes, and get_session commits before *)
(* the answer is sent, or rolls everything back when anything raises, an   *)
(* HTTPException included.  Only unique constraints stand between requests *)
(* that look before they insert.  Scans are in ScanQueue.                  *)
(***************************************************************************)
EXTENDS Naturals

CONSTANTS
  Requests,      \* requests; bound: each is received once
  Uids,          \* firebase uids whose tokens were verified
  Bases,         \* slugs of the names that users give their organizations
  TightBases,    \* those of 120 to 128 characters: a suffix no longer fits
  LongBases,     \* those of more than 128 characters
  Suffixes,      \* what the first 8 digits of a uuid4 may be
  NoSuffix,      \* a slug without one
  SlugTries,     \* 25 in create_organization
  Domains,       \* identifiers for rows of domains
  NoOne,         \* the owner of an organization without members
  Nothing        \* no slug, no target, no answer

ASSUME TenancyAssumption ==
  /\ TightBases \subseteq Bases /\ LongBases \subseteq Bases
  /\ NoSuffix \notin Suffixes /\ Suffixes # {}
  /\ SlugTries \in Nat \ {0}
  /\ NoOne \notin Uids
  /\ Nothing \notin Bases \X (Suffixes \cup {NoSuffix})

VARIABLES
  users,         \* committed rows of users, by firebase_uid
  organizations, \* committed rows of organizations, by slug
  owner,         \* committed memberships: the one member of the organization of a slug
  row,           \* domains: "absent", "unverified", "verified" or "deleted"
  org_of,        \* domains.organization_id
  published,     \* domains whose TXT record holds their verification token
  witness,       \* history: who has seen the token of a domain there
  step,          \* what each request does next
  call,          \* what it asks for, in whose name and about what
  slug,          \* the slug create_organization is about to use
  tries,         \* slugs it has found taken
  newUser,       \* requests whose session has inserted their user
  newOrg,        \* requests whose session has inserted slug[r]
  answer         \* the answer, sent once step is "done"

tables == <<users, organizations, owner, row, org_of>>
world == <<published, witness>>
sessions == <<step, slug, tries, newUser, newOrg, answer>>
vars == <<tables, world, sessions, call>>

Slugs == Bases \X (Suffixes \cup {NoSuffix})

(* A slug that organizations.slug, a String(128), cannot hold.             *)
TooLong(s) == s[1] \in LongBases \/ (s[1] \in TightBases /\ s[2] # NoSuffix)

Calls(u) ==
  [uid : {u}, op : {"read_me"}, on : {Nothing}]
    \cup [uid : {u}, op : {"create_organization"}, on : Bases]
    \cup [uid : {u}, op : {"list_rows", "register_domain"}, on : Slugs]
    \cup [uid : {u}, op : {"verify_domain"}, on : Domains]

Init ==
  /\ users = {} /\ organizations = {} /\ owner = [s \in Slugs |-> NoOne]
  /\ row = [d \in Domains |-> "absent"] /\ org_of = [d \in Domains |-> Nothing]
  /\ published = {} /\ witness = [d \in Domains |-> {}]
  /\ step = [r \in Requests |-> "new"]
  /\ call = [r \in Requests |-> Nothing]
  /\ slug = [r \in Requests |-> Nothing] /\ tries = [r \in Requests |-> 0]
  /\ newUser = {} /\ newOrg = {}
  /\ answer = [r \in Requests |-> Nothing]

-----------------------------------------------------------------------------
(* A request and its session.                                              *)

Goto(r, next) == step' = [step EXCEPT ![r] = next]

(* The answer of the handler: the response is built, then comes the commit.*)
Reply(r, a) ==
  /\ Goto(r, "commit")
  /\ answer' = [answer EXCEPT ![r] = a]

\* Mutant of RollBack: the session is not closed, and keeps the user it inserted.
RollBackWithoutClose(r, a) ==
  /\ Goto(r, "done")
  /\ answer' = [answer EXCEPT ![r] = a]
  /\ newUser' = newUser /\ newOrg' = newOrg \ {r}
  /\ UNCHANGED <<tables, call, slug, tries>>

(* Something raised: nothing of the session remains.                       *)
RollBack(r, a) ==
  /\ Goto(r, "done")
  /\ answer' = [answer EXCEPT ![r] = a]
  /\ newUser' = newUser \ {r} /\ newOrg' = newOrg \ {r}
  /\ UNCHANGED <<tables, call, slug, tries>>

(* A request with the verified token of u: current_user selects the user.  *)
(* An identifier that no organization has is answered as one of others.    *)
Receive(r, u) ==
  /\ step[r] = "new"
  /\ \E c \in Calls(u) :
       /\ c.on \in Slugs => c.on \in organizations
       /\ call' = [call EXCEPT ![r] = c]
  /\ Goto(r, IF u \in users THEN "handler" ELSE "insert_user")
  /\ UNCHANGED <<tables, world, slug, tries, newUser, newOrg, answer>>

(* Without one it inserts and flushes.  The unique index makes it wait for *)
(* an open session that has inserted the same uid, and fail if that or     *)
(* another one has committed it.                                           *)
InsertUser(r) ==
  /\ step[r] = "insert_user"
  /\ call[r].uid \notin users
  /\ \A q \in newUser : call[q].uid # call[r].uid
  /\ newUser' = newUser \cup {r}
  /\ Goto(r, "handler")
  /\ UNCHANGED <<tables, world, call, slug, tries, newOrg, answer>>

InsertUserFails(r) ==
  /\ step[r] = "insert_user"
  /\ call[r].uid \in users
  /\ RollBack(r, "uid_taken")
  /\ UNCHANGED world

Handles(r, op) == step[r] = "handler" /\ call[r].op = op
Member(r, s) == owner[s] = call[r].uid

(* require_membership raises for others than members.                      *)
Refuse(r, a) == RollBack(r, a) /\ UNCHANGED world

ReadMe(r) ==
  /\ Handles(r, "read_me")
  /\ Reply(r, "served")
  /\ UNCHANGED <<tables, world, call, slug, tries, newUser, newOrg>>

(* The rows of one organization: its domains, assets, findings and scans.  *)
ListRows(r) ==
  /\ Handles(r, "list_rows")
  /\ IF Member(r, call[r].on)
     THEN /\ Reply(r, "served")
          /\ UNCHANGED <<tables, world, call, slug, tries, newUser, newOrg>>
     ELSE Refuse(r, "forbidden")

-----------------------------------------------------------------------------
(* Organizations.                                                          *)

(* The slug create_organization looks at next.                             *)
NextSlug(r) == IF tries[r] = 0 THEN <<call[r].on, NoSuffix>> ELSE slug[r]

Checks(r) == Handles(r, "create_organization")

\* Mutant of CheckSlug: one round too many.
CheckSlugOnceMore(r) ==
  /\ Checks(r)
  /\ IF NextSlug(r) \notin organizations
     THEN /\ slug' = [slug EXCEPT ![r] = NextSlug(r)]
          /\ Goto(r, "insert_org") /\ UNCHANGED tries
     ELSE /\ \E x \in Suffixes : slug' = [slug EXCEPT ![r] = <<call[r].on, x>>]
          /\ tries' = [tries EXCEPT ![r] = @ + 1]
          /\ Goto(r, IF tries[r] = SlugTries THEN "insert_org" ELSE "handler")
  /\ UNCHANGED <<tables, world, call, newUser, newOrg, answer>>

(* One round of the loop.  The slug made in the last one is not looked up. *)
CheckSlug(r) ==
  /\ Checks(r)
  /\ IF NextSlug(r) \notin organizations
     THEN /\ slug' = [slug EXCEPT ![r] = NextSlug(r)]
          /\ Goto(r, "insert_org") /\ UNCHANGED tries
     ELSE /\ \E x \in Suffixes : slug' = [slug EXCEPT ![r] = <<call[r].on, x>>]
          /\ tries' = [tries EXCEPT ![r] = @ + 1]
          /\ Goto(r, IF tries'[r] = SlugTries THEN "insert_org" ELSE "handler")
  /\ UNCHANGED <<tables, world, call, newUser, newOrg, answer>>

\* Mutant of InsertOrg: organizations.slug has no unique index.
InsertOrgUnindexed(r) ==
  /\ step[r] = "insert_org"
  /\ ~TooLong(slug[r]) /\ slug[r] \notin organizations
  /\ newOrg' = newOrg \cup {r}
  /\ Reply(r, "created")
  /\ UNCHANGED <<tables, world, call, slug, tries, newUser>>

\* Mutant of InsertOrg: the membership's user is inserted in a session of its own.
InsertOrgThenUser(r) ==
  /\ step[r] = "insert_org"
  /\ ~TooLong(slug[r]) /\ slug[r] \notin organizations
  /\ \A q \in newOrg : slug[q] # slug[r]
  /\ newOrg' = newOrg \cup {r}
  /\ Goto(r, IF call[r].uid \in users THEN "commit" ELSE "insert_user")
  /\ answer' = [answer EXCEPT ![r] = "created"]
  /\ UNCHANGED <<tables, world, call, slug, tries, newUser>>

\* Mutant of InsertOrg: the organization is committed, not flushed.
InsertOrgCommitted(r) ==
  /\ step[r] = "insert_org"
  /\ ~TooLong(slug[r]) /\ slug[r] \notin organizations
  /\ \A q \in newOrg : slug[q] # slug[r]
  /\ organizations' = organizations \cup {slug[r]}
  /\ newOrg' = newOrg \cup {r}
  /\ Reply(r, "created")
  /\ UNCHANGED <<users, owner, row, org_of, world, call, slug, tries, newUser>>

(* The organization is flushed, its membership is not: both go with the    *)
(* commit.  The unique index works as that of users.                       *)
InsertOrg(r) ==
  /\ step[r] = "insert_org"
  /\ ~TooLong(slug[r]) /\ slug[r] \notin organizations
  /\ \A q \in newOrg : slug[q] # slug[r]
  /\ newOrg' = newOrg \cup {r}
  /\ Reply(r, "created")
  /\ UNCHANGED <<tables, world, call, slug, tries, newUser>>

\* Mutant of InsertOrgFails: it does not wait for the other session.
InsertOrgFailsAtOnce(r) ==
  /\ step[r] = "insert_org"
  /\ \/ TooLong(slug[r]) /\ RollBack(r, "too_long")
     \/ /\ slug[r] \in organizations \/ \E q \in newOrg : slug[q] = slug[r]
        /\ RollBack(r, "slug_taken")
  /\ UNCHANGED world

InsertOrgFails(r) ==
  /\ step[r] = "insert_org"
  /\ \/ TooLong(slug[r]) /\ RollBack(r, "too_long")
     \/ slug[r] \in organizations /\ RollBack(r, "slug_taken")
  /\ UNCHANGED world

-----------------------------------------------------------------------------
(* Domains.                                                                *)

(* The new row is returned before it is flushed, so it has none of the     *)
(* values that DomainOut requires and that the flush would have generated: *)
(* the response cannot be built.                                           *)
RegisterDomain(r) ==
  /\ Handles(r, "register_domain")
  /\ Refuse(r, IF Member(r, call[r].on) THEN "invalid_response" ELSE "forbidden")

\* Mutant of VerifyDomain: what is verified already needs no membership.
VerifyDomainForAll(r) ==
  LET d == call[r].on
  IN  /\ Handles(r, "verify_domain")
      /\ \/ row[d] \in {"absent", "deleted"} /\ Refuse(r, "not_found")
         \/ /\ row[d] = "verified"
            /\ Reply(r, "already_verified")
            /\ UNCHANGED <<tables, world, call, slug, tries, newUser, newOrg>>
         \/ row[d] = "unverified" /\ ~Member(r, org_of[d]) /\ Refuse(r, "forbidden")
         \/ /\ row[d] = "unverified" /\ Member(r, org_of[d])
            /\ Goto(r, "lookup")
            /\ UNCHANGED <<tables, world, call, slug, tries, newUser, newOrg, answer>>

(* verify_domain up to the DNS query.                                      *)
VerifyDomain(r) ==
  LET d == call[r].on
  IN  /\ Handles(r, "verify_domain")
      /\ \/ row[d] \in {"absent", "deleted"} /\ Refuse(r, "not_found")
         \/ /\ row[d] \in {"unverified", "verified"} /\ ~Member(r, org_of[d])
            /\ Refuse(r, "forbidden")
         \/ /\ row[d] = "verified" /\ Member(r, org_of[d])
            /\ Reply(r, "already_verified")
            /\ UNCHANGED <<tables, world, call, slug, tries, newUser, newOrg>>
         \/ /\ row[d] = "unverified" /\ Member(r, org_of[d])
            /\ Goto(r, "lookup")
            /\ UNCHANGED <<tables, world, call, slug, tries, newUser, newOrg, answer>>

\* Mutant of LookUpChallenge: a query that fails counts as an answer.
LookUpChallengeHopefully(r) ==
  /\ step[r] = "lookup"
  /\ \E a \in {"verified", "not_verified"} : Reply(r, a)
  /\ witness' = [witness EXCEPT ![call[r].on] =
       IF call[r].on \in published THEN @ \cup {call[r].uid} ELSE @]
  /\ UNCHANGED <<tables, published, call, slug, tries, newUser, newOrg>>

(* verify_challenge_txt_presence; a query that fails finds nothing.        *)
LookUpChallenge(r) ==
  /\ step[r] = "lookup"
  /\ \/ /\ call[r].on \in published
        /\ witness' = [witness EXCEPT ![call[r].on] = @ \cup {call[r].uid}]
        /\ Reply(r, "verified")
     \/ UNCHANGED witness /\ Reply(r, "not_verified")
  /\ UNCHANGED <<tables, published, call, slug, tries, newUser, newOrg>>

-----------------------------------------------------------------------------
(* The end of a request.                                                   *)

Ended(r) ==
  /\ Goto(r, "done")
  /\ newUser' = newUser \ {r} /\ newOrg' = newOrg \ {r}
  /\ UNCHANGED <<org_of, world, call, slug, tries, answer>>

Verifies(r) == call[r].op = "verify_domain" /\ answer[r] = "verified"

(* The rows of the session become visible, and the answer is sent.         *)
Commit(r) ==
  /\ step[r] = "commit"
  /\ Verifies(r) => row[call[r].on] # "deleted"
  /\ users' = IF r \in newUser THEN users \cup {call[r].uid} ELSE users
  /\ organizations' = IF r \in newOrg THEN organizations \cup {slug[r]} ELSE organizations
  /\ owner' = IF r \in newOrg THEN [owner EXCEPT ![slug[r]] = call[r].uid] ELSE owner
  /\ row' = IF Verifies(r) THEN [row EXCEPT ![call[r].on] = "verified"] ELSE row
  /\ Ended(r)

(* The update of a domain that is gone matches no row.                     *)
CommitFails(r) ==
  /\ step[r] = "commit"
  /\ Verifies(r) /\ row[call[r].on] = "deleted"
  /\ RollBack(r, "row_gone")
  /\ UNCHANGED world

(* The database fails, the process dies, a claim is missing.               *)
FailRequest(r) ==
  /\ step[r] \notin {"new", "done"}
  /\ RollBack(r, "failed")
  /\ UNCHANGED world

Proceed(r) ==
  \/ InsertUser(r) \/ InsertUserFails(r)
  \/ ReadMe(r) \/ ListRows(r)
  \/ CheckSlug(r) \/ InsertOrg(r) \/ InsertOrgFails(r)
  \/ RegisterDomain(r) \/ VerifyDomain(r) \/ LookUpChallenge(r)
  \/ Commit(r) \/ CommitFails(r)

-----------------------------------------------------------------------------
(* The world: operators at the domains table, users at their zones.        *)

SeedDomain(d, s) ==
  /\ row[d] = "absent" /\ s \in organizations
  /\ row' = [row EXCEPT ![d] = "unverified"]
  /\ org_of' = [org_of EXCEPT ![d] = s]
  /\ UNCHANGED <<users, organizations, owner, world, sessions, call>>

DeleteDomain(d) ==
  /\ row[d] \in {"unverified", "verified"}
  /\ row' = [row EXCEPT ![d] = "deleted"]
  /\ UNCHANGED <<users, organizations, owner, org_of, world, sessions, call>>

Publish(d) ==
  /\ row[d] # "absent" /\ d \notin published
  /\ published' = published \cup {d}
  /\ UNCHANGED <<tables, witness, sessions, call>>

Withdraw(d) ==
  /\ d \in published
  /\ published' = published \ {d}
  /\ UNCHANGED <<tables, witness, sessions, call>>

(* Bound: no request is left.                                              *)
Stop == (\A r \in Requests : step[r] = "done") /\ UNCHANGED vars

Next ==
  \/ \E r \in Requests :
       \/ \E u \in Uids : Receive(r, u)
       \/ Proceed(r)
       \/ FailRequest(r)
  \/ \E d \in Domains :
       \/ \E s \in Slugs : SeedDomain(d, s)
       \/ DeleteDomain(d) \/ Publish(d) \/ Withdraw(d)
  \/ Stop

(* A request that was received goes on whenever it can: its thread runs,   *)
(* and the DNS query has a timeout.                                        *)
Fairness == \A r \in Requests : WF_vars(Proceed(r))

Spec == Init /\ [][Next]_vars
FairSpec == Spec /\ Fairness

-----------------------------------------------------------------------------
(* Properties.                                                             *)

Steps == {"new", "insert_user", "handler", "insert_org", "lookup", "commit", "done"}
Answers == {"served", "created", "invalid_response", "verified", "already_verified",
            "not_verified", "forbidden", "not_found", "uid_taken", "slug_taken", "too_long",
            "row_gone", "failed"}

AllCalls == UNION {Calls(u) : u \in Uids}

(* The type of every variable.                                             *)
TypeOK ==
  /\ users \subseteq Uids /\ organizations \subseteq Slugs
  /\ owner \in [Slugs -> Uids \cup {NoOne}]
  /\ row \in [Domains -> {"absent", "unverified", "verified", "deleted"}]
  /\ org_of \in [Domains -> Slugs \cup {Nothing}]
  /\ published \subseteq Domains /\ witness \in [Domains -> SUBSET Uids]
  /\ step \in [Requests -> Steps]
  /\ call \in [Requests -> AllCalls \cup {Nothing}]
  /\ \A r \in Requests : step[r] # "new" => call[r] \in AllCalls
  /\ slug \in [Requests -> Slugs \cup {Nothing}] /\ tries \in [Requests -> 0..SlugTries]
  /\ newUser \subseteq Requests /\ newOrg \subseteq Requests
  /\ answer \in [Requests -> Answers \cup {Nothing}]

Answered(r, A) == step[r] = "done" /\ answer[r] \in A

(* What an answer says was done is committed, although it was put together *)
(* before the commit, and nobody else was promised the same organization.  *)
AnswersAreCommitted ==
  \A r \in Requests :
    /\ Answered(r, {"served", "created", "verified", "already_verified", "not_verified"})
         => call[r].uid \in users
    /\ Answered(r, {"created"}) =>
         /\ slug[r] \in organizations /\ owner[slug[r]] = call[r].uid
         /\ \A q \in Requests \ {r} : Answered(q, {"created"}) => slug[q] # slug[r]
    /\ Answered(r, {"verified", "already_verified"})
         => row[call[r].on] \in {"verified", "deleted"}

(* A request that fails by a constraint of the schema fails for what other *)
(* requests have committed: the user is there when the first sign-in lost  *)
(* a race, so the next request finds it; so is the organization whose slug *)
(* was taken; a suffix makes a slug too long only if the slug without it   *)
(* is taken.                                                               *)
FailuresHaveCauses ==
  \A r \in Requests :
    /\ Answered(r, {"uid_taken"}) => call[r].uid \in users
    /\ Answered(r, {"slug_taken"}) => slug[r] \in organizations
    /\ Answered(r, {"too_long"}) /\ call[r].on \notin LongBases
         => <<call[r].on, NoSuffix>> \in organizations
    /\ Answered(r, {"row_gone"}) => row[call[r].on] = "deleted"

(* Whatever a request learns of an organization or does in it, its user is *)
(* a member.                                                               *)
ScopedToMembers ==
  \A r \in Requests :
    /\ Answered(r, {"served"}) /\ call[r].op = "list_rows" => owner[call[r].on] = call[r].uid
    /\ Answered(r, {"invalid_response"}) => owner[call[r].on] = call[r].uid
    /\ Answered(r, {"verified", "already_verified", "not_verified", "row_gone"})
         => owner[org_of[call[r].on]] = call[r].uid

(* A domain is verified only if a member of its organization has seen its  *)
(* token in its zone, whatever happened to row and zone meanwhile.         *)
VerifiedByMember ==
  \A d \in Domains :
    row[d] = "verified" => owner[org_of[d]] \in witness[d] /\ owner[org_of[d]] \in users

(* What the decorator of register_domain says: a member's registration of  *)
(* a valid name is answered with 201.                                      *)
RegistrationsAnswered ==
  \A r \in Requests :
    step[r] = "done" /\ call[r].op = "register_domain"
      => answer[r] \in {"created", "forbidden", "uid_taken", "failed"}

(* The flush of q waits for the open session of r, which has inserted the  *)
(* same unique key.                                                        *)
WaitsFor(q, r) ==
  \/ step[q] = "insert_user" /\ r \in newUser /\ call[r].uid = call[q].uid
  \/ step[q] = "insert_org" /\ r \in newOrg /\ slug[r] = slug[q]

(* A session holds the key of its user while it waits for the key of an    *)
(* organization, and others wait for it.  Yet sessions of requests never   *)
(* wait for unique keys in a circle.                                       *)
NoCircularWait ==
  \A C \in SUBSET Requests :
    (\A q \in C : \E r \in C : WaitsFor(q, r)) => C = {}

(* Requests wait for each other's unique keys, and the search for a slug   *)
(* ends: every request is answered.                                        *)
RequestsAnswered ==
  \A r \in Requests : step[r] # "new" ~> step[r] = "done"

(* Refinement: the committed users, organizations and memberships are      *)
(* Accounts.                                                               *)
Committed == INSTANCE Accounts
  WITH People <- Uids, Titles <- Slugs, accounts <- users,
       organizations <- organizations, owner <- owner

AccountsSpec == Committed!AccountsSpec
=============================================================================
