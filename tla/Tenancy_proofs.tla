-------------------------- MODULE Tenancy_proofs --------------------------
(***************************************************************************)
(* Proofs about Tenancy, for any number of requests, users, names and      *)
(* domains: what requests answer is committed, and is theirs to know.      *)
(***************************************************************************)
EXTENDS Tenancy, TLAPS

(* Steps at which a request knows its user.                                *)
Open == {"handler", "insert_org", "lookup", "commit"}

(* Keys that open sessions hold are free for everybody else, and no two    *)
(* sessions hold the same.                                                 *)
KeyInv ==
  /\ \A r \in newUser : step[r] \in Open /\ call[r].uid \notin users
  /\ \A r, q \in newUser : call[r].uid = call[q].uid => r = q
  /\ \A r \in newOrg : /\ step[r] = "commit" /\ answer[r] = "created"
                       /\ slug[r] \in Slugs /\ slug[r] \notin organizations
  /\ \A r, q \in newOrg : slug[r] = slug[q] => r = q

(* What is committed is consistent.                                        *)
TableInv ==
  /\ \A s \in Slugs : s \in organizations <=> owner[s] # NoOne
  /\ \A s \in Slugs : owner[s] # NoOne => owner[s] \in users
  /\ \A d \in Domains : row[d] # "absent" => org_of[d] \in Slugs /\ owner[org_of[d]] # NoOne
  /\ \A d \in Domains : row[d] = "verified" => owner[org_of[d]] \in witness[d]

(* The loop of create_organization: it leaves a slug without a suffix only *)
(* if that is taken.                                                       *)
LoopInv(r) ==
  /\ step[r] \in {"new", "insert_user"} => tries[r] = 0
  /\ step[r] = "handler" => tries[r] < SlugTries
  /\ step[r] = "insert_org" => call[r].op = "create_organization"
  /\ step[r] = "insert_org" /\ tries[r] = 0 => slug[r] = <<call[r].on, NoSuffix>>
  /\ step[r] \in {"handler", "insert_org"} /\ tries[r] > 0 =>
       /\ call[r].op = "create_organization"
       /\ slug[r] \in Slugs /\ <<call[r].on, NoSuffix>> \in organizations

Domain(r) == call[r].on

(* A request that verifies a domain is one of a member.                    *)
Verifying(r) ==
  /\ call[r].op = "verify_domain" /\ row[Domain(r)] # "absent"
  /\ Member(r, org_of[Domain(r)])

(* What a request has seen, before and after its commit.                   *)
SeenInv(r) ==
  /\ step[r] \in Open => call[r].uid \in users \/ r \in newUser
  /\ step[r] = "lookup" => Verifying(r)
  /\ step[r] \in {"commit", "done"} =>
       /\ answer[r] = "served" /\ call[r].op = "list_rows" => Member(r, call[r].on)
       /\ answer[r] = "invalid_response" =>
            call[r].op = "register_domain" /\ Member(r, call[r].on)
       /\ answer[r] \in {"verified", "already_verified", "not_verified", "row_gone"}
            => Verifying(r)
       /\ answer[r] = "verified" => call[r].uid \in witness[Domain(r)]
       /\ answer[r] = "already_verified" => row[Domain(r)] \in {"verified", "deleted"}
       /\ answer[r] = "row_gone" => row[Domain(r)] = "deleted"

(* What is true once the answer is sent.                                   *)
DoneInv(r) ==
  /\ step[r] = "commit" =>
       /\ answer[r] \in {"served", "created", "verified", "already_verified", "not_verified"}
       /\ answer[r] = "created" => r \in newOrg
  /\ step[r] = "done" =>
       /\ answer[r] \in {"served", "created", "verified", "already_verified", "not_verified",
                         "uid_taken"} => call[r].uid \in users
       /\ answer[r] = "created" => slug[r] \in organizations /\ owner[slug[r]] = call[r].uid
       /\ answer[r] = "verified" => row[Domain(r)] \in {"verified", "deleted"}
       /\ answer[r] = "slug_taken" => slug[r] \in organizations
       /\ answer[r] = "too_long" =>
            /\ call[r].op = "create_organization"
            /\ call[r].on \in LongBases \/ <<call[r].on, NoSuffix>> \in organizations

Distinct ==
  \A r, q \in Requests :
    Answered(r, {"created"}) /\ Answered(q, {"created"}) /\ slug[r] = slug[q] => r = q

RequestInv == \A r \in Requests : LoopInv(r) /\ SeenInv(r) /\ DoneInv(r)

TenancyInv == TypeOK /\ KeyInv /\ TableInv /\ RequestInv /\ Distinct

-----------------------------------------------------------------------------
(* What the type of a call says about its parts.                           *)
LEMMA CallFacts ==
  ASSUME TenancyAssumption, NEW c, NEW u \in Uids, c \in Calls(u)
  PROVE  /\ c.uid = u /\ c.uid \in Uids /\ c.uid # NoOne
         /\ c.op = "create_organization" => c.on \in Bases
         /\ c.op \in {"list_rows", "register_domain"} => c.on \in Slugs
         /\ c.op = "verify_domain" => c.on \in Domains
BY DEF TenancyAssumption, Calls

(* So does the type of the call of a request that was received.            *)
LEMMA CallOf ==
  ASSUME TenancyAssumption, TypeOK, NEW r \in Requests, step[r] # "new"
  PROVE  /\ call[r].uid \in Uids /\ call[r].uid # NoOne
         /\ call[r].op = "create_organization" => call[r].on \in Bases
         /\ call[r].op \in {"list_rows", "register_domain"} => call[r].on \in Slugs
         /\ call[r].op = "verify_domain" => call[r].on \in Domains
BY CallFacts DEF TypeOK, AllCalls

(* The slug of an organization that is about to be inserted is one.        *)
LEMMA SlugOf ==
  ASSUME TenancyAssumption, TypeOK, NEW r \in Requests, LoopInv(r), step[r] = "insert_org"
  PROVE  slug[r] \in Slugs
<1>1. call[r].on \in Bases
  BY CallOf DEF LoopInv
<1>2. tries[r] \in Nat
  BY DEF TypeOK, TenancyAssumption
<1>3. CASE tries[r] = 0
  BY <1>1, <1>3 DEF LoopInv, Slugs
<1>4. CASE tries[r] > 0
  BY <1>4 DEF LoopInv
<1> QED BY <1>2, <1>3, <1>4
-----------------------------------------------------------------------------
(* Types.                                                                  *)

(* Every step keeps the types.                                             *)
LEMMA TypeStep ==
  ASSUME TenancyAssumption, TenancyInv, [Next]_vars
  PROVE  TypeOK'
<1>0. TypeOK /\ RequestInv /\ SlugTries \in Nat \ {0}
  BY DEF TenancyInv, TenancyAssumption
<1>1. CASE UNCHANGED vars
  BY <1>0, <1>1 DEF TypeOK, vars, tables, world, sessions
<1>2. ASSUME NEW r \in Requests, NEW u \in Uids, Receive(r, u)
      PROVE  TypeOK'
  <2>1. PICK c \in Calls(u) : call' = [call EXCEPT ![r] = c]
    BY <1>2 DEF Receive
  <2>2. c \in AllCalls
    BY DEF AllCalls
  <2>3. step' \in [Requests -> Steps] /\ call' \in [Requests -> AllCalls \cup {Nothing}]
    BY <1>0, <1>2, <2>1, <2>2 DEF TypeOK, Steps, Receive, Goto
  <2>4. \A q \in Requests : step'[q] # "new" => call'[q] \in AllCalls
    BY <1>0, <1>2, <2>1, <2>2 DEF TypeOK, Receive, Goto
  <2> QED BY <1>0, <1>2, <2>3, <2>4 DEF TypeOK, Receive, tables, world
<1>3. ASSUME NEW r \in Requests, NEW a \in Answers, step[r] # "new",
             RollBack(r, a), UNCHANGED world
      PROVE  TypeOK'
  <2>1. step' \in [Requests -> Steps] /\ answer' \in [Requests -> Answers \cup {Nothing}]
    BY <1>0, <1>3 DEF TypeOK, RollBack, Goto, Steps
  <2>2. \A q \in Requests : step'[q] # "new" => q = r \/ step[q] # "new"
    BY <1>0, <1>3 DEF TypeOK, RollBack, Goto
  <2>3. newUser' \subseteq Requests /\ newOrg' \subseteq Requests
    BY <1>0, <1>3 DEF TypeOK, RollBack
  <2> QED BY <1>0, <1>3, <2>1, <2>2, <2>3 DEF TypeOK, RollBack, tables, world
<1>4. ASSUME NEW r \in Requests, NEW a \in Answers, Reply(r, a), step[r] # "new",
             UNCHANGED <<tables, call, slug, tries, published, newUser>>,
             witness' \in [Domains -> SUBSET Uids], newOrg' \subseteq Requests
      PROVE  TypeOK'
  BY <1>0, <1>4 DEF TypeOK, Reply, Goto, tables, Steps
<1>5. ASSUME NEW r \in Requests, InsertUser(r)
      PROVE  TypeOK'
  BY <1>0, <1>5 DEF TypeOK, InsertUser, Goto, tables, world, Steps
<1>6. ASSUME NEW r \in Requests, InsertUserFails(r) \/ InsertOrgFails(r) \/ RegisterDomain(r)
                                    \/ CommitFails(r) \/ FailRequest(r)
      PROVE  TypeOK'
  BY <1>3, <1>6 DEF InsertUserFails, InsertOrgFails, RegisterDomain, CommitFails, FailRequest,
     Refuse, Handles, Answers
<1>7. ASSUME NEW r \in Requests, ReadMe(r) \/ ListRows(r)
      PROVE  TypeOK'
  BY <1>0, <1>3, <1>4, <1>7 DEF ReadMe, ListRows, Handles, Refuse, Answers, world, TypeOK
<1>8. ASSUME NEW r \in Requests, CheckSlug(r)
      PROVE  TypeOK'
  <2>1. LoopInv(r) /\ step[r] = "handler" /\ call[r].op = "create_organization"
    BY <1>0, <1>8 DEF RequestInv, CheckSlug, Checks, Handles
  <2>2. call[r].on \in Bases
    BY <1>0, <2>1, CallOf, TenancyAssumption
  <2>3. tries[r] \in Nat /\ tries[r] < SlugTries
    BY <1>0, <2>1 DEF LoopInv, TypeOK
  <2>4. NextSlug(r) \in Slugs
    BY <2>1, <2>2, <2>3 DEF LoopInv, NextSlug, Slugs
  <2>5. \A x \in Suffixes : <<call[r].on, x>> \in Slugs
    BY <2>2 DEF Slugs
  <2>6. slug' \in [Requests -> Slugs \cup {Nothing}]
    BY <1>0, <1>8, <2>4, <2>5 DEF CheckSlug, TypeOK
  <2>7. tries' \in [Requests -> 0..SlugTries]
    BY <1>0, <1>8, <2>3 DEF CheckSlug, TypeOK
  <2>8. step' \in [Requests -> Steps]
    BY <1>0, <1>8 DEF CheckSlug, TypeOK, Goto, Steps
  <2>9. \A q \in Requests : step'[q] # "new" => step[q] # "new"
    BY <1>0, <1>8, <2>1 DEF CheckSlug, TypeOK, Goto
  <2>10. UNCHANGED <<tables, world, call, newUser, newOrg, answer>>
    BY <1>8 DEF CheckSlug
  <2> QED BY <1>0, <2>6, <2>7, <2>8, <2>9, <2>10 DEF TypeOK, tables, world
<1>9. ASSUME NEW r \in Requests, InsertOrg(r)
      PROVE  TypeOK'
  BY <1>0, <1>4, <1>9 DEF InsertOrg, Answers, world, TypeOK
<1>10. ASSUME NEW r \in Requests, VerifyDomain(r)
       PROVE  TypeOK'
  <2>1. CASE /\ Goto(r, "lookup")
             /\ UNCHANGED <<tables, world, call, slug, tries, newUser, newOrg, answer>>
    BY <1>0, <1>10, <2>1 DEF VerifyDomain, Handles, TypeOK, Goto, tables, world, Steps
  <2> QED BY <1>0, <1>3, <1>4, <1>10, <2>1 DEF VerifyDomain, Handles, Refuse, Answers, world,
             TypeOK
<1>11. ASSUME NEW r \in Requests, LookUpChallenge(r)
       PROVE  TypeOK'
  <2>1. call[r].uid \in Uids
    BY <1>0, <1>11, CallOf, TenancyAssumption DEF LookUpChallenge
  <2>2. witness' \in [Domains -> SUBSET Uids]
    BY <1>0, <1>11, <2>1 DEF LookUpChallenge, TypeOK
  <2> QED BY <1>0, <1>4, <1>11, <2>2 DEF LookUpChallenge, Answers, TypeOK
<1>12. ASSUME NEW r \in Requests, Commit(r)
       PROVE  TypeOK'
  <2>1. call[r].uid \in Uids
    BY <1>0, <1>12, CallOf, TenancyAssumption DEF Commit
  <2>2. users' \subseteq Uids /\ owner' \in [Slugs -> Uids \cup {NoOne}]
    BY <1>0, <1>12, <2>1 DEF Commit, TypeOK
  <2>3. row' \in [Domains -> {"absent", "unverified", "verified", "deleted"}]
    BY <1>0, <1>12 DEF Commit, TypeOK
  <2>4. step' \in [Requests -> Steps] /\ newUser' \subseteq Requests /\ newOrg' \subseteq Requests
    BY <1>0, <1>12 DEF Commit, Ended, Goto, TypeOK, Steps
  <2>5. \A q \in Requests : step'[q] # "new" => step[q] # "new"
    BY <1>0, <1>12 DEF Commit, Ended, Goto, TypeOK
  <2>6. UNCHANGED <<org_of, published, witness, call, slug, tries, answer>>
    BY <1>12 DEF Commit, Ended, world
  <2>7. organizations' \subseteq Slugs
    BY <1>0, <1>12 DEF Commit, TypeOK, TenancyInv, KeyInv
  <2> QED BY <1>0, <2>2, <2>3, <2>4, <2>5, <2>6, <2>7 DEF TypeOK
<1>13. ASSUME NEW d \in Domains, NEW s \in Slugs, SeedDomain(d, s)
       PROVE  TypeOK'
  BY <1>0, <1>13 DEF SeedDomain, TypeOK, world, sessions
<1>14. ASSUME NEW d \in Domains, DeleteDomain(d) \/ Publish(d) \/ Withdraw(d)
       PROVE  TypeOK'
  BY <1>0, <1>14 DEF DeleteDomain, Publish, Withdraw, TypeOK, tables, world, sessions
<1> QED BY <1>1, <1>2, <1>5, <1>6, <1>7, <1>8, <1>9, <1>10, <1>11, <1>12, <1>13, <1>14
        DEF Next, Proceed, Stop
-----------------------------------------------------------------------------
(* What a step leaves alone.                                               *)

(* Rows do not go back: users stay, organizations keep their owners, and a *)
(* domain its organization and the witnesses of its record.                *)
Grows ==
  /\ users \subseteq users' /\ organizations \subseteq organizations'
  /\ \A s \in Slugs : owner[s] # NoOne => owner'[s] = owner[s]
  /\ \A d \in Domains :
       /\ row[d] # "absent" => row'[d] # "absent" /\ org_of'[d] = org_of[d]
       /\ row[d] = "deleted" => row'[d] = "deleted"
       /\ row[d] = "verified" => row'[d] \in {"verified", "deleted"}
       /\ witness[d] \subseteq witness'[d]

(* Every step lets the tables grow.                                        *)
LEMMA TablesGrow ==
  ASSUME TenancyAssumption, TenancyInv, [Next]_vars
  PROVE  Grows
<1>0. TypeOK /\ KeyInv /\ TableInv
  BY DEF TenancyInv
<1>1. CASE UNCHANGED <<tables, witness>>
  BY <1>1 DEF tables, Grows
<1>2. ASSUME NEW r \in Requests, LookUpChallenge(r)
      PROVE  Grows
  BY <1>0, <1>2 DEF LookUpChallenge, tables, Grows, TypeOK
<1>3. ASSUME NEW r \in Requests, Commit(r)
      PROVE  Grows
  <2>1. users \subseteq users' /\ organizations \subseteq organizations'
    BY <1>3 DEF Commit
  <2>2. \A s \in Slugs : owner[s] # NoOne => owner'[s] = owner[s]
    BY <1>0, <1>3 DEF Commit, TypeOK, KeyInv, TableInv
  <2>3. \A d \in Domains : row'[d] = row[d] \/ (row'[d] = "verified" /\ row[d] # "deleted")
    BY <1>0, <1>3 DEF Commit, TypeOK
  <2>4. UNCHANGED <<org_of, witness>>
    BY <1>3 DEF Commit, Ended, world
  <2> QED BY <1>0, <2>1, <2>2, <2>3, <2>4 DEF Grows, TypeOK
<1>4. ASSUME NEW d \in Domains, NEW s \in Slugs, SeedDomain(d, s)
      PROVE  Grows
  BY <1>0, <1>4 DEF SeedDomain, world, Grows, TypeOK
<1>5. ASSUME NEW d \in Domains, DeleteDomain(d)
      PROVE  Grows
  BY <1>0, <1>5 DEF DeleteDomain, world, Grows, TypeOK
<1>6. ASSUME NEW d \in Domains, Publish(d) \/ Withdraw(d)
      PROVE  Grows
  BY <1>1, <1>6 DEF Publish, Withdraw
<1>7. ASSUME NEW r \in Requests,
             \/ \E u \in Uids : Receive(r, u)
             \/ InsertUser(r) \/ CheckSlug(r) \/ InsertOrg(r)
      PROVE  Grows
  BY <1>1, <1>7 DEF Receive, InsertUser, CheckSlug, InsertOrg, world
<1>8. ASSUME NEW r \in Requests, NEW a, RollBack(r, a), UNCHANGED world
      PROVE  Grows
  BY <1>1, <1>8 DEF RollBack, world
<1>9. ASSUME NEW r \in Requests,
             \/ InsertUserFails(r) \/ InsertOrgFails(r) \/ RegisterDomain(r)
             \/ CommitFails(r) \/ FailRequest(r)
      PROVE  Grows
  BY <1>8, <1>9 DEF InsertUserFails, InsertOrgFails, RegisterDomain, CommitFails, FailRequest,
     Refuse
<1>10. ASSUME NEW r \in Requests, ReadMe(r) \/ ListRows(r) \/ VerifyDomain(r)
       PROVE  Grows
  BY <1>1, <1>8, <1>10 DEF ReadMe, ListRows, VerifyDomain, Refuse, world
<1> QED BY <1>1, <1>2, <1>3, <1>4, <1>5, <1>6, <1>7, <1>9, <1>10
        DEF Next, Proceed, Stop, vars, world

(* What a request knows is not disturbed by the steps of others.           *)
Same(q) ==
  /\ step'[q] = step[q] /\ call'[q] = call[q] /\ slug'[q] = slug[q] /\ tries'[q] = tries[q]
  /\ answer'[q] = answer[q]
  /\ q \in newUser' <=> q \in newUser
  /\ q \in newOrg' <=> q \in newOrg

(* What a request knows stays true as the tables grow.                     *)
LEMMA Undisturbed ==
  ASSUME TenancyAssumption, TypeOK, TableInv, Grows, NEW q \in Requests, Same(q),
         LoopInv(q), SeenInv(q), DoneInv(q)
  PROVE  LoopInv(q)' /\ SeenInv(q)' /\ DoneInv(q)'
<1>1. step[q] # "new" =>
        /\ call[q].uid # NoOne
        /\ call[q].op = "create_organization" => call[q].on \in Bases
        /\ call[q].op \in {"list_rows", "register_domain"} => call[q].on \in Slugs
        /\ call[q].op = "verify_domain" => call[q].on \in Domains
  BY CallOf
<1>2. call[q].on \in Bases => <<call[q].on, NoSuffix>> \in Slugs
  BY DEF Slugs
<1>3. LoopInv(q)'
  BY <1>1, <1>2 DEF LoopInv, Grows, Same
<1>4. Verifying(q) /\ step[q] # "new" => Verifying(q)'
  BY <1>1 DEF Verifying, Member, Domain, Grows, Same, TableInv
<1>5. call[q].on \in Slugs /\ step[q] # "new" /\ Member(q, call[q].on) => Member(q, call[q].on)'
  BY <1>1 DEF Member, Grows, Same
<1>6. SeenInv(q)'
  <2>1. step[q] \in Open => (call[q].uid \in users \/ q \in newUser)'
    BY DEF SeenInv, Grows, Same
  <2>2. step[q] = "lookup" => Verifying(q)'
    BY <1>4 DEF SeenInv
  <2>3. Verifying(q) /\ step[q] # "new" => call[q].on \in Domains /\ row[Domain(q)] # "absent"
    BY <1>1 DEF Verifying
  <2>4. ASSUME step[q] \in {"commit", "done"}
        PROVE  /\ answer[q] = "served" /\ call[q].op = "list_rows" => Member(q, call[q].on)'
               /\ answer[q] = "invalid_response" =>
                    call[q].op = "register_domain" /\ Member(q, call[q].on)'
               /\ answer[q] \in {"verified", "already_verified", "not_verified", "row_gone"}
                    => Verifying(q)'
               /\ answer[q] = "verified" => call[q].uid \in witness'[Domain(q)]
               /\ answer[q] = "already_verified" => row'[Domain(q)] \in {"verified", "deleted"}
               /\ answer[q] = "row_gone" => row'[Domain(q)] = "deleted"
    BY <1>1, <1>4, <1>5, <2>3, <2>4 DEF SeenInv, Grows, Domain
  <2>5. step[q] = step'[q] /\ answer[q] = answer'[q] /\ call[q] = call'[q]
    BY DEF Same
  <2> QED BY <2>1, <2>2, <2>4, <2>5 DEF SeenInv, Member, Domain
<1>7. DoneInv(q)'
  BY <1>1, <1>2 DEF DoneInv, Grows, Same, Domain, SeenInv, Verifying, TypeOK
<1> QED BY <1>3, <1>6, <1>7
-----------------------------------------------------------------------------
(* The steps of requests.                                                  *)

StepOf(r) == (\E u \in Uids : Receive(r, u)) \/ Proceed(r) \/ FailRequest(r)

(* A step of the world, or none, is one of no request.                     *)
Idle == UNCHANGED <<users, organizations, owner, sessions, call>>

(* Every other step is one of a request.                                   *)
LEMMA StepsOfNext ==
  ASSUME [Next]_vars
  PROVE  Idle \/ \E r \in Requests : StepOf(r)
BY DEF Next, StepOf, Idle, SeedDomain, DeleteDomain, Publish, Withdraw, Stop, vars, tables

(* The ways in which the step of a request ends.                           *)
Fails(r) == \E a \in Answers \ {"created"} : RollBack(r, a)

Works(r) ==
  /\ step[r] \in {"handler", "lookup"} /\ step'[r] \in Open
  /\ UNCHANGED <<users, organizations, owner, call, newUser, newOrg>>
  /\ \A q \in Requests \ {r} : Same(q)

(* A request fails, works in its session, or takes one of four other steps.*)
LEMMA KindsOfStep ==
  ASSUME TypeOK, NEW r \in Requests, StepOf(r)
  PROVE  \/ \E u \in Uids : Receive(r, u)
         \/ step[r] # "new" /\ (Works(r) \/ Fails(r))
         \/ InsertUser(r) \/ InsertOrg(r) \/ Commit(r)
<1>1. CASE InsertUserFails(r) \/ InsertOrgFails(r) \/ RegisterDomain(r) \/ CommitFails(r)
             \/ FailRequest(r)
  BY <1>1 DEF InsertUserFails, InsertOrgFails, RegisterDomain, CommitFails, FailRequest,
     Refuse, Handles, Fails, Answers
<1>2. ASSUME Reply(r, "served") \/ Reply(r, "already_verified") \/ Reply(r, "verified")
               \/ Reply(r, "not_verified"),
             UNCHANGED <<tables, call, slug, tries, newUser, newOrg>>,
             step[r] \in {"handler", "lookup"}
      PROVE  Works(r)
  BY <1>2 DEF TypeOK, Reply, Goto, tables, Works, Same, Open
<1>3. CASE CheckSlug(r)
  BY <1>3 DEF TypeOK, CheckSlug, Checks, Handles, Goto, tables, Works, Same, Open
<1>4. CASE VerifyDomain(r)
  <2>1. CASE /\ Goto(r, "lookup")
             /\ UNCHANGED <<tables, world, call, slug, tries, newUser, newOrg, answer>>
    BY <1>4, <2>1 DEF VerifyDomain, Handles, TypeOK, Goto, tables, Works, Same, Open
  <2> QED BY <1>2, <1>4, <2>1 DEF VerifyDomain, Handles, Refuse, Fails, Answers
<1>5. CASE ReadMe(r) \/ ListRows(r) \/ LookUpChallenge(r)
  BY <1>2, <1>5 DEF ReadMe, ListRows, LookUpChallenge, Handles, Refuse, Fails, Answers
<1> QED BY <1>1, <1>3, <1>4, <1>5 DEF StepOf, Proceed

(* The step of a request leaves the others alone.                          *)
LEMMA OthersSame ==
  ASSUME TypeOK, NEW r \in Requests, StepOf(r), NEW q \in Requests, q # r
  PROVE  Same(q)
<1>1. CASE \E u \in Uids : Receive(r, u)
  BY <1>1 DEF TypeOK, Receive, Goto, Same
<1>2. CASE Fails(r)
  BY <1>2 DEF TypeOK, Fails, RollBack, Goto, Same
<1>3. CASE InsertUser(r) \/ InsertOrg(r)
  BY <1>3 DEF TypeOK, InsertUser, InsertOrg, Reply, Goto, Same
<1>4. CASE Commit(r)
  BY <1>4 DEF TypeOK, Commit, Ended, Goto, Same
<1> QED BY KindsOfStep, <1>1, <1>2, <1>3, <1>4 DEF Works
-----------------------------------------------------------------------------
(* The invariant is inductive.                                             *)

(* No step makes two sessions hold a key, nor lets one hold a key that is  *)
(* committed.                                                              *)
LEMMA KeyStep ==
  ASSUME TenancyAssumption, TenancyInv, [Next]_vars
  PROVE  KeyInv'
<1>0. TypeOK /\ KeyInv /\ RequestInv
  BY DEF TenancyInv
<1>1. CASE Idle
  BY <1>0, <1>1 DEF KeyInv, Idle, sessions
<1>2. ASSUME NEW r \in Requests, NEW u \in Uids, Receive(r, u)
      PROVE  KeyInv'
  <2>1. r \notin newUser /\ r \notin newOrg
    BY <1>0, <1>2 DEF KeyInv, Receive, Open
  <2>2. \A q \in Requests \ {r} : Same(q)
    BY <1>0, <1>2, OthersSame DEF StepOf
  <2>3. UNCHANGED <<users, organizations, owner, newUser, newOrg>> /\ newUser \subseteq Requests
          /\ newOrg \subseteq Requests
    BY <1>0, <1>2 DEF Receive, tables, TypeOK
  <2> QED BY <1>0, <2>1, <2>2, <2>3 DEF KeyInv, Same
<1>3. ASSUME NEW r \in Requests, Works(r)
      PROVE  KeyInv'
  <2>1. r \notin newOrg
    BY <1>0, <1>3 DEF KeyInv, Works
  <2>2. newUser \subseteq Requests /\ newOrg \subseteq Requests
    BY <1>0 DEF TypeOK
  <2> QED BY <1>0, <1>3, <2>1, <2>2 DEF KeyInv, Works, Same
<1>4. ASSUME NEW r \in Requests, StepOf(r), Fails(r)
      PROVE  KeyInv'
  <2>1. /\ newUser' = newUser \ {r} /\ newOrg' = newOrg \ {r}
        /\ UNCHANGED <<users, organizations, owner, call, slug>>
    BY <1>4 DEF Fails, RollBack, tables
  <2>2. \A q \in Requests \ {r} : Same(q)
    BY <1>0, <1>4, OthersSame
  <2>3. newUser \subseteq Requests /\ newOrg \subseteq Requests
    BY <1>0 DEF TypeOK
  <2> QED BY <1>0, <2>1, <2>2, <2>3 DEF KeyInv, Same
<1>5. ASSUME NEW r \in Requests, StepOf(r), InsertUser(r)
      PROVE  KeyInv'
  <2>1. /\ newUser' = newUser \cup {r} /\ step'[r] = "handler" /\ r \notin newOrg
        /\ UNCHANGED <<users, organizations, owner, call, slug, newOrg>>
    BY <1>0, <1>5 DEF InsertUser, Goto, tables, TypeOK, KeyInv
  <2>2. \A q \in Requests \ {r} : Same(q)
    BY <1>0, <1>5, OthersSame
  <2>3. newUser \subseteq Requests /\ newOrg \subseteq Requests
    BY <1>0 DEF TypeOK
  <2>4. call[r].uid \notin users /\ \A q \in newUser : call[q].uid # call[r].uid
    BY <1>5 DEF InsertUser
  <2> QED BY <1>0, <2>1, <2>2, <2>3, <2>4 DEF KeyInv, Same, Open
<1>6. ASSUME NEW r \in Requests, StepOf(r), InsertOrg(r)
      PROVE  KeyInv'
  <2>1. /\ newOrg' = newOrg \cup {r} /\ step'[r] = "commit" /\ answer'[r] = "created"
        /\ UNCHANGED <<users, organizations, owner, call, slug, newUser>>
    BY <1>0, <1>6 DEF InsertOrg, Reply, Goto, tables, TypeOK
  <2>2. \A q \in Requests \ {r} : Same(q)
    BY <1>0, <1>6, OthersSame
  <2>3. newUser \subseteq Requests /\ newOrg \subseteq Requests
    BY <1>0 DEF TypeOK
  <2>4. slug[r] \notin organizations /\ \A q \in newOrg : slug[q] # slug[r]
    BY <1>6 DEF InsertOrg
  <2>5. slug[r] \in Slugs
    BY <1>0, <1>6, SlugOf, TenancyAssumption DEF InsertOrg, RequestInv
  <2> QED BY <1>0, <2>1, <2>2, <2>3, <2>4, <2>5 DEF KeyInv, Same, Open
<1>7. ASSUME NEW r \in Requests, StepOf(r), Commit(r)
      PROVE  KeyInv'
  <2>1. newUser' = newUser \ {r} /\ newOrg' = newOrg \ {r} /\ UNCHANGED <<call, slug>>
    BY <1>7 DEF Commit, Ended
  <2>2. \A q \in Requests \ {r} : Same(q)
    BY <1>0, <1>7, OthersSame
  <2>3. newUser \subseteq Requests /\ newOrg \subseteq Requests
    BY <1>0 DEF TypeOK
  <2>4. \A q \in newUser' : call[q].uid \notin users'
    BY <1>0, <1>7, <2>1 DEF Commit, KeyInv
  <2>5. \A q \in newOrg' : slug[q] \notin organizations'
    BY <1>0, <1>7, <2>1 DEF Commit, KeyInv, TypeOK
  <2> QED BY <1>0, <2>1, <2>2, <2>3, <2>4, <2>5 DEF KeyInv, Same
<1> QED BY <1>0, <1>1, <1>2, <1>3, <1>4, <1>5, <1>6, <1>7, StepsOfNext, KindsOfStep

(* What is committed stays consistent.                                     *)
LEMMA TableStep ==
  ASSUME TenancyAssumption, TenancyInv, [Next]_vars
  PROVE  TableInv'
<1>0. TypeOK /\ KeyInv /\ TableInv /\ RequestInv /\ Grows
  BY TablesGrow DEF TenancyInv
<1>1. CASE /\ UNCHANGED <<organizations, owner>>
           /\ \A d \in Domains : /\ row'[d] # "absent" => row[d] # "absent"
                                 /\ row'[d] = "verified" => row[d] = "verified"
  BY <1>0, <1>1 DEF TableInv, Grows
<1>2. ASSUME NEW r \in Requests, Commit(r)
      PROVE  TableInv'
  <2>1. step[r] = "commit" /\ r \in newOrg => slug[r] \in Slugs
    BY <1>0, <1>2 DEF Commit, KeyInv
  <2>2. call[r].uid \in users \/ r \in newUser
    BY <1>0, <1>2 DEF Commit, RequestInv, SeenInv, Open
  <2>3. call[r].uid # NoOne
    BY <1>0, <1>2, CallOf, TenancyAssumption DEF Commit
  <2>4. \A s \in Slugs : owner'[s] # NoOne => owner'[s] \in users'
    <3>1. SUFFICES ASSUME NEW s \in Slugs, owner'[s] # NoOne
                   PROVE  owner'[s] \in users'
      OBVIOUS
    <3>2. owner'[s] = owner[s] \/ (r \in newOrg /\ owner'[s] = call[r].uid)
      BY <1>0, <1>2 DEF Commit, TypeOK
    <3> QED BY <1>0, <1>2, <2>2, <3>1, <3>2 DEF Commit, TableInv, Grows
  <2>5. Verifies(r) => /\ Verifying(r) /\ call[r].on \in Domains
                       /\ call[r].uid \in witness[call[r].on]
    <3>1. ASSUME Verifies(r)
          PROVE  call[r].on \in Domains
      BY <1>0, <1>2, <3>1, CallOf, TenancyAssumption DEF Commit, Verifies
    <3> QED BY <1>0, <1>2, <3>1 DEF Commit, Verifies, RequestInv, SeenInv, Domain
  <2>6. \A d \in Domains : row'[d] = row[d] \/ (Verifies(r) /\ d = call[r].on)
    BY <1>0, <1>2 DEF Commit, TypeOK
  <2>7. \A d \in Domains : row'[d] # "absent" =>
          org_of'[d] \in Slugs /\ owner[org_of[d]] # NoOne /\ org_of'[d] = org_of[d]
    BY <1>0, <2>3, <2>5, <2>6 DEF TableInv, Grows, Verifying, Domain, Member
  <2>8. \A d \in Domains : row'[d] = "verified" => owner[org_of[d]] \in witness[d]
    BY <1>0, <2>5, <2>6 DEF TableInv, Verifying, Domain, Member
  <2>9. \A s \in Slugs : s \in organizations' <=> owner'[s] # NoOne
    <3>1. CASE r \in newOrg
      <4>1. /\ organizations' = organizations \cup {slug[r]} /\ slug[r] \in Slugs
            /\ owner' = [owner EXCEPT ![slug[r]] = call[r].uid]
        BY <1>0, <1>2, <3>1 DEF Commit, KeyInv
      <4> QED BY <1>0, <2>3, <4>1 DEF TableInv, TypeOK
    <3>2. CASE r \notin newOrg
      BY <1>0, <1>2, <3>2 DEF Commit, TableInv
    <3> QED BY <3>1, <3>2
  <2> QED BY <1>0, <2>4, <2>7, <2>8, <2>9 DEF TableInv, Grows
<1>3. ASSUME NEW d \in Domains, NEW s \in Slugs, SeedDomain(d, s)
      PROVE  TableInv'
  BY <1>0, <1>3 DEF SeedDomain, world, TableInv, TypeOK
<1>4. ASSUME NEW d \in Domains, DeleteDomain(d)
      PROVE  TableInv'
  BY <1>0, <1>1, <1>4 DEF DeleteDomain, TypeOK
<1>5. CASE UNCHANGED tables
  BY <1>1, <1>5 DEF tables
<1>6. ASSUME NEW r \in Requests, StepOf(r), ~Commit(r)
      PROVE  UNCHANGED tables
  BY <1>6 DEF StepOf, Proceed, Receive, InsertUser, InsertUserFails, ReadMe, ListRows, CheckSlug,
     InsertOrg, InsertOrgFails, RegisterDomain, VerifyDomain, LookUpChallenge, CommitFails,
     FailRequest, Refuse, RollBack
<1> QED BY <1>2, <1>3, <1>4, <1>5, <1>6 DEF Next, StepOf, Publish, Withdraw, Stop, vars
(* What the request that steps knows of itself.                            *)
LEMMA OwnStep ==
  ASSUME TenancyAssumption, TenancyInv, Grows, NEW r \in Requests, StepOf(r)
  PROVE  LoopInv(r)' /\ SeenInv(r)' /\ DoneInv(r)'
<1>0. /\ TypeOK /\ KeyInv /\ TableInv /\ LoopInv(r) /\ SeenInv(r) /\ DoneInv(r)
      /\ SlugTries \in Nat /\ SlugTries > 0 /\ tries[r] \in Nat
  BY DEF TenancyInv, RequestInv, TenancyAssumption, TypeOK
<1>1. step[r] # "new" =>
        /\ call[r].uid \in Uids /\ call[r].uid # NoOne
        /\ call[r].op = "create_organization" => call[r].on \in Bases
        /\ call[r].op \in {"list_rows", "register_domain"} => call[r].on \in Slugs
        /\ call[r].op = "verify_domain" => call[r].on \in Domains
  BY <1>0, CallOf
<1>2. ASSUME NEW u \in Uids, Receive(r, u)
      PROVE  LoopInv(r)' /\ SeenInv(r)' /\ DoneInv(r)'
  <2>1. PICK c \in Calls(u) : call' = [call EXCEPT ![r] = c]
    BY <1>2 DEF Receive
  <2>2. call'[r].uid = u
    BY <1>0, <2>1, CallFacts DEF TypeOK
  <2>3. /\ tries'[r] = 0 /\ step'[r] \in {"handler", "insert_user"} /\ users' = users
        /\ step'[r] = "handler" => u \in users
    BY <1>0, <1>2 DEF Receive, Goto, TypeOK, LoopInv, tables
  <2> QED BY <1>0, <2>2, <2>3 DEF LoopInv, SeenInv, DoneInv, Open
<1>3. ASSUME InsertUser(r)
      PROVE  LoopInv(r)' /\ SeenInv(r)' /\ DoneInv(r)'
  <2>1. tries'[r] = 0 /\ step'[r] = "handler" /\ r \in newUser'
    BY <1>0, <1>3 DEF InsertUser, Goto, TypeOK, LoopInv
  <2> QED BY <1>0, <2>1 DEF LoopInv, SeenInv, DoneInv, Open
(* A request that fails has only to account for its answer.                *)
<1>4. ASSUME NEW a \in Answers, RollBack(r, a), step[r] # "new", UNCHANGED world,
             a \in {"uid_taken", "slug_taken", "too_long", "failed", "forbidden", "not_found",
                    "invalid_response", "row_gone"},
             a = "uid_taken" => call[r].uid \in users,
             a = "slug_taken" => slug[r] \in organizations,
             a = "too_long" =>
               /\ call[r].op = "create_organization"
               /\ call[r].on \in LongBases \/ <<call[r].on, NoSuffix>> \in organizations,
             a = "invalid_response" => call[r].op = "register_domain" /\ Member(r, call[r].on),
             a = "row_gone" => Verifying(r) /\ row[call[r].on] = "deleted"
      PROVE  LoopInv(r)' /\ SeenInv(r)' /\ DoneInv(r)'
  <2>1. /\ step'[r] = "done" /\ answer'[r] = a
        /\ UNCHANGED <<users, organizations, owner, row, org_of, call, slug, tries>>
    BY <1>0, <1>4 DEF RollBack, Goto, TypeOK, tables
  <2>2. LoopInv(r)'
    BY <2>1 DEF LoopInv
  <2>3. SeenInv(r)'
    BY <1>4, <2>1 DEF SeenInv, Open, Verifying, Member, Domain
  <2>4. DoneInv(r)'
    BY <1>4, <2>1 DEF DoneInv
  <2> QED BY <2>2, <2>3, <2>4
<1>5. CASE InsertUserFails(r)
  BY <1>4, <1>5 DEF InsertUserFails, Answers
(* An answer that is yet to be committed.                                  *)
<1>6. ASSUME NEW a, Reply(r, a), step[r] \in Open,
             UNCHANGED <<tables, call, slug, tries, newUser>>,
             a \in {"served", "created", "verified", "already_verified", "not_verified"},
             a = "created" => r \in newOrg',
             a = "served" /\ call[r].op = "list_rows" => Member(r, call[r].on),
             a \in {"verified", "already_verified", "not_verified"} => Verifying(r),
             a = "verified" => call[r].uid \in witness'[call[r].on],
             a = "already_verified" => row[call[r].on] = "verified"
      PROVE  LoopInv(r)' /\ SeenInv(r)' /\ DoneInv(r)'
  <2>1. /\ step'[r] = "commit" /\ answer'[r] = a
        /\ UNCHANGED <<users, organizations, owner, row, org_of, call, newUser>>
    BY <1>0, <1>6 DEF Reply, Goto, TypeOK, tables
  <2>2. LoopInv(r)'
    BY <2>1 DEF LoopInv
  <2>3. SeenInv(r)'
    BY <1>0, <1>6, <2>1 DEF SeenInv, Open, Verifying, Member, Domain
  <2>4. DoneInv(r)'
    BY <1>6, <2>1 DEF DoneInv
  <2> QED BY <2>2, <2>3, <2>4
<1>7. CASE ReadMe(r)
  BY <1>6, <1>7 DEF ReadMe, Handles, Open
<1>8. CASE ListRows(r)
  <2>1. CASE Member(r, call[r].on)
    BY <1>6, <1>8, <2>1 DEF ListRows, Handles, Open
  <2>2. CASE ~Member(r, call[r].on)
    BY <1>4, <1>8, <2>2 DEF ListRows, Handles, Refuse, Answers
  <2> QED BY <2>1, <2>2
<1>9. CASE CheckSlug(r)
  <2>1. /\ step[r] = "handler" /\ call[r].op = "create_organization" /\ call[r].on \in Bases
        /\ UNCHANGED <<users, organizations, owner, call, newUser>> /\ tries[r] < SlugTries
    BY <1>0, <1>1, <1>9 DEF CheckSlug, Checks, Handles, LoopInv, tables
  <2>2. CASE NextSlug(r) \notin organizations
    <3>1. slug'[r] = NextSlug(r) /\ step'[r] = "insert_org" /\ tries'[r] = tries[r]
      BY <1>0, <1>9, <2>2 DEF CheckSlug, Goto, TypeOK
    <3> QED BY <1>0, <2>1, <3>1 DEF LoopInv, SeenInv, DoneInv, NextSlug, Open
  <2>3. CASE NextSlug(r) \in organizations
    <3>1. PICK x \in Suffixes : slug' = [slug EXCEPT ![r] = <<call[r].on, x>>]
      BY <1>9, <2>3 DEF CheckSlug
    <3>2. /\ slug'[r] \in Slugs /\ tries'[r] = tries[r] + 1
          /\ step'[r] = IF tries'[r] = SlugTries THEN "insert_org" ELSE "handler"
      BY <1>0, <1>9, <2>1, <2>3, <3>1 DEF CheckSlug, Goto, TypeOK, Slugs
    <3>3. <<call[r].on, NoSuffix>> \in organizations
      BY <1>0, <2>1, <2>3 DEF LoopInv, NextSlug
    <3> QED BY <1>0, <2>1, <3>2, <3>3 DEF LoopInv, SeenInv, DoneInv, Open
  <2> QED BY <2>2, <2>3
<1>10. CASE InsertOrg(r)
  <2>1. r \in newOrg'
    BY <1>10 DEF InsertOrg
  <2> QED BY <1>6, <1>10, <2>1 DEF InsertOrg, Open
<1>11. CASE InsertOrgFails(r)
  <2>1. /\ slug[r] \in Slugs /\ step[r] = "insert_org" /\ call[r].op = "create_organization"
        /\ UNCHANGED world
    BY <1>0, <1>11, SlugOf DEF InsertOrgFails, LoopInv
  <2>2. CASE TooLong(slug[r]) /\ RollBack(r, "too_long")
    <3>1. tries[r] = 0 => call[r].on \in LongBases
      BY <1>0, <2>1, <2>2 DEF LoopInv, TooLong
    <3>2. tries[r] > 0 => <<call[r].on, NoSuffix>> \in organizations
      BY <1>0, <2>1 DEF LoopInv
    <3> QED BY <1>0, <1>4, <2>1, <2>2, <3>1, <3>2 DEF Answers
  <2>3. CASE slug[r] \in organizations /\ RollBack(r, "slug_taken")
    BY <1>4, <2>1, <2>3 DEF Answers
  <2> QED BY <1>11, <2>2, <2>3 DEF InsertOrgFails
<1>12. CASE RegisterDomain(r)
  BY <1>4, <1>12 DEF RegisterDomain, Handles, Refuse, Answers
<1>13. CASE VerifyDomain(r)
  <2>1. step[r] = "handler" /\ call[r].op = "verify_domain"
    BY <1>13 DEF VerifyDomain, Handles
  <2>2. CASE Refuse(r, "not_found") \/ Refuse(r, "forbidden")
    BY <1>4, <2>1, <2>2 DEF Refuse, Answers
  <2>3. CASE /\ row[call[r].on] = "verified" /\ Member(r, org_of[call[r].on])
             /\ Reply(r, "already_verified")
             /\ UNCHANGED <<tables, world, call, slug, tries, newUser, newOrg>>
    BY <1>6, <2>1, <2>3 DEF Verifying, Domain, Open
  <2>4. CASE /\ row[call[r].on] = "unverified" /\ Member(r, org_of[call[r].on])
             /\ Goto(r, "lookup")
             /\ UNCHANGED <<tables, world, call, slug, tries, newUser, newOrg, answer>>
    <3>1. /\ step'[r] = "lookup"
          /\ UNCHANGED <<users, organizations, owner, row, org_of, call, newUser>>
      BY <1>0, <2>4 DEF Goto, TypeOK, tables
    <3>2. Verifying(r) /\ (call[r].uid \in users \/ r \in newUser)
      BY <1>0, <2>1, <2>4 DEF Verifying, Domain, SeenInv, Open
    <3> QED BY <3>1, <3>2 DEF LoopInv, SeenInv, DoneInv, Verifying, Member, Domain, Open
  <2> QED BY <1>13, <2>2, <2>3, <2>4 DEF VerifyDomain
<1>14. CASE LookUpChallenge(r)
  <2>1. step[r] = "lookup" /\ Verifying(r) /\ call[r].on \in Domains
    BY <1>0, <1>1, <1>14 DEF LookUpChallenge, SeenInv, Verifying
  <2>2. CASE /\ witness' = [witness EXCEPT ![call[r].on] = @ \cup {call[r].uid}]
             /\ Reply(r, "verified")
    <3>1. call[r].uid \in witness'[call[r].on]
      BY <1>0, <2>1, <2>2 DEF TypeOK
    <3> QED BY <1>6, <1>14, <2>1, <2>2, <3>1 DEF LookUpChallenge, Open
  <2>3. CASE Reply(r, "not_verified")
    BY <1>6, <1>14, <2>1, <2>3 DEF LookUpChallenge, Open
  <2> QED BY <1>14, <2>2, <2>3 DEF LookUpChallenge
<1>15. CASE Commit(r)
  <2>1. /\ step[r] = "commit" /\ step'[r] = "done"
        /\ UNCHANGED <<org_of, witness, call, slug, tries, answer>>
    BY <1>0, <1>15 DEF Commit, Ended, Goto, TypeOK, world
  <2>2. call[r].uid \in users'
    BY <1>0, <1>15, <2>1 DEF Commit, SeenInv, Open
  <2>3. answer[r] = "created" => slug[r] \in organizations' /\ owner'[slug[r]] = call[r].uid
    BY <1>0, <1>15, <2>1 DEF Commit, DoneInv, KeyInv, TypeOK
  <2>4. Verifying(r) => call[r].on \in Domains /\ Verifying(r)'
    BY <1>0, <1>1, <2>1 DEF Verifying, Grows, TableInv, Member, Domain
  <2>5. answer[r] = "verified" => row'[call[r].on] = "verified"
    BY <1>0, <1>15, <2>1, <2>4 DEF Commit, SeenInv, Verifies, Verifying, TypeOK
  <2>6. LoopInv(r)'
    BY <2>1 DEF LoopInv
  <2>7. call[r].on \in Slugs /\ Member(r, call[r].on) => Member(r, call[r].on)'
    BY <1>1, <2>1 DEF Member, Grows
  <2>8. SeenInv(r)'
    <3>1. /\ answer[r] = "served" /\ call[r].op = "list_rows" => Member(r, call[r].on)'
          /\ answer[r] = "invalid_response" =>
               call[r].op = "register_domain" /\ Member(r, call[r].on)'
      BY <1>0, <1>1, <2>1, <2>7 DEF SeenInv
    <3>2. /\ answer[r] \in {"verified", "already_verified", "not_verified", "row_gone"}
               => Verifying(r)'
          /\ answer[r] = "verified" => call[r].uid \in witness[Domain(r)]
          /\ answer[r] = "already_verified" => row'[Domain(r)] \in {"verified", "deleted"}
          /\ answer[r] = "row_gone" => row'[Domain(r)] = "deleted"
      BY <1>0, <2>1, <2>4 DEF SeenInv, Grows, Domain
    <3> QED BY <2>1, <3>1, <3>2 DEF SeenInv, Open, Member, Domain
  <2>9. DoneInv(r)'
    BY <1>0, <2>1, <2>2, <2>3, <2>5 DEF DoneInv, Domain
  <2> QED BY <2>6, <2>8, <2>9
<1>16. CASE CommitFails(r)
  BY <1>0, <1>4, <1>16 DEF CommitFails, Verifies, SeenInv, Answers
<1>17. CASE FailRequest(r)
  BY <1>4, <1>17 DEF FailRequest, Answers
<1> QED BY <1>2, <1>3, <1>5, <1>7, <1>8, <1>9, <1>10, <1>11, <1>12, <1>13, <1>14, <1>15, <1>16,
           <1>17 DEF StepOf, Proceed
(* The invariant holds at first.                                           *)
LEMMA TenancyInit ==
  ASSUME TenancyAssumption, Init
  PROVE  TenancyInv
<1>0. SlugTries \in Nat /\ SlugTries > 0
  BY DEF TenancyAssumption
<1>1. TypeOK
  BY <1>0 DEF Init, TypeOK, Steps
<1>2. KeyInv /\ TableInv
  BY DEF Init, KeyInv, TableInv
<1>3. RequestInv
  BY <1>0 DEF Init, RequestInv, LoopInv, SeenInv, DoneInv, Open
<1>4. Distinct
  BY DEF Init, Distinct, Answered
<1> QED BY <1>1, <1>2, <1>3, <1>4 DEF TenancyInv

(* Every step keeps the invariant.                                         *)
LEMMA TenancyStep ==
  ASSUME TenancyAssumption, TenancyInv, [Next]_vars
  PROVE  TenancyInv'
<1>0. TypeOK /\ KeyInv /\ TableInv /\ RequestInv /\ Distinct /\ Grows
  BY TablesGrow DEF TenancyInv
<1>1. RequestInv'
  <2>1. SUFFICES ASSUME NEW q \in Requests
                 PROVE  LoopInv(q)' /\ SeenInv(q)' /\ DoneInv(q)'
    BY DEF RequestInv
  <2>2. CASE Same(q)
    BY <1>0, <2>2, Undisturbed DEF RequestInv
  <2>3. CASE StepOf(q)
    BY <1>0, <2>3, OwnStep
  <2>4. Idle => Same(q)
    BY DEF Idle, sessions, Same
  <2> QED BY <1>0, <2>2, <2>3, <2>4, StepsOfNext, OthersSame
<1>2. Distinct'
  <2>1. CASE Idle
    BY <1>0, <2>1 DEF Distinct, Answered, Idle, sessions
  <2>2. ASSUME NEW r \in Requests, StepOf(r)
        PROVE  Distinct'
    <3>1. \A q \in Requests \ {r} : Same(q)
      BY <1>0, <2>2, OthersSame
    (* An organization that was promised to somebody is committed, that of *)
    (* an open session is not yet.                                         *)
    <3>2. Answered(r, {"created"})' =>
            \A q \in Requests \ {r} : Answered(q, {"created"}) => slug[q] # slug'[r]
      <4>1. CASE Commit(r)
        <5>1. answer'[r] = "created" => slug'[r] = slug[r] /\ slug[r] \notin organizations
          BY <1>0, <4>1 DEF Commit, Ended, RequestInv, DoneInv, KeyInv
        <5>2. \A q \in Requests : Answered(q, {"created"}) => slug[q] \in organizations
          BY <1>0 DEF RequestInv, DoneInv, Answered
        <5> QED BY <5>1, <5>2 DEF Answered
      <4>2. CASE step'[r] # "done" \/ answer'[r] # "created"
        BY <4>2 DEF Answered
      <4>3. CASE Fails(r)
        <5>1. answer'[r] # "created"
          BY <1>0, <4>3 DEF Fails, RollBack, TypeOK
        <5> QED BY <4>2, <5>1
      <4>4. ASSUME Works(r) \/ InsertUser(r) \/ InsertOrg(r) \/ \E u \in Uids : Receive(r, u)
            PROVE  step'[r] # "done"
        BY <1>0, <4>4 DEF Works, Open, InsertUser, InsertOrg, Receive, Reply, Goto, TypeOK
      <4> QED BY <1>0, <2>2, <4>1, <4>2, <4>3, <4>4, KindsOfStep
    <3> QED BY <1>0, <3>1, <3>2 DEF Distinct, Answered, Same
  <2> QED BY <2>1, <2>2, StepsOfNext
<1> QED BY <1>0, <1>1, <1>2, TypeStep, KeyStep, TableStep DEF TenancyInv
(* The invariant holds in every state: keys are held once, what requests   *)
(* have seen stays true, and committed rows belong together.               *)
THEOREM TenancyInvariant == Spec => []TenancyInv
<1>1. Init => TenancyInv
  BY TenancyInit, TenancyAssumption
<1>2. TenancyInv /\ [Next]_vars => TenancyInv'
  BY TenancyStep, TenancyAssumption
<1> QED BY <1>1, <1>2, PTL DEF Spec

(* Every variable has its type.                                            *)
THEOREM TypeCorrect == Spec => []TypeOK
<1>1. TenancyInv => TypeOK
  BY DEF TenancyInv
<1> QED BY <1>1, TenancyInvariant, PTL

-----------------------------------------------------------------------------
(* What requests answer.                                                   *)

(* get_session commits before the answer is sent, and unique constraints   *)
(* keep two sessions from committing one key: what an answer promises is   *)
(* committed, and promised once.                                           *)
THEOREM AnswersAreKept == Spec => []AnswersAreCommitted
<1>1. TenancyInv => AnswersAreCommitted
  BY DEF TenancyInv, RequestInv, DoneInv, SeenInv, AnswersAreCommitted, Answered, Distinct, Domain
<1> QED BY <1>1, TenancyInvariant, PTL

(* The unique constraints and the length of a slug fail a request only for *)
(* what others have committed.                                             *)
THEOREM FailuresAreExplained == Spec => []FailuresHaveCauses
<1>1. TenancyInv => FailuresHaveCauses
  BY DEF TenancyInv, RequestInv, DoneInv, SeenInv, FailuresHaveCauses, Answered, Domain
<1> QED BY <1>1, TenancyInvariant, PTL

(* require_membership scopes every answer to the members of the            *)
(* organization it is about, whatever is committed between its check and   *)
(* the answer.                                                             *)
THEOREM AnswersAreScoped == Spec => []ScopedToMembers
<1>1. TenancyInv => ScopedToMembers
  BY DEF TenancyInv, RequestInv, SeenInv, ScopedToMembers, Answered, Verifying, Member, Domain
<1> QED BY <1>1, TenancyInvariant, PTL

(* verify_domain marks a domain only when a member of its organization has *)
(* seen the token in its zone, and no later step takes that back.          *)
THEOREM MembersVerify == Spec => []VerifiedByMember
<1>1. TenancyInv => VerifiedByMember
  BY DEF TenancyInv, TableInv, VerifiedByMember
<1> QED BY <1>1, TenancyInvariant, PTL

-----------------------------------------------------------------------------
(* Waiting.                                                                *)

(* Who holds the key of an organization is about to commit; whoever waits  *)
(* for the key of a user holds none.  So the longest wait is for one who   *)
(* waits for one who waits for nobody.                                     *)
LEMMA WaitsEnd ==
  ASSUME KeyInv, NEW q, NEW r, NEW p, NEW o,
         WaitsFor(q, r), WaitsFor(r, p), WaitsFor(p, o)
  PROVE  FALSE
<1>1. ASSUME NEW a \in newOrg, NEW b, WaitsFor(a, b) PROVE FALSE
  BY <1>1 DEF KeyInv, WaitsFor
<1>2. ASSUME NEW a \in newUser, NEW b, WaitsFor(a, b) PROVE b \in newOrg
  BY <1>2 DEF KeyInv, WaitsFor, Open
<1>3. r \in newUser \/ r \in newOrg
  BY DEF WaitsFor
<1> QED BY <1>1, <1>2, <1>3

(* The unique keys of users and organizations never make sessions wait for *)
(* each other in a circle, however many requests there are.                *)
THEOREM NoDeadlock == Spec => []NoCircularWait
<1>1. TenancyInv => NoCircularWait
  <2> SUFFICES ASSUME KeyInv, NEW C \in SUBSET Requests,
                      \A q \in C : \E r \in C : WaitsFor(q, r),
                      C # {}
               PROVE  FALSE
    BY DEF TenancyInv, NoCircularWait
  <2>1. PICK q \in C : TRUE
    OBVIOUS
  <2>2. PICK r \in C : WaitsFor(q, r)
    OBVIOUS
  <2>3. PICK p \in C : WaitsFor(r, p)
    OBVIOUS
  <2>4. PICK o \in C : WaitsFor(p, o)
    OBVIOUS
  <2> QED BY <2>2, <2>3, <2>4, WaitsEnd
<1> QED BY <1>1, TenancyInvariant, PTL

-----------------------------------------------------------------------------
(* Refinement.                                                             *)

(* Only a commit changes users, organizations and memberships, and it adds *)
(* an account, or an organization with its owner, or both at once.         *)
THEOREM TenancyImplementsAccounts == Spec => AccountsSpec
<1>1. Init => Committed!AccountsInit
  BY DEF Init, Committed!AccountsInit
<1>2. TenancyInv /\ [Next]_vars => [Committed!AccountsNext]_Committed!accountVars
  <2>1. SUFFICES ASSUME TenancyInv, [Next]_vars, ~UNCHANGED <<users, organizations, owner>>
                 PROVE  Committed!AccountsNext
    BY DEF Committed!accountVars
  <2>2. PICK r \in Requests : Commit(r)
    <3>1. \E r \in Requests : StepOf(r)
      BY <2>1, StepsOfNext DEF Idle
    <3>2. PICK r \in Requests : StepOf(r)
      BY <3>1
    <3>3. TypeOK
      BY <2>1 DEF TenancyInv
    <3>4. CASE Works(r) \/ Fails(r) \/ InsertUser(r) \/ InsertOrg(r)
                 \/ \E u \in Uids : Receive(r, u)
      BY <2>1, <3>4 DEF Works, Fails, RollBack, InsertUser, InsertOrg, Receive, tables
    <3> QED BY <3>2, <3>3, <3>4, KindsOfStep
  <2>3. step[r] = "commit" /\ TypeOK /\ KeyInv
    BY <2>1, <2>2 DEF Commit, TenancyInv
  <2>4. call[r].uid \in Uids
    BY <2>3, CallOf, TenancyAssumption
  <2>5. r \in newUser => /\ call[r].uid \notin users
                         /\ users' = users \cup {call[r].uid}
    BY <2>2, <2>3 DEF Commit, KeyInv
  <2>6. r \notin newUser => users' = users /\ call[r].uid \in users
    BY <2>1, <2>2, <2>3 DEF Commit, TenancyInv, RequestInv, SeenInv, Open
  <2>7. CASE r \in newOrg
    <3>1. /\ slug[r] \in Slugs /\ slug[r] \notin organizations
          /\ organizations' = organizations \cup {slug[r]}
          /\ owner' = [owner EXCEPT ![slug[r]] = call[r].uid]
      BY <2>2, <2>3, <2>7 DEF Commit, KeyInv
    <3>2. Committed!Found(call[r].uid, slug[r])
      BY <2>5, <2>6, <3>1 DEF Committed!Found, Committed!SignUp
    <3> QED BY <2>4, <3>1, <3>2 DEF Committed!AccountsNext
  <2>8. CASE r \notin newOrg
    <3>1. UNCHANGED <<organizations, owner>>
      BY <2>2, <2>8 DEF Commit
    <3>2. Committed!SignUp(call[r].uid)
      BY <2>1, <2>5, <2>6, <3>1 DEF Committed!SignUp
    <3> QED BY <2>4, <3>1, <3>2 DEF Committed!AccountsNext
  <2> QED BY <2>7, <2>8
<1> QED BY <1>1, <1>2, TenancyInvariant, PTL DEF Spec, AccountsSpec, Committed!AccountsSpec
=============================================================================
