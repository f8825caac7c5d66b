-------------------------- MODULE ScanQueue_proofs --------------------------
(***************************************************************************)
(* Proofs about ScanQueue, for any number of domains, scans, handler       *)
(* threads, failures and crashes.  QueueInv is the inductive invariant:    *)
(* the safety properties of the drain only hold because of what SessionInv *)
(* says of the drain's open session.                                       *)
(***************************************************************************)
EXTENDS ScanQueue, FiniteSetTheorems, TLAPS

QueueInv == TypeOK /\ SessionInv /\ NeverStuckRunning /\ SettledOnce

-----------------------------------------------------------------------------
(* Facts about the operators.                                              *)

(* The rows of the table are finitely many.                                *)
LEMMA RowsFinite == IsFiniteSet(Rows) /\ Cardinality(Rows) \in Nat
  BY QueueAssumption, FS_Subset, FS_CardinalityType DEF Rows

(* Who may enqueue is a finite set, and so is who waits to commit.         *)
LEMMA EnqueuersFinite == IsFiniteSet(Enqueuers) /\ Cardinality(Enqueuers) \in Nat
<1>1. IsFiniteSet({Scheduler}) /\ IsFiniteSet({})
  BY FS_Singleton, FS_EmptySet
<1>2. IsFiniteSet(Enqueuers)
  BY <1>1, QueueAssumption, FS_Union DEF Enqueuers
<1> QED BY <1>2, FS_CardinalityType

(* What InsertRows does to the table: each insert of P becomes a queued    *)
(* row under a fresh identifier of its own, and no other row changes.      *)
LEMMA InsertRowsEffect ==
  ASSUME TypeOK, NEW P, P \subseteq Insert, InsertRows(P)
  PROVE  \E id \in [P -> Scans \ Rows] :
           /\ \A s \in Scans :
                status'[s] = IF s \in {id[p] : p \in P} THEN "queued" ELSE status[s]
           /\ \A p \in P : /\ domain_id'[id[p]] = p.domain
                           /\ scan_type'[id[p]] = p.type
           /\ \A s \in Scans \ {id[p] : p \in P} :
                /\ domain_id'[s] = domain_id[s]
                /\ scan_type'[s] = scan_type[s]
                /\ created_at'[s] = created_at[s]
           /\ status' \in [Scans -> {"absent"} \cup Active \cup Terminal]
           /\ domain_id' \in [Scans -> Domains \cup {NoDomain}]
           /\ scan_type' \in [Scans -> ScanTypes]
           /\ created_at' \in [Scans -> Nat]
           /\ UNCHANGED <<error, settled, skipped>>
<1>1. PICK id \in [P -> Scans \ Rows] :
        /\ \A p, q \in P : p # q => id[p] # id[q]
        /\ LET rowOf(s) == CHOOSE p \in P : id[p] = s
               new == {id[p] : p \in P}
           IN  /\ status' = [s \in Scans |-> IF s \in new THEN "queued" ELSE status[s]]
               /\ domain_id' = [s \in Scans |->
                    IF s \in new THEN rowOf(s).domain ELSE domain_id[s]]
               /\ scan_type' = [s \in Scans |->
                    IF s \in new THEN rowOf(s).type ELSE scan_type[s]]
               /\ created_at' = [s \in Scans |->
                    IF s \in new THEN rowOf(s).since ELSE created_at[s]]
        /\ UNCHANGED <<error, settled, skipped>>
  BY DEF InsertRows
<1> DEFINE rowOf(s) == CHOOSE p \in P : id[p] = s
           new == {id[p] : p \in P}
<1>2. \A s \in new : rowOf(s) \in P /\ id[rowOf(s)] = s
  OBVIOUS
<1>3. \A p \in P : id[p] \in new /\ rowOf(id[p]) = p
  BY <1>1, <1>2
<1>4. \A s \in new : /\ rowOf(s).domain \in Domains
                     /\ rowOf(s).type \in ScanTypes
                     /\ rowOf(s).since \in Nat
  BY <1>2 DEF Insert
<1>5. new \subseteq Scans
  OBVIOUS
<1>6. /\ status' = [s \in Scans |-> IF s \in new THEN "queued" ELSE status[s]]
      /\ domain_id' = [s \in Scans |->
           IF s \in new THEN rowOf(s).domain ELSE domain_id[s]]
      /\ scan_type' = [s \in Scans |->
           IF s \in new THEN rowOf(s).type ELSE scan_type[s]]
      /\ created_at' = [s \in Scans |->
           IF s \in new THEN rowOf(s).since ELSE created_at[s]]
  BY <1>1
<1> HIDE DEF rowOf, new
<1>7. \A s \in Scans : status'[s] = IF s \in new THEN "queued" ELSE status[s]
  BY <1>6
<1>8. \A p \in P : domain_id'[id[p]] = p.domain /\ scan_type'[id[p]] = p.type
  BY <1>3, <1>5, <1>6
<1>9. \A s \in Scans \ new : /\ domain_id'[s] = domain_id[s]
                             /\ scan_type'[s] = scan_type[s]
                             /\ created_at'[s] = created_at[s]
  BY <1>6
<1>10. /\ status' \in [Scans -> {"absent"} \cup Active \cup Terminal]
       /\ domain_id' \in [Scans -> Domains \cup {NoDomain}]
       /\ scan_type' \in [Scans -> ScanTypes]
       /\ created_at' \in [Scans -> Nat]
  BY <1>4, <1>6 DEF TypeOK, Active
<1> QED BY <1>1, <1>7, <1>8, <1>9, <1>10 DEF new

-----------------------------------------------------------------------------
(* The initial states.                                                     *)
LEMMA QueueInit == Init => QueueInv
  BY QueueAssumption DEF Init, QueueInv, TypeOK, SessionInv, NeverStuckRunning, SettledOnce,
         Outcome, Terminal, Active, Queued
-----------------------------------------------------------------------------
(* Every step preserves QueueInv.                                          *)
LEMMA EnvironmentPreserves == QueueInv /\ Environment => QueueInv'
<1> SUFFICES ASSUME QueueInv, Environment PROVE QueueInv'
  OBVIOUS
<1> USE DEF QueueInv, NeverStuckRunning, SettledOnce
<1>1. CASE DatabaseFailure
  BY <1>1, QueueAssumption DEF DatabaseFailure, EmptySession, TypeOK, SessionInv, enqueueing, session, rows,
     Outcome, Queued, Pending
<1>2. CASE Crash
  BY <1>2, QueueAssumption DEF Crash, EmptySession, TypeOK, SessionInv, rows, Outcome, Queued
<1>3. ASSUME NEW d \in Domains, DeleteDomain(d) PROVE QueueInv'
  BY <1>3, QueueAssumption DEF DeleteDomain, TypeOK, SessionInv, enqueueing, session, Queued
<1>4. ASSUME NEW d \in Domains, UnverifyDomain(d) PROVE QueueInv'
  BY <1>4, QueueAssumption DEF UnverifyDomain, TypeOK, SessionInv, enqueueing, session, rows, Queued
<1> QED BY <1>1, <1>2, <1>3, <1>4 DEF Environment

(* No step of a request breaks the invariant.                              *)
LEMMA ApiPreserves == QueueInv /\ Api => QueueInv'
<1> SUFFICES ASSUME QueueInv, Api PROVE QueueInv'
  OBVIOUS
<1> USE DEF QueueInv, NeverStuckRunning, SettledOnce
<1>1. ASSUME NEW d \in Domains, VerifyDomain(d) PROVE QueueInv'
  BY <1>1 DEF VerifyDomain, TypeOK, SessionInv, enqueueing, session, rows, Queued
<1>2. ASSUME NEW r \in Requests, NEW d \in Domains, NEW t \in ScanTypes,
             RequestScan(r, d, t)
      PROVE  QueueInv'
  BY <1>2, RowsFinite DEF RequestScan, AddScan, TypeOK, SessionInv, session, rows,
     Queued, Insert, Enqueuers
<1>3. ASSUME NEW r \in Requests, CommitRequest(r) PROVE QueueInv'
  <2>1. Pending(r) \subseteq Insert
    BY DEF Pending, TypeOK
  <2> QED BY <1>3, <2>1, InsertRowsEffect DEF CommitRequest, TypeOK, SessionInv, session, 
     Queued, Rows, Active, Terminal
<1>4. ASSUME NEW r \in Requests, RejectRequest(r) PROVE QueueInv'
  BY <1>4 DEF RejectRequest, TypeOK, SessionInv, session, rows, Queued, Pending
<1> QED BY <1>1, <1>2, <1>3, <1>4 DEF Api

(* No step of the scheduler job breaks the invariant.                      *)
LEMMA EnqueueJobPreserves == QueueInv /\ EnqueueJob => QueueInv'
<1> SUFFICES ASSUME QueueInv, EnqueueJob PROVE QueueInv'
  OBVIOUS
<1> USE DEF QueueInv, NeverStuckRunning, SettledOnce
<1>1. CASE SelectDomains
  BY <1>1, RowsFinite DEF SelectDomains, TypeOK, SessionInv, session, rows, Queued
<1>2. ASSUME NEW c \in candidates, ConsiderDomain(c) PROVE QueueInv'
  BY <1>2, QueueAssumption DEF ConsiderDomain, TypeOK, SessionInv, session, rows, Queued, Insert
<1>3. CASE CommitSchedule
  <2>1. Pending(Scheduler) \subseteq Insert
    BY DEF Pending, TypeOK
  <2> QED BY <1>3, <2>1, InsertRowsEffect DEF CommitSchedule, TypeOK, SessionInv, session,
          Queued, Rows, Active, Terminal
<1>4. CASE RejectSchedule
  BY <1>4 DEF RejectSchedule, TypeOK, SessionInv, session, rows, Queued, Pending
<1> QED BY <1>1, <1>2, <1>3, <1>4 DEF EnqueueJob

(* No step of the drain job breaks the invariant.                          *)
LEMMA DrainJobPreserves == QueueInv /\ DrainJob => QueueInv'
<1> SUFFICES ASSUME QueueInv, DrainJob PROVE QueueInv'
  OBVIOUS
<1> USE DEF QueueInv, NeverStuckRunning, SettledOnce
<1>1. CASE PollEmptyQueue
  BY <1>1 DEF PollEmptyQueue, TypeOK, SessionInv, vars, session, rows, enqueueing, Queued
<1>2. CASE SelectBatch
  BY <1>2 DEF SelectBatch, Load, Limited, TypeOK, SessionInv, rows, enqueueing, Queued
<1>3. ASSUME NEW s \in Scans, ExecuteScan(s) PROVE QueueInv'
  <2>1. ASSUME NEW why \in {"missing_domain_id", "domain_not_found", "domain_not_verified"},
               TurnAway(s, why)
        PROVE  QueueInv'
    BY <2>1 DEF TurnAway, IsNext, TypeOK, SessionInv, rows, enqueueing, Queued, Outcome, Terminal
  <2>2. CASE BeginPasses(s)
    BY <2>2, QueueAssumption DEF BeginPasses, IsNext, TypeOK, SessionInv, rows, enqueueing, Queued, Outcome
  <2> QED BY <1>3, <2>1, <2>2 DEF ExecuteScan, MissingDomain, DomainNotFound, DomainNotVerified
<1>4. CASE StageRows
  BY <1>4 DEF StageRows, TypeOK, SessionInv, rows, enqueueing, Queued
<1>5. CASE FlushRows
  BY <1>5 DEF FlushRows, TypeOK, SessionInv, rows, enqueueing, Queued
<1>6. ASSUME NEW outcome \in Outcome, outcome.status \in Terminal, PassesEnd(outcome)
      PROVE  QueueInv'
  BY <1>6, QueueAssumption DEF PassesEnd, TypeOK, SessionInv, rows, enqueueing, Queued, Outcome
<1>7. CASE PassesReturn
  BY <1>6, <1>7 DEF PassesReturn, LoadedScanTypeHasValue, Outcome, Terminal
<1>8. CASE PassesRaise
  BY <1>6, <1>8 DEF PassesRaise, Outcome, Terminal
<1>9. CASE CommitBatch
  <2>1. \A s \in batch : /\ s \in Scans /\ status[s] = "queued"
                         /\ verdict[s] \in Outcome /\ verdict[s].status \in Terminal
    BY <1>9, QueueAssumption DEF CommitBatch, TypeOK, SessionInv, Queued
  <2>2. /\ status' \in [Scans -> {"absent"} \cup Active \cup Terminal]
        /\ error' \in [Scans -> {"none", "missing_domain_id", "domain_not_found",
                               "domain_not_verified", "attribute_error", "pass_raised"}]
        /\ settled' \in [Scans -> Nat] /\ skipped' \in [Scans -> Nat]
    BY <1>9, <2>1 DEF CommitBatch, PublishBatch, TypeOK, Outcome
  <2>3. TypeOK'
    BY <1>9, <2>2 DEF CommitBatch, PublishBatch, EmptySession, TypeOK, enqueueing, Outcome
  <2>4. SessionInv'
    BY <1>9 DEF CommitBatch, PublishBatch, EmptySession, SessionInv
  <2>5. NeverStuckRunning' /\ SettledOnce'
    BY <1>9, <2>1 DEF CommitBatch, PublishBatch, TypeOK, Terminal
  <2> QED BY <2>3, <2>4, <2>5
<1>10. CASE RejectBatch
  BY <1>10 DEF RejectBatch, EmptySession, TypeOK, SessionInv, rows, enqueueing, Queued, Outcome
<1> QED BY <1>1, <1>2, <1>3, <1>4, <1>5, <1>7, <1>8, <1>9, <1>10 DEF DrainJob

(* The invariant is inductive.                                             *)
LEMMA QueueStep == QueueInv /\ [Next]_vars => QueueInv'
<1> SUFFICES ASSUME QueueInv, [Next]_vars PROVE QueueInv'
  OBVIOUS
<1>1. CASE UNCHANGED vars
  BY <1>1 DEF QueueInv, NeverStuckRunning, SettledOnce, TypeOK, SessionInv, vars, session,
     rows, enqueueing, Queued
<1> QED BY <1>1, ApiPreserves, EnqueueJobPreserves, DrainJobPreserves, EnvironmentPreserves
        DEF Next

(* The invariant of the queue, for every number of domains, scans, handler *)
(* threads, failures and crashes.                                          *)
THEOREM QueueInvariant == Spec => []QueueInv
  BY QueueInit, QueueStep, PTL DEF Spec

(* Every variable keeps its type.                                          *)
THEOREM TypeCorrect == Spec => []TypeOK
  BY QueueInvariant, PTL DEF QueueInv

(* The session of the drain agrees with what is committed: the scans it    *)
(* works on are still queued there, whatever other transactions did since  *)
(* it loaded them.                                                         *)
THEOREM SessionIsConsistent == Spec => []SessionInv
  BY QueueInvariant, PTL DEF QueueInv

(* No crash, failed transaction or deleted domain leaves a scan committed  *)
(* as running.                                                             *)
THEOREM NoScanStuckRunning == Spec => []NeverStuckRunning
  BY QueueInvariant, PTL DEF QueueInv

(* The outcome of a scan is committed exactly once.                        *)
THEOREM EachScanSettledOnce == Spec => []SettledOnce
  BY QueueInvariant, PTL DEF QueueInv

-----------------------------------------------------------------------------
(* What a client can see of a step: nothing, rows that a transaction       *)
(* inserts, or the outcomes of a batch.                                    *)
LEMMA VisibleSteps ==
  ASSUME QueueInv, [Next]_vars
  PROVE  \/ UNCHANGED <<status, created_at, error, settled, skipped>>
         \/ \E e \in Requests \cup {Scheduler} :
              Pending(e) # {} /\ Pending(e) \subseteq Insert /\ InsertRows(Pending(e))
         \/ CommitBatch
<1>1. CASE UNCHANGED vars
  BY <1>1 DEF vars, rows
<1>2. CASE Environment
  BY <1>2 DEF Environment, DatabaseFailure, Crash, DeleteDomain, UnverifyDomain, rows
<1>3. ASSUME NEW e \in Requests \cup {Scheduler} PROVE Pending(e) \subseteq Insert
  BY DEF QueueInv, TypeOK, Pending
<1>4. CASE Api
  BY <1>3, <1>4 DEF Api, VerifyDomain, RequestScan, AddScan, CommitRequest, RejectRequest, rows
<1>5. CASE EnqueueJob
  BY <1>3, <1>5 DEF EnqueueJob, SelectDomains, ConsiderDomain, CommitSchedule, RejectSchedule, rows
<1>6. CASE DrainJob
  <2>1. ASSUME NEW s \in Scans, ExecuteScan(s) PROVE UNCHANGED rows
    BY <2>1 DEF ExecuteScan, MissingDomain, DomainNotFound, DomainNotVerified, BeginPasses,
            TurnAway
  <2>2. CASE PassesReturn \/ PassesRaise
    BY <2>2 DEF PassesReturn, PassesRaise, PassesEnd, rows
  <2>3. CASE PollEmptyQueue \/ SelectBatch \/ StageRows \/ FlushRows \/ RejectBatch
    BY <2>3 DEF PollEmptyQueue, SelectBatch, Load, StageRows, FlushRows, RejectBatch, vars, rows
  <2> QED BY <1>6, <2>1, <2>2, <2>3 DEF DrainJob, rows
<1> QED BY <1>1, <1>2, <1>4, <1>5, <1>6 DEF Next

(* What a committed batch does to the rows: its queued scans become        *)
(* terminal and are settled once more, the others stay as they are.        *)
LEMMA BatchOutcome ==
  ASSUME QueueInv, CommitBatch
  PROVE  /\ \A s \in batch : /\ s \in Scans /\ status[s] = "queued"
                            /\ status'[s] \in Terminal /\ settled'[s] = settled[s] + 1
         /\ \A s \in Scans \ batch :
              status'[s] = status[s] /\ error'[s] = error[s] /\ settled'[s] = settled[s]
  BY QueueAssumption
     DEF QueueInv, CommitBatch, PublishBatch, TypeOK, SessionInv, Queued, Outcome, Terminal

(* The outcome of a settled scan never changes again, for clients or for   *)
(* the error recorded with it.                                             *)
THEOREM OutcomesAreFinal == Spec => OutcomeIsFinal
<1>1. QueueInv /\ [Next]_vars
        => [\A s \in Scans : status[s] \in Terminal =>
              status'[s] = status[s] /\ error'[s] = error[s]]_vars
  <2> SUFFICES ASSUME QueueInv, [Next]_vars, NEW s \in Scans, status[s] \in Terminal
               PROVE  status'[s] = status[s] /\ error'[s] = error[s]
    OBVIOUS
  <2>1. ASSUME NEW e \in Requests \cup {Scheduler},
               Pending(e) \subseteq Insert, InsertRows(Pending(e))
        PROVE  status'[s] = status[s] /\ error'[s] = error[s]
    <3>1. s \notin Scans \ Rows
      BY DEF Rows, Terminal
    <3> QED BY <2>1, <3>1, InsertRowsEffect DEF QueueInv
  <2>2. CASE CommitBatch
    BY <2>2, BatchOutcome DEF Terminal
  <2> QED BY <2>1, <2>2, VisibleSteps
<1> QED BY <1>1, QueueInvariant, PTL DEF Spec, OutcomeIsFinal

-----------------------------------------------------------------------------
(* Why scans are turned away.                                              *)

Domainless == {"missing_domain_id", "domain_not_found"}
TurnedAway == Domainless \cup {"domain_not_verified"}

(* Rows reference domains that exist, and what the drain loaded of its     *)
(* batch is still so, unless the domain was deleted meanwhile.             *)
CauseInv ==
  /\ \A s \in Scans : domain_id[s] # NoDomain => Alive(domain_id[s])
  /\ \A s \in Scans : status[s] = "absent" => error[s] = "none"
  /\ \A s \in batch : domain_id[s] = loaded[s] \/ domain_id[s] = NoDomain
  /\ \A s \in batch \ todo : verdict[s].error \in Domainless => domain_id[s] = NoDomain
  /\ DomainlessFailures

(* Until an operator intervenes every domain that anybody enqueues or has  *)
(* loaded a scan of stays verified.                                        *)
UnharmedInv ==
  outages = 0 =>
    /\ \A p \in inserts : domain[p.domain] = "verified"
    /\ \A c \in candidates : domain[c.domain] = "verified"
    /\ \A s \in Rows : domain_id[s] # NoDomain /\ domain[domain_id[s]] = "verified"
    /\ \A s \in batch : loaded[s] # NoDomain /\ domain[loaded[s]] = "verified"
    /\ \A s \in batch \ todo : verdict[s].error \notin TurnedAway
    /\ \A s \in Scans : error[s] \notin TurnedAway

ReasonInv == CauseInv /\ UnharmedInv

(* Inserting rows of verified or living domains keeps the reasons.         *)
LEMMA InsertKeepsReasons ==
  ASSUME QueueInv, ReasonInv, NEW e, Pending(e) \subseteq Insert, InsertRows(Pending(e)),
         \A p \in Pending(e) : Alive(p.domain),
         inserts' = inserts \ Pending(e),
         UNCHANGED <<domain, candidates, session, faults, outages>>
  PROVE  ReasonInv'
<1>1. PICK id \in [Pending(e) -> Scans \ Rows] :
        /\ \A s \in Scans :
             status'[s] = IF s \in {id[p] : p \in Pending(e)} THEN "queued" ELSE status[s]
        /\ \A p \in Pending(e) : domain_id'[id[p]] = p.domain
        /\ \A s \in Scans \ {id[p] : p \in Pending(e)} : domain_id'[s] = domain_id[s]
        /\ UNCHANGED <<error, settled, skipped>>
  BY InsertRowsEffect DEF QueueInv
<1> DEFINE new == {id[p] : p \in Pending(e)}
<1>2. new \subseteq Scans \ Rows /\ \A s \in new : \E p \in Pending(e) : domain_id'[s] = p.domain
  BY <1>1
<1>3. \A s \in new : error[s] = "none"
  BY <1>2 DEF ReasonInv, CauseInv, Rows
<1>4. batch \cap new = {}
  BY <1>2 DEF QueueInv, SessionInv, Queued, Rows
<1>5. \A s \in Scans : status'[s] = IF s \in new THEN "queued" ELSE status[s]
  BY <1>1
<1>6. \A s \in Scans \ new : domain_id'[s] = domain_id[s]
  BY <1>1
<1>7. batch \subseteq Scans /\ UNCHANGED <<batch, todo, loaded, verdict, domain, candidates,
                                          error, outages>>
  BY <1>1 DEF session, QueueInv, TypeOK
<1>8. \A p \in Pending(e) : p \in inserts
  BY DEF Pending
<1> HIDE DEF new
<1>9. CauseInv'
  <2>1. \A s \in Scans : domain_id'[s] # NoDomain => Alive(domain_id'[s])
    BY <1>2, <1>6 DEF ReasonInv, CauseInv, Alive
  <2>2. \A s \in Scans : status'[s] = "absent" => error'[s] = "none"
    BY <1>5, <1>7 DEF ReasonInv, CauseInv
  <2>3. \A s \in batch : domain_id'[s] = domain_id[s]
    BY <1>4, <1>6, <1>7
  <2>4. DomainlessFailures'
    BY <1>3, <1>6, <1>7 DEF ReasonInv, CauseInv, DomainlessFailures
  <2> QED BY <1>7, <2>1, <2>2, <2>3, <2>4 DEF ReasonInv, CauseInv, Alive
<1>10. UnharmedInv'
  <2>1. SUFFICES ASSUME outages = 0
                 PROVE  UnharmedInv'
    BY <1>7 DEF UnharmedInv
  <2>2. \A s \in new : domain_id'[s] # NoDomain /\ domain[domain_id'[s]] = "verified"
    BY <1>2, <1>8, <2>1, QueueAssumption DEF ReasonInv, UnharmedInv, Insert
  <2>3. \A s \in Rows' : s \in new \/ (s \in Rows /\ domain_id'[s] = domain_id[s])
    BY <1>5, <1>6 DEF Rows
  <2>4. \A s \in Rows' : domain_id'[s] # NoDomain /\ domain[domain_id'[s]] = "verified"
    BY <2>1, <2>2, <2>3 DEF ReasonInv, UnharmedInv
  <2> QED BY <1>7, <2>1, <2>4 DEF ReasonInv, UnharmedInv
<1> QED BY <1>9, <1>10 DEF ReasonInv

(* Other steps of the enqueuers keep them.                                 *)
LEMMA EnqueueingKeepsReasons ==
  ASSUME QueueInv, ReasonInv, Api \/ EnqueueJob
  PROVE  ReasonInv'
<1>0. TypeOK
  BY DEF QueueInv
<1>1. ASSUME NEW d \in Domains, VerifyDomain(d)
      PROVE  ReasonInv'
  <2>1. \A x : Alive(x) /\ x \in Domains => Alive(x)'
    BY <1>0, <1>1 DEF VerifyDomain, Alive, TypeOK
  <2>2. \A x \in Domains : domain[x] = "verified" => domain'[x] = "verified"
    BY <1>0, <1>1 DEF VerifyDomain, TypeOK
  <2>3. UNCHANGED <<rows, enqueueing, session, faults, outages>>
    BY <1>1 DEF VerifyDomain
  <2>4. CauseInv'
    BY <1>0, <2>1, <2>3 DEF ReasonInv, CauseInv, DomainlessFailures, rows, session, TypeOK
  <2>5. UnharmedInv'
    BY <1>0, <2>2, <2>3 DEF ReasonInv, UnharmedInv, rows, enqueueing, session, TypeOK, Insert,
       Rows
  <2> QED BY <2>4, <2>5 DEF ReasonInv
(* Steps that write nothing but what transactions are about to insert.     *)
<1>2. ASSUME UNCHANGED <<domain, rows, session, outages>>,
             outages = 0 => /\ \A p \in inserts' : domain[p.domain] = "verified"
                            /\ \A c \in candidates' : domain[c.domain] = "verified"
      PROVE  ReasonInv'
  <2>1. CauseInv'
    BY <1>2 DEF ReasonInv, CauseInv, DomainlessFailures, rows, session, Alive
  <2>2. UnharmedInv'
    BY <1>2 DEF ReasonInv, UnharmedInv, rows, session, Rows
  <2> QED BY <2>1, <2>2 DEF ReasonInv
<1>3. ASSUME NEW r \in Requests, NEW d \in Domains, NEW t \in ScanTypes, RequestScan(r, d, t)
      PROVE  ReasonInv'
  <2>1. \A p \in inserts' : p \in inserts \/ p.domain = d
    BY <1>3 DEF RequestScan, AddScan
  <2>2. domain[d] = "verified" /\ candidates' = candidates
    BY <1>3 DEF RequestScan, AddScan
  <2> QED BY <1>2, <1>3, <2>1, <2>2 DEF RequestScan, AddScan, ReasonInv, UnharmedInv
<1>4. ASSUME NEW r \in Requests, CommitRequest(r)
      PROVE  ReasonInv'
  BY <1>0, <1>4, InsertKeepsReasons DEF CommitRequest, TypeOK, Pending
<1>5. ASSUME NEW r \in Requests, RejectRequest(r)
      PROVE  ReasonInv'
  BY <1>2, <1>5 DEF RejectRequest, ReasonInv, UnharmedInv
<1>6. CASE SelectDomains
  <2>1. \A c \in candidates' : domain[c.domain] = "verified"
    BY <1>6 DEF SelectDomains
  <2> QED BY <1>2, <1>6, <2>1 DEF SelectDomains, ReasonInv, UnharmedInv
<1>7. ASSUME NEW c \in candidates, ConsiderDomain(c)
      PROVE  ReasonInv'
  <2>1. \A p \in inserts' : p \in inserts \/ p.domain = c.domain
    BY <1>7 DEF ConsiderDomain
  <2> QED BY <1>2, <1>7, <2>1 DEF ConsiderDomain, ReasonInv, UnharmedInv
<1>8. CASE CommitSchedule
  BY <1>0, <1>8, InsertKeepsReasons DEF CommitSchedule, TypeOK, Pending
<1>9. CASE RejectSchedule
  BY <1>2, <1>9 DEF RejectSchedule, ReasonInv, UnharmedInv
<1> QED BY <1>1, <1>3, <1>4, <1>5, <1>6, <1>7, <1>8, <1>9 DEF Api, EnqueueJob

(* Ending the drain's session without a commit keeps them.                 *)
LEMMA EmptySessionKeepsReasons ==
  ASSUME ReasonInv, EmptySession, inserts' \subseteq inserts, candidates' \subseteq candidates,
         UNCHANGED <<domain, rows, outages>>
  PROVE  ReasonInv'
<1>1. CauseInv'
  BY DEF ReasonInv, CauseInv, DomainlessFailures, rows, EmptySession, Alive
<1>2. UnharmedInv'
  BY DEF ReasonInv, UnharmedInv, rows, EmptySession, Rows
<1> QED BY <1>1, <1>2 DEF ReasonInv

(* The drain gives the reasons: it turns a scan away for what it finds.    *)
LEMMA DrainKeepsReasons ==
  ASSUME QueueInv, ReasonInv, DrainJob
  PROVE  ReasonInv'
<1>0. TypeOK /\ SessionInv
  BY DEF QueueInv
<1>1. CASE UNCHANGED <<domain, rows, enqueueing, batch, todo, loaded, verdict, outages>>
  <2>1. CauseInv'
    BY <1>1 DEF ReasonInv, CauseInv, DomainlessFailures, rows, Alive
  <2>2. UnharmedInv'
    BY <1>1 DEF ReasonInv, UnharmedInv, rows, enqueueing, Rows
  <2> QED BY <2>1, <2>2 DEF ReasonInv
<1>2. CASE SelectBatch
  <2>1. PICK B : Load(Queued, B) /\ B \subseteq Queued
    BY <1>2 DEF SelectBatch, Limited
  <2>2. /\ batch' \subseteq Rows /\ batch' \subseteq Scans /\ todo' = batch' /\ loaded' = domain_id
        /\ UNCHANGED <<domain, rows, enqueueing, outages>>
    BY <2>1 DEF Load, Queued, Rows
  <2>3. CauseInv'
    BY <2>2 DEF ReasonInv, CauseInv, DomainlessFailures, rows, Alive
  <2>4. UnharmedInv'
    BY <2>2 DEF ReasonInv, UnharmedInv, rows, enqueueing, Rows
  <2> QED BY <2>3, <2>4 DEF ReasonInv
(* A verdict that is true when it is given.                                *)
<1>3. ASSUME NEW s \in batch, NEW o \in Outcome,
             verdict' = [verdict EXCEPT ![s] = o],
             batch \ todo' \subseteq (batch \ todo) \cup {s},
             o.error \in Domainless => domain_id[s] = NoDomain,
             o.error \in TurnedAway => outages # 0,
             UNCHANGED <<domain, rows, enqueueing, batch, loaded, outages>>
      PROVE  ReasonInv'
  <2>1. \A u \in batch \ todo' :
          \/ u = s /\ verdict'[u] = o
          \/ u \in batch \ todo /\ verdict'[u] = verdict[u]
    BY <1>0, <1>3 DEF TypeOK
  <2>2. CauseInv'
    BY <1>3, <2>1 DEF ReasonInv, CauseInv, DomainlessFailures, rows, Alive
  <2>3. UnharmedInv'
    BY <1>3, <2>1 DEF ReasonInv, UnharmedInv, rows, enqueueing, Rows
  <2> QED BY <2>2, <2>3 DEF ReasonInv
<1>4. ASSUME NEW s \in Scans, ExecuteScan(s)
      PROVE  ReasonInv'
  <2>1. s \in todo /\ s \in batch
    BY <1>0, <1>4 DEF ExecuteScan, MissingDomain, DomainNotFound, DomainNotVerified, BeginPasses,
       TurnAway, IsNext, SessionInv
  <2>2. /\ loaded[s] = NoDomain => domain_id[s] = NoDomain
        /\ loaded[s] # NoDomain /\ ~Alive(loaded[s]) => domain_id[s] = NoDomain
        /\ outages = 0 => loaded[s] # NoDomain /\ domain[loaded[s]] = "verified"
    BY <1>0, <2>1 DEF ReasonInv, CauseInv, UnharmedInv, TypeOK
  <2>3. ASSUME NEW why \in TurnedAway, TurnAway(s, why),
               why \in Domainless => domain_id[s] = NoDomain, outages # 0
        PROVE  ReasonInv'
    <3> DEFINE o == [status |-> "failed", error |-> why]
    <3>1. o \in Outcome /\ o.error = why
      BY DEF Outcome, Terminal, TurnedAway, Domainless
    <3>2. /\ verdict' = [verdict EXCEPT ![s] = o] /\ todo' = todo \ {s}
          /\ UNCHANGED <<domain, rows, enqueueing, batch, loaded, outages>>
      BY <2>3 DEF TurnAway
    <3> HIDE DEF o
    <3> QED BY <1>3, <2>1, <2>3, <3>1, <3>2
  <2>4. CASE BeginPasses(s)
    <3> DEFINE o == [status |-> "running", error |-> "none"]
    <3>1. o \in Outcome /\ o.error \notin TurnedAway /\ o.error \notin Domainless
      BY DEF Outcome, TurnedAway, Domainless
    <3>2. /\ verdict' = [verdict EXCEPT ![s] = o] /\ todo' = todo \ {s}
          /\ UNCHANGED <<domain, rows, enqueueing, batch, loaded, outages>>
      BY <2>4 DEF BeginPasses
    <3> HIDE DEF o
    <3> QED BY <1>3, <2>1, <3>1, <3>2
  <2>5. CASE MissingDomain(s)
    BY <2>2, <2>3, <2>5 DEF MissingDomain, TurnedAway, Domainless
  <2>6. CASE DomainNotFound(s)
    BY <2>2, <2>3, <2>6 DEF DomainNotFound, TurnedAway, Domainless, Alive
  <2>7. CASE DomainNotVerified(s)
    BY <2>2, <2>3, <2>7 DEF DomainNotVerified, TurnedAway, Domainless
  <2> QED BY <1>4, <2>4, <2>5, <2>6, <2>7 DEF ExecuteScan
<1>5. ASSUME NEW o \in Outcome, o.error \in {"none", "attribute_error", "pass_raised"}, PassesEnd(o)
      PROVE  ReasonInv'
  <2>1. cur \in batch \ todo /\ o.error \notin TurnedAway /\ o.error \notin Domainless
    BY <1>0, <1>5 DEF PassesEnd, SessionInv, TurnedAway, Domainless
  <2> QED BY <1>3, <1>5, <2>1 DEF PassesEnd
<1>6. CASE PassesReturn \/ PassesRaise
  BY <1>5, <1>6 DEF PassesReturn, PassesRaise, LoadedScanTypeHasValue, Outcome, Terminal
<1>7. CASE CommitBatch
  <2>1. /\ batch \subseteq Scans /\ todo = {}
        /\ \A s \in batch : status[s] = "queued" /\ status'[s] \in Terminal
    BY <1>0, <1>7, BatchOutcome DEF CommitBatch, TypeOK
  <2>2. /\ \A s \in Scans : error'[s] = IF s \in batch THEN verdict[s].error ELSE error[s]
        /\ \A s \in Scans : status'[s] = IF s \in batch THEN verdict[s].status ELSE status[s]
        /\ batch' = {} /\ UNCHANGED <<domain, domain_id, enqueueing, outages>>
    BY <1>7 DEF CommitBatch, PublishBatch, EmptySession
  <2>3. CauseInv'
    BY <2>1, <2>2 DEF ReasonInv, CauseInv, DomainlessFailures, Domainless, Alive, Terminal
  <2>4. Rows' \subseteq Rows
    BY <2>1, <2>2 DEF Rows
  <2>5. UnharmedInv'
    BY <2>1, <2>2, <2>4 DEF ReasonInv, UnharmedInv, enqueueing
  <2> QED BY <2>3, <2>5 DEF ReasonInv
<1>8. CASE RejectBatch
  BY <1>8, EmptySessionKeepsReasons DEF RejectBatch, enqueueing
<1>9. CASE PollEmptyQueue \/ StageRows \/ FlushRows
  BY <1>1, <1>9 DEF PollEmptyQueue, StageRows, FlushRows, vars, session
<1> QED BY <1>2, <1>4, <1>6, <1>7, <1>8, <1>9 DEF DrainJob

(* A deletion clears the references to the domain, and ends the time       *)
(* without interventions.                                                  *)
LEMMA EnvironmentKeepsReasons ==
  ASSUME QueueInv, ReasonInv, Environment
  PROVE  ReasonInv'
<1>0. TypeOK
  BY DEF QueueInv
<1>1. CASE DatabaseFailure
  <2>1. /\ inserts' \subseteq inserts /\ candidates' \subseteq candidates
        /\ UNCHANGED <<domain, rows, outages>>
        /\ UNCHANGED session \/ EmptySession
    BY <1>1 DEF DatabaseFailure, enqueueing
  <2>2. CASE UNCHANGED session
    <3>1. CauseInv'
      BY <2>1, <2>2 DEF ReasonInv, CauseInv, DomainlessFailures, rows, session, Alive
    <3>2. UnharmedInv'
      BY <2>1, <2>2 DEF ReasonInv, UnharmedInv, rows, session, Rows
    <3> QED BY <3>1, <3>2 DEF ReasonInv
  <2> QED BY <2>1, <2>2, EmptySessionKeepsReasons
<1>2. CASE Crash
  BY <1>2, EmptySessionKeepsReasons DEF Crash
<1>3. ASSUME outages' # 0, UNCHANGED <<status, error, batch, todo, loaded, verdict>>,
             \A s \in Scans : domain_id'[s] = domain_id[s] \/ domain_id'[s] = NoDomain,
             \A s \in Scans : domain_id'[s] # NoDomain => domain'[domain_id'[s]] # "deleted"
      PROVE  ReasonInv'
  <2>1. CauseInv'
    BY <1>0, <1>3 DEF ReasonInv, CauseInv, DomainlessFailures, Alive, TypeOK
  <2> QED BY <1>3, <2>1 DEF ReasonInv, UnharmedInv
<1>4. ASSUME NEW d \in Domains, DeleteDomain(d)
      PROVE  ReasonInv'
  <2>1. outages' # 0 /\ UNCHANGED <<status, error, batch, todo, loaded, verdict>>
    BY <1>0, <1>4 DEF DeleteDomain, session, TypeOK
  <2>2. \A s \in Scans : domain_id'[s] = IF domain_id[s] = d THEN NoDomain ELSE domain_id[s]
    BY <1>4 DEF DeleteDomain
  <2>3. \A x \in Domains \ {d} : domain'[x] = domain[x]
    BY <1>0, <1>4 DEF DeleteDomain, TypeOK
  <2>4. \A s \in Scans : domain_id'[s] # NoDomain => domain'[domain_id'[s]] # "deleted"
    BY <1>0, <2>2, <2>3 DEF ReasonInv, CauseInv, Alive, TypeOK
  <2> QED BY <1>3, <2>1, <2>2, <2>4
<1>5. ASSUME NEW d \in Domains, UnverifyDomain(d)
      PROVE  ReasonInv'
  <2>1. outages' # 0 /\ UNCHANGED <<status, error, batch, todo, loaded, verdict, domain_id>>
    BY <1>0, <1>5 DEF UnverifyDomain, session, rows, TypeOK
  <2>2. \A x \in Domains : Alive(x) => Alive(x)'
    BY <1>0, <1>5 DEF UnverifyDomain, Alive, TypeOK
  <2>3. \A s \in Scans : domain_id'[s] # NoDomain => domain'[domain_id'[s]] # "deleted"
    BY <1>0, <2>1, <2>2 DEF ReasonInv, CauseInv, Alive, TypeOK
  <2> QED BY <1>3, <2>1, <2>3
<1> QED BY <1>1, <1>2, <1>4, <1>5 DEF Environment

(* The reasons for which scans are turned away are what they say.          *)
THEOREM ReasonInvariant == Spec => []ReasonInv
<1>1. Init => ReasonInv
  BY DEF Init, ReasonInv, CauseInv, UnharmedInv, DomainlessFailures, TurnedAway, Domainless, Rows
<1>2. QueueInv /\ ReasonInv /\ [Next]_vars => ReasonInv'
  <2>1. SUFFICES ASSUME QueueInv, ReasonInv, [Next]_vars
                 PROVE  ReasonInv'
    OBVIOUS
  <2>2. CASE UNCHANGED vars
    <3>1. CauseInv'
      BY <2>1, <2>2 DEF vars, rows, session, ReasonInv, CauseInv, DomainlessFailures, Alive
    <3>2. UnharmedInv'
      BY <2>1, <2>2 DEF vars, rows, session, enqueueing, ReasonInv, UnharmedInv, Rows
    <3> QED BY <3>1, <3>2 DEF ReasonInv
  <2> QED BY <2>1, <2>2, EnqueueingKeepsReasons, DrainKeepsReasons, EnvironmentKeepsReasons
          DEF Next
<1> QED BY <1>1, <1>2, QueueInvariant, PTL DEF Spec

(* A scan that failed for want of a domain has none.                       *)
THEOREM DomainlessScansFail == Spec => []DomainlessFailures
<1>1. ReasonInv => DomainlessFailures
  BY DEF ReasonInv, CauseInv
<1> QED BY <1>1, ReasonInvariant, PTL

(* What enqueue_domain_scan and the scheduler job have checked holds when  *)
(* execute_scan checks it again, unless an operator was at the tables.     *)
THEOREM NobodyTurnedAway == Spec => []TurnedAwayAfterOutage
<1>1. ReasonInv /\ TypeOK => TurnedAwayAfterOutage
  BY DEF ReasonInv, UnharmedInv, TurnedAwayAfterOutage, TurnedAway, Domainless, TypeOK
<1> QED BY <1>1, ReasonInvariant, TypeCorrect, PTL

-----------------------------------------------------------------------------
(* The queue implements the ledger.                                        *)

Job == [s \in Scans |-> IF status[s] = "absent" THEN "absent"
                       ELSE IF status[s] \in Active THEN "queued" ELSE "settled"]

(* Everything a client sees of the queue is a behaviour of ScanLedger:     *)
(* scans are submitted and settled once each, in whole transactions.       *)
THEOREM QueueImplementsLedger == Spec => LedgerSpec
<1>1. Init => Ledger!LedgerInit
  BY DEF Init, Ledger!LedgerInit
<1>2. QueueInv /\ [Next]_vars => [Ledger!LedgerNext]_(Ledger!ledgerVars)
  <2> SUFFICES ASSUME QueueInv, [Next]_vars
               PROVE  [Ledger!LedgerNext]_(Ledger!ledgerVars)
    OBVIOUS
  <2>1. CASE UNCHANGED <<status, settled>>
    BY <2>1 DEF Ledger!ledgerVars
  <2>2. ASSUME NEW e \in Requests \cup {Scheduler}, Pending(e) # {},
               Pending(e) \subseteq Insert, InsertRows(Pending(e))
        PROVE  Ledger!LedgerNext
    <3>1. PICK id \in [Pending(e) -> Scans \ Rows] :
            /\ \A s \in Scans : status'[s] = IF s \in {id[p] : p \in Pending(e)}
                                             THEN "queued" ELSE status[s]
            /\ UNCHANGED settled
      BY <2>2, InsertRowsEffect DEF QueueInv
    <3> DEFINE S == {id[p] : p \in Pending(e)}
    <3>2. S \in SUBSET Scans /\ S # {} /\ \A s \in S : status[s] = "absent"
      BY <2>2 DEF Rows
    <3>3. Job' = [s \in Scans |-> IF s \in S THEN "queued" ELSE Job[s]]
      BY <3>1 DEF Job, Active
    <3>4. Ledger!Submit(S)
      BY <3>1, <3>2, <3>3 DEF Ledger!Submit, Job
    <3> QED BY <3>2, <3>4 DEF Ledger!LedgerNext, Ledger!Submit, Ledger!Settle
  <2>3. CASE CommitBatch
    <3>1. CASE batch = {}
      BY <2>3, <3>1, BatchOutcome DEF CommitBatch, PublishBatch, QueueInv, TypeOK,
         Ledger!ledgerVars
    <3>2. CASE batch # {}
      <4>1. batch \in SUBSET Scans /\ \A s \in batch : Job[s] = "queued"
        BY <2>3, BatchOutcome DEF Job, Active
      <4>2. Job' = [s \in Scans |-> IF s \in batch THEN "settled" ELSE Job[s]]
        BY <2>3, BatchOutcome DEF Job, Active, Terminal
      <4>3. settled' = [s \in Scans |-> IF s \in batch THEN settled[s] + 1 ELSE settled[s]]
        BY <2>3 DEF CommitBatch, PublishBatch
      <4>4. Ledger!Settle(batch)
        BY <3>2, <4>1, <4>2, <4>3 DEF Ledger!Settle, Job
      <4> QED BY <4>1, <4>4 DEF Ledger!LedgerNext, Ledger!Submit, Ledger!Settle
    <3> QED BY <3>1, <3>2
  <2> QED BY <2>1, <2>2, <2>3, VisibleSteps
<1> QED BY <1>1, <1>2, QueueInvariant, PTL DEF Spec, LedgerSpec, Ledger!LedgerSpec
=============================================================================
