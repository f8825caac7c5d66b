------------------------- MODULE QueueBounds_proofs -------------------------
(***************************************************************************)
(* Proofs about what ScanQueue counts: how many active duplicates the      *)
(* check-then-insert of the enqueuers can leave, how long a queued scan    *)
(* can be passed over, and how long a drain can go on.                     *)
(***************************************************************************)
EXTENDS ScanQueue_proofs, WellFoundedInduction

(* Smaller finite sets, smaller sum.                                       *)
LEMMA SmallerSum ==
  ASSUME NEW A, NEW B, IsFiniteSet(A), IsFiniteSet(B),
         NEW C \in SUBSET A, NEW D \in SUBSET B,
         NEW n \in Nat, Cardinality(A) + Cardinality(B) <= n
  PROVE  Cardinality(C) + Cardinality(D) <= n
<1>1. Cardinality(C) <= Cardinality(A) /\ Cardinality(D) <= Cardinality(B)
  BY FS_Subset
<1>2. IsFiniteSet(C) /\ IsFiniteSet(D)
  BY FS_Subset
<1>3. /\ Cardinality(A) \in Nat /\ Cardinality(B) \in Nat
      /\ Cardinality(C) \in Nat /\ Cardinality(D) \in Nat
  BY <1>2, FS_CardinalityType
<1> QED BY <1>1, <1>3

(* Moving an element from one finite set to another keeps the sum.         *)
LEMMA MovedElement ==
  ASSUME NEW A, NEW B, IsFiniteSet(A), IsFiniteSet(B), NEW x, NEW y \in B,
         NEW n \in Nat, Cardinality(A) + Cardinality(B) <= n
  PROVE  /\ IsFiniteSet(A \cup {x}) /\ IsFiniteSet(B \ {y})
         /\ Cardinality(A \cup {x}) + Cardinality(B \ {y}) <= n
<1>1. Cardinality(A) \in Nat /\ Cardinality(B) \in Nat
  BY FS_CardinalityType
<1>2. IsFiniteSet(A \cup {x})
      /\ Cardinality(A \cup {x}) = IF x \in A THEN Cardinality(A) ELSE Cardinality(A) + 1
  BY FS_AddElement
<1>3. IsFiniteSet(B \ {y}) /\ Cardinality(B \ {y}) = Cardinality(B) - 1
  BY FS_RemoveElement
<1> QED BY <1>1, <1>2, <1>3

-----------------------------------------------------------------------------
(* The enqueuers.                                                          *)

(* The sets that EnqueueInv counts are finite.                             *)
LEMMA CountedFinite ==
  ASSUME TypeOK, NEW d, NEW t
  PROVE  IsFiniteSet(ActiveScans(d, t)) /\ IsFiniteSet(WaitingFor(d, t))
<1>1. IsFiniteSet(Requests \cup {Scheduler})
  BY QueueAssumption, FS_Singleton, FS_Union
<1>2. WaitingFor(d, t) \in SUBSET (Requests \cup {Scheduler})
  BY DEF TypeOK, WaitingFor, Insert
<1>3. ActiveScans(d, t) \in SUBSET Scans
  BY DEF ActiveScans
<1> QED BY <1>1, <1>2, <1>3, QueueAssumption, FS_Subset

(* Only enqueuers wait to commit.                                          *)
LEMMA WaitersEnqueue ==
  ASSUME TypeOK, EnqueueInv, NEW d, NEW t
  PROVE  WaitingFor(d, t) \subseteq Enqueuers
  BY DEF TypeOK, EnqueueInv, WaitingFor, Insert, Enqueuers

(* A step that adds no insert, no candidate and no active scan keeps       *)
(* EnqueueInv.                                                             *)
LEMMA ShrinkingStep ==
  ASSUME TypeOK, EnqueueInv, inserts' \subseteq inserts, candidates' \subseteq candidates,
         \A d \in Domains, t \in ScanTypes : ActiveScans(d, t)' \subseteq ActiveScans(d, t)
  PROVE  EnqueueInv'
<1>1. ASSUME NEW d \in Domains, NEW t \in ScanTypes
      PROVE  Cardinality(ActiveScans(d, t)') + Cardinality(WaitingFor(d, t)')
               <= Cardinality(Enqueuers)
  <2>1. WaitingFor(d, t)' \subseteq WaitingFor(d, t)
    BY DEF WaitingFor
  <2>2. Cardinality(ActiveScans(d, t)) + Cardinality(WaitingFor(d, t))
          <= Cardinality(Enqueuers)
    BY DEF EnqueueInv
  <2> QED BY <2>1, <2>2, CountedFinite, EnqueuersFinite, SmallerSum
<1> QED BY <1>1 DEF EnqueueInv, Pending, Enqueuers

(* The commit of a transaction turns each waiting insert into one active   *)
(* scan, so the sums that EnqueueInv bounds stay the same.                 *)
LEMMA CommitStep ==
  ASSUME TypeOK, EnqueueInv, NEW e \in Requests \cup {Scheduler},
         InsertRows(Pending(e)), inserts' = inserts \ Pending(e),
         candidates' = candidates
  PROVE  EnqueueInv'
<1>1. Pending(e) \subseteq Insert
  BY DEF Pending, TypeOK
<1>2. PICK id \in [Pending(e) -> Scans \ Rows] :
        /\ \A s \in Scans : status'[s] = IF s \in {id[p] : p \in Pending(e)}
                                         THEN "queued" ELSE status[s]
        /\ \A p \in Pending(e) : /\ domain_id'[id[p]] = p.domain
                                 /\ scan_type'[id[p]] = p.type
        /\ \A s \in Scans \ {id[p] : p \in Pending(e)} :
             domain_id'[s] = domain_id[s] /\ scan_type'[s] = scan_type[s]
  BY <1>1, InsertRowsEffect
<1>3. ASSUME NEW d \in Domains, NEW t \in ScanTypes
      PROVE  Cardinality(ActiveScans(d, t)') + Cardinality(WaitingFor(d, t)')
               <= Cardinality(Enqueuers)
  <2>1. Cardinality(ActiveScans(d, t)) + Cardinality(WaitingFor(d, t))
          <= Cardinality(Enqueuers)
    BY DEF EnqueueInv
  <2>2. WaitingFor(d, t)' = WaitingFor(d, t) \ {e}
    BY DEF WaitingFor, Pending
  <2>3. CASE e \notin WaitingFor(d, t)
    <3>1. \A p \in Pending(e) : ~(p.domain = d /\ p.type = t)
      BY <2>3 DEF WaitingFor, Pending
    <3>2. ActiveScans(d, t)' \subseteq ActiveScans(d, t)
      BY <1>2, <3>1 DEF ActiveScans
    <3> QED BY <2>1, <2>2, <3>2, CountedFinite, EnqueuersFinite, SmallerSum
  <2>4. CASE e \in WaitingFor(d, t)
    <3>1. PICK p \in Pending(e) : p.domain = d /\ p.type = t
      BY <2>4 DEF WaitingFor, Pending
    <3>2. \A q \in Pending(e) : q.domain = d /\ q.type = t => q = p
      BY <3>1 DEF EnqueueInv, Pending
    <3>3. ActiveScans(d, t)' \subseteq ActiveScans(d, t) \cup {id[p]}
      BY <1>2, <3>1, <3>2 DEF ActiveScans
    <3>4. /\ IsFiniteSet(ActiveScans(d, t) \cup {id[p]})
          /\ IsFiniteSet(WaitingFor(d, t) \ {e})
          /\ Cardinality(ActiveScans(d, t) \cup {id[p]})
               + Cardinality(WaitingFor(d, t) \ {e}) <= Cardinality(Enqueuers)
      BY <2>1, <2>4, CountedFinite, EnqueuersFinite, MovedElement
    <3> QED BY <2>2, <3>3, <3>4, EnqueuersFinite, SmallerSum
  <2> QED BY <2>3, <2>4
<1> QED BY <1>3 DEF EnqueueInv, Pending, Enqueuers

(* A transaction that has passed the check joins those who wait: nothing   *)
(* is active, so the waiting enqueuers are all that counts.                *)
LEMMA CheckedInsert ==
  ASSUME TypeOK, TypeOK', EnqueueInv, NEW p \in Insert, p.by \in Enqueuers,
         ActiveScans(p.domain, p.type) = {},
         inserts' = inserts \cup {p}, UNCHANGED <<status, domain_id, scan_type>>
  PROVE  \A d \in Domains, t \in ScanTypes :
           Cardinality(ActiveScans(d, t)') + Cardinality(WaitingFor(d, t)')
             <= Cardinality(Enqueuers)
<1> SUFFICES ASSUME NEW d \in Domains, NEW t \in ScanTypes
             PROVE  Cardinality(ActiveScans(d, t)') + Cardinality(WaitingFor(d, t)')
                      <= Cardinality(Enqueuers)
  OBVIOUS
<1>1. ActiveScans(d, t)' = ActiveScans(d, t)
  BY DEF ActiveScans
<1>2. CASE p.domain = d /\ p.type = t
  <2>1. WaitingFor(d, t)' \subseteq Enqueuers
    BY WaitersEnqueue DEF WaitingFor
  <2>2. Cardinality(ActiveScans(d, t)') = 0
    BY <1>1, <1>2, FS_EmptySet
  <2>3. Cardinality(WaitingFor(d, t)') <= Cardinality(Enqueuers)
    BY <2>1, EnqueuersFinite, FS_Subset
  <2>4. Cardinality(WaitingFor(d, t)') \in Nat
    BY <2>1, EnqueuersFinite, FS_Subset, FS_CardinalityType
  <2> QED BY <2>2, <2>3, <2>4, EnqueuersFinite
<1>3. CASE ~(p.domain = d /\ p.type = t)
  <2>1. WaitingFor(d, t)' = WaitingFor(d, t)
    BY <1>3 DEF WaitingFor
  <2> QED BY <1>1, <2>1 DEF EnqueueInv
<1> QED BY <1>2, <1>3

(* At first nothing is active and nobody has passed the check.             *)
LEMMA EnqueueInit == Init => EnqueueInv
<1> SUFFICES ASSUME Init PROVE EnqueueInv
  OBVIOUS
<1>1. ASSUME NEW d \in Domains, NEW t \in ScanTypes
      PROVE  ActiveScans(d, t) = {} /\ WaitingFor(d, t) = {}
  BY DEF Init, ActiveScans, WaitingFor, Active
<1>2. Cardinality({}) = 0
  BY FS_EmptySet
<1>3. \A d \in Domains, t \in ScanTypes :
        Cardinality(ActiveScans(d, t)) + Cardinality(WaitingFor(d, t))
          <= Cardinality(Enqueuers)
  BY <1>1, <1>2, EnqueuersFinite
<1>4. inserts = {} /\ candidates = {}
  BY DEF Init
<1> QED BY <1>3, <1>4 DEF EnqueueInv, Pending

(* Every step keeps the count of active scans and transactions to insert.  *)
LEMMA EnqueueStep == QueueInv /\ QueueInv' /\ EnqueueInv /\ [Next]_vars => EnqueueInv'
<1> SUFFICES ASSUME QueueInv, QueueInv', EnqueueInv, [Next]_vars PROVE EnqueueInv'
  OBVIOUS
<1> USE DEF QueueInv
<1>1. CASE UNCHANGED <<status, domain_id, scan_type, enqueueing>>
  BY <1>1, ShrinkingStep DEF ActiveScans, enqueueing
<1>2. CASE Environment
  <2>1. /\ inserts' \subseteq inserts /\ candidates' \subseteq candidates
        /\ UNCHANGED <<status, scan_type>>
        /\ \A s \in Scans : domain_id'[s] \in {domain_id[s], NoDomain}
    BY <1>2 DEF Environment, DatabaseFailure, Crash, DeleteDomain, UnverifyDomain, rows,
       enqueueing, TypeOK
  <2>2. \A d \in Domains, t \in ScanTypes : ActiveScans(d, t)' \subseteq ActiveScans(d, t)
    BY <2>1, QueueAssumption DEF ActiveScans
  <2> QED BY <2>1, <2>2, ShrinkingStep
<1>3. CASE Api
  <2>1. ASSUME NEW d \in Domains, VerifyDomain(d) PROVE EnqueueInv'
    BY <1>1, <2>1 DEF VerifyDomain, rows
  <2>2. ASSUME NEW r \in Requests, NEW d \in Domains, NEW t \in ScanTypes,
               RequestScan(r, d, t)
        PROVE  EnqueueInv'
    <3>0. PICK began \in Nat :
            inserts' = inserts \cup {[by |-> r, domain |-> d, type |-> t, since |-> began]}
      BY <2>2, RowsFinite DEF RequestScan, AddScan
    <3> DEFINE p == [by |-> r, domain |-> d, type |-> t, since |-> began]
    <3>1. /\ inserts' = inserts \cup {p} /\ Pending(r) = {} /\ p \in Insert
          /\ UNCHANGED <<candidates, status, domain_id, scan_type>>
          /\ ActiveScans(p.domain, p.type) = {} /\ p.by = r
      BY <2>2, <3>0 DEF RequestScan, AddScan, rows, Insert
    <3>2. r # Scheduler /\ r \in Enqueuers
      BY QueueAssumption DEF Enqueuers
    <3> HIDE DEF p
    <3>3. \A d1 \in Domains, t1 \in ScanTypes :
            Cardinality(ActiveScans(d1, t1)') + Cardinality(WaitingFor(d1, t1)')
              <= Cardinality(Enqueuers)
      BY <3>1, <3>2, CheckedInsert
    <3> QED BY <3>1, <3>2, <3>3 DEF EnqueueInv, Pending, Enqueuers
  <2>3. ASSUME NEW r \in Requests, CommitRequest(r) PROVE EnqueueInv'
    BY <2>3, CommitStep DEF CommitRequest
  <2>4. ASSUME NEW r \in Requests, RejectRequest(r) PROVE EnqueueInv'
    BY <2>4, ShrinkingStep DEF RejectRequest, rows, ActiveScans
  <2> QED BY <1>3, <2>1, <2>2, <2>3, <2>4 DEF Api
<1>4. CASE EnqueueJob
  <2>1. CASE SelectDomains
    <3>1. /\ Pending(Scheduler) = {} /\ ScheduledScanEnabled
          /\ \A b, c \in candidates' : b.domain = c.domain => b = c
          /\ UNCHANGED <<inserts, rows>>
      BY <2>1 DEF SelectDomains, SchedulerIdle
    <3>2. \A d \in Domains, t \in ScanTypes :
            ActiveScans(d, t)' = ActiveScans(d, t) /\ WaitingFor(d, t)' = WaitingFor(d, t)
      BY <3>1 DEF rows, ActiveScans, WaitingFor
    <3> QED BY <3>1, <3>2 DEF EnqueueInv, Pending, Enqueuers
  <2>2. ASSUME NEW c \in candidates, ConsiderDomain(c) PROVE EnqueueInv'
    <3>1. CASE ActiveScans(c.domain, "full") # {}
      BY <2>2, <3>1, ShrinkingStep DEF ConsiderDomain, rows, ActiveScans
    <3>2. CASE ActiveScans(c.domain, "full") = {}
      <4> DEFINE p == [by |-> Scheduler, domain |-> c.domain, type |-> "full",
                       since |-> c.since]
      <4>1. /\ inserts' = inserts \cup {p} /\ candidates' = candidates \ {c}
            /\ UNCHANGED <<status, domain_id, scan_type>>
            /\ ActiveScans(p.domain, p.type) = {} /\ p.by = Scheduler
            /\ p.domain = c.domain /\ p.type = "full"
        BY <2>2, <3>2 DEF ConsiderDomain, rows
      <4>2. p \in Insert
        BY QueueAssumption DEF Insert, TypeOK
      <4>3. ScheduledScanEnabled /\ Scheduler \in Enqueuers /\ Scheduler \notin Requests
        BY QueueAssumption DEF EnqueueInv, Enqueuers
      <4> HIDE DEF p
      <4>4. \A d \in Domains, t \in ScanTypes :
              Cardinality(ActiveScans(d, t)') + Cardinality(WaitingFor(d, t)')
                <= Cardinality(Enqueuers)
        BY <4>1, <4>2, <4>3, CheckedInsert
      <4>5. \A q \in Pending(Scheduler) : q.domain # c.domain
        BY DEF EnqueueInv
      <4> QED BY <4>1, <4>3, <4>4, <4>5 DEF EnqueueInv, Pending, Enqueuers
    <3> QED BY <3>1, <3>2
  <2>3. CASE CommitSchedule
    BY <2>3, CommitStep DEF CommitSchedule
  <2>4. CASE RejectSchedule
    BY <2>4, ShrinkingStep DEF RejectSchedule, rows, ActiveScans
  <2> QED BY <1>4, <2>1, <2>2, <2>3, <2>4 DEF EnqueueJob
<1>5. CASE DrainJob
  <2>1. CASE CommitBatch
    <3>1. UNCHANGED <<domain_id, scan_type, inserts, candidates>>
      BY <2>1 DEF CommitBatch, PublishBatch, enqueueing
    <3>2. \A d \in Domains, t \in ScanTypes : ActiveScans(d, t)' \subseteq ActiveScans(d, t)
      BY <2>1, <3>1, BatchOutcome DEF ActiveScans, Active, Terminal
    <3> QED BY <3>1, <3>2, ShrinkingStep
  <2>2. ASSUME NEW s \in Scans, ExecuteScan(s) PROVE UNCHANGED <<rows, enqueueing>>
    BY <2>2 DEF ExecuteScan, MissingDomain, DomainNotFound, DomainNotVerified, BeginPasses,
            TurnAway
  <2>3. CASE PassesReturn \/ PassesRaise
    BY <1>1, <2>3 DEF PassesReturn, PassesRaise, PassesEnd, rows
  <2>4. CASE PollEmptyQueue \/ SelectBatch \/ StageRows \/ FlushRows \/ RejectBatch
    BY <1>1, <2>4 DEF PollEmptyQueue, SelectBatch, Load, StageRows, FlushRows, RejectBatch,
       vars, rows
  <2> QED BY <1>1, <1>5, <2>1, <2>2, <2>3, <2>4 DEF DrainJob, rows
<1>6. CASE UNCHANGED vars
  BY <1>1, <1>6 DEF vars, rows
<1> QED BY <1>2, <1>3, <1>4, <1>5, <1>6 DEF Next

(* The active scans of a domain and type, and the transactions that have   *)
(* found none and may add one, are never more than those that enqueue.     *)
THEOREM ChecksAreCounted == Spec => []EnqueueInv
  BY EnqueueInit, EnqueueStep, QueueInvariant, PTL DEF Spec

(* However the handler threads and the scheduler job interleave, at most   *)
(* as many scans of one type are active for a domain as there are threads  *)
(* and jobs that enqueue: each can pass the check at most once before its  *)
(* own row makes it fail.                                                  *)
THEOREM DuplicatesAreBounded == Spec => []DuplicatesBounded
<1>1. QueueInv /\ EnqueueInv => DuplicatesBounded
  <2> SUFFICES ASSUME QueueInv, EnqueueInv, NEW d \in Domains, NEW t \in ScanTypes
               PROVE  Cardinality(ActiveScans(d, t)) <= Cardinality(Enqueuers)
    BY DEF DuplicatesBounded
  <2>1. /\ Cardinality(ActiveScans(d, t)) \in Nat
        /\ Cardinality(WaitingFor(d, t)) \in Nat
    BY CountedFinite, FS_CardinalityType DEF QueueInv
  <2> QED BY <2>1, EnqueuersFinite DEF EnqueueInv
<1> QED BY <1>1, ChecksAreCounted, QueueInvariant, PTL

(* With a single enqueuer there are no duplicates: the 409 answer of       *)
(* enqueue_domain_scan is the truth.                                       *)
THEOREM SingleEnqueuer ==
  ASSUME Cardinality(Enqueuers) = 1
  PROVE  Spec => []OneActiveScan
<1>1. DuplicatesBounded => OneActiveScan
  BY DEF DuplicatesBounded, OneActiveScan
<1> QED BY <1>1, DuplicatesAreBounded, PTL

-----------------------------------------------------------------------------
(* The wait of a queued scan.                                              *)

(* The scans that were settled and do not come after s in the queue.       *)
Before(s) == {u \in Scans : status[u] \in Terminal /\ created_at[u] <= created_at[s]}

(* The scans settled before another are finitely many.                     *)
LEMMA BeforeFinite ==
  ASSUME NEW s PROVE IsFiniteSet(Before(s)) /\ Cardinality(Before(s)) \in Nat
  BY QueueAssumption, FS_Subset, FS_CardinalityType DEF Before

(* A scan that is there keeps its row as it was inserted; a settled scan   *)
(* stays settled.                                                          *)
LEMMA RowsKept ==
  ASSUME QueueInv, [Next]_vars, NEW s \in Scans, status[s] # "absent"
  PROVE  /\ created_at'[s] = created_at[s] /\ status'[s] # "absent"
         /\ status[s] \in Terminal => status'[s] \in Terminal
<1>1. ASSUME NEW e \in Requests \cup {Scheduler},
             Pending(e) \subseteq Insert, InsertRows(Pending(e))
      PROVE  created_at'[s] = created_at[s] /\ status'[s] = status[s]
  <2>1. s \notin Scans \ Rows
    BY DEF Rows
  <2> QED BY <1>1, <2>1, InsertRowsEffect DEF QueueInv
<1>2. CASE CommitBatch
  <2>1. created_at' = created_at
    BY <1>2 DEF CommitBatch, PublishBatch
  <2> QED BY <1>2, <2>1, BatchOutcome DEF Terminal
<1> QED BY <1>1, <1>2, VisibleSteps

(* The drain's session keeps its batch until it ends.                      *)
LEMMA BatchKept ==
  ASSUME QueueInv, [Next]_vars
  PROVE  \/ UNCHANGED <<batch, seen>>
         \/ batch' = {} /\ seen' = {}
         \/ SelectBatch
<1>1. CASE UNCHANGED session
  BY <1>1 DEF session
<1>2. CASE Environment
  BY <1>2 DEF Environment, DatabaseFailure, Crash, EmptySession, DeleteDomain, UnverifyDomain,
     session
<1>3. CASE Api
  BY <1>1, <1>3 DEF Api, VerifyDomain, RequestScan, AddScan, CommitRequest, RejectRequest
<1>4. CASE EnqueueJob
  BY <1>1, <1>4 DEF EnqueueJob, SelectDomains, ConsiderDomain, CommitSchedule, RejectSchedule
<1>5. CASE DrainJob
  <2>1. ASSUME NEW s \in Scans, ExecuteScan(s) PROVE UNCHANGED <<batch, seen>>
    BY <2>1 DEF ExecuteScan, MissingDomain, DomainNotFound, DomainNotVerified, BeginPasses,
            TurnAway
  <2>2. CASE PassesReturn \/ PassesRaise
    BY <2>2 DEF PassesReturn, PassesRaise, PassesEnd
  <2>3. CASE PollEmptyQueue \/ StageRows \/ FlushRows
    BY <2>3 DEF PollEmptyQueue, StageRows, FlushRows, vars, session
  <2>4. CASE CommitBatch \/ RejectBatch
    BY <2>4 DEF CommitBatch, PublishBatch, RejectBatch, EmptySession
  <2> QED BY <1>5, <2>1, <2>2, <2>3, <2>4 DEF DrainJob
<1> QED BY <1>1, <1>2, <1>3, <1>4, <1>5 DEF Next, vars

(* Every step keeps what a batch says of the scans it passed over.         *)
LEMMA BatchStep == QueueInv /\ QueueInv' /\ BatchInv /\ [Next]_vars => BatchInv'
<1> SUFFICES ASSUME QueueInv, QueueInv', BatchInv, [Next]_vars PROVE BatchInv'
  OBVIOUS
<1>1. /\ \A s \in batch', u \in seen' \ batch' : created_at'[s] <= created_at'[u]
      /\ seen' # batch' => Cardinality(batch') = DrainLimit
  <2>1. CASE UNCHANGED <<batch, seen>>
    <3>1. \A s \in seen : s \in Scans /\ status[s] # "absent"
      BY DEF QueueInv, SessionInv, Queued
    <3>2. \A s \in seen : created_at'[s] = created_at[s]
      BY <3>1, RowsKept
    <3> QED BY <2>1, <3>2 DEF BatchInv, QueueInv, SessionInv
  <2>2. CASE batch' = {} /\ seen' = {}
    BY <2>2
  <2>3. CASE SelectBatch
    BY <2>3 DEF SelectBatch, Load, Limited, rows
  <2> QED BY <2>1, <2>2, <2>3, BatchKept
<1>2. ASSUME NEW s \in Scans, status'[s] = "absent" PROVE skipped'[s] = 0
  <2>1. status[s] = "absent" /\ skipped[s] = 0
    BY <1>2, RowsKept DEF BatchInv
  <2>2. CASE CommitBatch
    BY <2>1, <2>2 DEF CommitBatch, PublishBatch, QueueInv, SessionInv, Queued
  <2>3. CASE ~CommitBatch
    <3>1. skipped' = skipped
      BY <2>3, VisibleSteps DEF InsertRows
    <3> QED BY <2>1, <3>1
  <2> QED BY <2>2, <2>3
<1> QED BY <1>1, <1>2 DEF BatchInv

(* Every step keeps the bound on the wait of a scan.                       *)
LEMMA WaitStep ==
  QueueInv /\ QueueInv' /\ BatchInv /\ BatchInv' /\ BoundedWait /\ [Next]_vars => BoundedWait'
<1> SUFFICES ASSUME QueueInv, QueueInv', BatchInv, BatchInv', BoundedWait, [Next]_vars,
                    NEW s \in Scans
             PROVE  skipped'[s] * DrainLimit <= Cardinality(Before(s)')
  BY DEF BoundedWait, Before
<1>1. /\ skipped[s] \in Nat /\ skipped'[s] \in Nat /\ DrainLimit \in Nat
      /\ skipped[s] * DrainLimit <= Cardinality(Before(s))
  BY QueueAssumption DEF QueueInv, TypeOK, BoundedWait, Before
<1>2. IsFiniteSet(Before(s)') /\ Cardinality(Before(s)') \in Nat
  BY QueueAssumption, FS_Subset, FS_CardinalityType DEF Before
<1>3. ~CommitBatch => skipped' = skipped
  BY VisibleSteps DEF InsertRows
<1>4. CASE status[s] = "absent"
  <2>1. skipped[s] = 0
    BY <1>4 DEF BatchInv
  <2>2. CommitBatch => skipped'[s] = skipped[s]
    BY <1>4 DEF CommitBatch, PublishBatch, QueueInv, SessionInv, Queued
  <2> QED BY <1>1, <1>2, <1>3, <2>1, <2>2
<1>5. CASE status[s] # "absent"
  <2>1. Before(s) \subseteq Before(s)'
    <3> SUFFICES ASSUME NEW u \in Before(s) PROVE u \in Before(s)'
      OBVIOUS
    <3>1. u \in Scans /\ status[u] \in Terminal /\ status[u] # "absent"
          /\ created_at[u] <= created_at[s]
      BY DEF Before, Terminal
    <3>2. created_at'[u] = created_at[u] /\ status'[u] \in Terminal
      BY <3>1, RowsKept
    <3>3. created_at'[s] = created_at[s]
      BY <1>5, RowsKept
    <3> QED BY <3>1, <3>2, <3>3 DEF Before
  <2>2. CASE skipped'[s] = skipped[s]
    <3>1. Cardinality(Before(s)) <= Cardinality(Before(s)')
      BY <1>2, <2>1, FS_Subset
    <3> QED BY <1>1, <1>2, <2>2, <3>1, BeforeFinite
  <2>3. CASE skipped'[s] # skipped[s]
    <3>1. CommitBatch
      BY <1>3, <2>3
    <3>2. s \in seen \ batch /\ skipped'[s] = skipped[s] + 1 /\ created_at' = created_at
      BY <2>3, <3>1 DEF CommitBatch, PublishBatch, QueueInv, TypeOK
    <3>3. Cardinality(batch) = DrainLimit
      BY <3>2 DEF BatchInv
    <3>4. batch \subseteq Before(s)' /\ Before(s) \cap batch = {}
      BY <3>1, <3>2, BatchOutcome DEF BatchInv, Before, Terminal
    <3>5. IsFiniteSet(batch)
      BY QueueAssumption, FS_Subset DEF QueueInv, TypeOK
    <3>6. Cardinality(Before(s) \cup batch) = Cardinality(Before(s)) + DrainLimit
      <4>1. Cardinality(Before(s) \cup batch)
              = Cardinality(Before(s)) + Cardinality(batch) - Cardinality(Before(s) \cap batch)
        BY <3>5, BeforeFinite, FS_Union
      <4>2. Cardinality(Before(s) \cap batch) = 0
        BY <3>4, FS_EmptySet
      <4> QED BY <1>1, <3>3, <4>1, <4>2, BeforeFinite
    <3>7. Cardinality(Before(s) \cup batch) <= Cardinality(Before(s)')
      BY <1>2, <2>1, <3>4, FS_Subset
    <3>8. (skipped[s] + 1) * DrainLimit = skipped[s] * DrainLimit + DrainLimit
      BY <1>1
    <3>9. skipped[s] * DrainLimit \in Nat
      BY <1>1
    <3> QED BY <1>1, <1>2, <3>2, <3>6, <3>7, <3>8, <3>9, BeforeFinite
  <2> QED BY <2>2, <2>3
<1> QED BY <1>4, <1>5

(* A drain loads no scan before an older one, and leaves none unless its   *)
(* batch is full.                                                          *)
THEOREM BatchIsOldest == Spec => []BatchInv
<1>1. Init => BatchInv
  BY DEF Init, BatchInv
<1> QED BY <1>1, BatchStep, QueueInvariant, PTL DEF Spec

(* A queued scan is passed over only for a full batch of scans that were   *)
(* queued before it: after k committed drains that left it, k times        *)
(* DrainLimit scans not younger than it are settled.                       *)
THEOREM WaitIsBounded == Spec => []BoundedWait
<1>1. Init => BoundedWait
  <2> SUFFICES ASSUME Init, NEW s \in Scans
               PROVE  skipped[s] * DrainLimit <= Cardinality(Before(s))
    BY DEF BoundedWait, Before
  <2> QED BY BeforeFinite, QueueAssumption DEF Init
<1> QED BY <1>1, BatchIsOldest, WaitStep, QueueInvariant, PTL DEF Spec
-----------------------------------------------------------------------------
(* The drain goes on, and it runs down: what QueuedIsSettled needs besides *)
(* fairness.                                                               *)

(* There is a least number in a set of numbers.                            *)
LEMMA HasLeast ==
  ASSUME NEW T \in SUBSET Nat, T # {}
  PROVE  \E n \in T : \A m \in T : n <= m
<1> DEFINE Less == {p \in Nat \X Nat : p[1] < p[2]}
<1>1. IsWellFoundedOn(Less, Nat)
  BY NatLessThanWellFounded, Zenon DEF OpToRel
<1>2. \A m, n \in Nat : m < n => <<m, n>> \in Less
  OBVIOUS
<1> HIDE DEF Less
<1>3. PICK n \in T : \A m \in T : ~(<<m, n>> \in Less)
  BY <1>1, WFMin
<1>4. ASSUME NEW m \in T PROVE n <= m
  <2>1. ~(m < n)
    BY <1>2, <1>3, Zenon
  <2> QED BY <2>1
<1> QED BY <1>4

(* Of some scans there is one that was queued no later than the others.    *)
LEMMA HasOldest ==
  ASSUME TypeOK, NEW S \in SUBSET Scans, S # {}
  PROVE  \E s \in S : \A u \in S : created_at[s] <= created_at[u]
<1> DEFINE T == {created_at[s] : s \in S}
<1>1. T \in SUBSET Nat /\ T # {}
  BY DEF TypeOK
<1>2. PICK n \in T : \A m \in T : n <= m
  BY <1>1, HasLeast
<1> QED BY <1>2

(* Scans that come before all others in the queue, as many as fit.         *)
Front(B) ==
  /\ B \subseteq Queued /\ Cardinality(B) <= DrainLimit
  /\ \A s \in B, u \in Queued \ B : created_at[s] <= created_at[u]

(* The query of the drain always has an answer: the largest front.         *)
LEMMA HasFront ==
  ASSUME TypeOK
  PROVE  \E B \in Limited(Queued) : Front(B)
<1> USE QueueAssumption
<1> DEFINE Gaps == {DrainLimit - Cardinality(B) : B \in {C \in SUBSET Queued : Front(C)}}
<1>1. ASSUME NEW B \in SUBSET Queued
      PROVE  IsFiniteSet(B) /\ Cardinality(B) \in Nat
  BY FS_Subset, FS_CardinalityType DEF Queued
<1>2. Gaps \in SUBSET Nat
  <2>1. ASSUME NEW B \in SUBSET Queued, Front(B) PROVE DrainLimit - Cardinality(B) \in Nat
    BY <1>1, <2>1 DEF Front
  <2> QED BY <2>1
<1>3. Gaps # {}
  BY FS_EmptySet DEF Front
<1>4. PICK gap \in Gaps : \A g \in Gaps : gap <= g
  BY <1>2, <1>3, HasLeast
<1>5. PICK B \in SUBSET Queued : Front(B) /\ gap = DrainLimit - Cardinality(B)
  BY <1>4
<1>6. CASE B = Queued \/ Cardinality(B) = DrainLimit
  BY <1>5, <1>6 DEF Limited, Front
<1>7. CASE B # Queued /\ Cardinality(B) # DrainLimit
  <2>1. PICK s \in Queued \ B : \A u \in Queued \ B : created_at[s] <= created_at[u]
    <3>1. Queued \ B \in SUBSET Scans /\ Queued \ B # {}
      BY <1>7 DEF Queued
    <3> QED BY <3>1, HasOldest
  <2> DEFINE C == B \cup {s}
  <2>2. Cardinality(C) = Cardinality(B) + 1
    BY <1>1, FS_AddElement
  <2>3. Cardinality(B) < DrainLimit
    BY <1>1, <1>5, <1>7 DEF Front
  <2>4. Front(C)
    <3>1. Cardinality(C) <= DrainLimit
      BY <1>1, <2>2, <2>3
    <3>2. \A x \in C, u \in Queued \ C : created_at[x] <= created_at[u]
      BY <1>5, <2>1 DEF Front
    <3> QED BY <3>1, <3>2 DEF Front
  <2>5. DrainLimit - Cardinality(C) \in Gaps
    BY <2>4
  <2> DEFINE size == Cardinality(B)
  <2>6. /\ gap = DrainLimit - size /\ DrainLimit - (size + 1) \in Gaps /\ size \in Nat
    BY <1>1, <1>5, <2>2, <2>5
  <2> HIDE DEF size, Gaps, C
  <2>7. gap <= DrainLimit - (size + 1)
    BY <1>4, <2>6
  <2> QED BY <2>6, <2>7
<1> QED BY <1>6, <1>7

(* The guard of a step of the drain holds.                                 *)
CanGoOn ==
  \/ phase = "idle" /\ \E B \in Limited(Queued) : Front(B)
  \/ phase = "next" /\ \E s \in todo : IsNext(s)
  \/ phase = "next" /\ todo = {} /\ (\A d \in staged : Alive(d))
  \/ phase = "passes" \/ ForeignKeyViolated

(* The drain waits for nobody: whatever requests, operators and faults     *)
(* have done, it can query the queue, execute the next scan of its batch,  *)
(* end its passes, commit, or roll back.                                   *)
THEOREM DrainNeverStuck == Spec => []CanGoOn
<1>1. TypeOK => CanGoOn
  <2> SUFFICES ASSUME TypeOK PROVE CanGoOn
    OBVIOUS
  <2>1. CASE phase = "idle"
    BY <2>1, HasFront DEF CanGoOn
  <2>2. CASE phase = "next" /\ todo # {}
    <3>1. PICK s \in todo : \A u \in todo : created_at[s] <= created_at[u]
      BY <2>2, HasOldest DEF TypeOK
    <3> QED BY <2>2, <3>1 DEF CanGoOn, IsNext
  <2>3. CASE phase = "next" /\ todo = {}
    BY <2>3 DEF CanGoOn, ForeignKeyViolated
  <2> QED BY <2>1, <2>2, <2>3 DEF TypeOK, CanGoOn
<1> QED BY <1>1, TypeCorrect, PTL

(* What an open drain has ahead of it: to begin and to end each scan.      *)
Work == 2 * Cardinality(todo) + (IF phase = "passes" THEN 1 ELSE 0)

(* A drain has something to settle, and no more than the limit.            *)
LoadInv ==
  /\ Cardinality(batch) <= DrainLimit
  /\ phase # "idle" => batch # {}

(* The steps of a session, sorted by what becomes of its scans.            *)
LEMMA SessionSteps ==
  ASSUME QueueInv, [Next]_vars
  PROVE  \/ UNCHANGED <<phase, batch, todo>>
         \/ phase' = "idle" /\ batch' = {} /\ todo' = {}
         \/ /\ phase = "idle" /\ phase' = "next"
            /\ batch' \in Limited(Queued) /\ todo' = batch' /\ Queued # {}
         \/ /\ phase = "next" /\ phase' \in {"next", "passes"} /\ batch' = batch
            /\ \E s \in todo : todo' = todo \ {s}
         \/ phase = "passes" /\ phase' = "next" /\ UNCHANGED <<batch, todo>>
<1>1. CASE UNCHANGED session
  BY <1>1 DEF session
<1>2. CASE Environment
  BY <1>2 DEF Environment, DatabaseFailure, Crash, EmptySession, DeleteDomain, UnverifyDomain,
     session
<1>3. CASE Api
  BY <1>1, <1>3 DEF Api, VerifyDomain, RequestScan, AddScan, CommitRequest, RejectRequest
<1>4. CASE EnqueueJob
  BY <1>1, <1>4 DEF EnqueueJob, SelectDomains, ConsiderDomain, CommitSchedule, RejectSchedule
<1>5. CASE DrainJob
  <2>1. ASSUME NEW s \in Scans, ExecuteScan(s)
        PROVE  /\ phase = "next" /\ phase' \in {"next", "passes"} /\ batch' = batch
               /\ s \in todo /\ todo' = todo \ {s}
    BY <2>1 DEF ExecuteScan, MissingDomain, DomainNotFound, DomainNotVerified, BeginPasses,
            TurnAway, IsNext
  <2>2. CASE PassesReturn \/ PassesRaise
    BY <2>2 DEF PassesReturn, PassesRaise, PassesEnd
  <2>3. CASE PollEmptyQueue \/ StageRows \/ FlushRows
    BY <2>3 DEF PollEmptyQueue, StageRows, FlushRows, vars, session
  <2>4. CASE CommitBatch \/ RejectBatch
    BY <2>4 DEF CommitBatch, PublishBatch, RejectBatch, EmptySession
  <2>5. CASE SelectBatch
    BY <2>5 DEF SelectBatch, Load
  <2> QED BY <1>5, <2>1, <2>2, <2>3, <2>4, <2>5 DEF DrainJob
<1> QED BY <1>1, <1>2, <1>3, <1>4, <1>5 DEF Next, vars

(* What is limited is small, and empty only if there is nothing.           *)
LEMMA LimitedIsSmall ==
  ASSUME NEW S \in SUBSET Scans, S # {}, NEW B \in Limited(S)
  PROVE  B # {} /\ Cardinality(B) <= DrainLimit
BY QueueAssumption, FS_EmptySet DEF Limited

(* Every session is loaded within the limit.                               *)
THEOREM BatchIsLimited == Spec => []LoadInv
<1>1. Init => LoadInv
  BY QueueAssumption, FS_EmptySet DEF Init, LoadInv
<1>2. QueueInv /\ LoadInv /\ [Next]_vars => LoadInv'
  <2> SUFFICES ASSUME QueueInv, LoadInv, [Next]_vars PROVE LoadInv'
    OBVIOUS
  <2>1. CASE batch' \in Limited(Queued) /\ Queued # {}
    <3>1. Queued \in SUBSET Scans
      BY DEF Queued
    <3> QED BY <2>1, <3>1, LimitedIsSmall DEF LoadInv
  <2>2. CASE phase' = "idle" /\ batch' = {}
    BY <2>2, QueueAssumption, FS_EmptySet DEF LoadInv
  <2>3. CASE phase # "idle" /\ batch' = batch
    BY <2>3 DEF LoadInv
  <2>4. CASE UNCHANGED <<phase, batch>>
    BY <2>4 DEF LoadInv
  <2> QED BY <2>1, <2>2, <2>3, <2>4, SessionSteps
<1> QED BY <1>1, <1>2, QueueInvariant, PTL DEF Spec

(* An open drain ends after at most 2 * DrainLimit steps of its own: each  *)
(* brings it nearer to its commit, it never comes back to a scan, and only *)
(* the rows that passes write leave its work as it is.                     *)
THEOREM DrainRunsDown ==
  Spec => /\ [](phase # "idle" => Work \in 0..(2 * DrainLimit))
          /\ [][phase # "idle" /\ phase' # "idle"
                  => Work' < Work \/ UNCHANGED <<phase, batch, todo>>]_vars
<1>1. QueueInv /\ LoadInv => /\ phase # "idle" => Work \in 0..(2 * DrainLimit)
                             /\ Cardinality(todo) \in Nat /\ IsFiniteSet(todo)
  <2> SUFFICES ASSUME QueueInv, LoadInv
               PROVE  /\ Work \in 0..(2 * DrainLimit)
                      /\ Cardinality(todo) \in Nat /\ IsFiniteSet(todo)
    OBVIOUS
  <2>1. /\ IsFiniteSet(batch) /\ Cardinality(batch) \in Nat
        /\ IsFiniteSet(todo) /\ Cardinality(todo) \in Nat
    BY QueueAssumption, FS_Subset, FS_CardinalityType DEF QueueInv, TypeOK
  <2>2. Cardinality(todo) <= Cardinality(batch)
    BY <2>1, FS_Subset DEF QueueInv, SessionInv
  <2>3. phase = "passes" => Cardinality(todo) < Cardinality(batch)
    <3>1. phase = "passes" => todo # batch
      BY DEF QueueInv, SessionInv
    <3> QED BY <2>1, <3>1, FS_Subset DEF QueueInv, SessionInv
  <2> DEFINE m == Cardinality(todo)
             n == Cardinality(batch)
  <2>4. /\ m \in Nat /\ n \in Nat /\ DrainLimit \in Nat /\ n <= DrainLimit /\ m <= n
        /\ phase = "passes" => m < n
        /\ Work = 2 * m + (IF phase = "passes" THEN 1 ELSE 0)
    BY <2>1, <2>2, <2>3, QueueAssumption DEF LoadInv, Work
  <2> HIDE DEF m, n
  <2>5. Work \in 0..(2 * DrainLimit)
    <3>1. CASE phase = "passes"
      BY <2>4, <3>1
    <3>2. CASE phase # "passes"
      BY <2>4, <3>2
    <3> QED BY <3>1, <3>2
  <2> QED BY <2>1, <2>5
<1>2. QueueInv /\ LoadInv /\ [Next]_vars
        => [phase # "idle" /\ phase' # "idle"
              => Work' < Work \/ UNCHANGED <<phase, batch, todo>>]_vars
  <2> SUFFICES ASSUME QueueInv, LoadInv, [Next]_vars, phase # "idle", phase' # "idle"
               PROVE  Work' < Work \/ UNCHANGED <<phase, batch, todo>>
    OBVIOUS
  <2> DEFINE m == Cardinality(todo)
  <2>1. m \in Nat /\ IsFiniteSet(todo)
    BY <1>1
  <2>2. ASSUME NEW s \in todo, todo' = todo \ {s}, phase = "next", phase' \in {"next", "passes"}
        PROVE  Work' < Work
    <3>1. Cardinality(todo') = m - 1
      BY <2>1, <2>2, FS_RemoveElement
    <3>2. Work = 2 * m
      BY <2>1, <2>2 DEF Work
    <3> HIDE DEF m
    <3>3. Work' = 2 * (m - 1) \/ Work' = 2 * (m - 1) + 1
      BY <2>1, <3>1 DEF Work
    <3> QED BY <2>1, <3>2, <3>3
  <2>3. ASSUME phase = "passes", phase' = "next", todo' = todo
        PROVE  Work' < Work
    <3>1. Work = 2 * m + 1 /\ Work' = 2 * m + 0
      BY <2>3 DEF Work
    <3> HIDE DEF m
    <3> QED BY <2>1, <3>1
  <2> QED BY <2>2, <2>3, SessionSteps
<1> QED BY <1>1, <1>2, BatchIsLimited, QueueInvariant, PTL DEF Spec

(* And it is not for nothing: a drain that commits settles at least one    *)
(* scan that was queued until then, and changes the status of no other.    *)
THEOREM DrainSettles ==
  Spec => [][CommitBatch => /\ \E s \in Queued : status'[s] \in Terminal
                            /\ \A s \in Scans : status'[s] # status[s] => s \in Queued]_vars
<1>1. QueueInv /\ LoadInv
        => [CommitBatch => /\ \E s \in Queued : status'[s] \in Terminal
                           /\ \A s \in Scans : status'[s] # status[s] => s \in Queued]_vars
  <2> SUFFICES ASSUME QueueInv, LoadInv, CommitBatch
               PROVE  /\ \E s \in Queued : status'[s] \in Terminal
                      /\ \A s \in Scans : status'[s] # status[s] => s \in Queued
    OBVIOUS
  <2>1. PICK s \in batch : TRUE
    BY DEF LoadInv, CommitBatch
  <2> QED BY <2>1, BatchOutcome DEF Queued
<1> QED BY <1>1, BatchIsLimited, QueueInvariant, PTL DEF Spec
=============================================================================
