------------------------------ MODULE ScanQueue ------------------------------
(***************************************************************************)
(* The scan queue of the backend: the rows of the scans table, the API     *)
(* handler that enqueues a scan, the scheduler job that enqueues full      *)
(* scans, and the scheduler job that drains the queue.  Each of them works *)
(* in a database session of its own: one transaction, READ COMMITTED,      *)
(* autoflush off, committed at the end or rolled back as a whole.          *)
(***************************************************************************)
EXTENDS Naturals, FiniteSets

CONSTANTS
  Domains,               \* rows of the domains table
  Scans,                 \* identifiers for scan rows; their number bounds the table
  ScanTypes,             \* the scan types in use
  Requests,              \* handler threads that may serve POST /domains/{id}/scan
  Scheduler,             \* the scheduler job that enqueues full scans
  ScheduledScanEnabled,  \* settings.scheduled_scan_enabled
  DrainLimit,            \* 15 in process_queued_scan_job
  ScheduleLimit,         \* 50 in enqueue_scheduled_full_scans_job
  MaxFaults,             \* bound: database failures and process crashes per behaviour
  MaxOutages,            \* bound: rows removed or unverified by an operator
  NoDomain,              \* NULL in scans.domain_id
  NoScan                 \* no scan is being executed

AllScanTypes == {"subdomain", "tls", "dns", "bucket", "full"}

ASSUME QueueAssumption ==
  /\ IsFiniteSet(Domains) /\ IsFiniteSet(Scans) /\ IsFiniteSet(Requests)
  /\ ScanTypes \subseteq AllScanTypes /\ "full" \in ScanTypes
  /\ Scheduler \notin Requests
  /\ NoDomain \notin Domains /\ NoScan \notin Scans
  /\ ScheduledScanEnabled \in BOOLEAN
  /\ DrainLimit \in Nat \ {0} /\ ScheduleLimit \in Nat \ {0}
  /\ MaxFaults \in Nat /\ MaxOutages \in Nat

VARIABLES
  domain,        \* domains.verified, or "deleted" once the row is gone
  status,        \* scans.status as committed, "absent" before the row exists
  domain_id,     \* scans.domain_id
  scan_type,     \* scans.scan_type
  created_at,    \* scans.created_at: rows committed when the inserting transaction
                 \* began, so that rows of transactions as old as each other tie
  error,         \* the "error" of scans.result_summary, "none" without one
  settled,       \* history: how often the outcome of a scan was committed
  skipped,       \* history: how often a committed drain saw a scan and left it queued
  inserts,       \* rows that open transactions have decided to insert
  candidates,    \* domains the scheduler job still has to look at
  phase,         \* the drain job: "idle", "next" (between scans) or "passes"
  seen,          \* the scans that were queued when the drain selected its batch
  batch,         \* the scans the drain selected
  todo,          \* those of the batch that are not executed yet
  cur,           \* the scan whose passes run
  loaded,        \* scans.domain_id as the drain's session loaded it
  verdict,       \* status and error of the batch in the drain's session
  staged,        \* domains that unflushed rows of the session reference
  locked,        \* domains that flushed rows of the session lock
  faults,        \* database failures and crashes so far
  outages        \* operator interventions so far

rows == <<status, domain_id, scan_type, created_at, error, settled, skipped>>
enqueueing == <<inserts, candidates>>
session == <<phase, seen, batch, todo, cur, loaded, verdict, staged, locked>>
vars == <<domain, rows, enqueueing, session, faults, outages>>

Active == {"queued", "running"}
Terminal == {"completed", "failed"}
Enqueuers == Requests \cup (IF ScheduledScanEnabled THEN {Scheduler} ELSE {})
Rows == {s \in Scans : status[s] # "absent"}
Queued == {s \in Scans : status[s] = "queued"}
ActiveScans(d, t) ==
  {s \in Scans : status[s] \in Active /\ domain_id[s] = d /\ scan_type[s] = t}
Pending(e) == {p \in inserts : p.by = e}
Alive(d) == domain[d] # "deleted"

\* Bound: a transaction starts only while identifiers remain for its rows.
Room(n) ==
  Cardinality(Rows) + Cardinality(inserts) + Cardinality(candidates) + n
    <= Cardinality(Scans)

Init ==
  /\ domain = [d \in Domains |-> "unverified"]
  /\ status = [s \in Scans |-> "absent"]
  /\ domain_id = [s \in Scans |-> NoDomain]
  /\ scan_type = [s \in Scans |-> "full"]
  /\ created_at = [s \in Scans |-> 0]
  /\ error = [s \in Scans |-> "none"]
  /\ settled = [s \in Scans |-> 0]
  /\ skipped = [s \in Scans |-> 0]
  /\ inserts = {} /\ candidates = {}
  /\ phase = "idle" /\ seen = {} /\ batch = {} /\ todo = {} /\ cur = NoScan
  /\ loaded = [s \in Scans |-> NoDomain]
  /\ verdict = [s \in Scans |-> [status |-> "queued", error |-> "none"]]
  /\ staged = {} /\ locked = {}
  /\ faults = 0 /\ outages = 0

-----------------------------------------------------------------------------
(* The API: verification and enqueueing.                                   *)

(* The handler finds the TXT challenge and commits domain.verified = True. *)
VerifyDomain(d) ==
  /\ domain[d] = "unverified"
  /\ domain' = [domain EXCEPT ![d] = "verified"]
  /\ UNCHANGED <<rows, enqueueing, session, faults, outages>>

(* db.add(scan) and db.flush(): the row becomes visible only with the      *)
(* commit.  Its created_at is the beginning of the transaction, which may  *)
(* be long ago.                                                            *)
AddScan(r, d, t) ==
  /\ Pending(r) = {} /\ Alive(d) /\ Room(1)
  /\ \E began \in 0..Cardinality(Rows) :
       inserts' = inserts \cup {[by |-> r, domain |-> d, type |-> t, since |-> began]}
  /\ UNCHANGED <<domain, rows, candidates, session, faults, outages>>

\* Mutants of RequestScan: no check for an active scan, a check that looks at
\* running scans only, no check that the domain is verified.
RequestScanUnchecked(r, d, t) == domain[d] = "verified" /\ AddScan(r, d, t)
RequestScanIfNotRunning(r, d, t) ==
  /\ domain[d] = "verified"
  /\ \A s \in ActiveScans(d, t) : status[s] # "running"
  /\ AddScan(r, d, t)
RequestScanUnverified(r, d, t) == ActiveScans(d, t) = {} /\ AddScan(r, d, t)

(* The checks of enqueue_domain_scan and the insert.  A failed check       *)
(* answers 4xx and changes nothing.                                        *)
RequestScan(r, d, t) ==
  /\ domain[d] = "verified"
  /\ ActiveScans(d, t) = {}
  /\ AddScan(r, d, t)

(* Insert the rows of a transaction under fresh identifiers.               *)
InsertRows(P) ==
  \E id \in [P -> Scans \ Rows] :
    /\ \A p, q \in P : p # q => id[p] # id[q]
    /\ LET rowOf(s) == CHOOSE p \in P : id[p] = s
           new == {id[p] : p \in P}
       IN  /\ status' = [s \in Scans |-> IF s \in new THEN "queued" ELSE status[s]]
           /\ domain_id' = [s \in Scans |->
                IF s \in new THEN rowOf(s).domain ELSE domain_id[s]]
           /\ scan_type' = [s \in Scans |->
                IF s \in new THEN rowOf(s).type ELSE scan_type[s]]
           /\ created_at' = [s \in Scans |->
                IF s \in new THEN rowOf(s).since ELSE created_at[s]]
    /\ UNCHANGED <<error, settled, skipped>>

(* The request's transaction commits.                                      *)
CommitRequest(r) ==
  /\ Pending(r) # {}
  /\ \A p \in Pending(r) : Alive(p.domain)
  /\ InsertRows(Pending(r))
  /\ inserts' = inserts \ Pending(r)
  /\ UNCHANGED <<domain, candidates, session, faults, outages>>

(* The domain of the row was gone when the flush came: the insert violates *)
(* the foreign key and get_session rolls the request back.  (Once flushed, *)
(* the insert makes a deletion of the domain wait for the commit; a        *)
(* deletion in that window is the same as one just before the flush.)      *)
RejectRequest(r) ==
  /\ \E p \in Pending(r) : ~Alive(p.domain)
  /\ inserts' = inserts \ Pending(r)
  /\ UNCHANGED <<domain, rows, candidates, session, faults, outages>>

-----------------------------------------------------------------------------
(* The scheduler job that enqueues full scans of verified domains.         *)

SchedulerIdle == candidates = {} /\ Pending(Scheduler) = {}

(* Select at most ScheduleLimit verified domains, in no particular order.  *)
SelectDomains ==
  /\ ScheduledScanEnabled /\ SchedulerIdle
  /\ \E D \in SUBSET {d \in Domains : domain[d] = "verified"} :
       /\ D # {}
       /\ Cardinality(D) <= ScheduleLimit
       /\ \/ Cardinality(D) = ScheduleLimit
          \/ D = {d \in Domains : domain[d] = "verified"}
       /\ Room(Cardinality(D))
       /\ candidates' = {[domain |-> d, since |-> Cardinality(Rows)] : d \in D}
  /\ UNCHANGED <<domain, rows, inserts, session, faults, outages>>

(* One iteration of the loop: a statement, so a snapshot, of its own.      *)
ConsiderDomain(c) ==
  /\ c \in candidates
  /\ candidates' = candidates \ {c}
  /\ inserts' = IF ActiveScans(c.domain, "full") # {} THEN inserts
                ELSE inserts \cup {[by |-> Scheduler, domain |-> c.domain,
                                    type |-> "full", since |-> c.since]}
  /\ UNCHANGED <<domain, rows, session, faults, outages>>

CommitSchedule ==
  /\ candidates = {} /\ Pending(Scheduler) # {}
  /\ \A p \in Pending(Scheduler) : Alive(p.domain)
  /\ InsertRows(Pending(Scheduler))
  /\ inserts' = inserts \ Pending(Scheduler)
  /\ UNCHANGED <<domain, candidates, session, faults, outages>>

(* One deleted domain loses the whole round.                               *)
RejectSchedule ==
  /\ candidates = {}
  /\ \E p \in Pending(Scheduler) : ~Alive(p.domain)
  /\ inserts' = inserts \ Pending(Scheduler)
  /\ UNCHANGED <<domain, rows, candidates, session, faults, outages>>

-----------------------------------------------------------------------------
(* The drain job: one session for the whole batch.                         *)

EmptySession ==
  /\ phase' = "idle" /\ seen' = {} /\ batch' = {} /\ todo' = {} /\ cur' = NoScan
  /\ loaded' = [s \in Scans |-> NoDomain]
  /\ verdict' = [s \in Scans |-> [status |-> "queued", error |-> "none"]]
  /\ staged' = {} /\ locked' = {}

(* The poll that finds no queued scan.                                     *)
PollEmptyQueue ==
  /\ phase = "idle" /\ Queued = {}
  /\ UNCHANGED vars

(* LIMIT DrainLimit: all of S, or DrainLimit of them.                      *)
Limited(S) ==
  {B \in SUBSET S : Cardinality(B) <= DrainLimit /\ (Cardinality(B) = DrainLimit \/ B = S)}

(* The drain's session loads the scans of B, which come first in S.        *)
Load(S, B) ==
  /\ phase = "idle" /\ S # {}
  /\ batch' = B /\ todo' = B /\ seen' = S
  /\ loaded' = domain_id
  /\ phase' = "next"
  /\ UNCHANGED <<domain, rows, enqueueing, cur, verdict, staged, locked, faults, outages>>

\* Mutants of SelectBatch: no ORDER BY, no WHERE, failed scans retried.
SelectBatchUnordered == \E B \in Limited(Queued) : Load(Queued, B)
SelectBatchOfAnyStatus == \E B \in Limited(Rows) : Load(Rows, B)
SelectBatchWithFailed ==
  LET S == {s \in Scans : status[s] \in {"queued", "failed"}}
  IN  \E B \in Limited(S) : Load(S, B)

(* WHERE queued ORDER BY created_at LIMIT; ties come in any order.         *)
SelectBatch ==
  \E B \in Limited(Queued) :
    /\ \A s \in B, u \in Queued \ B : created_at[s] <= created_at[u]
    /\ Load(Queued, B)

IsNext(s) ==
  /\ phase = "next" /\ s \in todo
  /\ \A u \in todo : created_at[s] <= created_at[u]

\* Mutant of TurnAway: it raises, so the batch is rolled back, and met again.
TurnAwayRaising(s, why) ==
  /\ IsNext(s)
  /\ EmptySession
  /\ UNCHANGED <<domain, rows, enqueueing, faults, outages>>

(* execute_scan turns a scan away before it probes anything.               *)
TurnAway(s, why) ==
  /\ IsNext(s)
  /\ todo' = todo \ {s}
  /\ verdict' = [verdict EXCEPT ![s] = [status |-> "failed", error |-> why]]
  /\ UNCHANGED <<domain, rows, enqueueing, phase, seen, batch, cur, loaded,
                 staged, locked, faults, outages>>

MissingDomain(s) == loaded[s] = NoDomain /\ TurnAway(s, "missing_domain_id")

DomainNotFound(s) ==
  /\ loaded[s] # NoDomain /\ ~Alive(loaded[s])
  /\ TurnAway(s, "domain_not_found")

\* Mutant of DomainNotVerified: it records the state of the domain as the error.
DomainNotVerifiedRaw(s) ==
  /\ loaded[s] # NoDomain /\ domain[loaded[s]] = "unverified"
  /\ TurnAway(s, domain[loaded[s]])

DomainNotVerified(s) ==
  /\ loaded[s] # NoDomain /\ domain[loaded[s]] = "unverified"
  /\ TurnAway(s, "domain_not_verified")

(* execute_scan marks the scan running, in its session, and probes.        *)
BeginPasses(s) ==
  /\ IsNext(s)
  /\ loaded[s] # NoDomain /\ domain[loaded[s]] = "verified"
  /\ todo' = todo \ {s}
  /\ cur' = s /\ phase' = "passes"
  /\ verdict' = [verdict EXCEPT ![s] = [status |-> "running", error |-> "none"]]
  /\ UNCHANGED <<domain, rows, enqueueing, seen, batch, loaded, staged, locked,
                 faults, outages>>

ExecuteScan(s) ==
  MissingDomain(s) \/ DomainNotFound(s) \/ DomainNotVerified(s) \/ BeginPasses(s)

(* A pass adds rows that reference the domain, without a flush.            *)
StageRows ==
  /\ phase = "passes"
  /\ staged' = staged \cup {loaded[cur]}
  /\ UNCHANGED <<domain, rows, enqueueing, phase, seen, batch, todo, cur, loaded,
                 verdict, locked, faults, outages>>

(* A pass creates an asset and flushes: everything staged goes to the      *)
(* database, with the dirty scan rows, and locks the rows it references.   *)
FlushRows ==
  /\ phase = "passes"
  /\ \A d \in staged \cup {loaded[cur]} : Alive(d)
  /\ locked' = locked \cup staged \cup {loaded[cur]}
                 \cup ({domain_id[s] : s \in batch \ todo} \ {NoDomain})
  /\ staged' = {}
  /\ UNCHANGED <<domain, rows, enqueueing, phase, seen, batch, todo, cur, loaded,
                 verdict, faults, outages>>

(* The scan was loaded from a String(32) column, so scan.scan_type is a    *)
(* plain str, and scan.scan_type.value in the arguments of the             *)
(* scan_completed log call raises once the passes have returned.           *)
LoadedScanTypeHasValue == FALSE

PassesEnd(outcome) ==
  /\ phase = "passes"
  /\ verdict' = [verdict EXCEPT ![cur] = outcome]
  /\ phase' = "next" /\ cur' = NoScan
  /\ UNCHANGED <<domain, rows, enqueueing, seen, batch, todo, loaded, staged,
                 locked, faults, outages>>

PassesReturn ==
  PassesEnd(IF LoadedScanTypeHasValue
            THEN [status |-> "completed", error |-> "none"]
            ELSE [status |-> "failed", error |-> "attribute_error"])

PassesRaise == PassesEnd([status |-> "failed", error |-> "pass_raised"])

(* The outcomes of the whole batch become visible.                         *)
PublishBatch ==
  /\ status' = [s \in Scans |-> IF s \in batch THEN verdict[s].status ELSE status[s]]
  /\ error' = [s \in Scans |-> IF s \in batch THEN verdict[s].error ELSE error[s]]
  /\ settled' = [s \in Scans |-> IF s \in batch THEN settled[s] + 1 ELSE settled[s]]
  /\ skipped' = [s \in Scans |->
       IF s \in seen \ batch THEN skipped[s] + 1 ELSE skipped[s]]
  /\ EmptySession
  /\ UNCHANGED <<domain, domain_id, scan_type, created_at, enqueueing, faults, outages>>

(* _session_cm commits.                                                    *)
CommitBatch ==
  /\ phase = "next" /\ todo = {}
  /\ \A d \in staged : Alive(d)
  /\ PublishBatch

(* A flush or the commit meets a row whose domain is gone.                 *)
ForeignKeyViolated ==
  \/ phase = "passes" /\ \E d \in staged \cup {loaded[cur]} : ~Alive(d)
  \/ phase = "next" /\ todo = {} /\ \E d \in staged : ~Alive(d)

\* Mutant of RejectBatch: what was done so far is committed.
RejectBatchKeepingRows == ForeignKeyViolated /\ PublishBatch

(* execute_scan cannot absorb the violation: the session refuses every     *)
(* statement until it is rolled back, so the whole batch stays queued.     *)
RejectBatch ==
  /\ ForeignKeyViolated
  /\ EmptySession
  /\ UNCHANGED <<domain, rows, enqueueing, faults, outages>>

-----------------------------------------------------------------------------
(* The environment.                                                        *)

(* The database fails an open transaction: its owner rolls back.           *)
DatabaseFailure ==
  /\ faults < MaxFaults /\ faults' = faults + 1
  /\ \/ /\ \E r \in Requests :
             Pending(r) # {} /\ inserts' = inserts \ Pending(r)
        /\ UNCHANGED <<candidates, session>>
     \/ /\ ~SchedulerIdle
        /\ inserts' = inserts \ Pending(Scheduler)
        /\ candidates' = {}
        /\ UNCHANGED session
     \/ /\ phase # "idle"
        /\ EmptySession
        /\ UNCHANGED enqueueing
  /\ UNCHANGED <<domain, rows, outages>>

(* The process dies and restarts: every open transaction is gone.          *)
Crash ==
  /\ faults < MaxFaults
  /\ faults' = faults + 1
  /\ inserts' = {} /\ candidates' = {}
  /\ EmptySession
  /\ UNCHANGED <<domain, rows, outages>>

\* Mutants of DeleteDomain: the foreign key of scans without ON DELETE SET NULL,
\* and with ON DELETE CASCADE.
DeleteDomainKeepingIds(d) ==
  /\ outages < MaxOutages /\ outages' = outages + 1
  /\ Alive(d) /\ d \notin locked
  /\ domain' = [domain EXCEPT ![d] = "deleted"]
  /\ UNCHANGED <<rows, enqueueing, session, faults>>
DeleteDomainWithScans(d) ==
  /\ outages < MaxOutages /\ outages' = outages + 1
  /\ Alive(d) /\ d \notin locked
  /\ domain' = [domain EXCEPT ![d] = "deleted"]
  /\ status' = [s \in Scans |-> IF domain_id[s] = d THEN "absent" ELSE status[s]]
  /\ UNCHANGED <<domain_id, scan_type, created_at, error, settled, skipped, enqueueing,
                 session, faults>>

(* An operator deletes a domain row: scans.domain_id is set to NULL.  The  *)
(* statement waits for the locks the drain's session holds.                *)
DeleteDomain(d) ==
  /\ outages < MaxOutages /\ outages' = outages + 1
  /\ Alive(d) /\ d \notin locked
  /\ domain' = [domain EXCEPT ![d] = "deleted"]
  /\ domain_id' = [s \in Scans |-> IF domain_id[s] = d THEN NoDomain ELSE domain_id[s]]
  /\ UNCHANGED <<status, scan_type, created_at, error, settled, skipped, enqueueing,
                 session, faults>>

(* An operator withdraws the verification of a domain.                     *)
UnverifyDomain(d) ==
  /\ outages < MaxOutages /\ outages' = outages + 1
  /\ domain[d] = "verified"
  /\ domain' = [domain EXCEPT ![d] = "unverified"]
  /\ UNCHANGED <<rows, enqueueing, session, faults>>

-----------------------------------------------------------------------------
Api ==
  \/ \E d \in Domains : VerifyDomain(d)
  \/ \E r \in Requests :
       \/ \E d \in Domains, t \in ScanTypes : RequestScan(r, d, t)
       \/ CommitRequest(r)
       \/ RejectRequest(r)

EnqueueJob ==
  \/ SelectDomains
  \/ \E c \in candidates : ConsiderDomain(c)
  \/ CommitSchedule
  \/ RejectSchedule

DrainJob ==
  \/ PollEmptyQueue
  \/ SelectBatch
  \/ \E s \in Scans : ExecuteScan(s)
  \/ StageRows
  \/ FlushRows
  \/ PassesReturn
  \/ PassesRaise
  \/ CommitBatch
  \/ RejectBatch

Environment ==
  \/ DatabaseFailure
  \/ Crash
  \/ \E d \in Domains : DeleteDomain(d) \/ UnverifyDomain(d)

Next == Api \/ EnqueueJob \/ DrainJob \/ Environment

(* The interval trigger of the drain job keeps firing, and a drain that    *)
(* runs keeps running: every probe has a timeout, so passes end.           *)
Fairness ==
  /\ WF_vars(SelectBatch)
  /\ WF_vars(\E s \in Scans : ExecuteScan(s))
  /\ WF_vars(PassesReturn \/ PassesRaise)
  /\ WF_vars(CommitBatch \/ RejectBatch)

Spec == Init /\ [][Next]_vars
FairSpec == Spec /\ Fairness

-----------------------------------------------------------------------------
(* Properties.                                                             *)

Outcome == [status : {"queued", "running"} \cup Terminal,
            error : {"none", "missing_domain_id", "domain_not_found",
                     "domain_not_verified", "attribute_error", "pass_raised"}]

Insert == [by : Requests \cup {Scheduler}, domain : Domains, type : ScanTypes, since : Nat]

(* The type of every variable.                                             *)
TypeOK ==
  /\ domain \in [Domains -> {"unverified", "verified", "deleted"}]
  /\ status \in [Scans -> {"absent"} \cup Active \cup Terminal]
  /\ domain_id \in [Scans -> Domains \cup {NoDomain}]
  /\ scan_type \in [Scans -> ScanTypes]
  /\ created_at \in [Scans -> Nat]
  /\ error \in [Scans -> {"none", "missing_domain_id", "domain_not_found",
                          "domain_not_verified", "attribute_error", "pass_raised"}]
  /\ settled \in [Scans -> Nat]
  /\ skipped \in [Scans -> Nat]
  /\ inserts \subseteq Insert
  /\ candidates \subseteq [domain : Domains, since : Nat]
  /\ phase \in {"idle", "next", "passes"}
  /\ seen \subseteq Scans /\ batch \subseteq Scans /\ todo \subseteq Scans
  /\ cur \in Scans \cup {NoScan}
  /\ loaded \in [Scans -> Domains \cup {NoDomain}]
  /\ verdict \in [Scans -> Outcome]
  /\ staged \subseteq Domains /\ locked \subseteq Domains
  /\ faults \in 0..MaxFaults /\ outages \in 0..MaxOutages

(* A crash, a database failure or a rolled back batch never leaves a scan  *)
(* committed as running: execute_scan writes "running" only inside the     *)
(* drain's transaction and replaces it before the commit.  A row stuck in  *)
(* running would answer every later request for its domain with 409.       *)
NeverStuckRunning == \A s \in Scans : status[s] # "running"

(* What the drain's session holds agrees with what is committed: the scans *)
(* it loaded are still queued, whoever enqueued, deleted or unverified     *)
(* meanwhile, and every scan it is done with has an outcome to commit.     *)
SessionInv ==
  /\ todo \subseteq batch /\ batch \subseteq seen /\ seen \subseteq Queued
  /\ phase = "idle" => seen = {}
  /\ phase = "passes" => cur \in batch \ todo /\ loaded[cur] \in Domains
  /\ phase # "passes" => cur = NoScan
  /\ \A s \in batch \ todo : s # cur => verdict[s].status \in Terminal

(* The outcome of a scan is committed exactly once, whatever the crashes,  *)
(* retries and rollbacks: a scan is terminal iff one commit settled it.    *)
SettledOnce ==
  \A s \in Scans : settled[s] = IF status[s] \in Terminal THEN 1 ELSE 0

(* With n transactions that can enqueue at the same time, the check of     *)
(* enqueue_domain_scan and of the scheduler job lets at most n scans of    *)
(* one type be active for one domain.                                      *)
DuplicatesBounded ==
  \A d \in Domains, t \in ScanTypes :
    Cardinality(ActiveScans(d, t)) <= Cardinality(Enqueuers)

(* The duplicates bound made inductive: whoever waits to commit a scan of  *)
(* a type for a domain has passed the check, and counts already.           *)
WaitingFor(d, t) ==
  {p.by : p \in {q \in inserts : q.domain = d /\ q.type = t}}

EnqueueInv ==
  /\ \A p, q \in inserts :
       /\ p.by = q.by /\ p.domain = q.domain /\ p.type = q.type => p = q
       /\ p.by = q.by /\ p.by \in Requests => p = q
  /\ \A p \in inserts : p.by = Scheduler => p.type = "full" /\ ScheduledScanEnabled
  /\ \A c \in candidates :
       /\ \A b \in candidates : b.domain = c.domain => b = c
       /\ \A p \in Pending(Scheduler) : p.domain # c.domain
  /\ candidates # {} => ScheduledScanEnabled
  /\ \A d \in Domains, t \in ScanTypes :
       Cardinality(ActiveScans(d, t)) + Cardinality(WaitingFor(d, t))
         <= Cardinality(Enqueuers)

(* What the 409 answer of enqueue_domain_scan says: a scan is not enqueued *)
(* while one of its type is queued or running for the domain.              *)
OneActiveScan ==
  \A d \in Domains, t \in ScanTypes : Cardinality(ActiveScans(d, t)) <= 1

(* A queued scan waits only for older ones: every committed drain that saw *)
(* it and left it in the queue settled DrainLimit scans not younger than   *)
(* it (ORDER BY created_at LIMIT in drain_scan_queue).                     *)
BoundedWait ==
  \A s \in Scans :
    skipped[s] * DrainLimit
      <= Cardinality({u \in Scans : status[u] \in Terminal
                                      /\ created_at[u] <= created_at[s]})

(* The wait bound made inductive: the batch of a drain comes before what   *)
(* the drain leaves, and is full if it leaves anything.                    *)
BatchInv ==
  /\ \A s \in batch, u \in seen \ batch : created_at[s] <= created_at[u]
  /\ seen # batch => Cardinality(batch) = DrainLimit
  /\ \A s \in Scans : status[s] = "absent" => skipped[s] = 0

(* A scan that failed for want of a domain has none: the row was deleted   *)
(* before the drain loaded the scan, or between that and db.get(Domain).   *)
DomainlessFailures ==
  \A s \in Scans :
    error[s] \in {"missing_domain_id", "domain_not_found"} => domain_id[s] = NoDomain

(* Without operators at the tables no accepted scan is turned away: what   *)
(* enqueue_domain_scan and the scheduler job checked before they added the *)
(* row still holds when execute_scan checks it again.                      *)
TurnedAwayAfterOutage ==
  \A s \in Scans :
    error[s] \in {"missing_domain_id", "domain_not_found", "domain_not_verified"}
      => outages > 0

(* A scan fails only when execute_scan turned it away or one of its passes *)
(* raised; a scan whose passes all return is completed.                    *)
FailuresHaveACause ==
  \A s \in Scans :
    status[s] = "failed" =>
      error[s] \in {"missing_domain_id", "domain_not_found",
                    "domain_not_verified", "pass_raised"}

(* The outcome of a settled scan never changes again.                      *)
OutcomeIsFinal ==
  [][\A s \in Scans : status[s] \in Terminal =>
       status'[s] = status[s] /\ error'[s] = error[s]]_vars

(* Every queued scan is settled in the end.                                *)
QueuedIsSettled ==
  \A s \in Scans : status[s] = "queued" ~> status[s] \in Terminal

(* Refinement: what clients see of the queue is the ledger of ScanLedger.  *)
Ledger == INSTANCE ScanLedger
  WITH job <- [s \in Scans |->
                 IF status[s] = "absent" THEN "absent"
                 ELSE IF status[s] \in Active THEN "queued" ELSE "settled"],
       receipts <- settled

LedgerSpec == Ledger!LedgerSpec
=============================================================================
