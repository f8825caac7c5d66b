----------------------------- MODULE Schedule -----------------------------
(***************************************************************************)
(* The scheduled scans against the clock: how long a verified domain waits *)
(* for its next full scan.  enqueue_scheduled_full_scans_job runs once per *)
(* interval, counted in memory from the start of the process, over at most *)
(* Limit verified domains that the database picks, as one transaction.     *)
(* The queue that settles the scans is ScanQueue, here the action Settle.  *)
(***************************************************************************)
EXTENDS Naturals, FiniteSets

CONSTANTS
  Domains,       \* identifiers for rows of domains
  Interval,      \* max(1, SCHEDULED_SCAN_INTERVAL_HOURS), in ticks
  Limit,         \* 50 in enqueue_scheduled_full_scans_job
  MaxMisses      \* bound: what can go wrong while one domain waits

ASSUME ScheduleAssumption ==
  /\ IsFiniteSet(Domains)
  /\ Interval \in Nat \ {0} /\ Limit \in Nat \ {0} /\ MaxMisses \in Nat

VARIABLES
  row,           \* domains: "unverified", "verified" or "deleted"
  active,        \* domains with a committed full scan that is queued or running
  clock,         \* ticks since the job fired last, or the process started
  job,           \* "idle" or "running"
  todo,          \* domains the job has selected and not considered yet
  staged,        \* domains it has added a scan for
  wait,          \* history: ticks a domain has been due, rounds without it excused
  misses         \* history: what went wrong for it meanwhile

session == <<job, todo, staged>>
vars == <<row, active, clock, session, wait, misses>>

Verified == {d \in Domains : row[d] = "verified"}

(* The domains that should get a scheduled scan.                           *)
Due == Verified \ active

(* The history of a step that takes ticks ticks and goes wrong for missed. *)
Record(ticks, missed) ==
  /\ wait' = [d \in Domains |-> IF d \in Due' THEN wait[d] + ticks ELSE 0]
  /\ misses' = [d \in Domains |->
       IF d \notin Due' THEN 0 ELSE IF d \in missed THEN misses[d] + 1 ELSE misses[d]]

Bearable(missed) == \A d \in missed : misses[d] < MaxMisses

Init ==
  /\ row = [d \in Domains |-> "unverified"] /\ active = {}
  /\ clock = 0 /\ job = "idle" /\ todo = {} /\ staged = {}
  /\ wait = [d \in Domains |-> 0] /\ misses = [d \in Domains |-> 0]

-----------------------------------------------------------------------------
(* The clock and the scheduler.                                            *)

Tick ==
  /\ clock < Interval
  /\ clock' = clock + 1
  /\ UNCHANGED <<row, active, session>>
  /\ Record(1, {})

(* LIMIT without ORDER BY: any Limit of the verified domains.              *)
Selections ==
  {S \in SUBSET Verified :
     Cardinality(S) = IF Cardinality(Verified) > Limit THEN Limit ELSE Cardinality(Verified)}

(* What a wait comes to when a round that left the domain out is excused.  *)
Excused(ticks) == IF ticks > Interval THEN ticks - Interval ELSE 0

FireJob ==
  /\ clock = Interval /\ job = "idle"
  /\ todo' \in Selections
  /\ clock' = 0 /\ job' = "running"
  /\ wait' = [d \in Domains |-> IF d \in todo' THEN wait[d] ELSE Excused(wait[d])]
  /\ UNCHANGED <<row, active, staged, misses>>

(* The job still runs (max_instances=1), or its thread comes too late.     *)
SkipJob ==
  /\ clock = Interval
  /\ Bearable(Due)
  /\ clock' = 0
  /\ UNCHANGED <<row, active, session>>
  /\ Record(0, Due)

-----------------------------------------------------------------------------
(* One run of the job.                                                     *)

\* Mutant of ConsiderDomain: it waits for the end of an active scan.
ConsiderDomainInactive(d) ==
  /\ job = "running" /\ d \in todo \ active
  /\ todo' = todo \ {d} /\ staged' = staged \cup {d}
  /\ UNCHANGED <<row, active, clock, job>>
  /\ Record(0, {})

(* A domain deleted meanwhile has no active scan, so it gets a row as well.*)
ConsiderDomain(d) ==
  /\ job = "running" /\ d \in todo
  /\ todo' = todo \ {d}
  /\ staged' = IF d \in active THEN staged ELSE staged \cup {d}
  /\ UNCHANGED <<row, active, clock, job>>
  /\ Record(0, {})

Gone == {d \in Domains : row[d] = "deleted"}
EndJob == job' = "idle" /\ todo' = {} /\ staged' = {}

\* Mutant of CommitJob: the next interval begins when the job has ended.
CommitJobAndRewind ==
  /\ job = "running" /\ todo = {} /\ staged \cap Gone = {}
  /\ active' = active \cup staged
  /\ EndJob
  /\ clock' = 0 /\ UNCHANGED row
  /\ Record(0, {})

CommitJob ==
  /\ job = "running" /\ todo = {} /\ staged \cap Gone = {}
  /\ active' = active \cup staged
  /\ EndJob
  /\ UNCHANGED <<row, clock>>
  /\ Record(0, {})

\* Mutant of LoseJob: the rows stay in the session.
LoseJobKeepingRows ==
  /\ job = "running"
  /\ (todo = {} /\ staged \cap Gone # {}) \/ Bearable(todo \cup staged)
  /\ job' = "idle" /\ todo' = {}
  /\ UNCHANGED <<row, active, clock, staged>>
  /\ Record(0, todo \cup staged)

(* One row of a deleted domain, or a failing database, costs all of them.  *)
LoseJob ==
  /\ job = "running"
  /\ (todo = {} /\ staged \cap Gone # {}) \/ Bearable(todo \cup staged)
  /\ EndJob
  /\ UNCHANGED <<row, active, clock>>
  /\ Record(0, todo \cup staged)

(* The process stops or dies, and starts again with a new scheduler.  The  *)
(* job it was running is lost first.                                       *)
Restart ==
  /\ job = "idle"
  /\ Bearable(Due)
  /\ clock' = 0
  /\ UNCHANGED <<row, active, session>>
  /\ Record(0, Due)

-----------------------------------------------------------------------------
(* The rest of the program, and operators at the domains table.            *)

Settle(d) ==
  /\ d \in active
  /\ active' = active \ {d}
  /\ UNCHANGED <<row, clock, session>>
  /\ Record(0, {})

RequestScan(d) ==
  /\ d \in Due
  /\ active' = active \cup {d}
  /\ UNCHANGED <<row, clock, session>>
  /\ Record(0, {})

SetRow(d, value) ==
  /\ row' = [row EXCEPT ![d] = value]
  /\ UNCHANGED <<clock, session>>
  /\ Record(0, {})

VerifyDomain(d) ==
  row[d] = "unverified" /\ UNCHANGED active /\ SetRow(d, "verified")
UnverifyDomain(d) ==
  row[d] = "verified" /\ UNCHANGED active /\ SetRow(d, "unverified")
DeleteDomain(d) ==
  row[d] # "deleted" /\ active' = active \ {d} /\ SetRow(d, "deleted")

Next ==
  \/ Tick \/ FireJob \/ SkipJob \/ CommitJob \/ LoseJob \/ Restart
  \/ \E d \in Domains :
       \/ ConsiderDomain(d)
       \/ Settle(d) \/ RequestScan(d)
       \/ VerifyDomain(d) \/ UnverifyDomain(d) \/ DeleteDomain(d)

(* Time passes, the scheduler and its threads run, and the drain job       *)
(* settles what is queued.                                                 *)
Fairness ==
  /\ WF_vars(Tick) /\ WF_vars(FireJob) /\ WF_vars(CommitJob \/ LoseJob)
  /\ \A d \in Domains : WF_vars(ConsiderDomain(d)) /\ WF_vars(Settle(d))

Spec == Init /\ [][Next]_vars
FairSpec == Spec /\ Fairness

-----------------------------------------------------------------------------
(* Properties.                                                             *)

(* The type of every variable; a job that is over leaves nothing behind.   *)
TypeOK ==
  /\ row \in [Domains -> {"unverified", "verified", "deleted"}]
  /\ active \subseteq Domains
  /\ clock \in 0..Interval
  /\ job \in {"idle", "running"}
  /\ todo \subseteq Domains /\ staged \subseteq Domains
  /\ job = "idle" => todo = {} /\ staged = {}
  /\ wait \in [Domains -> Nat] /\ misses \in [Domains -> Nat]

(* No verified domain waits for its next scan longer than one interval,    *)
(* and one more for each thing that goes wrong meanwhile: a restart, a run *)
(* of the job that is skipped or lost, or a round that leaves it out.      *)
(* A run that is going on may take its time as well.                       *)
BoundedGap ==
  \A d \in Due :
    wait[d] <= Interval * (misses[d] + 1) + (IF job = "idle" THEN 0 ELSE Interval)

(* The rounds leave out no more domains than exceed the limit of the       *)
(* query: of any group that is larger than this excess, one domain gets a  *)
(* scan again and again.  A group may be a single domain only as long as   *)
(* the limit covers all verified domains, so each of them is scanned then; *)
(* beyond it, nothing keeps the rounds from leaving out the same one.      *)
EveryDomainScanned ==
  \A D \in SUBSET Domains \ {{}} :
    []<>(\/ \E d \in D : d \in active \/ d \notin Verified
         \/ Cardinality(Verified) >= Limit + Cardinality(D))
=============================================================================
