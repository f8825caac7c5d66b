-------------------------- MODULE Schedule_proofs --------------------------
(***************************************************************************)
(* Proofs about Schedule, for every set of domains, interval and limit:    *)
(* types, and the bound on the wait of a verified domain.                  *)
(***************************************************************************)
EXTENDS Schedule, TLAPS

(* What an interval costs once more.                                       *)
LEMMA OneMore ==
  ASSUME NEW i \in Nat, NEW m \in Nat
  PROVE  i * m \in Nat /\ i * (m + 1) = i * m + i
OBVIOUS

-----------------------------------------------------------------------------
(* Types.                                                                  *)

(* The history keeps its type whatever a step records.                     *)
LEMMA RecordType ==
  ASSUME TypeOK, NEW ticks \in Nat, NEW missed, Record(ticks, missed)
  PROVE  wait' \in [Domains -> Nat] /\ misses' \in [Domains -> Nat]
BY DEF TypeOK, Record

(* A wait that is excused is less by an interval, and not less than zero.  *)
LEMMA ExcusedType ==
  ASSUME ScheduleAssumption, NEW ticks \in Nat
  PROVE  /\ Excused(ticks) \in Nat
         /\ Excused(ticks) <= ticks
         /\ \A n \in Nat : ticks <= n + Interval => Excused(ticks) <= n
BY DEF ScheduleAssumption, Excused

(* Everything but the history.                                             *)
StateOK ==
  /\ row \in [Domains -> {"unverified", "verified", "deleted"}]
  /\ active \subseteq Domains
  /\ clock \in 0..Interval
  /\ job \in {"idle", "running"}
  /\ todo \subseteq Domains /\ staged \subseteq Domains
  /\ job = "idle" => todo = {} /\ staged = {}

(* Every step keeps these types.                                           *)
LEMMA StateType ==
  ASSUME ScheduleAssumption, StateOK, [Next]_vars
  PROVE  StateOK'
<1> USE DEF StateOK, ScheduleAssumption, session
<1>1. CASE Tick
  BY <1>1 DEF Tick
<1>2. CASE FireJob
  <2>1. todo' \subseteq Domains
    BY <1>2 DEF FireJob, Selections, Verified
  <2> QED BY <1>2, <2>1 DEF FireJob
<1>3. CASE SkipJob
  BY <1>3 DEF SkipJob
<1>4. CASE CommitJob
  BY <1>4 DEF CommitJob, EndJob
<1>5. CASE LoseJob
  BY <1>5 DEF LoseJob, EndJob
<1>6. CASE Restart
  BY <1>6 DEF Restart
<1>7. ASSUME NEW d \in Domains, ConsiderDomain(d)
      PROVE  StateOK'
  BY <1>7 DEF ConsiderDomain
<1>8. ASSUME NEW d \in Domains, Settle(d) \/ RequestScan(d)
      PROVE  StateOK'
  BY <1>8 DEF Settle, RequestScan
<1>9. ASSUME NEW d \in Domains, VerifyDomain(d) \/ UnverifyDomain(d) \/ DeleteDomain(d)
      PROVE  StateOK'
  BY <1>9 DEF VerifyDomain, UnverifyDomain, DeleteDomain, SetRow
<1>10. CASE UNCHANGED vars
  BY <1>10 DEF vars
<1> QED
  BY <1>1, <1>2, <1>3, <1>4, <1>5, <1>6, <1>7, <1>8, <1>9, <1>10 DEF Next

(* So it does with the history.                                            *)
LEMMA TypeStep ==
  ASSUME ScheduleAssumption, TypeOK, [Next]_vars
  PROVE  TypeOK'
<1> DEFINE HistoryOK == wait \in [Domains -> Nat] /\ misses \in [Domains -> Nat]
<1>1. SUFFICES HistoryOK'
  <2>1. StateOK'
    BY StateType DEF TypeOK, StateOK
  <2> QED BY <2>1 DEF TypeOK, StateOK
<1>2. ASSUME NEW missed, Record(0, missed) \/ Record(1, missed)
      PROVE  HistoryOK'
  BY <1>2, RecordType
<1>3. CASE Tick
  BY <1>3, <1>2 DEF Tick
<1>4. CASE FireJob
  BY <1>4, ExcusedType DEF FireJob, TypeOK
<1>5. CASE SkipJob
  BY <1>5, <1>2 DEF SkipJob
<1>6. CASE CommitJob \/ LoseJob
  BY <1>6, <1>2 DEF CommitJob, LoseJob
<1>7. CASE Restart
  BY <1>7, <1>2 DEF Restart
<1>8. ASSUME NEW d \in Domains, ConsiderDomain(d) \/ Settle(d) \/ RequestScan(d)
      PROVE  HistoryOK'
  BY <1>8, <1>2 DEF ConsiderDomain, Settle, RequestScan
<1>9. ASSUME NEW d \in Domains, VerifyDomain(d) \/ UnverifyDomain(d) \/ DeleteDomain(d)
      PROVE  HistoryOK'
  BY <1>9, <1>2 DEF VerifyDomain, UnverifyDomain, DeleteDomain, SetRow
<1>10. CASE UNCHANGED vars
  BY <1>10 DEF vars, TypeOK
<1> QED
  BY <1>3, <1>4, <1>5, <1>6, <1>7, <1>8, <1>9, <1>10 DEF Next

(* Every variable has its type, and a job that is over leaves nothing      *)
(* behind.                                                                 *)
THEOREM TypeCorrect == Spec => []TypeOK
<1>1. Init => TypeOK
  BY ScheduleAssumption DEF Init, TypeOK
<1>2. TypeOK /\ [Next]_vars => TypeOK'
  BY TypeStep, ScheduleAssumption
<1> QED BY <1>1, <1>2, PTL DEF Spec

-----------------------------------------------------------------------------
(* The bound on the wait.                                                  *)

(* What one domain has waited is paid for by its misses, by the clock and, *)
(* if the job is at it, by the interval before the job fired.              *)
Pending == todo \cup staged

Paid(d) ==
  wait[d] <= Interval * misses[d] + clock + (IF d \in Pending THEN Interval ELSE 0)

GapInv == \A d \in Domains : Paid(d)

(* What a step makes of the history of a domain that is due after it.      *)
LEMMA Recorded ==
  ASSUME TypeOK, NEW ticks \in Nat, NEW missed, Record(ticks, missed),
         NEW d \in Domains, d \in Due'
  PROVE  /\ wait'[d] = wait[d] + ticks
         /\ misses'[d] = IF d \in missed THEN misses[d] + 1 ELSE misses[d]
BY DEF TypeOK, Record

(* One that is not due has not waited.                                     *)
LEMMA NotDue ==
  ASSUME ScheduleAssumption, TypeOK', NEW ticks, NEW missed, Record(ticks, missed),
         NEW d \in Domains, d \notin Due'
  PROVE  Paid(d)'
<1>1. wait'[d] = 0 /\ misses'[d] = 0
  BY DEF Record
<1>2. Interval \in Nat /\ clock' \in Nat /\ Interval * 0 = 0
  BY DEF ScheduleAssumption, TypeOK
<1> QED BY <1>1, <1>2 DEF Paid

(* A step that neither moves the clock nor takes a domain from the job.    *)
LEMMA Undisturbed ==
  ASSUME ScheduleAssumption, TypeOK, TypeOK', Record(0, {}), clock' = clock,
         NEW d \in Domains, Paid(d), d \in Due', d \in Pending => d \in Pending'
  PROVE  Paid(d)'
<1>1. wait'[d] = wait[d] /\ misses'[d] = misses[d]
  BY Recorded DEF TypeOK
<1>2. /\ Interval \in Nat /\ clock \in Nat /\ wait[d] \in Nat /\ misses[d] \in Nat
      /\ Interval * misses[d] \in Nat
  BY OneMore DEF ScheduleAssumption, TypeOK
<1>3. CASE d \in Pending
  BY <1>1, <1>2, <1>3 DEF Paid
<1>4. CASE d \notin Pending
  BY <1>1, <1>2, <1>4 DEF Paid
<1> QED BY <1>3, <1>4

(* Every step leaves it paid.                                              *)
LEMMA GapStep ==
  ASSUME ScheduleAssumption, TypeOK, TypeOK', GapInv, [Next]_vars
  PROVE  GapInv'
<1> SUFFICES ASSUME NEW d \in Domains PROVE Paid(d)'
  BY DEF GapInv
<1>1. Paid(d)
  BY DEF GapInv
<1>2. CASE Tick
  <2>1. Record(1, {}) /\ clock' = clock + 1 /\ UNCHANGED <<todo, staged>>
    BY <1>2 DEF Tick, session
  <2>2. CASE d \in Due'
    <3>1. wait'[d] = wait[d] + 1 /\ misses'[d] = misses[d]
      BY <2>1, <2>2, Recorded
    <3>2. Pending' = Pending
      BY <2>1 DEF Pending
    <3>3. Interval * misses[d] \in Nat /\ Interval \in Nat /\ clock \in Nat /\ wait[d] \in Nat
      BY OneMore DEF ScheduleAssumption, TypeOK
    <3> QED BY <1>1, <2>1, <3>1, <3>2, <3>3 DEF Paid
  <2> QED BY <2>1, <2>2, NotDue
<1>3. CASE FireJob
  <2>1. /\ clock = Interval /\ Pending = {}
        /\ clock' = 0 /\ staged' = {} /\ misses'[d] = misses[d]
        /\ wait'[d] = IF d \in todo' THEN wait[d] ELSE Excused(wait[d])
    BY <1>3 DEF FireJob, TypeOK, Pending
  <2>2. Interval * misses[d] \in Nat /\ Interval \in Nat /\ wait[d] \in Nat
    BY OneMore DEF ScheduleAssumption, TypeOK
  <2>3. wait[d] <= Interval * misses[d] + Interval
    BY <1>1, <2>1, <2>2 DEF Paid
  <2>4. CASE d \in todo'
    BY <2>1, <2>2, <2>3, <2>4 DEF Paid, Pending
  <2>5. CASE d \notin todo'
    <3>1. wait'[d] <= Interval * misses[d]
      BY <2>1, <2>2, <2>3, <2>5, ExcusedType
    <3> QED BY <2>1, <2>2, <2>5, <3>1 DEF Paid, Pending
  <2> QED BY <2>4, <2>5
<1>4. CASE SkipJob \/ Restart
  <2>1. Record(0, Due) /\ clock' = 0 /\ UNCHANGED <<row, active, todo, staged>>
    BY <1>4 DEF SkipJob, Restart, session
  <2>2. CASE d \in Due'
    <3>1. d \in Due
      BY <2>1, <2>2 DEF Due, Verified
    <3>2. wait'[d] = wait[d] /\ misses'[d] = misses[d] + 1
      <4>1. wait'[d] = wait[d] + 0 /\ misses'[d] = misses[d] + 1
        BY <2>1, <2>2, <3>1, Recorded
      <4> QED BY <4>1 DEF TypeOK
    <3>3. /\ Interval * misses[d] \in Nat /\ Interval \in Nat /\ wait[d] \in Nat
          /\ Interval * (misses[d] + 1) = Interval * misses[d] + Interval
          /\ clock \in Nat /\ clock <= Interval
      BY OneMore DEF ScheduleAssumption, TypeOK
    <3>4. Pending' = Pending
      BY <2>1 DEF Pending
    <3> QED BY <1>1, <2>1, <3>2, <3>3, <3>4 DEF Paid
  <2> QED BY <2>1, <2>2, NotDue
<1>5. CASE LoseJob
  <2>1. Record(0, Pending) /\ clock' = clock /\ Pending' = {}
    BY <1>5 DEF LoseJob, EndJob, Pending
  <2>2. CASE d \in Due'
    <3>1. /\ wait'[d] = wait[d]
          /\ misses'[d] = IF d \in Pending THEN misses[d] + 1 ELSE misses[d]
      <4>1. /\ wait'[d] = wait[d] + 0
            /\ misses'[d] = IF d \in Pending THEN misses[d] + 1 ELSE misses[d]
        BY <2>1, <2>2, Recorded
      <4> QED BY <4>1 DEF TypeOK
    <3>2. /\ Interval * misses[d] \in Nat /\ Interval \in Nat /\ wait[d] \in Nat
          /\ Interval * (misses[d] + 1) = Interval * misses[d] + Interval /\ clock \in Nat
      BY OneMore DEF ScheduleAssumption, TypeOK
    <3> QED BY <1>1, <2>1, <3>1, <3>2 DEF Paid
  <2> QED BY <2>1, <2>2, NotDue
<1>6. ASSUME Record(0, {}), clock' = clock,
             d \in Due' /\ d \in Pending => d \in Pending'
      PROVE  Paid(d)'
  BY <1>1, <1>6, NotDue, Undisturbed
<1>7. CASE CommitJob
  <2>1. Record(0, {}) /\ clock' = clock /\ active' = active \cup staged /\ todo = {}
    BY <1>7 DEF CommitJob
  <2> QED BY <1>6, <2>1 DEF Due, Pending
<1>8. ASSUME NEW e \in Domains, ConsiderDomain(e)
      PROVE  Paid(d)'
  <2>1. /\ Record(0, {}) /\ clock' = clock /\ UNCHANGED active
        /\ todo' = todo \ {e}
        /\ staged' = IF e \in active THEN staged ELSE staged \cup {e}
    BY <1>8 DEF ConsiderDomain
  <2> QED BY <1>6, <2>1 DEF Due, Pending
<1>9. ASSUME NEW e \in Domains, Settle(e) \/ RequestScan(e)
      PROVE  Paid(d)'
  BY <1>6, <1>9 DEF Settle, RequestScan, session, Pending
<1>10. ASSUME NEW e \in Domains, VerifyDomain(e) \/ UnverifyDomain(e) \/ DeleteDomain(e)
       PROVE  Paid(d)'
  BY <1>6, <1>10 DEF VerifyDomain, UnverifyDomain, DeleteDomain, SetRow, session, Pending
<1>11. CASE UNCHANGED vars
  BY <1>1, <1>11 DEF vars, session, Paid, Pending
<1> QED
  BY <1>2, <1>3, <1>4, <1>5, <1>7, <1>8, <1>9, <1>10, <1>11 DEF Next

(* However the job, its losses and restarts of the process interleave, a   *)
(* verified domain waits one interval for its scan, and one more for each  *)
(* thing that goes wrong for it meanwhile or round that leaves it out.     *)
THEOREM GapIsBounded == Spec => []BoundedGap
<1>1. Init => GapInv
  <2> SUFFICES ASSUME Init, NEW d \in Domains PROVE Paid(d)
    BY DEF GapInv
  <2>1. Interval \in Nat /\ Interval * 0 = 0 /\ wait[d] = 0 /\ misses[d] = 0 /\ clock = 0
    BY ScheduleAssumption DEF ScheduleAssumption, Init
  <2> QED BY <2>1 DEF Paid
<1>2. TypeOK /\ TypeOK' /\ GapInv /\ [Next]_vars => GapInv'
  BY GapStep, ScheduleAssumption
<1>3. TypeOK /\ GapInv => BoundedGap
  <2> SUFFICES ASSUME TypeOK, GapInv, NEW d \in Due
               PROVE  wait[d] <= Interval * (misses[d] + 1) + (IF job = "idle" THEN 0 ELSE Interval)
    BY DEF BoundedGap
  <2>1. d \in Domains /\ Paid(d)
    BY DEF Due, Verified, GapInv
  <2>2. /\ Interval * misses[d] \in Nat /\ Interval \in Nat /\ wait[d] \in Nat
        /\ Interval * (misses[d] + 1) = Interval * misses[d] + Interval
        /\ clock \in Nat /\ clock <= Interval
    BY <2>1, OneMore, ScheduleAssumption DEF ScheduleAssumption, TypeOK
  <2>3. job = "idle" => d \notin Pending
    BY DEF TypeOK, Pending
  <2> QED BY <2>1, <2>2, <2>3 DEF Paid
<1> QED BY <1>1, <1>2, <1>3, TypeCorrect, PTL DEF Spec
=============================================================================
