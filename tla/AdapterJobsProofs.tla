------------------------- MODULE AdapterJobsProofs -------------------------
(***************************************************************************)
(* Proofs about AdapterJobs for any numbers of jobs and queries: types, no *)
(* duplicate work, back-pressure, and that a completed job has all its     *)
(* results.                                                                *)
(***************************************************************************)
EXTENDS AdapterJobs, FiniteSetTheorems, SequenceTheorems, TLAPS

-----------------------------------------------------------------------------
(* Types.                                                                  *)

LEMMA AdapterTypeInit == Init => TypeOK
  BY AdapterAssumption, SMT
  DEF Init, TypeOK, JobStatus, RequestStep, CoordStep, TaskStep, NoTasks, NoWait

\* The coordinator's variables at the end of process_one.
LEMMA NextJobTyped ==
  NextJob => /\ pc' \in CoordStep /\ cur' = NoJob /\ pc' = "idle"
             /\ task' \in [Queries -> TaskStep] /\ asked' \in [Queries -> 0..Rounds]
  BY AdapterAssumption, SMT DEF NextJob, NoTasks, NoWait, CoordStep, TaskStep

LEMMA AdapterTypeStep == TypeOK /\ [Next]_vars => TypeOK'
<1> SUFFICES ASSUME TypeOK, [Next]_vars PROVE TypeOK'
  OBVIOUS
<1> USE AdapterAssumption DEF TypeOK, redisVars, handlerVars, coordVars
<1>1. CASE \E j \in Jobs : submit_check(j)
  BY <1>1 DEF submit_check, RequestStep
<1>2. CASE \E j \in Jobs : create_job(j)
  BY <1>2 DEF create_job, RequestStep, JobStatus
<1>3. CASE \E j \in Jobs : enqueue(j)
  BY <1>3 DEF enqueue, RequestStep
<1>4. CASE \E j \in Jobs : poll_completed(j)
  BY <1>4 DEF poll_completed, RequestStep
<1>5. CASE \E j \in Jobs : poll_exhausted(j)
  BY <1>5 DEF poll_exhausted, RequestStep
<1>6. CASE \E j \in Jobs : cancel_read(j) \/ cancel_write(j)
  BY <1>6 DEF cancel_read, cancel_write, JobStatus
<1>7. CASE \E j \in Jobs : Expire(j)
  BY <1>7 DEF Expire, JobStatus
<1>8. CASE dequeue
  <2>1. Head(queue) \in Jobs /\ Tail(queue) \in Seq(Jobs)
    BY <1>8, HeadTailProperties DEF dequeue
  <2> QED
    BY <1>8, <2>1 DEF dequeue, AfterPop, CoordStep
<1>9. CASE check_cancelled \/ check_final \/ set_expiry
  <2>1. CASE NextJob
    BY <1>9, <2>1, NextJobTyped DEF check_cancelled, check_final, set_expiry
  <2>2. CASE ~NextJob
    BY <1>9, <2>2 DEF check_cancelled, check_final, set_expiry, CoordStep
  <2> QED
    BY <2>1, <2>2
<1>10. CASE mark_running \/ mark_completed \/ gathered
  BY <1>10 DEF mark_running, mark_completed, gathered, JobStatus, CoordStep, TaskStep
<1>11. CASE \E q \in Queries : TaskStepOf(q)
  <2> PICK q \in Queries : TaskStepOf(q)
    BY <1>11
  <2>1. pc = "gather" /\ cur \in Jobs
    BY DEF TaskStepOf, unsupported_mode, acquire_semaphore, check_before_query,
           query_returns, write_result
  <2>2. CASE unsupported_mode(q) \/ write_result(q)
    <3>1. /\ results' = [results EXCEPT ![cur] = @ \cup {q}]
          /\ task' = [task EXCEPT ![q] = "done"]
          /\ UNCHANGED <<hash, created, ttl, queue, handlerVars, pc, cur, asked, crashes>>
      BY <2>2 DEF unsupported_mode, write_result, store, TaskTo
    <3>2. results' \in [Jobs -> SUBSET Queries]
      BY <2>1, <3>1
    <3>3. task' \in [Queries -> TaskStep]
      BY <3>1 DEF TaskStep
    <3> QED
      BY <3>1, <3>2, <3>3
  <2>3. CASE acquire_semaphore(q) \/ check_before_query(q) \/ query_returns(q)
    BY <2>1, <2>3 DEF acquire_semaphore, check_before_query, query_returns, TaskTo,
                      TaskStep
  <2> QED
    BY <2>2, <2>3 DEF TaskStepOf
<1>12. CASE Tick
  <2>1. \A j \in Jobs : request[j] = "polling" => waited[j] # PollTicks
    BY <1>12 DEF Tick, Busy, PollsExhausted
  <2>2. \A q \in Queries : task[q] = "executing" => asked[q] # Rounds
    BY <1>12 DEF Tick, Busy
  <2>3. /\ PollTicks \in Nat /\ Rounds \in Nat
        /\ waited \in [Jobs -> 0..PollTicks] /\ asked \in [Queries -> 0..Rounds]
    BY AdapterAssumption
  <2>4. waited' \in [Jobs -> 0..PollTicks]
    BY <1>12, <2>1, <2>3 DEF Tick
  <2>5. asked' \in [Queries -> 0..Rounds]
    BY <1>12, <2>2, <2>3 DEF Tick
  <2> QED
    BY <1>12, <2>4, <2>5 DEF Tick
<1>13. CASE Crash
  BY <1>13, NextJobTyped DEF Crash, RequestStep
<1>14. CASE UNCHANGED vars
  BY <1>14 DEF vars
<1> QED
  BY <1>1, <1>2, <1>3, <1>4, <1>5, <1>6, <1>7, <1>8, <1>9, <1>10, <1>11, <1>12,
     <1>13, <1>14 DEF Next, HandlerStep, CoordinatorStep

(* The variables of the adapter's queue, handlers and coordinator have     *)
(* their types; in particular a poll loop waits no longer than its bound.  *)
THEOREM AdapterTypeCorrect == Spec => []TypeOK
<1> QED
  BY AdapterTypeInit, AdapterTypeStep, PTL DEF Spec

-----------------------------------------------------------------------------
(* No duplicate work.                                                      *)

(* A job is enqueued once, by its own submission: what is on the list or   *)
(* in the coordinator's hands was submitted.                               *)
Submitted(j) == request[j] \notin {"new", "checked", "created", "rejected"}

ListedSubmitted ==
    /\ \A i \in DOMAIN queue : Submitted(queue[i])
    /\ cur \in Jobs => Submitted(cur)
    /\ pc = "idle" => cur = NoJob

WorkInv == TypeOK /\ ListedSubmitted /\ NoDuplicateWork

LEMMA WorkInit == Init => WorkInv
  BY AdapterTypeInit, AdapterAssumption DEF Init, WorkInv, ListedSubmitted, NoDuplicateWork

\* A step that leaves the list alone, keeps the coordinator's job or drops it,
\* and withdraws no submission.
LEMMA QuietWorkStep ==
  ASSUME WorkInv, TypeOK', queue' = queue,
         cur' = cur \/ cur' = NoJob,
         pc' = "idle" => cur' = NoJob,
         \A j \in Jobs : Submitted(j) => Submitted(j)'
  PROVE  WorkInv'
<1>1. \A i \in DOMAIN queue : queue[i] \in Jobs /\ queue[i] # NoJob
  BY AdapterAssumption DEF WorkInv, TypeOK
<1>2. ListedSubmitted'
  <2>1. \A i \in DOMAIN queue : request'[queue[i]] \notin {"new", "checked", "created", "rejected"}
    BY <1>1 DEF WorkInv, ListedSubmitted, Submitted
  <2>2. cur' \in Jobs => cur' = cur /\ Submitted(cur)
    BY AdapterAssumption DEF WorkInv, ListedSubmitted
  <2> QED
    BY <2>1, <2>2 DEF ListedSubmitted, Submitted
<1>3. NoDuplicateWork'
  BY <1>1 DEF WorkInv, NoDuplicateWork
<1> QED
  BY <1>2, <1>3 DEF WorkInv

LEMMA WorkStep == WorkInv /\ [Next]_vars => WorkInv'
<1> SUFFICES ASSUME WorkInv, [Next]_vars PROVE WorkInv'
  OBVIOUS
<1>t. TypeOK /\ TypeOK'
  BY AdapterTypeStep DEF WorkInv
<1> USE <1>t DEF redisVars, handlerVars, coordVars
<1>1. CASE \E j \in Jobs : enqueue(j)
  <2> PICK j \in Jobs : enqueue(j)
    BY <1>1
  <2>1. /\ queue' = Append(queue, j) /\ cur' = cur /\ pc' = pc
        /\ ~Submitted(j) /\ Submitted(j)'
        /\ \A k \in Jobs : Submitted(k) => Submitted(k)'
    BY DEF enqueue, Submitted, TypeOK
  <2>2. /\ DOMAIN queue' = 1..(Len(queue) + 1) /\ DOMAIN queue = 1..Len(queue)
        /\ \A i \in DOMAIN queue : queue'[i] = queue[i] /\ queue[i] \in Jobs
        /\ queue'[Len(queue) + 1] = j /\ Len(queue) \in Nat
    BY <2>1 DEF TypeOK
  <2>3. \A i \in DOMAIN queue : queue[i] # j
    BY <2>1 DEF WorkInv, ListedSubmitted
  <2>4. cur # j
    BY <2>1 DEF WorkInv, ListedSubmitted
  <2>5. ListedSubmitted'
    BY <2>1, <2>2 DEF WorkInv, ListedSubmitted
  <2>6. NoDuplicateWork'
    BY <2>1, <2>2, <2>3, <2>4 DEF WorkInv, NoDuplicateWork
  <2> QED
    BY <2>5, <2>6 DEF WorkInv
<1>2. CASE dequeue
  <2>1. /\ Len(queue) \in Nat \ {0} /\ cur' = queue[1]
        /\ DOMAIN queue = 1..Len(queue)
        /\ DOMAIN queue' = 1..(Len(queue) - 1)
        /\ \A i \in DOMAIN queue' : i + 1 \in DOMAIN queue /\ queue'[i] = queue[i + 1]
    BY <1>2, EmptySeq, HeadTailProperties DEF dequeue, AfterPop, TypeOK
  <2>2. pc' = "dequeued" /\ request' = request
    BY <1>2 DEF dequeue
  <2>3. ListedSubmitted'
    BY <2>1, <2>2 DEF WorkInv, ListedSubmitted, Submitted
  <2>4. NoDuplicateWork'
    BY <2>1 DEF WorkInv, NoDuplicateWork
  <2> QED
    BY <2>3, <2>4 DEF WorkInv
<1>3. CASE \E j \in Jobs : submit_check(j) \/ create_job(j) \/ poll_completed(j)
                          \/ poll_exhausted(j)
  <2>1. /\ queue' = queue /\ cur' = cur /\ pc' = pc
        /\ \A k \in Jobs : Submitted(k) => Submitted(k)'
    BY <1>3 DEF submit_check, create_job, poll_completed, poll_exhausted, Submitted, TypeOK
  <2> QED
    BY <2>1, QuietWorkStep DEF WorkInv, ListedSubmitted
<1>4. CASE \E j \in Jobs : cancel_read(j) \/ cancel_write(j) \/ Expire(j)
  <2>1. queue' = queue /\ cur' = cur /\ pc' = pc /\ request' = request
    BY <1>4 DEF cancel_read, cancel_write, Expire
  <2> QED
    BY <2>1, QuietWorkStep DEF WorkInv, ListedSubmitted, Submitted
<1>5. CASE check_cancelled \/ check_final \/ set_expiry
  <2>1. /\ queue' = queue /\ request' = request
        /\ \/ cur' = NoJob
           \/ cur' = cur /\ pc' # "idle"
    BY <1>5 DEF check_cancelled, check_final, set_expiry, NextJob
  <2> QED
    BY <2>1, QuietWorkStep DEF Submitted
<1>6. CASE \/ mark_running \/ mark_completed \/ gathered
           \/ \E q \in Queries : TaskStepOf(q)
  <2>1. queue' = queue /\ cur' = cur /\ pc' # "idle" /\ request' = request
    BY <1>6 DEF mark_running, mark_completed, gathered, TaskStepOf, unsupported_mode,
                acquire_semaphore, check_before_query, query_returns, write_result
  <2> QED
    BY <2>1, QuietWorkStep DEF Submitted
<1>7. CASE Tick
  BY <1>7, QuietWorkStep DEF Tick, Submitted, WorkInv, ListedSubmitted
<1>8. CASE Crash
  <2>1. /\ queue' = queue /\ cur' = NoJob
        /\ \A k \in Jobs : Submitted(k) => Submitted(k)'
    BY <1>8 DEF Crash, NextJob, Submitted, TypeOK
  <2> QED
    BY <2>1, QuietWorkStep
<1>9. CASE UNCHANGED vars
  BY <1>9, QuietWorkStep DEF vars, Submitted, WorkInv, ListedSubmitted
<1> QED
  BY <1>1, <1>2, <1>3, <1>4, <1>5, <1>6, <1>7, <1>8, <1>9
  DEF Next, HandlerStep, CoordinatorStep

LEMMA WorkInvariant == Spec => []WorkInv
<1> QED
  BY WorkInit, WorkStep, PTL DEF Spec

(* No job is on the pending list twice, or on it and in the coordinator's  *)
(* hands: process_one never runs a job again, restarts included.           *)
THEOREM WorkNeverDuplicated == Spec => []NoDuplicateWork
<1>1. WorkInv => NoDuplicateWork
  BY DEF WorkInv
<1> QED
  BY <1>1, WorkInvariant, PTL

-----------------------------------------------------------------------------
(* A completed job has all its results.                                    *)

(* Nothing has been done for a job that is still to come.                  *)
Untouched(j) == ~ttl[j] /\ hash[j] # "completed"

(* While the tasks of a job run, a query that is done has its result       *)
(* stored, or else the job is cancelled, which nothing undoes before the   *)
(* status has been read again.                                             *)
TasksCovered ==
    /\ cur \in Jobs => Untouched(cur) \/ pc = "expire"
    /\ cur \in Jobs => ~ttl[cur]
    /\ \A i \in DOMAIN queue : Untouched(queue[i])
    /\ \A j \in Jobs : ~Submitted(j) => Untouched(j)
    /\ pc = "gather" =>
        \A q \in Queries : task[q] = "done" =>
            q \in results[cur] \/ hash[cur] = "cancelled"
    /\ pc = "final" => results[cur] = Queries \/ hash[cur] = "cancelled"
    /\ pc \in {"complete", "expire"} => results[cur] = Queries

ResultsInv == WorkInv /\ TasksCovered /\ CompletedHasAllResults

LEMMA ResultsInit == Init => ResultsInv
  BY WorkInit, AdapterAssumption
  DEF Init, ResultsInv, TasksCovered, CompletedHasAllResults, Untouched

\* What WorkInv says of single jobs.
LEMMA ListedJobs ==
  ASSUME WorkInv
  PROVE  /\ \A i \in DOMAIN queue : queue[i] \in Jobs /\ queue[i] # cur /\ Submitted(queue[i])
         /\ pc # "idle" => cur \in Jobs /\ Submitted(cur)
         /\ NoJob \notin Jobs
  BY AdapterAssumption DEF WorkInv, TypeOK, ListedSubmitted, NoDuplicateWork

LEMMA ResultsStep == ResultsInv /\ [Next]_vars => ResultsInv'
<1> SUFFICES ASSUME ResultsInv, [Next]_vars PROVE ResultsInv'
  OBVIOUS
<1>w. WorkInv /\ WorkInv'
  BY WorkStep DEF ResultsInv
<1>t. TypeOK /\ TypeOK'
  BY <1>w DEF WorkInv
<1>l. /\ \A i \in DOMAIN queue : queue[i] \in Jobs /\ queue[i] # cur /\ Submitted(queue[i])
      /\ pc # "idle" => cur \in Jobs /\ Submitted(cur)
      /\ NoJob \notin Jobs
  BY <1>w, ListedJobs
<1>a. TasksCovered /\ CompletedHasAllResults
  BY DEF ResultsInv
<1> SUFFICES TasksCovered' /\ CompletedHasAllResults'
  BY <1>w DEF ResultsInv
<1> USE <1>l, <1>a DEF redisVars, handlerVars, coordVars
<1>1. CASE \E j \in Jobs : submit_check(j) \/ poll_exhausted(j)
  BY <1>1, <1>t DEF submit_check, poll_exhausted, TypeOK, TasksCovered, CompletedHasAllResults,
                    Untouched, Submitted
<1>2. CASE \E j \in Jobs : create_job(j)
  <2> PICK j \in Jobs : create_job(j)
    BY <1>2
  <2>1. ~Submitted(j) /\ j # cur /\ \A i \in DOMAIN queue : queue[i] # j
    BY <1>w DEF create_job, Submitted, WorkInv, ListedSubmitted
  <2> QED
    BY <2>1, <1>t DEF create_job, TypeOK, TasksCovered, CompletedHasAllResults, Untouched, Submitted
<1>3. CASE \E j \in Jobs : enqueue(j)
  <2> PICK j \in Jobs : enqueue(j)
    BY <1>3
  <2>1. ~Submitted(j) /\ Untouched(j)
    BY DEF enqueue, Submitted, TasksCovered
  <2>2. /\ DOMAIN queue' = 1..(Len(queue) + 1) /\ DOMAIN queue = 1..Len(queue)
        /\ \A i \in DOMAIN queue : queue'[i] = queue[i]
        /\ queue'[Len(queue) + 1] = j /\ Len(queue) \in Nat
    BY <1>t DEF enqueue, TypeOK
  <2>3. \A i \in DOMAIN queue' : ~ttl[queue'[i]] /\ hash[queue'[i]] # "completed"
    BY <2>1, <2>2 DEF TasksCovered, Untouched
  <2>4. \A k \in Jobs : request'[k] = "answered" => request[k] = "answered"
    BY <1>t DEF enqueue, TypeOK
  <2>5. \A k \in Jobs : (~Submitted(k))' => ~Submitted(k)
    BY <1>t DEF enqueue, Submitted, TypeOK
  <2>6. /\ hash' = hash /\ ttl' = ttl /\ results' = results /\ answer' = answer
        /\ pc' = pc /\ cur' = cur /\ task' = task
    BY DEF enqueue
  <2>7. (\A k \in Jobs : ~Submitted(k) => Untouched(k))'
    BY <2>5, <2>6 DEF TasksCovered, Untouched
  <2>8. TasksCovered'
    BY <2>3, <2>6, <2>7 DEF TasksCovered, Untouched
  <2>9. CompletedHasAllResults'
    BY <2>4, <2>6 DEF CompletedHasAllResults
  <2> QED
    BY <2>8, <2>9
<1>4. CASE \E j \in Jobs : poll_completed(j)
  BY <1>4, <1>t DEF poll_completed, TypeOK, TasksCovered, CompletedHasAllResults, Untouched,
                    Submitted
<1>5. CASE \E j \in Jobs : cancel_read(j)
  BY <1>5 DEF cancel_read, TasksCovered, CompletedHasAllResults, Untouched, Submitted
<1>6. CASE \E j \in Jobs : cancel_write(j)
  BY <1>6, <1>t DEF cancel_write, TypeOK, TasksCovered, CompletedHasAllResults, Untouched,
                    Submitted
<1>7. CASE \E j \in Jobs : Expire(j)
  <2> PICK j \in Jobs : Expire(j)
    BY <1>7
  <2>1. j # cur /\ \A i \in DOMAIN queue : queue[i] # j
    BY DEF Expire, TasksCovered, Untouched
  <2> QED
    BY <2>1, <1>t DEF Expire, TypeOK, TasksCovered, CompletedHasAllResults, Untouched, Submitted
<1>8. CASE dequeue
  <2>1. /\ Len(queue) \in Nat \ {0} /\ cur' = queue[1]
        /\ DOMAIN queue = 1..Len(queue)
        /\ \A i \in DOMAIN queue' : i + 1 \in DOMAIN queue /\ queue'[i] = queue[i + 1]
    BY <1>8, <1>t, EmptySeq, HeadTailProperties DEF dequeue, AfterPop, TypeOK
  <2>2. pc' = "dequeued" /\ UNCHANGED <<hash, ttl, results, handlerVars>>
    BY <1>8 DEF dequeue
  <2> QED
    BY <2>1, <2>2 DEF TasksCovered, CompletedHasAllResults, Untouched, Submitted
<1>9. CASE check_cancelled
  BY <1>9 DEF check_cancelled, NextJob, TasksCovered, CompletedHasAllResults, Untouched,
              Submitted
<1>10. CASE mark_running
  BY <1>10, <1>t DEF mark_running, TypeOK, TasksCovered, CompletedHasAllResults, Untouched,
                     Submitted
<1>11. CASE \E q \in Queries : unsupported_mode(q) \/ write_result(q)
  <2> PICK q \in Queries : unsupported_mode(q) \/ write_result(q)
    BY <1>11
  <2>1. /\ pc = "gather" /\ cur \in Jobs
        /\ results' = [results EXCEPT ![cur] = @ \cup {q}]
        /\ task' = [task EXCEPT ![q] = "done"]
        /\ UNCHANGED <<hash, created, ttl, queue, handlerVars, pc, cur, asked, crashes>>
    BY DEF unsupported_mode, write_result, store, TaskTo
  <2>2. hash[cur] # "completed"
    BY <2>1 DEF TasksCovered, Untouched
  <2>3. q \in results'[cur] /\ \A p \in results[cur] : p \in results'[cur]
    BY <2>1, <1>t DEF TypeOK
  <2>4. \A p \in Queries : task'[p] = "done" => task[p] = "done" \/ p = q
    BY <2>1, <1>t DEF TypeOK
  <2>5. \A j \in Jobs : j # cur => results'[j] = results[j]
    BY <2>1, <1>t DEF TypeOK
  <2>6. TasksCovered'
    BY <2>1, <2>3, <2>4 DEF TasksCovered, Untouched, Submitted
  <2>7. CompletedHasAllResults'
    BY <2>1, <2>2, <2>5 DEF CompletedHasAllResults
  <2> QED
    BY <2>6, <2>7
<1>12. CASE \E q \in Queries : acquire_semaphore(q) \/ check_before_query(q)
                               \/ query_returns(q)
  BY <1>12, <1>t DEF acquire_semaphore, check_before_query, query_returns, TaskTo, TypeOK,
                     TasksCovered, CompletedHasAllResults, Untouched, Submitted
<1>13. CASE gathered
  BY <1>13, <1>t DEF gathered, TypeOK, TasksCovered, CompletedHasAllResults, Untouched,
                     Submitted
<1>14. CASE check_final
  BY <1>14 DEF check_final, MayComplete, NextJob, TasksCovered, CompletedHasAllResults,
               Untouched, Submitted
<1>15. CASE mark_completed
  BY <1>15, <1>t DEF mark_completed, TypeOK, TasksCovered, CompletedHasAllResults,
                     Untouched, Submitted
<1>16. CASE set_expiry
  BY <1>16, <1>t DEF set_expiry, NextJob, TypeOK, TasksCovered, CompletedHasAllResults,
                     Untouched, Submitted
<1>17. CASE Tick
  BY <1>17 DEF Tick, TasksCovered, CompletedHasAllResults, Untouched, Submitted
<1>18. CASE Crash
  BY <1>18, <1>t DEF Crash, NextJob, TypeOK, TasksCovered, CompletedHasAllResults, Untouched,
                     Submitted
<1>19. CASE UNCHANGED vars
  BY <1>19 DEF vars, TasksCovered, CompletedHasAllResults, Untouched, Submitted
<1> QED
  BY <1>1, <1>2, <1>3, <1>4, <1>5, <1>6, <1>7, <1>8, <1>9, <1>10, <1>11, <1>12, <1>13,
     <1>14, <1>15, <1>16, <1>17, <1>18, <1>19
  DEF Next, HandlerStep, CoordinatorStep, TaskStepOf

(* A job that reads 'completed' has a result for every query, and so has   *)
(* every answer of sync_query, whenever cancellations arrive: the second   *)
(* read of the status in process_one is what guarantees it.                *)
THEOREM CompletedJobsHaveAllResults == Spec => []CompletedHasAllResults
<1>1. ResultsInv => CompletedHasAllResults
  BY DEF ResultsInv
<1> QED
  BY <1>1, ResultsInit, ResultsStep, PTL DEF Spec
-----------------------------------------------------------------------------
(* Back-pressure.                                                          *)

BackPressure == TypeOK /\ QueueBounded

LEMMA InFlightFinite ==
  /\ IsFiniteSet(InFlight) /\ Cardinality(InFlight) \in Nat
  BY AdapterAssumption, FS_Subset, FS_CardinalityType DEF InFlight

LEMMA BackPressureInit == Init => BackPressure
<1> SUFFICES ASSUME Init PROVE BackPressure
  OBVIOUS
<1>1. InFlight = {} /\ Len(queue) = 0
  BY DEF Init, InFlight
<1> QED
  BY <1>1, FS_EmptySet, AdapterTypeInit, AdapterAssumption DEF BackPressure, QueueBounded

\* A step that lengthens neither the list nor the set of submissions.
LEMMA QuietPressureStep ==
  ASSUME BackPressure, TypeOK', Len(queue') <= Len(queue), InFlight' \subseteq InFlight
  PROVE  BackPressure'
<1>1. Cardinality(InFlight') <= Cardinality(InFlight) /\ Cardinality(InFlight') \in Nat
  BY InFlightFinite, FS_Subset, FS_CardinalityType
<1>2. Len(queue) \in Nat /\ Len(queue') \in Nat
  BY DEF BackPressure, TypeOK
<1> QED
  BY <1>1, <1>2, InFlightFinite, AdapterAssumption DEF BackPressure, QueueBounded

LEMMA BackPressureStep == BackPressure /\ [Next]_vars => BackPressure'
<1> SUFFICES ASSUME BackPressure, [Next]_vars PROVE BackPressure'
  OBVIOUS
<1>t. TypeOK /\ TypeOK'
  BY AdapterTypeStep DEF BackPressure
<1> USE <1>t DEF redisVars, handlerVars, coordVars
<1>1. CASE \E j \in Jobs : submit_check(j)
  <2> PICK j \in Jobs : submit_check(j)
    BY <1>1
  <2>1. CASE HasRoom
    <3>1. j \notin InFlight /\ InFlight' = InFlight \cup {j}
      BY <2>1 DEF submit_check, InFlight, TypeOK
    <3>2. Cardinality(InFlight') = Cardinality(InFlight) + 1
      BY <3>1, InFlightFinite, FS_AddElement
    <3>3. Cardinality(InFlight) < MaxSubmitting /\ Len(queue) < MaxQueueDepth /\ queue' = queue
      BY <2>1 DEF submit_check, HasRoom
    <3>4. Len(queue) \in Nat
      BY DEF TypeOK
    <3> QED
      BY <3>2, <3>3, <3>4, InFlightFinite, AdapterAssumption DEF BackPressure, QueueBounded
  <2>2. CASE ~HasRoom
    <3>1. InFlight' \subseteq InFlight /\ queue' = queue
      BY <2>2 DEF submit_check, InFlight, TypeOK
    <3> QED
      BY <3>1, QuietPressureStep DEF TypeOK
  <2> QED
    BY <2>1, <2>2
<1>2. CASE \E j \in Jobs : enqueue(j)
  <2> PICK j \in Jobs : enqueue(j)
    BY <1>2
  <2>1. j \in InFlight /\ InFlight' = InFlight \ {j}
    BY DEF enqueue, InFlight, TypeOK
  <2>2. Cardinality(InFlight') = Cardinality(InFlight) - 1
    BY <2>1, InFlightFinite, FS_RemoveElement
  <2>3. Len(queue') = Len(queue) + 1 /\ Len(queue) \in Nat
    BY DEF enqueue, TypeOK
  <2> QED
    BY <2>2, <2>3, InFlightFinite, AdapterAssumption DEF BackPressure, QueueBounded
<1>3. CASE dequeue
  <2>1. Len(queue') <= Len(queue)
    BY <1>3, EmptySeq, HeadTailProperties DEF dequeue, AfterPop, TypeOK
  <2>2. InFlight' = InFlight
    BY <1>3 DEF dequeue, InFlight
  <2> QED
    BY <2>1, <2>2, QuietPressureStep
<1>4. CASE \E j \in Jobs : create_job(j) \/ poll_completed(j) \/ poll_exhausted(j)
  <2>1. InFlight' \subseteq InFlight /\ queue' = queue
    BY <1>4 DEF create_job, poll_completed, poll_exhausted, InFlight, TypeOK
  <2> QED
    BY <2>1, QuietPressureStep DEF TypeOK
<1>5. CASE Crash
  <2>1. InFlight' \subseteq InFlight /\ queue' = queue
    BY <1>5 DEF Crash, InFlight, TypeOK
  <2> QED
    BY <2>1, QuietPressureStep DEF TypeOK
<1>6. CASE UNCHANGED <<queue, request>>
  <2>1. InFlight' = InFlight /\ queue' = queue
    BY <1>6 DEF InFlight
  <2> QED
    BY <2>1, QuietPressureStep DEF TypeOK
<1>7. CASE \/ \E j \in Jobs : cancel_read(j) \/ cancel_write(j) \/ Expire(j)
           \/ check_cancelled \/ mark_running \/ gathered
           \/ check_final \/ mark_completed \/ set_expiry
           \/ \E q \in Queries : TaskStepOf(q)
           \/ Tick
           \/ UNCHANGED vars
  BY <1>6, <1>7
  DEF cancel_read, cancel_write, Expire, check_cancelled, mark_running, gathered, check_final,
      mark_completed, set_expiry, TaskStepOf, unsupported_mode, acquire_semaphore,
      check_before_query, query_returns, write_result, Tick, vars
<1> QED
  BY <1>1, <1>2, <1>3, <1>4, <1>5, <1>7 DEF Next, HandlerStep, CoordinatorStep

(* The pending list and the submissions on their way to it stay below the  *)
(* limit of JobManager.submit plus the number of concurrent submissions.   *)
THEOREM QueueAlwaysBounded == Spec => []QueueBounded
<1>1. BackPressure => QueueBounded
  BY DEF BackPressure
<1> QED
  BY <1>1, BackPressureInit, BackPressureStep, PTL DEF Spec
=============================================================================
