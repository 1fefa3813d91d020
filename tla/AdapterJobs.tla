---------------------------- MODULE AdapterJobs ----------------------------
(***************************************************************************)
(* Query jobs of the Prometheus adapter. Requests submit jobs to Redis and *)
(* either return (POST /query-jobs) or poll for the result (POST /query);  *)
(* the coordinator takes one job after the other off the pending list and  *)
(* runs its queries under a semaphore; DELETE cancels a job at any time.   *)
(* One adapter process, one event loop; every Redis command another actor  *)
(* can observe is a step of its own.                                       *)
(***************************************************************************)
EXTENDS Naturals, Sequences, FiniteSets

CONSTANTS
    Jobs,                 \* submissions; a submission and its job share the id
    SyncJobs,             \* those made by POST /query, which waits for the result
    Queries,              \* names of the queries of a job
    Unsupported,          \* those whose mode no strategy handles
    MaxSubmitting,        \* bound: submissions being handled at the same time
    MaxQueueDepth,        \* max_queue_depth
    MaxConcurrentQueries, \* max_concurrent_queries
    PollTicks,            \* sync_query's patience in units of query_timeout_seconds
    Rounds,               \* bound: chunk requests of a query that follow each other
    MaxCrashes            \* bound: restarts of the adapter process

NoJob == <<>>

ASSUME AdapterAssumption ==
    /\ IsFiniteSet(Jobs) /\ NoJob \notin Jobs /\ SyncJobs \subseteq Jobs
    /\ IsFiniteSet(Queries) /\ Queries # {} /\ Unsupported \subseteq Queries
    /\ MaxSubmitting \in Nat \ {0}
    /\ MaxQueueDepth \in Nat \ {0}
    /\ MaxConcurrentQueries \in Nat \ {0}
    /\ PollTicks \in Nat \ {0}
    /\ Rounds \in Nat \ {0}
    /\ MaxCrashes \in Nat

VARIABLES
    hash,       \* job hash: its status, "absent" if there is no key
    created,    \* the hash has created_at and the counters, not the status alone
    ttl,        \* the keys of the job will expire
    results,    \* the queries whose result is stored
    queue,      \* the pending list
    request,    \* the handler of the submission
    waited,     \* ticks a polling handler has waited
    answer,     \* what sync_query returned
    cancelling, \* jobs whose cancel handler has read a non-terminal status
    pc, cur,    \* step of Coordinator.process_one and its job
    task,       \* the queries of that job, gathered as tasks
    asked,      \* ticks the Prometheus requests of a task have taken
    crashes

redisVars == <<hash, created, ttl, results, queue>>
handlerVars == <<request, waited, answer, cancelling>>
coordVars == <<pc, cur, task, asked>>
vars == <<redisVars, handlerVars, coordVars, crashes>>

JobStatus == {"queued", "running", "completed", "cancelled"}
RequestStep == {"new", "checked", "created", "polling", "accepted", "rejected",
                "answered", "gave_up", "dropped"}
CoordStep == {"idle", "dequeued", "claim", "gather", "final", "complete", "expire"}
TaskStep == {"none", "waiting", "checking", "executing", "writing", "done"}

NoTasks == [q \in Queries |-> "none"]
NoWait == [q \in Queries |-> 0]

Init ==
    /\ hash = [j \in Jobs |-> "absent"]
    /\ created = [j \in Jobs |-> FALSE]
    /\ ttl = [j \in Jobs |-> FALSE]
    /\ results = [j \in Jobs |-> {}]
    /\ queue = <<>>
    /\ request = [j \in Jobs |-> "new"]
    /\ waited = [j \in Jobs |-> 0]
    /\ answer = [j \in Jobs |-> {}]
    /\ cancelling = {}
    /\ pc = "idle" /\ cur = NoJob
    /\ task = NoTasks /\ asked = NoWait
    /\ crashes = 0

-----------------------------------------------------------------------------
(* JobManager.submit, and what the two submitting handlers do after it.    *)

InFlight == {j \in Jobs : request[j] \in {"checked", "created"}}

\* Mutant: the list may grow one past its limit.
HasRoom_Inclusive == Len(queue) <= MaxQueueDepth

HasRoom == Len(queue) < MaxQueueDepth

submit_check(j) ==
    /\ request[j] = "new"
    /\ Cardinality(InFlight) < MaxSubmitting
    /\ request' = [request EXCEPT ![j] = IF HasRoom THEN "checked" ELSE "rejected"]
    /\ UNCHANGED <<redisVars, waited, answer, cancelling, coordVars, crashes>>

create_job(j) ==
    /\ request[j] = "checked"
    /\ hash' = [hash EXCEPT ![j] = "queued"]
    /\ created' = [created EXCEPT ![j] = TRUE]
    /\ request' = [request EXCEPT ![j] = "created"]
    /\ UNCHANGED <<ttl, results, queue, waited, answer, cancelling, coordVars, crashes>>

enqueue(j) ==
    /\ request[j] = "created"
    /\ queue' = Append(queue, j)
    /\ request' = [request EXCEPT ![j] = IF j \in SyncJobs THEN "polling" ELSE "accepted"]
    /\ UNCHANGED <<hash, created, ttl, results, waited, answer, cancelling,
                   coordVars, crashes>>

(* sync_query sees the job completed and returns the stored results.       *)
poll_completed(j) ==
    /\ request[j] = "polling"
    /\ hash[j] = "completed"
    /\ answer' = [answer EXCEPT ![j] = results[j]]
    /\ request' = [request EXCEPT ![j] = "answered"]
    /\ UNCHANGED <<redisVars, waited, cancelling, coordVars, crashes>>

\* Mutant: one poll period too many.
PollsExhausted_OffByOne(n) == n = PollTicks + 1

PollsExhausted(n) == n = PollTicks

(* ... or runs out of polls: 504. The job is left to the coordinator.      *)
poll_exhausted(j) ==
    /\ request[j] = "polling"
    /\ hash[j] # "completed"
    /\ PollsExhausted(waited[j])
    /\ request' = [request EXCEPT ![j] = "gave_up"]
    /\ UNCHANGED <<redisVars, waited, answer, cancelling, coordVars, crashes>>

(* JobRepository.cancel: the read, and the write that follows. The caller  *)
(* has the id from a response; the job may have expired since.             *)
cancel_read(j) ==
    /\ request[j] = "accepted"
    /\ hash[j] \notin {"completed", "cancelled"}
    /\ cancelling' = cancelling \cup {j}
    /\ UNCHANGED <<redisVars, request, waited, answer, coordVars, crashes>>

cancel_write(j) ==
    /\ j \in cancelling
    /\ hash' = [hash EXCEPT ![j] = "cancelled"]
    /\ cancelling' = cancelling \ {j}
    /\ UNCHANGED <<created, ttl, results, queue, request, waited, answer,
                   coordVars, crashes>>

-----------------------------------------------------------------------------
(* Coordinator.process_one.                                                *)

\* Mutant: the id is read and stays on the list.
AfterPop_Peek == queue

\* LPOP takes the id off the list.
AfterPop == Tail(queue)

dequeue ==
    /\ pc = "idle" /\ queue # <<>>
    /\ cur' = Head(queue)
    /\ queue' = AfterPop
    /\ pc' = "dequeued"
    /\ UNCHANGED <<hash, created, ttl, results, handlerVars, task, asked, crashes>>

\* process_one returns and the run loop takes the next job.
NextJob == pc' = "idle" /\ cur' = NoJob /\ task' = NoTasks /\ asked' = NoWait

(* get_status: a cancelled or missing job is skipped; a hash without its   *)
(* fields raises and the job is dropped.                                   *)
check_cancelled ==
    /\ pc = "dequeued"
    /\ IF hash[cur] \in {"absent", "cancelled"} \/ ~created[cur]
       THEN NextJob
       ELSE pc' = "claim" /\ UNCHANGED <<cur, task, asked>>
    /\ UNCHANGED <<redisVars, handlerVars, crashes>>

(* mark_running, an unconditional hset, and the tasks of the queries.      *)
mark_running ==
    /\ pc = "claim"
    /\ hash' = [hash EXCEPT ![cur] = "running"]
    /\ task' = [q \in Queries |-> "waiting"]
    /\ pc' = "gather"
    /\ UNCHANGED <<created, ttl, results, queue, handlerVars, cur, asked, crashes>>

Holding == {q \in Queries : task[q] \in {"checking", "executing", "writing"}}

\* Mutant: a slot is kept free that nobody ever frees.
SlotFree_OffByOne == Cardinality(Holding) + 1 < MaxConcurrentQueries

SlotFree == Cardinality(Holding) < MaxConcurrentQueries

TaskTo(q, step) == task' = [task EXCEPT ![q] = step]

store(q) == results' = [results EXCEPT ![cur] = @ \cup {q}]

(* _run_query: no strategy for the mode of the query; its failure is       *)
(* recorded without taking the semaphore.                                  *)
unsupported_mode(q) ==
    /\ pc = "gather" /\ task[q] = "waiting" /\ q \in Unsupported
    /\ store(q)
    /\ TaskTo(q, "done")
    /\ UNCHANGED <<hash, created, ttl, queue, handlerVars, pc, cur, asked, crashes>>

acquire_semaphore(q) ==
    /\ pc = "gather" /\ task[q] = "waiting" /\ q \notin Unsupported
    /\ SlotFree
    /\ TaskTo(q, "checking")
    /\ UNCHANGED <<redisVars, handlerVars, pc, cur, asked, crashes>>

(* A task that finds the job cancelled records no result.                  *)
check_before_query(q) ==
    /\ pc = "gather" /\ task[q] = "checking"
    /\ TaskTo(q, IF hash[cur] = "cancelled" THEN "done" ELSE "executing")
    /\ UNCHANGED <<redisVars, handlerVars, pc, cur, asked, crashes>>

(* Prometheus answers, fails, or the client's timeout ends the request.    *)
query_returns(q) ==
    /\ pc = "gather" /\ task[q] = "executing"
    /\ TaskTo(q, "writing")
    /\ UNCHANGED <<redisVars, handlerVars, pc, cur, asked, crashes>>

write_result(q) ==
    /\ pc = "gather" /\ task[q] = "writing"
    /\ store(q)
    /\ TaskTo(q, "done")
    /\ UNCHANGED <<hash, created, ttl, queue, handlerVars, pc, cur, asked, crashes>>

gathered ==
    /\ pc = "gather"
    /\ \A q \in Queries : task[q] = "done"
    /\ pc' = "final"
    /\ UNCHANGED <<redisVars, handlerVars, cur, task, asked, crashes>>

\* Mutant: the status is not read again after the queries.
MayComplete_Unchecked == TRUE

MayComplete == hash[cur] \notin {"absent", "cancelled"}

(* The status is read once more: a job cancelled meanwhile is left alone.  *)
check_final ==
    /\ pc = "final"
    /\ IF MayComplete THEN pc' = "complete" /\ UNCHANGED <<cur, task, asked>>
                      ELSE NextJob
    /\ UNCHANGED <<redisVars, handlerVars, crashes>>

(* mark_completed: the hset, and then the EXPIREs.                         *)
mark_completed ==
    /\ pc = "complete"
    /\ hash' = [hash EXCEPT ![cur] = "completed"]
    /\ pc' = "expire"
    /\ UNCHANGED <<created, ttl, results, queue, handlerVars, cur, task, asked, crashes>>

set_expiry ==
    /\ pc = "expire"
    /\ ttl' = [ttl EXCEPT ![cur] = TRUE]
    /\ NextJob
    /\ UNCHANGED <<hash, created, results, queue, handlerVars, crashes>>

-----------------------------------------------------------------------------
(* Redis, time and the process.                                            *)

(* The keys expire; the retention is far longer than a poll loop.          *)
Expire(j) ==
    /\ ttl[j] /\ request[j] # "polling"
    /\ hash' = [hash EXCEPT ![j] = "absent"]
    /\ created' = [created EXCEPT ![j] = FALSE]
    /\ ttl' = [ttl EXCEPT ![j] = FALSE]
    /\ results' = [results EXCEPT ![j] = {}]
    /\ UNCHANGED <<queue, handlerVars, coordVars, crashes>>

(* query_timeout_seconds pass. Only Prometheus takes time: nothing else    *)
(* that could go on is held up, and no request exceeds the timeout; a      *)
(* query over a long range sends its chunks a few at a time, round by round.*)
Busy ==
    \/ pc \in CoordStep \ {"idle", "gather"}
    \/ pc = "idle" /\ queue # <<>>
    \/ pc = "gather" /\ Holding = {}
    \/ \E q \in Queries :
        \/ task[q] \in {"checking", "writing"}
        \/ task[q] = "waiting" /\ (q \in Unsupported \/ SlotFree)
        \/ task[q] = "executing" /\ asked[q] = Rounds
    \/ \E j \in Jobs :
        request[j] = "polling" /\ (hash[j] = "completed" \/ PollsExhausted(waited[j]))

Tick ==
    /\ ~Busy
    /\ pc = "gather" \/ \E j \in Jobs : request[j] = "polling"
    /\ waited' = [j \in Jobs |-> IF request[j] = "polling" THEN waited[j] + 1
                                                           ELSE waited[j]]
    /\ asked' = [q \in Queries |-> IF task[q] = "executing" THEN asked[q] + 1 ELSE asked[q]]
    /\ UNCHANGED <<redisVars, request, answer, cancelling, pc, cur, task, crashes>>

(* The process restarts: handlers and the coordinator's job are gone,      *)
(* Redis stays.                                                            *)
Crash ==
    /\ crashes < MaxCrashes
    /\ crashes' = crashes + 1
    /\ request' = [j \in Jobs |-> IF request[j] \in {"checked", "created", "polling"}
                                  THEN "dropped" ELSE request[j]]
    /\ cancelling' = {}
    /\ NextJob
    /\ UNCHANGED <<redisVars, waited, answer>>

-----------------------------------------------------------------------------
HandlerStep(j) ==
    \/ create_job(j) \/ enqueue(j)
    \/ poll_completed(j) \/ poll_exhausted(j) \/ cancel_write(j)

CoordinatorStep ==
    \/ dequeue \/ check_cancelled \/ mark_running \/ gathered
    \/ check_final \/ mark_completed \/ set_expiry

TaskStepOf(q) ==
    \/ unsupported_mode(q) \/ acquire_semaphore(q) \/ check_before_query(q)
    \/ query_returns(q) \/ write_result(q)

Next ==
    \/ \E j \in Jobs :
        submit_check(j) \/ HandlerStep(j) \/ cancel_read(j) \/ Expire(j)
    \/ CoordinatorStep
    \/ \E q \in Queries : TaskStepOf(q)
    \/ Tick
    \/ Crash

Spec == Init /\ [][Next]_vars

(* The event loop runs every handler and task that can go on; a Prometheus *)
(* request ends by its timeout. Nobody has to submit or cancel.            *)
Fairness ==
    /\ \A j \in Jobs : WF_vars(HandlerStep(j))
    /\ WF_vars(CoordinatorStep)
    /\ \A q \in Queries : WF_vars(TaskStepOf(q))

LiveSpec == Spec /\ Fairness

-----------------------------------------------------------------------------
(* Properties.                                                             *)

(* Every variable has its type.                                            *)
TypeOK ==
    /\ hash \in [Jobs -> JobStatus \cup {"absent"}]
    /\ created \in [Jobs -> BOOLEAN] /\ ttl \in [Jobs -> BOOLEAN]
    /\ results \in [Jobs -> SUBSET Queries]
    /\ queue \in Seq(Jobs)
    /\ request \in [Jobs -> RequestStep]
    /\ waited \in [Jobs -> 0..PollTicks]
    /\ answer \in [Jobs -> SUBSET Queries]
    /\ cancelling \subseteq Jobs
    /\ pc \in CoordStep
    /\ cur \in Jobs \cup {NoJob}
    /\ pc # "idle" => cur \in Jobs
    /\ task \in [Queries -> TaskStep] /\ asked \in [Queries -> 0..Rounds]
    /\ crashes \in 0..MaxCrashes

(* A job that reads 'completed' has a result for every query, although     *)
(* tasks of a cancelled job skip theirs and a cancellation may arrive at   *)
(* any step of process_one; so what sync_query returned, and Phase 2 of an *)
(* evaluation scores, misses none ("rather than silently absent",          *)
(* tests/test_coordinator.py).                                             *)
CompletedHasAllResults ==
    \A j \in Jobs :
        /\ hash[j] = "completed" => results[j] = Queries
        /\ request[j] = "answered" => answer[j] = Queries

(* No job is run twice: the pending list has no duplicates and the job the *)
(* coordinator works on is not on it, after restarts too.                  *)
NoDuplicateWork ==
    /\ \A i, k \in DOMAIN queue : queue[i] = queue[k] => i = k
    /\ \A i \in DOMAIN queue : queue[i] # cur

(* Back-pressure: submit reads the depth and enqueues later, so concurrent *)
(* submissions overshoot max_queue_depth, but by less than their number.   *)
QueueBounded ==
    Len(queue) + Cardinality(InFlight) < MaxQueueDepth + MaxSubmitting

(* A submitted job is completed or cancelled in the end if the process     *)
(* does not die ("must not strand the job in `running` forever",           *)
(* tests/test_coordinator.py).                                             *)
JobsSettle ==
    \A j \in Jobs :
        hash[j] = "queued" ~> hash[j] \notin {"queued", "running"} \/ crashes > 0

=============================================================================
