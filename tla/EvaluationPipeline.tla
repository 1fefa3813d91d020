------------------------- MODULE EvaluationPipeline -------------------------
(***************************************************************************)
(* The evaluation worker pipeline: POST /evaluations creates a run with    *)
(* one SLO evaluation per resolved SLO and enqueues one arq job per row;   *)
(* run_evaluation_job takes a row through its phases, each in its own      *)
(* database session; finalize_run_job and the finalize sweeper roll the    *)
(* rows up into the run; the stuck-job watchdog recovers rows orphaned in  *)
(* 'running'.                                                              *)
(*                                                                         *)
(* One action is one committed transaction, or one message sent to Redis.  *)
(* Metric values are abstracted to the outcome of the evaluation.          *)
(***************************************************************************)
EXTENDS Naturals, FiniteSets

CONSTANTS
    Runs,            \* ids of EvaluationRun rows
    Slos,            \* SLO names
    Jobs,            \* slots for arq job messages; bounds the jobs outstanding at once
    Ticks,           \* slots for watchdog ticks; bounds the ticks that overlap
    AssetOf,         \* [Runs -> asset]: EvaluationRun.asset_id
    NameOf,          \* [Runs -> evaluation name]: EvaluationRun.eval_name
    PeriodOf,        \* [Runs -> Nat]: period_start, and period_end in the same order
    Outcomes,        \* results evaluate() may return, a subset of DOMAIN RESULT_RANK
    MaxDefers,       \* _MAX_PREDECESSOR_DEFERS
    MaxRetries,      \* reliability.max_stuck_job_retries
    MaxTries,        \* arq's max_tries: deliveries of one job message
    BatchLimit,      \* queue.finalize_sweeper_batch_limit
    ThresholdExceedsTimeout,
                     \* TRUE: stuck_job_threshold_seconds is longer than arq lets a job run
    MaxCrashes,      \* bound: worker crashes that make arq deliver a job again
    MaxLost,         \* bound: failures that leave a pending row without a job
    MaxAborts        \* bound: finalizations and watchdog ticks cut short

Evals == Runs \X Slos
RunOf(e) == e[1]
SloOf(e) == e[2]
Children(r) == {e \in Evals : RunOf(e) = r}

NoEval == <<>>
NoResult == "none"
RESULT_RANK == [pass |-> 0, warning |-> 1, fail |-> 2, error |-> 3,
                invalidated |-> 4]

ASSUME PipelineAssumption ==
    /\ IsFiniteSet(Runs) /\ IsFiniteSet(Slos)
    /\ PeriodOf \in [Runs -> Nat]
    /\ Outcomes \subseteq DOMAIN RESULT_RANK
    /\ MaxDefers \in Nat
    /\ MaxRetries \in Nat \ {0}
    /\ MaxTries \in Nat \ {0}
    /\ BatchLimit \in Nat \ {0}
    /\ ThresholdExceedsTimeout \in BOOLEAN
    /\ MaxCrashes \in Nat
    /\ MaxLost \in Nat
    /\ MaxAborts \in Nat

VARIABLES
    status,          \* slo_evaluations.status; "absent" before the row is inserted
    started,         \* started_at: null, younger or older than the stuck threshold
    result,          \* slo_evaluations.result
    retries,         \* job_stats['stuck_job_retries']
    indicators,      \* outcome the stored indicator_results rows belong to
    sliValues,       \* outcome the stored sli_values rows belong to
    run,             \* the EvaluationRun row: status and result
    job,             \* arq messages and the executions working on them
    outbox,          \* rows committed as pending whose job is not enqueued yet
    stuckList,       \* per watchdog tick, the rows it has read and not handled yet
    finalizeAttempts,\* finalize jobs queued, and runs on a sweeper tick's list
    finalizing,      \* finalizations between their read and their guarded UPDATE
    crashes, lost, aborts,
                     \* what MaxCrashes, MaxLost and MaxAborts count
    disturbed        \* history: rows whose message was delivered again, that got
                     \* stale under a living execution, or that two ticks held at once

rowVars == <<status, started, result, retries, indicators, sliValues>>
finVars == <<finalizeAttempts, finalizing>>
bounds == <<crashes, lost, aborts, disturbed>>
vars == <<rowVars, run, job, outbox, stuckList, finVars, bounds>>

MaybeOutcome == Outcomes \cup {NoResult}
EvaluationStatus == {"pending", "running", "completed", "failed"}
Terminal == {"completed", "failed"}

\* The steps of run_evaluation_job. "queued" is in Redis; "ending" has nothing
\* left to do but be acknowledged to arq; "free" is an unused slot.
Executing == {"defer", "phase1", "phase2a", "phase2b", "failing",
              "phase3a", "phase3b", "phase4", "ending"}
\* Steps that lie between the commit of Phase 1 and the end of the job.
Claimed == {"phase2a", "phase2b", "failing", "phase3a", "phase3b", "phase4"}
JobStep == Executing \cup {"free", "queued"}

FreeJob == [pc |-> "free", eval |-> NoEval, defers |-> 0, tries |-> 0,
            outcome |-> NoResult]
NewJob(e, n) == [pc |-> "queued", eval |-> e, defers |-> n, tries |-> 0,
                 outcome |-> NoResult]

-----------------------------------------------------------------------------
(* What the database holds and answers.                                    *)

Identity(e) == <<AssetOf[RunOf(e)], SloOf(e), NameOf[RunOf(e)], PeriodOf[RunOf(e)]>>

\* uq_slo_evaluations_identity: no other row with e's identity is non-failed.
IdentityFree(e) ==
    \A x \in Evals \ {e} :
        Identity(x) = Identity(e) => status[x] \in {"absent", "failed"}

has_pending_predecessor(e) ==
    \E x \in Evals :
        /\ AssetOf[RunOf(x)] = AssetOf[RunOf(e)]
        /\ SloOf(x) = SloOf(e)
        /\ PeriodOf[RunOf(x)] < PeriodOf[RunOf(e)]
        /\ \/ status[x] = "pending"
           \/ status[x] = "running" /\ started[x] = "fresh"

\* Mutants: the age is not looked at; the comparison with the cutoff is reversed.
find_stuck_AnyAge == {e \in Evals : status[e] = "running"}
find_stuck_Reversed == {e \in Evals : status[e] = "running" /\ started[e] = "fresh"}

find_stuck == {e \in Evals : status[e] = "running" /\ started[e] = "stale"}

Present(r) == {e \in Children(r) : status[e] # "absent"}

\* Mutant: a running child does not hold the run back.
AllDone_RunningCounts(r) ==
    Present(r) # {} /\ \A e \in Present(r) : status[e] # "pending"

AllDone(r) == Present(r) # {} /\ \A e \in Present(r) : status[e] \in Terminal

\* The highest-ranked of the children's results; none if no child has one.
WorstResult(r) ==
    LET results == {result[e] : e \in Present(r)} \ {NoResult}
    IN  IF results = {} THEN NoResult
        ELSE CHOOSE w \in results :
                \A v \in results : RESULT_RANK[w] >= RESULT_RANK[v]

\* Mutant: failed children are not counted as terminal.
find_finalizable_pending_NoFailed ==
    {r \in Runs : /\ run[r].status \notin {"absent", "completed"}
                  /\ AllDone(r) /\ \A e \in Present(r) : status[e] # "failed"}

find_finalizable_pending ==
    {r \in Runs : run[r].status \notin {"absent", "completed"} /\ AllDone(r)}

\* Mutant: the UPDATE has no guard.
NotCompleted_Unguarded(r) == TRUE

\* The guard of finalize_if_all_done's UPDATE.
NotCompleted(r) == run[r].status # "completed"

\* Mutant: no unique constraint, a second execution replaces the rows.
IndicatorRows_Unconstrained(e) == TRUE

\* uq_indicator_results_eval_objective: no indicator row of e is stored yet.
IndicatorRowsFree(e) == indicators[e] = NoResult

-----------------------------------------------------------------------------
Init ==
    /\ status = [e \in Evals |-> "absent"]
    /\ started = [e \in Evals |-> "null"]
    /\ result = [e \in Evals |-> NoResult]
    /\ retries = [e \in Evals |-> 0]
    /\ indicators = [e \in Evals |-> NoResult]
    /\ sliValues = [e \in Evals |-> NoResult]
    /\ run = [r \in Runs |-> [status |-> "absent", result |-> NoResult]]
    /\ job = [j \in Jobs |-> FreeJob]
    /\ outbox = {}
    /\ stuckList = [t \in Ticks |-> {}]
    /\ finalizeAttempts = {}
    /\ finalizing = {}
    /\ crashes = 0
    /\ lost = 0
    /\ aborts = 0
    /\ disturbed = {}

(* TriggerService.trigger_evaluate up to its commit. S is the set of       *)
(* assigned SLOs that resolve; the others are skipped. A child that        *)
(* collides on the identity index rolls the whole request back.            *)
trigger_evaluate(r, S) ==
    LET new == {r} \X S
    IN  /\ run[r].status = "absent"
        /\ \A e \in new : IdentityFree(e)
        /\ run' = [run EXCEPT ![r].status = "pending"]
        /\ status' = [e \in Evals |-> IF e \in new THEN "pending" ELSE status[e]]
        /\ outbox' = outbox \cup new
        /\ UNCHANGED <<started, result, retries, indicators, sliValues, job,
                       stuckList, finVars, bounds>>

(* pool.enqueue_job after the commit, by the trigger or by the watchdog.   *)
enqueue_job(e) ==
    /\ e \in outbox
    /\ \E j \in Jobs :
        /\ job[j].pc = "free"
        /\ job' = [job EXCEPT ![j] = NewJob(e, 0)]
    /\ outbox' = outbox \ {e}
    /\ UNCHANGED <<rowVars, run, stuckList, finVars, bounds>>

(* The process dies between the commit and the enqueue.                    *)
LoseEnqueue(e) ==
    /\ e \in outbox
    /\ lost < MaxLost
    /\ lost' = lost + 1
    /\ outbox' = outbox \ {e}
    /\ UNCHANGED <<rowVars, run, job, stuckList, finVars, crashes, aborts, disturbed>>

-----------------------------------------------------------------------------
(* run_evaluation_job.                                                     *)

At(j, step) == job[j].pc = step
Goto(j, step) == job' = [job EXCEPT ![j].pc = step]

(* _has_pending_predecessor: a job of a row that is neither pending nor    *)
(* running, or that has been deferred often enough, goes straight on; so   *)
(* does one whose check fails with a connection error.                     *)
check_predecessor(j) ==
    LET e == job[j].eval
        waits == /\ job[j].defers < MaxDefers
                 /\ status[e] \in {"pending", "running"}
                 /\ has_pending_predecessor(e)
    IN  /\ At(j, "queued")
        /\ \/ waits /\ Goto(j, "defer")
           \/ Goto(j, "phase1")
        /\ UNCHANGED <<rowVars, run, outbox, stuckList, finVars, bounds>>

\* Mutant: the re-enqueued job forgets that it was deferred.
NextDefer_Same(n) == n

NextDefer(n) == n + 1

(* Re-enqueue with one more deferral; the present job then returns, at     *)
(* once where the new message takes its slot.                              *)
defer_job(j) ==
    /\ At(j, "defer")
    /\ \E k \in Jobs :
        /\ k = j \/ At(k, "free")
        /\ job' = [job EXCEPT ![j].pc = "ending",
                              ![k] = NewJob(job[j].eval, NextDefer(job[j].defers))]
    /\ UNCHANGED <<rowVars, run, outbox, stuckList, finVars, bounds>>

\* Mutant: mark_running replaces job_stats.
MergedRetries_Replaced(n) == 0

\* mark_running merges job_stats, which keeps the retry counter.
MergedRetries(n) == n

(* Phase 1, load_evaluation_snapshot. mark_running is an UPDATE without a  *)
(* status condition and precedes the read of the status the deduplication  *)
(* guard looks at, so the guard always sees 'running'. Moving a failed row *)
(* back into the identity index may collide: the job then raises.          *)
load_evaluation_snapshot(j) ==
    LET e == job[j].eval
    IN  /\ At(j, "phase1")
        /\ IF IdentityFree(e)
           THEN /\ status' = [status EXCEPT ![e] = "running"]
                /\ started' = [started EXCEPT ![e] = "fresh"]
                /\ retries' = [retries EXCEPT ![e] = MergedRetries(retries[e])]
                /\ Goto(j, "phase2a")
           ELSE /\ job' = [job EXCEPT ![j] = FreeJob]
                /\ UNCHANGED <<status, started, retries>>
        /\ UNCHANGED <<result, indicators, sliValues, run, outbox,
                       stuckList, finVars, bounds>>

(* Phase 2a: the definitions and the data source are found, or not.        *)
load_definitions(j) ==
    /\ At(j, "phase2a")
    /\ \E found \in BOOLEAN : Goto(j, IF found THEN "phase2b" ELSE "failing")
    /\ UNCHANGED <<rowVars, run, outbox, stuckList, finVars, bounds>>

(* Phase 2b: the adapter answers and the evaluation gets an outcome, or    *)
(* the query fails after its retries.                                      *)
fetch_and_evaluate(j) ==
    /\ At(j, "phase2b")
    /\ \/ \E o \in Outcomes :
            job' = [job EXCEPT ![j].pc = "phase3a", ![j].outcome = o]
       \/ Goto(j, "failing")
    /\ UNCHANGED <<rowVars, run, outbox, stuckList, finVars, bounds>>

(* _mark_failed in a session of its own; job_stats is replaced, so the     *)
(* retry counter is gone. No finalize job is enqueued on this path.        *)
mark_failed(j) ==
    LET e == job[j].eval
    IN  /\ At(j, "failing")
        /\ status' = [status EXCEPT ![e] = "failed"]
        /\ retries' = [retries EXCEPT ![e] = 0]
        /\ Goto(j, "ending")
        /\ UNCHANGED <<started, result, indicators, sliValues, run, outbox,
                       stuckList, finVars, bounds>>

(* Phase 3a: mark_completed and the indicator rows in one transaction.     *)
(* Rows already stored for this evaluation (uq_indicator_results_eval_     *)
(* objective), or a collision on the identity index, roll it back and the  *)
(* job raises.                                                             *)
write_results(j) ==
    LET e == job[j].eval
    IN  /\ At(j, "phase3a")
        /\ IF IndicatorRowsFree(e) /\ IdentityFree(e)
           THEN /\ status' = [status EXCEPT ![e] = "completed"]
                /\ result' = [result EXCEPT ![e] = job[j].outcome]
                /\ indicators' = [indicators EXCEPT ![e] = job[j].outcome]
                /\ retries' = [retries EXCEPT ![e] = 0]
                /\ Goto(j, "phase3b")
           ELSE /\ job' = [job EXCEPT ![j] = FreeJob]
                /\ UNCHANGED <<status, result, indicators, retries>>
        /\ UNCHANGED <<started, sliValues, run, outbox, stuckList, finVars,
                       bounds>>

(* Phase 3b: sli_values in a second transaction; its primary key refuses   *)
(* rows that are there already.                                            *)
write_sli_values_phase(j) ==
    LET e == job[j].eval
    IN  /\ At(j, "phase3b")
        /\ IF sliValues[e] = NoResult
           THEN /\ sliValues' = [sliValues EXCEPT ![e] = job[j].outcome]
                /\ Goto(j, "phase4")
           ELSE /\ job' = [job EXCEPT ![j] = FreeJob]
                /\ UNCHANGED sliValues
        /\ UNCHANGED <<status, started, result, retries, indicators, run,
                       outbox, stuckList, finVars, bounds>>

(* Change-point detection swallows its failures; then the finalize job of  *)
(* the parent run is enqueued.                                             *)
enqueue_finalize(j) ==
    /\ At(j, "phase4")
    /\ finalizeAttempts' = finalizeAttempts \cup {RunOf(job[j].eval)}
    /\ Goto(j, "ending")
    /\ UNCHANGED <<rowVars, run, outbox, stuckList, finalizing, bounds>>

-----------------------------------------------------------------------------
(* arq, as far as the pipeline depends on it (external).                   *)

(* The coroutine has returned and the message is removed.                  *)
AckJob(j) ==
    /\ At(j, "ending")
    /\ job' = [job EXCEPT ![j] = FreeJob]
    /\ UNCHANGED <<rowVars, run, outbox, stuckList, finVars, bounds>>

(* The worker dies or is shut down: the message stays in Redis and is      *)
(* delivered again, from the start, until max_tries is reached.            *)
WorkerCrash(j) ==
    /\ job[j].pc \in Executing
    /\ crashes < MaxCrashes
    /\ crashes' = crashes + 1
    /\ IF job[j].tries + 1 < MaxTries
       THEN /\ job' = [job EXCEPT ![j] = [NewJob(@.eval, @.defers) EXCEPT
                                             !.tries = job[j].tries + 1]]
            /\ disturbed' = disturbed \cup {job[j].eval}
       ELSE /\ job' = [job EXCEPT ![j] = FreeJob]
            /\ UNCHANGED disturbed
    /\ UNCHANGED <<rowVars, run, outbox, stuckList, finVars, lost, aborts>>

(* The job times out or an unexpected exception escapes it: arq records    *)
(* the failure and does not run the message again. Before Phase 1 commits, *)
(* the row is left pending with no job.                                    *)
JobDies(j) ==
    /\ job[j].pc \in Executing
    /\ \/ job[j].pc \in Claimed \cup {"ending"} /\ lost' = lost
       \/ job[j].pc \notin Claimed \cup {"ending"} /\ lost < MaxLost /\ lost' = lost + 1
    /\ job' = [job EXCEPT ![j] = FreeJob]
    /\ UNCHANGED <<rowVars, run, outbox, stuckList, finVars, crashes, aborts, disturbed>>

\* An execution of e's job is past Phase 1.
Executed(e) == \E j \in Jobs : job[j].eval = e /\ job[j].pc \in Claimed

(* Time passes and a running row gets older than the stuck threshold. If   *)
(* the threshold exceeds the time arq grants a job, the execution that     *)
(* stamped started_at is gone by then.                                     *)
Age(e) ==
    /\ status[e] = "running" /\ started[e] = "fresh"
    /\ ThresholdExceedsTimeout => ~Executed(e)
    /\ started' = [started EXCEPT ![e] = "stale"]
    /\ disturbed' = IF Executed(e) THEN disturbed \cup {e} ELSE disturbed
    /\ UNCHANGED <<status, result, retries, indicators, sliValues, run, job,
                   outbox, stuckList, finVars, crashes, lost, aborts>>

-----------------------------------------------------------------------------
(* watchdog_stuck_evaluations_job.                                         *)

\* Mutant: one recovery too many.
RetriesExhausted_OffByOne(attempts) == attempts > MaxRetries

RetriesExhausted(attempts) == attempts >= MaxRetries

OnStuckList(e) == \E t \in Ticks : \E s \in stuckList[t] : s.eval = e

(* Tick t reads the stuck rows with the retry counters they have now. The  *)
(* cron job starts a tick whether or not an earlier one is through.        *)
watchdog_scan(t) ==
    /\ find_stuck # {}
    /\ stuckList[t] = {}
    /\ stuckList' = [stuckList EXCEPT
            ![t] = {[eval |-> e, attempts |-> retries[e]] : e \in find_stuck}]
    /\ disturbed' = disturbed \cup {e \in find_stuck : OnStuckList(e)}
    /\ UNCHANGED <<rowVars, run, job, outbox, finVars, crashes, lost, aborts>>

(* ... and handles them one by one, each in a session of its own, without  *)
(* looking at the row again.                                               *)
watchdog_recover(t, s) ==
    LET e == s.eval
    IN  /\ s \in stuckList[t]
        /\ \/ /\ RetriesExhausted(s.attempts)
              /\ status' = [status EXCEPT ![e] = "failed"]
              /\ retries' = [retries EXCEPT ![e] = s.attempts]
              /\ stuckList' = [stuckList EXCEPT ![t] = @ \ {s}]
              /\ UNCHANGED <<started, outbox>>
           \/ /\ ~RetriesExhausted(s.attempts)
              /\ IF IdentityFree(e)
                 THEN /\ status' = [status EXCEPT ![e] = "pending"]
                      /\ started' = [started EXCEPT ![e] = "null"]
                      /\ retries' = [retries EXCEPT ![e] = s.attempts + 1]
                      /\ outbox' = outbox \cup {e}
                      /\ stuckList' = [stuckList EXCEPT ![t] = @ \ {s}]
                 ELSE \* the UPDATE violates the identity index: the tick raises
                      /\ stuckList' = [stuckList EXCEPT ![t] = {}]
                      /\ UNCHANGED <<status, started, retries, outbox>>
        /\ UNCHANGED <<result, indicators, sliValues, run, job, finVars, bounds>>

-----------------------------------------------------------------------------
(* Finalization.                                                           *)

(* finalize_sweeper_job lists finalizable runs, oldest period first, up to *)
(* its batch limit.                                                        *)
finalize_sweeper(C) ==
    /\ C # {}
    /\ C \subseteq find_finalizable_pending
    /\ Cardinality(C) <= BatchLimit
    /\ \A d \in find_finalizable_pending \ C :
            /\ Cardinality(C) = BatchLimit
            /\ \A c \in C : PeriodOf[c] <= PeriodOf[d]
    /\ finalizeAttempts' = finalizeAttempts \cup C
    /\ UNCHANGED <<rowVars, run, job, outbox, stuckList, finalizing, bounds>>

(* finalize_if_all_done up to its UPDATE: it leaves if the run is already  *)
(* completed or a child is in progress, else it holds the aggregate.       *)
finalize_read(r) ==
    /\ r \in finalizeAttempts
    /\ finalizeAttempts' = finalizeAttempts \ {r}
    /\ finalizing' = IF run[r].status # "completed" /\ AllDone(r)
                     THEN finalizing \cup {[run |-> r, result |-> WorstResult(r)]}
                     ELSE finalizing
    /\ UNCHANGED <<rowVars, run, job, outbox, stuckList, bounds>>

(* ... and the UPDATE, guarded by status != 'completed'.                   *)
finalize_write(f) ==
    /\ f \in finalizing
    /\ finalizing' = finalizing \ {f}
    /\ run' = IF NotCompleted(f.run)
              THEN [run EXCEPT ![f.run] = [status |-> "completed",
                                           result |-> f.result]]
              ELSE run
    /\ UNCHANGED <<rowVars, job, outbox, stuckList, finalizeAttempts, bounds>>

(* A finalization, a sweep or a watchdog tick ends with its process or     *)
(* raises before it is through.                                            *)
TickAborts ==
    /\ aborts < MaxAborts
    /\ aborts' = aborts + 1
    /\ \/ /\ \E r \in finalizeAttempts : finalizeAttempts' = finalizeAttempts \ {r}
          /\ UNCHANGED <<finalizing, stuckList>>
       \/ /\ \E f \in finalizing : finalizing' = finalizing \ {f}
          /\ UNCHANGED <<finalizeAttempts, stuckList>>
       \/ /\ \E t \in Ticks : /\ stuckList[t] # {}
                            /\ stuckList' = [stuckList EXCEPT ![t] = {}]
          /\ UNCHANGED finVars
    /\ UNCHANGED <<rowVars, run, job, outbox, crashes, lost, disturbed>>

-----------------------------------------------------------------------------
JobStepOf(j) ==
    \/ check_predecessor(j) \/ defer_job(j)
    \/ load_evaluation_snapshot(j) \/ load_definitions(j)
    \/ fetch_and_evaluate(j) \/ mark_failed(j)
    \/ write_results(j) \/ write_sli_values_phase(j)
    \/ enqueue_finalize(j) \/ AckJob(j)

Next ==
    \/ \E r \in Runs, S \in SUBSET Slos : trigger_evaluate(r, S)
    \/ \E e \in Evals : enqueue_job(e) \/ LoseEnqueue(e) \/ Age(e)
    \/ \E j \in Jobs : JobStepOf(j) \/ WorkerCrash(j) \/ JobDies(j)
    \/ \E t \in Ticks : \/ watchdog_scan(t)
                       \/ \E s \in stuckList[t] : watchdog_recover(t, s)
    \/ \E C \in SUBSET Runs : finalize_sweeper(C)
    \/ \E r \in Runs : finalize_read(r)
    \/ \E f \in finalizing : finalize_write(f)
    \/ TickAborts

Spec == Init /\ [][Next]_vars

(* What the worker processes, the cron jobs and time do sooner or later.   *)
(* Nothing is assumed of crashes, losses and new requests.                 *)
Fairness ==
    /\ \A j \in Jobs : WF_vars(JobStepOf(j))
    /\ \A e \in Evals : WF_vars(enqueue_job(e)) /\ WF_vars(Age(e))
    /\ WF_vars(\E t \in Ticks : watchdog_scan(t))
    /\ \A t \in Ticks : WF_vars(\E s \in stuckList[t] : watchdog_recover(t, s))
    /\ WF_vars(\E C \in SUBSET Runs : finalize_sweeper(C))
    /\ \A r \in Runs : WF_vars(finalize_read(r))
    /\ WF_vars(\E f \in finalizing : finalize_write(f))

LiveSpec == Spec /\ Fairness

-----------------------------------------------------------------------------
(* Properties.                                                             *)

JobRecord == [pc : JobStep, eval : Evals \cup {NoEval}, defers : 0..MaxDefers,
              tries : 0..MaxTries, outcome : MaybeOutcome]

JobsTyped ==
    /\ job \in [Jobs -> JobRecord]
    /\ \A j \in Jobs :
        /\ job[j].pc # "free" => job[j].eval \in Evals
        /\ job[j].pc = "defer" => job[j].defers < MaxDefers

(* Every variable has its type; in particular a row is recovered by the    *)
(* watchdog (watchdog_stuck_evaluations_job) at most max_stuck_job_retries *)
(* times on one counter, and a job is deferred at most                     *)
(* _MAX_PREDECESSOR_DEFERS times.                                          *)
TypeOK ==
    /\ status \in [Evals -> EvaluationStatus \cup {"absent"}]
    /\ started \in [Evals -> {"null", "fresh", "stale"}]
    /\ result \in [Evals -> MaybeOutcome]
    /\ retries \in [Evals -> 0..MaxRetries]
    /\ indicators \in [Evals -> MaybeOutcome]
    /\ sliValues \in [Evals -> MaybeOutcome]
    /\ run \in [Runs -> [status : {"absent", "pending", "completed"},
                         result : MaybeOutcome]]
    /\ JobsTyped
    /\ outbox \subseteq Evals
    /\ stuckList \in [Ticks -> SUBSET [eval : Evals, attempts : 0..MaxRetries]]
    /\ finalizeAttempts \subseteq Runs
    /\ finalizing \subseteq [run : Runs, result : MaybeOutcome]
    /\ crashes \in 0..MaxCrashes /\ lost \in 0..MaxLost /\ aborts \in 0..MaxAborts
    /\ disturbed \subseteq Evals

(* The three places a result is stored in never disagree: the row's        *)
(* result, the indicator rows written with it (Phase 3a) and the           *)
(* sli_values rows of the later transaction (Phase 3b) all belong to one   *)
(* execution, however many executions of the job there were; and only a    *)
(* row with its indicators is 'completed'.                                 *)
ResultsConsistent ==
    \A e \in Evals :
        /\ result[e] = indicators[e]
        /\ status[e] = "completed" => indicators[e] # NoResult
        /\ sliValues[e] \in {NoResult, result[e]}

\* Jobs that may still change the status of their row.
Unsettled == {"queued", "defer", "phase1", "phase2a", "phase2b", "failing", "phase3a"}
Owners(e) == {j \in Jobs : job[j].eval = e /\ job[j].pc \in Unsettled}

Ledger == INSTANCE EvaluationLedger WITH
    LRuns <- Runs, LEvals <- Evals, Parent <- RunOf, Results <- Outcomes,
    None <- NoResult, ledger <- indicators, chart <- sliValues, published <- run

(* The pipeline keeps the promise of EvaluationLedger: first result wins,  *)
(* charts show the result of record, a run is published once and never     *)
(* with a result no child ever had.                                        *)
KeepsLedger == Ledger!LedgerSpec

(* At most one party is responsible for a row: a job, the process about to *)
(* enqueue one, or one tick of the watchdog; nobody is once the row is     *)
(* terminal. The exceptions are rows that met one of three events: arq     *)
(* delivered their message again, they passed the stuck threshold under a  *)
(* living execution (the docstring of watchdog_stuck_evaluations_job wants *)
(* a threshold that rules this out), or a tick read them while an earlier  *)
(* tick still had them on its list.                                        *)
SingleOwner ==
    \A e \in Evals \ disturbed :
        /\ \A i, j \in Owners(e) : i = j
        /\ \A t, u \in Ticks : \A s \in stuckList[t], v \in stuckList[u] :
                s.eval = e /\ v.eval = e => t = u /\ s = v
        /\ Owners(e) # {} => e \notin outbox /\ ~OnStuckList(e)
        /\ e \in outbox => ~OnStuckList(e)
        /\ status[e] \in Terminal =>
                Owners(e) = {} /\ e \notin outbox /\ ~OnStuckList(e)

(* A completed run none of whose rows met such an event is the aggregate   *)
(* of its children: all of them terminal, its result the worst of theirs   *)
(* (finalize_if_all_done), and it stays so.                                *)
RunAggregatesChildren ==
    \A r \in Runs :
        run[r].status = "completed" /\ Children(r) \cap disturbed = {} =>
            AllDone(r) /\ run[r].result = WorstResult(r)

(* A run with children is finalized in the end: crashed and killed jobs    *)
(* are recovered or given up by the watchdog, missed finalizations are     *)
(* made up for by the sweeper. Only for runs whose jobs were enqueued, with *)
(* a threshold above the job timeout and ticks that end before the next.   *)
RunCompletes ==
    \A r \in Runs :
        run[r].status = "pending" /\ Present(r) # {} ~> run[r].status = "completed"

(* No row stays in 'running': its job ends it, or the watchdog requeues or *)
(* fails it, even if its message is delivered again and its executions     *)
(* overlap. With a threshold above the job timeout, and ticks that end     *)
(* before the next.                                                        *)
RunningResolved ==
    \A e \in Evals : status[e] = "running" ~> status[e] # "running"

(* Predecessor deferral is no deadlock: again and again every row has no   *)
(* job that waits, even if the predecessor's job was lost and it is        *)
(* pending for good.                                                       *)
DeferralsEnd ==
    \A e \in Evals :
        []<>(\A j \in Jobs : job[j].eval = e => job[j].pc \notin {"queued", "defer"})

(* The watchdog gives up: from some time on no row is ever running again.  *)
(* Only with a threshold above the job timeout, finitely many redeliveries *)
(* and ticks that end before the next: an execution that overlaps the one  *)
(* the watchdog enqueued replaces job_stats in _mark_failed, which starts  *)
(* the count of retries again, and with the shipped threshold of 180 s and *)
(* timeout of 300 s nothing bounds how often that happens.                 *)
RecoveryStops == <>[](\A e \in Evals : status[e] # "running")

=============================================================================
