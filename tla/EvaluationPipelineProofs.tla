---------------------- MODULE EvaluationPipelineProofs ----------------------
(***************************************************************************)
(* Theorems about EvaluationPipeline, for any sets of runs, SLOs, jobs  *)
(* and overlapping ticks, and any values of the limits.                    *)
(***************************************************************************)
EXTENDS EvaluationPipeline, TLAPS

-----------------------------------------------------------------------------
(* The operators the model is built from.                                  *)

\* "none" stands for a NULL result and is no result.
LEMMA NoResultNotOutcome == NoResult \notin Outcomes
  BY PipelineAssumption DEF NoResult, RESULT_RANK

LEMMA EvalParts == \A e \in Evals : RunOf(e) \in Runs /\ SloOf(e) \in Slos
  BY DEF Evals, RunOf, SloOf

\* The aggregate of a run is none or the result of one of its children.
LEMMA WorstResultOfChild ==
  ASSUME NEW r \in Runs, result \in [Evals -> MaybeOutcome]
  PROVE  /\ WorstResult(r) \in MaybeOutcome
         /\ \/ WorstResult(r) = NoResult
            \/ \E e \in Children(r) : result[e] = WorstResult(r)
<1> DEFINE results == {result[e] : e \in Present(r)} \ {NoResult}
<1>1. results \subseteq Outcomes
  BY DEF MaybeOutcome, Present, Children
<1>2. ASSUME results # {}
      PROVE  \E w \in results : \A v \in results : RESULT_RANK[w] >= RESULT_RANK[v]
  <2>1. results \subseteq {"pass", "warning", "fail", "error", "invalidated"}
    BY <1>1, PipelineAssumption DEF RESULT_RANK
  <2>2. /\ RESULT_RANK["pass"] = 0 /\ RESULT_RANK["warning"] = 1
        /\ RESULT_RANK["fail"] = 2 /\ RESULT_RANK["error"] = 3
        /\ RESULT_RANK["invalidated"] = 4
    BY DEF RESULT_RANK
  <2> HIDE DEF results
  <2>3. CASE "invalidated" \in results
    BY <2>1, <2>2, <2>3
  <2>4. CASE "invalidated" \notin results /\ "error" \in results
    BY <2>1, <2>2, <2>4
  <2>5. CASE results \subseteq {"pass", "warning", "fail"} /\ "fail" \in results
    BY <2>2, <2>5
  <2>6. CASE results \subseteq {"pass", "warning"} /\ "warning" \in results
    BY <2>2, <2>6
  <2>7. CASE results = {"pass"}
    BY <2>2, <2>7
  <2> QED BY <1>2, <2>1, <2>3, <2>4, <2>5, <2>6, <2>7
<1>3. CASE results = {}
  BY <1>3 DEF WorstResult, MaybeOutcome
<1>4. CASE results # {}
  <2>1. WorstResult(r) \in results
    BY <1>2, <1>4 DEF WorstResult
  <2> QED BY <2>1, <1>1 DEF MaybeOutcome, Present
<1> QED BY <1>3, <1>4

-----------------------------------------------------------------------------
(* Type correctness.                                                       *)

LEMMA NewJobType ==
  ASSUME NEW e \in Evals, NEW n \in 0..MaxDefers
  PROVE  NewJob(e, n) \in JobRecord
  BY PipelineAssumption DEF NewJob, JobRecord, JobStep, MaybeOutcome

LEMMA FreeJobType == FreeJob \in JobRecord
  BY PipelineAssumption DEF FreeJob, JobRecord, JobStep, MaybeOutcome

\* Moving a job to another step keeps the types of the jobs.
LEMMA GotoTyped ==
  ASSUME JobsTyped, NEW j \in Jobs, job[j].pc # "free",
         NEW step \in JobStep, Goto(j, step),
         step = "defer" => job[j].defers < MaxDefers
  PROVE  JobsTyped'
<1>1. /\ job[j] \in JobRecord
      /\ job' = [job EXCEPT ![j] = [job[j] EXCEPT !.pc = step]]
  BY DEF JobsTyped, Goto
<1>2. [job[j] EXCEPT !.pc = step] \in JobRecord
  BY <1>1 DEF JobRecord
<1> QED BY <1>1, <1>2 DEF JobsTyped, JobRecord

LEMMA FreeTyped ==
  ASSUME JobsTyped, NEW j \in Jobs, job' = [job EXCEPT ![j] = FreeJob]
  PROVE  JobsTyped'
  BY FreeJobType DEF JobsTyped, FreeJob

LEMMA TypeInit == Init => TypeOK
  BY PipelineAssumption, FreeJobType
  DEF Init, TypeOK, JobsTyped, FreeJob, MaybeOutcome, NoEval, NoResult

\* What a job does to its slot and nothing else keeps the types.
LEMMA TypeStep == TypeOK /\ [Next]_vars => TypeOK'
<1> SUFFICES ASSUME TypeOK, [Next]_vars PROVE TypeOK'
  OBVIOUS
<1> USE PipelineAssumption, EvalParts
<1>1. ASSUME NEW r \in Runs, NEW S \in SUBSET Slos, trigger_evaluate(r, S) PROVE TypeOK'
  <2>1. run' \in [Runs -> [status : {"absent", "pending", "completed"}, result : MaybeOutcome]]
    BY <1>1 DEF TypeOK, trigger_evaluate
  <2>2. outbox' \subseteq Evals
    BY <1>1 DEF TypeOK, trigger_evaluate, Evals
  <2> QED BY <1>1, <2>1, <2>2
    DEF TypeOK, JobsTyped, trigger_evaluate, finVars, bounds, EvaluationStatus
<1>2. ASSUME NEW e \in Evals, enqueue_job(e) PROVE TypeOK'
  BY <1>2, NewJobType DEF TypeOK, JobsTyped, enqueue_job, rowVars, finVars, bounds, NewJob
<1>3. ASSUME NEW e \in Evals, LoseEnqueue(e) PROVE TypeOK'
  BY <1>3 DEF TypeOK, JobsTyped, LoseEnqueue, rowVars, finVars
<1>4. ASSUME NEW e \in Evals, Age(e) PROVE TypeOK'
  BY <1>4 DEF TypeOK, JobsTyped, Age, finVars, bounds
<1>5. ASSUME NEW j \in Jobs, check_predecessor(j) PROVE TypeOK'
  BY <1>5, GotoTyped DEF TypeOK, check_predecessor, At, JobStep, Executing, rowVars, finVars, bounds
<1>6. ASSUME NEW j \in Jobs, defer_job(j) PROVE TypeOK'
  <2>1. PICK k \in Jobs : /\ k = j \/ At(k, "free")
                         /\ job' = [job EXCEPT ![j].pc = "ending",
                                ![k] = NewJob(job[j].eval, NextDefer(job[j].defers))]
    BY <1>6 DEF defer_job
  <2> DEFINE new == NewJob(job[j].eval, NextDefer(job[j].defers))
             ended == [job[j] EXCEPT !.pc = "ending"]
  <2>3. job' = [job EXCEPT ![j] = ended, ![k] = new]
    BY <2>1 DEF TypeOK, JobsTyped
  <2>4. job[j].eval \in Evals /\ job[j].defers \in 0..MaxDefers
    BY <1>6 DEF TypeOK, JobsTyped, JobRecord, defer_job, At
  <2>5. job[j].defers < MaxDefers
    BY <1>6 DEF TypeOK, JobsTyped, defer_job, At
  <2>6. new \in JobRecord /\ new.eval \in Evals /\ new.pc = "queued"
    BY <2>4, <2>5, NewJobType DEF NextDefer, NewJob
  <2>7. ended \in JobRecord /\ ended.eval \in Evals /\ ended.pc = "ending"
    BY <2>4 DEF TypeOK, JobsTyped, JobRecord, JobStep, Executing
  <2> HIDE DEF new, ended
  <2>8. JobsTyped'
    BY <2>3, <2>6, <2>7 DEF TypeOK, JobsTyped
  <2> QED BY <1>6, <2>8 DEF TypeOK, defer_job, rowVars, finVars, bounds
<1>7. ASSUME NEW j \in Jobs, load_evaluation_snapshot(j) PROVE TypeOK'
  <2>1. job[j].eval \in Evals
    BY <1>7 DEF TypeOK, JobsTyped, load_evaluation_snapshot, At
  <2>2. JobsTyped'
    BY <1>7, GotoTyped, FreeTyped DEF TypeOK, load_evaluation_snapshot, At, JobStep, Executing
  <2> QED BY <1>7, <2>1, <2>2
    DEF TypeOK, load_evaluation_snapshot, finVars, bounds, MergedRetries, EvaluationStatus
<1>8. ASSUME NEW j \in Jobs, load_definitions(j) PROVE TypeOK'
  BY <1>8, GotoTyped DEF TypeOK, load_definitions, At, JobStep, Executing, rowVars, finVars, bounds
<1>9. ASSUME NEW j \in Jobs, fetch_and_evaluate(j) PROVE TypeOK'
  <2>1. CASE Goto(j, "failing")
    BY <1>9, <2>1, GotoTyped DEF TypeOK, fetch_and_evaluate, At, JobStep, Executing, rowVars, finVars, bounds
  <2>2. ASSUME NEW o \in Outcomes, job' = [job EXCEPT ![j].pc = "phase3a", ![j].outcome = o]
        PROVE  TypeOK'
    <3>1. job[j] \in JobRecord
      BY DEF TypeOK, JobsTyped
    <3>2. job' = [job EXCEPT ![j] = [job[j] EXCEPT !.pc = "phase3a", !.outcome = o]]
      BY <2>2, <3>1 DEF TypeOK, JobsTyped
    <3>3. [job[j] EXCEPT !.pc = "phase3a", !.outcome = o] \in JobRecord
      BY <3>1 DEF JobRecord, JobStep, Executing, MaybeOutcome
    <3>4. JobsTyped'
      BY <1>9, <3>1, <3>2, <3>3 DEF TypeOK, JobsTyped, JobRecord, fetch_and_evaluate, At
    <3> QED BY <1>9, <3>4 DEF TypeOK, fetch_and_evaluate, rowVars, finVars, bounds
  <2> QED BY <1>9, <2>1, <2>2 DEF fetch_and_evaluate
<1>10. ASSUME NEW j \in Jobs, mark_failed(j) PROVE TypeOK'
  <2>1. job[j].eval \in Evals
    BY <1>10 DEF TypeOK, JobsTyped, mark_failed, At
  <2>2. JobsTyped'
    BY <1>10, GotoTyped DEF TypeOK, mark_failed, At, JobStep, Executing
  <2> QED BY <1>10, <2>1, <2>2 DEF TypeOK, mark_failed, finVars, bounds, EvaluationStatus
<1>11. ASSUME NEW j \in Jobs, write_results(j) PROVE TypeOK'
  <2>1. job[j].eval \in Evals /\ job[j].outcome \in MaybeOutcome
    BY <1>11 DEF TypeOK, JobsTyped, JobRecord, write_results, At
  <2>2. JobsTyped'
    BY <1>11, GotoTyped, FreeTyped DEF TypeOK, write_results, At, JobStep, Executing
  <2>3. /\ status' \in [Evals -> EvaluationStatus \cup {"absent"}]
        /\ result' \in [Evals -> MaybeOutcome]
        /\ indicators' \in [Evals -> MaybeOutcome]
        /\ retries' \in [Evals -> 0..MaxRetries]
    <3>1. CASE IndicatorRowsFree(job[j].eval) /\ IdentityFree(job[j].eval)
      <4>1. /\ status' = [status EXCEPT ![job[j].eval] = "completed"]
            /\ result' = [result EXCEPT ![job[j].eval] = job[j].outcome]
            /\ indicators' = [indicators EXCEPT ![job[j].eval] = job[j].outcome]
            /\ retries' = [retries EXCEPT ![job[j].eval] = 0]
        BY <1>11, <3>1 DEF write_results
      <4>2. 0 \in 0..MaxRetries
        OBVIOUS
      <4> QED BY <2>1, <4>1, <4>2 DEF TypeOK, EvaluationStatus
    <3>2. CASE ~(IndicatorRowsFree(job[j].eval) /\ IdentityFree(job[j].eval))
      BY <1>11, <3>2 DEF TypeOK, write_results
    <3> QED BY <3>1, <3>2
  <2> QED BY <1>11, <2>2, <2>3 DEF TypeOK, write_results, finVars, bounds
<1>12. ASSUME NEW j \in Jobs, write_sli_values_phase(j) PROVE TypeOK'
  <2>1. job[j].eval \in Evals /\ job[j].outcome \in MaybeOutcome
    BY <1>12 DEF TypeOK, JobsTyped, JobRecord, write_sli_values_phase, At
  <2>2. JobsTyped'
    BY <1>12, GotoTyped, FreeTyped DEF TypeOK, write_sli_values_phase, At, JobStep, Executing
  <2> QED BY <1>12, <2>1, <2>2 DEF TypeOK, write_sli_values_phase, finVars, bounds
<1>13. ASSUME NEW j \in Jobs, enqueue_finalize(j) PROVE TypeOK'
  <2>1. job[j].eval \in Evals
    BY <1>13 DEF TypeOK, JobsTyped, enqueue_finalize, At
  <2>2. JobsTyped'
    BY <1>13, GotoTyped DEF TypeOK, enqueue_finalize, At, JobStep, Executing
  <2> QED BY <1>13, <2>1, <2>2 DEF TypeOK, enqueue_finalize, rowVars, bounds
<1>14. ASSUME NEW j \in Jobs, AckJob(j) PROVE TypeOK'
  BY <1>14, FreeTyped DEF TypeOK, AckJob, rowVars, finVars, bounds
<1>15. ASSUME NEW j \in Jobs, WorkerCrash(j) PROVE TypeOK'
  <2>1. job[j] \in JobRecord /\ job[j].eval \in Evals
    BY <1>15 DEF TypeOK, JobsTyped, WorkerCrash, Executing
  <2>2. CASE job[j].tries + 1 < MaxTries
    <3> DEFINE again == [NewJob(job[j].eval, job[j].defers) EXCEPT !.tries = job[j].tries + 1]
    <3>1. job' = [job EXCEPT ![j] = again] /\ disturbed' = disturbed \cup {job[j].eval}
      BY <1>15, <2>2 DEF WorkerCrash, TypeOK, JobsTyped
    <3>2. again \in JobRecord /\ again.eval = job[j].eval /\ again.pc = "queued"
      BY <2>1, <2>2 DEF JobRecord, NewJob, JobStep, MaybeOutcome
    <3> HIDE DEF again
    <3>3. JobsTyped'
      BY <2>1, <3>1, <3>2 DEF TypeOK, JobsTyped
    <3> QED BY <1>15, <2>1, <3>1, <3>3 DEF TypeOK, WorkerCrash, rowVars, finVars
  <2>3. CASE ~(job[j].tries + 1 < MaxTries)
    <3>1. job' = [job EXCEPT ![j] = FreeJob] /\ disturbed' = disturbed
      BY <1>15, <2>3 DEF WorkerCrash, TypeOK, JobsTyped
    <3>2. JobsTyped'
      BY <3>1, FreeTyped DEF TypeOK
    <3> QED BY <1>15, <3>1, <3>2 DEF TypeOK, WorkerCrash, rowVars, finVars
  <2> QED BY <2>2, <2>3
<1>16. ASSUME NEW j \in Jobs, JobDies(j) PROVE TypeOK'
  <2>1. JobsTyped'
    BY <1>16, FreeTyped DEF TypeOK, JobDies
  <2>2. lost' \in 0..MaxLost
    BY <1>16 DEF TypeOK, JobDies
  <2> QED BY <1>16, <2>1, <2>2 DEF TypeOK, JobDies, rowVars, finVars
<1>17. ASSUME NEW t \in Ticks, watchdog_scan(t) PROVE TypeOK'
  <2>1. {[eval |-> e, attempts |-> retries[e]] : e \in find_stuck}
            \in SUBSET [eval : Evals, attempts : 0..MaxRetries]
    BY DEF TypeOK, find_stuck
  <2>2. stuckList' \in [Ticks -> SUBSET [eval : Evals, attempts : 0..MaxRetries]]
    BY <1>17, <2>1 DEF TypeOK, watchdog_scan
  <2> QED BY <1>17, <2>2 DEF TypeOK, JobsTyped, watchdog_scan, find_stuck, rowVars, finVars
<1>18. ASSUME NEW t \in Ticks, NEW s \in stuckList[t], watchdog_recover(t, s) PROVE TypeOK'
  <2>1. s.eval \in Evals /\ s.attempts \in 0..MaxRetries
    BY DEF TypeOK
  <2>2. status' \in [Evals -> EvaluationStatus \cup {"absent"}]
    BY <1>18, <2>1 DEF TypeOK, watchdog_recover, EvaluationStatus
  <2>3. retries' \in [Evals -> 0..MaxRetries]
    BY <1>18, <2>1 DEF TypeOK, watchdog_recover, RetriesExhausted
  <2>4. started' \in [Evals -> {"null", "fresh", "stale"}]
    BY <1>18, <2>1 DEF TypeOK, watchdog_recover
  <2>5. /\ outbox' \subseteq Evals
        /\ stuckList' \in [Ticks -> SUBSET [eval : Evals, attempts : 0..MaxRetries]]
    BY <1>18, <2>1 DEF TypeOK, watchdog_recover
  <2> QED BY <1>18, <2>2, <2>3, <2>4, <2>5 DEF TypeOK, JobsTyped, watchdog_recover, finVars, bounds
<1>19. ASSUME NEW C \in SUBSET Runs, finalize_sweeper(C) PROVE TypeOK'
  BY <1>19 DEF TypeOK, JobsTyped, finalize_sweeper, rowVars, bounds
<1>20. ASSUME NEW r \in Runs, finalize_read(r) PROVE TypeOK'
  BY <1>20, WorstResultOfChild DEF TypeOK, JobsTyped, finalize_read, rowVars, bounds
<1>21. ASSUME NEW f \in finalizing, finalize_write(f) PROVE TypeOK'
  BY <1>21 DEF TypeOK, JobsTyped, finalize_write, NotCompleted, rowVars, bounds
<1>22. ASSUME TickAborts PROVE TypeOK'
  BY <1>22 DEF TypeOK, JobsTyped, TickAborts, rowVars, finVars
<1>23. ASSUME UNCHANGED vars PROVE TypeOK'
  BY <1>23 DEF TypeOK, JobsTyped, vars, rowVars, finVars, bounds
<1> QED BY <1>1, <1>2, <1>3, <1>4, <1>5, <1>6, <1>7, <1>8, <1>9, <1>10, <1>11, <1>12, <1>13,
  <1>14, <1>15, <1>16, <1>17, <1>18, <1>19, <1>20, <1>21, <1>22, <1>23 DEF Next, JobStepOf

(* Every variable has its type in every reachable state: in particular the *)
(* retry counter of the watchdog stays within max_stuck_job_retries and    *)
(* the deferrals of run_evaluation_job within _MAX_PREDECESSOR_DEFERS.     *)
THEOREM TypeCorrect == Spec => []TypeOK
  BY TypeInit, TypeStep, PTL DEF Spec

-----------------------------------------------------------------------------
(* The pipeline keeps the ledger. ResultsConsistent is not inductive: it   *)
(* holds because the outcome a job carries from Phase 3a into Phase 3b is  *)
(* the one stored, and a finalization carries a result some child has.     *)

\* Whoever may touch a row, the row is there; and so is its run.
RowsExist ==
    /\ \A e \in Evals : status[e] # "absent" => run[RunOf(e)].status # "absent"
    /\ \A e \in outbox : status[e] # "absent"
    /\ \A t \in Ticks : \A s \in stuckList[t] : status[s.eval] # "absent"
    /\ \A j \in Jobs : job[j].pc # "free" => status[job[j].eval] # "absent"

JobsCarryResult ==
    \A j \in Jobs :
        /\ job[j].pc = "phase3a" => job[j].outcome \in Outcomes
        /\ job[j].pc = "phase3b" => /\ job[j].outcome = indicators[job[j].eval]
                                   /\ job[j].outcome # NoResult

FinalizersCarryChildResult ==
    \A f \in finalizing :
        /\ run[f.run].status # "absent"
        /\ f.result = NoResult \/ \E e \in Children(f.run) : indicators[e] = f.result

LedgerInv ==
    TypeOK /\ ResultsConsistent /\ RowsExist /\ JobsCarryResult /\ FinalizersCarryChildResult

LEMMA LedgerInit == Init => LedgerInv
  BY TypeInit DEF Init, LedgerInv, ResultsConsistent, RowsExist, JobsCarryResult,
     FinalizersCarryChildResult, FreeJob, EvaluationStatus

\* What moving a job to another step changes, and what it leaves alone.
LEMMA GotoFacts ==
  ASSUME JobsTyped, NEW j \in Jobs, NEW step, Goto(j, step)
  PROVE  /\ job'[j].pc = step /\ job'[j].eval = job[j].eval /\ job'[j].outcome = job[j].outcome
         /\ \A k \in Jobs \ {j} : job'[k] = job[k]
<1>1. job[j] \in JobRecord /\ job' = [job EXCEPT ![j] = [job[j] EXCEPT !.pc = step]]
  BY DEF JobsTyped, Goto
<1>2. LET m == [job[j] EXCEPT !.pc = step]
      IN  m.pc = step /\ m.eval = job[j].eval /\ m.outcome = job[j].outcome
  BY <1>1 DEF JobRecord
<1> QED BY <1>1, <1>2 DEF JobsTyped

LEMMA FreeFacts ==
  ASSUME JobsTyped, NEW j \in Jobs, job' = [job EXCEPT ![j] = FreeJob]
  PROVE  job'[j].pc = "free" /\ \A k \in Jobs \ {j} : job'[k] = job[k]
  BY DEF JobsTyped, FreeJob

\* Job j goes to a step in which it carries no outcome; the others stay.
OutcomeDropped(j) ==
    /\ \A k \in Jobs \ {j} : job'[k] = job[k]
    /\ job'[j].pc \notin {"phase3a", "phase3b"}
    /\ job'[j].pc # "free" => job[j].pc # "free" /\ job'[j].eval = job[j].eval

\* No row appears or vanishes and none becomes completed.
NoRowCompletes ==
    \A e \in Evals : /\ status'[e] = "absent" <=> status[e] = "absent"
                     /\ status'[e] = "completed" => status[e] = "completed"

LEMMA QuietJobStep ==
  ASSUME LedgerInv, TypeOK', NEW j \in Jobs, OutcomeDropped(j), NoRowCompletes,
         UNCHANGED <<result, indicators, sliValues, run, outbox, stuckList, finalizing>>
  PROVE  LedgerInv'
<1>1. ResultsConsistent'
  BY DEF LedgerInv, ResultsConsistent, NoRowCompletes
<1>2. RowsExist'
  BY DEF LedgerInv, RowsExist, NoRowCompletes, OutcomeDropped, TypeOK, JobsTyped
<1>3. JobsCarryResult'
  BY DEF LedgerInv, JobsCarryResult, OutcomeDropped
<1>4. FinalizersCarryChildResult'
  BY DEF LedgerInv, FinalizersCarryChildResult
<1> QED BY <1>1, <1>2, <1>3, <1>4 DEF LedgerInv

LEMMA LedgerStep == LedgerInv /\ [Next]_vars => LedgerInv'
<1> SUFFICES ASSUME LedgerInv, [Next]_vars PROVE LedgerInv'
  OBVIOUS
<1> USE EvalParts, NoResultNotOutcome
<1>0. TypeOK /\ TypeOK' /\ JobsTyped
  BY TypeStep DEF LedgerInv, TypeOK
<1>1. ASSUME NEW r \in Runs, NEW S \in SUBSET Slos, trigger_evaluate(r, S) PROVE LedgerInv'
  <2>1. \A e \in Evals : \/ status'[e] = status[e]
                         \/ status'[e] = "pending" /\ RunOf(e) = r
    BY <1>0, <1>1 DEF TypeOK, trigger_evaluate, RunOf
  <2>2. \A q \in Runs : run'[q].status = IF q = r THEN "pending" ELSE run[q].status
    BY <1>0, <1>1 DEF TypeOK, trigger_evaluate
  <2>3. \A e \in {r} \X S : e \in Evals /\ status'[e] = "pending"
    BY <1>0, <1>1 DEF TypeOK, trigger_evaluate, Evals
  <2>4. RowsExist'
    BY <1>0, <1>1, <2>1, <2>2, <2>3 DEF LedgerInv, RowsExist, TypeOK, JobsTyped, trigger_evaluate
  <2>5. FinalizersCarryChildResult'
    BY <1>0, <1>1, <2>2 DEF LedgerInv, FinalizersCarryChildResult, TypeOK, trigger_evaluate, finVars
  <2> QED BY <1>0, <1>1, <2>1, <2>4, <2>5
    DEF LedgerInv, ResultsConsistent, JobsCarryResult, trigger_evaluate
<1>2. ASSUME NEW e \in Evals, enqueue_job(e) PROVE LedgerInv'
  BY <1>0, <1>2
  DEF LedgerInv, ResultsConsistent, RowsExist, JobsCarryResult, FinalizersCarryChildResult,
      TypeOK, JobsTyped, enqueue_job, NewJob, rowVars, finVars, bounds
<1>3. ASSUME NEW e \in Evals, LoseEnqueue(e) PROVE LedgerInv'
  BY <1>0, <1>3
  DEF LedgerInv, ResultsConsistent, RowsExist, JobsCarryResult, FinalizersCarryChildResult,
      TypeOK, LoseEnqueue, rowVars, finVars
<1>4. ASSUME NEW e \in Evals, Age(e) PROVE LedgerInv'
  BY <1>0, <1>4
  DEF LedgerInv, ResultsConsistent, RowsExist, JobsCarryResult, FinalizersCarryChildResult,
      TypeOK, Age, finVars, bounds
<1>5. ASSUME NEW j \in Jobs, check_predecessor(j) PROVE LedgerInv'
  <2>1. OutcomeDropped(j)
    BY <1>0, <1>5, GotoFacts DEF OutcomeDropped, check_predecessor, At
  <2>2. NoRowCompletes
    BY <1>0, <1>5 DEF NoRowCompletes, LedgerInv, RowsExist, TypeOK, JobsTyped, check_predecessor, rowVars
  <2> QED BY <1>0, <1>5, <2>1, <2>2, QuietJobStep DEF check_predecessor, rowVars, finVars
<1>6. ASSUME NEW j \in Jobs, defer_job(j) PROVE LedgerInv'
  <2>1. PICK k \in Jobs : /\ k = j \/ At(k, "free")
                         /\ job' = [job EXCEPT ![j].pc = "ending",
                                ![k] = NewJob(job[j].eval, NextDefer(job[j].defers))]
    BY <1>6 DEF defer_job
  <2>3. /\ job'[k].pc = "queued" /\ job'[k].eval = job[j].eval
        /\ k # j => job'[j].pc = "ending" /\ job'[j].eval = job[j].eval
        /\ \A i \in Jobs \ {j, k} : job'[i] = job[i]
    BY <1>0, <2>1 DEF JobsTyped, JobRecord, NewJob
  <2>4. RowsExist'
    <3>1. UNCHANGED <<status, run, outbox, stuckList>> /\ job[j].pc # "free"
      BY <1>6 DEF defer_job, At, rowVars
    <3>2. \A i \in Jobs : job'[i].pc # "free" => status'[job'[i].eval] # "absent"
      BY <2>3, <3>1 DEF LedgerInv, RowsExist
    <3> QED BY <3>1, <3>2 DEF LedgerInv, RowsExist
  <2>5. JobsCarryResult'
    BY <1>6, <2>3 DEF LedgerInv, JobsCarryResult, defer_job, rowVars
  <2> QED BY <1>0, <1>6, <2>4, <2>5
    DEF LedgerInv, ResultsConsistent, FinalizersCarryChildResult, defer_job, rowVars, finVars
<1>7. ASSUME NEW j \in Jobs, load_evaluation_snapshot(j) PROVE LedgerInv'
  <2>1. OutcomeDropped(j)
    BY <1>0, <1>7, GotoFacts, FreeFacts DEF OutcomeDropped, load_evaluation_snapshot, At
  <2>2. NoRowCompletes
    BY <1>0, <1>7 DEF NoRowCompletes, LedgerInv, RowsExist, TypeOK, JobsTyped, load_evaluation_snapshot, At
  <2> QED BY <1>0, <1>7, <2>1, <2>2, QuietJobStep DEF load_evaluation_snapshot, rowVars, finVars
<1>8. ASSUME NEW j \in Jobs, load_definitions(j) PROVE LedgerInv'
  <2>1. OutcomeDropped(j)
    BY <1>0, <1>8, GotoFacts DEF OutcomeDropped, load_definitions, At
  <2>2. NoRowCompletes
    BY <1>0, <1>8 DEF NoRowCompletes, LedgerInv, RowsExist, TypeOK, JobsTyped, load_definitions, rowVars
  <2> QED BY <1>0, <1>8, <2>1, <2>2, QuietJobStep DEF load_definitions, rowVars, finVars
<1>9. ASSUME NEW j \in Jobs, fetch_and_evaluate(j) PROVE LedgerInv'
  <2>1. CASE Goto(j, "failing")
    <3>1. OutcomeDropped(j)
      BY <1>0, <1>9, <2>1, GotoFacts DEF OutcomeDropped, fetch_and_evaluate, At
    <3>2. NoRowCompletes
      BY <1>9 DEF NoRowCompletes, fetch_and_evaluate, rowVars
    <3> QED BY <1>0, <1>9, <3>1, <3>2, QuietJobStep DEF fetch_and_evaluate, rowVars, finVars
  <2>2. ASSUME NEW o \in Outcomes, job' = [job EXCEPT ![j].pc = "phase3a", ![j].outcome = o]
        PROVE  LedgerInv'
    <3>1. /\ job'[j].pc = "phase3a" /\ job'[j].outcome = o /\ job'[j].eval = job[j].eval
          /\ \A k \in Jobs \ {j} : job'[k] = job[k]
      BY <1>0, <2>2 DEF JobsTyped, JobRecord
    <3>2. RowsExist'
      BY <1>0, <1>9, <3>1 DEF LedgerInv, RowsExist, fetch_and_evaluate, At, rowVars
    <3>3. JobsCarryResult'
      BY <1>9, <3>1 DEF LedgerInv, JobsCarryResult, fetch_and_evaluate, rowVars
    <3> QED BY <1>0, <1>9, <3>2, <3>3
      DEF LedgerInv, ResultsConsistent, FinalizersCarryChildResult, fetch_and_evaluate, rowVars, finVars
  <2> QED BY <1>9, <2>1, <2>2 DEF fetch_and_evaluate
<1>10. ASSUME NEW j \in Jobs, mark_failed(j) PROVE LedgerInv'
  <2>1. OutcomeDropped(j)
    BY <1>0, <1>10, GotoFacts DEF OutcomeDropped, mark_failed, At
  <2>2. NoRowCompletes
    BY <1>0, <1>10 DEF NoRowCompletes, LedgerInv, RowsExist, TypeOK, JobsTyped, mark_failed, At
  <2> QED BY <1>0, <1>10, <2>1, <2>2, QuietJobStep DEF mark_failed, rowVars, finVars
<1>11. ASSUME NEW j \in Jobs, write_results(j) PROVE LedgerInv'
  <2> DEFINE e == job[j].eval
  <2>1. e \in Evals /\ job[j].pc = "phase3a" /\ job[j].outcome \in Outcomes
    BY <1>0, <1>11 DEF LedgerInv, JobsCarryResult, JobsTyped, write_results, At
  <2>2. CASE IndicatorRowsFree(e) /\ IdentityFree(e)
    <3>1. /\ status' = [status EXCEPT ![e] = "completed"]
          /\ result' = [result EXCEPT ![e] = job[j].outcome]
          /\ indicators' = [indicators EXCEPT ![e] = job[j].outcome]
          /\ indicators[e] = NoResult
          /\ Goto(j, "phase3b")
      BY <1>11, <2>2 DEF write_results, IndicatorRowsFree
    <3>2. /\ job'[j].pc = "phase3b" /\ job'[j].eval = e /\ job'[j].outcome = job[j].outcome
          /\ \A k \in Jobs \ {j} : job'[k] = job[k]
      BY <1>0, <3>1, GotoFacts
    <3> HIDE DEF e
    <3>3. \A x \in Evals :
            /\ status'[x] = IF x = e THEN "completed" ELSE status[x]
            /\ result'[x] = IF x = e THEN job[j].outcome ELSE result[x]
            /\ indicators'[x] = IF x = e THEN job[j].outcome ELSE indicators[x]
      BY <1>0, <2>1, <3>1 DEF TypeOK
    <3>4. ResultsConsistent'
      BY <1>11, <2>1, <3>1, <3>3 DEF LedgerInv, ResultsConsistent, write_results
    <3>5. RowsExist'
      <4>1. /\ UNCHANGED <<run, outbox, stuckList>>
            /\ \A x \in Evals : status'[x] = "absent" => status[x] = "absent"
        BY <1>11, <3>3 DEF write_results
      <4>a. status[e] # "absent"
        BY <1>0, <2>1 DEF e, LedgerInv, RowsExist
      <4>2. /\ \A x \in Evals : status'[x] # "absent" => run'[RunOf(x)].status # "absent"
            /\ \A x \in outbox' : status'[x] # "absent"
        BY <1>0, <2>1, <3>3, <4>1, <4>a DEF LedgerInv, RowsExist, TypeOK
      <4>3. \A t \in Ticks : \A s \in stuckList'[t] : status'[s.eval] # "absent"
        BY <1>0, <4>1 DEF LedgerInv, RowsExist, TypeOK
      <4>4. \A k \in Jobs : job'[k].pc # "free" => status'[job'[k].eval] # "absent"
        BY <1>0, <2>1, <3>2, <4>1 DEF e, LedgerInv, RowsExist, JobsTyped
      <4> QED BY <4>2, <4>3, <4>4 DEF RowsExist
    <3>6. JobsCarryResult'
      BY <1>0, <2>1, <3>1, <3>2, <3>3 DEF LedgerInv, JobsCarryResult, JobsTyped
    <3>7. FinalizersCarryChildResult'
      BY <1>0, <1>11, <3>1, <3>3
      DEF LedgerInv, FinalizersCarryChildResult, Children, TypeOK, write_results, finVars
    <3> QED BY <1>0, <3>4, <3>5, <3>6, <3>7 DEF LedgerInv
  <2>3. CASE ~(IndicatorRowsFree(e) /\ IdentityFree(e))
    <3>1. OutcomeDropped(j)
      BY <1>0, <1>11, <2>3, FreeFacts DEF OutcomeDropped, write_results
    <3>2. NoRowCompletes
      BY <1>11, <2>3 DEF NoRowCompletes, write_results
    <3> QED BY <1>0, <1>11, <2>3, <3>1, <3>2, QuietJobStep DEF write_results, finVars
  <2> QED BY <2>2, <2>3
<1>12. ASSUME NEW j \in Jobs, write_sli_values_phase(j) PROVE LedgerInv'
  <2> DEFINE e == job[j].eval
  <2>1. e \in Evals /\ job[j].outcome = indicators[e] /\ job[j].pc = "phase3b"
    BY <1>0, <1>12 DEF LedgerInv, JobsCarryResult, JobsTyped, write_sli_values_phase, At
  <2>2. CASE sliValues[e] = NoResult
    <3>1. sliValues' = [sliValues EXCEPT ![e] = job[j].outcome] /\ Goto(j, "phase4")
      BY <1>12, <2>2 DEF write_sli_values_phase
    <3>2. ResultsConsistent'
      BY <1>0, <1>12, <2>1, <3>1 DEF LedgerInv, ResultsConsistent, TypeOK, write_sli_values_phase
    <3>3. RowsExist' /\ JobsCarryResult'
      BY <1>0, <1>12, <2>1, <3>1, GotoFacts
      DEF LedgerInv, RowsExist, JobsCarryResult, write_sli_values_phase
    <3> QED BY <1>0, <1>12, <3>2, <3>3
      DEF LedgerInv, FinalizersCarryChildResult, write_sli_values_phase, finVars
  <2>3. CASE sliValues[e] # NoResult
    <3>1. OutcomeDropped(j)
      BY <1>0, <1>12, <2>3, FreeFacts DEF OutcomeDropped, write_sli_values_phase
    <3>2. NoRowCompletes
      BY <1>12 DEF NoRowCompletes, write_sli_values_phase
    <3> QED BY <1>0, <1>12, <2>3, <3>1, <3>2, QuietJobStep DEF write_sli_values_phase, finVars
  <2> QED BY <2>2, <2>3
<1>13. ASSUME NEW j \in Jobs, enqueue_finalize(j) PROVE LedgerInv'
  <2>1. OutcomeDropped(j)
    BY <1>0, <1>13, GotoFacts DEF OutcomeDropped, enqueue_finalize, At
  <2>2. NoRowCompletes
    BY <1>0, <1>13 DEF NoRowCompletes, LedgerInv, RowsExist, TypeOK, JobsTyped, enqueue_finalize, rowVars
  <2> QED BY <1>0, <1>13, <2>1, <2>2, QuietJobStep DEF enqueue_finalize, rowVars, finVars
<1>14. ASSUME NEW j \in Jobs, AckJob(j) PROVE LedgerInv'
  <2>1. OutcomeDropped(j)
    BY <1>0, <1>14, FreeFacts DEF OutcomeDropped, AckJob, At
  <2>2. NoRowCompletes
    BY <1>0, <1>14 DEF NoRowCompletes, LedgerInv, RowsExist, TypeOK, JobsTyped, AckJob, rowVars
  <2> QED BY <1>0, <1>14, <2>1, <2>2, QuietJobStep DEF AckJob, rowVars, finVars
<1>15. ASSUME NEW j \in Jobs, WorkerCrash(j) PROVE LedgerInv'
  <2>1. OutcomeDropped(j)
    BY <1>0, <1>15 DEF OutcomeDropped, JobsTyped, WorkerCrash, NewJob, FreeJob, Executing
  <2>2. NoRowCompletes
    BY <1>15 DEF NoRowCompletes, WorkerCrash, rowVars
  <2> QED BY <1>0, <1>15, <2>1, <2>2, QuietJobStep DEF WorkerCrash, rowVars, finVars
<1>16. ASSUME NEW j \in Jobs, JobDies(j) PROVE LedgerInv'
  <2>1. OutcomeDropped(j)
    BY <1>0, <1>16, FreeFacts DEF OutcomeDropped, JobDies, At
  <2>2. NoRowCompletes
    BY <1>0, <1>16 DEF NoRowCompletes, LedgerInv, RowsExist, TypeOK, JobsTyped, JobDies, rowVars
  <2> QED BY <1>0, <1>16, <2>1, <2>2, QuietJobStep DEF JobDies, rowVars, finVars
<1>17. ASSUME NEW t \in Ticks, watchdog_scan(t) PROVE LedgerInv'
  BY <1>0, <1>17
  DEF LedgerInv, ResultsConsistent, RowsExist, JobsCarryResult, FinalizersCarryChildResult,
      TypeOK, watchdog_scan, find_stuck, rowVars, finVars
<1>18. ASSUME NEW t \in Ticks, NEW s \in stuckList[t], watchdog_recover(t, s) PROVE LedgerInv'
  <2>1. s.eval \in Evals /\ status[s.eval] # "absent"
    BY <1>0 DEF LedgerInv, RowsExist, TypeOK
  <2>2. NoRowCompletes
    BY <1>0, <1>18, <2>1 DEF NoRowCompletes, TypeOK, watchdog_recover
  <2>a. \/ stuckList' = [stuckList EXCEPT ![t] = stuckList[t] \ {s}]
        \/ stuckList' = [stuckList EXCEPT ![t] = {}]
    BY <1>18 DEF watchdog_recover
  <2>3. /\ outbox' \subseteq outbox \cup {s.eval}
        /\ \A u \in Ticks : stuckList'[u] \subseteq stuckList[u]
    <3>1. outbox' \subseteq outbox \cup {s.eval}
      BY <1>18 DEF watchdog_recover
    <3>2. \A u \in Ticks : stuckList'[u] \subseteq stuckList[u]
      BY <1>0, <2>a DEF TypeOK
    <3> QED BY <3>1, <3>2
  <2>4. RowsExist'
    BY <1>0, <1>18, <2>1, <2>2, <2>3
    DEF LedgerInv, RowsExist, NoRowCompletes, TypeOK, JobsTyped, watchdog_recover
  <2> QED BY <1>0, <1>18, <2>2, <2>4
    DEF LedgerInv, ResultsConsistent, JobsCarryResult, FinalizersCarryChildResult,
        NoRowCompletes, watchdog_recover, finVars
<1>19. ASSUME NEW C \in SUBSET Runs, finalize_sweeper(C) PROVE LedgerInv'
  BY <1>0, <1>19
  DEF LedgerInv, ResultsConsistent, RowsExist, JobsCarryResult, FinalizersCarryChildResult,
      TypeOK, finalize_sweeper, rowVars, bounds
<1>20. ASSUME NEW r \in Runs, finalize_read(r) PROVE LedgerInv'
  BY <1>0, <1>20, WorstResultOfChild
  DEF LedgerInv, ResultsConsistent, RowsExist, JobsCarryResult, FinalizersCarryChildResult,
      TypeOK, finalize_read, AllDone, Present, Children, rowVars, bounds
<1>21. ASSUME NEW f \in finalizing, finalize_write(f) PROVE LedgerInv'
  BY <1>0, <1>21
  DEF LedgerInv, ResultsConsistent, RowsExist, JobsCarryResult, FinalizersCarryChildResult,
      TypeOK, finalize_write, NotCompleted, rowVars, bounds
<1>22. ASSUME TickAborts PROVE LedgerInv'
  BY <1>0, <1>22
  DEF LedgerInv, ResultsConsistent, RowsExist, JobsCarryResult, FinalizersCarryChildResult,
      TypeOK, TickAborts, rowVars, finVars
<1>23. ASSUME UNCHANGED vars PROVE LedgerInv'
  BY <1>0, <1>23
  DEF LedgerInv, ResultsConsistent, RowsExist, JobsCarryResult, FinalizersCarryChildResult,
      TypeOK, vars, rowVars, finVars, bounds
<1> QED BY <1>1, <1>2, <1>3, <1>4, <1>5, <1>6, <1>7, <1>8, <1>9, <1>10, <1>11, <1>12, <1>13,
  <1>14, <1>15, <1>16, <1>17, <1>18, <1>19, <1>20, <1>21, <1>22, <1>23 DEF Next, JobStepOf

LEMMA LedgerInvariant == Spec => []LedgerInv
  BY LedgerInit, LedgerStep, PTL DEF Spec

(* The row's result, its indicator rows and its sli_values rows belong to  *)
(* one execution of run_evaluation_job, for any number of redelivered,     *)
(* requeued and overlapping executions.                                    *)
THEOREM ResultsAlwaysConsistent == Spec => []ResultsConsistent
  BY LedgerInvariant, PTL DEF LedgerInv

\* Steps that touch neither results nor runs do not show in the ledger.
LEMMA LedgerStutter ==
  UNCHANGED <<indicators, sliValues, run>> => UNCHANGED Ledger!lvars
  BY DEF Ledger!lvars

LEMMA LedgerSimulation == LedgerInv /\ [Next]_vars => [Ledger!LNext]_(Ledger!lvars)
<1> SUFFICES ASSUME LedgerInv, [Next]_vars PROVE [Ledger!LNext]_(Ledger!lvars)
  OBVIOUS
<1> DEFINE Goal == [Ledger!LNext]_(Ledger!lvars)
<1>0. TypeOK /\ JobsTyped
  BY DEF LedgerInv, TypeOK
<1>1. ASSUME NEW r \in Runs, NEW S \in SUBSET Slos, trigger_evaluate(r, S) PROVE Goal
  <2>1. Ledger!Open(r)
    BY <1>1 DEF trigger_evaluate, Ledger!Open
  <2> QED BY <2>1 DEF Ledger!LNext
<1>2. ASSUME NEW j \in Jobs, write_results(j) PROVE Goal
  <2>1. job[j].eval \in Evals /\ job[j].outcome \in Outcomes
    BY <1>0, <1>2 DEF LedgerInv, JobsCarryResult, JobsTyped, write_results, At
  <2>2. CASE IndicatorRowsFree(job[j].eval) /\ IdentityFree(job[j].eval)
    <3>1. Ledger!Record(job[j].eval, job[j].outcome)
      BY <1>2, <2>2 DEF write_results, IndicatorRowsFree, Ledger!Record
    <3> QED BY <2>1, <3>1 DEF Ledger!LNext
  <2>3. CASE ~(IndicatorRowsFree(job[j].eval) /\ IdentityFree(job[j].eval))
    BY <1>2, <2>3, LedgerStutter DEF write_results
  <2> QED BY <2>2, <2>3
<1>3. ASSUME NEW j \in Jobs, write_sli_values_phase(j) PROVE Goal
  <2>1. /\ job[j].eval \in Evals /\ job[j].outcome = indicators[job[j].eval]
        /\ job[j].outcome # NoResult
    BY <1>0, <1>3 DEF LedgerInv, JobsCarryResult, JobsTyped, write_sli_values_phase, At
  <2>2. CASE sliValues[job[j].eval] = NoResult
    <3>1. Ledger!Chart(job[j].eval)
      BY <1>3, <2>1, <2>2 DEF write_sli_values_phase, Ledger!Chart
    <3> QED BY <2>1, <3>1 DEF Ledger!LNext
  <2>3. CASE sliValues[job[j].eval] # NoResult
    BY <1>3, <2>3, LedgerStutter DEF write_sli_values_phase
  <2> QED BY <2>2, <2>3
<1>4. ASSUME NEW f \in finalizing, finalize_write(f) PROVE Goal
  <2>1. f.run \in Runs /\ f.result \in MaybeOutcome
    BY <1>0 DEF TypeOK
  <2>2. CASE NotCompleted(f.run)
    <3>1. run[f.run].status = "pending"
      BY <1>0, <2>1, <2>2 DEF LedgerInv, FinalizersCarryChildResult, TypeOK, NotCompleted
    <3>2. f.result = NoResult \/ \E e \in Evals : RunOf(e) = f.run /\ indicators[e] = f.result
      BY DEF LedgerInv, FinalizersCarryChildResult, Children
    <3>3. Ledger!Publish(f.run, f.result)
      BY <1>4, <2>2, <3>1, <3>2 DEF finalize_write, rowVars, Ledger!Publish
    <3> QED BY <2>1, <3>3 DEF Ledger!LNext, MaybeOutcome
  <2>3. CASE ~NotCompleted(f.run)
    BY <1>4, <2>3, LedgerStutter DEF finalize_write, rowVars
  <2> QED BY <2>2, <2>3
<1>5. ASSUME NEW e \in Evals, enqueue_job(e) \/ LoseEnqueue(e) \/ Age(e) PROVE Goal
  BY <1>5, LedgerStutter DEF enqueue_job, LoseEnqueue, Age, rowVars
<1>6. ASSUME NEW j \in Jobs, \/ check_predecessor(j) \/ defer_job(j) \/ load_evaluation_snapshot(j)
                            \/ load_definitions(j) \/ fetch_and_evaluate(j) \/ mark_failed(j)
      PROVE  Goal
  BY <1>6, LedgerStutter DEF check_predecessor, defer_job, load_evaluation_snapshot,
     load_definitions, fetch_and_evaluate, mark_failed, rowVars
<1>7. ASSUME NEW j \in Jobs, enqueue_finalize(j) \/ AckJob(j) \/ WorkerCrash(j) \/ JobDies(j)
      PROVE  Goal
  BY <1>7, LedgerStutter DEF enqueue_finalize, AckJob, WorkerCrash, JobDies, rowVars
<1>8. ASSUME \/ TickAborts
             \/ \E t \in Ticks : watchdog_scan(t) \/ \E s \in stuckList[t] : watchdog_recover(t, s)
      PROVE  Goal
  BY <1>8, LedgerStutter DEF watchdog_scan, TickAborts, watchdog_recover, rowVars
<1>9. ASSUME (\E C \in SUBSET Runs : finalize_sweeper(C)) \/ (\E r \in Runs : finalize_read(r))
      PROVE  Goal
  BY <1>9, LedgerStutter DEF finalize_sweeper, finalize_read, rowVars
<1>10. ASSUME UNCHANGED vars PROVE Goal
  BY <1>10, LedgerStutter DEF vars, rowVars
<1> QED BY <1>1, <1>2, <1>3, <1>4, <1>5, <1>6, <1>7, <1>8, <1>9, <1>10 DEF Next, JobStepOf

(* The pipeline implements EvaluationLedger: whatever the queue, the       *)
(* workers and the watchdog do, the first result of an evaluation stands   *)
(* (Phase 3a), its chart shows it (Phase 3b), and a run is published once, *)
(* with a result one of its children has (finalize_if_all_done).           *)
THEOREM LedgerKept == Spec => KeepsLedger
<1>1. Init => Ledger!LInit
  BY DEF Init, Ledger!LInit
<1>2. QED
  BY <1>1, LedgerInvariant, LedgerSimulation, PTL DEF Spec, KeepsLedger, Ledger!LedgerSpec

-----------------------------------------------------------------------------
(* Who is responsible for a row that met none of the three events counted  *)
(* in 'disturbed', and what that makes of a completed run.                 *)

\* Jobs before Phase 1 and between Phase 1 and Phase 3a.
Early == {"queued", "defer", "phase1"}
Late == {"phase2a", "phase2b", "failing", "phase3a"}

LEMMA UnsettledSteps == Unsettled = Early \cup Late /\ Late \subseteq Claimed
  BY DEF Unsettled, Early, Late, Claimed

OneJobPerRow ==
    \A i, j \in Jobs :
        /\ job[i].pc \in Unsettled /\ job[j].pc \in Unsettled
        /\ job[i].eval = job[j].eval /\ job[i].eval \notin disturbed
        => i = j

(* The status of a row tells who is responsible for it: 'pending' for a    *)
(* job before Phase 1 or one about to be enqueued, young and 'running' for *)
(* an execution, old and 'running' for the watchdog.                       *)
JobsOwn ==
    \A j \in Jobs : job[j].eval \notin disturbed =>
        /\ job[j].pc \in Early => status[job[j].eval] = "pending"
        /\ job[j].pc \in Late => status[job[j].eval] = "running" /\ started[job[j].eval] = "fresh"
        /\ job[j].pc \in Unsettled => job[j].eval \notin outbox

OutboxOwns == \A e \in outbox \ disturbed : status[e] = "pending"

ListOwns ==
    \A t \in Ticks : \A s \in stuckList[t] : s.eval \notin disturbed =>
        /\ status[s.eval] = "running" /\ started[s.eval] = "stale"
        /\ \A u \in Ticks : \A v \in stuckList[u] : v.eval = s.eval => u = t /\ v = s

OwnerInv == LedgerInv /\ OneJobPerRow /\ JobsOwn /\ OutboxOwns /\ ListOwns

LEMMA OwnerInit == Init => OwnerInv
  BY LedgerInit
  DEF Init, OwnerInv, OneJobPerRow, JobsOwn, OutboxOwns, ListOwns, FreeJob, Unsettled, Early, Late

LEMMA OwnerInvSingle == OwnerInv => SingleOwner
<1> SUFFICES ASSUME OwnerInv, NEW e \in Evals \ disturbed
             PROVE  /\ \A i, j \in Owners(e) : i = j
                    /\ \A t, u \in Ticks : \A s \in stuckList[t], v \in stuckList[u] :
                            s.eval = e /\ v.eval = e => t = u /\ s = v
                    /\ Owners(e) # {} => e \notin outbox /\ ~OnStuckList(e)
                    /\ e \in outbox => ~OnStuckList(e)
                    /\ status[e] \in Terminal =>
                            Owners(e) = {} /\ e \notin outbox /\ ~OnStuckList(e)
  BY DEF SingleOwner
<1>1. \A j \in Owners(e) : /\ e \notin outbox
                           /\ \/ status[e] = "pending"
                              \/ status[e] = "running" /\ started[e] = "fresh"
  BY UnsettledSteps DEF OwnerInv, JobsOwn, Owners
<1>2. e \in outbox => status[e] = "pending"
  BY DEF OwnerInv, OutboxOwns
<1>3. OnStuckList(e) => status[e] = "running" /\ started[e] = "stale"
  BY DEF OwnerInv, ListOwns, OnStuckList
<1>4. \A i, j \in Owners(e) : i = j
  BY DEF OwnerInv, OneJobPerRow, Owners
<1>5. \A t, u \in Ticks : \A s \in stuckList[t], v \in stuckList[u] :
          s.eval = e /\ v.eval = e => t = u /\ s = v
  BY DEF OwnerInv, ListOwns
<1> QED
  BY <1>1, <1>2, <1>3, <1>4, <1>5 DEF Terminal

\* Job j lets go of its row, or keeps it on the same side of Phase 1.
KeepsOrLeaves(j) ==
    /\ \A k \in Jobs \ {j} : job'[k] = job[k]
    /\ \/ job'[j].pc \notin Unsettled
       \/ /\ job'[j].eval = job[j].eval
          /\ \/ job'[j].pc \in Early /\ job[j].pc \in Early
             \/ job'[j].pc \in Late /\ job[j].pc \in Late

LEMMA QuietOwnerStep ==
  ASSUME OwnerInv, LedgerInv', NEW j \in Jobs, KeepsOrLeaves(j),
         UNCHANGED <<status, started, outbox, stuckList, disturbed>>
  PROVE  OwnerInv'
<1>1. OneJobPerRow'
  BY UnsettledSteps DEF OwnerInv, OneJobPerRow, KeepsOrLeaves
<1>2. JobsOwn'
  <2> SUFFICES ASSUME NEW k \in Jobs, job'[k].eval \notin disturbed
               PROVE  /\ job'[k].pc \in Early => status[job'[k].eval] = "pending"
                      /\ job'[k].pc \in Late => /\ status[job'[k].eval] = "running"
                                                /\ started[job'[k].eval] = "fresh"
                      /\ job'[k].pc \in Unsettled => job'[k].eval \notin outbox
    BY DEF JobsOwn
  <2>1. CASE k = j
    BY <2>1, UnsettledSteps DEF OwnerInv, JobsOwn, KeepsOrLeaves, Early, Late
  <2>2. CASE k # j
    BY <2>2 DEF OwnerInv, JobsOwn, KeepsOrLeaves
  <2> QED BY <2>1, <2>2
<1>3. OutboxOwns' /\ ListOwns'
  BY DEF OwnerInv, OutboxOwns, ListOwns
<1> QED BY <1>1, <1>2, <1>3 DEF OwnerInv

LEMMA OwnerStep == OwnerInv /\ [Next]_vars => OwnerInv'
<1> SUFFICES ASSUME OwnerInv, [Next]_vars PROVE OwnerInv'
  OBVIOUS
<1>0. /\ LedgerInv /\ LedgerInv' /\ TypeOK /\ TypeOK' /\ JobsTyped
      /\ OneJobPerRow /\ JobsOwn /\ OutboxOwns /\ ListOwns
  BY LedgerStep DEF OwnerInv, LedgerInv, TypeOK
<1> SUFFICES OneJobPerRow' /\ JobsOwn' /\ OutboxOwns' /\ ListOwns'
  BY <1>0 DEF OwnerInv
<1>a. ASSUME NEW j \in Jobs, KeepsOrLeaves(j),
             UNCHANGED <<status, started, outbox, stuckList, disturbed>>
      PROVE  OneJobPerRow' /\ JobsOwn' /\ OutboxOwns' /\ ListOwns'
  BY <1>0, <1>a, QuietOwnerStep DEF OwnerInv
<1>1. ASSUME NEW r \in Runs, NEW S \in SUBSET Slos, trigger_evaluate(r, S)
      PROVE  OneJobPerRow' /\ JobsOwn' /\ OutboxOwns' /\ ListOwns'
  <2>1. \A e \in Evals : \/ status'[e] = status[e] /\ e \notin {r} \X S
                         \/ status'[e] = "pending" /\ status[e] = "absent" /\ e \in {r} \X S
    BY <1>0, <1>1 DEF TypeOK, trigger_evaluate, LedgerInv, RowsExist, RunOf
  <2>2. /\ outbox' = outbox \cup ({r} \X S) /\ job' = job /\ stuckList' = stuckList /\ started' = started
        /\ disturbed' = disturbed
    BY <1>1 DEF trigger_evaluate, bounds
  <2>3. {r} \X S \subseteq Evals
    BY DEF Evals
  <2>4. \A j \in Jobs : job[j].pc \in Unsettled => job[j].eval \in Evals
    BY <1>0 DEF JobsTyped, Unsettled
  <2>5. JobsOwn'
    BY <1>0, <2>1, <2>2, <2>4, UnsettledSteps DEF JobsOwn, Early, Late
  <2>6. OutboxOwns'
    BY <1>0, <2>1, <2>2, <2>3 DEF OutboxOwns, TypeOK
  <2>7. ListOwns'
    BY <1>0, <2>1, <2>2 DEF ListOwns, TypeOK
  <2> QED BY <1>0, <2>2, <2>5, <2>6, <2>7 DEF OneJobPerRow
<1>2. ASSUME NEW e \in Evals, enqueue_job(e)
      PROVE  OneJobPerRow' /\ JobsOwn' /\ OutboxOwns' /\ ListOwns'
  <2>1. PICK j \in Jobs : job[j].pc = "free" /\ job' = [job EXCEPT ![j] = NewJob(e, 0)]
    BY <1>2 DEF enqueue_job
  <2>2. /\ job'[j].pc = "queued" /\ job'[j].eval = e
        /\ \A k \in Jobs \ {j} : job'[k] = job[k]
    BY <1>0, <2>1 DEF JobsTyped, NewJob
  <2>3. e \in outbox /\ outbox' = outbox \ {e} /\ UNCHANGED <<status, started, stuckList, disturbed>>
    BY <1>2 DEF enqueue_job, rowVars, bounds
  <2>4. "queued" \in Early /\ "queued" \notin Late /\ "queued" \in Unsettled
    BY DEF Early, Late, Unsettled
  <2>5. OneJobPerRow'
    BY <1>0, <2>2, <2>3 DEF OneJobPerRow, JobsOwn
  <2>6. JobsOwn'
    BY <1>0, <2>2, <2>3, <2>4 DEF JobsOwn, OutboxOwns
  <2> QED BY <1>0, <2>3, <2>5, <2>6 DEF OutboxOwns, ListOwns
<1>3. ASSUME NEW e \in Evals, LoseEnqueue(e)
      PROVE  OneJobPerRow' /\ JobsOwn' /\ OutboxOwns' /\ ListOwns'
  BY <1>0, <1>3 DEF LoseEnqueue, rowVars, OneJobPerRow, JobsOwn, OutboxOwns, ListOwns
<1>4. ASSUME NEW e \in Evals, Age(e)
      PROVE  OneJobPerRow' /\ JobsOwn' /\ OutboxOwns' /\ ListOwns'
  <2>1. e \notin disturbed' => \A j \in Jobs : job[j].pc \in Late => job[j].eval # e
    BY <1>4, UnsettledSteps DEF Age, Executed
  <2>2. \A x \in Evals : x # e => started'[x] = started[x]
    BY <1>0, <1>4 DEF Age, TypeOK
  <2>3. /\ UNCHANGED <<status, job, outbox, stuckList>> /\ started[e] = "fresh"
        /\ disturbed \subseteq disturbed'
    BY <1>4 DEF Age
  <2>4. \A j \in Jobs : job[j].pc \in Late => job[j].eval \in Evals
    BY <1>0 DEF JobsTyped, Late
  <2>5. \A t \in Ticks : \A s \in stuckList[t] :
            s.eval \in Evals /\ (s.eval \notin disturbed => s.eval # e)
    BY <1>0, <2>3 DEF ListOwns, TypeOK
  <2>6. JobsOwn'
    BY <1>0, <2>1, <2>2, <2>3, <2>4 DEF JobsOwn
  <2>7. ListOwns'
    BY <1>0, <2>2, <2>3, <2>5 DEF ListOwns
  <2> QED BY <1>0, <2>3, <2>6, <2>7 DEF OneJobPerRow, OutboxOwns
<1>5. ASSUME NEW j \in Jobs, check_predecessor(j)
      PROVE  OneJobPerRow' /\ JobsOwn' /\ OutboxOwns' /\ ListOwns'
  <2>1. job[j].pc = "queued" /\ (Goto(j, "defer") \/ Goto(j, "phase1"))
    BY <1>5 DEF check_predecessor, At
  <2>2. /\ job'[j].pc \in {"defer", "phase1"} /\ job'[j].eval = job[j].eval
        /\ \A k \in Jobs \ {j} : job'[k] = job[k]
    <3>1. CASE Goto(j, "defer")
      BY <1>0, <3>1, GotoFacts
    <3>2. CASE Goto(j, "phase1")
      BY <1>0, <3>2, GotoFacts
    <3> QED BY <2>1, <3>1, <3>2
  <2>3. KeepsOrLeaves(j)
    BY <2>1, <2>2 DEF KeepsOrLeaves, Early
  <2> QED BY <1>5, <1>a, <2>3 DEF check_predecessor, rowVars, bounds
<1>6. ASSUME NEW j \in Jobs, defer_job(j)
      PROVE  OneJobPerRow' /\ JobsOwn' /\ OutboxOwns' /\ ListOwns'
  <2>1. PICK k \in Jobs : /\ k = j \/ At(k, "free")
                         /\ job' = [job EXCEPT ![j].pc = "ending",
                                ![k] = NewJob(job[j].eval, NextDefer(job[j].defers))]
    BY <1>6 DEF defer_job
  <2>2. job[j].pc = "defer"
    BY <1>6 DEF defer_job, At
  <2>3. /\ job'[k].pc = "queued" /\ job'[k].eval = job[j].eval
        /\ k # j => job'[j].pc = "ending" /\ job'[j].eval = job[j].eval
        /\ \A i \in Jobs \ {j, k} : job'[i] = job[i]
    BY <1>0, <2>1 DEF JobsTyped, JobRecord, NewJob
  <2>4. UNCHANGED <<status, started, outbox, stuckList, disturbed>>
    BY <1>6 DEF defer_job, rowVars, bounds
  <2>5. /\ "queued" \in Early /\ "queued" \notin Late /\ "queued" \in Unsettled
        /\ "ending" \notin Early /\ "ending" \notin Late /\ "ending" \notin Unsettled
        /\ "defer" \in Early /\ "defer" \in Unsettled
    BY DEF Early, Late, Unsettled
  <2>6. OneJobPerRow'
    BY <1>0, <2>2, <2>3, <2>4, <2>5 DEF OneJobPerRow
  <2>7. JobsOwn'
    BY <1>0, <2>2, <2>3, <2>4, <2>5 DEF JobsOwn
  <2> QED BY <1>0, <2>4, <2>6, <2>7 DEF OutboxOwns, ListOwns
<1>7. ASSUME NEW j \in Jobs, load_evaluation_snapshot(j)
      PROVE  OneJobPerRow' /\ JobsOwn' /\ OutboxOwns' /\ ListOwns'
  <2> DEFINE e == job[j].eval
  <2>1. CASE ~IdentityFree(e)
    <3>1. KeepsOrLeaves(j)
      BY <1>0, <1>7, <2>1, FreeFacts DEF KeepsOrLeaves, load_evaluation_snapshot, Unsettled
    <3> QED BY <1>7, <1>a, <2>1, <3>1 DEF load_evaluation_snapshot, bounds
  <2>2. CASE IdentityFree(e)
    <3>1. /\ status' = [status EXCEPT ![e] = "running"] /\ started' = [started EXCEPT ![e] = "fresh"]
          /\ Goto(j, "phase2a") /\ job[j].pc = "phase1" /\ UNCHANGED <<outbox, stuckList, disturbed>>
      BY <1>7, <2>2 DEF load_evaluation_snapshot, At, bounds
    <3>2. /\ job'[j].pc = "phase2a" /\ job'[j].eval = e
          /\ \A k \in Jobs \ {j} : job'[k] = job[k]
      BY <1>0, <3>1, GotoFacts
    <3>3. /\ "phase1" \in Early /\ "phase1" \in Unsettled
          /\ "phase2a" \notin Early /\ "phase2a" \in Late /\ "phase2a" \in Unsettled
      BY DEF Early, Late, Unsettled
    <3>4. e \in Evals /\ (e \notin disturbed => status[e] = "pending" /\ e \notin outbox)
      BY <1>0, <3>1, <3>3 DEF JobsOwn, JobsTyped
    <3> HIDE DEF e
    <3>5. \A x \in Evals : /\ status'[x] = IF x = e THEN "running" ELSE status[x]
                           /\ started'[x] = IF x = e THEN "fresh" ELSE started[x]
      BY <1>0, <3>1 DEF TypeOK
    <3>6. OneJobPerRow'
      BY <1>0, <3>1, <3>2, <3>3 DEF OneJobPerRow, e
    <3>7. \A k \in Jobs \ {j} : job[k].pc \in Unsettled =>
              job[k].eval \in Evals /\ (e \notin disturbed => job[k].eval # e)
      BY <1>0, <3>1, <3>3 DEF OneJobPerRow, JobsTyped, Unsettled, e
    <3>8. JobsOwn'
      BY <1>0, <3>1, <3>2, <3>3, <3>4, <3>5, <3>7, UnsettledSteps DEF JobsOwn
    <3>9. OutboxOwns'
      BY <1>0, <3>1, <3>4, <3>5 DEF OutboxOwns, TypeOK
    <3>10. ListOwns'
      BY <1>0, <3>1, <3>4, <3>5 DEF ListOwns, TypeOK
    <3> QED BY <3>6, <3>8, <3>9, <3>10
  <2> QED BY <2>1, <2>2
<1>8. ASSUME NEW j \in Jobs, load_definitions(j)
      PROVE  OneJobPerRow' /\ JobsOwn' /\ OutboxOwns' /\ ListOwns'
  <2>1. KeepsOrLeaves(j)
    BY <1>0, <1>8, GotoFacts DEF KeepsOrLeaves, load_definitions, At, Late
  <2> QED BY <1>8, <1>a, <2>1 DEF load_definitions, rowVars, bounds
<1>9. ASSUME NEW j \in Jobs, fetch_and_evaluate(j)
      PROVE  OneJobPerRow' /\ JobsOwn' /\ OutboxOwns' /\ ListOwns'
  <2>1. /\ job'[j].pc \in Late /\ job'[j].eval = job[j].eval /\ job[j].pc = "phase2b"
        /\ \A k \in Jobs \ {j} : job'[k] = job[k]
    BY <1>0, <1>9, GotoFacts DEF fetch_and_evaluate, At, Late, JobsTyped, JobRecord
  <2>2. KeepsOrLeaves(j)
    BY <2>1 DEF KeepsOrLeaves, Late
  <2> QED BY <1>9, <1>a, <2>2 DEF fetch_and_evaluate, rowVars, bounds
<1>10. ASSUME NEW j \in Jobs, NEW final \in Terminal, NEW step \in JobStep \ Unsettled,
              job[j].pc \in Late, Goto(j, step),
              status' = [status EXCEPT ![job[j].eval] = final],
              UNCHANGED <<started, outbox, stuckList, disturbed>>
       PROVE  OneJobPerRow' /\ JobsOwn' /\ OutboxOwns' /\ ListOwns'
  <2> DEFINE e == job[j].eval
  <2>1. job'[j].pc \notin Unsettled /\ \A k \in Jobs \ {j} : job'[k] = job[k]
    BY <1>0, <1>10, GotoFacts
  <2>2. job[j].pc \in Unsettled /\ job'[j].pc \notin Early /\ job'[j].pc \notin Late
    BY <1>10, <2>1, UnsettledSteps
  <2>3. e \in Evals /\ (e \notin disturbed => status[e] = "running" /\ started[e] = "fresh")
    BY <1>0, <1>10, <2>2 DEF JobsOwn, JobsTyped, Unsettled
  <2>4. \A k \in Jobs \ {j} : job[k].pc \in Unsettled =>
            job[k].eval \in Evals /\ (e \notin disturbed => job[k].eval # e)
    BY <1>0, <2>2 DEF OneJobPerRow, JobsTyped, Unsettled
  <2> HIDE DEF e
  <2>5. \A x \in Evals : x # e => status'[x] = status[x]
    BY <1>0, <1>10 DEF TypeOK, e
  <2>6. OneJobPerRow'
    BY <1>0, <1>10, <2>1 DEF OneJobPerRow
  <2>7. JobsOwn'
    BY <1>0, <1>10, <2>1, <2>2, <2>4, <2>5, UnsettledSteps DEF JobsOwn
  <2>8. OutboxOwns' /\ ListOwns'
    BY <1>0, <1>10, <2>3, <2>5 DEF OutboxOwns, ListOwns, TypeOK
  <2> QED BY <2>6, <2>7, <2>8
<1>11. ASSUME NEW j \in Jobs, mark_failed(j)
       PROVE  OneJobPerRow' /\ JobsOwn' /\ OutboxOwns' /\ ListOwns'
  <2>1. "failed" \in Terminal /\ "ending" \in JobStep \ Unsettled /\ job[j].pc \in Late
    BY <1>11 DEF Terminal, JobStep, Executing, Unsettled, mark_failed, At, Late
  <2> QED BY <1>10, <1>11, <2>1 DEF mark_failed, bounds
<1>12. ASSUME NEW j \in Jobs, write_results(j)
       PROVE  OneJobPerRow' /\ JobsOwn' /\ OutboxOwns' /\ ListOwns'
  <2>1. CASE IndicatorRowsFree(job[j].eval) /\ IdentityFree(job[j].eval)
    <3>1. "completed" \in Terminal /\ "phase3b" \in JobStep \ Unsettled /\ job[j].pc \in Late
      BY <1>12 DEF Terminal, JobStep, Executing, Unsettled, write_results, At, Late
    <3> QED BY <1>10, <1>12, <2>1, <3>1 DEF write_results, bounds
  <2>2. CASE ~(IndicatorRowsFree(job[j].eval) /\ IdentityFree(job[j].eval))
    <3>1. KeepsOrLeaves(j)
      BY <1>0, <1>12, <2>2, FreeFacts DEF KeepsOrLeaves, write_results, Unsettled
    <3> QED BY <1>12, <1>a, <2>2, <3>1 DEF write_results, bounds
  <2> QED BY <2>1, <2>2
<1>13. ASSUME NEW j \in Jobs, write_sli_values_phase(j) \/ enqueue_finalize(j)
       PROVE  OneJobPerRow' /\ JobsOwn' /\ OutboxOwns' /\ ListOwns'
  <2>1. KeepsOrLeaves(j)
    BY <1>0, <1>13, GotoFacts, FreeFacts
    DEF KeepsOrLeaves, write_sli_values_phase, enqueue_finalize, Unsettled
  <2> QED BY <1>13, <1>a, <2>1 DEF write_sli_values_phase, enqueue_finalize, rowVars, bounds
<1>14. ASSUME NEW j \in Jobs, AckJob(j) \/ JobDies(j)
       PROVE  OneJobPerRow' /\ JobsOwn' /\ OutboxOwns' /\ ListOwns'
  <2>1. KeepsOrLeaves(j)
    BY <1>0, <1>14, FreeFacts DEF KeepsOrLeaves, AckJob, JobDies, Unsettled
  <2> QED BY <1>14, <1>a, <2>1 DEF AckJob, JobDies, rowVars, bounds
<1>15. ASSUME NEW j \in Jobs, WorkerCrash(j)
       PROVE  OneJobPerRow' /\ JobsOwn' /\ OutboxOwns' /\ ListOwns'
  <2>1. UNCHANGED <<status, started, outbox, stuckList>>
    BY <1>15 DEF WorkerCrash, rowVars
  <2>2. CASE job[j].tries + 1 < MaxTries
    <3>1. /\ job'[j].eval = job[j].eval /\ disturbed' = disturbed \cup {job[j].eval}
          /\ \A k \in Jobs \ {j} : job'[k] = job[k]
      BY <1>0, <1>15, <2>2 DEF WorkerCrash, JobsTyped, NewJob
    <3> QED BY <1>0, <2>1, <3>1 DEF OneJobPerRow, JobsOwn, OutboxOwns, ListOwns
  <2>3. CASE ~(job[j].tries + 1 < MaxTries)
    <3>1. KeepsOrLeaves(j) /\ disturbed' = disturbed
      BY <1>0, <1>15, <2>3, FreeFacts DEF KeepsOrLeaves, WorkerCrash, Unsettled
    <3> QED BY <1>a, <2>1, <3>1
  <2> QED BY <2>2, <2>3
<1>16. ASSUME NEW t \in Ticks, watchdog_scan(t)
       PROVE  OneJobPerRow' /\ JobsOwn' /\ OutboxOwns' /\ ListOwns'
  <2>1. \A s \in stuckList'[t] :
            /\ s = [eval |-> s.eval, attempts |-> retries[s.eval]]
            /\ status[s.eval] = "running" /\ started[s.eval] = "stale"
            /\ s.eval \notin disturbed' => ~OnStuckList(s.eval)
    BY <1>0, <1>16 DEF TypeOK, watchdog_scan, find_stuck
  <2>2. /\ UNCHANGED <<status, started, job, outbox>> /\ disturbed \subseteq disturbed'
        /\ \A u \in Ticks \ {t} : stuckList'[u] = stuckList[u]
    BY <1>0, <1>16 DEF TypeOK, watchdog_scan, rowVars
  <2>3. ListOwns'
    <3> SUFFICES ASSUME NEW u \in Ticks, NEW s \in stuckList'[u], s.eval \notin disturbed'
                 PROVE  /\ status[s.eval] = "running" /\ started[s.eval] = "stale"
                        /\ \A w \in Ticks : \A v \in stuckList'[w] :
                                v.eval = s.eval => w = u /\ v = s
      BY <2>2 DEF ListOwns
    <3>1. CASE u = t
      BY <2>1, <2>2, <3>1 DEF OnStuckList
    <3>2. CASE u # t
      <4>1. s \in stuckList[u] /\ s.eval \notin disturbed /\ OnStuckList(s.eval)
        BY <2>2, <3>2 DEF OnStuckList
      <4>2. \A v \in stuckList'[t] : v.eval # s.eval
        BY <2>1, <4>1
      <4> QED BY <1>0, <2>2, <4>1, <4>2 DEF ListOwns
    <3> QED BY <3>1, <3>2
  <2> QED BY <1>0, <2>2, <2>3 DEF OneJobPerRow, JobsOwn, OutboxOwns
<1>17. ASSUME NEW t \in Ticks, NEW s \in stuckList[t], watchdog_recover(t, s)
       PROVE  OneJobPerRow' /\ JobsOwn' /\ OutboxOwns' /\ ListOwns'
  <2> DEFINE e == s.eval
  <2>1. e \in Evals /\ job' = job /\ disturbed' = disturbed
    BY <1>0, <1>17 DEF TypeOK, watchdog_recover, bounds
  <2>a. e \notin disturbed => status[e] = "running" /\ started[e] = "stale" /\ e \notin outbox
    BY <1>0 DEF ListOwns, OutboxOwns
  <2>2. \A j \in Jobs : job[j].pc \in Unsettled =>
            job[j].eval \in Evals /\ (e \notin disturbed => job[j].eval # e)
    BY <1>0, <2>a, UnsettledSteps DEF JobsOwn, JobsTyped, Unsettled
  <2>5. \A x \in Evals : x # e => status'[x] = status[x] /\ started'[x] = started[x]
    BY <1>0, <1>17, <2>1 DEF TypeOK, watchdog_recover
  <2>6. /\ \/ outbox' = outbox
           \/ outbox' = outbox \cup {e} /\ status'[e] = "pending"
        /\ \A u \in Ticks : stuckList'[u] \subseteq stuckList[u]
        /\ s \notin stuckList'[t]
    BY <1>0, <1>17, <2>1 DEF TypeOK, watchdog_recover
  <2>b. \A u \in Ticks : \A v \in stuckList'[u] :
            v \in stuckList[u] /\ v.eval \in Evals /\ (v.eval \notin disturbed => v.eval # e)
    BY <1>0, <2>6 DEF ListOwns, TypeOK
  <2> HIDE DEF e
  <2>7. OneJobPerRow'
    BY <1>0, <2>1 DEF OneJobPerRow
  <2>8. JobsOwn'
    BY <1>0, <2>1, <2>2, <2>5, <2>6, UnsettledSteps DEF JobsOwn
  <2>9. OutboxOwns'
    BY <1>0, <2>1, <2>a, <2>5, <2>6 DEF OutboxOwns, TypeOK
  <2>10. ListOwns'
    BY <1>0, <2>1, <2>b, <2>5, <2>6 DEF ListOwns
  <2> QED BY <2>7, <2>8, <2>9, <2>10
<1>18. ASSUME \/ \E C \in SUBSET Runs : finalize_sweeper(C)
              \/ \E r \in Runs : finalize_read(r)
              \/ \E f \in finalizing : finalize_write(f)
              \/ TickAborts
              \/ UNCHANGED vars
       PROVE  OneJobPerRow' /\ JobsOwn' /\ OutboxOwns' /\ ListOwns'
  <2>1. /\ UNCHANGED <<status, started, job, outbox, disturbed>>
        /\ \A t \in Ticks : stuckList'[t] \subseteq stuckList[t]
    BY <1>0, <1>18 DEF finalize_sweeper, finalize_read, finalize_write, TickAborts, vars, rowVars,
       bounds, TypeOK
  <2> QED BY <1>0, <2>1 DEF OneJobPerRow, JobsOwn, OutboxOwns, ListOwns
<1> QED BY <1>1, <1>2, <1>3, <1>4, <1>5, <1>6, <1>7, <1>8, <1>9, <1>11, <1>12, <1>13,
  <1>14, <1>15, <1>16, <1>17, <1>18 DEF Next, JobStepOf

LEMMA OwnerInvariant == Spec => []OwnerInv
  BY OwnerInit, OwnerStep, PTL DEF Spec

(* One party at a time, a job, an enqueuer or one tick of                  *)
(* watchdog_stuck_evaluations_job, is responsible for a row and nobody for *)
(* a terminal one, however many ticks overlap and whatever the threshold:  *)
(* except for rows whose message arq delivered again, that got stale under *)
(* a living execution, or that two ticks held at once.                     *)
THEOREM RowsHaveOneOwner == Spec => []SingleOwner
  BY OwnerInvariant, OwnerInvSingle, PTL

-----------------------------------------------------------------------------
(* A completed run is the aggregate of its children. What finalize_read    *)
(* has seen is still so when finalize_write stores it, and afterwards,     *)
(* because nobody is responsible for a terminal row.                       *)

FinalizersUpToDate ==
    \A f \in finalizing : Children(f.run) \cap disturbed = {} =>
        AllDone(f.run) /\ f.result = WorstResult(f.run)

AggregateInv == OwnerInv /\ FinalizersUpToDate /\ RunAggregatesChildren

LEMMA AggregateInit == Init => AggregateInv
  BY OwnerInit DEF Init, AggregateInv, FinalizersUpToDate, RunAggregatesChildren

\* What was counted as disturbed stays so.
LEMMA DisturbedGrows == [Next]_vars => disturbed \subseteq disturbed'
<1>1. ASSUME NEW e \in Evals, enqueue_job(e) \/ LoseEnqueue(e) \/ Age(e)
      PROVE  disturbed \subseteq disturbed'
  BY <1>1 DEF enqueue_job, LoseEnqueue, Age, bounds
<1>2. ASSUME NEW j \in Jobs, JobStepOf(j) \/ WorkerCrash(j) \/ JobDies(j)
      PROVE  disturbed \subseteq disturbed'
  BY <1>2 DEF JobStepOf, check_predecessor, defer_job, load_evaluation_snapshot, load_definitions,
      fetch_and_evaluate, mark_failed, write_results, write_sli_values_phase, enqueue_finalize,
      AckJob, WorkerCrash, JobDies, bounds
<1>3. ASSUME NEW t \in Ticks, watchdog_scan(t) \/ \E s \in stuckList[t] : watchdog_recover(t, s)
      PROVE  disturbed \subseteq disturbed'
  BY <1>3 DEF watchdog_scan, watchdog_recover, bounds
<1>4. ASSUME \/ \E r \in Runs, S \in SUBSET Slos : trigger_evaluate(r, S)
             \/ \E C \in SUBSET Runs : finalize_sweeper(C)
             \/ \E r \in Runs : finalize_read(r)
             \/ \E f \in finalizing : finalize_write(f)
             \/ TickAborts
             \/ UNCHANGED vars
      PROVE  disturbed \subseteq disturbed'
  BY <1>4 DEF trigger_evaluate, finalize_sweeper, finalize_read, finalize_write, TickAborts, vars,
      bounds
<1> QED BY <1>1, <1>2, <1>3, <1>4 DEF Next

\* Terminal rows do not change, and a run that exists gets no more rows.
LEMMA TerminalRowsStay ==
  ASSUME OwnerInv, [Next]_vars, NEW e \in Evals \ disturbed
  PROVE  /\ status[e] \in Terminal => status'[e] = status[e] /\ result'[e] = result[e]
         /\ status[e] = "absent" /\ run[RunOf(e)].status # "absent" => status'[e] = "absent"
<1>0. /\ LedgerInv /\ TypeOK /\ JobsTyped /\ RowsExist
      /\ JobsOwn /\ OutboxOwns /\ ListOwns
  BY DEF OwnerInv, LedgerInv, TypeOK
<1> DEFINE Goal == /\ status[e] \in Terminal => status'[e] = status[e] /\ result'[e] = result[e]
                   /\ status[e] = "absent" /\ run[RunOf(e)].status # "absent" =>
                          status'[e] = "absent"
<1>1. ASSUME NEW r \in Runs, NEW S \in SUBSET Slos, trigger_evaluate(r, S) PROVE Goal
  BY <1>0, <1>1 DEF TypeOK, RowsExist, trigger_evaluate, RunOf, Terminal
<1>2. ASSUME NEW j \in Jobs,
             load_evaluation_snapshot(j) \/ mark_failed(j) \/ write_results(j)
      PROVE  Goal
  <2>1. job[j].pc \in Early \cup Late /\ job[j].eval \in Evals
    BY <1>0, <1>2
    DEF load_evaluation_snapshot, mark_failed, write_results, At, Early, Late, JobsTyped
  <2>2. job[j].eval \notin disturbed => status[job[j].eval] \in {"pending", "running"}
    BY <1>0, <2>1 DEF JobsOwn
  <2>3. e # job[j].eval => status'[e] = status[e] /\ result'[e] = result[e]
    BY <1>0, <1>2, <2>1 DEF load_evaluation_snapshot, mark_failed, write_results, TypeOK
  <2> QED BY <2>2, <2>3 DEF Terminal
<1>3. ASSUME NEW t \in Ticks, NEW s \in stuckList[t], watchdog_recover(t, s) PROVE Goal
  <2>1. s.eval \in Evals /\ (s.eval \notin disturbed => status[s.eval] = "running")
    BY <1>0 DEF ListOwns, TypeOK
  <2>2. result' = result /\ (e # s.eval => status'[e] = status[e])
    BY <1>0, <1>3, <2>1 DEF watchdog_recover, TypeOK
  <2> QED BY <2>1, <2>2 DEF Terminal
<1>4. ASSUME UNCHANGED <<status, result>> PROVE Goal
  BY <1>4
<1>5. ASSUME NEW x \in Evals, enqueue_job(x) \/ LoseEnqueue(x) \/ Age(x)
      PROVE  UNCHANGED <<status, result>>
  BY <1>5 DEF enqueue_job, LoseEnqueue, Age, rowVars
<1>6. ASSUME NEW j \in Jobs,
             \/ check_predecessor(j) \/ defer_job(j) \/ load_definitions(j)
             \/ fetch_and_evaluate(j) \/ write_sli_values_phase(j)
             \/ enqueue_finalize(j) \/ AckJob(j) \/ WorkerCrash(j) \/ JobDies(j)
      PROVE  UNCHANGED <<status, result>>
  BY <1>6 DEF check_predecessor, defer_job, load_definitions, fetch_and_evaluate,
      write_sli_values_phase, enqueue_finalize, AckJob, WorkerCrash, JobDies, rowVars
<1>7. ASSUME \/ \E t \in Ticks : watchdog_scan(t)
             \/ \E C \in SUBSET Runs : finalize_sweeper(C)
             \/ \E r \in Runs : finalize_read(r)
             \/ \E f \in finalizing : finalize_write(f)
             \/ TickAborts
             \/ UNCHANGED vars
      PROVE  UNCHANGED <<status, result>>
  BY <1>7 DEF watchdog_scan, finalize_sweeper, finalize_read, finalize_write, TickAborts,
      vars, rowVars
<1> QED BY <1>1, <1>2, <1>3, <1>4, <1>5, <1>6, <1>7 DEF Next, JobStepOf

\* The highest-ranked of a set of results.
WorstOf(results) ==
    IF results = {} THEN NoResult
    ELSE CHOOSE w \in results : \A v \in results : RESULT_RANK[w] >= RESULT_RANK[v]

\* So the aggregate of a run whose children are terminal is final.
LEMMA AggregateFinal ==
  ASSUME OwnerInv, [Next]_vars, NEW r \in Runs, AllDone(r), run[r].status # "absent",
         Children(r) \cap disturbed = {}
  PROVE  AllDone(r)' /\ WorstResult(r)' = WorstResult(r)
<1>1. \A e \in Children(r) : e \in Evals \ disturbed /\ RunOf(e) = r
  BY DEF Children
<1>2. \A e \in Present(r) : status'[e] = status[e] /\ result'[e] = result[e]
  BY <1>1, TerminalRowsStay DEF AllDone, Present
<1>3. \A e \in Children(r) \ Present(r) : status'[e] = "absent"
  BY <1>1, TerminalRowsStay DEF Present
<1>4. Present(r)' = Present(r)
  BY <1>2, <1>3 DEF Present, Children, AllDone
<1>5. AllDone(r)'
  BY <1>2, <1>4 DEF AllDone
<1>6. {result'[e] : e \in Present(r)'} = {result[e] : e \in Present(r)}
  BY <1>2, <1>4
<1>7. /\ WorstResult(r) = WorstOf({result[e] : e \in Present(r)} \ {NoResult})
      /\ WorstResult(r)' = WorstOf({result'[e] : e \in Present(r)'} \ {NoResult})
  BY DEF WorstResult, WorstOf
<1> QED BY <1>5, <1>6, <1>7

LEMMA AggregateStep == AggregateInv /\ [Next]_vars => AggregateInv'
<1> SUFFICES ASSUME AggregateInv, [Next]_vars
             PROVE  FinalizersUpToDate' /\ RunAggregatesChildren'
  BY OwnerStep DEF AggregateInv
<1>0. OwnerInv /\ TypeOK /\ FinalizersCarryChildResult
  BY DEF AggregateInv, OwnerInv, LedgerInv
<1>d. disturbed \subseteq disturbed'
  BY DisturbedGrows
<1>a. ASSUME NEW r \in Runs, AllDone(r), run[r].status # "absent", Children(r) \cap disturbed = {}
      PROVE  AllDone(r)' /\ WorstResult(r)' = WorstResult(r)
  BY <1>0, <1>a, AggregateFinal
<1>b. \A f \in finalizing : Children(f.run) \cap disturbed' = {} =>
          AllDone(f.run)' /\ f.result = WorstResult(f.run)'
  <2> SUFFICES ASSUME NEW f \in finalizing, Children(f.run) \cap disturbed' = {}
               PROVE  AllDone(f.run)' /\ f.result = WorstResult(f.run)'
    OBVIOUS
  <2>1. f.run \in Runs /\ run[f.run].status # "absent" /\ Children(f.run) \cap disturbed = {}
    BY <1>0, <1>d DEF TypeOK, FinalizersCarryChildResult
  <2>2. AllDone(f.run) /\ f.result = WorstResult(f.run)
    BY <2>1 DEF AggregateInv, FinalizersUpToDate
  <2> QED BY <1>a, <2>1, <2>2
<1>c. \A r \in Runs : run[r].status = "completed" /\ Children(r) \cap disturbed' = {} =>
                          AllDone(r)' /\ run[r].result = WorstResult(r)'
  BY <1>a, <1>d DEF AggregateInv, RunAggregatesChildren
<1>e. \A r : Children(r)' = Children(r)
  BY DEF Children
<1>1. ASSUME NEW f \in finalizing, finalize_write(f)
      PROVE  FinalizersUpToDate' /\ RunAggregatesChildren'
  <2>1. \A r \in Runs : run'[r] = run[r] \/ (r = f.run /\ run'[r].result = f.result)
    <3>1. \/ run' = run
          \/ run' = [run EXCEPT ![f.run] = [status |-> "completed", result |-> f.result]]
      BY <1>1 DEF finalize_write
    <3>2. run \in [Runs -> [status : {"absent", "pending", "completed"}, result : MaybeOutcome]]
      BY <1>0 DEF TypeOK
    <3> QED BY <3>1, <3>2
  <2>2. finalizing' \subseteq finalizing
    BY <1>1 DEF finalize_write
  <2> QED BY <1>b, <1>c, <1>e, <2>1, <2>2 DEF FinalizersUpToDate, RunAggregatesChildren
<1>2. ASSUME NEW r \in Runs, finalize_read(r)
      PROVE  FinalizersUpToDate' /\ RunAggregatesChildren'
  <2>1. run' = run /\ status' = status /\ result' = result
    BY <1>2 DEF finalize_read, rowVars
  <2>2. /\ AllDone(r)' = AllDone(r)
        /\ WorstResult(r)' = WorstResult(r)
    BY <2>1 DEF AllDone, WorstResult, Present, Children
  <2>3. \A f \in finalizing' : \/ f \in finalizing
                               \/ AllDone(r) /\ f.run = r /\ f.result = WorstResult(r)
    BY <1>2 DEF finalize_read
  <2>4. FinalizersUpToDate'
    BY <1>b, <1>e, <2>2, <2>3 DEF FinalizersUpToDate
  <2> QED BY <1>c, <1>e, <2>1, <2>4 DEF RunAggregatesChildren
<1>3. ASSUME finalizing' \subseteq finalizing,
             \A r \in Runs : run'[r] = run[r] \/ run'[r].status # "completed"
      PROVE  FinalizersUpToDate' /\ RunAggregatesChildren'
  BY <1>b, <1>c, <1>e, <1>3 DEF FinalizersUpToDate, RunAggregatesChildren
<1>4. ASSUME NEW r \in Runs, NEW S \in SUBSET Slos, trigger_evaluate(r, S)
      PROVE  finalizing' \subseteq finalizing
             /\ \A q \in Runs : run'[q] = run[q] \/ run'[q].status # "completed"
  BY <1>0, <1>4 DEF trigger_evaluate, finVars, TypeOK
<1>5. ASSUME NEW e \in Evals, enqueue_job(e) \/ LoseEnqueue(e) \/ Age(e)
      PROVE  finalizing' = finalizing /\ run' = run
  BY <1>5 DEF enqueue_job, LoseEnqueue, Age, finVars
<1>6. ASSUME NEW j \in Jobs, JobStepOf(j) \/ WorkerCrash(j) \/ JobDies(j)
      PROVE  finalizing' = finalizing /\ run' = run
  BY <1>6 DEF JobStepOf, check_predecessor, defer_job, load_evaluation_snapshot, load_definitions,
      fetch_and_evaluate, mark_failed, write_results, write_sli_values_phase, enqueue_finalize,
      AckJob, WorkerCrash, JobDies, finVars
<1>7. ASSUME \/ \E t \in Ticks : \/ watchdog_scan(t)
                                \/ \E s \in stuckList[t] : watchdog_recover(t, s)
             \/ \E C \in SUBSET Runs : finalize_sweeper(C)
             \/ TickAborts
             \/ UNCHANGED vars
      PROVE  finalizing' \subseteq finalizing /\ run' = run
  BY <1>7 DEF watchdog_scan, watchdog_recover, finalize_sweeper, TickAborts, vars, finVars
<1> QED BY <1>1, <1>2, <1>3, <1>4, <1>5, <1>6, <1>7 DEF Next

(* A completed run stays the worst of its children, all of them terminal   *)
(* (finalize_if_all_done), unless one of its rows met an event that        *)
(* RowsHaveOneOwner excepts.                                               *)
THEOREM RunsAggregateChildren == Spec => []RunAggregatesChildren
<1>1. AggregateInv => RunAggregatesChildren
  BY DEF AggregateInv
<1> QED
  BY <1>1, AggregateInit, AggregateStep, PTL DEF Spec
=============================================================================
