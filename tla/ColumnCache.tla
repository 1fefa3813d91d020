---------------------------- MODULE ColumnCache ----------------------------
(***************************************************************************)
(* One entry of the Redis caches behind the heatmap and the trend charts:  *)
(* the fragment of one column, the readers that rebuild it on a miss, the  *)
(* transactions that change the column and evict the fragment, and the     *)
(* warm-up after finalization. The keys of a cache are independent, so one *)
(* key stands for all.                                                     *)
(*                                                                         *)
(* A version of the column is the set of changes it reflects. Transactions *)
(* are READ COMMITTED: every statement of a reader sees the changes that   *)
(* are committed when it runs. A rebuild issues several statements         *)
(* (selectinload), so a fragment has an evaluation part and an indicator   *)
(* part that may be of different ages.                                     *)
(***************************************************************************)
EXTENDS Naturals, FiniteSets

CONSTANTS
    Writers,    \* the changes made to the column
    Rescores,   \* those of them that are re-evaluations; the others are the
                \* mutations of EvaluationRepository
    Readers,    \* requests that read the column
    MaxFaults   \* bound: Redis commands that fail

ASSUME RescoresAssumption == Rescores \subseteq Writers
ASSUME FaultsAssumption == MaxFaults \in Nat

VARIABLES
    applied,    \* the committed changes: the state of the database
    writer,     \* writer[w]: how far the transaction of change w has come
    reader,     \* reader[r]: what request r does and the version it holds
    fragment,   \* the cached fragment, or NoFragment
    warmed,     \* the warm-up after finalization has been started
    faults      \* failed Redis commands so far

cacheVars == <<applied, writer, reader, fragment, warmed, faults>>

NoFragment == [evals |-> {}, rows |-> {}, after |-> {}, present |-> FALSE]

\* after: the changes it lacks whose eviction was over when it was stored
Fragment == [evals: SUBSET Writers, rows: SUBSET Writers,
             after: SUBSET Writers, present: BOOLEAN]

ReaderState == [pc: {"idle", "missed", "half", "built", "answered"},
                evals: SUBSET Writers, rows: SUBSET Writers]

WriterState == {"idle", "written", "evicted", "committed", "done"}

CacheTypeOK ==
    /\ applied \in SUBSET Writers
    /\ writer \in [Writers -> WriterState]
    /\ reader \in [Readers -> ReaderState]
    /\ fragment \in Fragment
    /\ warmed \in BOOLEAN
    /\ faults \in 0..MaxFaults

IdleReader == [pc |-> "idle", evals |-> {}, rows |-> {}]

CacheInit ==
    /\ applied = {}
    /\ writer = [w \in Writers |-> "idle"]
    /\ reader = [r \in Readers |-> IdleReader]
    /\ fragment = NoFragment
    /\ warmed = FALSE
    /\ faults = 0

-----------------------------------------------------------------------------
(* Redis commands. A failure is logged and swallowed: a lookup becomes a   *)
(* miss, a store or an eviction does not happen.                           *)

RedisWorks == UNCHANGED faults
RedisFails == faults < MaxFaults /\ faults' = faults + 1

\* Version v (of a reader or of the fragment) does not reflect change w; only
\* re-evaluations write indicator rows.
Without(v, w) == w \notin v.evals \/ (w \in Rescores /\ w \notin v.rows)

Stored(r) == [evals |-> reader[r].evals, rows |-> reader[r].rows,
              after |-> {w \in Writers : writer[w] \in {"evicted", "done"}
                                          /\ Without(reader[r], w)},
              present |-> TRUE]

Evict ==
    \/ RedisWorks /\ fragment' = NoFragment
    \/ RedisFails /\ UNCHANGED fragment

-----------------------------------------------------------------------------
(* Readers.                                                                *)

\* get_many finds the fragment.
Hit(r) ==
    /\ reader[r].pc = "idle"
    /\ fragment.present
    /\ reader' = [reader EXCEPT ![r] = [pc |-> "answered", evals |-> fragment.evals,
                                        rows |-> fragment.rows]]
    /\ UNCHANGED <<applied, writer, fragment, warmed, faults>>

\* get_many finds nothing, or fails.
Miss(r) ==
    /\ reader[r].pc = "idle"
    /\ \/ ~fragment.present /\ RedisWorks
       \/ fragment.present /\ RedisFails
    /\ reader' = [reader EXCEPT ![r].pc = "missed"]
    /\ UNCHANGED <<applied, writer, fragment, warmed>>

\* finalize_run_job rebuilds the column without looking it up.
Warm(r) ==
    /\ reader[r].pc = "idle"
    /\ ~warmed
    /\ warmed' = TRUE
    /\ reader' = [reader EXCEPT ![r].pc = "missed"]
    /\ UNCHANGED <<applied, writer, fragment, faults>>

\* The first statements of the rebuild: the run and its evaluations.
ReadEvaluations(r) ==
    /\ reader[r].pc = "missed"
    /\ reader' = [reader EXCEPT ![r].pc = "half", ![r].evals = applied]
    /\ UNCHANGED <<applied, writer, fragment, warmed, faults>>

\* The last statement: the indicator rows.
ReadIndicators(r) ==
    /\ reader[r].pc = "half"
    /\ reader' = [reader EXCEPT ![r].pc = "built", ![r].rows = applied \intersect Rescores]
    /\ UNCHANGED <<applied, writer, fragment, warmed, faults>>

\* set_many
Store(r) ==
    /\ reader[r].pc = "built"
    /\ \/ RedisWorks /\ fragment' = Stored(r)
       \/ RedisFails /\ UNCHANGED fragment
    /\ reader' = [reader EXCEPT ![r].pc = "answered"]
    /\ UNCHANGED <<applied, writer, warmed>>

\* The response is sent; the slot serves another request.
Leave(r) ==
    /\ reader[r].pc = "answered"
    /\ reader' = [reader EXCEPT ![r] = IdleReader]
    /\ UNCHANGED <<applied, writer, fragment, warmed, faults>>

-----------------------------------------------------------------------------
(* Writers. A mutation evicts inside the request handler and               *)
(* SessionMiddleware commits after it; a re-evaluation commits first and   *)
(* evicts what it recorded.                                                *)

Write(w) ==
    /\ writer[w] = "idle"
    /\ writer' = [writer EXCEPT ![w] = "written"]
    /\ UNCHANGED <<applied, reader, fragment, warmed, faults>>

\* run_with_deadlock_retry rolls back and runs the statements again; an error
\* response rolls back for good, which looks the same from here.
RollBack(w) ==
    /\ \/ writer[w] = "written"
       \/ writer[w] = "evicted"
    /\ writer' = [writer EXCEPT ![w] = "idle"]
    /\ UNCHANGED <<applied, reader, fragment, warmed, faults>>

EvictBeforeCommit(w) ==
    /\ writer[w] = "written"
    /\ w \notin Rescores
    /\ Evict
    /\ writer' = [writer EXCEPT ![w] = "evicted"]
    /\ UNCHANGED <<applied, reader, warmed>>

MayCommit(w) ==
    IF w \in Rescores THEN writer[w] = "written" ELSE writer[w] = "evicted"

Commit(w) ==
    /\ MayCommit(w)
    /\ applied' = applied \union {w}
    /\ writer' = [writer EXCEPT ![w] = IF w \in Rescores THEN "committed" ELSE "done"]
    /\ UNCHANGED <<reader, fragment, warmed, faults>>

\* Mutant: the recorded evictions are never flushed.
EvictAfterCommit_Forgotten(w) ==
    /\ writer[w] = "committed"
    /\ writer' = [writer EXCEPT ![w] = "done"]
    /\ UNCHANGED <<applied, reader, fragment, warmed, faults>>

\* _PendingCacheInvalidations.flush
EvictAfterCommit(w) ==
    /\ writer[w] = "committed"
    /\ Evict
    /\ writer' = [writer EXCEPT ![w] = "done"]
    /\ UNCHANGED <<applied, reader, warmed>>

-----------------------------------------------------------------------------
\* The entry's TTL runs out.
Expires == fragment.present

Expire ==
    /\ Expires
    /\ fragment' = NoFragment
    /\ UNCHANGED <<applied, writer, reader, warmed, faults>>

CacheRead(r) ==
    \/ Hit(r) \/ Miss(r) \/ Warm(r) \/ ReadEvaluations(r)
    \/ ReadIndicators(r) \/ Store(r) \/ Leave(r)

CacheWrite(w) ==
    Write(w) \/ RollBack(w) \/ EvictBeforeCommit(w) \/ Commit(w) \/ EvictAfterCommit(w)

CacheNext ==
    \/ \E r \in Readers : CacheRead(r)
    \/ \E w \in Writers : CacheWrite(w)
    \/ Expire

CacheSpec == CacheInit /\ [][CacheNext]_cacheVars

-----------------------------------------------------------------------------
(* Properties.                                                             *)

Lacks(w) == fragment.present /\ Without(fragment, w)

\* A fragment without a finished change was stored after that change's eviction,
\* which for a re-evaluation means after its commit: by a request that had read
\* the column before the commit and was late. An eviction that goes through
\* leaves nothing of the time before it (evaluation.py:57-77), and committing
\* first keeps a reader that comes and goes in between from doing the damage
\* (re_evaluation_service.py:177-186). Redis failures void the promise.
LateStoresOnly(changes) ==
    \A w \in changes :
        (writer[w] = "done" /\ faults = 0 /\ Lacks(w)) => w \in fragment.after

StaleOnlyByLateStore == LateStoresOnly(Writers)
=============================================================================
