--------------------------- MODULE EvaluationLedger ---------------------------
(***************************************************************************)
(* What the evaluation pipeline promises its readers, whatever happens to  *)
(* jobs and workers: an evaluation gets a result at most once and keeps    *)
(* it, the chart of an evaluation shows that result, and a run is          *)
(* published once, with the result of one of its children or with none.    *)
(***************************************************************************)
CONSTANTS
    LRuns,           \* runs
    LEvals,          \* evaluations
    Parent(_),       \* the run an evaluation belongs to
    Results,         \* results an evaluation may have
    None             \* no result

VARIABLES
    ledger,          \* [LEvals -> Results \cup {None}]: the result of record
    chart,           \* [LEvals -> Results \cup {None}]: the result charts show
    published        \* [LRuns -> [status, result]]: the run as its readers see it

lvars == <<ledger, chart, published>>

LInit ==
    /\ ledger = [e \in LEvals |-> None]
    /\ chart = [e \in LEvals |-> None]
    /\ published = [r \in LRuns |-> [status |-> "absent", result |-> None]]

Open(r) ==
    /\ published[r].status = "absent"
    /\ published' = [published EXCEPT ![r].status = "pending"]
    /\ UNCHANGED <<ledger, chart>>

Record(e, v) ==
    /\ ledger[e] = None
    /\ ledger' = [ledger EXCEPT ![e] = v]
    /\ UNCHANGED <<chart, published>>

Chart(e) ==
    /\ chart[e] = None
    /\ ledger[e] # None
    /\ chart' = [chart EXCEPT ![e] = ledger[e]]
    /\ UNCHANGED <<ledger, published>>

Publish(r, v) ==
    /\ published[r].status = "pending"
    /\ v = None \/ \E e \in LEvals : Parent(e) = r /\ ledger[e] = v
    /\ published' = [published EXCEPT ![r] = [status |-> "completed", result |-> v]]
    /\ UNCHANGED <<ledger, chart>>

LNext ==
    \/ \E e \in LEvals : Chart(e) \/ \E v \in Results : Record(e, v)
    \/ \E r \in LRuns : Open(r) \/ \E v \in Results \cup {None} : Publish(r, v)

LedgerSpec == LInit /\ [][LNext]_lvars
===============================================================================
