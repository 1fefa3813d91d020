----------------------------- MODULE QueryCache -----------------------------
(***************************************************************************)
(* The browser's copy of the server's data (TanStack Query as App.tsx and  *)
(* the hooks configure it) on top of the server and its column cache: a    *)
(* page shows the answer to a query, its user changes data by mutations,   *)
(* and every mutation that succeeds invalidates keys.                      *)
(*                                                                         *)
(* Queries of different keys influence each other only through mutations,  *)
(* so a behaviour follows one query, chosen at the start, and the          *)
(* mutations that affect or invalidate it. The changes are those of        *)
(* ColumnCache; each is one mutation of this user.                         *)
(***************************************************************************)
EXTENDS ColumnCache, QueryTables

CONSTANT None

ASSUME NoneAssumption == None \notin Readers /\ None \notin Mutations

VARIABLES
    query,      \* the query followed
    op,         \* op[w]: the mutation change w is, None before it is sent
    told,       \* changes whose success the browser has handled
    mounted,    \* a component of the page uses the query
    live,       \* the request whose answer the browser waits for, or None
    entry,      \* the cache entry of the query
    overlay,    \* overlay[r]: what request r read next to the fragment
    asked,      \* history: what the user had been told of when live was sent
    shown,      \* history: the same for the request that brought the data
    overtaken,  \* history: changes told of while an older request was kept
    excused     \* history: changes missing from a fragment stored late

history == <<asked, shown, overtaken, excused>>
clientVars == <<query, op, told, mounted, live, entry, overlay, history>>
vars == <<cacheVars, clientVars>>

\* failed: the last fetch ended in an error (status 'error'); data stays.
EmptyEntry ==
    [has |-> FALSE, data |-> {}, invalidated |-> FALSE, failed |-> FALSE]

Entry == [has: BOOLEAN, data: SUBSET Writers, invalidated: BOOLEAN, failed: BOOLEAN]

TypeOK ==
    /\ CacheTypeOK
    /\ query \in Queries
    /\ op \in [Writers -> Mutations \union {None}]
    /\ told \in SUBSET Writers
    /\ mounted \in BOOLEAN
    /\ live \in Readers \union {None}
    /\ entry \in Entry
    /\ overlay \in [Readers -> SUBSET Writers]
    /\ {asked, shown, overtaken, excused} \subseteq SUBSET Writers

\* Queries answered from a column cache, and the changes that are part of the
\* fragment; the rest of such an answer is read fresh for every response.
FragmentQueries == {"heatmap", "sloTrends"}

FragmentMutations(q) ==
    CASE q = "heatmap"   -> {"invalidate", "restore", "override", "batch", "reEvaluate"}
      [] q = "sloTrends" -> {"reEvaluate"}
      [] OTHER           -> {}

Cached == query \in FragmentQueries
InFragment(w) == op[w] \in FragmentMutations(query)

\* What a mutation does to a query, and what a query is to the machinery.
\* Mutations, or queries, that agree in this behave alike: one of each kind is
\* enough.
Effect(m, q) ==
    [affects |-> Affects(m, q), covers |-> Covers(m, q),
     cached |-> m \in FragmentMutations(q), rescores |-> m = "reEvaluate",
     forgotten |-> <<m, q>> \in Forgotten]

Profile(q) ==
    [effects |-> {Effect(m, q) : m \in Mutations}, permanent |-> q \in Permanent,
     fragments |-> q \in FragmentQueries, warmed |-> q = "heatmap"]

KindsOfQuery ==
    {CHOOSE q \in Queries : Profile(q) = p : p \in {Profile(q) : q \in Queries}}

\* A forgotten mutation does nothing to an entry.
Concerns(e) == e.covers \/ e.cached \/ (e.affects /\ ~e.forgotten)

KindsOfMutation ==
    [q \in KindsOfQuery |->
        {CHOOSE m \in Mutations : Effect(m, q) = e :
            e \in {x \in {Effect(m, q) : m \in Mutations} : Concerns(x)}}]

Init ==
    /\ CacheInit
    /\ query \in KindsOfQuery
    /\ op = [w \in Writers |-> None]
    /\ told = {}
    /\ mounted = FALSE
    /\ live = None
    /\ entry = EmptyEntry
    /\ overlay = [r \in Readers |-> {}]
    /\ asked = {} /\ shown = {} /\ overtaken = {} /\ excused = {}

-----------------------------------------------------------------------------
(* The browser.                                                            *)

\* Whether staleTime has elapsed for data at the moment somebody asks: it may
\* have at any time, and never does for data that is kept for good.
Elapsed == IF query \in Permanent THEN {FALSE} ELSE BOOLEAN

\* Mutant: staleTime alone decides, as if staleTime Infinity outlasted an
\* invalidation.
IsStale_AgeOnly(elapsed) == ~entry.has \/ elapsed

IsStale(elapsed) == ~entry.has \/ entry.invalidated \/ elapsed

\* A request is sent; the browser waits for its answer and no other. By now
\* the user has been told of the changes known; those that invalidate count.
Send(known) ==
    /\ \E r \in Readers : reader[r].pc = "idle" /\ r # live /\ live' = r
    /\ asked' = {w \in known : Covers(op[w], query)}

Wait == UNCHANGED <<live, asked>>

\* fetch: a request is sent unless one is under way.
Fetch(known) == IF live # None THEN Wait ELSE Send(known)

\* A component that uses the query appears; stale data is fetched again.
Mount ==
    /\ ~mounted
    /\ mounted' = TRUE
    /\ \E elapsed \in Elapsed : IF IsStale(elapsed) THEN Fetch(told) ELSE Wait
    /\ UNCHANGED <<cacheVars, query, op, told, entry, overlay, shown, overtaken, excused>>

\* The last component disappears; a request under way is not aborted.
Unmount ==
    /\ mounted
    /\ mounted' = FALSE
    /\ UNCHANGED <<cacheVars, query, op, told, live, entry, overlay, history>>

\* The window gets the focus.
Focus ==
    /\ mounted
    /\ \E elapsed \in Elapsed : IsStale(elapsed)
    /\ live = None
    /\ Fetch(told)
    /\ UNCHANGED <<cacheVars, query, op, told, mounted, entry, overlay, shown, overtaken, excused>>

\* gcTime elapses.
Collect ==
    /\ ~mounted
    /\ live = None
    /\ entry' = EmptyEntry
    /\ shown' = {}
    /\ UNCHANGED <<cacheVars, query, op, told, mounted, live, overlay, asked, overtaken, excused>>

\* The answer replaces the data and clears the invalidation, whenever that came.
Answer(r) ==
    [has |-> TRUE, invalidated |-> FALSE, failed |-> FALSE,
     data |-> {w \in Writers :
        IF InFragment(w)
        THEN w \in reader[r].evals /\ (w \in Rescores => w \in reader[r].rows)
        ELSE w \in overlay[r]}]

Receive ==
    /\ live # None
    /\ reader[live].pc = "answered"
    /\ entry' = Answer(live)
    /\ reader' = [reader EXCEPT ![live] = IdleReader]
    /\ live' = None
    /\ overlay' = [overlay EXCEPT ![live] = {}]
    /\ shown' = asked
    /\ asked' = {}
    /\ overtaken' = overtaken \ asked
    /\ excused' = excused \ Answer(live).data
    /\ UNCHANGED <<applied, writer, fragment, warmed, faults>>
    /\ UNCHANGED <<query, op, told, mounted>>

\* The request fails or its answer is lost, and is made again (retry).
Retry ==
    /\ live # None
    /\ Send(told)
    /\ UNCHANGED <<cacheVars, query, op, told, mounted, entry, overlay, shown, overtaken, excused>>

\* Every retry has failed. The data stays as it was, and nothing fetches again
\* before the next mount, focus or invalidation.
GiveUp ==
    /\ live # None
    /\ live' = None
    /\ asked' = {}
    /\ entry' = [entry EXCEPT !.failed = TRUE]
    /\ UNCHANGED <<cacheVars, query, op, told, mounted, overlay, shown, overtaken, excused>>

\* Mutant: cancelRefetch is off, a request under way is always joined.
Refetch_Joined(known) == Fetch(known)

\* onSuccess of a mutation that invalidates the query. A mounted query is
\* fetched again: a request under way is given up for a new one if the entry
\* has data; one that fetches the first data is left to finish.
Refetch(known) == IF entry.has THEN Send(known) ELSE Fetch(known)

\* The request under way may have been answered before the change, and stays.
Overtaken == live # None /\ (~entry.has \/ ~mounted)

\* onSuccess runs when the response to the mutation has arrived.
Successful(w) == op[w] # None /\ writer[w] = "done"

Succeed(w) ==
    /\ Successful(w)
    /\ w \notin told
    /\ told' = told \union {w}
    /\ IF Covers(op[w], query)
       THEN /\ entry' = [entry EXCEPT !.invalidated = entry.has \/ live # None]
            /\ IF mounted THEN Refetch(told') ELSE Wait
            /\ overtaken' = IF Overtaken THEN overtaken \union {w} ELSE overtaken
       ELSE UNCHANGED <<entry, live, asked, overtaken>>
    /\ UNCHANGED <<cacheVars, query, op, mounted, overlay, shown, excused>>

-----------------------------------------------------------------------------
(* The server.                                                             *)

\* A request of this browser is handled once it has been sent; requests of
\* other users matter through the column cache.
Arrived(r) == live = r \/ Cached

\* get_many, or the query itself.
Look(r) ==
    /\ Arrived(r)
    /\ Hit(r) \/ Miss(r)
    /\ overlay' = [overlay EXCEPT ![r] = {w \in Writers : writer[w] = "done" /\ ~InFragment(w)}]
    /\ excused' = excused \union
        {w \in asked : live = r /\ fragment.present /\ InFragment(w) /\ Lacks(w)}
    /\ UNCHANGED <<query, op, told, mounted, live, entry, asked, shown, overtaken>>

WarmUp(r) ==
    /\ query = "heatmap"
    /\ r # live
    /\ Warm(r)
    /\ UNCHANGED clientVars

Rebuild(r) ==
    /\ Cached
    /\ ReadEvaluations(r) \/ ReadIndicators(r) \/ Store(r)
    /\ UNCHANGED clientVars

\* The answer to a query that is not cached holds what Look read.
Reply(r) ==
    /\ ~Cached
    /\ reader[r].pc = "missed"
    /\ reader' = [reader EXCEPT ![r].pc = "answered"]
    /\ UNCHANGED <<applied, writer, fragment, warmed, faults, clientVars>>

\* Nobody waits for the answer any more.
Drop(r) ==
    /\ r # live
    /\ Leave(r)
    /\ overlay' = [overlay EXCEPT ![r] = {}]
    /\ UNCHANGED <<query, op, told, mounted, live, entry, history>>

\* The user submits a mutation; its handler writes.
Submit(w) ==
    /\ Write(w)
    /\ \E m \in KindsOfMutation[query] :
        /\ (m = "reEvaluate") = (w \in Rescores)
        /\ op' = [op EXCEPT ![w] = m]
    /\ UNCHANGED <<query, told, mounted, live, entry, overlay, history>>

\* The request fails, and may be made again.
Fail(w) ==
    /\ RollBack(w)
    /\ op' = [op EXCEPT ![w] = None]
    /\ UNCHANGED <<query, told, mounted, live, entry, overlay, history>>

Change(w) ==
    /\ InFragment(w)
    /\ EvictBeforeCommit(w) \/ Commit(w) \/ EvictAfterCommit(w)
    /\ UNCHANGED clientVars

\* A change that is no part of the fragment evicts nothing and is there for
\* every response once it is committed.
CommitPlainly(w) ==
    /\ writer[w] = "written"
    /\ ~InFragment(w)
    /\ writer' = [writer EXCEPT ![w] = "done"]
    /\ UNCHANGED <<applied, reader, fragment, warmed, faults, clientVars>>

Lapse == Expire /\ UNCHANGED clientVars

Next ==
    \/ Mount \/ Unmount \/ Focus \/ Collect \/ Receive \/ Retry \/ GiveUp
    \/ \E w \in Writers : Submit(w) \/ Fail(w) \/ Change(w) \/ CommitPlainly(w) \/ Succeed(w)
    \/ \E r \in Readers : Look(r) \/ WarmUp(r) \/ Rebuild(r) \/ Reply(r) \/ Drop(r)
    \/ Lapse

Spec == Init /\ [][Next]_vars

-----------------------------------------------------------------------------
(* Properties.                                                             *)

\* The page shows data and waits for nothing, and its last fetch succeeded.
Settled == mounted /\ live = None /\ entry.has /\ ~entry.failed

\* The data of a settled page was asked for after the user was told of every
\* change whose mutation invalidates the query, except a change the browser
\* was told of while an older request was under way and kept: one for the
\* first data, or for data nobody showed. No later answer, failed fetch,
\* retry, focus or mount clears an invalidation otherwise, staleTime Infinity
\* outlasts none, and the exception ends with the next answer.
NoLostInvalidation ==
    Settled => \A w \in told \ overtaken : Covers(op[w], query) => w \in shown

\* A settled page shows every change its user has been told of, except one no
\* key of the mutation covers (Forgotten), one that overtook the request
\* (NoLostInvalidation) and one missing from a fragment stored late, until an
\* answer brings it (hooks.ts: "refetch so the new note appears immediately").
OwnChangesShown ==
    Settled =>
        \A w \in told \ (overtaken \union excused) :
            Affects(op[w], query) /\ <<op[w], query>> \notin Forgotten => w \in entry.data

\* The column cache keeps its promise under the browser's load, for the changes
\* that are part of the fragment.
FragmentStaleOnlyByLateStore == LateStoresOnly({w \in Writers : InFragment(w)})
=============================================================================
