-------------------------- MODULE QueryCacheProofs --------------------------
(***************************************************************************)
(* Proofs about QueryCache for any numbers of changes, requests and Redis  *)
(* failures: the column cache's promise, that no invalidation is lost, and *)
(* that a settled page shows the changes its user was told of. The tables  *)
(* enter only through InvalidationsComplete.                               *)
(***************************************************************************)
EXTENDS QueryCache, TLAPS

-----------------------------------------------------------------------------
(* The inductive invariant.                                                *)

(* The query followed is one Init may choose; it never changes.            *)
QueryTypeOK == TypeOK /\ query \in KindsOfQuery

(* A change whose success was handled is finished at the server.           *)
ToldDone == \A w \in told : op[w] \in Mutations /\ writer[w] = "done"

(* What of the fragment's changes has been committed is in the database.   *)
CommittedApplied ==
    \A w \in Writers : writer[w] \in {"committed", "done"} /\ InFragment(w) => w \in applied

(* What request r has read so far holds change w.                          *)
ReadHolds(r, w) ==
    /\ InFragment(w) =>
        /\ reader[r].pc \in {"half", "built", "answered"} => w \in reader[r].evals
        /\ reader[r].pc \in {"built", "answered"} /\ w \in Rescores => w \in reader[r].rows
    /\ ~InFragment(w) /\ reader[r].pc # "idle" => w \in overlay[r]

(* The answer the browser waits for will have every change its request was *)
(* sent after.                                                             *)
LiveFresh == live # None => \A w \in asked \ excused : ReadHolds(live, w)

(* So has the data.                                                        *)
EntryFresh == entry.has => \A w \in shown \ excused : w \in entry.data

(* A change the user was told of that invalidates the query and overtook   *)
(* nothing: the request under way was sent after it, and so was the one    *)
(* that brought data not marked.                                           *)
Pending == {w \in told \ overtaken : Covers(op[w], query)}

LiveAsked == live # None => Pending \subseteq asked
EntryAsked == entry.has /\ ~entry.invalidated => Pending \subseteq shown

(* Marked data on a page is being fetched, unless the last fetch failed.   *)
MarkedFetched == mounted /\ entry.has /\ entry.invalidated => live # None \/ entry.failed

AskedTold == asked \subseteq told /\ shown \subseteq told

(* The column cache's promise, for changes that have evicted but not yet   *)
(* committed too.                                                          *)
EvictedLate ==
    \A w \in Writers :
        (writer[w] \in {"evicted", "done"} /\ InFragment(w) /\ faults = 0 /\ Lacks(w))
            => w \in fragment.after

ShownInv ==
    /\ QueryTypeOK
    /\ ToldDone
    /\ CommittedApplied
    /\ AskedTold
    /\ LiveFresh
    /\ EntryFresh
    /\ LiveAsked
    /\ EntryAsked
    /\ MarkedFetched

-----------------------------------------------------------------------------
(* Types.                                                                  *)

LEMMA QueryKindsAreQueries == KindsOfQuery \subseteq Queries
<1> SUFFICES ASSUME NEW p \in {Profile(q) : q \in Queries}
             PROVE  (CHOOSE q \in Queries : Profile(q) = p) \in Queries
  BY DEF KindsOfQuery
<1>1. \E q \in Queries : Profile(q) = p
  OBVIOUS
<1> QED
  BY <1>1

LEMMA MutationKindsAreMutations ==
  ASSUME NEW q \in KindsOfQuery
  PROVE  KindsOfMutation[q] \subseteq Mutations
<1> SUFFICES ASSUME NEW e \in {Effect(m, q) : m \in Mutations}
             PROVE  (CHOOSE m \in Mutations : Effect(m, q) = e) \in Mutations
  BY DEF KindsOfMutation
<1>1. \E m \in Mutations : Effect(m, q) = e
  OBVIOUS
<1> QED
  BY <1>1

LEMMA NoFragmentTyped == NoFragment \in Fragment
  BY DEF NoFragment, Fragment

LEMMA QueryTypeInit == Init => QueryTypeOK
<1> SUFFICES ASSUME Init PROVE QueryTypeOK
  OBVIOUS
<1>1. CacheTypeOK
  <2>1. IdleReader \in ReaderState /\ "idle" \in WriterState
    BY DEF ReaderState, IdleReader, WriterState
  <2>2. writer \in [Writers -> WriterState] /\ reader \in [Readers -> ReaderState]
    BY <2>1 DEF Init, CacheInit
  <2>3. faults \in 0..MaxFaults
    BY FaultsAssumption DEF Init, CacheInit
  <2> QED
    BY <2>2, <2>3, NoFragmentTyped DEF Init, CacheInit, CacheTypeOK
<1>2. entry \in Entry
  BY DEF Init, EmptyEntry, Entry
<1> QED
  BY <1>1, <1>2, QueryKindsAreQueries DEF Init, QueryTypeOK, TypeOK

LEMMA FetchTyped ==
  ASSUME NEW known \in SUBSET Writers, live \in Readers \union {None}, asked \in SUBSET Writers,
         Fetch(known) \/ Send(known) \/ Wait
  PROVE  live' \in Readers \union {None} /\ asked' \in SUBSET Writers
  BY DEF Fetch, Send, Wait

LEMMA QueryTypeStep == QueryTypeOK /\ [Next]_vars => QueryTypeOK'
<1> SUFFICES ASSUME QueryTypeOK, [Next]_vars PROVE QueryTypeOK'
  OBVIOUS
<1> USE FaultsAssumption DEF QueryTypeOK, TypeOK, CacheTypeOK, cacheVars, history
<1>1. CASE Mount \/ Unmount \/ Focus \/ Retry
  BY <1>1, FetchTyped DEF Mount, Unmount, Focus, Retry
<1>2. CASE Collect \/ GiveUp
  <2>1. /\ EmptyEntry \in Entry
        /\ [entry EXCEPT !.failed = TRUE] \in Entry
    BY DEF Entry, EmptyEntry
  <2> QED
    BY <1>2, <2>1 DEF Collect, GiveUp
<1>3. CASE Receive
  <2>1. Answer(live) \in Entry
    BY DEF Answer, Entry
  <2> QED
    BY <1>3, <2>1 DEF Receive, ReaderState, IdleReader
<1>4. ASSUME NEW w \in Writers, Submit(w) PROVE QueryTypeOK'
  <2> PICK m \in KindsOfMutation[query] : op' = [op EXCEPT ![w] = m]
    BY <1>4 DEF Submit
  <2>1. m \in Mutations
    BY MutationKindsAreMutations
  <2> QED
    BY <1>4, <2>1 DEF Submit, Write, WriterState
<1>5. ASSUME NEW w \in Writers, Fail(w) PROVE QueryTypeOK'
  BY <1>5 DEF Fail, RollBack, WriterState
<1>6. ASSUME NEW w \in Writers, Change(w) PROVE QueryTypeOK'
  <2>1. Evict => fragment' \in Fragment /\ faults' \in 0..MaxFaults
    BY NoFragmentTyped DEF Evict, RedisWorks, RedisFails
  <2>2. writer' \in [Writers -> WriterState]
    BY <1>6 DEF Change, EvictBeforeCommit, Commit, EvictAfterCommit, WriterState
  <2> QED
    BY <1>6, <2>1, <2>2 DEF Change, EvictBeforeCommit, Commit, EvictAfterCommit, clientVars
<1>7. ASSUME NEW w \in Writers, CommitPlainly(w) PROVE QueryTypeOK'
  BY <1>7 DEF CommitPlainly, WriterState, clientVars
<1>8. ASSUME NEW w \in Writers, Succeed(w) PROVE QueryTypeOK'
  <2>1. live' \in Readers \union {None} /\ asked' \in SUBSET Writers
    <3>1. told' \in SUBSET Writers
      BY <1>8 DEF Succeed
    <3>2. Refetch(told') => Fetch(told') \/ Send(told')
      BY DEF Refetch
    <3>3. Wait \/ Fetch(told') \/ Send(told') \/ UNCHANGED <<live, asked>>
      BY <1>8, <3>2 DEF Succeed
    <3> QED
      BY <3>1, <3>3, FetchTyped
  <2>2. entry' \in Entry
    BY <1>8, NoneAssumption DEF Succeed, Entry
  <2> QED
    BY <1>8, <2>1, <2>2 DEF Succeed
<1>9. ASSUME NEW r \in Readers, Look(r) PROVE QueryTypeOK'
  BY <1>9 DEF Look, Hit, Miss, RedisWorks, RedisFails, ReaderState, Fragment
<1>10. ASSUME NEW r \in Readers, WarmUp(r) PROVE QueryTypeOK'
  BY <1>10 DEF WarmUp, Warm, ReaderState, clientVars
<1>11. ASSUME NEW r \in Readers, Rebuild(r) PROVE QueryTypeOK'
  <2>1. CASE ReadEvaluations(r) \/ ReadIndicators(r)
    <3>1. /\ [reader[r] EXCEPT !.pc = "half", !.evals = applied] \in ReaderState
          /\ [reader[r] EXCEPT !.pc = "built", !.rows = applied \intersect Rescores] \in ReaderState
      BY DEF ReaderState
    <3>2. reader' \in [Readers -> ReaderState]
      BY <2>1, <3>1 DEF ReadEvaluations, ReadIndicators
    <3> QED
      BY <1>11, <2>1, <3>2 DEF Rebuild, ReadEvaluations, ReadIndicators, clientVars
  <2>2. CASE Store(r)
    <3>1. Stored(r) \in Fragment
      BY DEF Stored, Fragment, ReaderState
    <3> QED
      BY <1>11, <2>2, <3>1 DEF Rebuild, Store, RedisWorks, RedisFails, ReaderState, clientVars
  <2> QED
    BY <1>11, <2>1, <2>2 DEF Rebuild
<1>12. ASSUME NEW r \in Readers, Reply(r) PROVE QueryTypeOK'
  BY <1>12 DEF Reply, ReaderState, clientVars
<1>13. ASSUME NEW r \in Readers, Drop(r) PROVE QueryTypeOK'
  BY <1>13 DEF Drop, Leave, ReaderState, IdleReader
<1>14. CASE Lapse
  BY <1>14 DEF Lapse, Expire, NoFragment, Fragment, clientVars
<1>15. CASE UNCHANGED vars
  BY <1>15 DEF vars, clientVars
<1> QED
  BY <1>1, <1>2, <1>3, <1>4, <1>5, <1>6, <1>7, <1>8, <1>9, <1>10, <1>11, <1>12,
     <1>13, <1>14, <1>15 DEF Next

(* The browser's query table, the column cache and the readers keep their  *)
(* types through every mutation, refetch, late reply and lapse.            *)
THEOREM QueryTypeCorrect == Spec => []QueryTypeOK
  BY QueryTypeInit, QueryTypeStep, PTL DEF Spec

-----------------------------------------------------------------------------
(* The column cache under the browser's load.                              *)

LateInv == QueryTypeOK /\ EvictedLate

LEMMA LateStep == LateInv /\ [Next]_vars => LateInv'
<1> SUFFICES ASSUME LateInv, [Next]_vars PROVE EvictedLate'
  BY QueryTypeStep DEF LateInv
<1> USE FaultsAssumption DEF LateInv, EvictedLate, InFragment, Lacks, Without, QueryTypeOK,
        TypeOK, CacheTypeOK, cacheVars
<1>1. CASE Mount \/ Unmount \/ Focus \/ Collect \/ Retry \/ GiveUp
  BY <1>1 DEF Mount, Unmount, Focus, Collect, Retry, GiveUp
<1>2. CASE Receive
  BY <1>2 DEF Receive
<1>3. ASSUME NEW w \in Writers, Submit(w) \/ Fail(w) \/ CommitPlainly(w) \/ Succeed(w)
      PROVE  EvictedLate'
  BY <1>3 DEF Submit, Fail, CommitPlainly, Succeed, Write, RollBack, clientVars
<1>4. ASSUME NEW w \in Writers, Change(w) PROVE EvictedLate'
  BY <1>4 DEF Change, EvictBeforeCommit, Commit, MayCommit, EvictAfterCommit, Evict,
              RedisWorks, RedisFails, NoFragment, clientVars
<1>5. ASSUME NEW r \in Readers, Look(r) \/ WarmUp(r) \/ Reply(r) \/ Drop(r)
      PROVE  EvictedLate'
  BY <1>5 DEF Look, Hit, Miss, RedisWorks, RedisFails, WarmUp, Warm, Reply, Drop, Leave,
              clientVars
<1>6. ASSUME NEW r \in Readers, Rebuild(r) PROVE EvictedLate'
  BY <1>6 DEF Rebuild, ReadEvaluations, ReadIndicators, Store, Stored, RedisWorks,
              RedisFails, clientVars
<1>7. CASE Lapse
  BY <1>7 DEF Lapse, Expire, NoFragment, clientVars
<1>8. CASE UNCHANGED vars
  BY <1>8 DEF vars, clientVars
<1> QED
  BY <1>1, <1>2, <1>3, <1>4, <1>5, <1>6, <1>7, <1>8 DEF Next

(* With the browser, other users and the warm-up reading, and this user's  *)
(* mutations evicting before or after their commit, a fragment without a   *)
(* finished change was stored after that change's eviction (heatmap_cache  *)
(* and trends_cache: no eviction that goes through leaves older data).     *)
THEOREM FragmentsStaleOnlyByLateStores == Spec => []FragmentStaleOnlyByLateStore
<1>1. Init => LateInv
  BY QueryTypeInit DEF LateInv, EvictedLate, Init, CacheInit, NoFragment, Lacks
<1>2. LateInv => FragmentStaleOnlyByLateStore
  BY DEF LateInv, EvictedLate, FragmentStaleOnlyByLateStore, LateStoresOnly
<1> QED
  BY <1>1, <1>2, LateStep, PTL DEF Spec

-----------------------------------------------------------------------------
(* A settled page.                                                         *)

Kept == ToldDone /\ CommittedApplied /\ AskedTold /\ LiveFresh /\ EntryFresh
        /\ LiveAsked /\ EntryAsked /\ MarkedFetched

(* A request just sent has read nothing and was sent after everything.     *)
LEMMA SentFresh ==
  ASSUME ShownInv, NEW known \in SUBSET Writers, Send(known)
  PROVE  /\ live' \in Readers /\ live' # None /\ reader[live'].pc = "idle"
         /\ asked' = {w \in known : Covers(op[w], query)}
  BY NoneAssumption DEF Send

(* The browser's steps other than an answer, an error and a success.       *)
LEMMA BrowserShown ==
  ASSUME ShownInv, Mount \/ Unmount \/ Focus \/ Collect \/ Retry
  PROVE  Kept'
<1> USE DEF ShownInv, QueryTypeOK, TypeOK, cacheVars, history
<1>1. UNCHANGED <<applied, writer, reader, query, op, told, overlay, overtaken, excused>>
  BY DEF Mount, Unmount, Focus, Collect, Retry
<1>2. \/ Send(told)
      \/ UNCHANGED <<live, asked>>
  BY DEF Mount, Unmount, Focus, Collect, Retry, Fetch, Wait
<1>3. Send(told) => /\ live' # None /\ reader[live'].pc = "idle"
                    /\ asked' = {w \in told : Covers(op[w], query)}
  BY SentFresh
<1>4. \/ UNCHANGED <<entry, shown>>
      \/ entry' = EmptyEntry /\ shown' = {}
  BY DEF Mount, Unmount, Focus, Collect, Retry
<1>5. /\ entry'.has => entry.has /\ entry'.data = entry.data /\ shown' = shown
                       /\ entry'.invalidated = entry.invalidated /\ entry'.failed = entry.failed
      /\ shown' \subseteq shown
  BY <1>4 DEF EmptyEntry, Entry
<1>6. ToldDone' /\ CommittedApplied'
  BY <1>1 DEF ToldDone, CommittedApplied, InFragment
<1>7. AskedTold'
  BY <1>1, <1>2, <1>3, <1>5 DEF AskedTold
<1>8. LiveFresh'
  BY <1>1, <1>2, <1>3 DEF LiveFresh, ReadHolds, InFragment
<1>9. EntryFresh' /\ EntryAsked'
  BY <1>1, <1>5 DEF EntryFresh, EntryAsked, Pending
<1>10. LiveAsked'
  BY <1>1, <1>2, <1>3 DEF LiveAsked, Pending
<1>11. MarkedFetched'
  <2> SUFFICES ASSUME mounted', entry'.has, entry'.invalidated
               PROVE  live' # None \/ entry'.failed
    BY DEF MarkedFetched
  <2>1. entry.has /\ entry.invalidated /\ entry'.failed = entry.failed
    BY <1>5
  <2>2. CASE mounted
    BY <1>2, <1>3, <2>1, <2>2 DEF MarkedFetched
  <2>3. CASE ~mounted
    <3>1. Fetch(told)
      BY <2>1, <2>3 DEF Mount, Unmount, Focus, Collect, Retry, IsStale, MarkedFetched
    <3> QED
      BY <1>3, <3>1 DEF Fetch, Wait
  <2> QED
    BY <2>2, <2>3
<1> QED
  BY <1>6, <1>7, <1>8, <1>9, <1>10, <1>11 DEF Kept

LEMMA ReceiveShown ==
  ASSUME ShownInv, Receive
  PROVE  Kept'
<1> USE DEF ShownInv, QueryTypeOK, TypeOK
<1>1. /\ UNCHANGED <<applied, writer, query, op, told, mounted>>
      /\ live' = None /\ asked' = {} /\ shown' = asked /\ entry' = Answer(live)
      /\ overtaken' = overtaken \ asked /\ excused' = excused \ Answer(live).data
      /\ reader[live].pc = "answered" /\ live # None /\ live \in Readers
  BY DEF Receive
<1>2. entry'.has /\ ~entry'.invalidated /\ entry'.data = Answer(live).data
  BY <1>1 DEF Answer
<1>3. ToldDone' /\ CommittedApplied'
  BY <1>1 DEF ToldDone, CommittedApplied, InFragment
<1>4. AskedTold' /\ LiveFresh' /\ LiveAsked' /\ MarkedFetched'
  BY <1>1, <1>2 DEF AskedTold, LiveFresh, LiveAsked, MarkedFetched
<1>5. EntryFresh'
  <2> SUFFICES ASSUME NEW w \in shown' \ excused' PROVE w \in entry'.data
    BY DEF EntryFresh
  <2>1. w \in asked \ excused \/ w \in entry'.data
    BY <1>1, <1>2
  <2>2. w \in asked \ excused => ReadHolds(live, w) /\ w \in Writers
    BY <1>1 DEF LiveFresh
  <2>3. w \in Writers /\ ReadHolds(live, w) => w \in Answer(live).data
    BY <1>1 DEF Answer, ReadHolds
  <2> QED
    BY <1>2, <2>1, <2>2, <2>3
<1>6. EntryAsked'
  BY <1>1 DEF EntryAsked, LiveAsked, Pending
<1> QED
  BY <1>3, <1>4, <1>5, <1>6 DEF Kept

(* Every retry failed: the data and its mark stay.                         *)
LEMMA GiveUpShown ==
  ASSUME ShownInv, GiveUp
  PROVE  Kept'
<1> USE DEF ShownInv, QueryTypeOK, TypeOK, cacheVars
<1>1. /\ UNCHANGED <<applied, writer, reader, query, op, told, mounted, overlay, shown>>
      /\ UNCHANGED <<overtaken, excused>>
      /\ live' = None /\ asked' = {} /\ entry' = [entry EXCEPT !.failed = TRUE]
  BY DEF GiveUp
<1>2. /\ entry'.has = entry.has /\ entry'.invalidated = entry.invalidated
      /\ entry'.data = entry.data /\ entry'.failed
  BY <1>1 DEF Entry
<1> QED
  BY <1>1, <1>2 DEF Kept, ToldDone, CommittedApplied, InFragment, AskedTold, LiveFresh, EntryFresh,
     LiveAsked, EntryAsked, Pending, MarkedFetched

LEMMA SucceedShown ==
  ASSUME ShownInv, NEW w \in Writers, Succeed(w)
  PROVE  Kept'
<1> USE DEF ShownInv, QueryTypeOK, TypeOK, cacheVars
<1>1. /\ UNCHANGED <<applied, writer, reader, query, op, overlay, mounted, shown, excused>>
      /\ told' = told \union {w} /\ op[w] \in Mutations /\ writer[w] = "done"
  BY DEF Succeed, Successful
<1>2. ToldDone' /\ CommittedApplied'
  BY <1>1 DEF ToldDone, CommittedApplied, InFragment
<1>3. CASE ~Covers(op[w], query)
  <2>1. UNCHANGED <<entry, live, asked, overtaken>>
    BY <1>3 DEF Succeed
  <2>2. Pending' = Pending
    BY <1>1, <1>3, <2>1 DEF Pending
  <2>3. AskedTold' /\ LiveFresh' /\ EntryFresh'
    BY <1>1, <2>1 DEF AskedTold, LiveFresh, ReadHolds, EntryFresh, InFragment
  <2>4. LiveAsked' /\ EntryAsked' /\ MarkedFetched'
    BY <1>1, <2>1, <2>2 DEF LiveAsked, EntryAsked, MarkedFetched
  <2> QED
    BY <1>2, <2>3, <2>4 DEF Kept
<1>4. CASE Covers(op[w], query)
  <2>1. /\ entry' = [entry EXCEPT !.invalidated = entry.has \/ live # None]
        /\ IF mounted THEN Refetch(told') ELSE Wait
        /\ overtaken' = IF Overtaken THEN overtaken \union {w} ELSE overtaken
    BY <1>4 DEF Succeed
  <2>2. /\ entry'.has = entry.has /\ entry'.data = entry.data
        /\ entry.has => entry'.invalidated
    BY <2>1 DEF Entry
  <2>3. Send(told') \/ (live' = live /\ asked' = asked /\ (live = None \/ Overtaken))
    BY <2>1 DEF Refetch, Fetch, Wait, Overtaken
  <2>4. Send(told') => /\ live' # None /\ reader[live'].pc = "idle"
                       /\ asked' = {v \in told' : Covers(op[v], query)}
    BY <1>1, SentFresh
  <2>5. Pending' \subseteq {v \in told' : Covers(op[v], query)}
    BY <1>1 DEF Pending
  <2>6. AskedTold'
    BY <1>1, <2>3, <2>4 DEF AskedTold
  <2>7. LiveFresh'
    BY <1>1, <2>3, <2>4 DEF LiveFresh, ReadHolds, InFragment
  <2>8. EntryFresh' /\ EntryAsked'
    BY <1>1, <2>2 DEF EntryFresh, EntryAsked
  <2>9. LiveAsked'
    <3>1. CASE Send(told')
      BY <2>4, <2>5, <3>1 DEF LiveAsked
    <3>2. CASE live' = live /\ asked' = asked /\ (live = None \/ Overtaken)
      <4>1. Overtaken => Pending' \subseteq Pending
        BY <1>1, <2>1 DEF Pending
      <4> QED
        BY <3>2, <4>1 DEF LiveAsked
    <3> QED
      BY <2>3, <3>1, <3>2
  <2>10. MarkedFetched'
    BY <1>1, <2>1, <2>2, <2>4, NoneAssumption DEF MarkedFetched, Refetch
  <2> QED
    BY <1>2, <2>6, <2>7, <2>8, <2>9, <2>10 DEF Kept
<1> QED
  BY <1>3, <1>4

LEMMA LookShown ==
  ASSUME ShownInv, NEW r \in Readers, Look(r)
  PROVE  Kept'
<1> USE DEF ShownInv, QueryTypeOK, TypeOK, CacheTypeOK
<1>1. /\ UNCHANGED <<applied, writer, query, op, told, mounted, live, entry, asked, shown, overtaken>>
      /\ excused \subseteq excused'
      /\ \A s \in Readers \ {r} : reader'[s] = reader[s] /\ overlay'[s] = overlay[s]
  BY DEF Look, Hit, Miss
<1>2. ToldDone' /\ CommittedApplied' /\ AskedTold' /\ EntryFresh'
  BY <1>1 DEF ToldDone, CommittedApplied, InFragment, AskedTold, EntryFresh
<1>3. LiveAsked' /\ EntryAsked' /\ MarkedFetched'
  BY <1>1 DEF LiveAsked, EntryAsked, Pending, MarkedFetched
<1>4. LiveFresh'
  <2> SUFFICES ASSUME live # None, NEW w \in asked \ excused' PROVE ReadHolds(live, w)'
    BY <1>1 DEF LiveFresh
  <2>1. w \in asked \ excused /\ live \in Readers /\ writer[w] = "done" /\ w \in Writers
    BY <1>1 DEF ToldDone, AskedTold
  <2>2. CASE live # r
    BY <1>1, <2>1, <2>2 DEF LiveFresh, ReadHolds, InFragment
  <2>3. CASE live = r
    <3>1. ~InFragment(w) => w \in overlay'[r]
      BY <2>1 DEF Look
    <3>2. CASE Miss(r)
      <4>1. reader'[r].pc = "missed"
        BY <3>2 DEF Miss, ReaderState
      <4> QED
        BY <1>1, <2>3, <3>1, <4>1 DEF ReadHolds, InFragment
    <3>3. CASE Hit(r)
      <4>1. reader'[r] = [pc |-> "answered", evals |-> fragment.evals, rows |-> fragment.rows]
            /\ fragment.present
        BY <3>3 DEF Hit
      <4>2. InFragment(w) => ~Lacks(w)
        BY <2>3, <4>1 DEF Look
      <4> QED
        BY <1>1, <2>3, <3>1, <4>1, <4>2 DEF ReadHolds, Lacks, Without, InFragment
    <3> QED
      BY <3>2, <3>3 DEF Look
  <2> QED
    BY <2>2, <2>3
<1> QED
  BY <1>2, <1>3, <1>4 DEF Kept

LEMMA RebuildShown ==
  ASSUME ShownInv, NEW r \in Readers, Rebuild(r)
  PROVE  Kept'
<1> USE DEF ShownInv, InFragment, clientVars, history, QueryTypeOK, TypeOK, CacheTypeOK
<1>1. /\ UNCHANGED <<applied, writer, clientVars>>
      /\ \A s \in Readers \ {r} : reader'[s] = reader[s]
  BY DEF Rebuild, ReadEvaluations, ReadIndicators, Store
<1>2. ToldDone' /\ CommittedApplied' /\ AskedTold' /\ EntryFresh'
  BY <1>1 DEF ToldDone, CommittedApplied, AskedTold, EntryFresh
<1>3. LiveAsked' /\ EntryAsked' /\ MarkedFetched'
  BY <1>1 DEF LiveAsked, EntryAsked, Pending, MarkedFetched
<1>4. LiveFresh'
  <2> SUFFICES ASSUME live # None, NEW w \in asked \ excused PROVE ReadHolds(live, w)'
    BY <1>1 DEF LiveFresh
  <2>1. ReadHolds(live, w) /\ live \in Readers /\ writer[w] = "done" /\ w \in Writers
    BY DEF LiveFresh, ToldDone, AskedTold
  <2>2. CASE live # r
    BY <1>1, <2>1, <2>2 DEF ReadHolds
  <2>3. CASE live = r
    <3>1. InFragment(w) => w \in applied
      BY <2>1 DEF CommittedApplied
    <3>2. reader[r] \in ReaderState
      OBVIOUS
    <3>3. CASE ReadEvaluations(r)
      <4>1. reader'[r] = [reader[r] EXCEPT !.pc = "half", !.evals = applied] /\ reader[r].pc = "missed"
        BY <3>3 DEF ReadEvaluations
      <4>2. reader'[r].pc = "half" /\ reader'[r].evals = applied
        BY <3>2, <4>1 DEF ReaderState
      <4> QED
        BY <1>1, <2>1, <2>3, <3>1, <4>1, <4>2 DEF ReadHolds
    <3>4. CASE ReadIndicators(r)
      <4>1. reader'[r] = [reader[r] EXCEPT !.pc = "built", !.rows = applied \intersect Rescores]
            /\ reader[r].pc = "half"
        BY <3>4 DEF ReadIndicators
      <4>2. /\ reader'[r].pc = "built" /\ reader'[r].evals = reader[r].evals
            /\ reader'[r].rows = applied \intersect Rescores
        BY <3>2, <4>1 DEF ReaderState
      <4> QED
        BY <1>1, <2>1, <2>3, <3>1, <4>1, <4>2 DEF ReadHolds
    <3>5. CASE Store(r)
      <4>1. reader'[r] = [reader[r] EXCEPT !.pc = "answered"] /\ reader[r].pc = "built"
        BY <3>5 DEF Store
      <4>2. /\ reader'[r].pc = "answered" /\ reader'[r].evals = reader[r].evals
            /\ reader'[r].rows = reader[r].rows
        BY <3>2, <4>1 DEF ReaderState
      <4> QED
        BY <1>1, <2>1, <2>3, <4>1, <4>2 DEF ReadHolds
    <3> QED
      BY <3>3, <3>4, <3>5 DEF Rebuild
  <2> QED
    BY <2>2, <2>3
<1> QED
  BY <1>2, <1>3, <1>4 DEF Kept

(* Steps of requests nobody waits for, and the answer to a query that is   *)
(* not cached, which holds what Look read.                                 *)
LEMMA OtherReadersShown ==
  ASSUME ShownInv, NEW r \in Readers, WarmUp(r) \/ Reply(r) \/ Drop(r)
  PROVE  Kept'
<1> USE DEF ShownInv, InFragment, clientVars, history, QueryTypeOK, TypeOK, CacheTypeOK
<1>1. /\ UNCHANGED <<applied, writer, query, op, told, mounted, live, entry, history>>
      /\ \A s \in Readers \ {r} : reader'[s] = reader[s] /\ overlay'[s] = overlay[s]
  BY DEF WarmUp, Warm, Reply, Drop, Leave
<1>2. ToldDone' /\ CommittedApplied' /\ AskedTold' /\ EntryFresh'
  BY <1>1 DEF ToldDone, CommittedApplied, AskedTold, EntryFresh
<1>3. LiveAsked' /\ EntryAsked' /\ MarkedFetched'
  BY <1>1 DEF LiveAsked, EntryAsked, Pending, MarkedFetched
<1>4. LiveFresh'
  <2>1. CASE live # r
    BY <1>1, <2>1 DEF LiveFresh, ReadHolds
  <2>2. CASE live = r
    <3>1. Reply(r)
      BY <2>2 DEF WarmUp, Drop
    <3>2. \A w \in Writers : ~InFragment(w)
      BY <3>1 DEF Reply, Cached, FragmentQueries, FragmentMutations
    <3>3. overlay' = overlay /\ reader[r].pc # "idle"
      BY <3>1 DEF Reply
    <3> QED
      BY <1>1, <2>2, <3>2, <3>3 DEF LiveFresh, ReadHolds
  <2> QED
    BY <2>1, <2>2
<1> QED
  BY <1>2, <1>3, <1>4 DEF Kept

(* A change under way is not one the browser has been told of.             *)
LEMMA WritersShown ==
  ASSUME ShownInv, NEW w \in Writers, Submit(w) \/ Fail(w) \/ Change(w) \/ CommitPlainly(w),
         QueryTypeOK'
  PROVE  Kept'
<1> USE DEF ShownInv, InFragment, clientVars, history, QueryTypeOK, TypeOK, CacheTypeOK
<1>1. /\ UNCHANGED <<reader, query, told, mounted, live, entry, overlay, history>>
      /\ applied \subseteq applied'
      /\ \A v \in Writers \ {w} : writer'[v] = writer[v] /\ op'[v] = op[v]
      /\ writer[w] # "done"
  BY DEF Submit, Fail, Change, CommitPlainly, Write, RollBack, EvictBeforeCommit, Commit,
         MayCommit, EvictAfterCommit
<1>2. w \notin told
  BY <1>1 DEF ToldDone
<1>3. Pending' = Pending /\ AskedTold'
  BY <1>1, <1>2 DEF Pending, AskedTold
<1>4. ToldDone'
  BY <1>1, <1>2 DEF ToldDone
<1>5. CommittedApplied'
  <2>1. writer'[w] \in {"committed", "done"} /\ InFragment(w)' => w \in applied'
    BY DEF Submit, Fail, Change, CommitPlainly, Write, RollBack, EvictBeforeCommit, Commit,
           EvictAfterCommit, CommittedApplied
  <2> QED
    BY <1>1, <2>1 DEF CommittedApplied
<1>6. LiveFresh'
  <2>1. \A v \in asked : v # w /\ op'[v] = op[v] /\ v \in Writers
    BY <1>1, <1>2 DEF AskedTold
  <2> QED
    BY <1>1, <2>1 DEF LiveFresh, ReadHolds
<1>7. EntryFresh' /\ LiveAsked' /\ EntryAsked' /\ MarkedFetched'
  BY <1>1, <1>3 DEF EntryFresh, LiveAsked, EntryAsked, MarkedFetched
<1> QED
  BY <1>3, <1>4, <1>5, <1>6, <1>7 DEF Kept

LEMMA ShownStep == ShownInv /\ [Next]_vars => ShownInv'
<1> SUFFICES ASSUME ShownInv, [Next]_vars PROVE ShownInv'
  OBVIOUS
<1>t. QueryTypeOK'
  BY QueryTypeStep DEF ShownInv
<1>1. CASE Lapse \/ UNCHANGED vars
  BY <1>1, <1>t DEF Lapse, Expire, vars, cacheVars, clientVars, history, ShownInv, ToldDone,
     CommittedApplied, AskedTold, LiveFresh, ReadHolds, EntryFresh, LiveAsked, EntryAsked,
     Pending, MarkedFetched, InFragment
<1>2. CASE Mount \/ Unmount \/ Focus \/ Collect \/ Receive \/ Retry \/ GiveUp
  BY <1>2, <1>t, BrowserShown, ReceiveShown, GiveUpShown DEF ShownInv, Kept
<1>3. ASSUME NEW w \in Writers,
             Submit(w) \/ Fail(w) \/ Change(w) \/ CommitPlainly(w) \/ Succeed(w)
      PROVE  ShownInv'
  BY <1>3, <1>t, WritersShown, SucceedShown DEF ShownInv, Kept
<1>4. ASSUME NEW r \in Readers, Look(r) \/ WarmUp(r) \/ Rebuild(r) \/ Reply(r) \/ Drop(r)
      PROVE  ShownInv'
  BY <1>4, <1>t, LookShown, RebuildShown, OtherReadersShown DEF ShownInv, Kept
<1> QED
  BY <1>1, <1>2, <1>3, <1>4 DEF Next

LEMMA ShownInvariant == Spec => []ShownInv
<1>1. Init => ShownInv
  BY QueryTypeInit
  DEF Init, CacheInit, ShownInv, ToldDone, CommittedApplied, AskedTold, LiveFresh, EntryFresh,
      LiveAsked, EntryAsked, Pending, MarkedFetched, EmptyEntry
<1> QED
  BY <1>1, ShownStep, PTL DEF Spec

LEMMA SettledAsked == ShownInv => NoLostInvalidation
  BY DEF ShownInv, NoLostInvalidation, Settled, EntryAsked, Pending, MarkedFetched

(* However mutations, answers, failing fetches, retries, focus, mounting   *)
(* and staleTime interleave, the data of a settled page was asked for      *)
(* after every invalidation the user was told of, save one that overtook   *)
(* the request (App.tsx and the hooks' invalidateQueries calls).           *)
THEOREM InvalidationsNeverLost == Spec => []NoLostInvalidation
  BY ShownInvariant, SettledAsked, PTL

(* A settled page shows every change its user was told of, save the        *)
(* forgotten, the overtaking and the excused ones, for any numbers of      *)
(* mutations, requests and Redis failures.                                 *)
THEOREM OwnChangesAlwaysShown == Spec => []OwnChangesShown
<1>1. ShownInv => OwnChangesShown
  <2> SUFFICES ASSUME ShownInv, Settled, NEW w \in told \ (overtaken \union excused),
                      Affects(op[w], query), <<op[w], query>> \notin Forgotten
               PROVE  w \in entry.data
    BY DEF OwnChangesShown
  <2>1. op[w] \in Mutations /\ query \in Queries
    BY DEF ShownInv, ToldDone, QueryTypeOK, TypeOK
  <2>2. Covers(op[w], query)
    BY <2>1, InvalidationsComplete
  <2>3. w \in shown
    BY <2>2, SettledAsked DEF NoLostInvalidation
  <2> QED
    BY <2>3 DEF ShownInv, EntryFresh, Settled
<1> QED
  BY <1>1, ShownInvariant, PTL
=============================================================================
