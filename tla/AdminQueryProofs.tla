-------------------------- MODULE AdminQueryProofs --------------------------
(***************************************************************************)
(* Invariance proofs for AdminQuery, for any nodes, tables, constraints,   *)
(* times to live and limits: the cached tables are rectangular, what a     *)
(* query gets is fresh, what it lacks is reported, and past the limit it   *)
(* fetches everything at most once, whatever the servers do meanwhile.     *)
(***************************************************************************)
EXTENDS AdminQuery, TLAPS

\* What the servers failed to answer with is reported.
reported(truth) == \A nid \in DOMAIN truth : truth[nid] = Failed => nid \in failures

\* Every column has the same positions.
rectangular(data) == \A c, d \in DOMAIN data : DOMAIN data[c] = DOMAIN data[d]

\* An entry of the cache is rectangular and fresh enough for the current query, and
\* what it lacks is reported when the current query has fetched it.
goodEntry(e) ==
  /\ DOMAIN e = {"data", "indices", "at", "by", "truth"}
  /\ rectangular(e.data)
  /\ e.at \in Nat /\ e.at >= query.start - query.ttl
  /\ e.by \in Nat /\ e.by <= query.id
  /\ e.by = query.id => reported(e.truth)

ClockInv ==
  /\ time \in 0..MaxTime /\ cache_ttl_ \in TTLs /\ enable_server_side_filtering_ \in BOOLEAN
  /\ failures \subseteq Nodes
  /\ DOMAIN servers \subseteq Nodes /\ \A nid \in DOMAIN servers : servers[nid] \in Replies

QueryInv ==
  /\ DOMAIN query = {"id", "start", "ttl", "calls", "running"}
  /\ query.id \in Nat /\ query.ttl \in Nat
  /\ query.start \in Nat /\ query.start <= time

\* What a call may come back with that is still being served.
FetchInv ==
  ctx # none =>
    /\ query.running
    /\ DOMAIN sent = {"phase", "answers", "snapshot", "to"}
    /\ DOMAIN sent.answers \subseteq Nodes
    /\ \A nid \in DOMAIN sent.snapshot : sent.snapshot[nid] \in Replies

\* The limit on fetches: past it there is one for everything, and then no more.
LimitInv ==
  /\ num_fetches_ \in Nat
  /\ num_fetches_ <= MAX_FETCHES + 1 \/ (num_fetches_ = MAX_FETCHES + 2 /\ {} \in DOMAIN admin_cmd_cache_)
  /\ ctx # none => num_fetches_ <= MAX_FETCHES \/ (num_fetches_ = MAX_FETCHES + 1 /\ ctx.used = {})

CacheInv == \A key \in DOMAIN admin_cmd_cache_ : goodEntry(admin_cmd_cache_[key])

ResultInv == FailuresAreReported /\ AnswerIsFresh

AdminInv == ClockInv /\ QueryInv /\ FetchInv /\ LimitInv /\ CacheInv /\ ResultInv

-----------------------------------------------------------------------------
\* At the start the cache is empty (Init).
LEMMA InitAdmin == Init => AdminInv
<1> SUFFICES ASSUME Init PROVE AdminInv
  OBVIOUS
<1>1. ClockInv
  BY AdminAssumption DEF Init, ClockInv
<1>2. QueryInv
  BY DEF Init, QueryInv
<1>3. FetchInv /\ LimitInv /\ CacheInv
  BY AdminAssumption DEF Init, FetchInv, LimitInv, CacheInv
<1>4. ResultInv
  BY DEF Init, ResultInv, FailuresAreReported, AnswerIsFresh, none
<1> QED
  BY <1>1, <1>2, <1>3, <1>4 DEF AdminInv

\* The merged table is rectangular whatever columns the answers had (aggregate).
LEMMA AggregateIsRectangular ==
  ASSUME NEW results
  PROVE  rectangular(aggregate(results))
BY DEF rectangular, aggregate, resize

\* The same entry, its indices apart.
likeEntry(x, y) ==
  /\ DOMAIN x = DOMAIN y
  /\ x.data = y.data /\ x.at = y.at /\ x.by = y.by /\ x.truth = y.truth

\* What served and return do to the cache: only the indices of the entry change.
LEMMA ReturnKeeps ==
  ASSUME NEW cache, NEW key \in DOMAIN cache, NEW constraints,
         return(cache, key, constraints),
         DOMAIN cache[key] = {"data", "indices", "at", "by", "truth"}
  PROVE  /\ DOMAIN admin_cmd_cache_' = DOMAIN cache
         /\ \A k \in DOMAIN cache : likeEntry(admin_cmd_cache_'[k], cache[k])
         /\ result'.phase = "returned" /\ result'.at = cache[key].at
         /\ result'.by = cache[key].by /\ result'.truth = cache[key].truth
<1>1. PICK s \in served(cache[key], constraints) :
        /\ admin_cmd_cache_' = [cache EXCEPT ![key].indices = s.indices]
        /\ result' = [phase |-> "returned", rows |-> s.rows, constraints |-> constraints,
                      at |-> cache[key].at, by |-> cache[key].by, truth |-> cache[key].truth]
  BY Zenon DEF return
<1>2. PICK e : e = [cache[key] EXCEPT !.indices = s.indices]
  BY Zenon
<1>3. likeEntry(e, cache[key])
  BY <1>2 DEF likeEntry
<1>4. DOMAIN admin_cmd_cache_' = DOMAIN cache
  BY <1>1
<1>5. \A k \in DOMAIN cache : admin_cmd_cache_'[k] = IF k = key THEN e ELSE cache[k]
  BY <1>1, <1>2
<1>6. \A k \in DOMAIN cache : likeEntry(admin_cmd_cache_'[k], cache[k])
  BY <1>3, <1>5 DEF likeEntry
<1> QED
  BY <1>1, <1>4, <1>6

\* An index more or less does not matter to what an entry promises.
LEMMA LikeGood ==
  ASSUME NEW x, NEW y, likeEntry(x, y), goodEntry(y)'
  PROVE  goodEntry(x)'
BY DEF likeEntry, goodEntry

-----------------------------------------------------------------------------
\* newQuery drops what is too old for the time to live.
LEMMA BeginQueryStep ==
  ASSUME AdminInv, beginQuery
  PROVE  AdminInv'
<1>1. /\ ~query.running /\ num_fetches_' = 0 /\ failures' = {}
      /\ query' = [id |-> query.id + 1, start |-> time, ttl |-> cache_ttl_, calls |-> 0,
                   running |-> TRUE]
      /\ result' = none
      /\ UNCHANGED <<servers, time, cache_ttl_, enable_server_side_filtering_, console, ctx, sent>>
  BY DEF beginQuery, newQuery
<1>2. ctx = none /\ query.id \in Nat /\ time \in Nat /\ cache_ttl_ \in Nat
  BY <1>1, AdminAssumption DEF AdminInv, FetchInv, QueryInv, ClockInv
<1>3. ClockInv' /\ QueryInv' /\ FetchInv'
  BY <1>1, <1>2 DEF AdminInv, ClockInv, QueryInv, FetchInv
<1>4. LimitInv' /\ ResultInv'
  BY <1>1, <1>2, AdminAssumption DEF LimitInv, ResultInv, FailuresAreReported, AnswerIsFresh, none
<1>5. CacheInv'
  <2> SUFFICES ASSUME NEW key \in DOMAIN admin_cmd_cache_', NEW e, e = admin_cmd_cache_'[key]
               PROVE  goodEntry(e)'
    BY DEF CacheInv
  <2>2. /\ key \in DOMAIN admin_cmd_cache_ /\ e = admin_cmd_cache_[key]
        /\ isValid(e, cache_ttl_)
    BY DEF beginQuery, newQuery, Restrict
  <2>3. goodEntry(e)
    BY <2>2 DEF AdminInv, CacheInv
  <2>4. e.at \in Nat /\ e.at >= time - cache_ttl_
    BY <1>2, <2>2, <2>3 DEF goodEntry, isValid
  <2>5. e.by \in Nat /\ e.by <= query.id + 1 /\ e.by # query.id + 1
    BY <1>2, <2>3 DEF goodEntry
  <2> QED
    BY <1>1, <2>3, <2>4, <2>5 DEF goodEntry
<1> QED
  BY <1>3, <1>4, <1>5 DEF AdminInv

\* Between the calls of getData, and between queries, the cache stays as it is.
LEMMA QuietStep ==
  ASSUME AdminInv, UNCHANGED <<admin_cmd_cache_, num_fetches_, failures, ctx>>,
         ClockInv', QueryInv', FetchInv',
         query'.id = query.id, query'.start = query.start, query'.ttl = query.ttl,
         result' = result \/ result' = none
  PROVE  AdminInv'
<1>1. LimitInv'
  BY DEF AdminInv, LimitInv
<1>2. CacheInv'
  BY DEF AdminInv, CacheInv, goodEntry, reported
<1>3. ResultInv'
  BY DEF AdminInv, ResultInv, FailuresAreReported, AnswerIsFresh, none
<1> QED
  BY <1>1, <1>2, <1>3 DEF AdminInv

\* The query ends, or the console is configured, or time passes and servers change.
LEMMA OutsideStep ==
  ASSUME AdminInv,
         \/ endQuery \/ getNodesConfigurationFails \/ elapse
         \/ \E constraints \in Constraints : getDataThrows(constraints)
         \/ \E ttl \in TTLs : setCacheTTL(ttl)
         \/ \E val \in BOOLEAN : enableServerSideFiltering(val)
  PROVE  AdminInv'
<1>1. CASE \/ endQuery \/ getNodesConfigurationFails
           \/ \E constraints \in Constraints : getDataThrows(constraints)
  <2>1. /\ ctx = none /\ ctx' = none /\ query' = [query EXCEPT !.running = FALSE] /\ result' = none
        /\ UNCHANGED <<servers, time, admin_cmd_cache_, cache_ttl_, enable_server_side_filtering_,
                       num_fetches_, failures>>
    BY <1>1 DEF endQuery, getNodesConfigurationFails, getDataThrows, table
  <2>2. /\ DOMAIN query' = DOMAIN query /\ query'.id = query.id /\ query'.start = query.start
        /\ query'.ttl = query.ttl
    BY <2>1 DEF AdminInv, QueryInv
  <2>3. ClockInv' /\ FetchInv' /\ QueryInv'
    BY <2>1, <2>2 DEF AdminInv, ClockInv, FetchInv, QueryInv
  <2> QED
    BY <2>1, <2>2, <2>3, QuietStep
<1>2. CASE elapse
  <2>1. /\ time' = time + 1 /\ time < MaxTime
        /\ UNCHANGED <<admin_cmd_cache_, cache_ttl_, enable_server_side_filtering_, num_fetches_,
                       failures, ctx, sent, query, result>>
    BY <1>2 DEF elapse, table
  <2>2. DOMAIN servers' \subseteq Nodes /\ \A nid \in DOMAIN servers' : servers'[nid] \in Replies
    <3>0. DOMAIN servers \subseteq Nodes /\ \A nid \in DOMAIN servers : servers[nid] \in Replies
      BY DEF AdminInv, ClockInv
    <3>1. CASE servers' = servers
      BY <3>0, <3>1
    <3>2. ASSUME NEW nid \in Nodes, NEW r \in Replies, servers' = with(servers, nid, r)
          PROVE  DOMAIN servers' \subseteq Nodes /\ \A n \in DOMAIN servers' : servers'[n] \in Replies
      BY <3>0, <3>2 DEF with
    <3>3. ASSUME NEW nid \in DOMAIN servers, servers' = Restrict(servers, DOMAIN servers \ {nid})
          PROVE  DOMAIN servers' \subseteq Nodes /\ \A n \in DOMAIN servers' : servers'[n] \in Replies
      BY <3>0, <3>3 DEF Restrict
    <3> QED
      BY Zenon, <1>2, <3>1, <3>2, <3>3 DEF elapse
  <2>3. ClockInv' /\ QueryInv' /\ FetchInv'
    BY <2>1, <2>2, AdminAssumption DEF AdminInv, ClockInv, QueryInv, FetchInv
  <2> QED
    BY <2>1, <2>3, QuietStep
<1>3. CASE \/ \E ttl \in TTLs : setCacheTTL(ttl)
           \/ \E val \in BOOLEAN : enableServerSideFiltering(val)
  <2>1. /\ UNCHANGED <<servers, time, admin_cmd_cache_, num_fetches_, failures, ctx, sent, query,
                       result>>
        /\ cache_ttl_' \in TTLs /\ enable_server_side_filtering_' \in BOOLEAN
    BY <1>3 DEF setCacheTTL, enableServerSideFiltering, AdminInv, ClockInv
  <2>2. ClockInv' /\ QueryInv' /\ FetchInv'
    BY <2>1 DEF AdminInv, ClockInv, QueryInv, FetchInv
  <2> QED
    BY <2>1, <2>2, QuietStep
<1> QED
  BY <1>1, <1>2, <1>3

\* A request of a fetch ends, well or not.
LEMMA SendStep ==
  ASSUME AdminInv, NEW nid \in Nodes, sendAdminCommand(nid)
  PROVE  AdminInv'
<1>1. PICK a : sent' = [sent EXCEPT !.answers = with(@, nid, a)]
  BY DEF sendAdminCommand
<1>2. /\ ctx # none
      /\ UNCHANGED <<servers, time, admin_cmd_cache_, cache_ttl_, enable_server_side_filtering_,
                     num_fetches_, failures, ctx, query, result>>
  BY DEF sendAdminCommand, table
<1>3. DOMAIN sent = {"phase", "answers", "snapshot", "to"}
  BY <1>2 DEF AdminInv, FetchInv
<1>4. /\ DOMAIN sent' = DOMAIN sent /\ sent'.snapshot = sent.snapshot
      /\ sent'.answers = with(sent.answers, nid, a)
  BY <1>1, <1>3
<1>5. DOMAIN sent'.answers \subseteq Nodes
  BY <1>2, <1>4 DEF with, AdminInv, FetchInv
<1>6. FetchInv' /\ ClockInv' /\ QueryInv'
  BY <1>2, <1>4, <1>5 DEF AdminInv, FetchInv, ClockInv, QueryInv
<1> QED
  BY <1>2, <1>6, QuietStep

\* The answer of a server ends the process; the cache is left alone.
LEMMA TerminateStep ==
  ASSUME AdminInv, transformDataTerminates
  PROVE  AdminInv'
<1>1. /\ ctx' = none /\ query' = [query EXCEPT !.running = FALSE]
      /\ UNCHANGED <<servers, time, admin_cmd_cache_, cache_ttl_, enable_server_side_filtering_,
                     num_fetches_, failures, result>>
  BY DEF transformDataTerminates, table
<1>2. /\ DOMAIN query' = DOMAIN query /\ query'.id = query.id /\ query'.start = query.start
      /\ query'.ttl = query.ttl
  BY <1>1 DEF AdminInv, QueryInv
<1>3. ClockInv' /\ QueryInv' /\ FetchInv'
  BY <1>1, <1>2 DEF AdminInv, ClockInv, QueryInv, FetchInv
<1>4. LimitInv'
  BY <1>1 DEF AdminInv, LimitInv
<1>5. CacheInv'
  BY <1>1, <1>2 DEF AdminInv, CacheInv, goodEntry, reported
<1>6. ResultInv'
  BY <1>1, <1>2 DEF AdminInv, ResultInv, FailuresAreReported, AnswerIsFresh
<1> QED
  BY <1>3, <1>4, <1>5, <1>6 DEF AdminInv

\* Past the limit a call uses no constraint (allowServerSideFiltering).
LEMMA PastTheLimit ==
  ASSUME NEW nodes, NEW constraints, num_fetches_ \in Nat, num_fetches_ > MAX_FETCHES
  PROVE  usedConstraints(nodes, constraints) = {}
BY AdminAssumption DEF usedConstraints, allowServerSideFiltering

\* getData answers from the cache, or starts a fetch.
LEMMA GetDataStep ==
  ASSUME AdminInv, NEW constraints \in Constraints, getData(constraints)
  PROVE  AdminInv'
<1>1. PICK used : used = usedConstraints(DOMAIN servers, constraints)
  OBVIOUS
<1>2. /\ query.running /\ ctx = none /\ query' = [query EXCEPT !.calls = @ + 1]
      /\ UNCHANGED <<servers, time, cache_ttl_, enable_server_side_filtering_, num_fetches_, failures>>
  BY Zenon DEF getData
<1>3. /\ DOMAIN query' = DOMAIN query /\ query'.id = query.id /\ query'.start = query.start
      /\ query'.ttl = query.ttl /\ query'.running = query.running
  BY Zenon, <1>2 DEF AdminInv, QueryInv
<1>4. ClockInv' /\ QueryInv'
  BY <1>2, <1>3 DEF AdminInv, ClockInv, QueryInv
<1>5. \A e : goodEntry(e) => goodEntry(e)'
  BY <1>2, <1>3 DEF goodEntry, reported
<1>6. CASE used \in DOMAIN admin_cmd_cache_
  <2>1. /\ return(admin_cmd_cache_, used, constraints) /\ ctx' = none
    BY <1>1, <1>2, <1>6 DEF getData
  <2>2. /\ DOMAIN admin_cmd_cache_' = DOMAIN admin_cmd_cache_
        /\ \A k \in DOMAIN admin_cmd_cache_ : likeEntry(admin_cmd_cache_'[k], admin_cmd_cache_[k])
        /\ result'.phase = "returned" /\ result'.at = admin_cmd_cache_[used].at
        /\ result'.by = admin_cmd_cache_[used].by /\ result'.truth = admin_cmd_cache_[used].truth
    BY <1>6, <2>1, ReturnKeeps DEF AdminInv, CacheInv, goodEntry
  <2>3. CacheInv'
    BY <1>5, <2>2, LikeGood DEF AdminInv, CacheInv
  <2>4. LimitInv' /\ FetchInv'
    BY <1>2, <2>1, <2>2 DEF AdminInv, LimitInv, FetchInv
  <2>5. ResultInv'
    <3>1. goodEntry(admin_cmd_cache_[used])
      BY <1>6 DEF AdminInv, CacheInv
    <3> QED
      BY <1>2, <1>3, <2>2, <3>1 DEF ResultInv, FailuresAreReported, AnswerIsFresh, goodEntry, reported
  <2> QED
    BY <1>4, <2>3, <2>4, <2>5 DEF AdminInv
<1>7. CASE used \notin DOMAIN admin_cmd_cache_
  <2>1. PICK to :
          /\ ctx' = [phase |-> "fetch", constraints |-> constraints, used |-> used]
          /\ sent' = [phase |-> "sent", answers |-> <<>>, snapshot |-> servers, to |-> to]
          /\ result' = none /\ admin_cmd_cache_' = admin_cmd_cache_
    BY Zenon, <1>1, <1>7 DEF getData
  <2>2. CacheInv'
    BY <1>5, <2>1 DEF AdminInv, CacheInv
  <2>3. FetchInv'
    BY <1>2, <1>3, <2>1 DEF AdminInv, FetchInv, ClockInv
  <2>4. LimitInv'
    <3>1. num_fetches_ <= MAX_FETCHES \/ (num_fetches_ = MAX_FETCHES + 1 /\ used = {})
      BY <1>1, <1>7, PastTheLimit, AdminAssumption DEF AdminInv, LimitInv
    <3> QED
      BY <1>2, <2>1, <3>1 DEF AdminInv, LimitInv
  <2>5. ResultInv'
    BY <2>1 DEF ResultInv, FailuresAreReported, AnswerIsFresh, none
  <2> QED
    BY <1>4, <2>2, <2>3, <2>4, <2>5 DEF AdminInv
<1> QED
  BY <1>6, <1>7

\* What the failed answers leave out is what refillCache reports.
LEMMA TruthIsReported ==
  ASSUME FetchInv, ctx # none, failures' = failures \cup failedIn(sent.answers),
         NEW truth, truth = truthOf(sent)
  PROVE  reported(truth)'
<1> SUFFICES ASSUME NEW nid \in DOMAIN truth, truth[nid] = Failed PROVE nid \in failures'
  BY DEF reported
<1>1. ~wellFormed(Failed)
  BY DEF wellFormed, Failed
<1>2. \A n \in DOMAIN sent.snapshot : sent.snapshot[n] # Failed
  BY RepliesAssumption DEF FetchInv, Failed
<1>3. nid \in DOMAIN sent.answers /\ ~wellFormed(sent.answers[nid])
  BY <1>1, <1>2 DEF truthOf
<1> QED
  BY <1>3 DEF failedIn

\* All requests have ended: the answers are merged into a new entry of the cache.
LEMMA RefillStep ==
  ASSUME AdminInv, refillCache
  PROVE  AdminInv'
<1>1. PICK results : results = withNodeId(sent.to, transformDataParallel(sent.to, sent.answers))
  OBVIOUS
<1>2. PICK truth : truth = truthOf(sent)
  OBVIOUS
<1>3. PICK e : e = newEntry(aggregate(results), truth)
  OBVIOUS
<1>4. PICK cache : cache = with(admin_cmd_cache_, ctx.used, e)
  OBVIOUS
<1>5. /\ ctx # none /\ failures' = failures \cup failedIn(sent.answers)
      /\ num_fetches_' = num_fetches_ + 1
      /\ return(cache, ctx.used, ctx.constraints)
      /\ ctx' = none
      /\ UNCHANGED <<servers, time, cache_ttl_, enable_server_side_filtering_, query>>
  BY <1>1, <1>2, <1>3, <1>4 DEF refillCache, allAnswered
<1>6. reported(truth)' /\ failures' \subseteq Nodes /\ failures \subseteq failures'
  <2>1. reported(truth)'
    BY <1>2, <1>5, TruthIsReported DEF AdminInv
  <2>2. failedIn(sent.answers) \subseteq Nodes
    BY <1>5 DEF failedIn, AdminInv, FetchInv
  <2> QED
    BY <1>5, <2>1, <2>2 DEF AdminInv, ClockInv
<1>7. \A x : goodEntry(x) => goodEntry(x)'
  BY <1>5, <1>6 DEF goodEntry, reported
<1>8. goodEntry(e)'
  <2>1. /\ DOMAIN e = {"data", "indices", "at", "by", "truth"}
        /\ e.data = aggregate(results) /\ e.at = time /\ e.by = query.id /\ e.truth = truth
    BY <1>3 DEF newEntry
  <2>2. rectangular(e.data)
    BY <2>1, AggregateIsRectangular
  <2>3. time \in Nat /\ query.start \in Nat /\ query.ttl \in Nat /\ query.start <= time /\ query.id \in Nat
    BY AdminAssumption DEF AdminInv, ClockInv, QueryInv
  <2> QED
    BY <1>5, <1>6, <2>1, <2>2, <2>3 DEF goodEntry
<1>9. /\ DOMAIN cache = DOMAIN admin_cmd_cache_ \cup {ctx.used}
      /\ \A k \in DOMAIN cache : cache[k] = IF k = ctx.used THEN e ELSE admin_cmd_cache_[k]
  BY <1>4 DEF with
<1>10. \A k \in DOMAIN cache : goodEntry(cache[k])'
  BY <1>7, <1>8, <1>9 DEF AdminInv, CacheInv
<1>11. /\ DOMAIN admin_cmd_cache_' = DOMAIN cache
       /\ \A k \in DOMAIN cache : likeEntry(admin_cmd_cache_'[k], cache[k])
       /\ result'.phase = "returned" /\ result'.at = e.at /\ result'.by = e.by
       /\ result'.truth = e.truth
  <2>1. ctx.used \in DOMAIN cache /\ cache[ctx.used] = e
    BY <1>9
  <2>2. DOMAIN e = {"data", "indices", "at", "by", "truth"}
    BY <1>3 DEF newEntry
  <2> QED
    BY <1>5, <2>1, <2>2, ReturnKeeps
<1>12. CacheInv'
  <2> SUFFICES ASSUME NEW k \in DOMAIN cache, NEW x, x = admin_cmd_cache_'[k] PROVE goodEntry(x)'
    BY <1>11 DEF CacheInv
  <2>1. PICK y : y = cache[k]
    OBVIOUS
  <2>2. likeEntry(x, y) /\ goodEntry(y)'
    BY <1>10, <1>11, <2>1
  <2> QED
    BY <2>2, LikeGood
<1>13. ClockInv' /\ QueryInv' /\ FetchInv'
  BY <1>5, <1>6 DEF AdminInv, ClockInv, QueryInv, FetchInv
<1>14. LimitInv'
  <2>1. num_fetches_ \in Nat
        /\ (num_fetches_ <= MAX_FETCHES \/ (num_fetches_ = MAX_FETCHES + 1 /\ ctx.used = {}))
    BY <1>5 DEF AdminInv, LimitInv
  <2> QED
    BY <1>5, <1>9, <1>11, <2>1, AdminAssumption DEF LimitInv
<1>15. ResultInv'
  BY <1>5, <1>8, <1>11 DEF ResultInv, FailuresAreReported, AnswerIsFresh, goodEntry, reported
<1> QED
  BY <1>12, <1>13, <1>14, <1>15 DEF AdminInv

-----------------------------------------------------------------------------
\* Every step of a query, of a server or of the clock keeps the invariant.
LEMMA NextAdmin == AdminInv /\ [Next]_vars => AdminInv'
<1> SUFFICES ASSUME AdminInv, [Next]_vars PROVE AdminInv'
  OBVIOUS
<1>1. CASE UNCHANGED vars
  <2>1. UNCHANGED <<servers, time, admin_cmd_cache_, cache_ttl_, enable_server_side_filtering_,
                    num_fetches_, failures, ctx, sent, query, result>>
    BY <1>1 DEF vars, table
  <2>2. ClockInv' /\ QueryInv' /\ FetchInv'
    BY <2>1 DEF AdminInv, ClockInv, QueryInv, FetchInv
  <2> QED
    BY <2>1, <2>2, QuietStep
<1>2. CASE beginQuery
  BY <1>2, BeginQueryStep
<1>3. CASE \/ endQuery \/ getNodesConfigurationFails \/ elapse
           \/ \E constraints \in Constraints : getDataThrows(constraints)
           \/ \E ttl \in TTLs : setCacheTTL(ttl)
           \/ \E val \in BOOLEAN : enableServerSideFiltering(val)
  BY <1>3, OutsideStep
<1>4. CASE \E constraints \in Constraints : getData(constraints)
  BY <1>4, GetDataStep
<1>5. CASE \E nid \in Nodes : sendAdminCommand(nid)
  BY <1>5, SendStep
<1>6. CASE transformDataTerminates
  BY <1>6, TerminateStep
<1>7. CASE refillCache
  BY <1>7, RefillStep
<1> QED
  BY <1>1, <1>2, <1>3, <1>4, <1>5, <1>6, <1>7 DEF Next

\* The inductive invariant of the table and its cache (AdminCommandTable).
THEOREM AdminInvariance == Spec => []AdminInv
<1> QED
  BY InitAdmin, NextAdmin, PTL DEF Spec

\* The cached tables are rectangular, whatever columns the servers' answers had
\* (AdminCommandTable::aggregate).
THEOREM TablesAreRectangular == Spec => []TypeOK
<1>1. AdminInv => TypeOK
  BY DEF AdminInv, ClockInv, CacheInv, goodEntry, rectangular, TypeOK
<1> QED
  BY <1>1, AdminInvariance, PTL

\* What is missing from data fetched during a query is among the failures it reports,
\* also when a later call of the query is answered from the cache (refillCache).
THEOREM NoSilentFailure == Spec => []FailuresAreReported
<1>1. AdminInv => FailuresAreReported
  BY DEF AdminInv, ResultInv
<1> QED
  BY <1>1, AdminInvariance, PTL

\* A query gets nothing that was older than the time to live when it began (newQuery).
THEOREM NothingStale == Spec => []AnswerIsFresh
<1>1. AdminInv => AnswerIsFresh
  BY DEF AdminInv, ResultInv
<1> QED
  BY <1>1, AdminInvariance, PTL

\* Past the limit a query fetches everything, at most once, however many calls of getData
\* it makes and with whatever constraints (allowServerSideFiltering, refillCache).
THEOREM FetchesEnd == Spec => []EverythingIsFetchedOnce
<1>1. AdminInv => EverythingIsFetchedOnce
  BY AdminAssumption DEF AdminInv, LimitInv, EverythingIsFetchedOnce
<1> QED
  BY <1>1, AdminInvariance, PTL
=============================================================================
