----------------------------- MODULE AdminQuery -----------------------------
(***************************************************************************)
(* One virtual table of the admin SQL console (AdminCommandTable) while    *)
(* queries run against a cluster: which nodes a query asks, the answers    *)
(* that come in any order or not at all, the cache of merged answers with  *)
(* its time to live, the limit on filtered fetches, and what SQLite gets.  *)
(***************************************************************************)
EXTENDS AdminTable

CONSTANTS
  Nodes,        \* ids of the servers
  Replies,      \* the tables that a server may answer with
  Constraints,  \* the constraints of one getData call: a set of sets
  TTLs,         \* values for the time to live
  MAX_FETCHES,  \* filtered fetches of a query before everything is fetched
  MaxTime,      \* bound on the clock
  MaxQueries,   \* bound on queries
  MaxCalls      \* bound on the getData calls of a query

ASSUME AdminAssumption ==
  /\ num_threads \in Nat \ {0} /\ MAX_FETCHES \in Nat /\ Nodes \subseteq Nat
  /\ TTLs \subseteq Nat /\ MaxTime \in Nat

VARIABLES
  servers,    \* environment: what each member of the cluster answers
  time,       \* environment: steady_clock
  admin_cmd_cache_, cache_ttl_, enable_server_side_filtering_, num_fetches_,
  failures,   \* activeQueryMetadata.failures: nodes that did not answer
  console,    \* the process: "up", "terminated" by a check or "uncaught" exception
  ctx,        \* the getData call that is being served
  sent,       \* the fetch in flight
  query,      \* history: the query's number, start, time to live, calls
  result      \* history: what the last getData call returned

table == <<admin_cmd_cache_, cache_ttl_, enable_server_side_filtering_, num_fetches_>>
vars == <<servers, time, table, failures, console, ctx, sent, query, result>>

none == [phase |-> "none"]
Failed == [type |-> "failed"]  \* the call ends with an error status
Error == [type |-> "error"]    \* the answer says that the command failed (errorResponse)

\* What a server may answer with is neither of the two.
ASSUME RepliesAssumption == \A r \in Replies : r.type = "table"

Init ==
  /\ servers \in [Nodes -> Replies]
  /\ time = 0
  /\ admin_cmd_cache_ = <<>>
  /\ cache_ttl_ \in TTLs
  /\ enable_server_side_filtering_ = TRUE
  /\ num_fetches_ = 0
  /\ failures = {}
  /\ console = "up"
  /\ ctx = none
  /\ sent = none
  /\ query = [id |-> 0, start |-> 0, ttl |-> 0, calls |-> 0, running |-> FALSE]
  /\ result = none

-----------------------------------------------------------------------------
(* Between queries.                                                         *)

isValid(entry, ttl) == time - entry.at <= ttl

\* Mutant: the cache is never cleared.
newQuery_KeepsAll ==
  /\ admin_cmd_cache_' = admin_cmd_cache_
  /\ num_fetches_' = 0

newQuery ==
  /\ admin_cmd_cache_' = Restrict(admin_cmd_cache_,
       {key \in DOMAIN admin_cmd_cache_ : isValid(admin_cmd_cache_[key], cache_ttl_)})
  /\ num_fetches_' = 0

\* QueryBase::query resets the metadata, then tells every table.
beginQuery ==
  /\ console = "up" /\ ~query.running /\ query.id < MaxQueries
  /\ newQuery
  /\ failures' = {}
  /\ query' = [id |-> query.id + 1, start |-> time, ttl |-> cache_ttl_, calls |-> 0, running |-> TRUE]
  /\ result' = none
  /\ UNCHANGED <<servers, time, cache_ttl_, enable_server_side_filtering_, console, ctx, sent>>

endQuery ==
  /\ query.running /\ ctx = none
  /\ query' = [query EXCEPT !.running = FALSE]
  /\ result' = none
  /\ UNCHANGED <<servers, time, table, failures, console, ctx, sent>>

setCacheTTL(ttl) ==
  /\ console = "up" /\ ~query.running
  /\ cache_ttl_' = ttl
  /\ UNCHANGED <<servers, time, admin_cmd_cache_, enable_server_side_filtering_, num_fetches_,
                 failures, console, ctx, sent, query, result>>

enableServerSideFiltering(val) ==
  /\ console = "up" /\ ~query.running
  /\ enable_server_side_filtering_' = val
  /\ UNCHANGED <<servers, time, admin_cmd_cache_, cache_ttl_, num_fetches_,
                 failures, console, ctx, sent, query, result>>

-----------------------------------------------------------------------------
(* getData.                                                                 *)

\* Mutant: without the limit.
allowServerSideFiltering_Always == enable_server_side_filtering_

allowServerSideFiltering == enable_server_side_filtering_ /\ num_fetches_ <= MAX_FETCHES

\* The constraints of the call on node_id that the servers are chosen by.  They
\* are noted while the nodes are looked at: without nodes there are none.
usedConstraints(nodes, constraints) ==
  {c \in constraints :
     /\ allowServerSideFiltering
     /\ c.col = node_id
     /\ \E nid \in nodes : nodeMatchesConstraint(nid, c) # "UNUSED"}

selectNodes(nodes, used) ==
  {nid \in nodes : \A c \in used : nodeMatchesConstraint(nid, c) # "NO_MATCH"}

findIndexableConstraint(constraints) == {c \in constraints : c.op = "EQ"}

\* A constraint that a node is matched with has an expression that is no integer.
matchThrows(constraints) ==
  /\ allowServerSideFiltering /\ DOMAIN servers # {}
  /\ \E c \in constraints : c.col = node_id /\ toIntThrows(c)

\* What getData returns from an entry of the cache, the index it may add to the
\* entry included.  The order of the columns is that of a hash map: any equality
\* may be found first.
served(entry, constraints) ==
  LET found == findIndexableConstraint(constraints)
      indexed(c) ==
        IF c.col \in DOMAIN entry.indices THEN entry.indices
        ELSE with(entry.indices, c.col, buildIndexForConstraint(entry.data, c.col))
  IN IF found = {} THEN {[rows |-> entry.data, indices |-> entry.indices]}
     ELSE {IF c.expr = Null THEN [rows |-> entry.data, indices |-> entry.indices]
           ELSE [rows |-> lookup(entry.data, indexed(c)[c.col], c.expr), indices |-> indexed(c)] :
             c \in found}

\* The entry of the cache answers the call.
return(cache, key, constraints) ==
  \E s \in served(cache[key], constraints) :
    /\ admin_cmd_cache_' = [cache EXCEPT ![key].indices = s.indices]
    /\ result' = [phase |-> "returned", rows |-> s.rows, constraints |-> constraints,
                  at |-> cache[key].at, by |-> cache[key].by, truth |-> cache[key].truth]

\* getData up to the send of refillCache, or to its end when the data is cached.
getData(constraints) ==
  LET used == usedConstraints(DOMAIN servers, constraints) IN
  /\ query.running /\ query.calls < MaxCalls /\ ctx = none
  /\ ~matchThrows(constraints)
  /\ query' = [query EXCEPT !.calls = @ + 1]
  /\ IF used \in DOMAIN admin_cmd_cache_
     THEN /\ return(admin_cmd_cache_, used, constraints)
          /\ UNCHANGED <<ctx, sent>>
     ELSE /\ ctx' = [phase |-> "fetch", constraints |-> constraints, used |-> used]
          /\ sent' = [phase |-> "sent", answers |-> <<>>, snapshot |-> servers,
                      to |-> SetToSortSeq(selectNodes(DOMAIN servers, used), <)]
          /\ result' = none
          /\ UNCHANGED admin_cmd_cache_
  /\ UNCHANGED <<servers, time, cache_ttl_, enable_server_side_filtering_, num_fetches_, failures,
                 console>>

\* folly::ConversionError is none of the exceptions that run_query catches.
getDataThrows(constraints) ==
  /\ query.running /\ query.calls < MaxCalls /\ ctx = none
  /\ matchThrows(constraints)
  /\ console' = "uncaught"
  /\ query' = [query EXCEPT !.running = FALSE]
  /\ result' = none
  /\ UNCHANGED <<servers, time, table, failures, ctx, sent>>

\* GetNodesConfiguration fails: hs_check throws and run_query reports it.
getNodesConfigurationFails ==
  /\ query.running /\ ctx = none
  /\ query' = [query EXCEPT !.running = FALSE]
  /\ result' = none
  /\ UNCHANGED <<servers, time, table, failures, console, ctx, sent>>

\* A request of send ends: with the server's table, or an error, or a text that is
\* no table.
sendAdminCommand(nid) ==
  /\ ctx # none
  /\ nid \in Range(sent.to) \ DOMAIN sent.answers
  /\ \E a \in {Failed, Error, Garbled} \cup {servers[n] : n \in {nid} \cap DOMAIN servers} :
       sent' = [sent EXCEPT !.answers = with(@, nid, a)]
  /\ UNCHANGED <<servers, time, table, failures, console, ctx, query, result>>

-----------------------------------------------------------------------------
(* The rest of refillCache and getData, when all requests have ended.       *)

allAnswered == ctx # none /\ DOMAIN sent.answers = Range(sent.to)

\* A check of jsonToTableData: the answer says it is a table.  It throws in a
\* thread of transformDataParallel that has no handler: std::terminate.
typeCheckFails(answer) == answer = Error

transformDataTerminates ==
  /\ allAnswered
  /\ \E nid \in DOMAIN sent.answers : typeCheckFails(sent.answers[nid])
  /\ console' = "terminated"
  /\ query' = [query EXCEPT !.running = FALSE]
  /\ ctx' = none
  /\ sent' = none
  /\ UNCHANGED <<servers, time, table, failures, result>>

\* The tables that the threads made of the answers, in the order of the requests.
transformDataParallel(to, answers) ==
  [i \in DOMAIN to |->
     IF i \in parsed(Len(to)) /\ wellFormed(answers[to[i]])
     THEN jsonToTableData(answers[to[i]]) ELSE <<>>]

\* Column node_id, for the answers that have columns.
withNodeId(to, results) ==
  [i \in DOMAIN to |->
     IF DOMAIN results[i] = {} THEN results[i]
     ELSE with(results[i], node_id, [j \in 1..numRows(results[i]) |-> to[i]])]

\* Mutant: only calls that failed are reported, not answers that are no table.
failedIn_Calls(answers) == {nid \in DOMAIN answers : answers[nid] = Failed}

failedIn(answers) == {nid \in DOMAIN answers : ~wellFormed(answers[nid])}

newEntry(data, truth) ==
  [data |-> data, indices |-> <<>>, at |-> time, by |-> query.id, truth |-> truth]

\* What the servers answered, and those would have answered that were not asked.
truthOf(s) ==
  [nid \in DOMAIN s.answers \cup DOMAIN s.snapshot |->
     IF nid \notin DOMAIN s.answers THEN s.snapshot[nid]
     ELSE IF wellFormed(s.answers[nid]) THEN s.answers[nid] ELSE Failed]

refillCache ==
  LET results == withNodeId(sent.to, transformDataParallel(sent.to, sent.answers)) IN
  /\ allAnswered
  /\ \A nid \in DOMAIN sent.answers : ~typeCheckFails(sent.answers[nid])
  /\ failures' = failures \cup failedIn(sent.answers)
  /\ num_fetches_' = num_fetches_ + 1
  /\ return(with(admin_cmd_cache_, ctx.used, newEntry(aggregate(results), truthOf(sent))),
            ctx.used, ctx.constraints)
  /\ ctx' = none
  /\ sent' = none
  /\ UNCHANGED <<servers, time, cache_ttl_, enable_server_side_filtering_, console, query>>

-----------------------------------------------------------------------------
(* The cluster.                                                             *)

\* Time passes, and meanwhile one server may change its rows, leave or join.
elapse ==
  /\ console = "up"
  /\ time < MaxTime
  /\ time' = time + 1
  /\ \/ servers' = servers
     \/ \E nid \in Nodes, r \in Replies : servers' = with(servers, nid, r)
     \/ \E nid \in DOMAIN servers : servers' = Restrict(servers, DOMAIN servers \ {nid})
  /\ UNCHANGED <<table, failures, console, ctx, sent, query, result>>

Next ==
  \/ beginQuery
  \/ endQuery
  \/ \E ttl \in TTLs : setCacheTTL(ttl)
  \/ \E val \in BOOLEAN : enableServerSideFiltering(val)
  \/ \E constraints \in Constraints : getData(constraints) \/ getDataThrows(constraints)
  \/ getNodesConfigurationFails
  \/ \E nid \in Nodes : sendAdminCommand(nid)
  \/ transformDataTerminates
  \/ refillCache
  \/ elapse

Spec == Init /\ [][Next]_vars

-----------------------------------------------------------------------------
(* Properties.                                                              *)

\* The cached tables are rectangular: every column of a merged table has as many
\* values as it has rows, whatever columns the servers' answers had, so that a
\* position found by an index on one column exists in the others
\* (AdminCommandTable::aggregate, getData).
TypeOK ==
  /\ time \in 0..MaxTime /\ cache_ttl_ \in TTLs /\ enable_server_side_filtering_ \in BOOLEAN
  /\ failures \subseteq Nodes
  /\ \A key \in DOMAIN admin_cmd_cache_ :
       LET data == admin_cmd_cache_[key].data IN
       \A c, d \in DOMAIN data : DOMAIN data[c] = DOMAIN data[d]

\* The rows of all servers that answered with a table, one server after the other.
allRows(truth) ==
  LET to == SetToSortSeq({nid \in DOMAIN truth : wellFormed(truth[nid])}, <)
      row(nid, r) ==
        [c \in Columns |->
           IF c = node_id THEN nid
           ELSE IF c \notin Range(truth[nid].headers) THEN Null
           ELSE r[CHOOSE p \in DOMAIN r : truth[nid].headers[p] = c]]
  IN FlattenSeq([i \in DOMAIN to |->
       [j \in DOMAIN truth[to[i]].rows |-> row(to[i], truth[to[i]].rows[j])]])

\* A query sees exactly the rows it asked for.  Whatever getData leaves out (servers
\* that it did not ask, rows that the index did not have, data that it took from
\* the cache of another call), the rows that satisfy all constraints of the call are
\* those that the servers which answered had, each as often and in the same order.
NoRowLost ==
  result.phase = "returned" =>
    LET wanted(row) == satisfies(row, result.constraints) IN
    SelectSeq(rowsOf(result.rows), wanted) = SelectSeq(allRows(result.truth), wanted)

\* A server whose rows are missing from data that was fetched during the query is
\* among the failures that the query reports (activeQueryMetadata.failures).
FailuresAreReported ==
  (result.phase = "returned" /\ result.by = query.id) =>
    \A nid \in DOMAIN result.truth : result.truth[nid] = Failed => nid \in failures

\* The data a query gets was fetched at most the time to live before the query
\* began, the time to live being the one that was set by then (newQuery).
AnswerIsFresh ==
  result.phase = "returned" => result.at >= query.start - query.ttl

\* A query that has run more admin commands than the limit allows asks the servers
\* for everything, once: from then on all its calls are answered from the cache,
\* whatever they ask for (allowServerSideFiltering, refillCache).
EverythingIsFetchedOnce ==
  /\ (ctx # none /\ num_fetches_ > MAX_FETCHES) => ctx.used = {}
  /\ num_fetches_ > MAX_FETCHES + 1 => ctx = none /\ {} \in DOMAIN admin_cmd_cache_

\* "if we've done 5+ admin commands within the same query, give up on trying to use
\* server-side filtering and fetch everything" (AdminCommandTable.h): no call chooses
\* servers once the query has run MAX_FETCHES commands.
GivesUpFiltering == (ctx # none /\ num_fetches_ >= MAX_FETCHES) => ctx.used = {}

\* "Changes how long data should be keept in cache. Causes the cache to be cleared."
\* (AdminCommandTable.h): no entry outlives a call of setCacheTTL that changes it.
TTLClearsCache == [][cache_ttl_' # cache_ttl_ => DOMAIN admin_cmd_cache_' = {}]_vars

\* "Terminate cpp runtime, should be catched by haskell" (checks.h): a check that
\* fails while the answers are parsed ends the query with an error, not the process.
ChecksAreCaught == console # "terminated"
=============================================================================
