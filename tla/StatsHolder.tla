---------------------------- MODULE StatsHolder ----------------------------
(***************************************************************************)
(* The statistics of a server (common/stats/cbits): every OS thread keeps  *)
(* its own Stats and updates them without a common lock; an accessor walks *)
(* over the Stats of all threads, and those of the threads that are gone,  *)
(* to sum them up, to read rates, to erase a key or to reset everything.   *)
(*                                                                         *)
(* Stats holds one map per kind of object (streams, subscriptions, views,  *)
(* ...).  They are handled by the same code and no two of them are used    *)
(* together, so one map stands for each of them.  The entry of a key has a *)
(* counter that is added to, a gauge that is set and a time series; the    *)
(* rate of a series over an interval longer than the run is the number of  *)
(* values added.                                                           *)
(*                                                                         *)
(* folly::ThreadLocalPtr is modelled from the comment in Stats.h: a mutex  *)
(* is held by accessAllThreads() as long as the accessor lives, by a       *)
(* thread that joins the list, and (AccessModeStrict) by a thread that     *)
(* exits until the destructor of its Stats has returned.                   *)
(***************************************************************************)
EXTENDS Integers

CONSTANTS
  Threads, \* OS threads; one that exited may stand for a new one
  Keys,    \* names of streams, subscriptions, ...
  Dead,    \* the place of dead_stats_
  Absent,  \* no entry
  Nobody,
  Gauges,  \* values a gauge is set to
  MaxOps   \* bound: updates made by all threads

ASSUME PlacesAssumption == Dead \notin Threads /\ Nobody \notin Threads \cup {Dead}
ASSUME AbsentAssumption == Absent \notin [counter : Nat, gauge : Nat, series : Nat]
ASSUME GaugesAssumption == Gauges \subseteq Nat

Places == Threads \cup {Dead}

\* PerStreamStats, PerSubscriptionStats, ...; series 0 is a series not made yet.
Entry == [counter : Nat, gauge : Nat, series : Nat]
newEntry == [counter |-> 0, gauge |-> 0, series |-> 0]

StatsMap == [Keys -> Entry \cup {Absent}]
noStats == [k \in Keys |-> Absent]

VARIABLES
  holder,     \* "alive", "dying" (in its destructor) or "gone"
  registered, \* threads with a StatsWrapper in thread_stats_
  owner,      \* threads whose StatsWrapper knows the holder
  stats,      \* the map of each place
  histogram,  \* samples in the histograms of each place
  op,         \* the update a thread is in
  accessor,   \* the walk over all threads that holds the mutex
  \* history
  added,      \* additions to the counter of a key that no erase or reset removed
  sampled,    \* samples that no reset removed
  erased,     \* keys with no update since an erase or reset of them began
  ops

statsVars == <<stats, histogram>>
history == <<added, sampled, erased>>
vars == <<holder, registered, owner, statsVars, op, accessor, history, ops>>

idle == [kind |-> "none", key |-> Nobody, found |-> FALSE]
noAccess == [kind |-> "none", key |-> Nobody, pending |-> {}, at |-> Nobody, todo |-> {},
             result |-> noStats, samples |-> 0, before |-> [k \in Keys |-> 0],
             sampledBefore |-> 0]

Init ==
  /\ holder = "alive"
  /\ registered = {} /\ owner = {}
  /\ stats = [p \in Places |-> noStats]
  /\ histogram = [p \in Places |-> 0]
  /\ op = [t \in Threads |-> idle]
  /\ accessor = noAccess
  /\ added = [k \in Keys |-> 0]
  /\ sampled = 0
  /\ erased = {}
  /\ ops = 0

-----------------------------------------------------------------------------
(* Updates: the calling thread works on its own Stats.                      *)

\* StatsHolder::get(): the first call of a thread adds it to the list.
get(t) ==
  /\ holder = "alive"
  /\ op[t] = idle
  /\ IF t \in registered
     THEN UNCHANGED <<registered, owner>>
     ELSE /\ accessor = noAccess
          /\ registered' = registered \cup {t}
          /\ owner' = owner \cup {t}

\* PER_X_STAT_ADD, PER_X_STAT_SET, PER_X_TIME_SERIES_ADD: get(), take the
\* upgrade lock of the map and look the key up.  The lock is held until the
\* update is done; it lets readers in and keeps writers out.
find(t, kind, k) ==
  /\ get(t)
  /\ ops < MaxOps
  /\ ops' = ops + 1
  /\ op' = [op EXCEPT ![t] = [kind |-> kind, key |-> k, found |-> stats[t][k] # Absent]]
  /\ UNCHANGED <<holder, statsVars, accessor, history>>

\* The entry of the key: the one that was found, or a new one for which the lock
\* is upgraded to a write lock.
entryOf(t) == IF op[t].found THEN stats[t][op[t].key] ELSE newEntry

\* Every update ends here: the entry is stored and the lock released.
store(t, kind, entry) ==
  /\ op[t].kind = kind
  /\ stats' = [stats EXCEPT ![t][op[t].key] = entry]
  /\ erased' = erased \ {op[t].key}
  /\ op' = [op EXCEPT ![t] = idle]
  /\ UNCHANGED <<holder, registered, owner, histogram, accessor, sampled, ops>>

PER_X_STAT_ADD(t) ==
  /\ store(t, "add", [entryOf(t) EXCEPT !.counter = @ + 1])
  /\ added' = [added EXCEPT ![op[t].key] = @ + 1]

PER_X_STAT_SET(t, v) ==
  /\ store(t, "set", [entryOf(t) EXCEPT !.gauge = v])
  /\ UNCHANGED added

\* The mutex of the entry is taken in addition; a reader of rates holds it while
\* it reads one entry, which is one action below.
PER_X_TIME_SERIES_ADD(t) ==
  /\ store(t, "series", [entryOf(t) EXCEPT !.series = @ + 1])
  /\ UNCHANGED added

\* The histograms have no key to create and locks of their own.
server_histogram_add(t) ==
  /\ get(t)
  /\ ops < MaxOps
  /\ ops' = ops + 1
  /\ histogram' = [histogram EXCEPT ![t] = @ + 1]
  /\ sampled' = sampled + 1
  /\ UNCHANGED <<holder, stats, op, accessor, added, erased>>

-----------------------------------------------------------------------------
(* Aggregation.                                                             *)

aggregateStat(agg, out, in) ==
  CASE agg = "SUM" -> out + in
    [] agg = "MAX" -> IF in > out THEN in ELSE out
    [] agg = "SUBTRACT" -> out - in
    [] agg = "ASSIGN" -> in

\* PerStreamStats::aggregate and the like: the counters, all of which are
\* defined with SUM; time series are not aggregated.
aggregateEntry(out, in) ==
  [out EXCEPT !.counter = aggregateStat("SUM", @, in.counter),
              !.gauge = aggregateStat("SUM", @, in.gauge)]

\* One key of aggregateCompoundStats.
aggregateKey(out, in) ==
  IF in = Absent THEN out ELSE aggregateEntry(IF out = Absent THEN newEntry ELSE out, in)

\* Mutant: the counters of a thread that exits replace those of earlier ones.
StatsWrapper_destructor_Assigns(t) ==
  IF t \in owner
  THEN /\ stats' = [stats EXCEPT ![Dead] = [k \in Keys |-> IF stats[t][k] = Absent THEN stats[Dead][k] ELSE stats[t][k]],
                                 ![t] = noStats]
       /\ histogram' = [histogram EXCEPT ![Dead] = @ + histogram[t], ![t] = 0]
  ELSE /\ stats' = [stats EXCEPT ![t] = noStats]
       /\ histogram' = [histogram EXCEPT ![t] = 0]

\* ~StatsWrapper: aggregateForDestroyedThread into dead_stats_ of the owner.
StatsWrapper_destructor(t) ==
  IF t \in owner
  THEN /\ stats' = [stats EXCEPT ![Dead] = [k \in Keys |-> aggregateKey(stats[Dead][k], stats[t][k])],
                                 ![t] = noStats]
       /\ histogram' = [histogram EXCEPT ![Dead] = @ + histogram[t], ![t] = 0]
  ELSE /\ stats' = [stats EXCEPT ![t] = noStats]
       /\ histogram' = [histogram EXCEPT ![t] = 0]

\* Mutant: the mutex is not held while the destructor runs (AccessModeStrict
\* left out), so that an accessor may be in the middle of its walk.
exit_NotStrict(t) ==
  /\ t \in registered
  /\ op[t] = idle
  /\ StatsWrapper_destructor(t)
  /\ registered' = registered \ {t}
  /\ owner' = owner \ {t}
  /\ UNCHANGED <<holder, op, accessor, history, ops>>

\* A thread exits.
exit(t) ==
  /\ t \in registered
  /\ op[t] = idle
  /\ accessor = noAccess
  /\ StatsWrapper_destructor(t)
  /\ registered' = registered \ {t}
  /\ owner' = owner \ {t}
  /\ UNCHANGED <<holder, op, accessor, history, ops>>

-----------------------------------------------------------------------------
(* Walks over all threads.                                                  *)

\* accessAllThreads(), for one of
\*   aggregate  new_aggregate_stats, perXStatsGetall and the percentiles
\*   rates      perXTimeSeriesGetall, and perXTimeSeriesGet for one key
\*   erase      perXStatsErase of a key
\*   reset      StatsHolder::reset
accessAllThreads(kind, k) ==
  /\ holder = "alive"
  /\ accessor = noAccess
  /\ accessor' = [noAccess EXCEPT !.kind = kind, !.key = k, !.pending = registered \cup {Dead},
                                  !.before = added, !.sampledBefore = sampled]
  /\ erased' = erased \cup {x \in Keys : kind = "reset" \/ (kind = "erase" /\ x = k)}
  /\ UNCHANGED <<holder, registered, owner, statsVars, op, added, sampled, ops>>

\* dead_stats_ comes first, then the threads of the list.
nextPlace(p) ==
  /\ accessor.at = Nobody
  /\ p \in accessor.pending
  /\ Dead \in accessor.pending => p = Dead

\* synchronizedCopy: the entries of the map, copied under its read lock; an
\* update that is still looking for its key adds a new entry only later.
synchronizedCopy(p) ==
  /\ accessor.kind \in {"aggregate", "rates"}
  /\ nextPlace(p)
  /\ accessor' = [accessor EXCEPT !.at = p, !.todo = {k \in Keys : stats[p][k] # Absent}]
  /\ UNCHANGED <<holder, registered, owner, statsVars, op, history, ops>>

\* The counters of an entry are read without a lock on the map.
aggregateCompoundStats(k) ==
  /\ accessor.kind = "aggregate"
  /\ k \in accessor.todo
  /\ accessor' = [accessor EXCEPT !.todo = @ \ {k},
                                  !.result[k] = aggregateKey(@, stats[accessor.at][k])]
  /\ UNCHANGED <<holder, registered, owner, statsVars, op, history, ops>>

\* After the maps of a place its histograms.
aggregateHistogram ==
  /\ accessor.kind = "aggregate"
  /\ accessor.at # Nobody /\ accessor.todo = {}
  /\ accessor' = [accessor EXCEPT !.samples = @ + histogram[accessor.at],
                                  !.pending = @ \ {accessor.at}, !.at = Nobody]
  /\ UNCHANGED <<holder, registered, owner, statsVars, op, history, ops>>

\* An entry without a series is skipped, and so are other keys when one is asked for.
perXTimeSeriesGetall(k) ==
  /\ accessor.kind = "rates"
  /\ k \in accessor.todo
  /\ LET series == stats[accessor.at][k].series
         wanted == series # 0 /\ accessor.key \in {Nobody, k}
         out == IF accessor.result[k] = Absent THEN newEntry ELSE accessor.result[k]
     IN accessor' = [accessor EXCEPT
          !.todo = @ \ {k},
          !.result[k] = IF wanted THEN [out EXCEPT !.series = @ + series] ELSE @]
  /\ UNCHANGED <<holder, registered, owner, statsVars, op, history, ops>>

\* The loop of runForEach goes on.
runForEach ==
  /\ accessor.kind = "rates"
  /\ accessor.at # Nobody /\ accessor.todo = {}
  /\ accessor' = [accessor EXCEPT !.pending = @ \ {accessor.at}, !.at = Nobody]
  /\ UNCHANGED <<holder, registered, owner, statsVars, op, history, ops>>

\* The write lock waits for the update of the thread.
wlock(p) == p \in Threads => op[p] = idle

counterOf(p, k) == IF stats[p][k] = Absent THEN 0 ELSE stats[p][k].counter

perXStatsErase(p) ==
  /\ accessor.kind = "erase"
  /\ nextPlace(p)
  /\ wlock(p)
  /\ stats' = [stats EXCEPT ![p][accessor.key] = Absent]
  /\ added' = [added EXCEPT ![accessor.key] = @ - counterOf(p, accessor.key)]
  /\ accessor' = [accessor EXCEPT !.pending = @ \ {p}]
  /\ UNCHANGED <<holder, registered, owner, histogram, op, sampled, erased, ops>>

\* Stats::reset of one place.
reset(p) ==
  /\ accessor.kind = "reset"
  /\ nextPlace(p)
  /\ wlock(p)
  /\ stats' = [stats EXCEPT ![p] = noStats]
  /\ histogram' = [histogram EXCEPT ![p] = 0]
  /\ added' = [k \in Keys |-> added[k] - counterOf(p, k)]
  /\ sampled' = sampled - histogram[p]
  /\ accessor' = [accessor EXCEPT !.pending = @ \ {p}]
  /\ UNCHANGED <<holder, registered, owner, op, erased, ops>>

\* The call returns and the mutex is released.
release ==
  /\ accessor.kind \in {"aggregate", "rates", "erase", "reset"}
  /\ accessor.pending = {}
  /\ accessor' = noAccess
  /\ UNCHANGED <<holder, registered, owner, statsVars, op, history, ops>>

-----------------------------------------------------------------------------
(* ~StatsHolder, run by a finalizer when nobody can call the holder any     *)
(* more.  Threads that used it may still be running, or exit any time.      *)

destroy ==
  /\ holder = "alive"
  /\ accessor = noAccess
  /\ \A t \in Threads : op[t] = idle
  /\ holder' = "dying"
  /\ accessor' = [noAccess EXCEPT !.kind = "destroy", !.pending = registered]
  /\ UNCHANGED <<registered, owner, statsVars, op, history, ops>>

\* Mutant: a wrapper keeps its owner.
unsetOwner_Keeps(t) ==
  /\ accessor.kind = "destroy"
  /\ t \in accessor.pending
  /\ owner' = owner
  /\ accessor' = [accessor EXCEPT !.pending = @ \ {t}]
  /\ UNCHANGED <<holder, registered, statsVars, op, history, ops>>

unsetOwner(t) ==
  /\ accessor.kind = "destroy"
  /\ t \in accessor.pending
  /\ owner' = owner \ {t}
  /\ accessor' = [accessor EXCEPT !.pending = @ \ {t}]
  /\ UNCHANGED <<holder, registered, statsVars, op, history, ops>>

\* The mutex is released, and threads may exit before the members are destroyed ...
unlockDying ==
  /\ accessor.kind = "destroy"
  /\ accessor.pending = {}
  /\ accessor' = noAccess
  /\ UNCHANGED <<holder, registered, owner, statsVars, op, history, ops>>

\* ... which takes the wrappers of the other threads with them.
free ==
  /\ holder = "dying"
  /\ accessor = noAccess
  /\ holder' = "gone"
  /\ registered' = {}
  /\ stats' = [p \in Places |-> noStats]
  /\ histogram' = [p \in Places |-> 0]
  /\ UNCHANGED <<owner, op, accessor, history, ops>>

\* Nothing is left to do.
gone == holder = "gone" /\ UNCHANGED vars

-----------------------------------------------------------------------------

update(t) ==
  \/ \E kind \in {"add", "set", "series"}, k \in Keys : find(t, kind, k)
  \/ PER_X_STAT_ADD(t)
  \/ \E v \in Gauges : PER_X_STAT_SET(t, v)
  \/ PER_X_TIME_SERIES_ADD(t)
  \/ server_histogram_add(t)
  \/ exit(t)

access ==
  \/ \E kind \in {"aggregate", "rates", "reset"} : accessAllThreads(kind, Nobody)
  \/ \E kind \in {"rates", "erase"}, k \in Keys : accessAllThreads(kind, k)
  \/ \E p \in Places : synchronizedCopy(p)
  \/ \E k \in Keys : aggregateCompoundStats(k)
  \/ aggregateHistogram
  \/ \E k \in Keys : perXTimeSeriesGetall(k)
  \/ runForEach
  \/ \E p \in Places : perXStatsErase(p)
  \/ \E p \in Places : reset(p)
  \/ release

destruction ==
  \/ destroy
  \/ \E t \in Threads : unsetOwner(t)
  \/ unlockDying
  \/ free
  \/ gone

Next ==
  \/ \E t \in Threads : update(t)
  \/ access
  \/ destruction

Spec == Init /\ [][Next]_vars

-----------------------------------------------------------------------------
\* Types; the counters of an entry, of dead_stats_ and of an aggregate never become
\* negative, the value PER_X_STAT_GET keeps for "not found".
TypeOK ==
  /\ holder \in {"alive", "dying", "gone"}
  /\ registered \subseteq Threads
  /\ owner \subseteq Threads
  /\ stats \in [Places -> StatsMap]
  /\ histogram \in [Places -> Nat]
  /\ op \in [Threads -> [kind : {"none", "add", "set", "series"}, key : Keys \cup {Nobody},
                         found : BOOLEAN]]
  /\ accessor \in [kind : {"none", "aggregate", "rates", "erase", "reset", "destroy"},
                   key : Keys \cup {Nobody}, pending : SUBSET Places,
                   at : Places \cup {Nobody}, todo : SUBSET Keys, result : StatsMap,
                   samples : Nat, before : [Keys -> Int], sampledBefore : Int]
  /\ added \in [Keys -> Int]
  /\ sampled \in Int
  /\ erased \subseteq Keys
  /\ ops \in Nat

aggregated(k) == IF accessor.result[k] = Absent THEN 0 ELSE accessor.result[k].counter

\* Stats.h: "in aggregate()'s view each thread's stats are accounted once:
\* either in dead_stats_ or in thread_stats_".  What a finished aggregation
\* reports is at least what had been added when it began and at most what has
\* been added when it ends, whatever threads join, exit and update meanwhile.
AccountedOnce ==
  accessor.kind = "aggregate" /\ accessor.pending = {} =>
    /\ \A k \in Keys : accessor.before[k] <= aggregated(k) /\ aggregated(k) <= added[k]
    /\ accessor.sampledBefore <= accessor.samples /\ accessor.samples <= sampled

\* An erase or a reset that has returned leaves no entry of the key behind, not
\* even one that a thread took with it into dead_stats_: an entry is there only
\* if the key was updated after the call began (perXStatsErase, Stats::reset).
ErasedKeyStaysGone ==
  accessor.kind \in {"erase", "reset"} \/
  \A k \in erased, p \in Places : stats[p][k] = Absent

\* ~StatsWrapper never touches a holder that is gone: no wrapper that is still
\* to be destroyed has an owner then (Stats.h, race condition 1).
OwnerOutlivesThreads == holder = "gone" => owner = {}
============================================================================
