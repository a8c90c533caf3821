----------------------------- MODULE BackupMode -----------------------------
(***************************************************************************)
(* Backup mode of a server: the health monitor (HealthMonitor.hs) switches *)
(* between the store and a local cache, appends go to the cache while the  *)
(* clusters are down, and a dump thread moves what was cached into the     *)
(* store afterwards (CacheStore.hs).  The monitor, the dump thread and the *)
(* request threads share five variables without a lock around them; each   *)
(* access is a step of its own.                                            *)
(***************************************************************************)
EXTENDS LdChecker

CONSTANTS Writers, Absent, MaxOutages, MaxWrites, MaxFaults

ASSUME BoundsAssumption == MaxOutages \in Nat /\ MaxWrites \in Nat /\ MaxFaults \in Nat

VARIABLES
  meta,         \* is the session with the metastore connected (ZooKeeper)
  serverState,  \* the mode appendStream reads
  monitor,      \* where docheck is, and what it has found
  store,        \* MVar (Maybe Store)
  enableWrite, dumpState, needResume, counter,
  dumper,       \* the dump thread
  clearing,     \* finalizers that have still to reset needResume
  writer,       \* the request threads in writeRecord
  acked,        \* history: the cached records that were acknowledged
  delivered,    \* records the dump appended to the store
  dropped,      \* records given up after three attempts
  late,         \* history: records put where no dump will look any more
  spoiled,      \* history: stores whose suspended dump was not taken up where it stopped,
                \* whose iterator failed, or that a restart left behind
  bounds        \* what is left of the named bounds

modeVars == <<serverState, monitor>>
cacheVars == <<store, enableWrite, dumpState, needResume, counter>>
dumpVars == <<dumper, clearing, delivered, dropped>>
writeVars == <<writer, acked, late>>
vars == <<checkerVars, meta, modeVars, cacheVars, dumpVars, writeVars, spoiled, bounds>>

Generations == 1..MaxOutages
lowest(S) == CHOOSE o \in S : \A p \in S : o <= p

\* A column family: when it was created, its keys and the next key to dump.
Store == [name: Generations, keys: SUBSET Nat, nextKeyToDump: Nat \union {Absent}]

ASSUME AbsentAssumption == Absent \notin Store /\ Absent \notin Nat

\* docheck, and the monitor's turn in the two mode changes.
Monitor ==
  [pc: {"sleep", "ld", "meta", "init", "cacheMode", "suspend", "flag", "backup",
        "normal", "dumpMode", "resume", "dump"},
   ldHealthy: BOOLEAN, resume: BOOLEAN]

maxTries == 3

\* The dump thread: the keys its iterator has still to visit, the attempts left, and
\* (history) whether this doDump stopped, or let an append go, since it was suspended.
Dumper ==
  [pc: {"none", "getStore", "loop", "wait", "open", "seek", "check", "append", "ended",
        "delete", "reset"},
   iter: SUBSET Nat, retries: 0..maxTries, broken: BOOLEAN]

idleMonitor == [pc |-> "sleep", ldHealthy |-> TRUE, resume |-> FALSE]
storeNames == IF store = Absent THEN {} ELSE {store.name}

idleDumper == [pc |-> "none", iter |-> {}, retries |-> 0, broken |-> FALSE]
idleWriter == [pc |-> "idle", name |-> Absent, offset |-> 0]

Init ==
  /\ CheckerInit
  /\ meta = TRUE
  /\ serverState = "ServerNormal"
  /\ monitor = idleMonitor
  /\ store = Absent
  /\ enableWrite = FALSE
  /\ dumpState = "NoDump"
  /\ needResume = FALSE
  /\ counter = 0
  /\ dumper = idleDumper
  /\ clearing = 0
  /\ writer = [w \in Writers |-> idleWriter]
  /\ acked = {} /\ delivered = {} /\ dropped = {} /\ late = {} /\ spoiled = {}
  /\ bounds = [outages |-> MaxOutages, writes |-> MaxWrites, faults |-> MaxFaults]

-----------------------------------------------------------------------------
(* The clusters, and the faults of the server's own RocksDB.                *)

fault == bounds.faults > 0 /\ bounds' = [bounds EXCEPT !.faults = @ - 1]

clusterChanges ==
  /\ \/ \E n \in Nodes : bounds.outages > 0 /\ nodeFails(n) /\ UNCHANGED meta
     \/ \E n \in Nodes : nodeRecovers(n) /\ UNCHANGED meta
     \/ bounds.outages > 0 /\ meta /\ meta' = FALSE /\ UNCHANGED checkerVars
     \/ ~meta /\ meta' = TRUE /\ UNCHANGED checkerVars
  /\ UNCHANGED <<modeVars, cacheVars, dumpVars, writeVars, spoiled, bounds>>

-----------------------------------------------------------------------------
(* startMonitor, docheck *)

at(pc) == monitor.pc = pc
goTo(pc) == monitor' = [monitor EXCEPT !.pc = pc]

\* isLdClusterHealthy begins.
checkLdCluster ==
  /\ at("sleep") /\ goTo("ld")
  /\ getClusterState
  /\ UNCHANGED <<meta, serverState, cacheVars, dumpVars, writeVars, spoiled, bounds>>

clusterStateArrives ==
  /\ \E n \in Nodes : addResult(n)
  /\ UNCHANGED <<meta, modeVars, cacheVars, dumpVars, writeVars, spoiled, bounds>>

\* The last callback has run: the verdict.
ldClusterChecked ==
  /\ at("ld") /\ posted_requests = {}
  /\ monitor' = [monitor EXCEPT !.pc = "meta", !.ldHealthy = check]
  /\ UNCHANGED <<checkerVars, meta, serverState, cacheVars, dumpVars, writeVars,
                 spoiled, bounds>>

\* checkMeta, and the branches of docheck.
docheck ==
  /\ at("meta")
  /\ LET toBackup == serverState = "ServerNormal" /\ ~monitor.ldHealthy /\ ~meta
         toNormal == serverState = "ServerBackup" /\ monitor.ldHealthy /\ meta IN
       /\ toBackup => bounds.outages > 0
       /\ monitor' = [pc |-> IF toBackup THEN "init" ELSE IF toNormal THEN "normal" ELSE "sleep",
                      ldHealthy |-> TRUE, resume |-> FALSE]
       /\ bounds' = [bounds EXCEPT !.outages = IF toBackup THEN @ - 1 ELSE @]
  /\ round' = noRound
  /\ UNCHANGED <<up, posted_requests, stateResults_, meta, serverState, cacheVars, dumpVars,
                 writeVars, spoiled>>
-----------------------------------------------------------------------------
(* docheck, to backup mode: initCacheStore, setCacheStoreMode CacheMode,    *)
(* setServerMode.                                                          *)

initCacheStore ==
  /\ at("init") /\ goTo("cacheMode")
  /\ IF store = Absent
       THEN /\ store' = [name |-> MaxOutages - bounds.outages, keys |-> {},
                         nextKeyToDump |-> Absent]
            /\ counter' = 0
       ELSE UNCHANGED <<store, counter>>
  /\ UNCHANGED <<checkerVars, meta, serverState, enableWrite, dumpState, needResume,
                 dumpVars, writeVars, spoiled, bounds>>

\* RocksDB throws; startMonitor logs it, and the next check tries again.
initCacheStoreFails ==
  /\ at("init") /\ store = Absent /\ goTo("sleep") /\ fault
  /\ UNCHANGED <<checkerVars, meta, serverState, cacheVars, dumpVars, writeVars, spoiled>>

setCacheMode ==
  /\ at("cacheMode") /\ goTo("suspend")
  /\ enableWrite' = TRUE
  /\ UNCHANGED <<checkerVars, meta, serverState, store, dumpState, needResume, counter,
                 dumpVars, writeVars, spoiled, bounds>>

suspendDump ==
  /\ at("suspend")
  /\ monitor' = [monitor EXCEPT !.pc = "flag", !.resume = (dumpState = "Dumping")]
  /\ dumpState' = IF dumpState = "Dumping" THEN "Suspend" ELSE dumpState
  /\ UNCHANGED <<checkerVars, meta, serverState, store, enableWrite, needResume, counter,
                 dumpVars, writeVars, spoiled, bounds>>

setNeedResume ==
  /\ at("flag") /\ goTo("backup")
  /\ needResume' = monitor.resume
  /\ UNCHANGED <<checkerVars, meta, serverState, store, enableWrite, dumpState, counter,
                 dumpVars, writeVars, spoiled, bounds>>

setServerBackup ==
  /\ at("backup")
  /\ monitor' = [monitor EXCEPT !.pc = "sleep", !.resume = FALSE]
  /\ serverState' = "ServerBackup"
  /\ UNCHANGED <<checkerVars, meta, cacheVars, dumpVars, writeVars, spoiled, bounds>>

-----------------------------------------------------------------------------
(* docheck, to normal mode: setServerMode, setCacheStoreMode DumpMode,      *)
(* dumpToHStore.                                                           *)

setServerNormal ==
  /\ at("normal") /\ goTo("dumpMode")
  /\ serverState' = "ServerNormal"
  /\ UNCHANGED <<checkerVars, meta, cacheVars, dumpVars, writeVars, spoiled, bounds>>

setDumpMode ==
  /\ at("dumpMode") /\ goTo("resume")
  /\ enableWrite' = FALSE
  /\ UNCHANGED <<checkerVars, meta, serverState, store, dumpState, needResume, counter,
                 dumpVars, writeVars, spoiled, bounds>>

\* Mutant: a suspended dump is left suspended.
resumeDump_Leaves ==
  /\ at("resume") /\ goTo("dump")
  /\ UNCHANGED <<checkerVars, meta, serverState, cacheVars, dumpVars, writeVars, spoiled,
                 bounds>>

resumeDump ==
  /\ at("resume") /\ goTo("dump")
  /\ dumpState' = IF dumpState = "Suspend" THEN "Dumping" ELSE dumpState
  /\ UNCHANGED <<checkerVars, meta, serverState, store, enableWrite, needResume, counter,
                 dumpVars, writeVars, spoiled, bounds>>

dumpToHStore ==
  /\ at("dump") /\ goTo("sleep")
  /\ IF dumpState = "NoDump"
       THEN dumpState' = "Dumping" /\ dumper' = [idleDumper EXCEPT !.pc = "getStore"]
       ELSE UNCHANGED <<dumpState, dumper>>
  /\ UNCHANGED <<checkerVars, meta, serverState, store, enableWrite, needResume, counter,
                 clearing, delivered, dropped, writeVars, spoiled, bounds>>

-----------------------------------------------------------------------------
(* The dump thread: dump, dumpLoop, doDump, appendHStoreWithRetry and the   *)
(* finalizer.                                                              *)

in(pc) == dumper.pc = pc
move(pc) == dumper' = [dumper EXCEPT !.pc = pc]
othersOfDump == <<checkerVars, meta, modeVars, writeVars, spoiled>>

\* The history notes that the rest of the store may stay undumped.
spoilsIf(p) == spoiled' = spoiled \union (IF p THEN {store.name} ELSE {})

\* Is an iterator open, which does not see what is put from now on?
iterating == dumper.pc \in {"seek", "check", "append", "ended", "delete"}

\* The keys a dump would start from.
aheadOfDump(o) == store.nextKeyToDump = Absent \/ o >= store.nextKeyToDump

\* Mutant: the finalizer of a dump that has thrown resets nothing.
getStoreToDump_NoReset ==
  /\ in("getStore") /\ move(IF store = Absent THEN "none" ELSE "loop")
  /\ UNCHANGED <<othersOfDump, cacheVars, clearing, delivered, dropped, bounds>>

\* dump: without a store getStore throws, and the finalizer only resets.
getStoreToDump ==
  /\ in("getStore") /\ move(IF store = Absent THEN "reset" ELSE "loop")
  /\ UNCHANGED <<othersOfDump, cacheVars, clearing, delivered, dropped, bounds>>

dumpLoop ==
  /\ in("loop")
  /\ move(CASE dumpState = "NoDump" -> "delete"
            [] dumpState = "Suspend" -> "wait"
            [] dumpState = "Dumping" -> "open")
  /\ UNCHANGED <<othersOfDump, cacheVars, clearing, delivered, dropped, bounds>>

awaitDumping ==
  /\ in("wait") /\ dumpState = "Dumping" /\ move("loop")
  /\ UNCHANGED <<othersOfDump, cacheVars, clearing, delivered, dropped, bounds>>

\* doDump: the iterator sees the column family as it is now.
openIterator ==
  /\ in("open")
  /\ dumper' = [dumper EXCEPT !.pc = "seek", !.iter = store.keys, !.broken = FALSE]
  /\ late' = late \ {<<store.name, o>> : o \in {k \in store.keys : aheadOfDump(k)}}
  /\ UNCHANGED <<checkerVars, meta, modeVars, writer, acked, spoiled, cacheVars, clearing,
                 delivered, dropped, bounds>>

\* Mutant: every dump starts from the beginning.
seekFirstKey_FromBeginning ==
  /\ in("seek") /\ move("check")
  /\ needResume' = FALSE
  /\ UNCHANGED <<othersOfDump, store, enableWrite, dumpState, counter, clearing,
                 delivered, dropped, bounds>>

\* doDump: needResume is cleared, then the iterator is put on the first key to dump.
seekFirstKey ==
  /\ in("seek")
  /\ needResume' = FALSE
  /\ dumper' = [dumper EXCEPT !.pc = "check", !.iter = {o \in @ : aheadOfDump(o)}]
  /\ UNCHANGED <<othersOfDump, store, enableWrite, dumpState, counter, clearing,
                 delivered, dropped, bounds>>

\* checkContinue and, when it says so, the body of the loop up to the append.  After an
\* append that was let go while suspended, the next key to dump passes over it.
checkContinue ==
  /\ in("check")
  /\ IF dumpState = "Dumping" /\ dumper.iter # {}
       THEN /\ dumper' = [dumper EXCEPT !.pc = "append", !.retries = maxTries]
            /\ store' = [store EXCEPT !.nextKeyToDump = lowest(dumper.iter)]
            /\ spoilsIf(dumper.broken)
       ELSE /\ dumper' = [dumper EXCEPT !.pc = "ended", !.broken = @ \/ dumpState # "Dumping"]
            /\ UNCHANGED <<store, spoiled>>
  /\ UNCHANGED <<checkerVars, meta, modeVars, writeVars, enableWrite, dumpState, needResume,
                 counter, clearing, delivered, dropped, bounds>>

\* The iterator fails: it is not valid any more, which getError only logs.
iteratorFails ==
  /\ in("check") /\ dumper.iter # {} /\ move("ended") /\ fault
  /\ spoilsIf(TRUE)
  /\ UNCHANGED <<checkerVars, meta, modeVars, writeVars, cacheVars, clearing, delivered,
                 dropped>>

\* The dump throws, and the finalizer only resets: the store is kept with its next
\* key to dump, for the dump after the next outage.
dumpThrows ==
  /\ dumper.pc \in {"open", "seek", "check", "append"} /\ fault
  /\ dumper' = [idleDumper EXCEPT !.pc = "reset"]
  /\ UNCHANGED <<othersOfDump, cacheVars, clearing, delivered, dropped>>

current == <<store.name, lowest(dumper.iter)>>
next(broken) ==
  dumper' = [dumper EXCEPT !.pc = "check", !.iter = @ \ {lowest(@)}, !.retries = 0,
                           !.broken = @ \/ broken]

appendHStore ==
  /\ in("append") /\ next(FALSE)
  /\ delivered' = delivered \union {current}
  /\ UNCHANGED <<othersOfDump, cacheVars, clearing, dropped, bounds>>

\* The last of three attempts has failed, "drop the record".
givesUp == dumpState = "Dumping" /\ dumper.retries = 1

\* Mutant: a failed append is not tried again.
appendHStoreFails_NoRetry ==
  /\ in("append") /\ next(dumpState # "Dumping")
  /\ delivered' \in {delivered, delivered \union {current}}
  /\ dropped' = dropped \union (IF givesUp THEN {current} ELSE {})
  /\ UNCHANGED <<othersOfDump, cacheVars, clearing, bounds>>

\* An append that throws, whether the record was stored or not. While dumping it
\* is tried again, three times in all; when suspended, after the resumption.
appendHStoreFails ==
  /\ in("append")
  /\ delivered' \in {delivered, delivered \union {current}}
  /\ dropped' = dropped \union (IF givesUp THEN {current} ELSE {})
  /\ IF dumpState # "Dumping" \/ givesUp
       THEN next(dumpState # "Dumping")
       ELSE dumper' = [dumper EXCEPT !.retries = @ - 1]
  /\ UNCHANGED <<othersOfDump, cacheVars, clearing, bounds>>

doDumpEnds ==
  /\ in("ended") /\ move(IF needResume THEN "loop" ELSE "delete")
  /\ spoilsIf(dumper.broken /\ ~needResume)
  /\ UNCHANGED <<checkerVars, meta, modeVars, writeVars, cacheVars, clearing, delivered,
                 dropped, bounds>>

deleteCacheStore ==
  /\ in("delete") /\ move("reset")
  /\ store' = Absent
  /\ UNCHANGED <<othersOfDump, enableWrite, dumpState, needResume, counter, clearing,
                 delivered, dropped, bounds>>

reset ==
  /\ in("reset") /\ dumper' = idleDumper
  /\ dumpState' = "NoDump"
  /\ clearing' = clearing + 1
  /\ UNCHANGED <<othersOfDump, store, enableWrite, needResume, counter, delivered, dropped,
                 bounds>>

resetNeedResume ==
  /\ clearing > 0
  /\ clearing' = clearing - 1
  /\ needResume' = FALSE
  /\ UNCHANGED <<othersOfDump, store, enableWrite, dumpState, counter, dumper, delivered,
                 dropped, bounds>>

-----------------------------------------------------------------------------
(* Request threads: appendStream in backup mode, writeRecord.              *)

othersOfWrite == <<checkerVars, meta, modeVars, store, enableWrite, dumpState, needResume,
                   dumpVars, spoiled>>

\* In normal mode a request appends to the store and does not touch the cache.
appendStream(w) ==
  /\ writer[w].pc = "idle" /\ serverState = "ServerBackup"
  /\ bounds.writes > 0
  /\ bounds' = [bounds EXCEPT !.writes = @ - 1]
  /\ writer' = [writer EXCEPT ![w].pc = "enabled"]
  /\ UNCHANGED <<othersOfWrite, counter, acked, late>>

\* Refused with "CacheStore is not write-enabled." otherwise.
canWrite(w) ==
  /\ writer[w].pc = "enabled"
  /\ writer' = [writer EXCEPT ![w].pc = IF enableWrite THEN "store" ELSE "idle"]
  /\ UNCHANGED <<othersOfWrite, counter, acked, late, bounds>>

\* getStore, which throws without a store, and the next offset.
getStoreToWrite(w) ==
  /\ writer[w].pc = "store"
  /\ IF store = Absent
       THEN writer' = [writer EXCEPT ![w] = idleWriter] /\ UNCHANGED counter
       ELSE /\ writer' = [writer EXCEPT ![w] = [pc |-> "put", name |-> store.name,
                                               offset |-> counter]]
            /\ counter' = counter + 1
  /\ UNCHANGED <<othersOfWrite, acked, late, bounds>>

\* putCF and the answer. The column family may have been destroyed and the database
\* closed since getStore; then nothing is put, whatever the call returns (if it does).
putCF(w) ==
  LET record == <<writer[w].name, writer[w].offset>>
      open == store # Absent /\ store.name = writer[w].name
      dumpable == open /\ ~iterating /\ aheadOfDump(writer[w].offset) IN
  /\ writer[w].pc = "put"
  /\ writer' = [writer EXCEPT ![w] = idleWriter]
  /\ store' = IF open THEN [store EXCEPT !.keys = @ \union {writer[w].offset}] ELSE store
  /\ acked' = acked \union {record}
  /\ late' = late \union (IF dumpable THEN {} ELSE {record})
  /\ UNCHANGED <<checkerVars, meta, modeVars, enableWrite, dumpState, needResume, counter,
                 dumpVars, spoiled, bounds>>

\* putCF throws, and so does the request (record_failed).
putCFFails(w) ==
  /\ writer[w].pc = "put" /\ fault
  /\ writer' = [writer EXCEPT ![w] = idleWriter]
  /\ UNCHANGED <<othersOfWrite, counter, acked, late>>

-----------------------------------------------------------------------------
(* The server stops and is started again (mkCacheStore).  The column family  *)
(* it leaves behind is dropped by the next initCacheStore; no code reads it.  *)

restart ==
  /\ bounds.outages > 0
  /\ bounds' = [bounds EXCEPT !.outages = @ - 1]
  /\ newLdChecker
  /\ serverState' = "ServerNormal" /\ monitor' = idleMonitor
  /\ store' = Absent /\ enableWrite' = FALSE /\ dumpState' = "NoDump"
  /\ needResume' = FALSE /\ counter' = 0
  /\ dumper' = idleDumper /\ clearing' = 0
  /\ writer' = [w \in Writers |-> idleWriter]
  /\ spoiled' = spoiled \union storeNames
  /\ UNCHANGED <<meta, acked, delivered, dropped, late>>

-----------------------------------------------------------------------------
monitorSteps ==
  \/ checkLdCluster \/ clusterStateArrives \/ ldClusterChecked \/ docheck
  \/ initCacheStore \/ initCacheStoreFails \/ setCacheMode
  \/ suspendDump \/ setNeedResume \/ setServerBackup
  \/ setServerNormal \/ setDumpMode \/ resumeDump \/ dumpToHStore

dumpSteps ==
  \/ getStoreToDump \/ dumpLoop \/ awaitDumping \/ openIterator \/ seekFirstKey
  \/ checkContinue \/ iteratorFails \/ appendHStore \/ appendHStoreFails \/ dumpThrows
  \/ doDumpEnds \/ deleteCacheStore \/ reset

writes ==
  \E w \in Writers : \/ appendStream(w) \/ canWrite(w) \/ getStoreToWrite(w)
                     \/ putCF(w) \/ putCFFails(w)

Next == clusterChanges \/ monitorSteps \/ dumpSteps \/ resetNeedResume \/ writes \/ restart

\* The monitor is a loop in a thread of its own, whose requests to the nodes have a
\* timeout; the dump thread only waits where dumpLoop does.
Fairness == WF_vars(monitorSteps) /\ WF_vars(dumpSteps)

Spec == Init /\ [][Next]_vars
FairSpec == Spec /\ Fairness

-----------------------------------------------------------------------------
(* Properties.                                                             *)

\* Types; in particular the thread that dumps and the requests that write name column
\* families that were created before (initCacheStore, getStore).
TypeOK ==
  /\ CheckerTypeOK
  /\ meta \in BOOLEAN
  /\ serverState \in {"ServerNormal", "ServerBackup"}
  /\ monitor \in Monitor
  /\ store \in Store \union {Absent}
  /\ enableWrite \in BOOLEAN
  /\ dumpState \in {"NoDump", "Dumping", "Suspend"}
  /\ needResume \in BOOLEAN
  /\ counter \in Nat
  /\ dumper \in Dumper
  /\ clearing \in Nat
  /\ writer \in [Writers -> [pc: {"idle", "enabled", "store", "put"},
                             name: Generations \union {Absent}, offset: Nat]]
  /\ \A w \in Writers : writer[w].pc = "put" => writer[w].name \in Generations
  /\ acked \subseteq Generations \X Nat /\ delivered \subseteq Generations \X Nat
  /\ dropped \subseteq Generations \X Nat /\ late \subseteq Generations \X Nat
  /\ spoiled \subseteq Generations
  /\ bounds \in [outages: 0..MaxOutages, writes: 0..MaxWrites, faults: 0..MaxFaults]

\* The monitor takes the cluster for unhealthy only if more nodes than the limit
\* were down during this check, not because of what an earlier one was told.
NoFalseAlarm ==
  at("meta") /\ ~monitor.ldHealthy => Cardinality(round.ever) > unhealthy_node_limit

\* "If the total number of unhealthy nodes is greater than the specified limit, it
\* means that the cluster is not available and will return False" (HealthCheck.hs).
UnreachableIsUnhealthy ==
  at("meta") /\ monitor.ldHealthy => Cardinality(round.always) <= unhealthy_node_limit

\* A dump is recorded exactly while its thread lives, so that there is never a
\* second one, and none that nobody can resume (dumpToHStore, reset).
DumpStateTellsDumper == (dumpState = "NoDump") <=> in("none")

\* Records reach the store in the order of their keys: when one is appended, only
\* earlier ones of its column family have been, or itself in an attempt that failed
\* (doDump, nextKeyToDump).
DumpsInOrder ==
  in("append") => \A r \in delivered : r[1] = store.name => r[2] <= lowest(dumper.iter)

\* A record that writeRecord acknowledged is in the store, still in the cache, or was
\* dropped after three attempts, although appends and puts fail, dumps are suspended and
\* resumed, and a dump may throw and leave the rest to a later one.  Lost without a trace
\* is only what was put behind the dump or after the store was closed, and what is left of
\* a store when its iterator fails, the server restarts, or a suspended dump finds the flag
\* to resume cleared or passes over the append it let go (writeRecord, doDump, initCacheStore).
NothingLostQuietly ==
  \A r \in acked \ (delivered \union dropped \union late) :
    \/ r[1] \in spoiled
    \/ store # Absent /\ r[1] = store.name /\ r[2] \in store.keys

\* Once the clusters stay up, the server returns to normal mode and the dump ends,
\* also one that was suspended (docheck, setCacheStoreMode DumpMode, dumpLoop).
BackupEnds ==
  <>[](up = Nodes /\ meta) => <>[](serverState = "ServerNormal" /\ dumpState = "NoDump")

\* "If dumpstate changes from dumping to suspend, needResume will be set to True. This
\* indicates that the cache store should resume dump process": no store is deleted after
\* a dump that was suspended and not resumed.
SuspendedIsResumed == in("delete") => ~dumper.broken

\* "failed because cache store is not in dumping state, will retry later": a dump that let
\* an append go appends nothing after it before it is resumed.
LetGoIsRetried == in("append") => ~dumper.broken

\* "Cache store not initialized, should not get here" (getStore).
StoreIsThere == \A w \in Writers : writer[w].pc = "store" => store # Absent
=============================================================================
