-------------------------- MODULE BackupModeProofs --------------------------
(***************************************************************************)
(* Theorems about backup mode, for any nodes, request threads and bounds.  *)
(***************************************************************************)
EXTENDS BackupMode, TLAPS, FiniteSetTheorems, WellFoundedInduction

age == MaxOutages - bounds.outages
isOld(n) == n <= age /\ (at("init") => n < age)

\* Answers of the check in progress; see NoFalseAlarm.
CheckInv ==
  /\ posted_requests # {} => at("ld") /\ Nodes \ up \subseteq round.ever
  /\ at("ld") => stateResults_ \cap Nodes \subseteq round.ever

\* Column families are named by the outage they were created in.
AgeInv ==
  /\ at("init") => age > 0
  /\ \A n \in spoiled : isOld(n)
  /\ \A r \in acked \union delivered \union dropped \union late : isOld(r[1])
  /\ store # Absent => isOld(store.name)
  /\ \A w \in Writers : writer[w].pc = "put" => isOld(writer[w].name)

reading == {"seek", "check", "append", "ended", "delete"}
active == {"loop", "wait", "open"} \union reading

\* The store belongs to the dump thread until that deletes it.
StoreInv ==
  /\ DumpStateTellsDumper
  /\ dumper.pc \in active => store # Absent
  /\ in("getStore") /\ monitor.pc \in {"cacheMode", "suspend"} => store # Absent
  /\ in("getStore") /\ dumpState # "Dumping" => store # Absent

\* Keys are dumped upwards.
OrderInv ==
  store # Absent =>
    /\ \A r \in delivered : r[1] = store.name =>
         store.nextKeyToDump # Absent /\ r[2] <= store.nextKeyToDump
    /\ dumper.pc \in {"check", "append"} =>
         \A r \in delivered, o \in dumper.iter : r[1] = store.name => r[2] <= o
    /\ in("append") => /\ dumper.iter # {} /\ dumper.retries > 0
                       /\ store.nextKeyToDump = lowest(dumper.iter)

covered(o) == <<store.name, o>> \in delivered \union dropped \union late

\* What the dumps of a store have passed they have dealt with, unless it is spoiled; of a
\* dump that was suspended that holds up to its next key to dump.
LossInv ==
  /\ NothingLostQuietly
  /\ store # Absent /\ store.name \notin spoiled =>
       /\ \A o \in store.keys : aheadOfDump(o) \/ covered(o)
       /\ in("delete") \/ (in("ended") /\ ~dumper.broken) => \A o \in store.keys : covered(o)
       /\ in("seek") => /\ ~dumper.broken
                        /\ \A o \in store.keys : aheadOfDump(o) => o \in dumper.iter \/ covered(o)
       /\ dumper.pc \in {"check", "append"} /\ ~dumper.broken =>
            \A o \in store.keys : o \in dumper.iter \/ covered(o)

IInv == TypeOK /\ CheckInv /\ NoFalseAlarm /\ AgeInv /\ StoreInv /\ OrderInv /\ LossInv

\* A nonempty set of keys has a lowest one (rocksdb's order of keys).
LEMMA LowestIsLowest ==
  ASSUME NEW S, S \subseteq Nat, S # {}
  PROVE  lowest(S) \in S /\ \A p \in S : lowest(S) <= p
<1> DEFINE R == {ss \in Nat \X Nat : ss[1] < ss[2]}
<1>1. IsWellFoundedOn(R, Nat)
  BY Zenon, NatLessThanWellFounded DEF OpToRel
<1>2. \E x \in S : \A y \in S : ~ (<<y, x>> \in R)
  <2> HIDE DEF R
  <2> QED BY Zenon, <1>1, WFMin
<1>3. PICK x \in S : \A y \in S : ~ (<<y, x>> \in R)
  BY Zenon, <1>2
<1>4. ASSUME NEW y \in S PROVE x <= y
  <2>1. x \in Nat /\ y \in Nat /\ <<y, x>> \in Nat \X Nat /\ ~ (<<y, x>> \in R)
    BY Zenon, <1>3
  <2>2. ~ (y < x)
    BY Zenon, <2>1
  <2> QED
    BY <2>1, <2>2
<1> QED
  BY Zenon, <1>4 DEF lowest

\* Every step keeps the types, if the store and the iterator are what the dump expects.
LEMMA TypeStep ==
  TypeOK /\ AgeInv /\ StoreInv /\ OrderInv /\ [Next]_vars => TypeOK'
<1> SUFFICES ASSUME TypeOK, AgeInv, StoreInv, OrderInv, [Next]_vars
             PROVE  TypeOK'
  BY Zenon
<1> USE BoundsAssumption, NodesAssumption DEF TypeOK, CheckerTypeOK, vars, checkerVars,
         modeVars, cacheVars, dumpVars, writeVars, othersOfDump, othersOfWrite, at, goTo,
         in, move
<1>1. CASE clusterChanges
  <2>1. CASE \E n \in Nodes : nodeFails(n) /\ UNCHANGED meta
    BY <1>1, <2>1 DEF clusterChanges, nodeFails
  <2>2. CASE \E n \in Nodes : nodeRecovers(n) /\ UNCHANGED meta
    BY <1>1, <2>2 DEF clusterChanges, nodeRecovers
  <2>3. CASE meta' \in BOOLEAN /\ UNCHANGED checkerVars
    BY Zenon, <1>1, <2>3 DEF clusterChanges
  <2> QED
    BY Zenon, <1>1, <2>1, <2>2, <2>3 DEF clusterChanges
<1>2. CASE checkLdCluster
  BY Zenon, <1>2 DEF checkLdCluster, getClusterState, Monitor
<1>3. CASE clusterStateArrives
  BY <1>3 DEF clusterStateArrives, addResult
<1>4. CASE ldClusterChecked
  <2>1. PICK c \in BOOLEAN : monitor' = [monitor EXCEPT !.pc = "meta", !.ldHealthy = c]
    <3>1. check \in BOOLEAN
      BY DEF check
    <3> QED
      BY Zenon, <1>4, <3>1 DEF ldClusterChecked
  <2>2. monitor' \in Monitor
    BY Zenon, <2>1 DEF Monitor
  <2> QED
    BY Zenon, <1>4, <2>2 DEF ldClusterChecked
<1>5. CASE docheck
  BY <1>5 DEF docheck, noRound, Monitor
<1>6. CASE initCacheStore
  <2>1. MaxOutages - bounds.outages \in Generations
    BY <1>6 DEF initCacheStore, AgeInv, age, Generations
  <2>2. CASE store = Absent
    <3> DEFINE created == [name |-> MaxOutages - bounds.outages, keys |-> {},
                           nextKeyToDump |-> Absent]
    <3>1. created \in Store
      BY Zenon, <2>1 DEF Store
    <3>2. store' \in Store
      BY Zenon, <1>6, <2>2, <3>1 DEF initCacheStore
    <3>3. monitor' \in Monitor
      BY Zenon, <1>6 DEF initCacheStore, Monitor
    <3> QED
      BY <1>6, <2>2, <3>2, <3>3 DEF initCacheStore
  <2>3. CASE store # Absent
    BY Zenon, <1>6, <2>3 DEF initCacheStore, Monitor
  <2> QED
    BY Zenon, <2>2, <2>3
<1>7. CASE setCacheMode
  BY Zenon, <1>7 DEF setCacheMode, Monitor
<1>8. CASE suspendDump
  <2>1. PICK c \in BOOLEAN : monitor' = [monitor EXCEPT !.pc = "flag", !.resume = c]
    BY Zenon, <1>8 DEF suspendDump
  <2>2. dumpState' \in {"NoDump", "Dumping", "Suspend"}
    BY Zenon, <1>8 DEF suspendDump
  <2>3. monitor' \in Monitor
    BY Zenon, <2>1 DEF Monitor
  <2> QED
    BY Zenon, <1>8, <2>2, <2>3 DEF suspendDump
<1>9. CASE setNeedResume
  BY Zenon, <1>9 DEF setNeedResume, Monitor
<1>10. CASE setServerBackup
  BY Zenon, <1>10 DEF setServerBackup, Monitor
<1>11. CASE setServerNormal
  BY Zenon, <1>11 DEF setServerNormal, Monitor
<1>12. CASE setDumpMode
  BY Zenon, <1>12 DEF setDumpMode, Monitor
<1>13. CASE resumeDump
  BY Zenon, <1>13 DEF resumeDump, Monitor
<1>14. CASE dumpToHStore
  <2>1. idleDumper \in Dumper
    BY DEF idleDumper, maxTries, Dumper
  <2>2. dumper' \in Dumper
    BY Zenon, <1>14, <2>1 DEF dumpToHStore, Dumper
  <2>3. monitor' \in Monitor
    BY Zenon, <1>14 DEF dumpToHStore, Monitor
  <2> QED
    BY Zenon, <1>14, <2>2, <2>3 DEF dumpToHStore
<1>15. CASE getStoreToDump
  BY Zenon, <1>15 DEF getStoreToDump, Dumper
<1>16. CASE dumpLoop
  BY Zenon, <1>16 DEF dumpLoop, Dumper
<1>17. CASE awaitDumping
  BY Zenon, <1>17 DEF awaitDumping, Dumper
<1>18. CASE openIterator
  <2>1. store \in Store
    BY Zenon, <1>18 DEF openIterator, StoreInv, active
  <2>2. late' \subseteq Generations \X Nat
    BY Zenon, <1>18 DEF openIterator
  <2>3. store.keys \subseteq Nat
    BY Zenon, <2>1 DEF Store
  <2>4. dumper' \in Dumper
    BY Zenon, <1>18, <2>3 DEF openIterator, Dumper
  <2> QED
    BY Zenon, <1>18, <2>2, <2>4 DEF openIterator
<1>19. CASE seekFirstKey
  <2>1. {o \in dumper.iter : aheadOfDump(o)} \subseteq Nat
    BY Zenon DEF Dumper
  <2>2. dumper' \in Dumper
    BY Zenon, <1>19, <2>1 DEF seekFirstKey, Dumper
  <2> QED
    BY Zenon, <1>19, <2>2 DEF seekFirstKey
<1>20. CASE checkContinue
  <2>1. store \in Store
    BY Zenon, <1>20 DEF checkContinue, StoreInv, active, reading
  <2>2. CASE dumpState = "Dumping" /\ dumper.iter # {}
    <3>1. lowest(dumper.iter) \in Nat
      BY Zenon, <2>2, LowestIsLowest DEF Dumper
    <3>2. store' \in Store
      BY <1>20, <2>1, <2>2, <3>1 DEF checkContinue, Store
    <3>3. dumper' \in Dumper
      <4>1. maxTries \in 0..maxTries
        BY DEF maxTries
      <4> QED
        BY Zenon, <1>20, <2>2, <4>1 DEF checkContinue, Dumper
    <3>4. spoiled' \subseteq Generations
      BY Zenon, <1>20, <2>1, <2>2 DEF checkContinue, spoilsIf, Store
    <3> QED
      BY Zenon, <1>20, <3>2, <3>3, <3>4 DEF checkContinue
  <2>3. CASE ~(dumpState = "Dumping" /\ dumper.iter # {})
    <3>1. PICK b \in BOOLEAN : dumper' = [dumper EXCEPT !.pc = "ended", !.broken = b]
      BY Zenon, <1>20, <2>3 DEF checkContinue, Dumper
    <3>2. dumper' \in Dumper
      BY Zenon, <3>1 DEF Dumper
    <3> QED
      BY Zenon, <1>20, <2>3, <3>2 DEF checkContinue
  <2> QED
    BY Zenon, <2>2, <2>3
<1>21. CASE appendHStore
  <2>1. store \in Store /\ dumper.iter # {}
    BY Zenon, <1>21 DEF appendHStore, StoreInv, OrderInv, active, reading
  <2>2. current \in Generations \X Nat
    BY Zenon, <2>1, LowestIsLowest DEF current, Store, Dumper
  <2>3. ASSUME NEW b \in BOOLEAN, next(b) PROVE dumper' \in Dumper
    <3>1. dumper.iter \ {lowest(dumper.iter)} \subseteq Nat
      BY Zenon DEF Dumper
    <3>2. 0 \in 0..maxTries
      BY DEF maxTries
    <3>3. (dumper.broken \/ b) \in BOOLEAN
      BY Zenon
    <3> QED
      BY Zenon, <2>3, <3>1, <3>2, <3>3 DEF next, Dumper
  <2> QED
    BY Zenon, <1>21, <2>2, <2>3 DEF appendHStore
<1>22. CASE appendHStoreFails
  <2>1. store \in Store /\ dumper.iter # {}
    BY Zenon, <1>22 DEF appendHStoreFails, StoreInv, OrderInv, active, reading
  <2>2. current \in Generations \X Nat
    BY Zenon, <2>1, LowestIsLowest DEF current, Store, Dumper
  <2>3. ASSUME NEW b \in BOOLEAN, next(b) PROVE dumper' \in Dumper
    <3>1. dumper.iter \ {lowest(dumper.iter)} \subseteq Nat
      BY Zenon DEF Dumper
    <3>2. 0 \in 0..maxTries
      BY DEF maxTries
    <3>3. (dumper.broken \/ b) \in BOOLEAN
      BY Zenon
    <3> QED
      BY Zenon, <2>3, <3>1, <3>2, <3>3 DEF next, Dumper
  <2>4. delivered' \subseteq Generations \X Nat /\ dropped' \subseteq Generations \X Nat
    BY Zenon, <1>22, <2>2 DEF appendHStoreFails
  <2>5. CASE dumpState # "Dumping" \/ givesUp
    <3>1. (dumpState # "Dumping") \in BOOLEAN
      BY Zenon
    <3> QED
      BY Zenon, <1>22, <2>3, <2>4, <2>5, <3>1 DEF appendHStoreFails
  <2>6. CASE ~(dumpState # "Dumping" \/ givesUp)
    <3>1. dumper.retries - 1 \in 0..maxTries
      BY <1>22 DEF appendHStoreFails, Dumper, maxTries, OrderInv, StoreInv, active, reading
    <3>2. dumper' \in Dumper
      BY <1>22, <2>6, <3>1 DEF appendHStoreFails, Dumper
    <3> QED
      BY Zenon, <1>22, <2>4, <2>6, <3>2 DEF appendHStoreFails
  <2> QED
    BY Zenon, <2>5, <2>6
<1>23. CASE doDumpEnds
  <2>1. spoiled' \subseteq Generations
    BY Zenon, <1>23 DEF doDumpEnds, spoilsIf, StoreInv, active, reading, Store
  <2> QED
    BY Zenon, <1>23, <2>1 DEF doDumpEnds, Dumper
<1>24. CASE deleteCacheStore
  BY Zenon, <1>24 DEF deleteCacheStore, Dumper
<1>25. CASE reset
  BY <1>25 DEF reset, idleDumper, maxTries, Dumper
<1>26. CASE resetNeedResume
  <2>1. clearing' \in Nat
    BY <1>26 DEF resetNeedResume
  <2> QED
    BY Zenon, <1>26, <2>1 DEF resetNeedResume
<1>27. ASSUME NEW w \in Writers, appendStream(w) PROVE TypeOK'
  BY <1>27 DEF appendStream
<1>28. ASSUME NEW w \in Writers, canWrite(w) PROVE TypeOK'
  BY <1>28 DEF canWrite
<1>29. ASSUME NEW w \in Writers, getStoreToWrite(w) PROVE TypeOK'
  BY <1>29 DEF getStoreToWrite, Store, idleWriter
<1>30. ASSUME NEW w \in Writers, putCF(w) PROVE TypeOK'
  BY <1>30 DEF putCF, Store, idleWriter
<1>31. CASE UNCHANGED vars
  BY Zenon, <1>31 DEF vars, checkerVars, modeVars, cacheVars, dumpVars, writeVars
<1>32. CASE initCacheStoreFails
  BY <1>32 DEF initCacheStoreFails, fault, Monitor
<1>33. CASE iteratorFails
  <2>1. store.name \in Generations
    BY Zenon, <1>33 DEF iteratorFails, StoreInv, active, reading, Store
  <2> QED
    BY <1>33, <2>1 DEF iteratorFails, spoilsIf, fault, Dumper
<1>34. CASE dumpThrows
  <2>1. idleDumper \in Dumper
    BY DEF idleDumper, maxTries, Dumper
  <2>2. dumper' \in Dumper
    BY Zenon, <1>34, <2>1 DEF dumpThrows, Dumper
  <2>3. bounds' \in [outages: 0..MaxOutages, writes: 0..MaxWrites, faults: 0..MaxFaults]
    BY <1>34 DEF dumpThrows, fault
  <2> QED
    BY Zenon, <1>34, <2>2, <2>3 DEF dumpThrows
<1>35. ASSUME NEW w \in Writers, putCFFails(w) PROVE TypeOK'
  BY <1>35 DEF putCFFails, fault, idleWriter
<1>36. CASE restart
  <2>1. monitor' \in Monitor /\ dumper' \in Dumper
    BY <1>36 DEF restart, idleMonitor, idleDumper, maxTries, Monitor, Dumper
  <2>2. /\ writer' \in [Writers -> [pc: {"idle", "enabled", "store", "put"},
                                    name: Generations \union {Absent}, offset: Nat]]
        /\ \A w \in Writers : writer'[w].pc # "put"
    BY Zenon, <1>36 DEF restart, idleWriter
  <2>3. spoiled' \subseteq Generations
    BY Zenon, <1>36 DEF restart, storeNames, Store
  <2>4. CheckerTypeOK'
    BY Zenon, <1>36 DEF restart, newLdChecker, noRound
  <2>5. bounds' \in [outages: 0..MaxOutages, writes: 0..MaxWrites, faults: 0..MaxFaults]
    BY <1>36 DEF restart
  <2>6. /\ UNCHANGED <<meta, acked, delivered, dropped, late>> /\ serverState' = "ServerNormal"
        /\ store' = Absent /\ enableWrite' = FALSE /\ dumpState' = "NoDump"
        /\ needResume' = FALSE /\ counter' = 0 /\ clearing' = 0
    BY Zenon, <1>36 DEF restart
  <2> HIDE DEF TypeOK, CheckerTypeOK, Monitor, Dumper
  <2>7. /\ meta \in BOOLEAN /\ acked \subseteq Generations \X Nat
        /\ delivered \subseteq Generations \X Nat /\ dropped \subseteq Generations \X Nat
        /\ late \subseteq Generations \X Nat
    BY Zenon DEF TypeOK
  <2>8. counter' \in Nat /\ clearing' \in Nat
    BY Zenon, <2>6
  <2> QED
    BY Zenon, <2>1, <2>2, <2>3, <2>4, <2>5, <2>6, <2>7, <2>8 DEF TypeOK
<1> QED
  BY Zenon, <1>1, <1>2, <1>3, <1>4, <1>5, <1>6, <1>7, <1>8, <1>9, <1>10, <1>11, <1>12, <1>13,
     <1>14, <1>15, <1>16, <1>17, <1>18, <1>19, <1>20, <1>21, <1>22, <1>23, <1>24, <1>25,
     <1>26, <1>27, <1>28, <1>29, <1>30, <1>31, <1>32, <1>33, <1>34, <1>35, <1>36
     DEF Next, monitorSteps, dumpSteps, writes

\* An answer is about nodes that were down during this check (getClusterState, addResult).
LEMMA CheckStep ==
  TypeOK /\ CheckInv /\ NoFalseAlarm /\ [Next]_vars => CheckInv' /\ NoFalseAlarm'
<1> SUFFICES ASSUME TypeOK, CheckInv, NoFalseAlarm, [Next]_vars
             PROVE  CheckInv' /\ NoFalseAlarm'
  BY Zenon
<1> USE NodesAssumption DEF TypeOK, CheckerTypeOK, CheckInv, NoFalseAlarm, Monitor, vars,
         checkerVars, modeVars, cacheVars, dumpVars, writeVars, othersOfDump,
         othersOfWrite, at, goTo, in, move
<1>1. CASE clusterChanges
  BY <1>1 DEF clusterChanges, nodeFails, nodeRecovers
<1>2. CASE checkLdCluster
  BY Zenon, <1>2 DEF checkLdCluster, getClusterState
<1>3. CASE clusterStateArrives
  BY Zenon, <1>3 DEF clusterStateArrives, addResult
<1>4. CASE ldClusterChecked
  <2>1. unhealthy_nodes_set \subseteq round.ever
    BY Zenon, <1>4 DEF ldClusterChecked, unhealthy_nodes_set
  <2>2. IsFiniteSet(round.ever) /\ round.ever \subseteq Nodes
    BY FS_Subset
  <2>3. Cardinality(unhealthy_nodes_set) <= Cardinality(round.ever)
    BY Zenon, <2>1, <2>2, FS_Subset
  <2>4. Cardinality(unhealthy_nodes_set) \in Nat /\ Cardinality(round.ever) \in Nat
    BY Zenon, <2>1, <2>2, FS_Subset, FS_CardinalityType
  <2>5. CheckInv'
    BY Zenon, <1>4 DEF ldClusterChecked
  <2>6. monitor'.ldHealthy = check /\ round' = round
    BY Zenon, <1>4 DEF ldClusterChecked
  <2>7. ~check => Cardinality(round.ever) > unhealthy_node_limit
    BY <2>3, <2>4 DEF check
  <2> QED
    BY Zenon, <2>5, <2>6, <2>7
<1>5. CASE docheck
  BY Zenon, <1>5 DEF docheck, noRound
<1>6. CASE initCacheStore
  BY Zenon, <1>6 DEF initCacheStore
<1>7. CASE setCacheMode
  BY Zenon, <1>7 DEF setCacheMode
<1>8. CASE suspendDump
  BY Zenon, <1>8 DEF suspendDump
<1>9. CASE setNeedResume
  BY Zenon, <1>9 DEF setNeedResume
<1>10. CASE setServerBackup
  BY Zenon, <1>10 DEF setServerBackup
<1>11. CASE setServerNormal
  BY Zenon, <1>11 DEF setServerNormal
<1>12. CASE setDumpMode
  BY Zenon, <1>12 DEF setDumpMode
<1>13. CASE resumeDump
  BY Zenon, <1>13 DEF resumeDump
<1>14. CASE dumpToHStore
  BY Zenon, <1>14 DEF dumpToHStore
<1>15. CASE getStoreToDump
  BY Zenon, <1>15 DEF getStoreToDump
<1>16. CASE dumpLoop
  BY Zenon, <1>16 DEF dumpLoop
<1>17. CASE awaitDumping
  BY Zenon, <1>17 DEF awaitDumping
<1>18. CASE openIterator
  BY Zenon, <1>18 DEF openIterator
<1>19. CASE seekFirstKey
  BY Zenon, <1>19 DEF seekFirstKey
<1>20. CASE checkContinue
  BY Zenon, <1>20 DEF checkContinue
<1>21. CASE appendHStore
  BY Zenon, <1>21 DEF appendHStore
<1>22. CASE appendHStoreFails
  BY Zenon, <1>22 DEF appendHStoreFails
<1>23. CASE doDumpEnds
  BY Zenon, <1>23 DEF doDumpEnds
<1>24. CASE deleteCacheStore
  BY Zenon, <1>24 DEF deleteCacheStore
<1>25. CASE reset
  BY Zenon, <1>25 DEF reset
<1>26. CASE resetNeedResume
  BY Zenon, <1>26 DEF resetNeedResume
<1>27. ASSUME NEW w \in Writers, appendStream(w) PROVE CheckInv' /\ NoFalseAlarm'
  BY Zenon, <1>27 DEF appendStream
<1>28. ASSUME NEW w \in Writers, canWrite(w) PROVE CheckInv' /\ NoFalseAlarm'
  BY Zenon, <1>28 DEF canWrite
<1>29. ASSUME NEW w \in Writers, getStoreToWrite(w) PROVE CheckInv' /\ NoFalseAlarm'
  BY Zenon, <1>29 DEF getStoreToWrite
<1>30. ASSUME NEW w \in Writers, putCF(w) PROVE CheckInv' /\ NoFalseAlarm'
  BY Zenon, <1>30 DEF putCF
<1>31. CASE UNCHANGED vars
  BY Zenon, <1>31 DEF vars, checkerVars, modeVars, cacheVars, dumpVars, writeVars
<1>32. CASE initCacheStoreFails
  BY Zenon, <1>32 DEF initCacheStoreFails
<1>33. CASE iteratorFails
  BY Zenon, <1>33 DEF iteratorFails
<1>34. CASE dumpThrows
  BY Zenon, <1>34 DEF dumpThrows
<1>35. ASSUME NEW w \in Writers, putCFFails(w) PROVE CheckInv' /\ NoFalseAlarm'
  BY Zenon, <1>35 DEF putCFFails
<1>36. CASE restart
  <2> HIDE DEF TypeOK, CheckerTypeOK
  <2> QED
    BY ZenonT(30), <1>36 DEF restart, newLdChecker, noRound, idleMonitor
<1> QED
  BY Zenon, <1>1, <1>2, <1>3, <1>4, <1>5, <1>6, <1>7, <1>8, <1>9, <1>10, <1>11, <1>12, <1>13,
     <1>14, <1>15, <1>16, <1>17, <1>18, <1>19, <1>20, <1>21, <1>22, <1>23, <1>24, <1>25,
     <1>26, <1>27, <1>28, <1>29, <1>30, <1>31, <1>32, <1>33, <1>34, <1>35, <1>36
     DEF Next, monitorSteps, dumpSteps, writes

\* Column families are created one outage after the other (initCacheStore, docheck).
LEMMA AgeStep ==
  TypeOK /\ AgeInv /\ StoreInv /\ [Next]_vars => AgeInv'
<1> SUFFICES ASSUME TypeOK, AgeInv, StoreInv, [Next]_vars
             PROVE  AgeInv'
  BY Zenon
<1> USE BoundsAssumption DEF TypeOK, AgeInv, isOld, age, Monitor, vars,
         checkerVars, modeVars, cacheVars, dumpVars, writeVars, othersOfDump,
         othersOfWrite, at, goTo, in, move
<1>1. CASE clusterChanges
  BY Zenon, <1>1 DEF clusterChanges, nodeFails, nodeRecovers
<1>2. CASE checkLdCluster
  BY Zenon, <1>2 DEF checkLdCluster
<1>3. CASE clusterStateArrives
  BY Zenon, <1>3 DEF clusterStateArrives
<1>4. CASE ldClusterChecked
  BY Zenon, <1>4 DEF ldClusterChecked
<1>5. CASE docheck
  <2> DEFINE opens == serverState = "ServerNormal" /\ ~monitor.ldHealthy /\ ~meta
  <2>1. /\ spoiled \subseteq Int
        /\ \A r \in acked \union delivered \union dropped \union late : r[1] \in Int
        /\ store # Absent => store.name \in Int
        /\ \A w \in Writers : writer[w].pc = "put" => writer[w].name \in Int
    BY DEF Generations, Store
  <2>2. CASE opens
    <3>1. bounds.outages > 0
      BY Zenon, <1>5, <2>2 DEF docheck
    <3>2. bounds'.outages = bounds.outages - 1 /\ monitor'.pc = "init"
      BY Zenon, <1>5, <2>2 DEF docheck
    <3>3. age \in Int /\ age >= 0 /\ age' = age + 1
      BY <3>1, <3>2
    <3>4. \A n \in Int : isOld(n) => isOld(n)'
      BY <3>2, <3>3
    <3> HIDE DEF isOld, age
    <3> QED
      BY <1>5, <2>1, <3>2, <3>3, <3>4 DEF docheck
  <2>3. CASE ~opens
    <3>1. bounds' = bounds /\ monitor'.pc \in {"sleep", "normal"}
      BY Zenon, <1>5, <2>3 DEF docheck
    <3> QED
      BY Zenon, <1>5, <3>1 DEF docheck
  <2> QED
    BY Zenon, <2>2, <2>3
<1>6. CASE initCacheStore
  BY <1>6 DEF initCacheStore
<1>7. CASE setCacheMode
  BY Zenon, <1>7 DEF setCacheMode
<1>8. CASE suspendDump
  BY Zenon, <1>8 DEF suspendDump
<1>9. CASE setNeedResume
  BY Zenon, <1>9 DEF setNeedResume
<1>10. CASE setServerBackup
  BY Zenon, <1>10 DEF setServerBackup
<1>11. CASE setServerNormal
  BY Zenon, <1>11 DEF setServerNormal
<1>12. CASE setDumpMode
  BY Zenon, <1>12 DEF setDumpMode
<1>13. CASE resumeDump
  BY Zenon, <1>13 DEF resumeDump
<1>14. CASE dumpToHStore
  BY Zenon, <1>14 DEF dumpToHStore
<1>15. CASE getStoreToDump
  BY Zenon, <1>15 DEF getStoreToDump
<1>16. CASE dumpLoop
  BY Zenon, <1>16 DEF dumpLoop
<1>17. CASE awaitDumping
  BY Zenon, <1>17 DEF awaitDumping
<1>18. CASE openIterator
  <2>1. late' \subseteq late
    BY Zenon, <1>18 DEF openIterator
  <2> QED
    BY Zenon, <1>18, <2>1 DEF openIterator
<1>19. CASE seekFirstKey
  BY Zenon, <1>19 DEF seekFirstKey
<1>20. CASE checkContinue
  <2>1. store # Absent
    BY Zenon, <1>20 DEF checkContinue, StoreInv, active, reading
  <2>2. store'.name = store.name
    BY Zenon, <1>20, <2>1 DEF checkContinue, Store
  <2>3. \A n \in spoiled' : n \in spoiled \/ n = store.name
    BY Zenon, <1>20 DEF checkContinue, spoilsIf
  <2> QED
    BY Zenon, <1>20, <2>1, <2>2, <2>3 DEF checkContinue
<1>21. CASE appendHStore
  <2>1. isOld(current[1])
    BY Zenon, <1>21 DEF appendHStore, StoreInv, active, reading, current
  <2> QED
    BY Zenon, <1>21, <2>1 DEF appendHStore
<1>22. CASE appendHStoreFails
  <2>1. isOld(current[1])
    BY Zenon, <1>22 DEF appendHStoreFails, StoreInv, active, reading, current
  <2>2. \A r \in delivered' \union dropped' : isOld(r[1])
    BY Zenon, <1>22, <2>1 DEF appendHStoreFails
  <2> QED
    BY Zenon, <1>22, <2>2 DEF appendHStoreFails
<1>23. CASE doDumpEnds
  BY Zenon, <1>23 DEF doDumpEnds, spoilsIf, StoreInv, active, reading
<1>24. CASE deleteCacheStore
  BY Zenon, <1>24 DEF deleteCacheStore
<1>25. CASE reset
  BY Zenon, <1>25 DEF reset
<1>26. CASE resetNeedResume
  BY Zenon, <1>26 DEF resetNeedResume
<1>27. ASSUME NEW w \in Writers, appendStream(w) PROVE AgeInv'
  BY <1>27 DEF appendStream
<1>28. ASSUME NEW w \in Writers, canWrite(w) PROVE AgeInv'
  BY <1>28 DEF canWrite
<1>29. ASSUME NEW w \in Writers, getStoreToWrite(w) PROVE AgeInv'
  <2>1. \A v \in Writers : writer'[v].pc = "put" => isOld(writer'[v].name)
    <3>1. \A v \in Writers : v # w => writer'[v] = writer[v]
      BY Zenon, <1>29 DEF getStoreToWrite
    <3>2. writer'[w].pc = "put" => store # Absent /\ writer'[w].name = store.name
      BY <1>29 DEF getStoreToWrite, idleWriter
    <3> HIDE DEF TypeOK, isOld
    <3> QED
      BY Zenon, <3>1, <3>2
  <2> QED
    BY Zenon, <1>29, <2>1 DEF getStoreToWrite
<1>30. ASSUME NEW w \in Writers, putCF(w) PROVE AgeInv'
  <2> DEFINE record == <<writer[w].name, writer[w].offset>>
  <2>1. isOld(record[1])
    BY Zenon, <1>30 DEF putCF
  <2>2. acked' \subseteq acked \union {record} /\ late' \subseteq late \union {record}
    BY Zenon, <1>30 DEF putCF
  <2>3. store' # Absent => store # Absent /\ store'.name = store.name
    BY Zenon, <1>30 DEF putCF, Store
  <2>4. \A v \in Writers : writer'[v].pc = "put" => writer[v].pc = "put" /\ writer'[v] = writer[v]
    BY Zenon, <1>30 DEF putCF, idleWriter
  <2>5. UNCHANGED <<meta, modeVars, bounds, spoiled, delivered, dropped>>
    BY Zenon, <1>30 DEF putCF
  <2> QED
    BY Zenon, <2>1, <2>2, <2>3, <2>4, <2>5
<1>31. CASE UNCHANGED vars
  BY Zenon, <1>31 DEF vars, checkerVars, modeVars, cacheVars, dumpVars, writeVars
<1>32. CASE initCacheStoreFails
  BY Zenon, <1>32 DEF initCacheStoreFails, fault
<1>33. CASE iteratorFails
  BY Zenon, <1>33 DEF iteratorFails, spoilsIf, fault, StoreInv, active, reading
<1>34. CASE dumpThrows
  BY Zenon, <1>34 DEF dumpThrows, fault
<1>35. ASSUME NEW w \in Writers, putCFFails(w) PROVE AgeInv'
  BY Zenon, <1>35 DEF putCFFails, fault, idleWriter
<1>36. CASE restart
  <2>1. /\ store' = Absent /\ UNCHANGED <<acked, delivered, dropped, late>>
        /\ spoiled' = spoiled \union storeNames /\ monitor'.pc = "sleep"
        /\ \A w \in Writers : writer'[w].pc # "put"
    BY Zenon, <1>36 DEF restart, idleMonitor, idleWriter
  <2>2. age' \in Int /\ age' > age /\ age \in Int
    BY <1>36 DEF restart
  <2>3. \A n \in Nat : isOld(n) => isOld(n)'
    BY <2>1, <2>2
  <2>4. \A n \in storeNames : n \in Nat /\ isOld(n)
    BY DEF storeNames, Store, Generations
  <2>5. /\ \A n \in spoiled : n \in Nat /\ isOld(n)
        /\ \A r \in acked \union delivered \union dropped \union late :
             r[1] \in Nat /\ isOld(r[1])
    BY DEF Generations
  <2> HIDE DEF TypeOK, isOld, age
  <2> QED
    BY Zenon, <2>1, <2>3, <2>4, <2>5
<1> QED
  BY Zenon, <1>1, <1>2, <1>3, <1>4, <1>5, <1>6, <1>7, <1>8, <1>9, <1>10, <1>11, <1>12, <1>13,
     <1>14, <1>15, <1>16, <1>17, <1>18, <1>19, <1>20, <1>21, <1>22, <1>23, <1>24, <1>25,
     <1>26, <1>27, <1>28, <1>29, <1>30, <1>31, <1>32, <1>33, <1>34, <1>35, <1>36
     DEF Next, monitorSteps, dumpSteps, writes

\* initCacheStore creates a column family.
LEMMA Created ==
  ASSUME TypeOK, AgeInv, initCacheStore, store = Absent
  PROVE  /\ store' \in Store /\ store' # Absent
         /\ store'.name = age /\ store'.keys = {}
         /\ store'.nextKeyToDump = Absent
<1>1. age \in Generations
  BY BoundsAssumption DEF TypeOK, AgeInv, initCacheStore, age, at, Generations
<1>2. store' = [name |-> age, keys |-> {}, nextKeyToDump |-> Absent]
  BY Zenon DEF initCacheStore, age
<1>3. store' \in Store
  BY Zenon, <1>1, <1>2 DEF Store
<1> QED
  BY Zenon, <1>2, <1>3, AbsentAssumption

\* After an append the iterator moves on; a failed one may leave it where it is.
LEMMA DumperAfterAppend ==
  ASSUME TypeOK, appendHStore \/ appendHStoreFails
  PROVE  /\ dumper.pc = "append" /\ dumper'.pc \in {"check", "append"}
         /\ dumper'.pc = "check" =>
              /\ dumper'.iter = dumper.iter \ {lowest(dumper.iter)}
              /\ appendHStore \/ givesUp \/ dumper'.broken
         /\ dumper.broken => dumper'.broken
         /\ dumper'.pc = "append" =>
              dumper'.iter = dumper.iter /\ dumper'.retries = dumper.retries - 1 /\ dumper.retries # 1
<1>1. dumper \in Dumper /\ dumper.pc = "append"
  BY Zenon DEF TypeOK, appendHStore, appendHStoreFails, in
<1>2. \/ next(FALSE) /\ appendHStore
      \/ next(dumpState # "Dumping") /\ (dumpState # "Dumping" \/ givesUp)
      \/ dumper' = [dumper EXCEPT !.retries = @ - 1] /\ dumper.retries # 1
  <2>1. CASE appendHStore
    BY Zenon, <2>1 DEF appendHStore
  <2>2. CASE appendHStoreFails /\ (dumpState # "Dumping" \/ givesUp)
    BY Zenon, <2>2 DEF appendHStoreFails
  <2>3. CASE appendHStoreFails /\ ~(dumpState # "Dumping" \/ givesUp)
    <3>1. dumper' = [dumper EXCEPT !.retries = @ - 1]
      BY Zenon, <2>3 DEF appendHStoreFails
    <3> QED
      BY Zenon, <2>3, <3>1 DEF givesUp
  <2> QED
    BY Zenon, <2>1, <2>2, <2>3
<1> QED
  BY Zenon, <1>1, <1>2 DEF next, Dumper

\* The store belongs to the dump thread until that deletes it (dump, deleteCacheStore).
LEMMA StoreStep ==
  TypeOK /\ AgeInv /\ StoreInv /\ [Next]_vars => StoreInv'
<1> SUFFICES ASSUME TypeOK, AgeInv, StoreInv, [Next]_vars
             PROVE  StoreInv'
  BY Zenon
<1> USE AbsentAssumption DEF TypeOK, StoreInv, DumpStateTellsDumper, active, reading,
         Monitor, Dumper, vars, checkerVars, modeVars, cacheVars, dumpVars, writeVars,
         othersOfDump, othersOfWrite, at, goTo, in, move
<1>1. CASE clusterChanges
  BY Zenon, <1>1 DEF clusterChanges, nodeFails, nodeRecovers
<1>2. CASE checkLdCluster
  BY Zenon, <1>2 DEF checkLdCluster
<1>3. CASE clusterStateArrives
  BY Zenon, <1>3 DEF clusterStateArrives
<1>4. CASE ldClusterChecked
  BY Zenon, <1>4 DEF ldClusterChecked
<1>5. CASE docheck
  BY Zenon, <1>5 DEF docheck
<1>6. CASE initCacheStore
  <2>1. monitor'.pc = "cacheMode" /\ UNCHANGED <<dumper, dumpState>>
    BY Zenon, <1>6 DEF initCacheStore
  <2>2. CASE store = Absent
    BY Zenon, <2>1, <2>2, <1>6, Created
  <2>3. CASE store # Absent
    BY Zenon, <1>6, <2>1, <2>3 DEF initCacheStore
  <2> QED
    BY Zenon, <2>2, <2>3
<1>7. CASE setCacheMode
  BY Zenon, <1>7 DEF setCacheMode
<1>8. CASE suspendDump
  BY Zenon, <1>8 DEF suspendDump
<1>9. CASE setNeedResume
  BY Zenon, <1>9 DEF setNeedResume
<1>10. CASE setServerBackup
  BY Zenon, <1>10 DEF setServerBackup
<1>11. CASE setServerNormal
  BY Zenon, <1>11 DEF setServerNormal
<1>12. CASE setDumpMode
  BY Zenon, <1>12 DEF setDumpMode
<1>13. CASE resumeDump
  BY Zenon, <1>13 DEF resumeDump
<1>14. CASE dumpToHStore
  BY <1>14 DEF dumpToHStore, idleDumper
<1>15. CASE getStoreToDump
  BY Zenon, <1>15 DEF getStoreToDump
<1>16. CASE dumpLoop
  BY Zenon, <1>16 DEF dumpLoop
<1>17. CASE awaitDumping
  BY Zenon, <1>17 DEF awaitDumping
<1>18. CASE openIterator
  BY Zenon, <1>18 DEF openIterator
<1>19. CASE seekFirstKey
  BY Zenon, <1>19 DEF seekFirstKey
<1>20. CASE checkContinue
  <2>1. store # Absent /\ UNCHANGED <<dumpState, monitor>>
    BY Zenon, <1>20 DEF checkContinue
  <2>2. store' # Absent /\ store'.name = store.name
    <3>1. store' = store \/ \E k \in Nat : store' = [store EXCEPT !.nextKeyToDump = k]
      BY Zenon, <1>20, LowestIsLowest DEF checkContinue
    <3>2. store \in Store
      BY Zenon, <2>1
    <3>3. store'.name = store.name
      BY Zenon, <3>1, <3>2 DEF Store
    <3>4. store' \in Store
      BY <3>1, <3>2 DEF Store
    <3> QED
      BY Zenon, <2>1, <3>3, <3>4
  <2>3. dumper'.pc \in {"append", "ended"}
    BY Zenon, <1>20 DEF checkContinue
  <2> QED
    BY Zenon, <1>20, <2>1, <2>2, <2>3 DEF checkContinue
<1>21. CASE appendHStore
  <2>1. UNCHANGED <<store, dumpState, monitor>>
    BY Zenon, <1>21 DEF appendHStore
  <2>2. dumper.pc = "append" /\ dumper'.pc \in {"check", "append"}
    BY Zenon, <1>21, DumperAfterAppend
  <2> QED
    BY Zenon, <2>1, <2>2
<1>22. CASE appendHStoreFails
  <2>1. UNCHANGED <<store, dumpState, monitor>>
    BY Zenon, <1>22 DEF appendHStoreFails
  <2>2. dumper.pc = "append" /\ dumper'.pc \in {"check", "append"}
    BY Zenon, <1>22, DumperAfterAppend
  <2> QED
    BY Zenon, <2>1, <2>2
<1>23. CASE doDumpEnds
  BY Zenon, <1>23 DEF doDumpEnds
<1>24. CASE deleteCacheStore
  BY Zenon, <1>24 DEF deleteCacheStore
<1>25. CASE reset
  BY Zenon, <1>25 DEF reset, idleDumper
<1>26. CASE resetNeedResume
  BY Zenon, <1>26 DEF resetNeedResume
<1>27. ASSUME NEW w \in Writers, appendStream(w) PROVE StoreInv'
  BY Zenon, <1>27 DEF appendStream
<1>28. ASSUME NEW w \in Writers, canWrite(w) PROVE StoreInv'
  BY Zenon, <1>28 DEF canWrite
<1>29. ASSUME NEW w \in Writers, getStoreToWrite(w) PROVE StoreInv'
  BY Zenon, <1>29 DEF getStoreToWrite
<1>30. ASSUME NEW w \in Writers, putCF(w) PROVE StoreInv'
  BY <1>30 DEF putCF, Store
<1>31. CASE UNCHANGED vars
  BY Zenon, <1>31 DEF vars, checkerVars, modeVars, cacheVars, dumpVars, writeVars
<1>32. CASE initCacheStoreFails
  BY Zenon, <1>32 DEF initCacheStoreFails
<1>33. CASE iteratorFails
  BY Zenon, <1>33 DEF iteratorFails
<1>34. CASE dumpThrows
  BY Zenon, <1>34 DEF dumpThrows, idleDumper
<1>35. ASSUME NEW w \in Writers, putCFFails(w) PROVE StoreInv'
  BY Zenon, <1>35 DEF putCFFails
<1>36. CASE restart
  <2> HIDE DEF TypeOK
  <2>1. store' = Absent /\ dumpState' = "NoDump" /\ dumper'.pc = "none" /\ monitor'.pc = "sleep"
    BY ZenonT(30), <1>36 DEF restart, idleDumper, idleMonitor
  <2> QED
    BY Zenon, <2>1
<1> QED
  BY Zenon, <1>1, <1>2, <1>3, <1>4, <1>5, <1>6, <1>7, <1>8, <1>9, <1>10, <1>11, <1>12, <1>13,
     <1>14, <1>15, <1>16, <1>17, <1>18, <1>19, <1>20, <1>21, <1>22, <1>23, <1>24, <1>25,
     <1>26, <1>27, <1>28, <1>29, <1>30, <1>31, <1>32, <1>33, <1>34, <1>35, <1>36
     DEF Next, monitorSteps, dumpSteps, writes

\* Keys are dumped upwards (doDump).
LEMMA OrderStep ==
  TypeOK /\ AgeInv /\ StoreInv /\ OrderInv /\ [Next]_vars => OrderInv'
<1> SUFFICES ASSUME TypeOK, AgeInv, StoreInv, OrderInv, [Next]_vars
             PROVE  OrderInv'
  BY Zenon
<1> USE AbsentAssumption DEF TypeOK, OrderInv, Dumper, vars, checkerVars, modeVars,
         cacheVars, dumpVars, writeVars, othersOfDump, othersOfWrite, at, goTo, in, move
<1>1. CASE clusterChanges
  BY Zenon, <1>1 DEF clusterChanges, nodeFails, nodeRecovers
<1>2. CASE checkLdCluster
  BY Zenon, <1>2 DEF checkLdCluster
<1>3. CASE clusterStateArrives
  BY Zenon, <1>3 DEF clusterStateArrives
<1>4. CASE ldClusterChecked
  BY Zenon, <1>4 DEF ldClusterChecked
<1>5. CASE docheck
  BY Zenon, <1>5 DEF docheck
<1>6. CASE initCacheStore
  <2>1. CASE store = Absent
    <3>1. dumper.pc \notin {"check", "append"}
      BY Zenon, <2>1 DEF StoreInv, active, reading
    <3>2. store'.name = age
      BY Zenon, <1>6, <2>1, Created
    <3>3. \A r \in delivered : r[1] \in Int /\ r[1] < age
      BY <1>6 DEF AgeInv, isOld, initCacheStore, Generations
    <3>4. age \in Int
      BY BoundsAssumption DEF age
    <3>5. \A r \in delivered : r[1] # store'.name
      BY <3>2, <3>3, <3>4
    <3> QED
      BY Zenon, <1>6, <3>1, <3>5 DEF initCacheStore
  <2>2. CASE store # Absent
    BY Zenon, <1>6, <2>2 DEF initCacheStore
  <2> QED
    BY Zenon, <2>1, <2>2
<1>7. CASE setCacheMode
  BY Zenon, <1>7 DEF setCacheMode
<1>8. CASE suspendDump
  BY Zenon, <1>8 DEF suspendDump
<1>9. CASE setNeedResume
  BY Zenon, <1>9 DEF setNeedResume
<1>10. CASE setServerBackup
  BY Zenon, <1>10 DEF setServerBackup
<1>11. CASE setServerNormal
  BY Zenon, <1>11 DEF setServerNormal
<1>12. CASE setDumpMode
  BY Zenon, <1>12 DEF setDumpMode
<1>13. CASE resumeDump
  BY Zenon, <1>13 DEF resumeDump
<1>14. CASE dumpToHStore
  BY Zenon, <1>14 DEF dumpToHStore, idleDumper
<1>15. CASE getStoreToDump
  BY Zenon, <1>15 DEF getStoreToDump
<1>16. CASE dumpLoop
  BY Zenon, <1>16 DEF dumpLoop
<1>17. CASE awaitDumping
  BY Zenon, <1>17 DEF awaitDumping
<1>18. CASE openIterator
  BY Zenon, <1>18 DEF openIterator
<1>19. CASE seekFirstKey
  <2>1. store \in Store /\ UNCHANGED <<store, delivered>>
    BY Zenon, <1>19 DEF seekFirstKey, StoreInv, active, reading
  <2>2. /\ dumper'.pc = "check" /\ dumper'.iter \subseteq Nat
        /\ \A o \in dumper'.iter : store.nextKeyToDump = Absent \/ o >= store.nextKeyToDump
    BY Zenon, <1>19 DEF seekFirstKey, aheadOfDump
  <2>3. ASSUME NEW r \in delivered, NEW o \in dumper'.iter, r[1] = store.name
        PROVE  r[2] <= o
    <3>1. store.nextKeyToDump # Absent /\ r[2] <= store.nextKeyToDump
      BY Zenon, <2>1, <2>3
    <3>2. store.nextKeyToDump \in Nat /\ r[2] \in Nat /\ o \in Nat
      BY Zenon, <2>1, <2>2, <3>1 DEF Store
    <3> HIDE DEF TypeOK, OrderInv
    <3> QED
      BY <2>2, <3>1, <3>2
  <2> QED
    BY Zenon, <2>1, <2>2, <2>3
<1>20. CASE checkContinue
  <2>1. store \in Store /\ UNCHANGED delivered
    BY Zenon, <1>20 DEF checkContinue, StoreInv, active, reading
  <2>2. CASE dumpState = "Dumping" /\ dumper.iter # {}
    <3>1. lowest(dumper.iter) \in dumper.iter /\ lowest(dumper.iter) # Absent
      BY <2>2, LowestIsLowest
    <3>2. store'.name = store.name /\ store'.nextKeyToDump = lowest(dumper.iter)
      BY Zenon, <1>20, <2>1, <2>2 DEF checkContinue, Store
    <3>3. dumper'.pc = "append" /\ dumper'.iter = dumper.iter /\ dumper'.retries > 0
      <4>1. dumper' = [dumper EXCEPT !.pc = "append", !.retries = maxTries]
        BY Zenon, <1>20, <2>2 DEF checkContinue
      <4>2. dumper'.pc = "append" /\ dumper'.iter = dumper.iter /\ dumper'.retries = maxTries
        BY Zenon, <4>1
      <4> QED
        BY <4>2 DEF maxTries
    <3>4. \A r \in delivered, o \in dumper.iter : r[1] = store.name => r[2] <= o
      BY Zenon, <1>20, <2>1 DEF checkContinue
    <3>5. \A r \in delivered : r[1] = store.name => r[2] <= lowest(dumper.iter)
      BY Zenon, <3>1, <3>4
    <3> HIDE DEF TypeOK
    <3> QED
      BY Zenon, <2>1, <2>2, <3>1, <3>2, <3>3, <3>4, <3>5
  <2>3. CASE ~(dumpState = "Dumping" /\ dumper.iter # {})
    BY Zenon, <1>20, <2>1, <2>3 DEF checkContinue
  <2> QED
    BY Zenon, <2>2, <2>3
<1>21. CASE appendHStore
  <2>1. store \in Store /\ dumper.iter # {} /\ dumper.iter \subseteq Nat
    BY Zenon, <1>21 DEF appendHStore, StoreInv, active, reading
  <2>2. /\ lowest(dumper.iter) \in dumper.iter
        /\ \A p \in dumper.iter : lowest(dumper.iter) <= p
    BY Zenon, <2>1, LowestIsLowest
  <2>3. store' = store /\ delivered' \subseteq delivered \union {<<store.name, lowest(dumper.iter)>>}
    BY Zenon, <1>21 DEF appendHStore, current
  <2>4. \A r \in delivered', o \in dumper.iter : r[1] = store.name => r[2] <= o
    <3>1. \A r \in delivered, o \in dumper.iter : r[1] = store.name => r[2] <= o
      BY Zenon, <1>21, <2>1 DEF appendHStore
    <3> HIDE DEF TypeOK, OrderInv
    <3> QED
      BY <2>2, <2>3, <3>1
  <2>5. /\ dumper.pc = "append" /\ dumper'.pc \in {"check", "append"}
        /\ dumper'.pc = "check" => dumper'.iter = dumper.iter \ {lowest(dumper.iter)}
        /\ dumper'.pc = "append" =>
             dumper'.iter = dumper.iter /\ dumper'.retries = dumper.retries - 1 /\ dumper.retries # 1
    BY Zenon, <1>21, DumperAfterAppend
  <2>6. store.nextKeyToDump = lowest(dumper.iter) /\ store.nextKeyToDump # Absent
    BY Zenon, <1>21, <2>1, <2>2 DEF appendHStore
  <2>7. \A r \in delivered' : r[1] = store.name => r[2] <= store.nextKeyToDump
    BY Zenon, <2>2, <2>4, <2>6
  <2>8. dumper'.pc = "append" => dumper'.retries > 0
    <3>1. dumper.retries \in Nat /\ dumper.retries > 0
      BY SMTT(20), <2>1, <2>5 DEF maxTries
    <3> HIDE DEF TypeOK, OrderInv
    <3> QED
      BY <2>5, <3>1
  <2> QED
    BY Zenon, <2>1, <2>3, <2>4, <2>5, <2>6, <2>7, <2>8
<1>22. CASE appendHStoreFails
  <2>1. store \in Store /\ dumper.iter # {} /\ dumper.iter \subseteq Nat
    BY Zenon, <1>22 DEF appendHStoreFails, StoreInv, active, reading
  <2>2. /\ lowest(dumper.iter) \in dumper.iter
        /\ \A p \in dumper.iter : lowest(dumper.iter) <= p
    BY Zenon, <2>1, LowestIsLowest
  <2>3. store' = store /\ delivered' \subseteq delivered \union {<<store.name, lowest(dumper.iter)>>}
    BY Zenon, <1>22 DEF appendHStoreFails, current
  <2>4. \A r \in delivered', o \in dumper.iter : r[1] = store.name => r[2] <= o
    <3>1. \A r \in delivered, o \in dumper.iter : r[1] = store.name => r[2] <= o
      BY Zenon, <1>22, <2>1 DEF appendHStoreFails
    <3> HIDE DEF TypeOK, OrderInv
    <3> QED
      BY <2>2, <2>3, <3>1
  <2>5. /\ dumper.pc = "append" /\ dumper'.pc \in {"check", "append"}
        /\ dumper'.pc = "check" => dumper'.iter = dumper.iter \ {lowest(dumper.iter)}
        /\ dumper'.pc = "append" =>
             dumper'.iter = dumper.iter /\ dumper'.retries = dumper.retries - 1 /\ dumper.retries # 1
    BY Zenon, <1>22, DumperAfterAppend
  <2>6. store.nextKeyToDump = lowest(dumper.iter) /\ store.nextKeyToDump # Absent
    BY SMTT(20), <1>22, <2>1, <2>2 DEF appendHStoreFails
  <2>7. \A r \in delivered' : r[1] = store.name => r[2] <= store.nextKeyToDump
    BY Zenon, <2>2, <2>4, <2>6
  <2>8. dumper'.pc = "append" => dumper'.retries > 0
    <3>1. dumper.retries \in Nat /\ dumper.retries > 0
      BY <2>1, <2>5 DEF maxTries
    <3> HIDE DEF TypeOK, OrderInv
    <3> QED
      BY <2>5, <3>1
  <2> QED
    BY Zenon, <2>1, <2>3, <2>4, <2>5, <2>6, <2>7, <2>8
<1>23. CASE doDumpEnds
  BY Zenon, <1>23 DEF doDumpEnds
<1>24. CASE deleteCacheStore
  BY Zenon, <1>24 DEF deleteCacheStore
<1>25. CASE reset
  BY Zenon, <1>25 DEF reset, idleDumper
<1>26. CASE resetNeedResume
  BY Zenon, <1>26 DEF resetNeedResume
<1>27. ASSUME NEW w \in Writers, appendStream(w) PROVE OrderInv'
  BY Zenon, <1>27 DEF appendStream
<1>28. ASSUME NEW w \in Writers, canWrite(w) PROVE OrderInv'
  BY Zenon, <1>28 DEF canWrite
<1>29. ASSUME NEW w \in Writers, getStoreToWrite(w) PROVE OrderInv'
  BY Zenon, <1>29 DEF getStoreToWrite
<1>30. ASSUME NEW w \in Writers, putCF(w) PROVE OrderInv'
  BY Zenon, <1>30 DEF putCF, Store
<1>31. CASE UNCHANGED vars
  BY Zenon, <1>31 DEF vars, checkerVars, modeVars, cacheVars, dumpVars, writeVars
<1>32. CASE initCacheStoreFails
  BY Zenon, <1>32 DEF initCacheStoreFails
<1>33. CASE iteratorFails
  BY Zenon, <1>33 DEF iteratorFails
<1>34. CASE dumpThrows
  BY Zenon, <1>34 DEF dumpThrows, idleDumper
<1>35. ASSUME NEW w \in Writers, putCFFails(w) PROVE OrderInv'
  BY Zenon, <1>35 DEF putCFFails
<1>36. CASE restart
  <2> HIDE DEF TypeOK
  <2> QED
    BY ZenonT(30), <1>36 DEF restart
<1> QED
  BY Zenon, <1>1, <1>2, <1>3, <1>4, <1>5, <1>6, <1>7, <1>8, <1>9, <1>10, <1>11, <1>12, <1>13,
     <1>14, <1>15, <1>16, <1>17, <1>18, <1>19, <1>20, <1>21, <1>22, <1>23, <1>24, <1>25,
     <1>26, <1>27, <1>28, <1>29, <1>30, <1>31, <1>32, <1>33, <1>34, <1>35, <1>36
     DEF Next, monitorSteps, dumpSteps, writes

\* The dumps of a store that is not spoiled deal with every key they pass (doDump).
LEMMA LossStep ==
  TypeOK /\ AgeInv /\ StoreInv /\ OrderInv /\ LossInv /\ [Next]_vars => LossInv'
<1> SUFFICES ASSUME TypeOK, AgeInv, StoreInv, OrderInv, LossInv, [Next]_vars
             PROVE  LossInv'
  BY Zenon
<1> USE AbsentAssumption DEF TypeOK, LossInv, NothingLostQuietly, covered, Dumper, active,
         reading, vars, checkerVars, modeVars, cacheVars, dumpVars, writeVars,
         othersOfDump, othersOfWrite, at, goTo, in, move
<1>0. store' = store => \A o : aheadOfDump(o)' <=> aheadOfDump(o)
  BY Zenon DEF aheadOfDump
<1>1. CASE clusterChanges
  BY Zenon, <1>1, <1>0 DEF clusterChanges, nodeFails, nodeRecovers
<1>2. CASE checkLdCluster
  BY Zenon, <1>2, <1>0 DEF checkLdCluster
<1>3. CASE clusterStateArrives
  BY Zenon, <1>3, <1>0 DEF clusterStateArrives
<1>4. CASE ldClusterChecked
  BY Zenon, <1>4, <1>0 DEF ldClusterChecked
<1>5. CASE docheck
  BY Zenon, <1>5, <1>0 DEF docheck
<1>6. CASE initCacheStore
  <2>1. CASE store = Absent
    <3>1. dumper.pc \notin active /\ store'.keys = {}
      BY Zenon, <1>6, <2>1, Created DEF StoreInv
    <3>2. UNCHANGED <<dumper, acked, delivered, dropped, late, spoiled>>
      BY Zenon, <1>6 DEF initCacheStore
    <3>3. \A r \in acked \ (delivered \union dropped \union late) : r[1] \in spoiled
      BY Zenon, <2>1
    <3> QED
      BY Zenon, <3>1, <3>2, <3>3
  <2>2. CASE store # Absent
    BY Zenon, <1>6, <1>0, <2>2 DEF initCacheStore
  <2> QED
    BY Zenon, <2>1, <2>2
<1>7. CASE setCacheMode
  BY Zenon, <1>7, <1>0 DEF setCacheMode
<1>8. CASE suspendDump
  BY Zenon, <1>8, <1>0 DEF suspendDump
<1>9. CASE setNeedResume
  BY Zenon, <1>9, <1>0 DEF setNeedResume
<1>10. CASE setServerBackup
  BY Zenon, <1>10, <1>0 DEF setServerBackup
<1>11. CASE setServerNormal
  BY Zenon, <1>11, <1>0 DEF setServerNormal
<1>12. CASE setDumpMode
  BY Zenon, <1>12, <1>0 DEF setDumpMode
<1>13. CASE resumeDump
  BY Zenon, <1>13, <1>0 DEF resumeDump
<1>14. CASE dumpToHStore
  <2>1. dumper' = dumper \/ dumper'.pc = "getStore"
    BY Zenon, <1>14 DEF dumpToHStore, idleDumper
  <2>2. UNCHANGED <<store, acked, delivered, dropped, late, spoiled>>
    BY Zenon, <1>14 DEF dumpToHStore
  <2> QED
    BY Zenon, <1>0, <2>1, <2>2
<1>15. CASE getStoreToDump
  BY Zenon, <1>15, <1>0 DEF getStoreToDump, StoreInv
<1>16. CASE dumpLoop
  BY Zenon, <1>16, <1>0 DEF dumpLoop, StoreInv, DumpStateTellsDumper
<1>17. CASE awaitDumping
  BY Zenon, <1>17, <1>0 DEF awaitDumping
<1>18. CASE openIterator
  <2> DEFINE seen == {<<store.name, o>> : o \in {k \in store.keys : aheadOfDump(k)}}
  <2>1. store \in Store /\ store' = store /\ dumper.pc = "open"
    BY Zenon, <1>18 DEF openIterator, StoreInv
  <2>2. dumper'.pc = "seek" /\ dumper'.iter = store.keys /\ ~dumper'.broken
    BY Zenon, <1>18 DEF openIterator
  <2>3. late' = late \ seen /\ UNCHANGED <<acked, delivered, dropped, spoiled>>
    BY Zenon, <1>18 DEF openIterator
  <2>4. NothingLostQuietly'
    <3> SUFFICES ASSUME NEW r \in acked, r \notin delivered \union dropped, r \notin late \/ r \in seen
                 PROVE  r[1] \in spoiled \/ (r[1] = store.name /\ r[2] \in store.keys)
      BY Zenon, <2>1, <2>3
    <3>1. CASE r \in seen
      BY <3>1
    <3>2. CASE r \notin late
      BY Zenon, <2>1, <3>2
    <3> QED
      BY Zenon, <3>1, <3>2
  <2>5. ASSUME NEW o \in store.keys, ~aheadOfDump(o) PROVE <<store.name, o>> \notin seen
    BY <2>5
  <2>6. \A o \in store.keys : ~aheadOfDump(o) /\ covered(o) => covered(o)'
    <3> HIDE DEF seen
    <3> QED
      BY Zenon, <2>1, <2>3, <2>5
  <2>7. \A o \in store.keys : aheadOfDump(o)' <=> aheadOfDump(o)
    BY Zenon, <2>1 DEF aheadOfDump
  <2> HIDE DEF covered, NothingLostQuietly, seen, TypeOK
  <2> QED
    BY Zenon, <2>1, <2>2, <2>3, <2>4, <2>6, <2>7
<1>19. CASE seekFirstKey
  <2>1. dumper.pc = "seek" /\ dumper'.pc = "check"
    BY Zenon, <1>19 DEF seekFirstKey
  <2>2. \A o \in dumper.iter : aheadOfDump(o) => o \in dumper'.iter
    BY Zenon, <1>19 DEF seekFirstKey
  <2>3. UNCHANGED <<store, acked, delivered, dropped, late, spoiled>>
    BY Zenon, <1>19 DEF seekFirstKey
  <2>4. \A o : aheadOfDump(o)' <=> aheadOfDump(o)
    BY Zenon, <2>3 DEF aheadOfDump
  <2> QED
    BY Zenon, <2>1, <2>2, <2>3, <2>4
<1>20. CASE checkContinue
  <2>1. store \in Store /\ dumper.pc = "check"
    BY Zenon, <1>20 DEF checkContinue, StoreInv
  <2>2. UNCHANGED <<acked, delivered, dropped, late>> /\ spoiled \subseteq spoiled'
    BY Zenon, <1>20 DEF checkContinue, spoilsIf
  <2>3. CASE dumpState = "Dumping" /\ dumper.iter # {}
    <3>1. /\ store'.name = store.name /\ store'.keys = store.keys
          /\ store'.nextKeyToDump = lowest(dumper.iter)
      BY <1>20, <2>1, <2>3 DEF checkContinue, Store
    <3>2. /\ dumper'.pc = "append" /\ dumper'.iter = dumper.iter
          /\ dumper.broken => store.name \in spoiled'
      BY Zenon, <1>20, <2>3 DEF checkContinue, spoilsIf
    <3>3. NothingLostQuietly'
      <4>1. store' # Absent
        BY <2>1, <2>3, LowestIsLowest, <1>20 DEF checkContinue, Store
      <4> QED
        BY Zenon, <2>1, <2>2, <3>1, <4>1
    <3>4. \A o \in store.keys : covered(o) => covered(o)'
      BY Zenon, <2>2, <3>1
    <3>5. \A o \in dumper.iter : aheadOfDump(o)'
      BY <2>3, <3>1, LowestIsLowest DEF aheadOfDump
    <3> HIDE DEF covered, NothingLostQuietly, TypeOK
    <3> QED
      BY Zenon, <2>1, <2>2, <3>1, <3>2, <3>3, <3>4, <3>5
  <2>4. CASE ~(dumpState = "Dumping" /\ dumper.iter # {})
    <3>1. /\ dumper'.pc = "ended" /\ store' = store
          /\ dumper'.broken \/ (~dumper.broken /\ dumpState = "Dumping")
      BY Zenon, <1>20, <2>4 DEF checkContinue
    <3> QED
      BY Zenon, <1>0, <2>1, <2>2, <2>4, <3>1
  <2> QED
    BY Zenon, <2>3, <2>4
<1>21. CASE appendHStore
  <2>1. store \in Store /\ dumper.pc = "append"
    BY Zenon, <1>21 DEF appendHStore, StoreInv
  <2>2. UNCHANGED <<store, acked, late, spoiled>>
    BY Zenon, <1>21 DEF appendHStore
  <2>3. delivered \subseteq delivered' /\ dropped \subseteq dropped'
    BY Zenon, <1>21 DEF appendHStore
  <2>4. \/ dumper'.pc = "append" /\ dumper'.iter = dumper.iter
        \/ dumper'.pc = "check" /\ dumper'.iter = dumper.iter \ {lowest(dumper.iter)}
    BY Zenon, <1>21, DumperAfterAppend
  <2>5. dumper.broken => dumper'.broken
    BY Zenon, <1>21, DumperAfterAppend
  <2>6. dumper'.pc = "check" /\ ~dumper'.broken =>
          <<store.name, lowest(dumper.iter)>> \in delivered' \union dropped'
    BY Zenon, <1>21 DEF appendHStore, current
  <2>7. NothingLostQuietly'
    BY Zenon, <2>2, <2>3
  <2>8. \A o \in store.keys : covered(o) => covered(o)'
    BY Zenon, <2>2, <2>3
  <2>9. ~dumper'.broken => \A o \in dumper.iter : o \in dumper'.iter \/ covered(o)'
    BY Zenon, <2>2, <2>4, <2>6
  <2>10. \A o \in store.keys : aheadOfDump(o)' <=> aheadOfDump(o)
    BY Zenon, <2>2 DEF aheadOfDump
  <2> HIDE DEF covered, NothingLostQuietly, TypeOK
  <2> QED
    BY Zenon, <2>1, <2>2, <2>4, <2>5, <2>7, <2>8, <2>9, <2>10
<1>22. CASE appendHStoreFails
  <2>1. store \in Store /\ dumper.pc = "append"
    BY Zenon, <1>22 DEF appendHStoreFails, StoreInv
  <2>2. UNCHANGED <<store, acked, late, spoiled>>
    BY Zenon, <1>22 DEF appendHStoreFails
  <2>3. delivered \subseteq delivered' /\ dropped \subseteq dropped'
    BY Zenon, <1>22 DEF appendHStoreFails
  <2>4. \/ dumper'.pc = "append" /\ dumper'.iter = dumper.iter
        \/ dumper'.pc = "check" /\ dumper'.iter = dumper.iter \ {lowest(dumper.iter)}
    BY Zenon, <1>22, DumperAfterAppend
  <2>5. dumper.broken => dumper'.broken
    BY Zenon, <1>22, DumperAfterAppend
  <2>6. dumper'.pc = "check" /\ ~dumper'.broken =>
          <<store.name, lowest(dumper.iter)>> \in delivered' \union dropped'
    <3>1. dumper'.pc = "check" /\ ~dumper'.broken => appendHStore \/ givesUp
      BY Zenon, <1>22, DumperAfterAppend
    <3>2. appendHStore => current \in delivered'
      BY Zenon DEF appendHStore
    <3>3. givesUp => current \in dropped'
      BY SMTT(20), <1>22 DEF appendHStoreFails
    <3> QED
      BY Zenon, <3>1, <3>2, <3>3 DEF current
  <2>7. NothingLostQuietly'
    BY Zenon, <2>2, <2>3
  <2>8. \A o \in store.keys : covered(o) => covered(o)'
    BY Zenon, <2>2, <2>3
  <2>9. ~dumper'.broken => \A o \in dumper.iter : o \in dumper'.iter \/ covered(o)'
    BY Zenon, <2>2, <2>4, <2>6
  <2>10. \A o \in store.keys : aheadOfDump(o)' <=> aheadOfDump(o)
    BY Zenon, <2>2 DEF aheadOfDump
  <2> HIDE DEF covered, NothingLostQuietly, TypeOK
  <2> QED
    BY Zenon, <2>1, <2>2, <2>4, <2>5, <2>7, <2>8, <2>9, <2>10
<1>23. CASE doDumpEnds
  <2>1. /\ store \in Store /\ store' = store /\ dumper.pc = "ended"
        /\ UNCHANGED <<acked, delivered, dropped, late>> /\ spoiled \subseteq spoiled'
    BY Zenon, <1>23 DEF doDumpEnds, spoilsIf, StoreInv
  <2>2. dumper'.pc = "loop" \/ (dumper'.pc = "delete" /\ (dumper.broken => store.name \in spoiled'))
    BY Zenon, <1>23 DEF doDumpEnds, spoilsIf
  <2> QED
    BY Zenon, <1>0, <2>1, <2>2
<1>24. CASE deleteCacheStore
  <2>1. store' = Absent /\ UNCHANGED <<acked, delivered, dropped, late, spoiled>>
    BY Zenon, <1>24 DEF deleteCacheStore
  <2>2. store # Absent /\ dumper.pc = "delete"
    BY Zenon, <1>24 DEF deleteCacheStore, StoreInv
  <2>3. ASSUME NEW r \in acked \ (delivered \union dropped \union late)
        PROVE  r[1] \in spoiled
    <3>1. r = <<r[1], r[2]>>
      <4>1. r \in Generations \X Nat
        BY Zenon
      <4> HIDE DEF TypeOK, LossInv
      <4> QED
        BY <4>1
    <3> HIDE DEF TypeOK
    <3>2. CASE r[1] = store.name /\ r[2] \in store.keys /\ store.name \notin spoiled
      <4>1. covered(r[2])
        BY Zenon, <2>2, <3>2
      <4> QED
        BY Zenon, <3>1, <3>2, <4>1
    <3> QED
      BY Zenon, <2>2, <3>2
  <2> QED
    BY Zenon, <2>1, <2>3
<1>25. CASE reset
  BY Zenon, <1>25, <1>0 DEF reset, idleDumper
<1>26. CASE resetNeedResume
  BY Zenon, <1>26, <1>0 DEF resetNeedResume
<1>27. ASSUME NEW w \in Writers, appendStream(w) PROVE LossInv'
  BY Zenon, <1>27, <1>0 DEF appendStream
<1>28. ASSUME NEW w \in Writers, canWrite(w) PROVE LossInv'
  BY Zenon, <1>28, <1>0 DEF canWrite
<1>29. ASSUME NEW w \in Writers, getStoreToWrite(w) PROVE LossInv'
  BY Zenon, <1>29, <1>0 DEF getStoreToWrite
<1>30. ASSUME NEW w \in Writers, putCF(w) PROVE LossInv'
  <2>0. PICK new : new = writer[w].offset
    BY Zenon
  <2> DEFINE record == <<writer[w].name, new>>
             open == store # Absent /\ store.name = writer[w].name
  <2>1. acked' \subseteq acked \union {record} /\ late \subseteq late'
    BY Zenon, <1>30, <2>0 DEF putCF
  <2>2. UNCHANGED <<dumper, delivered, dropped, spoiled>>
    BY Zenon, <1>30 DEF putCF
  <2>3. CASE ~open
    <3>1. store' = store /\ record \in late'
      BY Zenon, <1>30, <2>0, <2>3 DEF putCF
    <3>2. \A o \in store.keys : aheadOfDump(o)' <=> aheadOfDump(o)
      BY Zenon, <3>1 DEF aheadOfDump
    <3> QED
      BY Zenon, <2>1, <2>2, <3>1, <3>2
  <2>4. CASE open
    <3>1. store \in Store /\ store' = [store EXCEPT !.keys = @ \union {new}]
      BY Zenon, <1>30, <2>0, <2>4 DEF putCF
    <3>2. /\ store'.name = store.name /\ store'.keys = store.keys \union {new}
          /\ store'.nextKeyToDump = store.nextKeyToDump /\ store' # Absent
      <4>1. new \in Nat
        BY Zenon, <2>0
      <4>2. store' \in Store
        BY Zenon, <3>1, <4>1 DEF Store
      <4> QED
        BY Zenon, <3>1, <4>2 DEF Store
    <3>3. iterating \/ ~aheadOfDump(new) => record \in late'
      BY Zenon, <1>30, <2>0, <2>4 DEF putCF
    <3>4. NothingLostQuietly'
      <4> HIDE DEF TypeOK
      <4> SUFFICES ASSUME NEW r \in acked', r \notin delivered \union dropped \union late
                   PROVE  \/ r[1] \in spoiled
                          \/ r[1] = store.name /\ r[2] \in store.keys \union {new}
        BY Zenon, <2>1, <2>2, <3>2
      <4>1. CASE r = record
        BY Zenon, <2>4, <4>1
      <4>2. CASE r # record
        BY Zenon, <2>1, <4>2
      <4> QED
        BY Zenon, <4>1, <4>2
    <3>5. \A o \in store.keys : covered(o) => covered(o)'
      BY Zenon, <2>1, <2>2, <3>2
    <3>6. iterating \/ ~aheadOfDump(new) => covered(new)'
      <4>1. record = <<store'.name, new>>
        BY Zenon, <2>4, <3>2
      <4> QED
        BY Zenon, <3>3, <4>1
    <3>7. \A o : aheadOfDump(o)' <=> aheadOfDump(o)
      BY Zenon, <3>2 DEF aheadOfDump
    <3>8. dumper' = dumper /\ spoiled' = spoiled /\ store # Absent
      BY Zenon, <2>2, <2>4
    <3> HIDE DEF covered, record, open, NothingLostQuietly, TypeOK
    <3> SUFFICES ASSUME store.name \notin spoiled
                 PROVE  /\ \A o \in store'.keys : aheadOfDump(o)' \/ covered(o)'
                        /\ in("delete") \/ (in("ended") /\ ~dumper.broken) =>
                             \A o \in store'.keys : covered(o)'
                        /\ in("seek") => \A o \in store'.keys :
                             aheadOfDump(o)' => o \in dumper.iter \/ covered(o)'
                        /\ dumper.pc \in {"check", "append"} /\ ~dumper.broken =>
                             \A o \in store'.keys : o \in dumper.iter \/ covered(o)'
      BY Zenon, <3>2, <3>4, <3>8
    <3>9. \A o \in store'.keys : aheadOfDump(o)' \/ covered(o)'
      BY Zenon, <3>2, <3>5, <3>6, <3>7, <3>8
    <3>10. dumper.pc \in {"seek", "check", "append", "ended", "delete"} => covered(new)'
      BY Zenon, <3>6, <3>9, <3>7 DEF iterating
    <3> QED
      BY Zenon, <3>2, <3>5, <3>7, <3>8, <3>9, <3>10
  <2> QED
    BY Zenon, <2>3, <2>4
<1>31. CASE UNCHANGED vars
  BY Zenon, <1>31, <1>0 DEF vars, checkerVars, modeVars, cacheVars, dumpVars, writeVars
<1>32. CASE initCacheStoreFails
  BY Zenon, <1>32, <1>0 DEF initCacheStoreFails
<1>33. CASE iteratorFails
  BY Zenon, <1>33, <1>0 DEF iteratorFails, spoilsIf, StoreInv
<1>34. CASE dumpThrows
  BY Zenon, <1>34, <1>0 DEF dumpThrows, idleDumper
<1>35. ASSUME NEW w \in Writers, putCFFails(w) PROVE LossInv'
  BY Zenon, <1>35, <1>0 DEF putCFFails
<1>36. CASE restart
  BY Zenon, <1>36 DEF restart, idleDumper, storeNames
<1> QED
  BY Zenon, <1>1, <1>2, <1>3, <1>4, <1>5, <1>6, <1>7, <1>8, <1>9, <1>10, <1>11, <1>12, <1>13,
     <1>14, <1>15, <1>16, <1>17, <1>18, <1>19, <1>20, <1>21, <1>22, <1>23, <1>24, <1>25,
     <1>26, <1>27, <1>28, <1>29, <1>30, <1>31, <1>32, <1>33, <1>34, <1>35, <1>36
     DEF Next, monitorSteps, dumpSteps, writes

\* A server starts in normal mode, without a store and without a dump.
LEMMA InitIInv == Init => IInv
<1> SUFFICES ASSUME Init PROVE IInv
  BY Zenon
<1> USE BoundsAssumption, NodesAssumption, AbsentAssumption
       DEF Init, CheckerInit, noRound, idleMonitor, at, in
<1>1. TypeOK
  <2>1. CheckerTypeOK
    BY Zenon DEF CheckerTypeOK
  <2>2. monitor \in Monitor
    BY Zenon DEF Monitor
  <2>3. dumper \in Dumper
    BY DEF Dumper, idleDumper, maxTries
  <2>4. /\ writer \in [Writers -> [pc: {"idle", "enabled", "store", "put"},
                                   name: Generations \union {Absent}, offset: Nat]]
        /\ \A w \in Writers : writer[w].pc # "put"
    BY Zenon DEF idleWriter
  <2>5. bounds \in [outages: 0..MaxOutages, writes: 0..MaxWrites, faults: 0..MaxFaults]
    OBVIOUS
  <2>6. /\ meta \in BOOLEAN /\ enableWrite \in BOOLEAN /\ needResume \in BOOLEAN
        /\ counter \in Nat /\ clearing \in Nat
    BY Zenon
  <2>7. /\ store = Absent /\ serverState = "ServerNormal" /\ dumpState = "NoDump"
        /\ acked = {} /\ delivered = {} /\ dropped = {} /\ late = {} /\ spoiled = {}
    BY Zenon
  <2> HIDE DEF Init, CheckerInit
  <2> QED
    BY Zenon, <2>1, <2>2, <2>3, <2>4, <2>5, <2>6, <2>7 DEF TypeOK
<1>2. CheckInv /\ NoFalseAlarm
  BY Zenon DEF CheckInv, NoFalseAlarm
<1>3. AgeInv
  BY Zenon DEF AgeInv, idleWriter
<1>4. StoreInv
  BY Zenon DEF StoreInv, DumpStateTellsDumper, idleDumper, active, reading
<1>5. OrderInv /\ LossInv
  BY Zenon DEF OrderInv, LossInv, NothingLostQuietly
<1> QED
  BY Zenon, <1>1, <1>2, <1>3, <1>4, <1>5 DEF IInv

\* The inductive invariant: the check in progress, the age of the column families, the
\* hand-over of the store, the order of the keys and what has become of the records
\* hold in every state of docheck, dump, doDump and writeRecord together.
THEOREM Invariance == Spec => []IInv
<1>1. IInv /\ [Next]_vars => IInv'
  BY Zenon, TypeStep, CheckStep, AgeStep, StoreStep, OrderStep, LossStep DEF IInv
<1> QED
  BY InitIInv, <1>1, PTL DEF Spec

\* For any cluster and any limit: the monitor never takes the cluster for unhealthy
\* because of an answer of an earlier check (LdChecker::check, clearResults).
THEOREM AlarmsAreTrue == Spec => []NoFalseAlarm
<1>1. IInv => NoFalseAlarm
  BY Zenon DEF IInv
<1> QED
  BY Invariance, <1>1, PTL

\* However often the clusters fail, there is at most one dump thread and dumpState
\* tells whether there is one (dumpToHStore, reset).
THEOREM OneDump == Spec => []DumpStateTellsDumper
<1>1. IInv => DumpStateTellsDumper
  BY Zenon DEF IInv, StoreInv
<1> QED
  BY Invariance, <1>1, PTL

\* A dump, also one that was suspended and resumed, appends the records of a column
\* family in the order of their keys (doDump, nextKeyToDump).
THEOREM DumpedInOrder == Spec => []DumpsInOrder
<1>1. IInv => DumpsInOrder
  <2> SUFFICES ASSUME IInv, in("append"), NEW r \in delivered, r[1] = store.name
               PROVE  r[2] <= lowest(dumper.iter)
    BY Zenon DEF DumpsInOrder
  <2>1. store # Absent
    BY Zenon DEF IInv, StoreInv, active, reading, in
  <2>2. dumper.iter # {} /\ dumper.iter \subseteq Nat
    BY Zenon, <2>1 DEF IInv, OrderInv, TypeOK, Dumper
  <2>3. lowest(dumper.iter) \in dumper.iter
    BY Zenon, <2>2, LowestIsLowest
  <2> QED
    BY Zenon, <2>1, <2>3 DEF IInv, OrderInv, in
<1> QED
  BY Invariance, <1>1, PTL

\* With any number of request threads, outages, restarts and failing calls, the events
\* that NothingLostQuietly names are the only ones in which an acknowledged record is lost
\* without a trace; a dump that throws is not one of them (writeRecord, doDump, finalizer).
THEOREM NothingIsLost == Spec => []NothingLostQuietly
<1>1. IInv => NothingLostQuietly
  BY Zenon DEF IInv, LossInv
<1> QED
  BY Invariance, <1>1, PTL
=============================================================================
