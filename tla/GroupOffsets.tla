---------------------------- MODULE GroupOffsets ----------------------------
(***************************************************************************)
(* The committed offsets of one Kafka consumer group, on one server:       *)
(* GroupOffsetManager.hs over the checkpoint store of OffsetsStore.hs, the *)
(* topics it resolves partitions with, and the task detector that loads    *)
(* the group again after the server was restarted.                         *)
(*                                                                         *)
(* A commit holds the lock of its group from the first step to the last,   *)
(* so one commit is in progress at a time; topics come and go between its  *)
(* steps, the trim worker and the detector run beside it, a fetch reads    *)
(* the cache without the lock, and the server may stop anywhere.           *)
(*                                                                         *)
(* The store of a group is a log of which every record holds the whole map *)
(* from log ids to offsets; what it holds now is the last readable record. *)
(***************************************************************************)
EXTENDS Integers, Sequences, Functions

CONSTANTS
  Topics,         \* topic names
  Offsets,        \* offsets a client commits
  Absent,         \* stands for a topic that does not exist
  MaxPartitions,  \* bound on the partitions of a topic
  MaxLogs,        \* bound on the partitions ever created
  MaxCommits,     \* bound on the commit requests
  MaxCrashes,     \* bound on the restarts of the server
  MaxFaults       \* bound on the failing calls to the store or the metastore

VARIABLES
  topics,         \* topic -> its logs in the order of their names, or Absent
  lastLog,        \* the last log id given to a partition
  records,        \* the records of the checkpoint store's log
  base,           \* how many of them were trimmed
  stored,         \* the group is in the metastore
  group,          \* "none", "created" on demand, or "loaded" by the detector
  offsetsCache,   \* topic partition -> offset
  partitionsMap,  \* topic partition -> log
  commit,         \* the commit in progress
  trimmer,        \* the trim worker of the store
  detector,       \* the task detector is running
  load,           \* its load of the group
  allowed,        \* history: log -> offsets an answer may give for it
  durable,        \* history: topic partition -> offsets the store took for it
  steady,         \* history: topics not deleted since the last load began
  count           \* how many commits, crashes and faults there were

world == <<topics, lastLog>>
store == <<records, base, stored>>
manager == <<group, offsetsCache, partitionsMap>>
histories == <<allowed, durable, steady>>
vars == <<world, store, manager, commit, trimmer, detector, load, histories, count>>

NoOffset == -1
Logs == 1..MaxLogs
Indexes == 0..(MaxPartitions - 1)

\* Absent is no list of partitions.
ASSUME TopicsAssumption ==
  /\ MaxLogs \in Nat /\ MaxPartitions \in Nat
  /\ \A n \in 0..MaxPartitions : Absent \notin [1..n -> Logs]

noCommit == [st |-> "idle"]
noTrim == [flag |-> FALSE, st |-> "idle", tail |-> 0]
noLoad == [st |-> "idle"]

\* A state in which nothing was created yet.
Init ==
  /\ topics = [t \in Topics |-> Absent] /\ lastLog = 0
  /\ records = <<>> /\ base = 0 /\ stored = FALSE
  /\ group = "none" /\ offsetsCache = <<>> /\ partitionsMap = <<>>
  /\ commit = noCommit /\ trimmer = noTrim
  /\ detector = TRUE /\ load = noLoad
  /\ allowed = [log \in Logs |-> {NoOffset}]
  /\ durable = [tp \in Topics \X Indexes |-> {}]
  /\ steady = Topics
  /\ count = [commits |-> 0, crashes |-> 0, faults |-> 0]

\* Map.union of Data.Map, which prefers its first argument.
union(f, g) == [x \in DOMAIN f \cup DOMAIN g |-> IF x \in DOMAIN f THEN f[x] ELSE g[x]]

counts(what) == count' = [count EXCEPT ![what] = @ + 1]
mayFail == count.faults < MaxFaults

\* What checkpoint_store_get_all_checkpoints finds.
getAllCheckpoints == IF Len(records) > base THEN records[Len(records)] ELSE <<>>
heldFor(log) ==
  IF log \in DOMAIN getAllCheckpoints THEN getAllCheckpoints[log] ELSE NoOffset

\* The topic partitions of topic t with their logs: V.zipWith over [0..].
partitionsOf(t) ==
  [tp \in {<<t, i>> : i \in 0..(Len(topics[t]) - 1)} |-> topics[t][tp[2] + 1]]

\* The topic a log belongs to, as a set of at most one.
topicsWith(log) == {t \in Topics : topics[t] # Absent /\ log \in Range(topics[t])}

-----------------------------------------------------------------------------
(* Topics, as Core/Topic.hs and Handler/Topic.hs create and delete them.   *)

createTopic(t) ==
  /\ topics[t] = Absent
  /\ topics' = [topics EXCEPT ![t] = <<>>]
  /\ UNCHANGED <<lastLog, store, manager, commit, trimmer, detector, load, histories, count>>

createTopicPartitions(t) ==
  /\ topics[t] # Absent /\ Len(topics[t]) < MaxPartitions /\ lastLog < MaxLogs
  /\ lastLog' = lastLog + 1
  /\ topics' = [topics EXCEPT ![t] = Append(@, lastLog')]
  /\ UNCHANGED <<store, manager, commit, trimmer, detector, load, histories, count>>

deleteTopic(t) ==
  /\ topics[t] # Absent
  /\ topics' = [topics EXCEPT ![t] = Absent]
  /\ steady' = steady \ {t}
  /\ UNCHANGED <<lastLog, store, manager, commit, trimmer, detector, load, allowed, durable, count>>

-----------------------------------------------------------------------------
(* Commits.                                                                *)

\* A join or a commit of an unknown group makes it, with empty caches.
getOrMaybeCreateGroup ==
  /\ group = "none"
  /\ group' = "created" /\ offsetsCache' = <<>> /\ partitionsMap' = <<>>
  /\ UNCHANGED <<world, store, commit, trimmer, detector, load, histories, count>>

\* A request for one topic takes the lock of the group.
commitOffsets(t, offsets) ==
  /\ group # "none" /\ commit.st = "idle" /\ count.commits < MaxCommits
  /\ commit' = [st |-> "resolve", topic |-> t, offsets |-> offsets, logs |-> <<>>]
  /\ counts("commits")
  /\ UNCHANGED <<world, store, manager, trimmer, detector, load, histories>>

\* One turn of getOffsetsInfo: the log of a partition, from partitionsMap or
\* else from the topic; an unknown partition throws.
getOffsetsInfo ==
  /\ commit.st = "resolve"
  /\ \E i \in DOMAIN commit.offsets \ DOMAIN commit.logs :
       LET tp == <<commit.topic, i>>
           known == tp \in DOMAIN partitionsMap
           listed == topics[commit.topic] # Absent /\ i < Len(topics[commit.topic])
       IN /\ partitionsMap' = IF ~known /\ listed
                                THEN union(partitionsOf(commit.topic), partitionsMap)
                                ELSE partitionsMap
          /\ commit' = IF known \/ listed
                         THEN [commit EXCEPT !.logs = union([j \in {i} |-> partitionsMap'[tp]], @)]
                         ELSE noCommit
  /\ UNCHANGED <<world, store, group, offsetsCache, trimmer, detector, load, histories, count>>

resolved == commit.st = "resolve" /\ DOMAIN commit.logs = DOMAIN commit.offsets

\* The offset the commit has for a log: checkPoints of storeOffsets.
checkPoints ==
  [log \in Range(commit.logs) |->
     commit.offsets[CHOOSE i \in DOMAIN commit.logs : commit.logs[i] = log]]

\* The offset the commit has for a topic partition.
updates == [tp \in {<<commit.topic, i>> : i \in DOMAIN commit.offsets} |-> commit.offsets[tp[2]]]

\* The sets of h, with what the map f has added.
adding(h, f) == [x \in DOMAIN h |-> h[x] \cup {f[y] : y \in {x} \cap DOMAIN f}]

\* What checkpoint_store_update_multi_lsn does to the store.
updateMultiLSN ==
  /\ records' = Append(records, union(checkPoints, getAllCheckpoints))
  /\ allowed' = adding(allowed, checkPoints)
  /\ durable' = adding(durable, updates)
  /\ UNCHANGED steady

\* The store takes the offsets, and the trim worker is triggered.
storeOffsets ==
  /\ resolved
  /\ updateMultiLSN
  /\ commit' = [commit EXCEPT !.st = "cache"]
  /\ trimmer' = [trimmer EXCEPT !.flag = TRUE]
  /\ UNCHANGED <<world, base, stored, manager, detector, load, count>>

\* Mutant: a commit whose write has failed enters the cache.
storeOffsetsFails_Caches ==
  /\ resolved /\ mayFail
  /\ updateMultiLSN \/ UNCHANGED <<records, histories>>
  /\ commit' = noCommit
  /\ offsetsCache' = union(updates, offsetsCache)
  /\ counts("faults")
  /\ UNCHANGED <<world, base, stored, group, partitionsMap, trimmer, detector, load>>

\* The call fails or times out, with or without its effect; the request fails.
storeOffsetsFails ==
  /\ resolved /\ mayFail
  /\ updateMultiLSN \/ UNCHANGED <<records, histories>>
  /\ commit' = noCommit
  /\ counts("faults")
  /\ UNCHANGED <<world, base, stored, manager, trimmer, detector, load>>

updateCache ==
  /\ commit.st = "cache"
  /\ offsetsCache' = union(updates, offsetsCache)
  /\ commit' = [commit EXCEPT !.st = "answer"]
  /\ UNCHANGED <<world, store, group, partitionsMap, trimmer, detector, load, histories, count>>

\* The group is put into the metastore unless it is there, and the client gets
\* its answer: from now on these offsets are the only right ones.
answer ==
  /\ commit.st = "answer"
  /\ stored' = TRUE
  /\ allowed' = [log \in Logs |-> IF log \in DOMAIN checkPoints THEN {checkPoints[log]}
                                                                ELSE allowed[log]]
  /\ commit' = noCommit
  /\ UNCHANGED <<world, records, base, manager, trimmer, detector, load, durable, steady, count>>

\* The metastore refuses the group: the request fails, its offsets stay.
answerFails ==
  /\ commit.st = "answer" /\ ~stored /\ mayFail
  /\ commit' = noCommit
  /\ counts("faults")
  /\ UNCHANGED <<world, store, manager, trimmer, detector, load, histories>>

\* What fetchOffsets answers for a topic partition.
fetchOffsets(tp) == IF tp \in DOMAIN offsetsCache THEN offsetsCache[tp] ELSE NoOffset

-----------------------------------------------------------------------------
(* The trim worker: trimLastBefore 1, in two calls to the store.           *)

getTailLSN ==
  /\ trimmer.flag /\ trimmer.st = "idle"
  /\ trimmer' = [flag |-> FALSE, st |-> "trim", tail |-> Len(records)]
  /\ UNCHANGED <<world, store, manager, commit, detector, load, histories, count>>

\* Mutant: the trim takes the last record of a key as well.
trim_Last ==
  /\ trimmer.st = "trim"
  /\ base' = IF base < trimmer.tail THEN trimmer.tail ELSE base
  /\ trimmer' = [trimmer EXCEPT !.st = "idle", !.tail = 0]
  /\ UNCHANGED <<world, records, stored, manager, commit, detector, load, histories, count>>

trim ==
  /\ trimmer.st = "trim"
  /\ base' = IF base < trimmer.tail - 1 THEN trimmer.tail - 1 ELSE base
  /\ trimmer' = [trimmer EXCEPT !.st = "idle", !.tail = 0]
  /\ UNCHANGED <<world, records, stored, manager, commit, detector, load, histories, count>>

-----------------------------------------------------------------------------
(* The task detector loads a stored group that the server does not have.   *)

\* detectTasks finds the group to be loaded; loadOffsets reads the store.
detectTasks ==
  /\ detector /\ load.st = "idle" /\ stored /\ group = "none"
  /\ load' = [st |-> "check", offsets |-> getAllCheckpoints,
              logIds |-> DOMAIN getAllCheckpoints, tps |-> <<>>]
  /\ steady' = Topics
  /\ UNCHANGED <<world, store, manager, commit, trimmer, detector, allowed, durable, count>>

\* listAllTasks throws, outside of the handlers: the thread of the detector ends.
listAllTasksFails ==
  /\ detector /\ load.st = "idle" /\ mayFail
  /\ detector' = FALSE
  /\ counts("faults")
  /\ UNCHANGED <<world, store, manager, commit, trimmer, load, histories>>

\* Mutant: a log without a topic is kept.
logIdHasGroup_Keeps ==
  /\ load.st = "check"
  /\ \E log \in load.logIds :
       load' = IF topicsWith(log) # {}
                 THEN union([st |-> "list", log |-> log], load)
                 ELSE load
  /\ UNCHANGED <<world, store, manager, commit, trimmer, detector, histories, count>>

\* A turn of getTopicPartitions: a log that no topic has any more is skipped.
logIdHasGroup ==
  /\ load.st = "check"
  /\ \E log \in load.logIds :
       load' = IF topicsWith(log) # {}
                 THEN union([st |-> "list", log |-> log], load)
                 ELSE [load EXCEPT !.logIds = @ \ {log}]
  /\ UNCHANGED <<world, store, manager, commit, trimmer, detector, histories, count>>

\* Mutant: the listing answers only for the log that was looked up.
listed_OnlyLog(t) ==
  [load EXCEPT !.st = "check", !.logIds = @ \ Range(topics[t]),
               !.tps = union([tp \in {<<t, 0>>} |-> load.log], @)]

\* The load with the partitions of topic t.
listed(t) ==
  [load EXCEPT !.st = "check", !.logIds = @ \ Range(topics[t]),
               !.tps = union(partitionsOf(t), @)]

\* The partitions of the log's topic; when the topic is gone by now the load
\* throws, and the detector comes again.
getTopicPartitions ==
  /\ load.st = "list"
  /\ load' = IF topicsWith(load.log) = {} THEN noLoad
             ELSE listed(CHOOSE t \in topicsWith(load.log) : TRUE)
  /\ UNCHANGED <<world, store, manager, commit, trimmer, detector, histories, count>>

\* The loaded group enters the table, unless a request made one meanwhile.
addGroupByValue ==
  /\ load.st = "check" /\ load.logIds = {}
  /\ load' = noLoad
  /\ IF group = "none"
       THEN /\ group' = "loaded"
            /\ offsetsCache' = [tp \in {p \in DOMAIN load.tps : load.tps[p] \in DOMAIN load.offsets}
                                  |-> load.offsets[load.tps[tp]]]
            /\ partitionsMap' = load.tps
       ELSE UNCHANGED manager
  /\ UNCHANGED <<world, store, commit, trimmer, detector, histories, count>>

\* The server stops and starts again: what is in memory is gone.
crash ==
  /\ count.crashes < MaxCrashes
  /\ group' = "none" /\ offsetsCache' = <<>> /\ partitionsMap' = <<>>
  /\ commit' = noCommit /\ trimmer' = noTrim
  /\ detector' = TRUE /\ load' = noLoad
  /\ counts("crashes")
  /\ UNCHANGED <<world, store, histories>>

-----------------------------------------------------------------------------

topicStep == \E t \in Topics : createTopic(t) \/ createTopicPartitions(t) \/ deleteTopic(t)

requests == UNION {[is -> Offsets] : is \in SUBSET Indexes \ {{}}}

commitStep ==
  \/ getOrMaybeCreateGroup
  \/ \E t \in Topics, offsets \in requests : commitOffsets(t, offsets)
  \/ getOffsetsInfo
  \/ storeOffsets \/ storeOffsetsFails
  \/ updateCache
  \/ answer \/ answerFails

loading == detectTasks \/ logIdHasGroup \/ getTopicPartitions \/ addGroupByValue

Next ==
  \/ topicStep
  \/ commitStep
  \/ getTailLSN \/ trim
  \/ loading \/ listAllTasksFails
  \/ crash

\* The detector is a thread of its own that comes back every 30 s.
Spec == Init /\ [][Next]_vars /\ WF_vars(loading)

-----------------------------------------------------------------------------
(* Properties.                                                             *)

maps(D, S) == UNION {[d -> S] : d \in SUBSET D}

\* Types; every cached offset is of a partition whose log the manager knows,
\* so that the next commit of that partition goes to the same log.
TypeOK ==
  /\ \A t \in Topics : topics[t] = Absent \/ topics[t] \in Seq(1..lastLog)
  /\ lastLog \in 0..MaxLogs /\ base \in 0..Len(records) /\ stored \in BOOLEAN
  /\ group \in {"none", "created", "loaded"}
  /\ partitionsMap \in maps(Topics \X Indexes, Logs)
  /\ offsetsCache \in maps(DOMAIN partitionsMap, Offsets)
  /\ commit.st \in {"idle", "resolve", "cache", "answer"}
  /\ trimmer.st \in {"idle", "trim"} /\ detector \in BOOLEAN
  /\ load.st \in {"idle", "check", "list"}

\* What the store holds for a log is the last acknowledged offset of it, or one
\* written by a later commit that was not acknowledged: a record is not trimmed
\* before a newer one replaces it, and a commit of one topic leaves the offsets
\* of the others alone (commitOffsets and the trim worker of OffsetsStore.hs).
StoredOffsetsSurvive ==
  \A log \in Logs : heldFor(log) \in allowed[log]

\* A group that the detector loaded answers a fetch with the last acknowledged
\* offset of every partition (or a later written one), whatever was created,
\* deleted or failed before and during the load. Topics deleted since the load
\* began are left out: when such a topic is made again under the same name, the
\* caches still speak of the old one (loadOffsetsFromStorage, fetchOffsets).
LoadedAnswersCommitted ==
  group = "loaded" =>
    \A t \in steady : topics[t] # Absent =>
      \A tp \in DOMAIN partitionsOf(t) : fetchOffsets(tp) \in allowed[partitionsOf(t)[tp]]

\* A fetch, which takes no lock, never shows an offset that has not been in the
\* store: storeOffsets writes the checkpoints before it updates offsetsCache.
VisibleIsDurable ==
  \A tp \in DOMAIN offsetsCache : offsetsCache[tp] \in durable[tp]

\* A stored group comes back after a restart, also when loads of it throw, as
\* long as the thread of the detector lives (detectTasks).
StoredIsLoaded == stored ~> (group # "none" \/ ~detector)

\* The same with nothing said about the thread of the detector.
GroupComesBack == stored ~> group # "none"
=============================================================================
