------------------------- MODULE GroupOffsetsProofs -------------------------
(***************************************************************************)
(* The offsets in the checkpoint store survive, a loaded group answers with *)
(* them, and a fetch shows nothing that is not in the store: for every      *)
(* number of topics, partitions, commits, restarts and failing calls.       *)
(***************************************************************************)
EXTENDS GroupOffsets, TLAPS

\* The log of the store is not trimmed past its last record, and the worker will
\* not do it with the tail it has read.
LogInv ==
  /\ \E S : records \in Seq(S)
  /\ base \in Nat
  /\ base < Len(records) \/ (base = 0 /\ Len(records) = 0)
  /\ trimmer \in [flag : BOOLEAN, st : {"idle", "trim"}, tail : Nat]
  /\ trimmer.tail <= Len(records)

CommitInv ==
  commit = noCommit \/ \E st, t, offsets, logs :
    commit = [st |-> st, topic |-> t, offsets |-> offsets, logs |-> logs]

\* The store holds what the commit has written until the client is answered:
\* only the commit that has the lock of the group writes.
WrittenInv ==
  commit.st \in {"cache", "answer"} =>
    \A log \in Logs \cap DOMAIN checkPoints :
      log \in DOMAIN getAllCheckpoints /\ getAllCheckpoints[log] = checkPoints[log]

IInv ==
  /\ LogInv /\ CommitInv /\ WrittenInv
  /\ allowed = [log \in Logs |-> allowed[log]]
  /\ StoredOffsetsSurvive

-----------------------------------------------------------------------------

\* The initial state satisfies the invariant.
LEMMA InitIInv == Init => IInv
  BY DEF Init, IInv, LogInv, CommitInv, WrittenInv, StoredOffsetsSurvive, heldFor,
         getAllCheckpoints, noCommit, noTrim

\* A sequence that got an element is a sequence, one longer, with that element
\* as its last.
LEMMA Appended ==
  ASSUME NEW s, \E S : s \in Seq(S), NEW x
  PROVE  /\ \E S : Append(s, x) \in Seq(S)
         /\ Len(s) \in Nat
         /\ Len(Append(s, x)) = Len(s) + 1
         /\ Append(s, x)[Len(s) + 1] = x
<1>1. PICK S : s \in Seq(S)
  BY Zenon
<1>2. s \in Seq(S \cup {x})
  <2>1. s \in [1..Len(s) -> S] /\ Len(s) \in Nat
    BY <1>1
  <2>2. s \in [1..Len(s) -> S \cup {x}]
    BY Zenon, <2>1
  <2> QED
    BY <2>1, <2>2
<1>3. Append(s, x) \in Seq(S \cup {x}) /\ Len(Append(s, x)) = Len(s) + 1 /\ Len(s) \in Nat
  BY <1>2
<1>4. Append(s, x)[Len(s) + 1] = x
  BY <1>2
<1> QED
  BY Zenon, <1>3, <1>4

\* The invariant depends on these variables only, and the commit in progress
\* counts only from its write on.
LEMMA SameStore ==
  ASSUME IInv, UNCHANGED <<records, base, allowed>>,
         CommitInv', WrittenInv',
         trimmer' \in [flag : BOOLEAN, st : {"idle", "trim"}, tail : Nat],
         trimmer'.tail <= Len(records)
  PROVE  IInv'
  BY Zenon DEF IInv, LogInv, StoredOffsetsSurvive, heldFor, getAllCheckpoints

\* A write of the commit: the other logs keep their offsets.
LEMMA WriteStep ==
  ASSUME IInv, updateMultiLSN, UNCHANGED base
  PROVE  /\ getAllCheckpoints' = union(checkPoints, getAllCheckpoints)
         /\ \E S : records' \in Seq(S)
         /\ base < Len(records') /\ Len(records) < Len(records')
         /\ allowed' = [log \in Logs |-> allowed'[log]]
         /\ StoredOffsetsSurvive'
<1> DEFINE new == union(checkPoints, getAllCheckpoints)
<1>1. /\ \E S : records' \in Seq(S) /\ Len(records) \in Nat
      /\ Len(records') = Len(records) + 1 /\ records'[Len(records')] = new
  <2>1. \E S : records \in Seq(S)
    BY Zenon DEF IInv, LogInv
  <2>2. records' = Append(records, new)
    BY Zenon DEF updateMultiLSN
  <2> HIDE DEF new
  <2>3. /\ \E S : Append(records, new) \in Seq(S) /\ Len(records) \in Nat
        /\ Len(Append(records, new)) = Len(records) + 1 /\ Append(records, new)[Len(records) + 1] = new
    BY Zenon, <2>1, Appended
  <2>4. /\ \E S : records' \in Seq(S) /\ Len(records) \in Nat
        /\ Len(records') = Len(records) + 1
    BY Zenon, <2>2, <2>3
  <2>5. records'[Len(records')] = new
    BY Zenon, <2>2, <2>3, <2>4
  <2> QED
    BY Zenon, <2>4, <2>5
<1>2. base < Len(records')
  BY <1>1 DEF IInv, LogInv
<1>3. getAllCheckpoints' = new
  BY Zenon, <1>1, <1>2 DEF getAllCheckpoints
<1>4. /\ DOMAIN new = DOMAIN checkPoints \cup DOMAIN getAllCheckpoints
      /\ \A l \in DOMAIN new : new[l] = IF l \in DOMAIN checkPoints THEN checkPoints[l]
                                                                    ELSE getAllCheckpoints[l]
  BY Zenon DEF union
<1>5. DOMAIN allowed = Logs
  BY Zenon DEF IInv
<1>6. allowed' = [log \in Logs |-> allowed[log] \cup {checkPoints[l] : l \in {log} \cap DOMAIN checkPoints}]
  BY Zenon, <1>5 DEF updateMultiLSN, adding
<1>7. StoredOffsetsSurvive'
  <2> SUFFICES ASSUME NEW log \in Logs
               PROVE  heldFor(log)' \in allowed'[log]
    BY Zenon DEF StoredOffsetsSurvive
  <2>1. heldFor(log)' = IF log \in DOMAIN new THEN new[log] ELSE NoOffset
    BY Zenon, <1>3 DEF heldFor, NoOffset
  <2>2. heldFor(log) \in allowed[log]
    BY Zenon DEF IInv, StoredOffsetsSurvive
  <2>3. CASE log \in DOMAIN checkPoints
    BY Zenon, <2>1, <2>3, <1>4, <1>6
  <2>4. CASE log \notin DOMAIN checkPoints
    <3>1. heldFor(log)' = heldFor(log)
      BY Zenon, <2>1, <2>4, <1>4 DEF heldFor
    <3> QED
      BY Zenon, <3>1, <2>2, <1>6
  <2> QED
    BY Zenon, <2>3, <2>4
<1>8. allowed' = [log \in Logs |-> allowed'[log]]
  BY Zenon, <1>6
<1> QED
  BY <1>1, <1>2, <1>3, <1>7, <1>8

\* The steps of a commit.
LEMMA CommitStep == IInv /\ commitStep => IInv'
<1> SUFFICES ASSUME IInv, commitStep PROVE IInv'
  BY Zenon
<1> USE DEF noCommit
<1>0. /\ trimmer \in [flag : BOOLEAN, st : {"idle", "trim"}, tail : Nat]
      /\ trimmer.tail <= Len(records)
  BY Zenon DEF IInv, LogInv
<1>1. CASE getOrMaybeCreateGroup
  <2>1. UNCHANGED <<records, base, allowed, commit, trimmer>>
    BY Zenon, <1>1 DEF getOrMaybeCreateGroup, store, histories
  <2>2. CommitInv' /\ WrittenInv'
    BY <2>1 DEF IInv, CommitInv, WrittenInv, checkPoints, getAllCheckpoints
  <2> QED
    BY Zenon, <2>1, <2>2, <1>0, SameStore
<1>2. ASSUME NEW t \in Topics, NEW offsets \in requests, commitOffsets(t, offsets)
      PROVE  IInv'
  <2>1. UNCHANGED <<records, base, allowed, trimmer>>
    BY Zenon, <1>2 DEF commitOffsets, store, histories
  <2>2. CommitInv' /\ WrittenInv'
    BY Zenon, <1>2 DEF commitOffsets, CommitInv, WrittenInv
  <2> QED
    BY Zenon, <2>1, <2>2, <1>0, SameStore
<1>3. CASE getOffsetsInfo
  <2>1. UNCHANGED <<records, base, allowed, trimmer>>
    BY Zenon, <1>3 DEF getOffsetsInfo, store, histories
  <2>2. CommitInv' /\ WrittenInv'
    <3>1. PICK st, t, offsets, logs :
            commit = [st |-> st, topic |-> t, offsets |-> offsets, logs |-> logs]
      BY <1>3 DEF getOffsetsInfo, IInv, CommitInv
    <3>2. commit' = noCommit \/ \E l : commit' = [commit EXCEPT !.logs = l]
      BY Zenon, <1>3 DEF getOffsetsInfo
    <3>3. CASE commit' = noCommit
      BY Zenon, <3>3 DEF CommitInv, WrittenInv
    <3>4. ASSUME NEW l, commit' = [commit EXCEPT !.logs = l]
          PROVE  CommitInv' /\ WrittenInv'
      <4>1. commit' = [st |-> st, topic |-> t, offsets |-> offsets, logs |-> l] /\ commit.st = st
        BY Zenon, <3>1, <3>4
      <4>2. commit'.st = "resolve"
        BY Zenon, <4>1, <1>3 DEF getOffsetsInfo
      <4> QED
        BY Zenon, <4>1, <4>2 DEF CommitInv, WrittenInv
    <3> QED
      BY Zenon, <3>2, <3>3, <3>4
  <2> QED
    BY Zenon, <2>1, <2>2, <1>0, SameStore
<1>4. CASE storeOffsets
  <2>1. PICK st, t, offsets, logs :
          commit = [st |-> st, topic |-> t, offsets |-> offsets, logs |-> logs]
    BY <1>4 DEF storeOffsets, resolved, IInv, CommitInv
  <2>2. commit' = [st |-> "cache", topic |-> t, offsets |-> offsets, logs |-> logs]
    BY Zenon, <1>4, <2>1 DEF storeOffsets
  <2>3. checkPoints' = checkPoints
    BY <2>1, <2>2 DEF checkPoints
  <2>4. /\ getAllCheckpoints' = union(checkPoints, getAllCheckpoints)
        /\ \E S : records' \in Seq(S)
        /\ base < Len(records') /\ Len(records) < Len(records')
        /\ allowed' = [log \in Logs |-> allowed'[log]]
        /\ StoredOffsetsSurvive'
    BY Zenon, <1>4, WriteStep DEF storeOffsets
  <2>5. WrittenInv'
    <3>1. \A log \in DOMAIN checkPoints :
            /\ log \in DOMAIN union(checkPoints, getAllCheckpoints)
            /\ union(checkPoints, getAllCheckpoints)[log] = checkPoints[log]
      BY Zenon DEF union
    <3> QED
      BY Zenon, <3>1, <2>3, <2>4 DEF WrittenInv
  <2>6. LogInv'
    <3>1. Len(records) \in Nat /\ Len(records') \in Nat
      BY <2>4 DEF IInv, LogInv
    <3>2. /\ trimmer' \in [flag : BOOLEAN, st : {"idle", "trim"}, tail : Nat]
          /\ trimmer'.tail = trimmer.tail
      BY Zenon, <1>4, <1>0 DEF storeOffsets
    <3>3. base' = base /\ base \in Nat
      BY Zenon, <1>4 DEF storeOffsets, IInv, LogInv
    <3> QED
      BY <1>0, <2>4, <3>1, <3>2, <3>3 DEF LogInv
  <2> QED
    BY Zenon, <2>2, <2>4, <2>5, <2>6 DEF IInv, CommitInv
<1>5. CASE storeOffsetsFails
  <2>1. CommitInv' /\ WrittenInv' /\ UNCHANGED <<base, trimmer>>
    BY Zenon, <1>5 DEF storeOffsetsFails, CommitInv, WrittenInv
  <2>2. CASE updateMultiLSN
    <3>1. /\ \E S : records' \in Seq(S)
          /\ base < Len(records') /\ Len(records) < Len(records')
          /\ allowed' = [log \in Logs |-> allowed'[log]]
          /\ StoredOffsetsSurvive'
      BY Zenon, <2>1, <2>2, WriteStep
    <3>2. LogInv'
      BY <3>1, <2>1, <1>0 DEF LogInv, IInv
    <3> QED
      BY Zenon, <3>1, <3>2, <2>1 DEF IInv
  <2>3. CASE UNCHANGED <<records, histories>>
    BY Zenon, <2>1, <2>3, <1>0, SameStore DEF histories
  <2> QED
    BY Zenon, <1>5, <2>2, <2>3 DEF storeOffsetsFails
<1>6. CASE updateCache
  <2>1. UNCHANGED <<records, base, allowed, trimmer>>
    BY Zenon, <1>6 DEF updateCache, store, histories
  <2>2. PICK st, t, offsets, logs :
          commit = [st |-> st, topic |-> t, offsets |-> offsets, logs |-> logs]
    BY <1>6 DEF updateCache, IInv, CommitInv
  <2>3. commit' = [st |-> "answer", topic |-> t, offsets |-> offsets, logs |-> logs]
    BY Zenon, <1>6, <2>2 DEF updateCache
  <2>4. checkPoints' = checkPoints /\ getAllCheckpoints' = getAllCheckpoints
    BY <2>1, <2>2, <2>3 DEF checkPoints, getAllCheckpoints
  <2>5. WrittenInv'
    BY Zenon, <1>6, <2>4 DEF WrittenInv, IInv, updateCache
  <2>6. CommitInv'
    BY Zenon, <2>3 DEF CommitInv
  <2> QED
    BY Zenon, <2>1, <2>5, <2>6, <1>0, SameStore
<1>7. CASE answer
  <2>1. CommitInv' /\ WrittenInv' /\ UNCHANGED <<records, base, trimmer>>
    BY Zenon, <1>7 DEF answer, CommitInv, WrittenInv
  <2>2. StoredOffsetsSurvive'
    BY Zenon, <1>7, <2>1 DEF answer, IInv, WrittenInv, StoredOffsetsSurvive, heldFor, getAllCheckpoints
  <2>3. allowed' = [log \in Logs |-> allowed'[log]] /\ LogInv'
    BY Zenon, <1>7, <2>1 DEF answer, IInv, LogInv
  <2> QED
    BY Zenon, <2>1, <2>2, <2>3 DEF IInv
<1>8. CASE answerFails
  <2>1. CommitInv' /\ WrittenInv' /\ UNCHANGED <<records, base, allowed, trimmer>>
    BY Zenon, <1>8 DEF answerFails, CommitInv, WrittenInv, store, histories
  <2> QED
    BY Zenon, <2>1, <1>0, SameStore
<1> QED
  BY Zenon, <1>1, <1>2, <1>3, <1>4, <1>5, <1>6, <1>7, <1>8 DEF commitStep

\* Every step keeps the invariant.
LEMMA NextIInv == IInv /\ [Next]_vars => IInv'
<1> SUFFICES ASSUME IInv, [Next]_vars PROVE IInv'
  BY Zenon
<1>0. /\ trimmer \in [flag : BOOLEAN, st : {"idle", "trim"}, tail : Nat]
      /\ trimmer.tail <= Len(records) /\ base \in Nat /\ Len(records) \in Nat
  BY DEF IInv, LogInv
<1>1. ASSUME UNCHANGED <<records, base, allowed, commit, trimmer>> PROVE IInv'
  <2>1. CommitInv' /\ WrittenInv'
    BY <1>1 DEF IInv, CommitInv, WrittenInv, checkPoints, getAllCheckpoints, noCommit
  <2> QED
    BY Zenon, <2>1, <1>0, <1>1, SameStore
<1>2. CASE topicStep
  BY Zenon, <1>1, <1>2 DEF topicStep, createTopic, createTopicPartitions, deleteTopic, store, histories
<1>3. CASE commitStep
  BY Zenon, <1>3, CommitStep
<1>4. CASE getTailLSN
  <2>1. UNCHANGED <<records, base, allowed, commit>>
    BY Zenon, <1>4 DEF getTailLSN, store, histories
  <2>2. CommitInv' /\ WrittenInv'
    BY <2>1 DEF IInv, CommitInv, WrittenInv, checkPoints, getAllCheckpoints, noCommit
  <2>3. trimmer' = [flag |-> FALSE, st |-> "trim", tail |-> Len(records)]
    BY Zenon, <1>4 DEF getTailLSN
  <2> QED
    BY <2>1, <2>2, <2>3, <1>0, SameStore
<1>5. CASE trim
  <2>1. UNCHANGED <<records, allowed, commit>>
    BY Zenon, <1>5 DEF trim, histories
  <2>2. /\ trimmer' \in [flag : BOOLEAN, st : {"idle", "trim"}, tail : Nat]
        /\ trimmer'.tail = 0
    BY Zenon, <1>5, <1>0 DEF trim
  <2>3. /\ base' \in Nat
        /\ base' < Len(records) \/ (base' = 0 /\ Len(records) = 0)
        /\ (Len(records) > base') <=> (Len(records) > base)
    BY <1>5, <1>0 DEF trim, IInv, LogInv
  <2>4. getAllCheckpoints' = getAllCheckpoints
    BY Zenon, <2>1, <2>3 DEF getAllCheckpoints
  <2>5. LogInv'
    BY <2>1, <2>2, <2>3, <1>0 DEF IInv, LogInv
  <2>6. CommitInv' /\ WrittenInv'
    BY <2>1, <2>4 DEF IInv, CommitInv, WrittenInv, checkPoints, noCommit
  <2>7. StoredOffsetsSurvive' /\ allowed' = [log \in Logs |-> allowed'[log]]
    BY Zenon, <2>1, <2>4 DEF IInv, StoredOffsetsSurvive, heldFor
  <2> QED
    BY Zenon, <2>5, <2>6, <2>7 DEF IInv
<1>6. CASE loading \/ listAllTasksFails
  BY Zenon, <1>1, <1>6 DEF loading, listAllTasksFails, detectTasks, logIdHasGroup, getTopicPartitions,
                    addGroupByValue, store, histories
<1>7. CASE crash
  <2>1. UNCHANGED <<records, base, allowed>>
    BY Zenon, <1>7 DEF crash, store, histories
  <2>2. CommitInv' /\ WrittenInv'
    BY Zenon, <1>7 DEF crash, CommitInv, WrittenInv, noCommit
  <2>3. trimmer' = [flag |-> FALSE, st |-> "idle", tail |-> 0]
    BY Zenon, <1>7 DEF crash, noTrim
  <2> QED
    BY <2>1, <2>2, <2>3, <1>0, SameStore
<1>8. CASE UNCHANGED vars
  BY Zenon, <1>1, <1>8 DEF vars, store, histories
<1> QED
  BY Zenon, <1>2, <1>3, <1>4, <1>5, <1>6, <1>7, <1>8 DEF Next

\* The strengthened invariant of the commits, the trim worker and the restarts
\* of storeOffsets, trimLastBefore and loadOffsetsFromStorage.
THEOREM Invariance == Spec => []IInv
<1>1. Init => IInv
  BY Zenon, InitIInv
<1>2. IInv /\ [Next]_vars => IInv'
  BY Zenon, NextIInv
<1> QED
  BY <1>1, <1>2, PTL DEF Spec

\* The store keeps the last acknowledged offset of every log, or a later written
\* one, whatever the numbers of topics, commits, restarts and failures.
THEOREM OffsetsSurvive == Spec => []StoredOffsetsSurvive
<1>1. IInv => StoredOffsetsSurvive
  BY Zenon DEF IInv
<1> QED
  BY Invariance, <1>1, PTL

-----------------------------------------------------------------------------
(* Partitions, the caches and the loads.                                    *)

\* The topic partition has the log now.
Current(tp, log) ==
  /\ topics[tp[1]] # Absent
  /\ tp[2] + 1 \in 1..Len(topics[tp[1]])
  /\ topics[tp[1]][tp[2] + 1] = log

TopicPartitions == Topics \X Indexes

\* Log ids are given out once, and nothing was committed for those to come.
TopicShape ==
  /\ lastLog \in 0..MaxLogs
  /\ DOMAIN topics = Topics
  /\ \A t \in Topics : \/ topics[t] = Absent
                       \/ topics[t] \in Seq(1..lastLog) /\ Len(topics[t]) <= MaxPartitions

StoreShape ==
  /\ DOMAIN getAllCheckpoints \subseteq 1..lastLog
  /\ \A log \in Logs : log > lastLog => NoOffset \in allowed[log]
  /\ DOMAIN durable = TopicPartitions

ManagerShape ==
  /\ DOMAIN partitionsMap \subseteq TopicPartitions
  /\ \A tp \in DOMAIN partitionsMap : partitionsMap[tp] \in 1..lastLog
  /\ DOMAIN offsetsCache \subseteq DOMAIN partitionsMap
  /\ group = "none" => commit = noCommit /\ DOMAIN partitionsMap = {}

\* A commit in progress: what it has resolved is known to the manager, what it has
\* written is durable, and what it has cached is what a fetch gets.
CommitShape ==
  commit # noCommit =>
    /\ commit.st \in {"resolve", "cache", "answer"}
    /\ commit.topic \in Topics
    /\ DOMAIN commit.offsets \subseteq Indexes
    /\ DOMAIN commit.logs \subseteq DOMAIN commit.offsets
    /\ \A i \in DOMAIN commit.logs : /\ commit.logs[i] \in 1..lastLog
                                     /\ <<commit.topic, i>> \in DOMAIN partitionsMap
    /\ commit.st # "resolve" =>
         /\ DOMAIN commit.logs = DOMAIN commit.offsets
         /\ \A i \in DOMAIN commit.offsets : commit.offsets[i] \in durable[<<commit.topic, i>>]
    /\ commit.st = "answer" =>
         \A i \in DOMAIN commit.offsets : fetchOffsets(<<commit.topic, i>>) = commit.offsets[i]

\* A load in progress: it has what the store holds as long as nobody made the group,
\* and every log of a topic that was not deleted is still to be looked up or listed.
LoadShape ==
  load # noLoad =>
    /\ load.st \in {"check", "list"}
    /\ {"st", "offsets", "logIds", "tps"} \subseteq DOMAIN load
    /\ load = [x \in DOMAIN load |-> load[x]]
    /\ DOMAIN load.offsets \subseteq 1..lastLog
    /\ DOMAIN load.tps \subseteq TopicPartitions
    /\ \A tp \in DOMAIN load.tps : load.tps[tp] \in 1..lastLog
    /\ group = "none" => load.offsets = getAllCheckpoints
    /\ \A tp \in DOMAIN load.tps : tp[1] \in steady => Current(tp, load.tps[tp])
    /\ \A tp \in TopicPartitions, log \in DOMAIN load.offsets :
         tp[1] \in steady /\ Current(tp, log) => log \in load.logIds \/ tp \in DOMAIN load.tps

\* What is known of a topic that was not deleted is what it has.
SteadyInv ==
  /\ steady \subseteq Topics
  /\ \A tp \in DOMAIN partitionsMap : tp[1] \in steady => Current(tp, partitionsMap[tp])
  /\ commit # noCommit =>
       \A i \in DOMAIN commit.logs :
         commit.topic \in steady => Current(<<commit.topic, i>>, commit.logs[i])

\* Every log has one home, a topic partition, for as long as anything refers to it, and
\* what the store or a load has for the log was written for its home.
Placed(home) ==
  /\ \A tp \in TopicPartitions, log \in Logs : Current(tp, log) => home[log] = tp
  /\ \A tp \in DOMAIN partitionsMap : home[partitionsMap[tp]] = tp
  /\ load # noLoad => \A tp \in DOMAIN load.tps : home[load.tps[tp]] = tp
  /\ commit # noCommit => \A i \in DOMAIN commit.logs : home[commit.logs[i]] = <<commit.topic, i>>
  /\ \A log \in DOMAIN getAllCheckpoints :
       home[log] \in TopicPartitions /\ getAllCheckpoints[log] \in durable[home[log]]
  /\ load # noLoad => \A log \in DOMAIN load.offsets :
       home[log] \in TopicPartitions /\ load.offsets[log] \in durable[home[log]]

HomeInv == \E home \in [Logs -> TopicPartitions \cup {Absent}] : Placed(home)

\* LoadedAnswersCommitted, partition by partition.
AnswerInv ==
  group = "loaded" =>
    \A tp \in TopicPartitions, log \in Logs :
      tp[1] \in steady /\ Current(tp, log) => fetchOffsets(tp) \in allowed[log]

FetchInv ==
  /\ TopicShape /\ StoreShape /\ ManagerShape /\ CommitShape /\ LoadShape
  /\ SteadyInv /\ HomeInv /\ AnswerInv /\ VisibleIsDurable

\* A log that a topic has was given out.
LEMMA CurrentLog ==
  ASSUME TopicShape, NEW tp \in TopicPartitions, NEW log, Current(tp, log)
  PROVE  log \in 1..lastLog /\ log \in Logs
<1>1. topics[tp[1]] \in Seq(1..lastLog) /\ lastLog \in 0..MaxLogs /\ MaxLogs \in Nat
  BY Zenon, TopicsAssumption DEF TopicShape, Current, TopicPartitions
<1>2. log \in 1..lastLog
  BY <1>1 DEF Current
<1> QED
  BY <1>1, <1>2 DEF Logs

\* partitionsOf(t) maps the partitions that t has to their logs.
LEMMA PartitionsOf ==
  ASSUME TopicShape, NEW t \in Topics, topics[t] # Absent
  PROVE  /\ DOMAIN partitionsOf(t) \subseteq TopicPartitions
         /\ \A tp \in DOMAIN partitionsOf(t) : tp[1] = t /\ Current(tp, partitionsOf(t)[tp])
         /\ \A tp \in TopicPartitions : \A log :
              tp[1] = t /\ Current(tp, log) => tp \in DOMAIN partitionsOf(t) /\ partitionsOf(t)[tp] = log
<1>1. Len(topics[t]) \in Nat /\ Len(topics[t]) <= MaxPartitions /\ MaxPartitions \in Nat
  BY TopicsAssumption DEF TopicShape
<1>2. /\ DOMAIN partitionsOf(t) = {<<t, i>> : i \in 0..(Len(topics[t]) - 1)}
      /\ \A tp \in DOMAIN partitionsOf(t) : partitionsOf(t)[tp] = topics[t][tp[2] + 1]
  BY Zenon DEF partitionsOf
<1>3. ASSUME NEW tp \in DOMAIN partitionsOf(t)
      PROVE  tp \in TopicPartitions /\ tp[1] = t /\ Current(tp, partitionsOf(t)[tp])
  <2>1. PICK i \in 0..(Len(topics[t]) - 1) : tp = <<t, i>>
    BY Zenon, <1>2, <1>3
  <2>2. i \in Indexes /\ i + 1 \in 1..Len(topics[t])
    BY <1>1, <2>1 DEF Indexes
  <2> QED
    BY Zenon, <1>2, <2>1, <2>2 DEF TopicPartitions, Current
<1>4. ASSUME NEW tp \in TopicPartitions, NEW log, tp[1] = t, Current(tp, log)
      PROVE  tp \in DOMAIN partitionsOf(t) /\ partitionsOf(t)[tp] = log
  <2>1. tp = <<t, tp[2]>> /\ tp[2] \in Indexes /\ Indexes = 0..(MaxPartitions - 1)
    BY <1>4 DEF TopicPartitions, Indexes
  <2>2. tp[2] \in 0..(Len(topics[t]) - 1)
    BY <1>1, <1>4, <2>1 DEF Current
  <2>3. tp \in DOMAIN partitionsOf(t)
    BY Zenon, <1>2, <2>1, <2>2
  <2> QED
    BY Zenon, <1>2, <1>4, <2>3 DEF Current
<1> QED
  BY Zenon, <1>3, <1>4

\* topicsWith(log) are the topics that have a partition with the log.
LEMMA TopicsWith ==
  ASSUME TopicShape, NEW t \in Topics, NEW log
  PROVE  t \in topicsWith(log) <=> \E tp \in TopicPartitions : tp[1] = t /\ Current(tp, log)
<1>1. ASSUME t \in topicsWith(log) PROVE \E tp \in TopicPartitions : tp[1] = t /\ Current(tp, log)
  <2>1. topics[t] # Absent /\ topics[t] \in Seq(1..lastLog) /\ Len(topics[t]) <= MaxPartitions
    BY Zenon, <1>1 DEF topicsWith, TopicShape
  <2>2. PICK j \in 1..Len(topics[t]) : topics[t][j] = log
    BY <1>1, <2>1 DEF topicsWith, Range
  <2>3. j - 1 \in Indexes /\ (j - 1) + 1 = j /\ Len(topics[t]) \in Nat
    BY <2>1, <2>2, TopicsAssumption DEF Indexes
  <2>4. <<t, j - 1>> \in TopicPartitions /\ Current(<<t, j - 1>>, log)
    BY Zenon, <2>1, <2>2, <2>3 DEF TopicPartitions, Current
  <2> QED
    BY Zenon, <2>4
<1>2. ASSUME NEW tp \in TopicPartitions, tp[1] = t, Current(tp, log) PROVE t \in topicsWith(log)
  <2>1. topics[t] # Absent /\ topics[t] \in Seq(1..lastLog)
    BY Zenon, <1>2 DEF Current, TopicShape
  <2> QED
    BY <1>2, <2>1 DEF topicsWith, Range, Current
<1> QED
  BY Zenon, <1>1, <1>2

\* The answer of a fetch for the partitions of a topic.
LEMMA AnswersAre ==
  ASSUME FetchInv PROVE LoadedAnswersCommitted
<1> SUFFICES ASSUME group = "loaded", NEW t \in steady, topics[t] # Absent, t \in Topics,
                    NEW tp \in DOMAIN partitionsOf(t)
             PROVE  fetchOffsets(tp) \in allowed[partitionsOf(t)[tp]]
  BY Zenon DEF LoadedAnswersCommitted, FetchInv, SteadyInv
<1> QED
  BY PartitionsOf, CurrentLog DEF FetchInv, AnswerInv

\* The initial state satisfies the invariant.
LEMMA InitFetch == Init => FetchInv
<1> SUFFICES ASSUME Init PROVE FetchInv
  BY Zenon
<1>1. /\ getAllCheckpoints = <<>> /\ offsetsCache = <<>> /\ partitionsMap = <<>>
      /\ commit = noCommit /\ load = noLoad /\ group = "none" /\ lastLog = 0
      /\ steady = Topics /\ topics = [t \in Topics |-> Absent]
      /\ allowed = [log \in Logs |-> {NoOffset}]
      /\ durable = [tp \in TopicPartitions |-> {}]
  BY DEF Init, getAllCheckpoints, TopicPartitions
<1>2. \A tp \in TopicPartitions : \A log : ~Current(tp, log)
  BY Zenon, <1>1 DEF Current, TopicPartitions
<1>3. TopicShape
  BY <1>1, TopicsAssumption DEF TopicShape
<1>4. StoreShape /\ ManagerShape /\ CommitShape /\ LoadShape /\ SteadyInv
  BY <1>1 DEF StoreShape, ManagerShape, CommitShape, LoadShape, SteadyInv
<1>5. HomeInv
  <2>1. [log \in Logs |-> Absent] \in [Logs -> TopicPartitions \cup {Absent}]
    BY Zenon
  <2>2. Placed([log \in Logs |-> Absent])
    BY <1>1, <1>2 DEF Placed
  <2> QED
    BY Zenon, <2>1, <2>2 DEF HomeInv
<1>6. AnswerInv
  BY Zenon, <1>1 DEF AnswerInv
<1>7. VisibleIsDurable
  BY <1>1 DEF VisibleIsDurable
<1> QED
  BY Zenon, <1>3, <1>4, <1>5, <1>6, <1>7 DEF FetchInv

\* Neither topics, caches, commit and load nor the content of the store change.
LEMMA SameFetch ==
  ASSUME FetchInv, TopicShape',
         UNCHANGED <<lastLog, group, offsetsCache, partitionsMap, commit, load, allowed, durable, steady>>,
         getAllCheckpoints' = getAllCheckpoints,
         \A tp \in TopicPartitions : \A log : Current(tp, log)' <=> Current(tp, log)
  PROVE  FetchInv'
<1>1. StoreShape' /\ ManagerShape' /\ VisibleIsDurable'
  BY Zenon DEF FetchInv, StoreShape, ManagerShape, VisibleIsDurable
<1>2. CommitShape'
  BY Zenon DEF FetchInv, CommitShape, fetchOffsets
<1>3. LoadShape'
  BY Zenon DEF FetchInv, LoadShape
<1>4. SteadyInv'
  <2>1. ASSUME commit # noCommit, NEW i \in DOMAIN commit.logs PROVE <<commit.topic, i>> \in TopicPartitions
    BY Zenon, <2>1 DEF FetchInv, CommitShape, TopicPartitions
  <2> QED
    BY Zenon, <2>1 DEF FetchInv, SteadyInv, ManagerShape
<1>5. HomeInv'
  <2>1. PICK home \in [Logs -> TopicPartitions \cup {Absent}] : Placed(home)
    BY Zenon DEF FetchInv, HomeInv
  <2>2. Placed(home)'
    BY Zenon, <2>1 DEF Placed
  <2> QED
    BY Zenon, <2>2 DEF HomeInv
<1>6. AnswerInv'
  BY Zenon DEF FetchInv, AnswerInv, fetchOffsets
<1> QED
  BY Zenon, <1>1, <1>2, <1>3, <1>4, <1>5, <1>6 DEF FetchInv

\* A new topic has no partitions yet.
LEMMA CreateTopicFetch ==
  ASSUME FetchInv, NEW t \in Topics, createTopic(t)
  PROVE  FetchInv'
<1>1. /\ UNCHANGED <<lastLog, records, base, group, offsetsCache, partitionsMap, commit, load, allowed,
                     durable, steady>>
      /\ topics[t] = Absent /\ topics' = [topics EXCEPT ![t] = <<>>]
  BY Zenon DEF createTopic, store, manager, histories
<1>2. /\ topics'[t] = <<>> /\ \A s \in Topics \ {t} : topics'[s] = topics[s]
      /\ DOMAIN topics' = Topics
  BY Zenon, <1>1 DEF FetchInv, TopicShape
<1>3. TopicShape'
  <2>1. <<>> \in Seq(1..lastLog) /\ Len(<<>>) = 0 /\ MaxPartitions \in Nat
    BY TopicsAssumption
  <2>2. \A s \in Topics : topics'[s] = topics[s] \/ topics'[s] = <<>>
    BY Zenon, <1>2
  <2>3. ASSUME NEW s \in Topics
        PROVE  topics'[s] = Absent \/ (topics'[s] \in Seq(1..lastLog) /\ Len(topics'[s]) <= MaxPartitions)
    <3>1. CASE topics'[s] = topics[s]
      BY Zenon, <3>1 DEF FetchInv, TopicShape
    <3>2. CASE topics'[s] = <<>>
      BY <2>1, <3>2
    <3> QED
      BY Zenon, <2>2, <3>1, <3>2
  <2>4. lastLog' = lastLog /\ lastLog \in 0..MaxLogs
    BY Zenon, <1>1 DEF FetchInv, TopicShape
  <2> QED
    BY Zenon, <1>2, <2>3, <2>4 DEF TopicShape
<1>4. ASSUME NEW tp \in TopicPartitions, NEW log PROVE Current(tp, log)' <=> Current(tp, log)
  <2>1. CASE tp[1] = t
    BY <1>1, <1>2, <2>1 DEF Current
  <2>2. CASE tp[1] # t
    BY Zenon, <1>2, <2>2 DEF Current, TopicPartitions
  <2> QED
    BY Zenon, <2>1, <2>2
<1>5. getAllCheckpoints' = getAllCheckpoints
  BY Zenon, <1>1 DEF getAllCheckpoints
<1> QED
  BY Zenon, <1>1, <1>3, <1>4, <1>5, SameFetch

\* A new partition has a log that nothing refers to.
LEMMA CreatePartitionsFetch ==
  ASSUME FetchInv, NEW t \in Topics, createTopicPartitions(t)
  PROVE  FetchInv'
<1> DEFINE new == lastLog + 1
           place == <<t, Len(topics[t])>>
<1>1. /\ UNCHANGED <<records, base, group, offsetsCache, partitionsMap, commit, load, allowed, durable, steady>>
      /\ topics[t] # Absent /\ Len(topics[t]) < MaxPartitions /\ lastLog < MaxLogs
      /\ lastLog' = new /\ topics' = [topics EXCEPT ![t] = Append(@, lastLog')]
  BY Zenon DEF createTopicPartitions, store, manager, histories
<1>2. /\ topics'[t] = Append(topics[t], new) /\ \A s \in Topics \ {t} : topics'[s] = topics[s]
      /\ DOMAIN topics' = Topics
  BY Zenon, <1>1 DEF FetchInv, TopicShape
<1>3. /\ lastLog \in Nat /\ new \in Logs /\ new \in 1..lastLog' /\ lastLog' \in 0..MaxLogs
      /\ 1..lastLog \subseteq 1..lastLog' /\ new \notin 1..lastLog
  BY <1>1, TopicsAssumption DEF FetchInv, TopicShape, Logs
<1>4. topics[t] \in Seq(1..lastLog) /\ Len(topics[t]) \in Nat /\ Len(topics[t]) \in Indexes
  BY <1>1, TopicsAssumption DEF FetchInv, TopicShape, Indexes
<1>5. place \in TopicPartitions /\ place[1] = t /\ place[2] = Len(topics[t])
  BY Zenon, <1>4 DEF TopicPartitions
<1>6. /\ topics'[t] \in Seq(1..lastLog') /\ Len(topics'[t]) = Len(topics[t]) + 1
      /\ topics'[t][Len(topics[t]) + 1] = new
      /\ \A i \in 1..Len(topics[t]) : topics'[t][i] = topics[t][i]
  <2>1. topics[t] \in Seq(1..lastLog')
    BY <1>3, <1>4
  <2> QED
    BY <1>2, <1>3, <1>4, <2>1
<1>7. TopicShape'
  <2>1. ASSUME NEW s \in Topics PROVE topics'[s] = Absent \/ (topics'[s] \in Seq(1..lastLog') /\ Len(topics'[s]) <= MaxPartitions)
    <3>1. CASE s = t
      BY <1>1, <1>4, <1>6, <3>1, TopicsAssumption
    <3>2. CASE s # t
      BY <1>2, <1>3, <3>2 DEF FetchInv, TopicShape
    <3> QED
      BY Zenon, <3>1, <3>2
  <2> QED
    BY Zenon, <1>2, <1>3, <2>1 DEF TopicShape
<1>8. topics'[t] # Absent
  <2>1. topics'[t] \in [1..Len(topics'[t]) -> Logs] /\ Len(topics'[t]) \in 0..MaxPartitions
    <3>1. 1..lastLog' \subseteq Logs
      BY <1>3, TopicsAssumption DEF Logs
    <3>2. Len(topics'[t]) \in 0..MaxPartitions
      BY <1>1, <1>4, <1>6, TopicsAssumption
    <3>3. topics'[t] \in [1..Len(topics'[t]) -> 1..lastLog']
      <4>1. ASSUME NEW S, NEW q \in Seq(S) PROVE q \in [1..Len(q) -> S]
        OBVIOUS
      <4> QED
        BY Zenon, <1>6, <4>1
    <3> QED
      BY Zenon, <3>1, <3>2, <3>3
  <2> QED
    BY Zenon, <2>1, TopicsAssumption
<1>9. ASSUME NEW tp \in TopicPartitions, NEW log
      PROVE  Current(tp, log)' <=> Current(tp, log) \/ (tp = place /\ log = new)
  <2>1. CASE tp[1] # t
    BY Zenon, <1>2, <1>5, <2>1 DEF Current, TopicPartitions
  <2>2. CASE tp[1] = t
    <3>1. tp = <<t, tp[2]>> /\ tp[2] \in Nat
      BY <2>2 DEF TopicPartitions, Indexes
    <3>2. CASE tp[2] = Len(topics[t])
      <4>1. ~Current(tp, log) /\ tp = place
        BY <1>4, <2>2, <3>1, <3>2 DEF Current
      <4>2. Current(tp, log)' <=> log = new
        BY <1>4, <1>6, <1>8, <2>2, <3>2 DEF Current
      <4> QED
        BY Zenon, <4>1, <4>2
    <3>3. CASE tp[2] # Len(topics[t])
      <4>1. tp # place
        BY Zenon, <1>5, <3>3
      <4>2. tp[2] + 1 \in 1..Len(topics'[t]) <=> tp[2] + 1 \in 1..Len(topics[t])
        BY <1>4, <1>6, <3>1, <3>3
      <4>3. Current(tp, log)' <=> Current(tp, log)
        BY Zenon, <1>1, <1>6, <1>8, <2>2, <4>2 DEF Current
      <4> QED
        BY Zenon, <4>1, <4>3
    <3> QED
      BY Zenon, <3>2, <3>3
  <2> QED
    BY Zenon, <2>1, <2>2
<1>10. getAllCheckpoints' = getAllCheckpoints
  BY Zenon, <1>1 DEF getAllCheckpoints
<1>11. \A tp \in TopicPartitions : \A log : Current(tp, log) => log # new /\ tp # place
  <2>1. ASSUME NEW tp \in TopicPartitions, NEW log, Current(tp, log) PROVE log # new
    BY Zenon, <1>3, <2>1, CurrentLog DEF FetchInv
  <2>2. ASSUME NEW log, Current(place, log) PROVE FALSE
    BY <1>4, <1>5, <2>2 DEF Current
  <2> QED
    BY Zenon, <2>1, <2>2
<1> HIDE DEF new, place
<1>12. StoreShape' /\ ManagerShape' /\ VisibleIsDurable'
  <2>1. \A log \in Logs : log > lastLog' => log > lastLog
    BY <1>3 DEF Logs, new
  <2>2. lastLog' = new
    BY Zenon, <1>1
  <2>3. StoreShape'
    BY Zenon, <1>1, <1>3, <1>10, <2>1 DEF FetchInv, StoreShape
  <2>4. ManagerShape'
    BY Zenon, <1>1, <1>3 DEF FetchInv, ManagerShape
  <2> QED
    BY Zenon, <1>1, <2>3, <2>4 DEF FetchInv, VisibleIsDurable
<1>13. CommitShape'
  BY Zenon, <1>1, <1>3 DEF FetchInv, CommitShape, fetchOffsets
<1>14. LoadShape'
  <2> SUFFICES ASSUME load # noLoad PROVE LoadShape'
    BY Zenon, <1>1 DEF LoadShape
  <2>1. \A tp \in DOMAIN load.tps : tp[1] \in steady' => Current(tp, load.tps[tp])'
    BY Zenon, <1>1, <1>9 DEF FetchInv, LoadShape
  <2>2. \A tp \in TopicPartitions, log \in DOMAIN load.offsets :
          tp[1] \in steady' /\ Current(tp, log)' => log \in load.logIds \/ tp \in DOMAIN load.tps
    BY Zenon, <1>1, <1>3, <1>9 DEF FetchInv, LoadShape
  <2> QED
    BY Zenon, <1>1, <1>3, <1>10, <2>1, <2>2 DEF FetchInv, LoadShape
<1>15. SteadyInv'
  <2>1. ASSUME commit # noCommit, NEW i \in DOMAIN commit.logs PROVE <<commit.topic, i>> \in TopicPartitions
    BY Zenon, <2>1 DEF FetchInv, CommitShape, TopicPartitions
  <2> QED
    BY Zenon, <1>1, <1>9, <2>1 DEF FetchInv, SteadyInv, ManagerShape
<1>16. HomeInv'
  <2>1. PICK home \in [Logs -> TopicPartitions \cup {Absent}] : Placed(home)
    BY Zenon DEF FetchInv, HomeInv
  <2>0. PICK moved : moved = [home EXCEPT ![new] = place]
    BY Zenon
  <2>2. /\ moved \in [Logs -> TopicPartitions \cup {Absent}]
        /\ moved[new] = place
        /\ \A log \in Logs : log # new => moved[log] = home[log]
    BY Zenon, <1>3, <1>5, <2>0
  <2>3. \A log \in 1..lastLog : log \in Logs /\ moved[log] = home[log]
    BY <1>3, <2>2, TopicsAssumption DEF Logs
  <2>4. Placed(moved)'
    <3>1. \A tp \in TopicPartitions, log \in Logs : Current(tp, log)' => moved[log] = tp
      BY Zenon, <1>9, <1>11, <2>1, <2>2 DEF Placed
    <3>2. \A tp \in DOMAIN partitionsMap' : moved[partitionsMap'[tp]] = tp
      BY Zenon, <1>1, <2>1, <2>3 DEF Placed, FetchInv, ManagerShape
    <3>3. load' # noLoad =>
            /\ \A tp \in DOMAIN load'.tps : moved[load'.tps[tp]] = tp
            /\ \A log \in DOMAIN load'.offsets :
                 moved[log] \in TopicPartitions /\ load'.offsets[log] \in durable'[moved[log]]
      BY Zenon, <1>1, <2>1, <2>3 DEF Placed, FetchInv, LoadShape
    <3>4. commit' # noCommit => \A i \in DOMAIN commit'.logs : moved[commit'.logs[i]] = <<commit'.topic, i>>
      BY Zenon, <1>1, <2>1, <2>3 DEF Placed, FetchInv, CommitShape
    <3>5. \A log \in DOMAIN getAllCheckpoints' :
            moved[log] \in TopicPartitions /\ getAllCheckpoints'[log] \in durable'[moved[log]]
      BY Zenon, <1>1, <1>10, <2>1, <2>3 DEF Placed, FetchInv, StoreShape
    <3> QED
      BY Zenon, <3>1, <3>2, <3>3, <3>4, <3>5 DEF Placed
  <2> QED
    BY Zenon, <2>2, <2>4 DEF HomeInv
<1>17. AnswerInv'
  <2> SUFFICES ASSUME group = "loaded", NEW tp \in TopicPartitions, NEW log \in Logs,
                      tp[1] \in steady, Current(tp, log)'
               PROVE  fetchOffsets(tp) \in allowed[log]
    BY Zenon, <1>1 DEF AnswerInv, fetchOffsets
  <2>1. CASE Current(tp, log)
    BY Zenon, <2>1 DEF FetchInv, AnswerInv
  <2>2. CASE tp = place /\ log = new
    <3>1. place \notin DOMAIN partitionsMap
      BY Zenon, <1>5, <1>11, <2>2 DEF FetchInv, SteadyInv
    <3>2. fetchOffsets(tp) = NoOffset
      BY Zenon, <2>2, <3>1 DEF fetchOffsets, FetchInv, ManagerShape
    <3>3. new > lastLog
      BY <1>3 DEF new
    <3> QED
      BY Zenon, <1>3, <2>2, <3>2, <3>3 DEF FetchInv, StoreShape
  <2> QED
    BY Zenon, <1>9, <2>1, <2>2
<1> QED
  BY Zenon, <1>7, <1>12, <1>13, <1>14, <1>15, <1>16, <1>17 DEF FetchInv

\* What the caches have of a deleted topic is out of date, and the topic is not steady.
LEMMA DeleteTopicFetch ==
  ASSUME FetchInv, NEW t \in Topics, deleteTopic(t)
  PROVE  FetchInv'
<1>1. /\ UNCHANGED <<lastLog, records, base, group, offsetsCache, partitionsMap, commit, load, allowed, durable>>
      /\ topics' = [topics EXCEPT ![t] = Absent] /\ steady' = steady \ {t}
  BY Zenon DEF deleteTopic, store, manager
<1>2. TopicShape'
  BY Zenon, <1>1 DEF FetchInv, TopicShape
<1>3. ASSUME NEW tp \in TopicPartitions, NEW log
      PROVE  Current(tp, log)' <=> Current(tp, log) /\ tp[1] # t
  <2>1. tp[1] \in Topics
    BY Zenon DEF TopicPartitions
  <2>2. topics'[t] = Absent /\ \A s \in Topics \ {t} : topics'[s] = topics[s]
    BY Zenon, <1>1 DEF FetchInv, TopicShape
  <2> QED
    BY Zenon, <2>1, <2>2 DEF Current
<1>4. getAllCheckpoints' = getAllCheckpoints
  BY Zenon, <1>1 DEF getAllCheckpoints
<1>5. StoreShape' /\ ManagerShape' /\ VisibleIsDurable'
  BY Zenon, <1>1, <1>4 DEF FetchInv, StoreShape, ManagerShape, VisibleIsDurable
<1>6. CommitShape'
  BY Zenon, <1>1 DEF FetchInv, CommitShape, fetchOffsets
<1>7. LoadShape'
  BY Zenon, <1>1, <1>3, <1>4 DEF FetchInv, LoadShape
<1>8. SteadyInv'
  <2>1. ASSUME commit # noCommit, NEW i \in DOMAIN commit.logs
        PROVE  <<commit.topic, i>> \in TopicPartitions /\ <<commit.topic, i>>[1] = commit.topic
    BY Zenon, <2>1 DEF FetchInv, CommitShape, TopicPartitions
  <2> QED
    BY Zenon, <1>1, <1>3, <2>1 DEF FetchInv, SteadyInv, ManagerShape
<1>9. HomeInv'
  <2>1. PICK home \in [Logs -> TopicPartitions \cup {Absent}] : Placed(home)
    BY Zenon DEF FetchInv, HomeInv
  <2>2. Placed(home)'
    BY Zenon, <1>1, <1>3, <1>4, <2>1 DEF Placed
  <2> QED
    BY Zenon, <2>2 DEF HomeInv
<1>10. AnswerInv'
  BY Zenon, <1>1, <1>3 DEF FetchInv, AnswerInv, fetchOffsets
<1> QED
  BY Zenon, <1>2, <1>5, <1>6, <1>7, <1>8, <1>9, <1>10 DEF FetchInv

\* Topics and the store stay as they are.
LEMMA SameTopics ==
  ASSUME TopicShape, UNCHANGED <<topics, lastLog>>
  PROVE  TopicShape' /\ \A tp, log : Current(tp, log)' <=> Current(tp, log)
BY Zenon DEF TopicShape, Current

\* A group made on demand starts with empty caches.
LEMMA CreateGroupFetch == ASSUME FetchInv, getOrMaybeCreateGroup PROVE FetchInv'
<1>1. /\ UNCHANGED <<topics, lastLog, records, base, commit, load, allowed, durable, steady>>
      /\ commit = noCommit /\ group' = "created" /\ offsetsCache' = <<>> /\ partitionsMap' = <<>>
  BY Zenon DEF getOrMaybeCreateGroup, world, store, histories, FetchInv, ManagerShape
<1>2. getAllCheckpoints' = getAllCheckpoints /\ TopicShape' /\ \A tp, log : Current(tp, log)' <=> Current(tp, log)
  BY Zenon, <1>1, SameTopics DEF getAllCheckpoints, FetchInv
<1>3. DOMAIN offsetsCache' = {} /\ DOMAIN partitionsMap' = {}
  BY <1>1
<1>4. StoreShape' /\ ManagerShape' /\ VisibleIsDurable' /\ CommitShape' /\ SteadyInv' /\ AnswerInv'
  BY Zenon, <1>1, <1>2, <1>3 DEF FetchInv, StoreShape, ManagerShape, VisibleIsDurable, CommitShape, SteadyInv, AnswerInv
<1>5. LoadShape'
  BY Zenon, <1>1, <1>2 DEF FetchInv, LoadShape
<1>6. HomeInv'
  <2>1. PICK home \in [Logs -> TopicPartitions \cup {Absent}] : Placed(home)
    BY Zenon DEF FetchInv, HomeInv
  <2>2. Placed(home)'
    BY Zenon, <1>1, <1>2, <1>3, <2>1 DEF Placed
  <2> QED
    BY Zenon, <2>2 DEF HomeInv
<1> QED
  BY Zenon, <1>2, <1>4, <1>5, <1>6 DEF FetchInv

\* A commit begins, or one ends: the caches and the store keep what they have.
LEMMA CommitFetch ==
  ASSUME FetchInv,
         UNCHANGED <<topics, lastLog, group, offsetsCache, partitionsMap, load, steady>>,
         getAllCheckpoints' = getAllCheckpoints, durable' = durable,
         \/ commit' = noCommit
         \/ /\ group # "none" /\ commit'.st = "resolve" /\ commit'.topic \in Topics
            /\ DOMAIN commit'.offsets \subseteq Indexes /\ DOMAIN commit'.logs = {},
         \A log \in Logs : log > lastLog => NoOffset \in allowed'[log],
         AnswerInv'
  PROVE  FetchInv'
<1>1. TopicShape' /\ \A tp, log : Current(tp, log)' <=> Current(tp, log)
  BY Zenon, SameTopics DEF FetchInv
<1>2. StoreShape' /\ ManagerShape' /\ VisibleIsDurable'
  BY Zenon DEF FetchInv, StoreShape, ManagerShape, VisibleIsDurable
<1>3. CommitShape'
  BY Zenon DEF CommitShape
<1>4. LoadShape'
  BY Zenon, <1>1 DEF FetchInv, LoadShape
<1>5. SteadyInv'
  BY Zenon, <1>1 DEF FetchInv, SteadyInv
<1>6. HomeInv'
  <2>1. PICK home \in [Logs -> TopicPartitions \cup {Absent}] : Placed(home)
    BY Zenon DEF FetchInv, HomeInv
  <2>2. Placed(home)'
    BY Zenon, <1>1, <2>1 DEF Placed
  <2> QED
    BY Zenon, <2>2 DEF HomeInv
<1> QED
  BY Zenon, <1>1, <1>2, <1>3, <1>4, <1>5, <1>6 DEF FetchInv

\* A turn of getOffsetsInfo learns the partitions that the topic has now.
LEMMA ResolveFetch == ASSUME FetchInv, CommitInv, getOffsetsInfo PROVE FetchInv'
<1>1. /\ UNCHANGED <<topics, lastLog, records, base, group, offsetsCache, load, allowed, durable, steady>>
      /\ commit.st = "resolve" /\ commit # noCommit
  BY DEF getOffsetsInfo, world, store, histories, noCommit
<1>2. getAllCheckpoints' = getAllCheckpoints /\ TopicShape' /\ \A tp, log : Current(tp, log)' <=> Current(tp, log)
  BY Zenon, <1>1, SameTopics DEF getAllCheckpoints, FetchInv
<1> DEFINE topic == commit.topic
<1>3. /\ topic \in Topics /\ DOMAIN commit.offsets \subseteq Indexes
      /\ DOMAIN commit.logs \subseteq DOMAIN commit.offsets /\ group # "none"
      /\ \A i \in DOMAIN commit.logs : /\ commit.logs[i] \in 1..lastLog
                                       /\ <<topic, i>> \in DOMAIN partitionsMap
  BY Zenon, <1>1 DEF FetchInv, CommitShape, ManagerShape
<1>4. PICK i \in DOMAIN commit.offsets \ DOMAIN commit.logs :
        LET known == <<topic, i>> \in DOMAIN partitionsMap
            there == topics[topic] # Absent /\ i < Len(topics[topic])
        IN /\ partitionsMap' = IF ~known /\ there THEN union(partitionsOf(topic), partitionsMap)
                                                   ELSE partitionsMap
           /\ commit' = IF known \/ there
                          THEN [commit EXCEPT !.logs = union([j \in {i} |-> partitionsMap'[<<topic, i>>]], @)]
                          ELSE noCommit
  BY Zenon DEF getOffsetsInfo
<1> DEFINE known == <<topic, i>> \in DOMAIN partitionsMap
           there == topics[topic] # Absent /\ i < Len(topics[topic])
           tp0 == <<topic, i>>
<1>5. tp0 \in TopicPartitions /\ tp0[1] = topic /\ tp0[2] = i
  BY Zenon, <1>3 DEF TopicPartitions
\* what the manager knows afterwards
<1>6. /\ DOMAIN partitionsMap \subseteq DOMAIN partitionsMap'
      /\ DOMAIN partitionsMap' \subseteq TopicPartitions
      /\ \A tp \in DOMAIN partitionsMap' :
           \/ tp \in DOMAIN partitionsMap /\ partitionsMap'[tp] = partitionsMap[tp]
           \/ Current(tp, partitionsMap'[tp])
      /\ known \/ there => tp0 \in DOMAIN partitionsMap'
  <2>1. CASE ~known /\ there
    <3>1. partitionsMap' = union(partitionsOf(topic), partitionsMap)
      BY Zenon, <1>4, <2>1
    <3>2. /\ DOMAIN partitionsMap' = DOMAIN partitionsOf(topic) \cup DOMAIN partitionsMap
          /\ \A tp \in DOMAIN partitionsMap' :
               partitionsMap'[tp] = IF tp \in DOMAIN partitionsOf(topic) THEN partitionsOf(topic)[tp]
                                                                          ELSE partitionsMap[tp]
      BY Zenon, <3>1 DEF union
    <3>3. /\ DOMAIN partitionsOf(topic) \subseteq TopicPartitions
          /\ \A tp \in DOMAIN partitionsOf(topic) : Current(tp, partitionsOf(topic)[tp])
          /\ \A tp \in TopicPartitions : \A log :
              tp[1] = topic /\ Current(tp, log) => tp \in DOMAIN partitionsOf(topic)
      BY Zenon, <1>3, <2>1, PartitionsOf DEF FetchInv
    <3>4. Current(tp0, topics[topic][i + 1])
      <4>1. i \in Nat /\ i + 1 \in 1..Len(topics[topic])
        <5>1. i \in Nat /\ Len(topics[topic]) \in Nat
          BY <1>3, <2>1 DEF Indexes, FetchInv, TopicShape
        <5> QED
          BY <2>1, <5>1
      <4> QED
        BY Zenon, <1>5, <2>1, <4>1 DEF Current
    <3>5. tp0 \in DOMAIN partitionsOf(topic)
      BY Zenon, <1>5, <3>3, <3>4
    <3> HIDE DEF tp0, known, there
    <3> QED
      BY Zenon, <3>2, <3>3, <3>5 DEF FetchInv, ManagerShape
  <2>2. CASE known \/ ~there
    <3>1. partitionsMap' = partitionsMap
      BY Zenon, <1>4, <2>2
    <3> QED
      BY Zenon, <2>2, <3>1 DEF FetchInv, ManagerShape
  <2> QED
    BY Zenon, <2>1, <2>2
<1>7. \A tp \in DOMAIN partitionsMap' : partitionsMap'[tp] \in 1..lastLog
  BY Zenon, <1>6, CurrentLog DEF FetchInv, ManagerShape
\* what the commit has resolved afterwards
<1>8. \/ commit' = noCommit
      \/ /\ commit' # noCommit /\ commit'.st = "resolve" /\ commit'.topic = topic
         /\ commit'.offsets = commit.offsets
         /\ DOMAIN commit'.logs = DOMAIN commit.logs \cup {i}
         /\ tp0 \in DOMAIN partitionsMap' /\ commit'.logs[i] = partitionsMap'[tp0]
         /\ \A j \in DOMAIN commit.logs : commit'.logs[j] = commit.logs[j]
  <2>1. CASE known \/ there
    <3>0. PICK log : log = partitionsMap'[tp0]
      BY Zenon
    <3>1. commit' = [commit EXCEPT !.logs = union([k \in {i} |-> log], @)]
      BY Zenon, <1>4, <2>1, <3>0
    <3>2. PICK st, t, offsets, logs :
            commit = [st |-> st, topic |-> t, offsets |-> offsets, logs |-> logs]
      BY Zenon, <1>1 DEF CommitInv
    <3>3. commit' = [st |-> st, topic |-> t, offsets |-> offsets, logs |-> union([k \in {i} |-> log], logs)]
      BY Zenon, <3>1, <3>2
    <3>4. /\ DOMAIN union([k \in {i} |-> log], logs) = DOMAIN logs \cup {i}
          /\ union([k \in {i} |-> log], logs)[i] = log
          /\ \A j \in DOMAIN logs : j # i => union([k \in {i} |-> log], logs)[j] = logs[j]
      BY Zenon DEF union
    <3>5. i \notin DOMAIN logs
      BY Zenon, <3>2
    <3>6. st = "resolve" /\ commit.logs = logs /\ commit.offsets = offsets /\ topic = t
      BY Zenon, <1>1, <3>2
    <3>7. /\ commit'.st = "resolve" /\ commit'.topic = t /\ commit'.offsets = offsets
          /\ commit'.logs = union([k \in {i} |-> log], logs) /\ commit' # noCommit
      BY Zenon, <3>3, <3>6 DEF noCommit
    <3> HIDE DEF tp0, topic, known, there
    <3> QED
      BY Zenon, <1>6, <2>1, <3>0, <3>4, <3>5, <3>6, <3>7
  <2>2. CASE ~(known \/ there)
    BY Zenon, <1>4, <2>2
  <2> QED
    BY Zenon, <2>1, <2>2
<1> HIDE DEF known, there, topic, tp0
<1>9. StoreShape' /\ ManagerShape' /\ VisibleIsDurable'
  <2>1. StoreShape' /\ VisibleIsDurable'
    BY Zenon, <1>1, <1>2 DEF FetchInv, StoreShape, VisibleIsDurable
  <2>2. DOMAIN offsetsCache' \subseteq DOMAIN partitionsMap'
    BY Zenon, <1>1, <1>6 DEF FetchInv, ManagerShape
  <2>3. ManagerShape'
    BY Zenon, <1>1, <1>3, <1>6, <1>7, <2>2 DEF ManagerShape
  <2> QED
    BY Zenon, <2>1, <2>3
<1>10. CommitShape'
  <2> SUFFICES ASSUME commit' # noCommit PROVE CommitShape'
    BY Zenon DEF CommitShape
  <2>1. \A j \in DOMAIN commit'.logs : /\ commit'.logs[j] \in 1..lastLog
                                       /\ <<topic, j>> \in DOMAIN partitionsMap'
    BY Zenon, <1>3, <1>6, <1>7, <1>8 DEF topic, tp0
  <2> QED
    BY Zenon, <1>1, <1>3, <1>8, <2>1 DEF CommitShape
<1>11. LoadShape'
  BY Zenon, <1>1, <1>2 DEF FetchInv, LoadShape
<1>12. SteadyInv'
  <2>1. \A tp \in DOMAIN partitionsMap' : tp[1] \in steady => Current(tp, partitionsMap'[tp])
    BY Zenon, <1>6 DEF FetchInv, SteadyInv
  <2>2. ASSUME commit' # noCommit, NEW j \in DOMAIN commit'.logs, topic \in steady
        PROVE  Current(<<topic, j>>, commit'.logs[j])
    <3>1. CASE j = i
      BY Zenon, <1>5, <1>8, <2>1, <2>2, <3>1 DEF tp0
    <3>2. CASE j # i
      BY Zenon, <1>1, <1>8, <2>2, <3>2 DEF FetchInv, SteadyInv, topic
    <3> QED
      BY Zenon, <3>1, <3>2
  <2> QED
    BY Zenon, <1>1, <1>2, <1>8, <2>1, <2>2 DEF SteadyInv, FetchInv
<1>13. HomeInv'
  <2>1. PICK home \in [Logs -> TopicPartitions \cup {Absent}] : Placed(home)
    BY Zenon DEF FetchInv, HomeInv
  <2>2. \A tp \in DOMAIN partitionsMap' : home[partitionsMap'[tp]] = tp
    <3>1. ASSUME NEW tp \in DOMAIN partitionsMap', Current(tp, partitionsMap'[tp])
          PROVE  home[partitionsMap'[tp]] = tp
      BY Zenon, <1>6, <2>1, <3>1, CurrentLog DEF FetchInv, Placed
    <3> QED
      BY Zenon, <1>6, <2>1, <3>1 DEF Placed
  <2>3. commit' # noCommit => \A j \in DOMAIN commit'.logs : home[commit'.logs[j]] = <<commit'.topic, j>>
    <3> SUFFICES ASSUME commit' # noCommit, NEW j \in DOMAIN commit'.logs
                 PROVE  home[commit'.logs[j]] = <<topic, j>>
      BY Zenon, <1>8
    <3>1. CASE j = i
      BY Zenon, <1>8, <2>2, <3>1 DEF tp0
    <3>2. CASE j # i
      BY Zenon, <1>1, <1>8, <2>1, <3>2 DEF Placed, topic
    <3> QED
      BY Zenon, <3>1, <3>2
  <2>4. Placed(home)'
    BY Zenon, <1>1, <1>2, <2>1, <2>2, <2>3 DEF Placed
  <2> QED
    BY Zenon, <2>4 DEF HomeInv
<1>14. AnswerInv'
  BY Zenon, <1>1, <1>2 DEF FetchInv, AnswerInv, fetchOffsets
<1> QED
  BY Zenon, <1>2, <1>9, <1>10, <1>11, <1>12, <1>13, <1>14 DEF FetchInv

\* The offset the commit has for a log is the one for the log's partition.
LEMMA CheckPointsAre ==
  ASSUME commit # noCommit
  PROVE  /\ DOMAIN checkPoints = Range(commit.logs)
         /\ \A log \in DOMAIN checkPoints :
              \E i \in DOMAIN commit.logs : commit.logs[i] = log /\ checkPoints[log] = commit.offsets[i]
<1>1. DOMAIN checkPoints = Range(commit.logs)
  BY Zenon DEF checkPoints
<1>2. ASSUME NEW log \in DOMAIN checkPoints
      PROVE  \E i \in DOMAIN commit.logs : commit.logs[i] = log /\ checkPoints[log] = commit.offsets[i]
  <2> DEFINE i == CHOOSE j \in DOMAIN commit.logs : commit.logs[j] = log
  <2>1. \E j \in DOMAIN commit.logs : commit.logs[j] = log
    BY Zenon, <1>1, <1>2 DEF Range
  <2>2. i \in DOMAIN commit.logs /\ commit.logs[i] = log
    BY Zenon, <2>1
  <2>3. checkPoints[log] = commit.offsets[i]
    BY Zenon, <1>2 DEF checkPoints
  <2> QED
    BY Zenon, <2>2, <2>3
<1> QED
  BY Zenon, <1>1, <1>2

\* The write of a commit, with the answer of the store or without it.
LEMMA WriteFetch ==
  ASSUME IInv, FetchInv, resolved, updateMultiLSN,
         UNCHANGED <<topics, lastLog, base, group, offsetsCache, partitionsMap, load>>,
         \/ commit' = noCommit
         \/ /\ commit' # noCommit /\ commit'.st = "cache" /\ commit'.topic = commit.topic
            /\ commit'.offsets = commit.offsets /\ commit'.logs = commit.logs
  PROVE  FetchInv'
<1>0. commit.st = "resolve" /\ commit # noCommit /\ DOMAIN commit.logs = DOMAIN commit.offsets
  BY DEF resolved, noCommit
<1>1. /\ commit.topic \in Topics /\ DOMAIN commit.offsets \subseteq Indexes
      /\ \A i \in DOMAIN commit.logs : /\ commit.logs[i] \in 1..lastLog
                                       /\ <<commit.topic, i>> \in DOMAIN partitionsMap
      /\ group # "none"
  BY Zenon, <1>0 DEF FetchInv, CommitShape, ManagerShape
<1>2. getAllCheckpoints' = union(checkPoints, getAllCheckpoints)
  BY Zenon, WriteStep
<1>3. /\ DOMAIN getAllCheckpoints' = DOMAIN checkPoints \cup DOMAIN getAllCheckpoints
      /\ \A log \in DOMAIN checkPoints : getAllCheckpoints'[log] = checkPoints[log]
      /\ \A log \in DOMAIN getAllCheckpoints \ DOMAIN checkPoints :
           getAllCheckpoints'[log] = getAllCheckpoints[log]
  BY Zenon, <1>2 DEF union
<1>4. TopicShape' /\ steady' = steady /\ \A tp, log : Current(tp, log)' <=> Current(tp, log)
  BY Zenon, SameTopics DEF FetchInv, updateMultiLSN
<1>5. \A log \in Logs : allowed[log] \subseteq allowed'[log]
  BY Zenon DEF IInv, updateMultiLSN, adding
<1>6. /\ DOMAIN durable' = TopicPartitions
      /\ \A tp \in TopicPartitions : durable[tp] \subseteq durable'[tp]
      /\ \A i \in DOMAIN commit.offsets : commit.offsets[i] \in durable'[<<commit.topic, i>>]
  <2>1. DOMAIN durable = TopicPartitions
    BY Zenon DEF FetchInv, StoreShape
  <2>2. durable' = [tp \in TopicPartitions |-> durable[tp] \cup {updates[y] : y \in {tp} \cap DOMAIN updates}]
    BY Zenon, <2>1 DEF updateMultiLSN, adding
  <2>3. /\ DOMAIN updates = {<<commit.topic, i>> : i \in DOMAIN commit.offsets}
        /\ \A tp \in DOMAIN updates : updates[tp] = commit.offsets[tp[2]]
    BY Zenon DEF updates
  <2>4. ASSUME NEW i \in DOMAIN commit.offsets
        PROVE  commit.offsets[i] \in durable'[<<commit.topic, i>>]
    <3>1. <<commit.topic, i>> \in TopicPartitions
      BY Zenon, <1>1 DEF TopicPartitions
    <3>2. <<commit.topic, i>> \in DOMAIN updates /\ updates[<<commit.topic, i>>] = commit.offsets[i]
      BY Zenon, <2>3
    <3> QED
      BY Zenon, <2>2, <3>1, <3>2
  <2>5. DOMAIN durable' = TopicPartitions /\ \A tp \in TopicPartitions : durable[tp] \subseteq durable'[tp]
    BY Zenon, <2>2
  <2> QED
    BY Zenon, <2>4, <2>5
<1>7. /\ DOMAIN checkPoints = Range(commit.logs)
      /\ \A log \in DOMAIN checkPoints :
           \E i \in DOMAIN commit.logs : commit.logs[i] = log /\ checkPoints[log] = commit.offsets[i]
  BY Zenon, <1>0, CheckPointsAre
<1>8. StoreShape'
  <2>1. DOMAIN getAllCheckpoints' \subseteq 1..lastLog
    <3>1. DOMAIN getAllCheckpoints \subseteq 1..lastLog
      BY Zenon DEF FetchInv, StoreShape
    <3>2. ASSUME NEW log \in DOMAIN checkPoints PROVE log \in 1..lastLog
      <4>1. PICK i \in DOMAIN commit.logs : commit.logs[i] = log
        BY Zenon, <1>7
      <4>2. commit.logs[i] \in 1..lastLog
        BY Zenon, <1>1
      <4> QED
        BY Zenon, <4>1, <4>2
    <3> QED
      BY Zenon, <1>3, <3>1, <3>2
  <2> QED
    BY Zenon, <1>5, <1>6, <2>1 DEF FetchInv, StoreShape
<1>9. ManagerShape' /\ VisibleIsDurable'
  <2>1. ManagerShape'
    BY Zenon, <1>1 DEF FetchInv, ManagerShape
  <2>2. VisibleIsDurable'
    BY Zenon, <1>6 DEF FetchInv, VisibleIsDurable, ManagerShape
  <2> QED
    BY Zenon, <2>1, <2>2
<1>10. CommitShape'
  BY Zenon, <1>0, <1>1, <1>6 DEF CommitShape
<1>11. LoadShape'
  BY Zenon, <1>1, <1>4 DEF FetchInv, LoadShape
<1>12. SteadyInv'
  BY Zenon, <1>0, <1>4 DEF FetchInv, SteadyInv
<1>13. HomeInv'
  <2>1. PICK home \in [Logs -> TopicPartitions \cup {Absent}] : Placed(home)
    BY Zenon DEF FetchInv, HomeInv
  <2>2. ASSUME NEW log \in DOMAIN getAllCheckpoints'
        PROVE  home[log] \in TopicPartitions /\ getAllCheckpoints'[log] \in durable'[home[log]]
    <3>1. CASE log \in DOMAIN checkPoints
      <4>1. PICK i \in DOMAIN commit.logs : commit.logs[i] = log /\ checkPoints[log] = commit.offsets[i]
        BY Zenon, <1>7, <3>1
      <4>2. home[log] = <<commit.topic, i>> /\ <<commit.topic, i>> \in TopicPartitions
        BY Zenon, <1>0, <1>1, <2>1, <4>1 DEF Placed, TopicPartitions
      <4> QED
        BY Zenon, <1>0, <1>3, <1>6, <3>1, <4>1, <4>2
    <3>2. CASE log \notin DOMAIN checkPoints
      BY Zenon, <1>3, <1>6, <2>1, <2>2, <3>2 DEF Placed
    <3> QED
      BY Zenon, <3>1, <3>2
  <2>3. load # noLoad => \A log \in DOMAIN load.offsets :
          home[log] \in TopicPartitions /\ load.offsets[log] \in durable'[home[log]]
    BY Zenon, <1>6, <2>1 DEF Placed
  <2>4. Placed(home)'
    BY Zenon, <1>0, <1>4, <2>1, <2>2, <2>3 DEF Placed
  <2> QED
    BY Zenon, <2>4 DEF HomeInv
<1>14. AnswerInv'
  BY Zenon, <1>4, <1>5 DEF FetchInv, AnswerInv, fetchOffsets
<1> QED
  BY Zenon, <1>4, <1>8, <1>9, <1>10, <1>11, <1>12, <1>13, <1>14 DEF FetchInv

\* The cache gets what the store has taken.
LEMMA CacheFetch == ASSUME IInv, FetchInv, updateCache PROVE FetchInv'
<1>1. /\ UNCHANGED <<topics, lastLog, records, base, group, partitionsMap, load, allowed, durable, steady>>
      /\ commit.st = "cache" /\ commit # noCommit /\ offsetsCache' = union(updates, offsetsCache)
  BY DEF updateCache, world, store, histories, noCommit
<1>2. getAllCheckpoints' = getAllCheckpoints /\ TopicShape' /\ \A tp, log : Current(tp, log)' <=> Current(tp, log)
  BY Zenon, <1>1, SameTopics DEF getAllCheckpoints, FetchInv
<1>3. /\ commit.topic \in Topics /\ DOMAIN commit.offsets \subseteq Indexes
      /\ DOMAIN commit.logs = DOMAIN commit.offsets
      /\ \A i \in DOMAIN commit.logs : /\ commit.logs[i] \in 1..lastLog
                                       /\ <<commit.topic, i>> \in DOMAIN partitionsMap
      /\ \A i \in DOMAIN commit.offsets : commit.offsets[i] \in durable[<<commit.topic, i>>]
      /\ group # "none"
  BY Zenon, <1>1 DEF FetchInv, CommitShape, ManagerShape
<1>4. /\ commit'.st = "answer" /\ commit'.topic = commit.topic /\ commit'.offsets = commit.offsets
      /\ commit'.logs = commit.logs /\ commit' # noCommit
  <2>1. PICK st, t, offsets, logs :
          commit = [st |-> st, topic |-> t, offsets |-> offsets, logs |-> logs]
    BY Zenon, <1>1 DEF IInv, CommitInv
  <2>2. commit' = [st |-> "answer", topic |-> t, offsets |-> offsets, logs |-> logs]
    BY Zenon, <2>1 DEF updateCache
  <2> QED
    BY Zenon, <2>1, <2>2 DEF noCommit
<1>5. /\ DOMAIN offsetsCache' = {<<commit.topic, i>> : i \in DOMAIN commit.offsets} \cup DOMAIN offsetsCache
      /\ \A i \in DOMAIN commit.offsets : offsetsCache'[<<commit.topic, i>>] = commit.offsets[i]
      /\ \A tp \in DOMAIN offsetsCache' :
           (\A i \in DOMAIN commit.offsets : tp # <<commit.topic, i>>) =>
             tp \in DOMAIN offsetsCache /\ offsetsCache'[tp] = offsetsCache[tp]
  <2>1. /\ DOMAIN updates = {<<commit.topic, i>> : i \in DOMAIN commit.offsets}
        /\ \A tp \in DOMAIN updates : updates[tp] = commit.offsets[tp[2]]
    BY Zenon DEF updates
  <2>2. /\ DOMAIN offsetsCache' = DOMAIN updates \cup DOMAIN offsetsCache
        /\ \A tp \in DOMAIN offsetsCache' :
             offsetsCache'[tp] = IF tp \in DOMAIN updates THEN updates[tp] ELSE offsetsCache[tp]
    BY Zenon, <1>1 DEF union
  <2> QED
    BY Zenon, <2>1, <2>2
<1>6. StoreShape' /\ ManagerShape' /\ VisibleIsDurable'
  <2>1. StoreShape'
    BY Zenon, <1>1, <1>2 DEF FetchInv, StoreShape
  <2>2. ManagerShape'
    BY Zenon, <1>1, <1>3, <1>5 DEF FetchInv, ManagerShape
  <2>3. VisibleIsDurable'
    <3> SUFFICES ASSUME NEW tp \in DOMAIN offsetsCache' PROVE offsetsCache'[tp] \in durable[tp]
      BY Zenon, <1>1 DEF VisibleIsDurable
    <3>1. ASSUME NEW i \in DOMAIN commit.offsets, tp = <<commit.topic, i>> PROVE offsetsCache'[tp] \in durable[tp]
      BY Zenon, <1>3, <1>5, <3>1
    <3>2. ASSUME \A i \in DOMAIN commit.offsets : tp # <<commit.topic, i>> PROVE offsetsCache'[tp] \in durable[tp]
      BY Zenon, <1>5, <3>2 DEF FetchInv, VisibleIsDurable
    <3> QED
      BY Zenon, <3>1, <3>2
  <2> QED
    BY Zenon, <2>1, <2>2, <2>3
<1>7. CommitShape'
  <2>1. \A i \in DOMAIN commit'.offsets : fetchOffsets(<<commit.topic, i>>)' = commit'.offsets[i]
    BY Zenon, <1>4, <1>5 DEF fetchOffsets
  <2>2. \A i \in DOMAIN commit'.offsets : commit'.offsets[i] \in durable'[<<commit'.topic, i>>]
    BY Zenon, <1>1, <1>3, <1>4
  <2> QED
    BY Zenon, <1>1, <1>3, <1>4, <2>1, <2>2 DEF CommitShape
<1>8. LoadShape'
  BY Zenon, <1>1, <1>2 DEF FetchInv, LoadShape
<1>9. SteadyInv'
  BY Zenon, <1>1, <1>2, <1>4 DEF FetchInv, SteadyInv
<1>10. HomeInv'
  <2>1. PICK home \in [Logs -> TopicPartitions \cup {Absent}] : Placed(home)
    BY Zenon DEF FetchInv, HomeInv
  <2>2. Placed(home)'
    BY Zenon, <1>1, <1>2, <1>4, <2>1 DEF Placed
  <2> QED
    BY Zenon, <2>2 DEF HomeInv
<1>11. AnswerInv'
  <2> SUFFICES ASSUME group = "loaded", NEW tp \in TopicPartitions, NEW log \in Logs,
                      tp[1] \in steady, Current(tp, log)
               PROVE  fetchOffsets(tp)' \in allowed[log]
    BY Zenon, <1>1, <1>2 DEF AnswerInv
  <2>1. ASSUME NEW i \in DOMAIN commit.offsets, tp = <<commit.topic, i>>
        PROVE  fetchOffsets(tp)' \in allowed[log]
    <3>1. Current(tp, commit.logs[i])
      BY Zenon, <1>1, <1>3, <2>1 DEF FetchInv, SteadyInv
    <3>2. commit.logs[i] = log
      BY Zenon, <3>1 DEF Current
    <3>3. log \in DOMAIN checkPoints
      BY Zenon, <1>1, <1>3, <3>2, CheckPointsAre DEF Range
    <3>4. PICK j \in DOMAIN commit.logs : commit.logs[j] = log /\ checkPoints[log] = commit.offsets[j]
      BY Zenon, <1>1, <3>3, CheckPointsAre
    <3>5. PICK home \in [Logs -> TopicPartitions \cup {Absent}] : Placed(home)
      BY Zenon DEF FetchInv, HomeInv
    <3>6. j = i
      <4>1. home[log] = <<commit.topic, j>> /\ home[log] = <<commit.topic, i>>
        BY Zenon, <1>1, <1>3, <3>2, <3>4, <3>5 DEF Placed
      <4> QED
        BY <4>1
    <3>7. heldFor(log) = checkPoints[log] /\ heldFor(log) \in allowed[log]
      BY Zenon, <1>1, <3>3 DEF IInv, WrittenInv, StoredOffsetsSurvive, heldFor
    <3>8. fetchOffsets(tp)' = commit.offsets[i]
      BY Zenon, <1>5, <2>1 DEF fetchOffsets
    <3> QED
      BY Zenon, <3>4, <3>6, <3>7, <3>8
  <2>2. ASSUME \A i \in DOMAIN commit.offsets : tp # <<commit.topic, i>>
        PROVE  fetchOffsets(tp)' \in allowed[log]
    <3>1. fetchOffsets(tp)' = fetchOffsets(tp)
      BY Zenon, <1>5, <2>2 DEF fetchOffsets
    <3> QED
      BY Zenon, <3>1 DEF FetchInv, AnswerInv
  <2> QED
    BY Zenon, <2>1, <2>2
<1> QED
  BY Zenon, <1>2, <1>6, <1>7, <1>8, <1>9, <1>10, <1>11 DEF FetchInv

\* The answer makes the offsets of the commit the only right ones; they are cached.
LEMMA AnswerFetch == ASSUME IInv, FetchInv, answer PROVE FetchInv'
<1>1. /\ UNCHANGED <<topics, lastLog, records, base, group, offsetsCache, partitionsMap, load, durable, steady>>
      /\ commit.st = "answer" /\ commit # noCommit /\ commit' = noCommit
      /\ \A log \in Logs : allowed'[log] = IF log \in DOMAIN checkPoints THEN {checkPoints[log]} ELSE allowed[log]
  <2>1. /\ UNCHANGED <<topics, lastLog, records, base, group, offsetsCache, partitionsMap, load, durable, steady>>
        /\ commit.st = "answer" /\ commit' = noCommit
    BY Zenon DEF answer, world, manager
  <2>2. commit # noCommit
    BY <2>1 DEF noCommit
  <2>3. allowed' = [log \in Logs |-> IF log \in DOMAIN checkPoints THEN {checkPoints[log]} ELSE allowed[log]]
    BY Zenon DEF answer
  <2> QED
    BY Zenon, <2>1, <2>2, <2>3
<1>2. getAllCheckpoints' = getAllCheckpoints /\ TopicShape' /\ \A tp, log : Current(tp, log)' <=> Current(tp, log)
  BY Zenon, <1>1, SameTopics DEF getAllCheckpoints, FetchInv
<1>3. /\ DOMAIN commit.logs = DOMAIN commit.offsets
      /\ \A i \in DOMAIN commit.logs : commit.logs[i] \in 1..lastLog
      /\ \A i \in DOMAIN commit.offsets : fetchOffsets(<<commit.topic, i>>) = commit.offsets[i]
  BY Zenon, <1>1 DEF FetchInv, CommitShape
<1>4. /\ DOMAIN checkPoints = Range(commit.logs)
      /\ \A log \in DOMAIN checkPoints :
           \E i \in DOMAIN commit.logs : commit.logs[i] = log /\ checkPoints[log] = commit.offsets[i]
  BY Zenon, <1>1, CheckPointsAre
<1>5. \A log \in Logs : log > lastLog => NoOffset \in allowed'[log]
  <2>1. \A log \in DOMAIN checkPoints : log \in 1..lastLog
    BY Zenon, <1>3, <1>4
  <2>2. lastLog \in Nat
    BY DEF FetchInv, TopicShape
  <2>3. \A log \in Logs : log > lastLog => log \notin DOMAIN checkPoints
    BY <2>1, <2>2 DEF Logs
  <2> QED
    BY Zenon, <1>1, <2>3 DEF FetchInv, StoreShape
<1>6. AnswerInv'
  <2> SUFFICES ASSUME group = "loaded", NEW tp \in TopicPartitions, NEW log \in Logs,
                      tp[1] \in steady, Current(tp, log)
               PROVE  fetchOffsets(tp) \in allowed'[log]
    BY Zenon, <1>1, <1>2 DEF AnswerInv, fetchOffsets
  <2>1. CASE log \in DOMAIN checkPoints
    <3>1. PICK i \in DOMAIN commit.logs : commit.logs[i] = log /\ checkPoints[log] = commit.offsets[i]
      BY Zenon, <1>4, <2>1
    <3>2. PICK home \in [Logs -> TopicPartitions \cup {Absent}] : Placed(home)
      BY Zenon DEF FetchInv, HomeInv
    <3>3. tp = <<commit.topic, i>>
      BY Zenon, <1>1, <3>1, <3>2 DEF Placed
    <3>4. allowed'[log] = {commit.offsets[i]}
      BY Zenon, <1>1, <2>1, <3>1
    <3>5. fetchOffsets(tp) = commit.offsets[i]
      BY Zenon, <1>3, <3>1, <3>3
    <3> QED
      BY Zenon, <3>4, <3>5
  <2>2. CASE log \notin DOMAIN checkPoints
    BY Zenon, <1>1, <2>2 DEF FetchInv, AnswerInv
  <2> QED
    BY Zenon, <2>1, <2>2
<1> QED
  BY Zenon, <1>1, <1>2, <1>5, <1>6, CommitFetch

\* A step of the load: the partitions it gets to know are those the topics have.
LEMMA LoadFetch ==
  ASSUME FetchInv,
         UNCHANGED <<topics, lastLog, group, offsetsCache, partitionsMap, commit, allowed, durable>>,
         getAllCheckpoints' = getAllCheckpoints,
         steady' = steady \/ (group = "none" /\ steady' = Topics),
         LoadShape',
         load' # noLoad =>
           \A tp \in DOMAIN load'.tps : \/ Current(tp, load'.tps[tp])
                                        \/ /\ load # noLoad /\ tp \in DOMAIN load.tps
                                           /\ load'.tps[tp] = load.tps[tp],
         load' # noLoad => \/ load'.offsets = getAllCheckpoints
                           \/ load # noLoad /\ load'.offsets = load.offsets
  PROVE  FetchInv'
<1>1. TopicShape' /\ \A tp, log : Current(tp, log)' <=> Current(tp, log)
  BY Zenon, SameTopics DEF FetchInv
<1>2. StoreShape' /\ ManagerShape' /\ VisibleIsDurable'
  BY Zenon DEF FetchInv, StoreShape, ManagerShape, VisibleIsDurable
<1>3. CommitShape'
  BY Zenon DEF FetchInv, CommitShape, fetchOffsets
<1>4. SteadyInv'
  <2>1. CASE steady' = steady
    BY Zenon, <1>1, <2>1 DEF FetchInv, SteadyInv
  <2>2. CASE group = "none" /\ steady' = Topics
    BY Zenon, <2>2 DEF FetchInv, SteadyInv, ManagerShape
  <2> QED
    BY Zenon, <2>1, <2>2
<1>5. HomeInv'
  <2>1. PICK home \in [Logs -> TopicPartitions \cup {Absent}] : Placed(home)
    BY Zenon DEF FetchInv, HomeInv
  <2>2. ASSUME load' # noLoad, NEW tp \in DOMAIN load'.tps PROVE home[load'.tps[tp]] = tp
    <3>1. CASE Current(tp, load'.tps[tp])
      <4>1. tp \in TopicPartitions
        BY Zenon, <2>2 DEF LoadShape
      <4>2. load'.tps[tp] \in Logs
        BY Zenon, <3>1, <4>1, CurrentLog DEF FetchInv
      <4> QED
        BY Zenon, <2>1, <3>1, <4>1, <4>2 DEF Placed
    <3>2. CASE load # noLoad /\ tp \in DOMAIN load.tps /\ load'.tps[tp] = load.tps[tp]
      BY Zenon, <2>1, <3>2 DEF Placed
    <3> QED
      BY Zenon, <2>2, <3>1, <3>2
  <2>3. ASSUME load' # noLoad, NEW log \in DOMAIN load'.offsets
        PROVE  home[log] \in TopicPartitions /\ load'.offsets[log] \in durable[home[log]]
    BY Zenon, <2>1, <2>3 DEF Placed
  <2>4. Placed(home)'
    BY Zenon, <1>1, <2>1, <2>2, <2>3 DEF Placed
  <2> QED
    BY Zenon, <2>4 DEF HomeInv
<1>6. AnswerInv'
  BY Zenon, <1>1 DEF FetchInv, AnswerInv, fetchOffsets
<1> QED
  BY Zenon, <1>1, <1>2, <1>3, <1>4, <1>5, <1>6 DEF FetchInv

\* A load begins with what the store holds.
LEMMA DetectFetch == ASSUME FetchInv, detectTasks PROVE FetchInv'
<1>1. /\ UNCHANGED <<topics, lastLog, group, offsetsCache, partitionsMap, commit, allowed, durable, records, base>>
      /\ group = "none" /\ steady' = Topics
      /\ load' = [st |-> "check", offsets |-> getAllCheckpoints,
                  logIds |-> DOMAIN getAllCheckpoints, tps |-> <<>>]
  BY Zenon DEF detectTasks, world, store, manager
<1>2. getAllCheckpoints' = getAllCheckpoints
  BY Zenon, <1>1 DEF getAllCheckpoints
<1>3. /\ load'.st = "check" /\ load'.offsets = getAllCheckpoints /\ load'.logIds = DOMAIN getAllCheckpoints
      /\ DOMAIN load'.tps = {} /\ DOMAIN load' = {"st", "offsets", "logIds", "tps"}
      /\ load' = [x \in DOMAIN load' |-> load'[x]]
  <2>1. load'.st = "check" /\ load'.offsets = getAllCheckpoints /\ load'.logIds = DOMAIN getAllCheckpoints
    BY Zenon, <1>1
  <2>2. load'.tps = <<>>
    BY Zenon, <1>1
  <2>3. DOMAIN load' = {"st", "offsets", "logIds", "tps"}
    BY Zenon, <1>1
  <2>4. load' = [x \in DOMAIN load' |-> load'[x]]
    BY Zenon, <1>1
  <2> QED
    BY <2>1, <2>2, <2>3, <2>4
<1>4. LoadShape'
  BY Zenon, <1>1, <1>2, <1>3 DEF FetchInv, LoadShape, StoreShape
<1> QED
  BY Zenon, <1>1, <1>2, <1>3, <1>4, LoadFetch

\* A log that is skipped belongs to no topic.
LEMMA LookupFetch == ASSUME FetchInv, logIdHasGroup PROVE FetchInv'
<1>1. /\ UNCHANGED <<topics, lastLog, group, offsetsCache, partitionsMap, commit, allowed, durable, records, base, steady>>
      /\ load.st = "check" /\ load # noLoad
  BY DEF logIdHasGroup, world, store, manager, histories, noLoad
<1>2. getAllCheckpoints' = getAllCheckpoints /\ \A tp, log : Current(tp, log)' <=> Current(tp, log)
  BY Zenon, <1>1, SameTopics DEF getAllCheckpoints, FetchInv
<1>3. PICK log \in load.logIds :
        load' = IF topicsWith(log) # {} THEN union([st |-> "list", log |-> log], load)
                                        ELSE [load EXCEPT !.logIds = @ \ {log}]
  BY Zenon DEF logIdHasGroup
<1>4. /\ {"st", "offsets", "logIds", "tps"} \subseteq DOMAIN load
      /\ load = [x \in DOMAIN load |-> load[x]]
  BY Zenon, <1>1 DEF FetchInv, LoadShape
<1>5. /\ load'.offsets = load.offsets /\ load'.tps = load.tps /\ load'.st \in {"check", "list"}
      /\ {"st", "offsets", "logIds", "tps"} \subseteq DOMAIN load'
      /\ load' = [x \in DOMAIN load' |-> load'[x]]
      /\ \A l \in load.logIds : l \in load'.logIds \/ topicsWith(l) = {}
  <2>1. CASE topicsWith(log) # {}
    <3> DEFINE r == [st |-> "list", log |-> log]
    <3>1. DOMAIN r = {"st", "log"} /\ r["st"] = "list" /\ r["log"] = log
      BY Zenon
    <3>2. load' = [x \in DOMAIN r \cup DOMAIN load |-> IF x \in DOMAIN r THEN r[x] ELSE load[x]]
      BY Zenon, <1>3, <2>1 DEF union
    <3> HIDE DEF r
    <3> QED
      BY Zenon, <1>4, <3>1, <3>2
  <2>2. CASE topicsWith(log) = {}
    <3>1. load' = [load EXCEPT !.logIds = @ \ {log}]
      BY Zenon, <1>3, <2>2
    <3>2. DOMAIN load' = DOMAIN load /\ load'["logIds"] = load["logIds"] \ {log}
          /\ \A x \in DOMAIN load : x # "logIds" => load'[x] = load[x]
      BY Zenon, <1>4, <3>1
    <3>3. load' = [x \in DOMAIN load' |-> load'[x]]
      BY Zenon, <3>1
    <3> QED
      BY Zenon, <1>1, <1>4, <2>2, <3>2, <3>3
  <2> QED
    BY Zenon, <2>1, <2>2
<1>6. LoadShape'
  <2> SUFFICES ASSUME NEW tp \in TopicPartitions, NEW l \in DOMAIN load.offsets,
                      tp[1] \in steady, Current(tp, l)
               PROVE  l \in load'.logIds \/ tp \in DOMAIN load.tps
    BY Zenon, <1>1, <1>2, <1>5 DEF FetchInv, LoadShape
  <2>1. l \in load.logIds \/ tp \in DOMAIN load.tps
    BY Zenon, <1>1 DEF FetchInv, LoadShape
  <2>2. tp[1] \in Topics
    BY Zenon DEF TopicPartitions
  <2>3. tp[1] \in topicsWith(l)
    BY Zenon, <2>2, TopicsWith DEF FetchInv
  <2> QED
    BY Zenon, <1>5, <2>1, <2>3
<1> QED
  BY Zenon, <1>1, <1>2, <1>5, <1>6, LoadFetch

\* A log is in one topic at most.
LEMMA OneTopic ==
  ASSUME FetchInv, NEW t \in Topics, NEW u \in Topics, NEW log, t \in topicsWith(log), u \in topicsWith(log)
  PROVE  t = u
<1>1. PICK home \in [Logs -> TopicPartitions \cup {Absent}] : Placed(home)
  BY Zenon DEF FetchInv, HomeInv
<1>2. PICK tp \in TopicPartitions : tp[1] = t /\ Current(tp, log)
  BY Zenon, TopicsWith DEF FetchInv
<1>3. PICK up \in TopicPartitions : up[1] = u /\ Current(up, log)
  BY Zenon, TopicsWith DEF FetchInv
<1>4. log \in Logs
  BY Zenon, <1>2, CurrentLog DEF FetchInv
<1>5. home[log] = tp
  BY Zenon, <1>1, <1>2, <1>4 DEF Placed
<1>6. home[log] = up
  BY Zenon, <1>1, <1>3, <1>4 DEF Placed
<1> QED
  BY Zenon, <1>2, <1>3, <1>5, <1>6

\* The listing of a topic has every partition of it.
LEMMA ListFetch == ASSUME FetchInv, getTopicPartitions PROVE FetchInv'
<1>1. /\ UNCHANGED <<topics, lastLog, group, offsetsCache, partitionsMap, commit, allowed, durable, records, base, steady>>
      /\ load.st = "list" /\ load # noLoad
  BY DEF getTopicPartitions, world, store, manager, histories, noLoad
<1>2. getAllCheckpoints' = getAllCheckpoints /\ \A tp, log : Current(tp, log)' <=> Current(tp, log)
  BY Zenon, <1>1, SameTopics DEF getAllCheckpoints, FetchInv
<1>3. CASE load' = noLoad
  <2>1. LoadShape'
    BY Zenon, <1>3 DEF LoadShape
  <2> QED
    BY Zenon, <1>1, <1>2, <1>3, <2>1, LoadFetch
<1>4. ASSUME NEW t \in topicsWith(load.log), load' = listed(t) PROVE FetchInv'
  <2>1. /\ {"st", "offsets", "logIds", "tps"} \subseteq DOMAIN load
        /\ load = [x \in DOMAIN load |-> load[x]]
    BY Zenon, <1>1 DEF FetchInv, LoadShape
  <2>2. t \in Topics /\ topics[t] # Absent
    BY Zenon DEF topicsWith
  <2>3. load' = [load EXCEPT !.st = "check", !.logIds = @ \ Range(topics[t]), !.tps = union(partitionsOf(t), @)]
    BY Zenon, <1>4 DEF listed
  <2> DEFINE logIds == load.logIds \ Range(topics[t])
             tps == union(partitionsOf(t), load.tps)
  <2>4. /\ load'.offsets = load.offsets /\ load'.tps = tps /\ load'.st = "check" /\ load'.logIds = logIds
        /\ DOMAIN load' = DOMAIN load /\ load' = [x \in DOMAIN load' |-> load'[x]]
    <3>1. load' = [load EXCEPT !.st = "check", !.logIds = logIds, !.tps = tps]
      BY Zenon, <2>3
    <3> HIDE DEF logIds, tps
    <3> QED
      BY Zenon, <2>1, <3>1
  <2>5. /\ DOMAIN partitionsOf(t) \subseteq TopicPartitions
        /\ \A tp \in DOMAIN partitionsOf(t) : tp[1] = t /\ Current(tp, partitionsOf(t)[tp])
        /\ \A tp \in TopicPartitions : \A log :
             tp[1] = t /\ Current(tp, log) => tp \in DOMAIN partitionsOf(t) /\ partitionsOf(t)[tp] = log
    BY Zenon, <2>2, PartitionsOf DEF FetchInv
  <2>6. /\ DOMAIN tps = DOMAIN partitionsOf(t) \cup DOMAIN load.tps
        /\ \A tp \in DOMAIN tps : tps[tp] = IF tp \in DOMAIN partitionsOf(t) THEN partitionsOf(t)[tp] ELSE load.tps[tp]
    BY Zenon DEF union
  <2>7. load' # noLoad /\ {"st", "offsets", "logIds", "tps"} \subseteq DOMAIN load'
    BY Zenon, <2>1, <2>4 DEF noLoad
  <2> HIDE DEF logIds, tps
  <2>8. \A tp \in DOMAIN tps : tps[tp] \in 1..lastLog
    <3>1. \A tp \in DOMAIN partitionsOf(t) : partitionsOf(t)[tp] \in 1..lastLog
      BY Zenon, <2>5, CurrentLog DEF FetchInv
    <3> QED
      BY Zenon, <1>1, <2>6, <3>1 DEF FetchInv, LoadShape
  <2>9. \A tp \in DOMAIN tps : tp[1] \in steady => Current(tp, tps[tp])
    BY Zenon, <1>1, <2>5, <2>6 DEF FetchInv, LoadShape
  <2>10. ASSUME NEW tp \in TopicPartitions, NEW log \in DOMAIN load.offsets, tp[1] \in steady, Current(tp, log)
         PROVE  log \in logIds \/ tp \in DOMAIN tps
    <3>1. log \in load.logIds \/ tp \in DOMAIN load.tps
      BY Zenon, <1>1, <2>10 DEF FetchInv, LoadShape
    <3>2. CASE log \in Range(topics[t])
      <4>1. t \in topicsWith(log)
        BY Zenon, <2>2, <3>2 DEF topicsWith
      <4>2. tp[1] \in Topics
        BY Zenon DEF TopicPartitions
      <4>3. tp[1] \in topicsWith(log)
        BY Zenon, <2>10, <4>2, TopicsWith DEF FetchInv
      <4>4. tp[1] = t
        BY Zenon, <2>2, <4>1, <4>2, <4>3, OneTopic
      <4> QED
        BY Zenon, <2>5, <2>6, <2>10, <4>4
    <3>3. CASE log \notin Range(topics[t])
      BY Zenon, <2>6, <3>1, <3>3 DEF logIds
    <3> QED
      BY Zenon, <3>2, <3>3
  <2>11. LoadShape'
    <3>1. DOMAIN tps \subseteq TopicPartitions
      BY Zenon, <1>1, <2>5, <2>6 DEF FetchInv, LoadShape
    <3> QED
      BY Zenon, <1>1, <1>2, <2>4, <2>7, <2>8, <2>9, <2>10, <3>1 DEF FetchInv, LoadShape
  <2>12. \A tp \in DOMAIN load'.tps : \/ Current(tp, load'.tps[tp])
                                      \/ tp \in DOMAIN load.tps /\ load'.tps[tp] = load.tps[tp]
    BY Zenon, <2>4, <2>5, <2>6
  <2> QED
    BY Zenon, <1>1, <1>2, <2>4, <2>11, <2>12, LoadFetch
<1>5. CASE topicsWith(load.log) # {}
  <2> DEFINE t == CHOOSE u \in topicsWith(load.log) : TRUE
  <2>1. t \in topicsWith(load.log)
    BY Zenon, <1>5
  <2>2. load' = listed(t)
    BY Zenon, <1>5 DEF getTopicPartitions
  <2> HIDE DEF t
  <2> QED
    BY Zenon, <1>4, <2>1, <2>2
<1> QED
  BY Zenon, <1>3, <1>5 DEF getTopicPartitions

\* The group that enters the table has what the store holds, by topic partition.
LEMMA AddFetch == ASSUME IInv, FetchInv, addGroupByValue PROVE FetchInv'
<1>1. /\ UNCHANGED <<topics, lastLog, commit, allowed, durable, records, base, steady>>
      /\ load.st = "check" /\ load.logIds = {} /\ load # noLoad /\ load' = noLoad
  <2>1. load.st = "check" /\ load.logIds = {} /\ load' = noLoad /\ UNCHANGED <<world, store, commit, histories>>
    BY Zenon DEF addGroupByValue
  <2>2. load # noLoad
    BY <2>1 DEF noLoad
  <2> QED
    BY Zenon, <2>1, <2>2 DEF world, store, histories
<1>2. getAllCheckpoints' = getAllCheckpoints /\ TopicShape' /\ \A tp, log : Current(tp, log)' <=> Current(tp, log)
  BY Zenon, <1>1, SameTopics DEF getAllCheckpoints, FetchInv
<1>3. LoadShape'
  BY Zenon, <1>1 DEF LoadShape
<1>4. CASE group # "none"
  <2>1. UNCHANGED <<group, offsetsCache, partitionsMap>>
    BY Zenon, <1>4 DEF addGroupByValue, manager
  <2> QED
    BY Zenon, <1>1, <1>2, <1>3, <2>1, LoadFetch
<1>5. CASE group = "none"
  <2>1. /\ commit = noCommit /\ load.offsets = getAllCheckpoints
        /\ DOMAIN load.tps \subseteq TopicPartitions
        /\ \A tp \in DOMAIN load.tps : load.tps[tp] \in 1..lastLog
        /\ \A tp \in DOMAIN load.tps : tp[1] \in steady => Current(tp, load.tps[tp])
        /\ \A tp \in TopicPartitions, log \in DOMAIN load.offsets :
             tp[1] \in steady /\ Current(tp, log) => tp \in DOMAIN load.tps
    BY Zenon, <1>1, <1>5 DEF FetchInv, LoadShape, ManagerShape
  <2>2. /\ group' = "loaded" /\ partitionsMap' = load.tps
        /\ offsetsCache' = [tp \in {p \in DOMAIN load.tps : load.tps[p] \in DOMAIN load.offsets}
                              |-> load.offsets[load.tps[tp]]]
    BY Zenon, <1>5 DEF addGroupByValue
  <2>3. /\ \A tp \in DOMAIN offsetsCache' : /\ tp \in DOMAIN load.tps /\ load.tps[tp] \in DOMAIN load.offsets
                                            /\ offsetsCache'[tp] = load.offsets[load.tps[tp]]
        /\ \A tp \in DOMAIN load.tps : load.tps[tp] \in DOMAIN load.offsets => tp \in DOMAIN offsetsCache'
    BY Zenon, <2>2
  <2>4. PICK home \in [Logs -> TopicPartitions \cup {Absent}] : Placed(home)
    BY Zenon DEF FetchInv, HomeInv
  <2>5. StoreShape' /\ ManagerShape' /\ CommitShape'
    BY Zenon, <1>1, <1>2, <2>1, <2>2, <2>3 DEF FetchInv, StoreShape, ManagerShape, CommitShape
  <2>6. VisibleIsDurable'
    <3>1. \A tp \in DOMAIN offsetsCache' : offsetsCache'[tp] \in durable[tp]
      BY Zenon, <1>1, <2>3, <2>4 DEF Placed
    <3> QED
      BY Zenon, <1>1, <3>1 DEF VisibleIsDurable
  <2>7. SteadyInv'
    BY Zenon, <1>1, <1>2, <2>1, <2>2 DEF FetchInv, SteadyInv
  <2>8. HomeInv'
    <3>1. Placed(home)'
      BY Zenon, <1>1, <1>2, <2>1, <2>2, <2>4 DEF Placed
    <3> QED
      BY Zenon, <3>1 DEF HomeInv
  <2>9. AnswerInv'
    <3> SUFFICES ASSUME NEW tp \in TopicPartitions, NEW log \in Logs, tp[1] \in steady, Current(tp, log)
                 PROVE  fetchOffsets(tp)' \in allowed[log]
      BY Zenon, <1>1, <1>2 DEF AnswerInv
    <3>1. heldFor(log) \in allowed[log]
      BY Zenon DEF IInv, StoredOffsetsSurvive
    <3>2. CASE log \in DOMAIN getAllCheckpoints
      <4>1. tp \in DOMAIN load.tps /\ load.tps[tp] = log
        BY Zenon, <2>1, <3>2 DEF Current
      <4>2. fetchOffsets(tp)' = getAllCheckpoints[log]
        BY Zenon, <2>1, <2>3, <3>2, <4>1 DEF fetchOffsets
      <4> QED
        BY Zenon, <3>1, <3>2, <4>2 DEF heldFor
    <3>3. CASE log \notin DOMAIN getAllCheckpoints
      <4>1. tp \notin DOMAIN offsetsCache'
        BY Zenon, <2>1, <2>3, <3>3 DEF Current
      <4>2. fetchOffsets(tp)' = NoOffset
        BY Zenon, <4>1 DEF fetchOffsets
      <4> QED
        BY Zenon, <3>1, <3>3, <4>2 DEF heldFor
    <3> QED
      BY Zenon, <3>2, <3>3
  <2> QED
    BY Zenon, <1>2, <1>3, <2>5, <2>6, <2>7, <2>8, <2>9 DEF FetchInv
<1> QED
  BY Zenon, <1>4, <1>5

\* After a restart nothing is cached.
LEMMA CrashFetch == ASSUME FetchInv, crash PROVE FetchInv'
<1>1. /\ UNCHANGED <<topics, lastLog, allowed, durable, records, base, steady>>
      /\ load' = noLoad /\ commit' = noCommit
      /\ group' = "none" /\ offsetsCache' = <<>> /\ partitionsMap' = <<>>
  BY Zenon DEF crash, world, store, histories
<1>2. getAllCheckpoints' = getAllCheckpoints /\ TopicShape' /\ \A tp, log : Current(tp, log)' <=> Current(tp, log)
  BY Zenon, <1>1, SameTopics DEF getAllCheckpoints, FetchInv
<1>3. DOMAIN offsetsCache' = {} /\ DOMAIN partitionsMap' = {}
  BY <1>1
<1>4. StoreShape' /\ ManagerShape' /\ VisibleIsDurable' /\ CommitShape' /\ LoadShape' /\ AnswerInv' /\ SteadyInv'
  BY Zenon, <1>1, <1>2, <1>3 DEF FetchInv, StoreShape, ManagerShape, VisibleIsDurable, CommitShape, LoadShape,
                          AnswerInv, SteadyInv
<1>5. HomeInv'
  <2>1. PICK home \in [Logs -> TopicPartitions \cup {Absent}] : Placed(home)
    BY Zenon DEF FetchInv, HomeInv
  <2>2. Placed(home)'
    BY Zenon, <1>1, <1>2, <1>3, <2>1 DEF Placed
  <2> QED
    BY Zenon, <2>2 DEF HomeInv
<1> QED
  BY Zenon, <1>2, <1>4, <1>5 DEF FetchInv

\* Every step of a commit keeps the invariant.
LEMMA CommitStepFetch == ASSUME IInv, FetchInv, commitStep PROVE FetchInv'
<1>1. CASE getOrMaybeCreateGroup
  BY Zenon, <1>1, CreateGroupFetch
<1>2. ASSUME NEW t \in Topics, NEW offsets \in requests, commitOffsets(t, offsets) PROVE FetchInv'
  <2>1. /\ UNCHANGED <<topics, lastLog, group, offsetsCache, partitionsMap, load, steady, durable, allowed, records, base>>
        /\ group # "none"
        /\ commit' = [st |-> "resolve", topic |-> t, offsets |-> offsets, logs |-> <<>>]
    BY Zenon, <1>2 DEF commitOffsets, world, store, manager, histories
  <2>2. DOMAIN offsets \subseteq Indexes
    BY Zenon, <1>2 DEF requests
  <2>3. /\ commit'.st = "resolve" /\ commit'.topic \in Topics
        /\ DOMAIN commit'.offsets \subseteq Indexes /\ DOMAIN commit'.logs = {}
    BY <2>1, <2>2
  <2>4. getAllCheckpoints' = getAllCheckpoints
    BY Zenon, <2>1 DEF getAllCheckpoints
  <2>5. AnswerInv'
    BY Zenon, <2>1, SameTopics DEF FetchInv, AnswerInv, fetchOffsets
  <2>6. \A log \in Logs : log > lastLog => NoOffset \in allowed'[log]
    BY Zenon, <2>1 DEF FetchInv, StoreShape
  <2> QED
    BY Zenon, <2>1, <2>3, <2>4, <2>5, <2>6, CommitFetch
<1>3. CASE getOffsetsInfo
  BY Zenon, <1>3, ResolveFetch DEF IInv
<1>4. CASE storeOffsets
  <2>1. /\ UNCHANGED <<topics, lastLog, base, group, offsetsCache, partitionsMap, load>>
        /\ resolved /\ updateMultiLSN /\ commit' = [commit EXCEPT !.st = "cache"]
    BY Zenon, <1>4 DEF storeOffsets, world, manager
  <2>2. /\ commit' # noCommit /\ commit'.st = "cache" /\ commit'.topic = commit.topic
        /\ commit'.offsets = commit.offsets /\ commit'.logs = commit.logs
    <3>1. commit # noCommit
      BY <2>1 DEF resolved, noCommit
    <3>2. PICK st, t, offsets, logs :
            commit = [st |-> st, topic |-> t, offsets |-> offsets, logs |-> logs]
      BY Zenon, <3>1 DEF IInv, CommitInv
    <3>3. commit' = [st |-> "cache", topic |-> t, offsets |-> offsets, logs |-> logs]
      BY Zenon, <2>1, <3>2
    <3> QED
      BY Zenon, <3>2, <3>3 DEF noCommit
  <2> QED
    BY Zenon, <2>1, <2>2, WriteFetch
<1>5. CASE storeOffsetsFails
  <2>1. /\ UNCHANGED <<topics, lastLog, base, group, offsetsCache, partitionsMap, load>>
        /\ resolved /\ commit' = noCommit
    BY Zenon, <1>5 DEF storeOffsetsFails, world, manager
  <2>2. CASE updateMultiLSN
    BY Zenon, <2>1, <2>2, WriteFetch
  <2>3. CASE UNCHANGED <<records, allowed, durable, steady>>
    <3>1. getAllCheckpoints' = getAllCheckpoints
      BY Zenon, <2>1, <2>3 DEF getAllCheckpoints
    <3>2. AnswerInv'
      BY Zenon, <2>1, <2>3, SameTopics DEF FetchInv, AnswerInv, fetchOffsets
    <3>3. \A log \in Logs : log > lastLog => NoOffset \in allowed'[log]
      BY Zenon, <2>1, <2>3 DEF FetchInv, StoreShape
    <3> QED
      BY Zenon, <2>1, <2>3, <3>1, <3>2, <3>3, CommitFetch
  <2> QED
    BY Zenon, <1>5, <2>2, <2>3 DEF storeOffsetsFails, histories
<1>6. CASE updateCache
  BY Zenon, <1>6, CacheFetch
<1>7. CASE answer
  BY Zenon, <1>7, AnswerFetch
<1>8. CASE answerFails
  <2>1. /\ UNCHANGED <<topics, lastLog, records, base, group, offsetsCache, partitionsMap, load, allowed, durable, steady>>
        /\ commit' = noCommit
    BY Zenon, <1>8 DEF answerFails, world, store, manager, histories
  <2>2. getAllCheckpoints' = getAllCheckpoints
    BY Zenon, <2>1 DEF getAllCheckpoints
  <2>3. AnswerInv'
    BY Zenon, <2>1, SameTopics DEF FetchInv, AnswerInv, fetchOffsets
  <2>4. \A log \in Logs : log > lastLog => NoOffset \in allowed'[log]
    BY Zenon, <2>1 DEF FetchInv, StoreShape
  <2> QED
    BY Zenon, <2>1, <2>2, <2>3, <2>4, CommitFetch
<1> QED
  BY Zenon, <1>1, <1>2, <1>3, <1>4, <1>5, <1>6, <1>7, <1>8 DEF commitStep

\* Every step keeps the invariant.
LEMMA StepFetch == ASSUME IInv, FetchInv, [Next]_vars PROVE FetchInv'
<1>1. ASSUME UNCHANGED <<topics, lastLog, group, offsetsCache, partitionsMap, commit, load, allowed, durable, steady>>,
             getAllCheckpoints' = getAllCheckpoints
      PROVE  FetchInv'
  <2>1. TopicShape' /\ \A tp, log : Current(tp, log)' <=> Current(tp, log)
    BY Zenon, <1>1, SameTopics DEF FetchInv
  <2> QED
    BY Zenon, <1>1, <2>1, SameFetch
<1>2. ASSUME UNCHANGED <<topics, lastLog, group, offsetsCache, partitionsMap, commit, load, allowed, durable, steady>>,
             UNCHANGED <<records, base>>
      PROVE  FetchInv'
  <2>1. getAllCheckpoints' = getAllCheckpoints
    BY Zenon, <1>2 DEF getAllCheckpoints
  <2> QED
    BY Zenon, <1>1, <1>2, <2>1
<1>3. CASE topicStep
  BY Zenon, <1>3, CreateTopicFetch, CreatePartitionsFetch, DeleteTopicFetch DEF topicStep
<1>4. CASE commitStep
  BY Zenon, <1>4, CommitStepFetch
<1>5. CASE getTailLSN
  BY Zenon, <1>2, <1>5 DEF getTailLSN, world, store, manager, histories
<1>6. CASE trim
  <2>1. UNCHANGED <<topics, lastLog, group, offsetsCache, partitionsMap, commit, load, allowed, durable, steady, records>>
    BY Zenon, <1>6 DEF trim, world, manager, histories
  <2>2. /\ base' = IF base < trimmer.tail - 1 THEN trimmer.tail - 1 ELSE base
        /\ trimmer.tail \in Nat /\ trimmer.tail <= Len(records) /\ base \in Nat /\ Len(records) \in Nat
        /\ base < Len(records) \/ (base = 0 /\ Len(records) = 0)
    BY <1>6 DEF trim, IInv, LogInv
  <2>3. Len(records) > base' <=> Len(records) > base
    BY <2>2
  <2>4. getAllCheckpoints' = getAllCheckpoints
    BY Zenon, <2>1, <2>3 DEF getAllCheckpoints
  <2> QED
    BY Zenon, <1>1, <2>1, <2>4
<1>7. CASE loading
  BY Zenon, <1>7, DetectFetch, LookupFetch, ListFetch, AddFetch DEF loading
<1>8. CASE listAllTasksFails
  BY Zenon, <1>2, <1>8 DEF listAllTasksFails, world, store, manager, histories
<1>9. CASE crash
  BY Zenon, <1>9, CrashFetch
<1>10. CASE UNCHANGED vars
  BY Zenon, <1>2, <1>10 DEF vars, world, store, manager, histories
<1> QED
  BY Zenon, <1>3, <1>4, <1>5, <1>6, <1>7, <1>8, <1>9, <1>10 DEF Next

\* The caches of the manager and the loads of the detector, with the store, form an
\* invariant: what they say of a partition was written for it.
THEOREM FetchInvariance == Spec => []FetchInv
<1>1. Init => FetchInv
  BY Zenon, InitFetch
<1>2. IInv /\ FetchInv /\ [Next]_vars => FetchInv'
  BY Zenon, StepFetch
<1> QED
  BY <1>1, <1>2, Invariance, PTL DEF Spec

\* A group that the detector has loaded after a restart answers a fetch with the last
\* acknowledged offset of every partition, or with one that a later commit has written,
\* whatever topics come and go, calls fail or commits run during the load: for every
\* number of topics, partitions, commits, restarts and faults.
THEOREM LoadedGroupAnswers == Spec => []LoadedAnswersCommitted
BY FetchInvariance, AnswersAre, PTL

\* A fetch, which takes no lock, shows no offset of a partition that the checkpoint store
\* has not taken for that partition before.
THEOREM VisibleOffsetsAreDurable == Spec => []VisibleIsDurable
<1>1. FetchInv => VisibleIsDurable
  BY Zenon DEF FetchInv
<1> QED
  BY <1>1, FetchInvariance, PTL
=============================================================================
