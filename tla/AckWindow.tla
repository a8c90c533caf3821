----------------------------- MODULE AckWindow -----------------------------
(***************************************************************************)
(* Delivery and acknowledgement of one shard of a subscription             *)
(* (hstream/src/HStream/Server/Core/Subscription.hs).  Three kinds of      *)
(* threads share the window: the loop of sendRecords reads and delivers,   *)
(* the resend job delivers again what was not acknowledged in time, and a  *)
(* recvAcks thread per consumer handles acknowledgements.  Each STM        *)
(* transaction and each send, read or checkpoint write is one action.      *)
(* Clients acknowledge what they hold whenever they like, as often as they *)
(* like.  The checkpoint survives a crash of the server; clients do too.   *)
(***************************************************************************)
EXTENDS AckRanges, Sequences, Functions

CONSTANTS
  Logs,          \* the log, by LSN: the size of the batch, 0 for one in a gap
  Handlers,      \* recvAcks threads
  MaxRead,       \* bound: batches per read
  MaxAcks,       \* bound: record ids per acknowledgement
  MaxUnacked,    \* subMaxUnackedRecords
  FailedArrives, \* whether a send that fails may have reached the client
  MaxForgotten,  \* bound: records whose resend job read nothing
  MaxCrashes     \* bound: crashes of the server

LSNs == 1..MaxLSN
RecordId == LSNs \X Indexes

ASSUME LogsAssumption == Logs \subseteq [LSNs -> 0..W - 2]
ASSUME BoundsAssumption == MaxRead \in Nat /\ MaxAcks \in Nat

VARIABLES
  log,          \* size of the batch at each LSN
  \* the AckWindow and the SubscribeContext
  awWindowLowerBound, awAckedRanges, awBatchNumMap,
  subUnackedRecords,
  checkList,    \* subWaitingCheckedRecordIds
  \* the loop of sendRecords
  next,         \* where the checkpointed reader is
  batches,      \* batches read and not yet delivered
  step,         \* of the loop
  successRecords,
  \* the resend job
  timeoutList,  \* entries it took from the check list
  resending,    \* what it is about to read and deliver again, if anything
  \* the recvAcks threads
  acks,
  \* the store
  checkpoint,
  \* clients and history
  received,     \* record ids clients hold
  delivered,    \* ids delivered in this life of the server
  acked,        \* ids acknowledged so far
  forgotten,    \* ids the resend job dropped, in this life of the server
  crashes

windowVars == <<awWindowLowerBound, awAckedRanges, awBatchNumMap>>
loopVars   == <<next, batches, step, successRecords>>
clientVars == <<received, delivered, acked>>
boundVars  == <<log, forgotten, crashes>>
resendVars == <<timeoutList, resending>>
vars == <<windowVars, subUnackedRecords, checkList, loopVars, resendVars, acks,
          checkpoint, clientVars, boundVars>>

idle == [step |-> "idle", ids |-> <<>>, keys |-> {}, lsn |-> 0]
CheckedRecordIds == [batch : LSNs, indexes : SUBSET Indexes]

ASSUME NothingIsNoEntry == Nothing \notin CheckedRecordIds

idsOf(b) == {<<b, i>> : i \in 0..log[b] - 1}
idsIn(c) == {<<c.batch, i>> : i \in c.indexes}

TypeOK ==
  /\ log \in Logs
  /\ awWindowLowerBound \in (1..MaxLSN + 1) \X Indexes
  /\ DOMAIN awAckedRanges \subseteq RecordId
  /\ \A r \in DOMAIN awAckedRanges : awAckedRanges[r] \in RecordId
  /\ DOMAIN awBatchNumMap \subseteq LSNs
  /\ \A b \in DOMAIN awBatchNumMap : awBatchNumMap[b] \in Indexes
  /\ subUnackedRecords \in Indexes
  /\ checkList \subseteq CheckedRecordIds
  /\ next \in 1..MaxLSN + 1
  /\ batches \in Seq(LSNs)
  /\ step \in {"read", "insert", "deliver", "register"}
  /\ successRecords \in Indexes
  /\ timeoutList \subseteq CheckedRecordIds
  /\ resending = Nothing \/ resending \in CheckedRecordIds
  /\ \A h \in Handlers : /\ acks[h].step \in {"idle", "mark", "sweep", "doAck", "write"}
                         /\ acks[h].ids \in Seq(RecordId)
                         /\ acks[h].keys \subseteq LSNs
                         /\ acks[h].lsn \in 0..MaxLSN
  /\ checkpoint \in 0..MaxLSN
  /\ received \subseteq RecordId
  /\ delivered \subseteq RecordId
  /\ acked \subseteq RecordId
  /\ forgotten \subseteq RecordId

\* doSubInit: the window starts at the subscription's start offset, here the
\* first LSN; the reader after the checkpoint, if there is one.
Init ==
  /\ log \in Logs
  /\ awWindowLowerBound = <<1, 0>>
  /\ awAckedRanges = <<>>
  /\ awBatchNumMap = <<>>
  /\ subUnackedRecords = 0
  /\ checkList = {}
  /\ next = 1
  /\ batches = <<>>
  /\ step = "read"
  /\ successRecords = 0
  /\ timeoutList = {} /\ resending = Nothing
  /\ acks = [h \in Handlers |-> idle]
  /\ checkpoint = 0
  /\ received = {} /\ delivered = {} /\ acked = {}
  /\ forgotten = {} /\ crashes = 0

-----------------------------------------------------------------------------
(* The loop of sendRecords.                                                 *)

checkUnackedRecords == subUnackedRecords < MaxUnacked

\* The reader (external) returns consecutive batches, never across a gap.
readRecordBatches(n) ==
  /\ step = "read"
  /\ checkUnackedRecords
  /\ next + n - 1 <= MaxLSN
  /\ \A b \in next..next + n - 1 : log[b] # 0
  /\ batches' = [i \in 1..n |-> next + i - 1]
  /\ next' = next + n
  /\ step' = "insert"
  /\ UNCHANGED <<windowVars, subUnackedRecords, checkList, successRecords, resendVars, acks,
                 checkpoint, clientVars, boundVars>>

\* The reader reports a gap, which counts as acknowledged.
readGap(hi) ==
  /\ step = "read"
  /\ checkUnackedRecords
  /\ hi >= next
  /\ \A b \in next..hi : log[b] = 0
  /\ awAckedRanges' = With(awAckedRanges, <<next, 0>>, <<hi, W - 1>>)
  /\ awBatchNumMap' = [b \in DOMAIN awBatchNumMap \cup {next, hi} |->
                         IF b \in DOMAIN awBatchNumMap THEN awBatchNumMap[b] ELSE 0]
  /\ next' = hi + 1
  /\ UNCHANGED <<awWindowLowerBound, subUnackedRecords, checkList, batches, step,
                 successRecords, resendVars, acks, checkpoint, clientVars, boundVars>>

\* sendReceivedRecords enters the batch and looks the shard's consumer up.
insertBatch ==
  /\ step = "insert"
  /\ awBatchNumMap' = With(awBatchNumMap, Head(batches), log[Head(batches)])
  /\ step' = "deliver"
  /\ UNCHANGED <<awWindowLowerBound, awAckedRanges, subUnackedRecords, checkList, next,
                 batches, successRecords, resendVars, acks, checkpoint, clientVars, boundVars>>

\* addUnackedRecords, and back to the top of the loop, which alone reads the
\* counter: that an acknowledgement may come just before makes no difference.
addUnackedRecords(n) ==
  /\ subUnackedRecords' = (subUnackedRecords + n) % W
  /\ successRecords' = 0
  /\ batches' = <<>>
  /\ step' = "read"

deliver ==
  /\ step = "deliver"
  /\ received' = received \cup idsOf(Head(batches))
  /\ delivered' = delivered \cup idsOf(Head(batches))
  /\ step' = "register"
  /\ UNCHANGED <<windowVars, subUnackedRecords, checkList, next, batches, successRecords,
                 resendVars, acks, checkpoint, acked, boundVars>>

\* Mutant: batches of the same read that were delivered are not counted.
deliverFails_DropsCount ==
  /\ step = "deliver"
  /\ \/ UNCHANGED received
     \/ FailedArrives /\ received' = received \cup idsOf(Head(batches))
  /\ next' = Head(batches)
  /\ addUnackedRecords(0)
  /\ UNCHANGED <<windowVars, checkList, resendVars, acks, checkpoint, delivered, acked, boundVars>>

\* No consumer, or its stream fails (perhaps after the client got the batch):
\* resetReadingOffset, and the shard's other batches are skipped.
deliverFails ==
  /\ step = "deliver"
  /\ \/ UNCHANGED received
     \/ FailedArrives /\ received' = received \cup idsOf(Head(batches))
  /\ next' = Head(batches)
  /\ addUnackedRecords(successRecords)
  /\ UNCHANGED <<windowVars, checkList, resendVars, acks, checkpoint, delivered, acked, boundVars>>

\* registerResend after a delivery.
registerResend ==
  /\ step = "register"
  /\ checkList' = checkList \cup {[batch |-> Head(batches), indexes |-> 0..log[Head(batches)] - 1]}
  /\ LET n == successRecords + log[Head(batches)] IN
     IF Len(batches) = 1
     THEN addUnackedRecords(n)
     ELSE /\ successRecords' = n
          /\ batches' = Tail(batches)
          /\ step' = "insert"
          /\ UNCHANGED subUnackedRecords
  /\ UNCHANGED <<windowVars, next, resendVars, acks, checkpoint, clientVars, boundVars>>

-----------------------------------------------------------------------------
(* The resend job.                                                          *)

filterUnackedRecordIds(c) ==
  {i \in c.indexes :
     LET r == <<c.batch, i>>
         S == {k \in DOMAIN awAckedRanges : AtMost(k, r)} IN
     /\ AtMost(awWindowLowerBound, r)
     /\ S # {} => Below(awAckedRanges[Maximum(S)], r)}

\* updateClockAndDoResend takes the entries whose deadline has passed.
updateClockAndDoResend(S) ==
  /\ timeoutList = {} /\ resending = Nothing
  /\ checkList' = checkList \ S
  /\ timeoutList' = S
  /\ UNCHANGED <<windowVars, subUnackedRecords, loopVars, resending, acks, checkpoint,
                 clientVars, boundVars>>

\* resendTimeoutRecords drops what was acknowledged in the meantime.
resendTimeoutRecords(c) ==
  /\ resending = Nothing
  /\ timeoutList' = timeoutList \ {c}
  /\ LET left == filterUnackedRecordIds(c) IN
     resending' = IF left = {} THEN Nothing ELSE [c EXCEPT !.indexes = left]
  /\ UNCHANGED <<windowVars, subUnackedRecords, checkList, loopVars, acks, checkpoint,
                 clientVars, boundVars>>

\* The batch is read again and nothing comes back, "retry next time": the entry has
\* left the check list and is not put back.
resendReadsNothing ==
  /\ resending # Nothing
  /\ Cardinality(forgotten) < MaxForgotten
  /\ forgotten' = forgotten \cup idsIn(resending)
  /\ resending' = Nothing
  /\ UNCHANGED <<windowVars, subUnackedRecords, checkList, loopVars, timeoutList, acks,
                 checkpoint, clientVars, log, crashes>>

\* Delivered or not, the records are registered again.
resend ==
  /\ resending # Nothing
  /\ received' \in {received, received \cup idsIn(resending)}
  /\ checkList' = checkList \cup {resending}
  /\ resending' = Nothing
  /\ UNCHANGED <<windowVars, subUnackedRecords, loopVars, timeoutList, acks, checkpoint, delivered, acked,
                 boundVars>>

-----------------------------------------------------------------------------
(* The recvAcks threads: doAcks.                                            *)

recvAcks(h, ids) ==
  /\ acks[h].step = "idle"
  /\ acks' = [acks EXCEPT ![h] = [idle EXCEPT !.step = "mark", !.ids = ids]]
  /\ acked' = acked \cup Range(ids)
  /\ UNCHANGED <<windowVars, subUnackedRecords, checkList, loopVars, resendVars, checkpoint,
                 received, delivered, boundVars>>

\* removeAckedRecordIdsFromCheckList takes the ids out of the entries of their
\* batches and notes the batches with an entry that is empty now ...
markAcked(h) ==
  LET A == Range(acks[h].ids)
      left(c) == [c EXCEPT !.indexes = {i \in @ : <<c.batch, i>> \notin A}]
  IN
  /\ acks[h].step = "mark"
  /\ checkList' = {left(c) : c \in checkList}
  /\ acks' = [acks EXCEPT ![h].step = "sweep",
                          ![h].keys = {c.batch : c \in {d \in checkList :
                             /\ left(d).indexes = {}
                             /\ \E r \in A : r[1] = d.batch}}]
  /\ UNCHANGED <<windowVars, subUnackedRecords, loopVars, resendVars, checkpoint, clientVars,
                 boundVars>>

\* Mutant: entries of every acknowledged batch go.
sweepAcked_WholeBatch(h) ==
  /\ acks[h].step = "sweep"
  /\ checkList' = {c \in checkList : \A r \in Range(acks[h].ids) : r[1] # c.batch}
  /\ acks' = [acks EXCEPT ![h].step = "doAck"]
  /\ UNCHANGED <<windowVars, subUnackedRecords, loopVars, resendVars, checkpoint, clientVars,
                 boundVars>>

\* ... and then removes the entries of those batches.
sweepAcked(h) ==
  /\ acks[h].step = "sweep"
  /\ checkList' = {c \in checkList : c.batch \notin acks[h].keys}
  /\ acks' = [acks EXCEPT ![h].step = "doAck"]
  /\ UNCHANGED <<windowVars, subUnackedRecords, loopVars, resendVars, checkpoint, clientVars,
                 boundVars>>

\* The ranges with the ids inserted one after the other, and how many counted.
insertAll(ids) ==
  LET acc[n \in 0..Len(ids)] ==
        IF n = 0 THEN [ranges |-> awAckedRanges, updated |-> 0]
        ELSE LET ranges == insertAckedRecordId(ids[n], awWindowLowerBound, acc[n - 1].ranges,
                                               awBatchNumMap)
             IN  IF ranges = Nothing THEN acc[n - 1]
                 ELSE [ranges |-> ranges, updated |-> acc[n - 1].updated + 1]
  IN acc[Len(ids)]

\* Mutant: the batch after the committed one goes as well.
dropWhileAntitone_OneMore(batchId, batchNumMap) ==
  [b \in {x \in DOMAIN batchNumMap : x > batchId + 1} |-> batchNumMap[b]]

dropWhileAntitone(batchId, batchNumMap) ==
  [b \in {x \in DOMAIN batchNumMap : x > batchId} |-> batchNumMap[b]]

\* doAck for the one shard of the ids.
doAck(h) ==
  LET inserted == insertAll(acks[h].ids)
      commit == getCommitRecordId(inserted.ranges, awBatchNumMap)
      moved == tryUpdateWindowLowerBound(inserted.ranges, awWindowLowerBound, awBatchNumMap, commit)
  IN
  /\ acks[h].step = "doAck"
  /\ subUnackedRecords' = (subUnackedRecords + W - inserted.updated) % W
  /\ IF moved = Nothing
     THEN /\ awAckedRanges' = inserted.ranges
          /\ acks' = [acks EXCEPT ![h] = idle]
          /\ UNCHANGED <<awWindowLowerBound, awBatchNumMap>>
     ELSE /\ awAckedRanges' = moved.ranges
          /\ awWindowLowerBound' = moved.lowerBound
          /\ awBatchNumMap' = dropWhileAntitone(commit[1], awBatchNumMap)
          /\ acks' = [acks EXCEPT ![h] = [idle EXCEPT !.step = "write", !.lsn = commit[1]]]
  /\ UNCHANGED <<checkList, loopVars, resendVars, checkpoint, clientVars, boundVars>>

\* After the transaction: threads may write in another order than they committed.
writeCheckpoints(h) ==
  /\ acks[h].step = "write"
  /\ checkpoint' = acks[h].lsn
  /\ acks' = [acks EXCEPT ![h] = idle]
  /\ UNCHANGED <<windowVars, subUnackedRecords, checkList, loopVars, resendVars, clientVars,
                 boundVars>>

-----------------------------------------------------------------------------

\* The server stops and the subscription is initialised again.
crash ==
  /\ crashes < MaxCrashes
  /\ crashes' = crashes + 1
  /\ awWindowLowerBound' = <<1, 0>>
  /\ awAckedRanges' = <<>>
  /\ awBatchNumMap' = <<>>
  /\ subUnackedRecords' = 0
  /\ checkList' = {}
  /\ next' = checkpoint + 1
  /\ batches' = <<>>
  /\ step' = "read"
  /\ successRecords' = 0
  /\ timeoutList' = {} /\ resending' = Nothing
  /\ acks' = [h \in Handlers |-> idle]
  /\ delivered' = {} /\ forgotten' = {}
  /\ UNCHANGED <<checkpoint, received, acked, log>>

Next ==
  \/ \E n \in 1..MaxRead : readRecordBatches(n)
  \/ \E hi \in LSNs : readGap(hi)
  \/ insertBatch
  \/ deliver
  \/ deliverFails
  \/ registerResend
  \/ \E S \in SUBSET checkList : S # {} /\ updateClockAndDoResend(S)
  \/ \E c \in timeoutList : resendTimeoutRecords(c)
  \/ resendReadsNothing
  \/ resend
  \/ \E h \in Handlers, n \in 1..MaxAcks : \E ids \in [1..n -> received] : recvAcks(h, ids)
  \/ \E h \in Handlers : markAcked(h)
  \/ \E h \in Handlers : sweepAcked(h)
  \/ \E h \in Handlers : doAck(h)
  \/ \E h \in Handlers : writeCheckpoints(h)
  \/ crash

Spec == Init /\ [][Next]_vars
-----------------------------------------------------------------------------

\* At least once: what the checkpoint covers, and a restart skips, lies in a gap
\* or was acknowledged (doAck), in whatever order acknowledgements, resends and
\* checkpoint writes happen.
CheckpointCoversOnlyAcked ==
  \A b \in 1..checkpoint : idsOf(b) \subseteq acked

inAckedRange(r) ==
  \E s \in DOMAIN awAckedRanges : AtMost(s, r) /\ AtMost(r, awAckedRanges[s])

\* The window's ranges and what lies below the window are acknowledged records
\* and gaps, nothing else (insertAckedRecordId, tryUpdateWindowLowerBound).
RangesAreAcked ==
  \A b \in LSNs : \A r \in idsOf(b) :
    \/ r \in acked
    \/ /\ AtMost(awWindowLowerBound, r)
       /\ ~inAckedRange(r)

\* isLastInBatch always finds the batch it is asked about: the error "no
\* sriBatchId found" is never raised.
EndsAreKnown ==
  \A s \in DOMAIN awAckedRanges : awAckedRanges[s][1] \in DOMAIN awBatchNumMap

waitsForResend(r) ==
  \/ \E c \in checkList \cup timeoutList : r \in idsIn(c)
  \/ resending # Nothing /\ r \in idsIn(resending)
  \/ step = "register" /\ r \in idsOf(Head(batches))

\* A delivered record stays due for another delivery until it is acknowledged,
\* although three kinds of threads edit the check list; an empty read of the resend
\* job drops the records it was for, and no others (see ResendIsRetried).
UnackedWaitsForResend == \A r \in delivered \ (acked \cup forgotten) : waitsForResend(r)

noGaps == \A b \in LSNs : log[b] # 0
noAckHalfDone == \A h \in Handlers : acks[h].step \in {"idle", "write"}

\* Between reads, with no acknowledgement half done, the counter that holds the
\* reader back is the number of records that are out, less those acknowledged before
\* their batch was counted (below zero it wraps: see OnlyUnackedHoldBack).  In a log
\* without gaps and until a restart; beside a gap an acknowledgement may count twice
\* (DuplicateAcksAreFiltered).  (addUnackedRecords, doAck)
UnackedCountIsExact ==
  noGaps /\ crashes = 0 /\ step = "read" /\ noAckHalfDone =>
    subUnackedRecords = (Cardinality(delivered) - Cardinality(acked)) % W

\* getCommitRecordId, tryUpdateWindowLowerBound: in a log without gaps and until a
\* restart the window leaves nothing behind: when all that was delivered is known to
\* be acknowledged and no acknowledgement is half done, it starts after that, whichever
\* thread committed what.
WindowKeepsUp ==
  (/\ noGaps /\ crashes = 0 /\ step = "read" /\ noAckHalfDone
   /\ \A r \in delivered : Below(r, awWindowLowerBound) \/ inAckedRange(r)) =>
    \A r \in delivered : Below(r, awWindowLowerBound)

-----------------------------------------------------------------------------
(* What comments, messages and tests of the source say, or its names promise, *)
(* and the code does not do.                                                *)

\* Common.hs, getCommitRecordId: "if maxRid is a complete batch, commit maxRid":
\* when all that this server delivered is known to be acknowledged and no
\* acknowledgement is half done, the checkpoint covers it.
CompleteBatchIsCommitted ==
  (/\ step = "read"
   /\ delivered # {}
   /\ \A r \in delivered : Below(r, awWindowLowerBound) \/ inAckedRange(r)
   /\ \A h \in Handlers : acks[h] = idle) =>
    \A r \in delivered : r[1] <= checkpoint

\* Subscription.hs: "resend reader read empty records ... retry next time": what was
\* delivered and not acknowledged is delivered again at some later time.
ResendIsRetried == \A r \in delivered \ acked : waitsForResend(r)

\* checkUnackedRecords holds the reader back only while records are out that were not
\* acknowledged.
OnlyUnackedHoldBack ==
  step = "read" /\ noAckHalfDone /\ ~checkUnackedRecords => delivered \ acked # {}

\* AckSpec.hs: "filter duplicate ack record": a record is in one range only.
DuplicateAcksAreFiltered ==
  \A s, t \in DOMAIN awAckedRanges : Below(s, t) => Below(awAckedRanges[s], t)
=============================================================================
