---------------------------- MODULE StreamStore ----------------------------
(***************************************************************************)
(* The stream operations of HStream.Store (Stream.hs and Writer.hs) on top *)
(* of the asynchronous calls of StoreCalls.                                *)
(* Every operation is a sequence of calls: each posts a request to the     *)
(* store, blocks for its callback, and decides how to go on.  Threads of   *)
(* several servers run operations at the same time; requests are processed *)
(* in any order, callbacks run in any order, a call may time out although  *)
(* its request is processed later, and a waiting thread may be             *)
(* interrupted.  Reads are answered from the client's view of the logs     *)
(* configuration, which catches up with the store in its own time.         *)
(***************************************************************************)
EXTENDS StoreCalls, LogsConfig, FiniteSets

CONSTANTS
  Client,          \* the client (server) a thread works with, by thread
  Jobs,            \* the operations a thread may run
  StartTree,       \* the logs configuration at the start
  LogIds,          \* what genUnique returns
  checkpointDir,   \* the directory of allocated checkpoint ids
  maxTries,        \* makeLogGroup calls of one createRandomLogGroup, 10 in the code
  MaxEvents        \* bound: an operation counts 2, a timeout, an interrupt,
                   \* a refusal or a wait that is skipped counts 1

VARIABLES
  trees,     \* the logs configuration, version by version
  view,      \* the version each client knows
  records,   \* the records of the log that is appended to
  wire,      \* requests the store has not processed, with id and client
  replies,   \* [id, reply]: processed, callback not run
  memory,    \* what the callbacks wrote to the buffers
  job,       \* the operation a thread is in, with its local state
  result,    \* history: how a thread's last operation ended
  promised,  \* history: <<fact, from>>: what a client was told of the tree and nobody
             \* undid, and the version from which it may rely on it
  budget     \* what is left of MaxEvents

storeVars == <<trees, view, records>>
netVars == <<wire, replies, memory>>
vars == <<callVars, storeVars, netVars, job, result, promised, budget>>

Clients == {Client[t] : t \in Threads}
None == [op |-> "None"]
pending == [st |-> "none", value |-> 0, version |-> 0]

\* The tree of the latest version.
latest == trees[Len(trees)]

Init ==
  /\ CallsInit
  /\ trees = <<StartTree>>
  /\ view = [c \in Clients |-> 1]
  /\ records = <<>>
  /\ wire = {}
  /\ replies = {}
  /\ memory = [b \in Buffers |-> pending]
  /\ job = [t \in Threads |-> None]
  /\ result = [t \in Threads |-> None]
  /\ promised = [c \in Clients |-> {}]
  /\ budget = MaxEvents

-----------------------------------------------------------------------------
\* The bindings of the writer.

logdevice_append_async(payload) == [fn |-> "append", payload |-> <<payload>>]

\* The encoder takes the payloads one by one; the batch is one record.
logdevice_append_batch(payloads) ==
  [fn |-> "append", payload |-> [i \in 1..Len(payloads) |-> payloads[i]]]

-----------------------------------------------------------------------------
\* The store.

\* External: what the store answers to an append.
appended(m) == [st |-> "OK", value |-> Len(records) + 1, version |-> 0]
isLogsConfig(m) == m.fn # "append"

reply(w, ans) ==
  replies' = IF w.id = Nobody THEN replies
             ELSE replies \cup {[id |-> w.id, data |-> ans]}

\* External: LogDevice processes a request to the logs configuration.  A write makes a
\* new version and undoes the promises that it breaks.
processLogsConfig(w) ==
  /\ isLogsConfig(w.m)
  /\ LET ans == answer(IF isRead(w.m) THEN trees[view[w.client]] ELSE latest, w.m)
         new == IF isRead(w.m) THEN latest ELSE ans.tree
     IN  /\ trees' = IF isRead(w.m) \/ ans.st # "OK" THEN trees ELSE Append(trees, new)
         /\ reply(w, [st |-> ans.st, value |-> ans.value,
                      version |-> IF isRead(w.m) THEN view[w.client] ELSE Len(trees')])
         /\ promised' = [c \in Clients |-> {p \in promised[c] : p[1] \in facts(new)}]
         /\ job' = [t \in Threads |->
                      IF job[t] # None /\ <<job[t].path, job[t].expect>> \notin facts(new)
                      THEN [job[t] EXCEPT !.expect = 0] ELSE job[t]]
  /\ wire' = wire \ {w}
  /\ UNCHANGED <<callVars, view, records, memory, result, budget>>

\* External: a record is stored.
processAppend(w) ==
  /\ w.m.fn = "append"
  /\ records' = Append(records, w.m.payload)
  /\ reply(w, appended(w.m))
  /\ wire' = wire \ {w}
  /\ UNCHANGED <<callVars, trees, view, memory, job, result, promised, budget>>

\* External: a client learns of later versions of the logs configuration.
catchUp(c) ==
  /\ view[c] < Len(trees)
  /\ view' = [view EXCEPT ![c] = @ + 1]
  /\ UNCHANGED <<callVars, trees, records, netVars, job, result, promised, budget>>

-----------------------------------------------------------------------------
\* The callbacks.

\* What a callback writes: the status, and what came with it.
cb_data(data) == data

\* A reply arrives and its callback runs.
respond(c, r) ==
  /\ r.id = c.id
  /\ callback(c)
  /\ memory' = [memory EXCEPT ![c.buf] = cb_data(r.data)]
  /\ replies' = replies \ {r}
  /\ UNCHANGED <<storeVars, wire, job, result, promised, budget>>

\* The client gives up: the callback runs with TIMEDOUT.  The request is still on its
\* way, or its reply is lost.
timeout(c) ==
  /\ budget > 0
  /\ callback(c)
  /\ memory' = [memory EXCEPT ![c.buf] = cb_data([pending EXCEPT !.st = "TIMEDOUT"])]
  /\ replies' = {r \in replies : r.id # c.id}
  /\ wire' = {IF w.id = c.id THEN [w EXCEPT !.id = Nobody] ELSE w : w \in wire}
  /\ budget' = budget - 1
  /\ UNCHANGED <<storeVars, job, result, promised>>

-----------------------------------------------------------------------------
\* The operations.

firstStep ==
  [createStream |-> "makeDirectory", createStreamPartition |-> "getDirectory",
   removeStream |-> "removeDirectory", renameStream |-> "rename",
   updateStreamExtraAttrs |-> "getDirectory", getUnderlyingLogId |-> "getLogGroup",
   getStreamIdFromLogId |-> "getLogGroupById",
   initCheckpointDir |-> "makeDirectory", allocCheckpointId |-> "getLogGroup",
   freeCheckpointId |-> "removeLogGroup",
   append |-> "append", appendBatch |-> "appendBatch"]

\* Jobs are calls of these operations.
ASSUME JobsAssumption == \A j \in Jobs : j.op \in DOMAIN firstStep

\* What a client was told and may rely on now.
reliable(c) == {p[1] : p \in {q \in promised[c] : q[2] <= view[c]}}

\* The id a client was told for a path, 0 when there is none.
told(c, path) ==
  IF \E f \in reliable(c) : f[1] = path
  THEN (CHOOSE f \in reliable(c) : f[1] = path)[2] ELSE 0

\* A thread starts an operation.
begin(t, j) ==
  /\ job[t] = None
  /\ waits[t] = Nobody
  /\ budget > 1
  /\ job' = [job EXCEPT ![t] =
               [op |-> j.op, path |-> j.path, arg |-> j.arg, step |-> firstStep[j.op],
                version |-> 0, value |-> 0, extras |-> {}, tries |-> maxTries,
                expect |-> told(Client[t], j.path)]]
  /\ result' = [result EXCEPT ![t] = None]
  /\ budget' = budget - 2
  /\ UNCHANGED <<callVars, storeVars, netVars, promised>>

\* The request of the current step; id is what genUnique returned.
request(t, id) ==
  LET j == job[t] IN
  CASE j.step = "makeDirectory" -> ld_client_make_directory(j.path[1], {"made"})
    [] j.step = "removeDirectory" -> ld_client_remove_directory(j.path[1], TRUE)
    [] j.step = "getDirectory" -> ld_client_get_directory(j.path[1])
    [] j.step = "rename" -> ld_client_rename(j.path[1], j.arg)
    [] j.step = "setAttributes" -> ld_client_set_attributes(j.path[1], j.extras)
    [] j.step = "makeLogGroup" -> ld_client_make_loggroup(j.path, id, TRUE)
    [] j.step = "removeLogGroup" -> ld_client_remove_loggroup(j.path)
    [] j.step = "getLogGroup" -> ld_client_get_loggroup(j.path)
    [] j.step = "getLogGroupById" -> ld_client_get_loggroup_by_id(j.arg)
    [] j.step = "append" -> logdevice_append_async(t)
    [] j.step = "appendBatch" -> logdevice_append_batch(<<t, "a", "b">>)

\* The lowest free one; StoreCalls and its proofs leave the choice open.
lowest(S) == {x \in S : \A y \in S : x <= y}

\* withAsync: the C function accepts the request.
post(t) ==
  /\ job[t] # None
  /\ job[t].step # "sync"
  /\ \E id \in lowest(Ids \ used), buf \in lowest({b \in Buffers : owner[b] = Nobody}) :
       /\ submit(t, id, buf)
       /\ \E logid \in IF job[t].step = "makeLogGroup" THEN LogIds ELSE {0} :
            wire' = wire \cup {[id |-> id, client |-> Client[t], m |-> request(t, logid)]}
       /\ memory' = [memory EXCEPT ![buf] = pending]
  /\ UNCHANGED <<storeVars, replies, job, result, promised, budget>>

\* The facts that hold in every version from one on.
lasting(version) ==
  {f \in facts(latest) : \A v \in 1..Len(trees) : v >= version => f \in facts(trees[v])}

\* The operation ends: it returns a value, or throws the status.  (The history remembers
\* what the client was told and from which version it may rely on it, unless somebody
\* undid it since the version it was true in.)
ends(t, st, value, since, from) ==
  /\ job' = [job EXCEPT ![t] = None]
  /\ result' = [result EXCEPT ![t] = [op |-> job[t].op, st |-> st, value |-> value,
                                       expect |-> job[t].expect]]
  /\ LET tells == CASE job[t].op = "createStream" -> {<<job[t].path, 0>>}
                    [] job[t].op \in {"createStreamPartition", "allocCheckpointId"}
                         -> {<<job[t].path, value>>}
                    [] OTHER -> {}
     IN  promised' = IF st # "OK" THEN promised
                     ELSE [promised EXCEPT ![Client[t]] =
                             @ \cup {<<f, from>> : f \in tells \cap lasting(since)}]

finish(t, st, value, since) == ends(t, st, value, since, 0)

\* The operation goes on with another step.
goOn(t, j) ==
  /\ job' = [job EXCEPT ![t] = j]
  /\ UNCHANGED <<result, promised>>

\* The C function refuses the request and withAsync throws.
refused(t) ==
  /\ job[t] # None
  /\ waits[t] = Nobody
  /\ job[t].step # "sync"
  /\ budget > 0
  /\ finish(t, "refused", 0, 0)
  /\ budget' = budget - 1
  /\ UNCHANGED <<callVars, storeVars, netVars>>

\* An exception reaches the waiting thread.
interrupted(t) ==
  /\ budget > 0
  /\ interrupt(t)
  /\ finish(t, "interrupted", 0, 0)
  /\ budget' = budget - 1
  /\ UNCHANGED <<storeVars, netVars>>

\* Mutant: the operation returns without waiting for the version.
thenSync_Skips(t, r) ==
  finish(t, r.st, IF job[t].op = "createStreamPartition" \/ job[t].op = "allocCheckpointId"
                  THEN r.value ELSE 0, r.version)

\* The write succeeded: syncLogsConfigVersion with the version it made.
thenSync(t, r) ==
  IF r.st = "OK"
  THEN goOn(t, [job[t] EXCEPT !.step = "sync", !.version = r.version, !.value = r.value])
  ELSE finish(t, r.st, 0, r.version)

\* Stream.hs: one operator per function, r is what its call returned.
createStream(t, r) == thenSync(t, r)
removeStream(t, r) == thenSync(t, r)
renameStream(t, r) == thenSync(t, r)
getUnderlyingLogId(t, r) == finish(t, r.st, r.value, r.version)
getStreamIdFromLogId(t, r) == finish(t, r.st, r.value, r.version)

createRandomLogGroup(t, r) ==
  IF r.st # "ID_CLASH"
  THEN thenSync(t, r)
  ELSE IF job[t].tries > 1
  THEN goOn(t, [job[t] EXCEPT !.tries = @ - 1])
  ELSE finish(t, "StoreError", 0, r.version)

createStreamPartition(t, r) ==
  IF job[t].step = "makeLogGroup"
  THEN createRandomLogGroup(t, r)
  ELSE IF r.st = "OK"
  THEN goOn(t, [job[t] EXCEPT !.step = "makeLogGroup"])
  ELSE finish(t, IF r.st = "NOTFOUND" THEN "StoreError" ELSE r.st, 0, r.version)

\* updateStreamExtraAttrs with update_log_attrs_extras in between.
updateStreamExtraAttrs(t, r) ==
  IF job[t].step = "setAttributes"
  THEN thenSync(t, r)
  ELSE IF r.st = "OK"
  THEN goOn(t, [job[t] EXCEPT !.step = "setAttributes",
                              !.extras = r.value \cup {job[t].arg}])
  ELSE finish(t, r.st, 0, r.version)

initCheckpointDir(t, r) ==
  IF r.st = "EXISTS" THEN finish(t, "OK", 0, r.version) ELSE thenSync(t, r)

\* Mutant: the id is not looked up first.
allocCheckpointId_NoGet(t, r) ==
  IF job[t].step = "makeLogGroup"
  THEN createRandomLogGroup(t, r)
  ELSE goOn(t, [job[t] EXCEPT !.step = "makeLogGroup"])

allocCheckpointId(t, r) ==
  IF job[t].step = "makeLogGroup"
  THEN createRandomLogGroup(t, r)
  ELSE IF r.st = "NOTFOUND"
  THEN goOn(t, [job[t] EXCEPT !.step = "makeLogGroup"])
  ELSE finish(t, r.st, r.value, r.version)

freeCheckpointId(t, r) ==
  IF r.st = "NOTFOUND" THEN finish(t, "OK", 0, r.version) ELSE thenSync(t, r)

\* Mutant: the status in the callback data is not looked at.
append_Ignores(t, r) == finish(t, "OK", r.value, r.version)

\* Writer.hs
append(t, r) == finish(t, r.st, r.value, r.version)

\* The MVar is full: the outcome is read and the operation decides.
wake(t) ==
  /\ resume(t)
  /\ LET r == memory[waits[t].buf] IN
     \/ job[t].op = "createStream" /\ createStream(t, r)
     \/ job[t].op = "createStreamPartition" /\ createStreamPartition(t, r)
     \/ job[t].op = "removeStream" /\ removeStream(t, r)
     \/ job[t].op = "renameStream" /\ renameStream(t, r)
     \/ job[t].op = "updateStreamExtraAttrs" /\ updateStreamExtraAttrs(t, r)
     \/ job[t].op = "getUnderlyingLogId" /\ getUnderlyingLogId(t, r)
     \/ job[t].op = "getStreamIdFromLogId" /\ getStreamIdFromLogId(t, r)
     \/ job[t].op = "initCheckpointDir" /\ initCheckpointDir(t, r)
     \/ job[t].op = "allocCheckpointId" /\ allocCheckpointId(t, r)
     \/ job[t].op = "freeCheckpointId" /\ freeCheckpointId(t, r)
     \/ job[t].op \in {"append", "appendBatch"} /\ append(t, r)
  /\ UNCHANGED <<storeVars, netVars, budget>>

\* The view has caught up, and the operation returns.
ld_client_sync_logsconfig_version(t) ==
  /\ job[t] # None
  /\ job[t].step = "sync"
  /\ view[Client[t]] >= job[t].version
  /\ finish(t, "OK", job[t].value, job[t].version)
  /\ UNCHANGED <<callVars, storeVars, netVars, budget>>

\* The client has no logs section: the error is taken for OK ("should we ignore
\* LOGS_SECTION_MISSING err?") and the operation returns before its view has caught up.
syncSkipped(t) ==
  /\ job[t] # None
  /\ job[t].step = "sync"
  /\ view[Client[t]] < job[t].version
  /\ budget > 0
  /\ ends(t, "OK", job[t].value, job[t].version, job[t].version)
  /\ budget' = budget - 1
  /\ UNCHANGED <<callVars, storeVars, netVars>>

\* It does not in time, and the operation throws although its write is in.
syncTimesOut(t) ==
  /\ job[t] # None
  /\ job[t].step = "sync"
  /\ view[Client[t]] < job[t].version
  /\ budget > 0
  /\ finish(t, "TIMEDOUT", 0, 0)
  /\ budget' = budget - 1
  /\ UNCHANGED <<callVars, storeVars, netVars>>

\* The forked thread lets go of the buffer of an interrupted call.
keeperDone(c) ==
  /\ letGo(c)
  /\ UNCHANGED <<storeVars, netVars, job, result, promised, budget>>

Next ==
  \/ \E w \in wire : \/ processLogsConfig(w)
                     \/ processAppend(w)
  \/ \E c \in Clients : catchUp(c)
  \/ \E c \in requests : timeout(c) \/ \E r \in replies : respond(c, r)
  \/ \E c \in keepers : keeperDone(c)
  \/ \E t \in Threads : \/ \E j \in Jobs : begin(t, j)
                        \/ post(t)
                        \/ refused(t)
                        \/ interrupted(t)
                        \/ wake(t)
                        \/ ld_client_sync_logsconfig_version(t)
                        \/ syncSkipped(t)
                        \/ syncTimesOut(t)

Spec == Init /\ [][Next]_vars

-----------------------------------------------------------------------------
\* The state has the shape the code relies on: a thread that waits is in an operation,
\* it waits for one call at a time, and a reply belongs to a call whose callback is due.
TypeOK ==
  /\ CallsTypeOK
  /\ \A t \in Threads : waits[t] # Nobody => job[t] # None /\ job[t].step # "sync"
  /\ \A r \in replies : \E c \in requests : c.id = r.id
  /\ \A w \in wire : w.id # Nobody => \E c \in requests : c.id = w.id
  /\ \A c \in Clients : view[c] \in 1..Len(trees)

\* What a client was told it has created, and nobody has removed or renamed since, is
\* there for all its later reads (createStream, createStreamPartition and
\* allocCheckpointId wait in syncLogsConfigVersion before they return).  Where the wait
\* was skipped for LOGS_SECTION_MISSING, it is there once the client's view has reached
\* the version of the write.
CreatedIsVisible == \A c \in Clients : reliable(c) \subseteq facts(trees[view[c]])

\* Whatever a call returned as created is there for the client's next read.  ("This
\* guarantees that subsequent get*() calls [...] will get an up-to-date view"; the code
\* does not wait when the error is LOGS_SECTION_MISSING.)
SyncGuaranteesView ==
  \A c \in Clients : \A p \in promised[c] : p[1] \in facts(trees[view[c]])

\* allocCheckpointId gives a server that has allocated the id of a name before, and
\* when nobody freed it meanwhile, the same id again: it neither fails on the group
\* that exists nor makes a second one.  Only a call that got no answer is excused.
AllocIsStable ==
  \A t \in Threads :
    LET r == result[t] IN
    (r # None /\ r.op = "allocCheckpointId" /\ r.expect # 0) =>
      \/ r.st = "OK" /\ r.value = r.expect
      \/ r.st \in {"TIMEDOUT", "refused", "interrupted"}

\* An append that returned is stored, at the LSN it returned, and with the payload of
\* its caller, a batch whole and in order, whatever calls were interrupted or timed out
\* meanwhile (_append_payload_async, APPEND_BATCH).
AckedIsStored ==
  \A t \in Threads :
    LET r == result[t] IN
    (r # None /\ r.op \in {"append", "appendBatch"} /\ r.st = "OK") =>
      /\ r.value \in 1..Len(records)
      /\ records[r.value] = IF r.op = "append" THEN <<t>> ELSE <<t, "a", "b">>

\* A stream exists because somebody created it: every stream directory has the
\* attributes createStream gave it.  ("If the stream doesn't exist, throw StoreError.")
PartitionNeedsStream ==
  \A dir \in DOMAIN latest.dirs : dir # checkpointDir => "made" \in latest.dirs[dir]
=============================================================================
