------------------------- MODULE StreamStoreProofs -------------------------
(***************************************************************************)
(* What the stream operations promise, for any number of servers, threads, *)
(* operations and log ids.  The steps of the store, of the responses and   *)
(* of the calls keep StoreInv, which relates every request, reply and      *)
(* outcome under way to the step that asked for it and to the versions of  *)
(* the tree; StoreClientProofs has the steps of the operations.  The       *)
(* operations use the asynchronous calls as StoreCalls describes them, so  *)
(* what is proved about StoreCalls holds of them.                          *)
(***************************************************************************)
EXTENDS StoreClientProofs

\* A step of a stream operation, of the store or of a callback is a step of the call
\* protocol of Foreign.hs, or leaves it alone.
LEMMA StepIsACall == [Next]_vars => [CallsNext]_callVars
<1> SUFFICES ASSUME [Next]_vars PROVE [CallsNext]_callVars
  BY Zenon
<1>1. CASE UNCHANGED vars
  BY Zenon, <1>1 DEF vars
<1>2. ASSUME NEW w \in wire, processLogsConfig(w) PROVE UNCHANGED callVars
  BY Zenon, <1>2 DEF processLogsConfig
<1>3. ASSUME NEW w \in wire, processAppend(w) PROVE UNCHANGED callVars
  BY Zenon, <1>3 DEF processAppend
<1>4. ASSUME NEW c \in Clients, catchUp(c) PROVE UNCHANGED callVars
  BY Zenon, <1>4 DEF catchUp
<1>5. ASSUME NEW c \in requests, timeout(c) PROVE CallsNext
  BY Zenon, <1>5 DEF timeout, CallsNext
<1>6. ASSUME NEW c \in requests, NEW r \in replies, respond(c, r) PROVE CallsNext
  BY Zenon, <1>6 DEF respond, CallsNext
<1>7. ASSUME NEW c \in keepers, keeperDone(c) PROVE CallsNext
  BY Zenon, <1>7 DEF keeperDone, CallsNext
<1>8. ASSUME NEW t \in Threads, NEW j \in Jobs, begin(t, j) PROVE UNCHANGED callVars
  BY Zenon, <1>8 DEF begin
<1>9. ASSUME NEW t \in Threads, post(t) PROVE CallsNext
  <2>1. PICK id \in lowest(Ids \ used),
             buf \in lowest({b \in Buffers : owner[b] = Nobody}) : submit(t, id, buf)
    BY Zenon, <1>9 DEF post
  <2> QED
    BY Zenon, <2>1 DEF lowest, CallsNext
<1>10. ASSUME NEW t \in Threads, refused(t) PROVE UNCHANGED callVars
  BY Zenon, <1>10 DEF refused
<1>11. ASSUME NEW t \in Threads, interrupted(t) PROVE CallsNext
  BY Zenon, <1>11 DEF interrupted, CallsNext
<1>12. ASSUME NEW t \in Threads, wake(t) PROVE CallsNext
  BY Zenon, <1>12 DEF wake, CallsNext
<1>13. ASSUME NEW t \in Threads, ld_client_sync_logsconfig_version(t)
       PROVE  UNCHANGED callVars
  BY Zenon, <1>13 DEF ld_client_sync_logsconfig_version
<1>14. ASSUME NEW t \in Threads, syncSkipped(t) \/ syncTimesOut(t) PROVE UNCHANGED callVars
  BY Zenon, <1>14 DEF syncSkipped, syncTimesOut
<1> QED
  BY Zenon, <1>1, <1>2, <1>3, <1>4, <1>5, <1>6, <1>7, <1>8, <1>9, <1>10, <1>11, <1>12, <1>13,
     <1>14 DEF Next

\* The stream operations implement the call protocol (Stream.hs on Foreign.hs).
THEOREM StreamStoreImplementsCalls == Spec => CallsSpec
<1>1. Init => CallsInit
  BY Zenon DEF Init
<1> QED
  BY <1>1, StepIsACall, PTL DEF Spec, CallsSpec

\* Whatever operations run, time out or are interrupted, no callback writes to a buffer
\* that was given up.
THEOREM StoreBuffersAreSafe == Spec => []BufferOutlivesCallback
<1> QED
  BY StreamStoreImplementsCalls, BuffersAreSafe, PTL

\* Whatever operations run, a thread decides on the outcome of its own call.
THEOREM StoreOutcomesAreOwn == Spec => []OutcomeIsOwn
<1> QED
  BY StreamStoreImplementsCalls, OutcomesAreOwn, PTL

-----------------------------------------------------------------------------
\* An operation is refused, interrupted, or its wait for the version ends.
LEMMA ThrowStep ==
  ASSUME StoreInv, NEW t \in Threads, IInv',
         \/ refused(t) \/ interrupted(t) \/ syncTimesOut(t) \/ syncSkipped(t)
         \/ ld_client_sync_logsconfig_version(t)
  PROVE  StoreInv'
<1>0. waits \in [Threads -> Calls \cup {Nobody}] /\ JobInv
  BY Zenon DEF StoreInv, IInv, CallsTypeOK
<1>1. CASE refused(t)
  <2>1. leaves(t)
    BY Zenon, <1>0, <1>1 DEF refused, leaves, callVars
  <2>2. decided(t)
    BY Zenon, <1>1, ThrowDecides DEF refused
  <2> QED
    BY Zenon, <1>1, <2>1, <2>2, DecidedStep DEF refused
<1>2. CASE interrupted(t)
  <2>1. leaves(t)
    BY Zenon, <1>0, <1>2 DEF interrupted, interrupt, leaves
  <2>2. decided(t)
    BY Zenon, <1>2, ThrowDecides DEF interrupted
  <2>3. job[t] # None
    BY Zenon, <1>0, <1>2 DEF JobInv, interrupted, interrupt
  <2> QED
    BY Zenon, <2>1, <2>2, <2>3, DecidedStep
<1>3. CASE syncTimesOut(t)
  <2>1. waits[t] = Nobody /\ job[t] # None
    BY Zenon, <1>0, <1>3 DEF JobInv, syncTimesOut
  <2>2. leaves(t)
    BY Zenon, <1>0, <1>3, <2>1 DEF syncTimesOut, leaves, callVars
  <2>3. decided(t)
    BY Zenon, <1>3, ThrowDecides DEF syncTimesOut
  <2> QED
    BY Zenon, <2>1, <2>2, <2>3, DecidedStep
<1>4. CASE ld_client_sync_logsconfig_version(t)
  <2>1. waits[t] = Nobody /\ job[t] # None /\ goodJob(job[t]) /\ job[t].step = "sync"
    BY Zenon, <1>0, <1>4 DEF JobInv, ld_client_sync_logsconfig_version
  <2>2. leaves(t)
    BY Zenon, <1>0, <1>4, <2>1 DEF ld_client_sync_logsconfig_version, leaves, callVars
  <2>3. view[Client[t]] >= job[t].version /\ view[Client[t]] \in 1..Len(trees) /\ Len(trees) \in Nat
    BY Zenon, <1>4 DEF ld_client_sync_logsconfig_version, StoreInv, VisibleInv, Clients, DomainInv, isSeq
  <2>4. okEnd(t, "OK", job[t].value, job[t].version, 0)
    BY <2>1, <2>3 DEF okEnd, goodJob
  <2>5. decided(t)
    BY Zenon, <1>4, <2>4 DEF ld_client_sync_logsconfig_version, finish, decided
  <2> QED
    BY Zenon, <2>1, <2>2, <2>5, DecidedStep
<1>5. CASE syncSkipped(t)
  <2>1. waits[t] = Nobody /\ job[t] # None /\ goodJob(job[t]) /\ job[t].step = "sync"
    BY Zenon, <1>0, <1>5 DEF JobInv, syncSkipped
  <2>2. leaves(t)
    BY Zenon, <1>0, <1>5, <2>1 DEF syncSkipped, leaves, callVars
  <2>3. job[t].version \in Nat /\ job[t].version <= job[t].version
    BY <2>1 DEF goodJob
  <2>4. okEnd(t, "OK", job[t].value, job[t].version, job[t].version)
    BY Zenon, <2>1, <2>3 DEF okEnd, goodJob
  <2>5. decided(t)
    BY Zenon, <1>5, <2>4 DEF syncSkipped, decided
  <2> QED
    BY Zenon, <2>1, <2>2, <2>5, DecidedStep
<1> QED
  BY Zenon, <1>1, <1>2, <1>3, <1>4, <1>5

\* What a client may rely on holds for its reads (reliable).
LEMMA ReliableHolds ==
  ASSUME StoreInv, NEW c \in Clients, NEW f \in reliable(c)
  PROVE  holdsFor(c, f)
<1>1. PICK p \in promised[c] : p[2] <= view[c] /\ f = p[1]
  BY Zenon DEF reliable
<1>2. p[2] \in Nat /\ holdsFrom(c, f, p[2]) /\ view[c] \in 1..Len(trees) /\ Len(trees) \in Nat
  BY Zenon, <1>1 DEF StoreInv, VisibleInv, DomainInv, isSeq
<1> QED
  BY <1>1, <1>2 DEF holdsFor, holdsFrom

\* What a client was told about a path holds for its reads.
LEMMA ToldHolds ==
  ASSUME StoreInv, NEW c \in Clients, NEW path, told(c, path) # 0
  PROVE  holdsFor(c, <<path, told(c, path)>>)
<1> DEFINE f == CHOOSE g \in reliable(c) : g[1] = path
<1>1. f \in reliable(c) /\ f[1] = path /\ told(c, path) = f[2]
  BY Zenon DEF told
<1> HIDE DEF f
<1>2. holdsFor(c, f) /\ view[c] \in 1..Len(trees) /\ Len(trees) \in Nat
  BY Zenon, <1>1, ReliableHolds DEF StoreInv, VisibleInv, DomainInv, isSeq
<1>3. f \in facts(trees[view[c]])
  BY <1>2 DEF holdsFor
<1>4. f = <<f[1], f[2]>>
  BY Zenon, <1>3, FactIsPair
<1> QED
  BY Zenon, <1>1, <1>2, <1>4

\* A thread starts an operation.
LEMMA BeginStep ==
  ASSUME StoreInv, NEW t \in Threads, NEW j \in Jobs, begin(t, j), IInv'
  PROVE  StoreInv'
<1> DEFINE n == [op |-> j.op, path |-> j.path, arg |-> j.arg, step |-> firstStep[j.op],
                 version |-> 0, value |-> 0, extras |-> {}, tries |-> maxTries,
                 expect |-> told(Client[t], j.path)]
<1>0. DOMAIN job = Threads /\ DOMAIN result = Threads /\ Client[t] \in Clients
  BY Zenon DEF StoreInv, DomainInv, Clients
<1>1. /\ job' = [job EXCEPT ![t] = n] /\ result' = [result EXCEPT ![t] = None]
      /\ job[t] = None /\ waits[t] = Nobody
      /\ UNCHANGED <<waits, keepers, requests, filled, owner, written>>
      /\ UNCHANGED <<trees, view, records, wire, replies, memory, promised>>
  BY Zenon DEF begin, callVars, storeVars, netVars
<1>2. /\ DOMAIN n = JobFields /\ n.op \in DOMAIN firstStep /\ n.step = firstStep[n.op]
      /\ n.version = 0 /\ n.path = j.path /\ n.expect = told(Client[t], j.path)
  BY Zenon, JobsAssumption DEF JobFields
<1> HIDE DEF n
<1>3. goodJob(n)
  BY <1>2 DEF goodJob, firstStep, Steps
<1>4. \A u \in Threads : job'[u] = IF u = t THEN n ELSE job[u]
  BY Zenon, <1>0, <1>1
<1>5. \A u \in Threads : result'[u] = IF u = t THEN None ELSE result[u]
  BY Zenon, <1>0, <1>1
<1>6. \A u \in Threads : waits'[u] # Nobody =>
        waits[u] # Nobody /\ answersTo(u)' = answersTo(u) /\ job'[u] = job[u]
  BY Zenon, <1>1, <1>4 DEF answersTo
<1>7. DomainInv'
  BY Zenon, <1>1 DEF StoreInv, DomainInv
<1>8. JobInv'
  BY Zenon, <1>1, <1>3, <1>4 DEF StoreInv, JobInv
<1>9. WireInv'
  BY Zenon, <1>1 DEF StoreInv, WireInv
<1>10. RequestInv'
  <2>1. \A u \in Threads : waits'[u] # Nobody => \A id : request(u, id)' = request(u, id)
    BY Zenon, <1>6, SameRequest
  <2>2. wire' = wire /\ waits' = waits /\ RequestInv
    BY Zenon, <1>1 DEF StoreInv
  <2> QED
    BY <2>1, <2>2 DEF RequestInv
<1>11. ExpectInv'
  <2> SUFFICES ASSUME NEW u \in Threads, job'[u] # None, job'[u].expect # 0
               PROVE  \A v \in view[Client[u]]..Len(trees) :
                        <<job'[u].path, job'[u].expect>> \in facts(trees[v])
    BY Zenon, <1>1 DEF ExpectInv, holdsFor
  <2>1. CASE u # t
    BY Zenon, <1>1, <1>4, <2>1 DEF StoreInv, ExpectInv, holdsFor
  <2>2. CASE u = t
    <3>1. holdsFor(Client[t], <<n.path, n.expect>>)
      BY Zenon, <1>0, <1>2, <1>4, <2>2, ToldHolds
    <3> QED
      BY Zenon, <1>1, <1>4, <2>2, <3>1 DEF holdsFor
  <2> QED
    BY Zenon, <2>1, <2>2
<1>12. AnswerInv'
  <2>1. \A u \in Threads : waits'[u] # Nobody => \A d : goodAnswer(u, d) => goodAnswer(u, d)'
    BY Zenon, <1>1, <1>6, SameGoodness DEF storeVars
  <2> QED
    BY Zenon, <1>6, <2>1, AnswersStayGood DEF StoreInv
<1>13. VisibleInv'
  BY Zenon, <1>1 DEF StoreInv, VisibleInv, holdsFrom
<1>14. AckedIsStored' /\ AllocIsStable'
  BY <1>1, <1>5 DEF StoreInv, AckedIsStored, AllocIsStable
<1> QED
  BY Zenon, <1>7, <1>8, <1>9, <1>10, <1>11, <1>12, <1>13, <1>14 DEF StoreInv

\* Only calls and their messages change: operations, stores and histories stay.
OnlyCalls ==
  UNCHANGED <<trees, view, records, job, result, promised>>

\* What does not depend on the calls.
LEMMA CallsOnlyStep ==
  ASSUME StoreInv, OnlyCalls
  PROVE  /\ \A u \in Threads : job[u] # None => goodJob(job'[u])
         /\ ExpectInv' /\ VisibleInv' /\ AckedIsStored' /\ AllocIsStable'
         /\ \A u, d : goodAnswer(u, d) => goodAnswer(u, d)'
         /\ \A u, id : request(u, id)' = request(u, id)
<1>1. UNCHANGED <<trees, view, records, job, result, promised>>
  BY Zenon DEF OnlyCalls
<1>2. \A u \in Threads : job[u] # None => goodJob(job'[u])
  BY Zenon, <1>1 DEF StoreInv, JobInv
<1>3. ExpectInv' /\ VisibleInv'
  BY Zenon, <1>1 DEF StoreInv, ExpectInv, VisibleInv, holdsFor, holdsFrom
<1>4. AckedIsStored' /\ AllocIsStable'
  BY Zenon, <1>1 DEF StoreInv, AckedIsStored, AllocIsStable
<1>5. \A u, d : goodAnswer(u, d) => goodAnswer(u, d)'
  BY Zenon, <1>1, SameGoodness DEF storeVars
<1>6. \A u, id : request(u, id)' = request(u, id)
  BY Zenon, <1>1, SameRequest
<1> QED
  BY Zenon, <1>2, <1>3, <1>4, <1>5, <1>6

\* The thread that waits for the answer to a request made it in its current step.
LEMMA Asker ==
  ASSUME StoreInv, NEW w \in wire, NEW u \in Threads, waits[u] # Nobody, w.id = waits[u].id
  PROVE  /\ w.client = Client[u] /\ job[u] # None /\ job[u].step \in Steps \ {"sync"}
         /\ w.m.fn = IF job[u].step = "appendBatch" THEN "append" ELSE job[u].step
         /\ job[u].step \in {"append", "appendBatch"} =>
              w.m.payload = payloadOf(u, job[u].step)
         /\ job[u].step = "getLogGroup" => w.m = [fn |-> "getLogGroup", path |-> job[u].path]
<1>1. job[u] # None /\ job[u].step \in Steps /\ job[u].step # "sync"
  BY Zenon DEF StoreInv, JobInv, goodJob
<1>2. PICK id : w.m = request(u, id)
  BY Zenon DEF StoreInv, RequestInv
<1>3. w.client = Client[u]
  BY Zenon DEF StoreInv, RequestInv
<1> QED
  BY <1>1, <1>2, <1>3, RequestFn, RequestPayload, RequestPath

\* The store takes a request from the wire and sends its answer to the call it is for.
LEMMA ProcessNet ==
  ASSUME StoreInv, NEW w \in wire, NEW ans, reply(w, ans), wire' = wire \ {w},
         UNCHANGED <<callVars, memory>>
  PROVE  /\ WireInv'
         /\ \A u \in Threads : waits'[u] # Nobody =>
              /\ waits[u] # Nobody
              /\ \A d \in answersTo(u)' :
                   d \in answersTo(u) \/ (d = ans /\ w.id = waits[u].id)
<1>1. UNCHANGED <<waits, requests, filled, memory>>
  BY Zenon DEF callVars
<1>2. PICK r : r = [id |-> w.id, data |-> ans]
  BY Zenon
<1>3. /\ replies' = IF w.id = Nobody THEN replies ELSE replies \cup {r}
      /\ r.id = w.id /\ r.data = ans
  BY Zenon, <1>2 DEF reply
<1>4. WireInv'
  <2>1. \A s \in replies' : s \in replies \/ (s = r /\ r.id # Nobody)
    BY Zenon, <1>3
  <2>2. w.id # Nobody => \A x \in wire' : x.id # w.id
    BY Zenon DEF StoreInv, WireInv
  <2>3. \A s \in replies' : \E c \in requests' : c.id = s.id
    BY Zenon, <1>1, <1>3, <2>1 DEF StoreInv, WireInv
  <2>4. \A s, y \in replies' : s.id = y.id => s = y
    BY <1>3, <2>1 DEF StoreInv, WireInv
  <2>5. \A x \in wire', s \in replies' : x.id # s.id
    BY Zenon, <1>3, <2>1, <2>2 DEF StoreInv, WireInv
  <2> QED
    BY Zenon, <1>1, <2>3, <2>4, <2>5 DEF StoreInv, WireInv
<1>5. \A u \in Threads : waits'[u] # Nobody =>
        /\ waits[u] # Nobody
        /\ \A d \in answersTo(u)' : d \in answersTo(u) \/ (d = ans /\ w.id = waits[u].id)
  <2>1. \A s \in replies' : s \in replies \/ s = r
    BY Zenon, <1>3
  <2> QED
    BY Zenon, <1>1, <1>3, <2>1 DEF answersTo
<1> QED
  BY Zenon, <1>4, <1>5

\* Requests that are left were made by the same steps.
LEMMA ProcessRequests ==
  ASSUME StoreInv, NEW w \in wire, wire' = wire \ {w}, waits' = waits,
         \A u \in Threads : waits[u] # Nobody => \A id : request(u, id)' = request(u, id)
  PROVE  RequestInv'
BY DEF StoreInv, RequestInv

\* The store reads the logs configuration, or makes a new version of it.
LEMMA LogsConfigStep ==
  ASSUME StoreInv, NEW w \in wire, processLogsConfig(w), IInv'
  PROVE  StoreInv'
<1>1. PICK a : a = answer(IF isRead(w.m) THEN trees[view[w.client]] ELSE latest, w.m)
  BY Zenon
<1>2. PICK new : new = IF isRead(w.m) THEN latest ELSE a.tree
  BY Zenon
<1>3. PICK ans : ans = [st |-> a.st, value |-> a.value,
                        version |-> IF isRead(w.m) THEN view[w.client] ELSE Len(trees')]
  BY Zenon
<1>4. /\ isLogsConfig(w.m) /\ reply(w, ans) /\ wire' = wire \ {w}
      /\ trees' = trees \/ trees' = Append(trees, new)
      /\ promised' = [c \in Clients |-> {p \in promised[c] : p[1] \in facts(new)}]
      /\ job' = [t \in Threads |->
                   IF job[t] # None /\ <<job[t].path, job[t].expect>> \notin facts(new)
                   THEN [job[t] EXCEPT !.expect = 0] ELSE job[t]]
      /\ UNCHANGED <<view, records, result>> /\ waits' = waits
      /\ UNCHANGED <<callVars, memory>>
  BY Zenon, <1>1, <1>2, <1>3 DEF processLogsConfig, callVars
<1>5. /\ isSeq(trees') /\ Len(trees) \in Nat /\ Len(trees') \in Nat /\ Len(trees') >= Len(trees)
      /\ \A v \in 1..Len(trees') : v > Len(trees) => trees'[v] = new
      /\ \A v \in 1..Len(trees) : trees'[v] = trees[v]
  <2>1. isSeq(trees) /\ Len(trees) \in Nat
    BY Zenon DEF StoreInv, DomainInv, isSeq
  <2>2. CASE trees' = trees
    BY <2>1, <2>2
  <2>3. CASE trees' = Append(trees, new)
    BY <2>1, <2>3, AppendIs
  <2> QED
    BY Zenon, <1>4, <2>2, <2>3
<1>6. \A c \in Clients : view[c] \in 1..Len(trees)
  BY Zenon DEF StoreInv, VisibleInv
<1>7. \A c \in Clients : \A f \in facts(new) : holdsFor(c, f) => holdsFor(c, f)'
  BY <1>4, <1>5, <1>6 DEF holdsFor
<1>8. \A c \in Clients : \A f \in facts(new) : \A from \in Nat :
        holdsFrom(c, f, from) => holdsFrom(c, f, from)'
  BY <1>4, <1>5, <1>6 DEF holdsFrom
<1>9. ASSUME NEW u \in Threads
      PROVE  IF job[u] = None THEN job'[u] = None
             ELSE /\ goodJob(job'[u]) /\ job'[u] # None
                  /\ job'[u].step = job[u].step /\ job'[u].path = job[u].path
                  /\ job'[u].arg = job[u].arg /\ job'[u].extras = job[u].extras
                  /\ job'[u].value = job[u].value /\ job'[u].version = job[u].version
                  /\ job'[u].expect # 0 => /\ job'[u].expect = job[u].expect
                                           /\ <<job[u].path, job[u].expect>> \in facts(new)
  <2>1. CASE job[u] = None
    BY Zenon, <1>4, <2>1
  <2>2. CASE job[u] # None
    <3>1. goodJob(job[u])
      BY Zenon, <2>2 DEF StoreInv, JobInv
    <3>2. CASE <<job[u].path, job[u].expect>> \in facts(new)
      BY Zenon, <1>4, <2>2, <3>1, <3>2
    <3>3. CASE <<job[u].path, job[u].expect>> \notin facts(new)
      <4>1. PICK k : k = [job[u] EXCEPT !.expect = 0]
        BY Zenon
      <4>2. /\ DOMAIN k = JobFields /\ k.op = job[u].op /\ k.step = job[u].step
            /\ k.path = job[u].path /\ k.arg = job[u].arg /\ k.extras = job[u].extras
            /\ k.value = job[u].value /\ k.version = job[u].version /\ k.expect = 0
        BY Zenon, <3>1, <4>1 DEF goodJob, JobFields
      <4>3. job'[u] = k
        BY Zenon, <1>4, <2>2, <3>3, <4>1
      <4>4. goodJob(k)
        BY Zenon, <3>1, <4>2 DEF goodJob
      <4>5. k # None
        BY <4>4 DEF goodJob, None, firstStep
      <4> QED
        BY Zenon, <2>2, <4>2, <4>3, <4>4, <4>5
    <3> QED
      BY Zenon, <3>2, <3>3
  <2> QED
    BY Zenon, <2>1, <2>2
<1>10. /\ WireInv'
      /\ \A u \in Threads : waits'[u] # Nobody =>
           /\ waits[u] # Nobody
           /\ \A d \in answersTo(u)' : d \in answersTo(u) \/ (d = ans /\ w.id = waits[u].id)
  BY Zenon, <1>4, ProcessNet
<1>11. \A u \in Threads : waits[u] # Nobody => job[u] # None
  BY Zenon DEF StoreInv, JobInv
<1>12. DomainInv'
  BY Zenon, <1>4, <1>5 DEF StoreInv, DomainInv
<1>13. JobInv'
  BY <1>4, <1>9 DEF StoreInv, JobInv
<1>14. RequestInv'
  <2>1. \A u \in Threads : waits[u] # Nobody => \A id : request(u, id)' = request(u, id)
    BY Zenon, <1>9, <1>11, SameRequest
  <2> QED
    BY Zenon, <1>4, <2>1, ProcessRequests
<1>15. ExpectInv'
  <2> SUFFICES ASSUME NEW u \in Threads, job'[u] # None, job'[u].expect # 0
               PROVE  \A v \in view[Client[u]]..Len(trees') :
                        <<job'[u].path, job'[u].expect>> \in facts(trees'[v])
    BY Zenon, <1>4 DEF ExpectInv, holdsFor
  <2>1. PICK f : f = <<job[u].path, job[u].expect>>
    BY Zenon
  <2>2. /\ job[u] # None /\ job[u].expect # 0 /\ f \in facts(new)
        /\ <<job'[u].path, job'[u].expect>> = f
    BY Zenon, <1>9, <2>1
  <2>3. Client[u] \in Clients /\ holdsFor(Client[u], f)
    BY Zenon, <2>1, <2>2 DEF StoreInv, ExpectInv, Clients
  <2>4. holdsFor(Client[u], f)'
    BY Zenon, <1>7, <2>2, <2>3
  <2> QED
    BY Zenon, <1>4, <2>2, <2>4 DEF holdsFor
<1>16. AnswerInv'
  <2> SUFFICES ASSUME NEW u \in Threads, waits[u] # Nobody, NEW d \in answersTo(u)'
               PROVE  goodAnswer(u, d)'
    BY Zenon, <1>4 DEF AnswerInv
  <2>1. CASE d \in answersTo(u)
    <3>1. goodAnswer(u, d)
      BY Zenon, <2>1 DEF StoreInv, AnswerInv
    <3> QED
      BY Zenon, <1>4, <1>9, <1>11, <3>1 DEF goodAnswer
  <2>2. CASE d = ans /\ w.id = waits[u].id
    <3>1. /\ w.client = Client[u] /\ Client[u] \in Clients
          /\ job[u].step \notin {"append", "appendBatch"}
          /\ w.m.fn = job[u].step
      BY Zenon, <1>4, <2>2, Asker DEF isLogsConfig, Clients
    <3>2. d.version \in Nat /\ (isRead(w.m) => d.version = view[Client[u]])
      BY <1>3, <1>5, <1>6, <2>2, <3>1
    <3>3. job[u].step \in {"getDirectory", "getLogGroup", "getLogGroupById"} => isRead(w.m)
      BY Zenon, <3>1 DEF isRead
    <3>4. ASSUME job[u].step = "getLogGroup", job'[u].expect # 0
          PROVE  d.st = "OK" /\ d.value = job[u].expect
      <4>1. w.m = [fn |-> "getLogGroup", path |-> job[u].path]
        BY Zenon, <2>2, <3>4, Asker
      <4>2. PICK tree : tree = trees[view[Client[u]]]
        BY Zenon
      <4>3. a = getLogGroup(tree, w.m)
        BY Zenon, <1>1, <3>1, <3>3, <3>4, <4>1, <4>2 DEF answer
      <4>4. job[u].expect # 0 /\ holdsFor(Client[u], <<job[u].path, job[u].expect>>)
        BY Zenon, <1>9, <1>11, <3>4 DEF StoreInv, ExpectInv
      <4>5. <<job[u].path, job[u].expect>> \in facts(tree)
        BY <1>5, <1>6, <3>1, <4>2, <4>4 DEF holdsFor
      <4>6. job[u].path \in DOMAIN tree.logs /\ tree.logs[job[u].path] = job[u].expect
        BY Zenon, <4>4, <4>5, FactOfGroup
      <4>7. a.st = "OK" /\ a.value = job[u].expect
        BY <4>1, <4>3, <4>6 DEF getLogGroup, accept
      <4> QED
        BY Zenon, <1>3, <2>2, <4>7
    <3>5. /\ job'[u].step = job[u].step
          /\ job'[u].expect # 0 => job'[u].expect = job[u].expect
      BY Zenon, <1>9, <1>11
    <3>6. view' = view /\ \A c \in Clients : view[c] \in Nat
      BY <1>4, <1>5, <1>6
    <3> QED
      BY <3>1, <3>2, <3>3, <3>4, <3>5, <3>6 DEF goodAnswer
  <2> QED
    BY Zenon, <1>4, <1>10, <2>1, <2>2
<1>17. VisibleInv'
  <2>1. \A c \in Clients : view'[c] \in 1..Len(trees')
    BY <1>4, <1>5, <1>6
  <2>2. \A c \in Clients : \A p \in promised'[c] : p \in promised[c] /\ p[1] \in facts(new)
    BY Zenon, <1>4
  <2>3. \A c \in Clients : \A p \in promised'[c] : p[2] \in Nat /\ holdsFrom(c, p[1], p[2])'
    BY Zenon, <1>8, <2>2 DEF StoreInv, VisibleInv
  <2> QED
    BY Zenon, <2>1, <2>3 DEF VisibleInv
<1>18. AckedIsStored' /\ AllocIsStable'
  BY Zenon, <1>4 DEF StoreInv, AckedIsStored, AllocIsStable
<1> QED
  BY Zenon, <1>10, <1>12, <1>13, <1>14, <1>15, <1>16, <1>17, <1>18 DEF StoreInv

\* One thread waits for a call.
LEMMA OneAsker ==
  ASSUME IInv, NEW u \in Threads, NEW v \in Threads, waits[u] # Nobody, waits[v] # Nobody,
         waits[u].id = waits[v].id
  PROVE  u = v
<1>1. /\ waits[u] \in Calls /\ Held(waits[u])
      /\ waits[v] \in Calls /\ Held(waits[v])
  BY DEF IInv, CallsTypeOK, Held
<1>2. waits[u] = waits[v]
  BY Zenon, <1>1 DEF IInv
<1> QED
  BY Zenon, <1>2 DEF IInv

\* A record is stored; the log only grows.
LEMMA AppendStep ==
  ASSUME StoreInv, NEW w \in wire, processAppend(w), IInv'
  PROVE  StoreInv'
<1>0. PICK ans : ans = appended(w.m)
  BY Zenon
<1>1. /\ w.m.fn = "append" /\ records' = Append(records, w.m.payload)
      /\ reply(w, ans) /\ wire' = wire \ {w} /\ UNCHANGED <<callVars, memory>>
      /\ UNCHANGED <<trees, view, job, result, promised>> /\ waits' = waits
  BY Zenon, <1>0 DEF processAppend, callVars
<1>2. /\ isSeq(records') /\ Len(records') = Len(records) + 1 /\ Len(records) \in Nat
      /\ \A i \in 1..Len(records) : records'[i] = records[i]
      /\ records'[Len(records) + 1] = w.m.payload
  BY <1>1, AppendIs DEF StoreInv, DomainInv, isSeq
<1>3. /\ WireInv'
      /\ \A u \in Threads : waits'[u] # Nobody =>
           /\ waits[u] # Nobody
           /\ \A d \in answersTo(u)' : d \in answersTo(u) \/ (d = ans /\ w.id = waits[u].id)
  BY Zenon, <1>1, ProcessNet
<1>4. DomainInv' /\ JobInv'
  BY Zenon, <1>1, <1>2 DEF StoreInv, DomainInv, JobInv
<1>5. RequestInv'
  <2>1. \A u \in Threads : \A id : request(u, id)' = request(u, id)
    BY Zenon, <1>1, SameRequest
  <2> QED
    BY Zenon, <1>1, <2>1, ProcessRequests
<1>6. ExpectInv' /\ VisibleInv'
  BY Zenon, <1>1 DEF StoreInv, ExpectInv, VisibleInv, holdsFor, holdsFrom
<1>7. ans.version = 0 /\ ans.value = Len(records) + 1
  BY Zenon, <1>0 DEF appended
<1>8. AnswerInv'
  <2> SUFFICES ASSUME NEW u \in Threads, waits'[u] # Nobody, NEW d \in answersTo(u)'
               PROVE  goodAnswer(u, d)'
    BY Zenon DEF AnswerInv
  <2>1. CASE d \in answersTo(u)
    <3>1. goodAnswer(u, d)
      BY Zenon, <1>1, <2>1 DEF StoreInv, AnswerInv
    <3> QED
      BY <1>1, <1>2, <3>1 DEF goodAnswer
  <2>2. CASE d = ans /\ w.id = waits[u].id
    <3>1. /\ job[u].step \in {"append", "appendBatch"}
          /\ w.m.payload = payloadOf(u, job[u].step)
      BY Zenon, <1>1, <2>2, Asker DEF Steps
    <3> QED
      BY <1>1, <1>2, <1>7, <2>2, <3>1 DEF goodAnswer
  <2> QED
    BY Zenon, <1>3, <2>1, <2>2
<1>9. AckedIsStored' /\ AllocIsStable'
  BY <1>1, <1>2 DEF StoreInv, AckedIsStored, AllocIsStable
<1> QED
  BY Zenon, <1>3, <1>4, <1>5, <1>6, <1>8, <1>9 DEF StoreInv

\* withAsync: a new request, under an id and with a buffer that nobody uses.
LEMMA PostStep ==
  ASSUME StoreInv, NEW t \in Threads, post(t), IInv'
  PROVE  StoreInv'
<1>1. PICK id \in lowest(Ids \ used), buf \in lowest({b \in Buffers : owner[b] = Nobody}),
           logid \in LogIds \cup {0} :
        /\ submit(t, id, buf)
        /\ wire' = wire \cup {[id |-> id, client |-> Client[t], m |-> request(t, logid)]}
        /\ memory' = [memory EXCEPT ![buf] = pending]
  BY Zenon DEF post
<1>2. PICK n : n = [id |-> id, buf |-> buf]
  BY Zenon
<1>3. PICK x : x = [id |-> id, client |-> Client[t], m |-> request(t, logid)]
  BY Zenon
<1>4. /\ id \in Ids /\ id \notin used /\ id # Nobody /\ buf \in Buffers /\ owner[buf] = Nobody
      /\ n.id = id /\ n.buf = buf /\ n # Nobody
  BY <1>2, CallsAssumption DEF lowest
<1>5. /\ OnlyCalls /\ job' = job /\ replies' = replies
      /\ job[t] # None /\ job[t].step # "sync"
  BY Zenon DEF post, storeVars, OnlyCalls
<1>6. /\ waits[t] = Nobody /\ waits' = [waits EXCEPT ![t] = n]
      /\ requests' = requests \cup {n} /\ filled' = filled
  BY Zenon, <1>1, <1>2 DEF submit
<1>7. \A u \in Threads : waits'[u] = IF u = t THEN n ELSE waits[u]
  <2>1. DOMAIN waits = Threads
    BY Zenon DEF StoreInv, IInv, CallsTypeOK
  <2> QED
    BY Zenon, <1>6, <2>1
<1>8. /\ ExpectInv' /\ VisibleInv' /\ AckedIsStored' /\ AllocIsStable'
      /\ \A u, d : goodAnswer(u, d) => goodAnswer(u, d)'
      /\ \A u, i : request(u, i)' = request(u, i)
  BY Zenon, <1>5, CallsOnlyStep
<1>9. /\ \A c \in requests : c.id # id /\ c.id # Nobody
      /\ id \notin filled
      /\ \A u \in Threads : waits[u] # Nobody => waits[u].id # id /\ waits[u].id # Nobody
  BY <1>4, CallsAssumption DEF used, StoreInv, IInv, CallsTypeOK, Calls
<1>10. (\A r \in replies : r.id # id) /\ (\A w \in wire : w.id # id)
  BY <1>4, <1>9 DEF StoreInv, WireInv
<1>11. ASSUME NEW u \in Threads, waits'[u] # Nobody
       PROVE  IF u = t THEN answersTo(u)' = {}
              ELSE waits[u] # Nobody /\ answersTo(u)' = answersTo(u)
  <2>1. CASE u = t
    <3>1. waits'[u].id = id
      BY Zenon, <1>4, <1>7, <2>1
    <3>2. {r \in replies : r.id = waits'[u].id} = {}
      BY Zenon, <1>10, <3>1
    <3> QED
      BY Zenon, <1>5, <1>6, <1>9, <2>1, <3>1, <3>2 DEF answersTo
  <2>2. CASE u # t
    <3>1. waits[u] # Nobody /\ waits'[u] = waits[u]
      BY Zenon, <1>7, <1>11, <2>2
    <3>2. waits[u] \in Calls /\ Held(waits[u])
      BY Zenon, <3>1 DEF StoreInv, IInv, CallsTypeOK, Held
    <3>3. owner[waits[u].buf] = waits[u].id
      BY Zenon, <3>2 DEF StoreInv, IInv
    <3>4. waits[u].buf # buf
      BY Zenon, <1>4, <1>9, <3>1, <3>3
    <3>5. memory'[waits[u].buf] = memory[waits[u].buf]
      BY <1>1, <3>4
    <3> QED
      BY <1>5, <1>6, <2>2, <3>1, <3>5 DEF answersTo
  <2> QED
    BY Zenon, <2>1, <2>2
<1>12. DomainInv'
  BY Zenon, <1>1, <1>5 DEF StoreInv, DomainInv, OnlyCalls
<1>13. JobInv'
  BY Zenon, <1>5, <1>7 DEF StoreInv, JobInv
<1>14. wire' = wire \cup {x} /\ x.id = id /\ x.client = Client[t] /\ x.m = request(t, logid)
       /\ DOMAIN x = {"id", "client", "m"}
  BY Zenon, <1>1, <1>3
<1>15. WireInv'
  <2>1. n \in requests' /\ requests \subseteq requests'
    BY Zenon, <1>6
  <2>2. \A r \in replies' : \E c \in requests' : c.id = r.id
    BY Zenon, <1>5, <2>1 DEF StoreInv, WireInv
  <2>3. \A w \in wire' : w.id # Nobody => \E c \in requests' : c.id = w.id
    BY Zenon, <1>4, <1>14, <2>1 DEF StoreInv, WireInv
  <2>4. \A w, y \in wire' : w.id # Nobody /\ w.id = y.id => w = y
    BY Zenon, <1>10, <1>14 DEF StoreInv, WireInv
  <2>5. \A w \in wire', r \in replies' : w.id # r.id
    BY Zenon, <1>5, <1>10, <1>14 DEF StoreInv, WireInv
  <2> QED
    BY Zenon, <1>5, <1>14, <2>2, <2>3, <2>4, <2>5 DEF StoreInv, WireInv
<1>16. RequestInv'
  <2> SUFFICES ASSUME NEW u \in Threads, NEW w \in wire', waits'[u] # Nobody,
                      w.id = waits'[u].id
               PROVE  w.client = Client[u] /\ \E i \in LogIds \cup {0} : w.m = request(u, i)
    BY Zenon, <1>8 DEF RequestInv
  <2>1. CASE u = t
    <3>1. w = x
      BY Zenon, <1>4, <1>7, <1>10, <1>14, <2>1
    <3> QED
      BY Zenon, <1>14, <2>1, <3>1
  <2>2. CASE u # t
    <3>1. waits'[u] = waits[u] /\ w \in wire
      BY Zenon, <1>7, <1>9, <1>14, <2>2
    <3> QED
      BY Zenon, <3>1 DEF StoreInv, RequestInv
  <2> QED
    BY Zenon, <2>1, <2>2
<1>17. AnswerInv'
  BY Zenon, <1>8, <1>11 DEF StoreInv, AnswerInv
<1> QED
  BY Zenon, <1>8, <1>12, <1>13, <1>15, <1>16, <1>17 DEF StoreInv

\* Calls that somebody waits for differ in their ids and in their buffers.
LEMMA HeldApart ==
  ASSUME IInv, NEW c \in Calls, Held(c), NEW u \in Threads, waits[u] # Nobody, waits[u] # c
  PROVE  waits[u].id # c.id /\ waits[u].buf # c.buf
<1>1. waits[u] \in Calls /\ Held(waits[u])
  BY DEF IInv, CallsTypeOK, Held
<1>2. waits[u].id # c.id
  BY Zenon, <1>1 DEF IInv
<1>3. owner[waits[u].buf] = waits[u].id /\ owner[c.buf] = c.id
  BY Zenon, <1>1 DEF IInv
<1> QED
  BY Zenon, <1>2, <1>3

\* The callback of a call runs with the outcome it was sent.
LEMMA RespondStep ==
  ASSUME StoreInv, NEW c \in requests, NEW r \in replies, respond(c, r), IInv'
  PROVE  StoreInv'
<1>0. c \in Calls /\ Held(c) /\ c.buf \in Buffers /\ c.id \in Ids
  BY Zenon DEF StoreInv, IInv, CallsTypeOK, Calls
<1>1. /\ OnlyCalls /\ r.id = c.id
      /\ UNCHANGED <<waits, wire>> /\ job' = job
      /\ requests' = requests \ {c} /\ filled' = filled \cup {c.id}
      /\ memory' = [memory EXCEPT ![c.buf] = r.data] /\ replies' = replies \ {r}
  BY Zenon DEF respond, callback, cb_data, storeVars, OnlyCalls
<1>2. /\ ExpectInv' /\ VisibleInv' /\ AckedIsStored' /\ AllocIsStable'
      /\ \A u, d : goodAnswer(u, d) => goodAnswer(u, d)'
      /\ \A u, id : request(u, id)' = request(u, id)
  BY Zenon, <1>1, CallsOnlyStep
<1>3. ASSUME NEW u \in Threads, waits'[u] # Nobody
      PROVE  waits[u] # Nobody /\ answersTo(u)' \subseteq answersTo(u)
  <2>1. DOMAIN memory = Buffers
    BY Zenon DEF StoreInv, DomainInv
  <2>2. CASE waits[u] = c
    <3>1. memory'[c.buf] = r.data
      BY Zenon, <1>0, <1>1, <2>1
    <3>2. r.data \in answersTo(u)
      BY Zenon, <1>1, <2>2 DEF answersTo
    <3> QED
      BY Zenon, <1>1, <1>3, <2>2, <3>1, <3>2 DEF answersTo
  <2>3. CASE waits[u] # c
    <3>1. waits[u].id # c.id /\ waits[u].buf # c.buf
      BY Zenon, <1>0, <1>1, <1>3, <2>3, HeldApart DEF StoreInv
    <3>2. memory'[waits[u].buf] = memory[waits[u].buf]
      BY <1>1, <3>1
    <3> QED
      BY Zenon, <1>1, <1>3, <3>1, <3>2 DEF answersTo
  <2> QED
    BY Zenon, <2>2, <2>3
<1>4. DomainInv' /\ JobInv'
  BY Zenon, <1>1 DEF StoreInv, DomainInv, JobInv, OnlyCalls
<1>5. WireInv'
  <2>1. \A x \in replies' : x \in replies /\ x.id # c.id
    BY Zenon, <1>1 DEF StoreInv, WireInv
  <2>2. \A w \in wire : w.id # c.id
    BY Zenon, <1>1 DEF StoreInv, WireInv
  <2>3. \A d \in requests : d.id # c.id => d \in requests'
    BY Zenon, <1>1
  <2> QED
    BY <1>1, <2>1, <2>2, <2>3 DEF StoreInv, WireInv
<1>6. RequestInv'
  BY Zenon, <1>1, <1>2 DEF StoreInv, RequestInv
<1>7. AnswerInv'
  BY Zenon, <1>2, <1>3, AnswersStayGood DEF StoreInv
<1> QED
  BY Zenon, <1>2, <1>4, <1>5, <1>6, <1>7 DEF StoreInv

\* The client gives up: the callback runs with TIMEDOUT, the request is nobody's.
LEMMA TimeoutStep ==
  ASSUME StoreInv, NEW c \in requests, timeout(c), IInv'
  PROVE  StoreInv'
<1> DEFINE e == [pending EXCEPT !.st = "TIMEDOUT"]
           nobodys(w) == IF w.id = c.id THEN [w EXCEPT !.id = Nobody] ELSE w
<1>0. /\ c \in Calls /\ Held(c) /\ c.buf \in Buffers /\ c.id \in Ids /\ c.id # Nobody
      /\ c.id \notin filled
  BY CallsAssumption DEF StoreInv, IInv, CallsTypeOK, Calls
<1>1. /\ OnlyCalls
      /\ waits' = waits /\ job' = job
      /\ requests' = requests \ {c} /\ filled' = filled \cup {c.id}
      /\ memory' = [memory EXCEPT ![c.buf] = e]
      /\ replies' = {r \in replies : r.id # c.id}
      /\ wire' = {nobodys(w) : w \in wire}
  BY Zenon DEF timeout, callback, cb_data, storeVars, OnlyCalls
<1>2. /\ ExpectInv' /\ VisibleInv' /\ AckedIsStored' /\ AllocIsStable'
      /\ \A u, d : goodAnswer(u, d) => goodAnswer(u, d)'
      /\ \A u, id : request(u, id)' = request(u, id)
  BY Zenon, <1>1, CallsOnlyStep
<1>3. \A w \in wire : IF w.id = c.id THEN nobodys(w).id = Nobody /\ nobodys(w).m = w.m
                                         /\ DOMAIN nobodys(w) = {"id", "client", "m"}
                     ELSE nobodys(w) = w
  BY Zenon DEF StoreInv, WireInv
<1>4. e.st = "TIMEDOUT" /\ e.version = 0
  BY Zenon DEF pending
<1> HIDE DEF e, nobodys
<1>5. ASSUME NEW u \in Threads, waits'[u] # Nobody, NEW d \in answersTo(u)'
      PROVE  d \in answersTo(u) \/ d = e
  <2>1. DOMAIN memory = Buffers
    BY Zenon DEF StoreInv, DomainInv
  <2>2. CASE waits[u] = c
    <3>1. memory'[c.buf] = e
      BY Zenon, <1>0, <1>1, <2>1
    <3> QED
      BY Zenon, <1>1, <1>5, <2>2, <3>1 DEF answersTo
  <2>3. CASE waits[u] # c
    <3>1. IInv /\ waits[u] # Nobody
      BY Zenon, <1>1, <1>5 DEF StoreInv
    <3>2. waits[u].id # c.id /\ waits[u].buf # c.buf
      BY Zenon, <1>0, <2>3, <3>1, HeldApart
    <3>3. memory'[waits[u].buf] = memory[waits[u].buf]
      BY <1>1, <3>2
    <3>4. waits' = waits /\ replies' \subseteq replies /\ filled' = filled \cup {c.id}
      BY Zenon, <1>1
    <3> QED
      BY Zenon, <1>5, <3>2, <3>3, <3>4 DEF answersTo
  <2> QED
    BY Zenon, <2>2, <2>3
<1>6. DomainInv' /\ JobInv'
  BY Zenon, <1>1 DEF StoreInv, DomainInv, JobInv, OnlyCalls
<1>7. \A w \in wire' : \/ w \in wire /\ w.id # c.id
                       \/ w.id = Nobody /\ DOMAIN w = {"id", "client", "m"}
  BY Zenon, <1>1, <1>3
<1>8. \A w \in wire' : \E x \in wire : w.m = x.m
  BY Zenon, <1>1, <1>3
<1>9. WireInv'
  <2>1. \A d \in requests : d.id \in Ids /\ (d.id # c.id => d \in requests')
    BY Zenon, <1>1 DEF StoreInv, IInv, CallsTypeOK, Calls
  <2>2. \A r \in replies' : r \in replies /\ r.id # c.id /\ r.id # Nobody
    BY <1>1, <2>1, CallsAssumption DEF StoreInv, WireInv
  <2> QED
    BY Zenon, <1>7, <2>1, <2>2 DEF StoreInv, WireInv
<1>10. RequestInv'
  <2> SUFFICES ASSUME NEW u \in Threads, NEW w \in wire', waits[u] # Nobody, w.id = waits[u].id
               PROVE  w.client = Client[u] /\ \E id \in LogIds \cup {0} : w.m = request(u, id)
    BY Zenon, <1>1, <1>2 DEF RequestInv
  <2>1. w.id # Nobody
    BY CallsAssumption DEF StoreInv, IInv, CallsTypeOK, Calls
  <2>2. w \in wire
    BY Zenon, <1>7, <2>1
  <2> QED
    BY Zenon, <2>2 DEF StoreInv, RequestInv
<1>11. AnswerInv'
  <2> SUFFICES ASSUME NEW u \in Threads, waits'[u] # Nobody, NEW d \in answersTo(u)'
               PROVE  goodAnswer(u, d)'
    BY Zenon DEF AnswerInv
  <2>1. CASE d \in answersTo(u)
    BY Zenon, <1>1, <1>2, <2>1 DEF StoreInv, AnswerInv
  <2>2. CASE d = e
    <3>1. view[Client[u]] \in 1..Len(trees) /\ Len(trees) \in Nat
      BY Zenon DEF StoreInv, VisibleInv, Clients, DomainInv, isSeq
    <3>2. goodAnswer(u, e)
      BY <1>4, <3>1 DEF goodAnswer
    <3> QED
      BY Zenon, <1>2, <2>2, <3>2
  <2> QED
    BY Zenon, <1>5, <2>1, <2>2
<1> QED
  BY Zenon, <1>2, <1>6, <1>9, <1>10, <1>11 DEF StoreInv

\* The forked thread lets go of a buffer.
LEMMA KeeperStep ==
  ASSUME StoreInv, NEW c \in keepers, keeperDone(c), IInv'
  PROVE  StoreInv'
<1>1. /\ OnlyCalls
      /\ UNCHANGED <<waits, requests, wire, replies, memory>>
      /\ filled' \subseteq filled
      /\ job' = job
  BY Zenon DEF keeperDone, letGo, storeVars, netVars, OnlyCalls
<1>2. /\ ExpectInv' /\ VisibleInv' /\ AckedIsStored' /\ AllocIsStable'
      /\ \A u, d : goodAnswer(u, d) => goodAnswer(u, d)'
      /\ \A u, id : request(u, id)' = request(u, id)
  BY Zenon, <1>1, CallsOnlyStep
<1>3. \A u \in Threads : waits'[u] # Nobody =>
        waits[u] # Nobody /\ answersTo(u)' \subseteq answersTo(u)
  BY Zenon, <1>1 DEF answersTo
<1>4. DomainInv' /\ JobInv' /\ WireInv'
  BY Zenon, <1>1 DEF StoreInv, DomainInv, JobInv, WireInv, OnlyCalls
<1>5. RequestInv'
  BY Zenon, <1>1, <1>2 DEF StoreInv, RequestInv
<1>6. AnswerInv'
  BY Zenon, <1>2, <1>3, AnswersStayGood DEF StoreInv
<1> QED
  BY Zenon, <1>2, <1>4, <1>5, <1>6 DEF StoreInv

\* A client learns of a later version.
LEMMA CatchUpStep ==
  ASSUME StoreInv, NEW c \in Clients, catchUp(c), IInv'
  PROVE  StoreInv'
<1>1. /\ view' = [view EXCEPT ![c] = @ + 1] /\ view[c] < Len(trees)
      /\ UNCHANGED <<waits, keepers, requests, filled, owner, written>>
      /\ UNCHANGED <<trees, records, wire, replies, memory, job, result, promised>>
  BY Zenon DEF catchUp, callVars, netVars
<1>2. \A d \in Clients : view[d] \in 1..Len(trees) /\ Len(trees) \in Nat
  BY Zenon DEF StoreInv, VisibleInv, DomainInv, isSeq
<1>3. \A d \in Clients : view'[d] \in 1..Len(trees) /\ view'[d] >= view[d]
  BY <1>1, <1>2 DEF StoreInv, DomainInv
<1>4. \A d \in Clients : \A f : holdsFor(d, f) => holdsFor(d, f)'
  BY <1>1, <1>2, <1>3 DEF holdsFor
<1>5. \A d \in Clients : \A f : \A from \in Nat : holdsFrom(d, f, from) => holdsFrom(d, f, from)'
  BY <1>1, <1>2, <1>3 DEF holdsFrom
<1>6. \A u \in Threads : answersTo(u)' = answersTo(u) /\ Client[u] \in Clients
  BY Zenon, <1>1 DEF answersTo, Clients
<1>7. DomainInv' /\ JobInv' /\ WireInv'
  <2>1. DomainInv'
    BY Zenon, <1>1 DEF StoreInv, DomainInv
  <2>2. JobInv'
    BY Zenon, <1>1 DEF StoreInv, JobInv
  <2>3. WireInv'
    BY Zenon, <1>1 DEF StoreInv, WireInv
  <2> QED
    BY Zenon, <2>1, <2>2, <2>3
<1>8. RequestInv'
  <2>1. \A u, id : request(u, id)' = request(u, id)
    BY Zenon, <1>1, SameRequest
  <2> QED
    BY Zenon, <1>1, <2>1 DEF StoreInv, RequestInv
<1>9. ExpectInv'
  BY Zenon, <1>1, <1>4, <1>6 DEF StoreInv, ExpectInv
<1>10. AnswerInv'
  <2>1. job' = job /\ records' = records
    BY Zenon, <1>1
  <2>2. \A u \in Threads : /\ view[Client[u]] \in Nat /\ view'[Client[u]] \in Nat
                           /\ view'[Client[u]] >= view[Client[u]]
    BY <1>2, <1>3, <1>6
  <2>3. \A u \in Threads : \A d : goodAnswer(u, d) => goodAnswer(u, d)'
    BY <2>1, <2>2 DEF goodAnswer
  <2> QED
    BY Zenon, <1>1, <1>6, <2>3, AnswersStayGood DEF StoreInv
<1>11. VisibleInv'
  <2>1. trees' = trees /\ promised' = promised
    BY Zenon, <1>1
  <2> QED
    BY Zenon, <1>3, <1>5, <2>1 DEF StoreInv, VisibleInv
<1>12. AckedIsStored' /\ AllocIsStable'
  BY Zenon, <1>1 DEF StoreInv, AckedIsStored, AllocIsStable
<1> QED
  BY Zenon, <1>7, <1>8, <1>9, <1>10, <1>11, <1>12 DEF StoreInv

-----------------------------------------------------------------------------
\* Every step of a thread, of the store and of a callback keeps the invariant.
LEMMA NextStore == StoreInv /\ [Next]_vars => StoreInv'
<1> SUFFICES ASSUME StoreInv, [Next]_vars PROVE StoreInv'
  BY Zenon
<1>0. IInv'
  BY Zenon, StepIsACall, NextIInv DEF StoreInv
<1>1. CASE UNCHANGED vars
  <2>1. /\ UNCHANGED <<waits, requests, filled, wire, replies, memory>> /\ OnlyCalls
        /\ job' = job
    BY Zenon, <1>1 DEF vars, callVars, storeVars, netVars, OnlyCalls
  <2>2. /\ ExpectInv' /\ VisibleInv' /\ AckedIsStored' /\ AllocIsStable'
        /\ \A u, d : goodAnswer(u, d) => goodAnswer(u, d)'
        /\ \A u, id : request(u, id)' = request(u, id)
    BY Zenon, <2>1, CallsOnlyStep
  <2>3. \A u \in Threads : waits'[u] # Nobody =>
          waits[u] # Nobody /\ answersTo(u)' \subseteq answersTo(u)
    BY Zenon, <2>1 DEF answersTo
  <2>4. DomainInv' /\ JobInv' /\ WireInv'
    BY Zenon, <2>1 DEF StoreInv, DomainInv, JobInv, WireInv, OnlyCalls
  <2>5. RequestInv'
    BY Zenon, <2>1, <2>2 DEF StoreInv, RequestInv
  <2>6. AnswerInv'
    BY Zenon, <2>2, <2>3, AnswersStayGood DEF StoreInv
  <2> QED
    BY Zenon, <1>0, <2>2, <2>4, <2>5, <2>6 DEF StoreInv
<1>2. ASSUME NEW w \in wire, processLogsConfig(w) PROVE StoreInv'
  BY Zenon, <1>0, <1>2, LogsConfigStep
<1>3. ASSUME NEW w \in wire, processAppend(w) PROVE StoreInv'
  BY Zenon, <1>0, <1>3, AppendStep
<1>4. ASSUME NEW c \in Clients, catchUp(c) PROVE StoreInv'
  BY Zenon, <1>0, <1>4, CatchUpStep
<1>5. ASSUME NEW c \in requests, timeout(c) PROVE StoreInv'
  BY Zenon, <1>0, <1>5, TimeoutStep
<1>6. ASSUME NEW c \in requests, NEW r \in replies, respond(c, r) PROVE StoreInv'
  BY Zenon, <1>0, <1>6, RespondStep
<1>7. ASSUME NEW c \in keepers, keeperDone(c) PROVE StoreInv'
  BY Zenon, <1>0, <1>7, KeeperStep
<1>8. ASSUME NEW t \in Threads, NEW j \in Jobs, begin(t, j) PROVE StoreInv'
  BY Zenon, <1>0, <1>8, BeginStep
<1>9. ASSUME NEW t \in Threads, post(t) PROVE StoreInv'
  BY Zenon, <1>0, <1>9, PostStep
<1>10. ASSUME NEW t \in Threads, wake(t) PROVE StoreInv'
  BY Zenon, <1>0, <1>10, WakeStep
<1>11. ASSUME NEW t \in Threads, \/ refused(t) \/ interrupted(t)
                                 \/ syncTimesOut(t) \/ syncSkipped(t)
                                 \/ ld_client_sync_logsconfig_version(t)
       PROVE  StoreInv'
  BY Zenon, <1>0, <1>11, ThrowStep
<1> QED
  BY Zenon, <1>1, <1>2, <1>3, <1>4, <1>5, <1>6, <1>7, <1>8, <1>9, <1>10, <1>11
     DEF Next

\* The inductive invariant of the stream operations, for any number of servers, threads
\* and operations.
THEOREM StoreInvariance == Spec => []StoreInv
<1> QED
  BY InitStore, NextStore, PTL DEF Spec

\* What createStream, createStreamPartition or allocCheckpointId reported as created is
\* there for the client's later reads until somebody removes or renames it: the
\* operations return only when syncLogsConfigVersion has seen the version they made, and
\* where it returned early for LOGS_SECTION_MISSING the view has yet to reach it.
THEOREM CreatedStaysVisible == Spec => []CreatedIsVisible
<1>1. ASSUME StoreInv PROVE CreatedIsVisible
  <2> SUFFICES ASSUME NEW c \in Clients, NEW f \in reliable(c) PROVE f \in facts(trees[view[c]])
    BY Zenon DEF CreatedIsVisible
  <2>1. holdsFor(c, f)
    BY Zenon, <1>1, ReliableHolds
  <2> QED
    BY <1>1, <2>1 DEF StoreInv, DomainInv, isSeq, VisibleInv, holdsFor
<1> QED
  BY <1>1, StoreInvariance, PTL

\* allocCheckpointId gives the same id again while nobody frees it, however many servers
\* allocate, whatever ids clash and whatever calls time out or are interrupted.
THEOREM AllocStaysStable == Spec => []AllocIsStable
<1>1. StoreInv => AllocIsStable
  BY Zenon DEF StoreInv
<1> QED
  BY <1>1, StoreInvariance, PTL

\* An append that returned an LSN is stored there with its caller's payload
\* (_append_payload_async, APPEND_BATCH).
THEOREM AppendsAreStored == Spec => []AckedIsStored
<1>1. StoreInv => AckedIsStored
  BY Zenon DEF StoreInv
<1> QED
  BY <1>1, StoreInvariance, PTL

=============================================================================
