------------------------- MODULE StoreClientProofs -------------------------
(***************************************************************************)
(* The client side of the store.  The first part is about StoreCalls, for  *)
(* any number of threads, calls and buffers: a callback never writes to a  *)
(* buffer that was given up, and a thread never reads what another call's  *)
(* callback wrote.  The second part has the inductive invariant StoreInv   *)
(* of StreamStore and what the steps of a stream operation keep of it; the *)
(* steps of the stores follow in StreamStoreProofs.                        *)
(***************************************************************************)
EXTENDS StreamStore, TLAPS

\* A thread, or the thread forked for an interrupted one, waits for call c.
Held(c) == (\E t \in Threads : waits[t] = c) \/ c \in keepers

\* Every call is waited for by one thread, its MVar is filled once, and its buffer is
\* its own from the submission until the MVar is taken.
IInv ==
  /\ CallsTypeOK
  /\ \A c \in requests : Held(c) /\ c.id \notin filled
  /\ \A i \in filled : \E c \in Calls : Held(c) /\ c.id = i
  /\ \A c \in Calls : Held(c) => owner[c.buf] = c.id
  /\ \A c \in Calls : Held(c) /\ c.id \in filled => written[c.buf] = c.id
  /\ \A c, d \in Calls : Held(c) /\ Held(d) /\ c.id = d.id => c = d
  /\ \A t, u \in Threads : waits[t] # Nobody /\ waits[t] = waits[u] => t = u
  /\ \A t \in Threads : waits[t] \notin keepers

\* At the start nothing is waited for (withAsync').
LEMMA InitIInv == CallsInit => IInv
<1> SUFFICES ASSUME CallsInit PROVE IInv
  BY Zenon
<1>1. \A c \in Calls : ~Held(c)
  BY Zenon, CallsAssumption DEF CallsInit, Held, Calls
<1> QED
  BY Zenon, <1>1, CallsAssumption DEF CallsInit, IInv, CallsTypeOK

\* The id of a call that somebody waits for is in use, so submit does not take it.
LEMMA HeldIsUsed ==
  ASSUME IInv, NEW c \in Calls, Held(c)
  PROVE  c.id \in used
<1>1. CASE c \in keepers
  BY Zenon, <1>1 DEF used
<1>2. CASE \E t \in Threads : waits[t] = c
  <2>1. PICK t \in Threads : waits[t] = c
    BY Zenon, <1>2
  <2>2. c # Nobody
    BY Zenon, CallsAssumption DEF Calls
  <2> QED
    BY Zenon, <2>1, <2>2 DEF used
<1> QED
  BY Zenon, <1>1, <1>2 DEF Held

\* withAsync': a new call, with a buffer nobody holds.
LEMMA SubmitStep ==
  ASSUME IInv, NEW t \in Threads, NEW id \in Ids, NEW buf \in Buffers, submit(t, id, buf)
  PROVE  IInv'
<1> DEFINE n == [id |-> id, buf |-> buf]
<1>0. /\ n \in Calls /\ n # Nobody /\ n.id = id /\ n.buf = buf
      /\ waits' = [waits EXCEPT ![t] = n]
      /\ waits[t] = Nobody
  BY CallsAssumption DEF Calls, submit
<1> HIDE DEF n
<1>1. \A c \in Calls : Held(c)' <=> (Held(c) \/ c = n)
  BY <1>0, CallsAssumption DEF Held, submit, IInv, CallsTypeOK, Calls
<1>2. \A c \in Calls : Held(c) => c.id # id /\ c.buf # buf
  BY HeldIsUsed, CallsAssumption DEF submit, IInv, Calls
<1>3. id \notin filled /\ \A c \in requests : c.id # id
  BY Zenon DEF submit, used
<1>4. requests' = requests \cup {n}
  BY Zenon DEF submit, n
<1>5. CallsTypeOK'
  BY <1>0, <1>4 DEF submit, IInv, CallsTypeOK, Calls
<1>6. \A c \in requests' : Held(c)' /\ c.id \notin filled'
  BY <1>0, <1>1, <1>3, <1>4 DEF submit, IInv, CallsTypeOK
<1>7. \A i \in filled' : \E c \in Calls : Held(c)' /\ c.id = i
  BY Zenon, <1>1 DEF submit, IInv
<1>8. \A c \in Calls : Held(c)' => owner'[c.buf] = c.id
  BY <1>0, <1>1, <1>2 DEF submit, IInv, CallsTypeOK, Calls
<1>9. \A c \in Calls : Held(c)' /\ c.id \in filled' => written'[c.buf] = c.id
  BY Zenon, <1>0, <1>1, <1>2, <1>3 DEF submit, IInv, CallsTypeOK, Calls
<1>10. \A c, d \in Calls : Held(c)' /\ Held(d)' /\ c.id = d.id => c = d
  BY Zenon, <1>0, <1>1, <1>2 DEF IInv
<1>11. \A u, v \in Threads : waits'[u] # Nobody /\ waits'[u] = waits'[v] => u = v
  <2>1. \A u \in Threads : waits[u] # n
    BY Zenon, <1>0, <1>2 DEF Held
  <2> QED
    BY Zenon, <1>0, <2>1 DEF IInv, CallsTypeOK
<1>12. \A u \in Threads : waits'[u] \notin keepers'
  <2>1. n \notin keepers
    BY Zenon, <1>0, <1>2 DEF Held
  <2> QED
    BY <1>0, <2>1 DEF submit, IInv, CallsTypeOK
<1> QED
  BY Zenon, <1>5, <1>6, <1>7, <1>8, <1>9, <1>10, <1>11, <1>12 DEF IInv

\* The callback writes to a buffer that only its own call holds.
LEMMA CallbackStep ==
  ASSUME IInv, NEW c \in requests, callback(c)
  PROVE  IInv'
<1>0. c \in Calls /\ Held(c)
  BY Zenon DEF IInv, CallsTypeOK
<1>1. \A d \in Calls : Held(d)' <=> Held(d)
  BY Zenon DEF Held, callback
<1>2. \A d \in Calls : Held(d) /\ d.buf = c.buf => d = c
  BY Zenon, <1>0 DEF IInv
<1>3. \A d \in Calls : Held(d) /\ d.id = c.id => d = c
  BY Zenon, <1>0 DEF IInv
<1>4. CallsTypeOK'
  BY Zenon, <1>0 DEF callback, IInv, CallsTypeOK, Calls
<1>5. \A d \in requests' : Held(d)' /\ d.id \notin filled'
  BY Zenon, <1>0, <1>1, <1>3 DEF callback, IInv, CallsTypeOK
<1>6. \A i \in filled' : \E d \in Calls : Held(d)' /\ d.id = i
  BY Zenon, <1>0, <1>1 DEF callback, IInv
<1>7. \A d \in Calls : Held(d)' => owner'[d.buf] = d.id
  BY Zenon, <1>1 DEF callback, IInv
<1>8. \A d \in Calls : Held(d)' /\ d.id \in filled' => written'[d.buf] = d.id
  BY <1>0, <1>1, <1>2, <1>3 DEF callback, IInv, CallsTypeOK, Calls
<1> QED
  BY Zenon, <1>1, <1>4, <1>5, <1>6, <1>7, <1>8 DEF callback, IInv

\* A thread, or the one forked for it, takes the MVar of call c and gives up the buffer.
LEMMA TakeStep ==
  ASSUME IInv, NEW c \in Calls, Held(c), c.id \in filled,
         CallsTypeOK',
         \A d \in Calls : Held(d)' <=> (Held(d) /\ d # c),
         \A t, u \in Threads : waits'[t] # Nobody /\ waits'[t] = waits'[u] => t = u,
         \A t \in Threads : waits'[t] \notin keepers',
         filled' = filled \ {c.id}, owner' = [owner EXCEPT ![c.buf] = Nobody],
         UNCHANGED <<requests, written>>
  PROVE  IInv'
<1>1. \A d \in Calls : Held(d) /\ d.id = c.id => d = c
  BY Zenon DEF IInv
<1>2. \A d \in Calls : Held(d) /\ d.buf = c.buf => d = c
  BY DEF IInv
<1>3. \A d \in requests' : Held(d)' /\ d.id \notin filled'
  BY Zenon, <1>1 DEF IInv, CallsTypeOK
<1>4. \A i \in filled' : \E d \in Calls : Held(d)' /\ d.id = i
  BY Zenon, <1>1 DEF IInv
<1>5. \A d \in Calls : Held(d)' => owner'[d.buf] = d.id
  BY <1>2 DEF IInv, CallsTypeOK, Calls
<1>6. \A d \in Calls : Held(d)' /\ d.id \in filled' => written'[d.buf] = d.id
  BY Zenon DEF IInv
<1>7. \A d, e \in Calls : Held(d)' /\ Held(e)' /\ d.id = e.id => d = e
  BY Zenon DEF IInv
<1> QED
  BY Zenon, <1>3, <1>4, <1>5, <1>6, <1>7 DEF IInv

\* takeMVar returns in the thread that made the call.
LEMMA ResumeStep ==
  ASSUME IInv, NEW t \in Threads, resume(t)
  PROVE  IInv'
<1> DEFINE c == waits[t]
<1>0. /\ c \in Calls /\ Held(c) /\ c # Nobody /\ c.id \in filled
      /\ waits' = [waits EXCEPT ![t] = Nobody]
      /\ filled' = filled \ {c.id}
      /\ owner' = [owner EXCEPT ![c.buf] = Nobody]
  BY Zenon DEF resume, Held, IInv, CallsTypeOK
<1>1. \A u \in Threads : u # t => waits[u] # c
  BY Zenon, <1>0 DEF IInv
<1>2. \A d \in Calls : Held(d)' <=> (Held(d) /\ d # c)
  <2> SUFFICES ASSUME NEW d \in Calls PROVE Held(d)' <=> (Held(d) /\ d # c)
    BY Zenon
  <2>1. d # Nobody /\ c \notin keepers /\ keepers' = keepers
    BY Zenon, CallsAssumption DEF Calls, IInv, resume
  <2> QED
    BY <1>0, <1>1, <2>1 DEF Held, IInv, CallsTypeOK
<1>3. CallsTypeOK'
  BY Zenon, <1>0 DEF resume, IInv, CallsTypeOK, Calls
<1>4. \A u, v \in Threads : waits'[u] # Nobody /\ waits'[u] = waits'[v] => u = v
  BY <1>0 DEF IInv, CallsTypeOK
<1>5. \A u \in Threads : waits'[u] \notin keepers'
  BY <1>0, CallsAssumption DEF resume, IInv, CallsTypeOK, Calls
<1> HIDE DEF c
<1> QED
  BY Zenon, <1>0, <1>2, <1>3, <1>4, <1>5, TakeStep DEF resume

\* onException: the call goes from the thread to the forked one.
LEMMA InterruptStep ==
  ASSUME IInv, NEW t \in Threads, interrupt(t)
  PROVE  IInv'
<1> DEFINE c == waits[t]
<1>0. /\ c \in Calls /\ c # Nobody
      /\ waits' = [waits EXCEPT ![t] = Nobody]
      /\ keepers' = keepers \cup {c}
  BY DEF interrupt, IInv, CallsTypeOK
<1>1. \A u \in Threads : u # t => waits[u] # c
  BY Zenon, <1>0 DEF IInv
<1>2. \A d \in Calls : Held(d)' <=> Held(d)
  BY <1>0, <1>1, CallsAssumption DEF Held, IInv, CallsTypeOK, Calls
<1>3. CallsTypeOK'
  BY Zenon, <1>0 DEF interrupt, IInv, CallsTypeOK, Calls
<1>4. \A u, v \in Threads : waits'[u] # Nobody /\ waits'[u] = waits'[v] => u = v
  BY <1>0 DEF IInv, CallsTypeOK
<1>5. \A u \in Threads : waits'[u] \notin keepers'
  BY <1>0, <1>1, CallsAssumption DEF IInv, CallsTypeOK, Calls
<1>6. UNCHANGED <<requests, filled, owner, written>>
  BY Zenon DEF interrupt
<1>7. \A d \in requests' : Held(d)' /\ d.id \notin filled'
  BY Zenon, <1>2, <1>6 DEF IInv, CallsTypeOK
<1> QED
  BY Zenon, <1>2, <1>3, <1>4, <1>5, <1>6, <1>7 DEF IInv

\* The forked thread takes the MVar of an interrupted call.
LEMMA LetGoStep ==
  ASSUME IInv, NEW c \in keepers, letGo(c)
  PROVE  IInv'
<1>0. c \in Calls /\ Held(c) /\ c.id \in filled
  BY Zenon DEF letGo, Held, IInv, CallsTypeOK
<1>1. \A d \in Calls : Held(d)' <=> (Held(d) /\ d # c)
  BY <1>0 DEF letGo, Held, IInv
<1>2. CallsTypeOK'
  BY Zenon, <1>0 DEF letGo, IInv, CallsTypeOK, Calls
<1>3. \A u \in Threads : waits'[u] \notin keepers'
  BY Zenon DEF letGo, IInv
<1>4. \A u, v \in Threads : waits'[u] # Nobody /\ waits'[u] = waits'[v] => u = v
  BY Zenon DEF letGo, IInv
<1> QED
  BY Zenon, <1>0, <1>1, <1>2, <1>3, <1>4, TakeStep DEF letGo

\* Every step of a caller, a callback or a forked thread keeps the invariant.
LEMMA NextIInv == IInv /\ [CallsNext]_callVars => IInv'
<1> SUFFICES ASSUME IInv, [CallsNext]_callVars PROVE IInv'
  BY Zenon
<1>1. CASE UNCHANGED callVars
  BY Zenon, <1>1 DEF callVars, IInv, CallsTypeOK, Held
<1>2. CASE \E t \in Threads, id \in Ids, buf \in Buffers : submit(t, id, buf)
  BY Zenon, <1>2, SubmitStep
<1>3. CASE \E c \in requests : callback(c)
  BY Zenon, <1>3, CallbackStep
<1>4. CASE \E t \in Threads : resume(t)
  BY Zenon, <1>4, ResumeStep
<1>5. CASE \E t \in Threads : interrupt(t)
  BY Zenon, <1>5, InterruptStep
<1>6. CASE \E c \in keepers : letGo(c)
  BY Zenon, <1>6, LetGoStep
<1> QED
  BY Zenon, <1>1, <1>2, <1>3, <1>4, <1>5, <1>6 DEF CallsNext

\* The inductive invariant of the calls (Foreign.hs, withAsync and its variants).
THEOREM CallsInvariance == CallsSpec => []IInv
<1> QED
  BY InitIInv, NextIInv, PTL DEF CallsSpec

\* No callback writes to memory that was given up or that another call owns, whether
\* its caller still waits or was interrupted (withAsync', onException).
THEOREM BuffersAreSafe == CallsSpec => []BufferOutlivesCallback
<1>1. IInv => BufferOutlivesCallback
  BY Zenon DEF IInv, BufferOutlivesCallback, CallsTypeOK
<1> QED
  BY <1>1, CallsInvariance, PTL

\* A thread whose MVar is full reads what its own callback wrote (peek_data).
THEOREM OutcomesAreOwn == CallsSpec => []OutcomeIsOwn
<1>1. IInv => OutcomeIsOwn
  BY Zenon DEF IInv, OutcomeIsOwn, CallsTypeOK, Held
<1> QED
  BY <1>1, CallsInvariance, PTL

\* The answers a thread has waiting: the reply under way, or the outcome in its buffer.
answersTo(t) ==
  {r.data : r \in {x \in replies : x.id = waits[t].id}}
  \cup (IF waits[t].id \in filled THEN {memory[waits[t].buf]} ELSE {})

\* The fact holds in every version of the tree the client will read from.
holdsFor(c, f) == \A v \in view[c]..Len(trees) : f \in facts(trees[v])

\* The fact holds in the versions the client will read from, from one on.
holdsFrom(c, f, from) ==
  \A v \in view[c]..Len(trees) : v >= from => f \in facts(trees[v])

isSeq(s) == Len(s) \in Nat /\ s = [i \in 1..Len(s) |-> s[i]]

DomainInv ==
  /\ DOMAIN job = Threads /\ DOMAIN result = Threads
  /\ DOMAIN memory = Buffers
  /\ DOMAIN view = Clients /\ DOMAIN promised = Clients
  /\ isSeq(trees) /\ isSeq(records)

JobFields ==
  {"op", "path", "arg", "step", "version", "value", "extras", "tries", "expect"}

Steps ==
  {"makeDirectory", "removeDirectory", "getDirectory", "rename", "setAttributes",
   "makeLogGroup", "removeLogGroup", "getLogGroup", "getLogGroupById", "append",
   "appendBatch", "sync"}

\* An operation and the steps it takes.
goodJob(j) ==
  /\ DOMAIN j = JobFields
  /\ j.op \in DOMAIN firstStep /\ j.step \in Steps /\ j.version \in Nat
  /\ j.op = "append" => j.step = "append"
  /\ j.op = "appendBatch" => j.step = "appendBatch"
  /\ j.op = "allocCheckpointId" =>
       \/ j.step = "getLogGroup"
       \/ j.step \in {"makeLogGroup", "sync"} /\ j.expect = 0

JobInv ==
  \A t \in Threads :
    /\ waits[t] # Nobody => job[t] # None /\ job[t].step # "sync"
    /\ job[t] # None => goodJob(job[t])

WireInv ==
  /\ \A r \in replies : \E c \in requests : c.id = r.id
  /\ \A w \in wire : w.id # Nobody => \E c \in requests : c.id = w.id
  /\ \A w, x \in wire : w.id # Nobody /\ w.id = x.id => w = x
  /\ \A r, s \in replies : r.id = s.id => r = s
  /\ \A w \in wire, r \in replies : w.id # r.id
  /\ \A w \in wire : DOMAIN w = {"id", "client", "m"}

\* The request of a waiting thread is the one its step makes.
RequestInv ==
  \A t \in Threads, w \in wire : waits[t] # Nobody /\ w.id = waits[t].id =>
    w.client = Client[t] /\ \E id \in LogIds \cup {0} : w.m = request(t, id)

ExpectInv ==
  \A t \in Threads : job[t] # None /\ job[t].expect # 0 =>
    holdsFor(Client[t], <<job[t].path, job[t].expect>>)

payloadOf(t, op) == IF op = "append" THEN <<t>> ELSE <<t, "a", "b">>

\* What the answer of a step says, and still says when the thread gets to read it.
goodAnswer(t, d) ==
  /\ d.version \in Nat
  /\ job[t].step \in {"append", "appendBatch"} /\ d.st = "OK" =>
       d.value \in 1..Len(records) /\ records[d.value] = payloadOf(t, job[t].step)
  /\ job[t].step \in {"getDirectory", "getLogGroup", "getLogGroupById"} =>
       d.version <= view[Client[t]]
  /\ job[t].step = "getLogGroup" /\ job[t].expect # 0 =>
       d.st = "TIMEDOUT" \/ (d.st = "OK" /\ d.value = job[t].expect)

AnswerInv ==
  \A t \in Threads : waits[t] # Nobody => \A d \in answersTo(t) : goodAnswer(t, d)

VisibleInv ==
  \A c \in Clients :
    /\ view[c] \in 1..Len(trees)
    /\ \A p \in promised[c] : p[2] \in Nat /\ holdsFrom(c, p[1], p[2])

StoreInv ==
  /\ IInv /\ DomainInv /\ JobInv /\ WireInv /\ RequestInv /\ ExpectInv
  /\ AnswerInv /\ VisibleInv /\ AckedIsStored /\ AllocIsStable

-----------------------------------------------------------------------------
\* A sequence is one over its own elements, which is how the provers know sequences.
LEMMA OwnElements ==
  ASSUME NEW s, isSeq(s)
  PROVE  s \in Seq({s[i] : i \in 1..Len(s)})
BY DEF isSeq

\* A record is stored behind the others (Append).
LEMMA AppendIs ==
  ASSUME NEW s, isSeq(s), NEW x
  PROVE  /\ isSeq(Append(s, x)) /\ Len(Append(s, x)) = Len(s) + 1
         /\ \A i \in 1..Len(s) : Append(s, x)[i] = s[i]
         /\ Append(s, x)[Len(s) + 1] = x
<1> DEFINE S == {s[i] : i \in 1..Len(s)} \cup {x}
<1>1. s \in Seq(S)
  BY DEF isSeq
<1>2. x \in S /\ Len(s) \in Nat
  BY Zenon DEF isSeq
<1> HIDE DEF S
<1>3. Append(s, x) \in Seq(S) /\ Len(Append(s, x)) = Len(s) + 1
  BY <1>1, <1>2
<1>4. \A i \in 1..Len(s) : Append(s, x)[i] = s[i]
  BY <1>1, <1>2
<1>5. Append(s, x)[Len(s) + 1] = x
  BY <1>1, <1>2
<1>6. isSeq(Append(s, x))
  <2> DEFINE a == Append(s, x)
  <2>1. a \in Seq(S)
    BY Zenon, <1>3
  <2> HIDE DEF a
  <2>2. Len(a) \in Nat /\ a = [i \in 1..Len(a) |-> a[i]]
    BY <2>1
  <2> QED
    BY Zenon, <2>2 DEF isSeq, a
<1> QED
  BY Zenon, <1>3, <1>4, <1>5, <1>6

\* A fact is a path with an id (facts).
LEMMA FactIsPair ==
  ASSUME NEW tree, NEW f \in facts(tree)
  PROVE  f = <<f[1], f[2]>>
BY DEF facts

\* The fact that a path has an id other than 0 is about a log group.
LEMMA FactOfGroup ==
  ASSUME NEW tree, NEW path, NEW id, id # 0, <<path, id>> \in facts(tree)
  PROVE  path \in DOMAIN tree.logs /\ tree.logs[path] = id
BY Zenon DEF facts

\* The C function of each step (request).
LEMMA RequestFn ==
  ASSUME NEW t, NEW id, job[t].step \in Steps, job[t].step # "sync"
  PROVE  request(t, id).fn = IF job[t].step = "appendBatch" THEN "append" ELSE job[t].step
BY Zenon DEF request, Steps, ld_client_make_directory, ld_client_remove_directory,
  ld_client_get_directory, ld_client_rename, ld_client_set_attributes,
  ld_client_make_loggroup, ld_client_remove_loggroup, ld_client_get_loggroup,
  ld_client_get_loggroup_by_id, logdevice_append_async, logdevice_append_batch

\* What an append carries (_append_payload_async, APPEND_BATCH).
LEMMA RequestPayload ==
  ASSUME NEW t, NEW id, job[t].step \in {"append", "appendBatch"}
  PROVE  request(t, id).payload = payloadOf(t, job[t].step)
<1>1. CASE job[t].step = "append"
  <2>1. request(t, id) = logdevice_append_async(t)
    BY Zenon, <1>1 DEF request
  <2> QED
    BY <1>1, <2>1 DEF payloadOf, logdevice_append_async
<1>2. CASE job[t].step = "appendBatch"
  <2>1. request(t, id) = logdevice_append_batch(<<t, "a", "b">>)
    BY Zenon, <1>2 DEF request
  <2>2. [i \in 1..Len(<<t, "a", "b">>) |-> <<t, "a", "b">>[i]] = <<t, "a", "b">>
    OBVIOUS
  <2> QED
    BY <1>2, <2>1, <2>2 DEF payloadOf, logdevice_append_batch
<1> QED
  BY Zenon, <1>1, <1>2

\* The read of a log group asks for the path of the operation (ld_client_get_loggroup).
LEMMA RequestPath ==
  ASSUME NEW t, NEW id, job[t].step = "getLogGroup"
  PROVE  request(t, id) = [fn |-> "getLogGroup", path |-> job[t].path]
BY Zenon DEF request, ld_client_get_loggroup

\* A request depends on the local state of the operation, not on what the history
\* expects of it.
LEMMA SameRequest ==
  ASSUME NEW t, job'[t].step = job[t].step, job'[t].path = job[t].path,
         job'[t].arg = job[t].arg, job'[t].extras = job[t].extras,
         job'[t].value = job[t].value, job'[t].version = job[t].version
  PROVE  \A id : request(t, id)' = request(t, id)
BY Zenon DEF request, ld_client_make_directory, ld_client_remove_directory,
  ld_client_get_directory, ld_client_rename, ld_client_set_attributes,
  ld_client_make_loggroup, ld_client_remove_loggroup, ld_client_get_loggroup,
  ld_client_get_loggroup_by_id, logdevice_append_async, logdevice_append_batch

\* At the start no operation runs and nothing is under way (Init).
LEMMA InitStore == Init => StoreInv
<1> SUFFICES ASSUME Init PROVE StoreInv
  BY Zenon
<1>1. IInv
  BY Zenon, InitIInv DEF Init
<1>2. \A t \in Threads : waits[t] = Nobody /\ job[t] = None /\ result[t] = None
  BY Zenon DEF Init, CallsInit
<1>3. DomainInv
  BY DEF Init, DomainInv, isSeq
<1>4. JobInv /\ WireInv /\ RequestInv /\ ExpectInv /\ AnswerInv /\ AckedIsStored /\ AllocIsStable
  BY Zenon, <1>2 DEF Init, JobInv, WireInv, RequestInv, ExpectInv, AnswerInv, AckedIsStored, AllocIsStable
<1>5. VisibleInv
  BY DEF Init, VisibleInv
<1> QED
  BY Zenon, <1>1, <1>3, <1>4, <1>5 DEF StoreInv

-----------------------------------------------------------------------------
\* Threads that have no more answers than before, to the same questions, have good ones.
LEMMA AnswersStayGood ==
  ASSUME AnswerInv,
         \A u \in Threads : waits'[u] # Nobody =>
           /\ waits[u] # Nobody /\ answersTo(u)' \subseteq answersTo(u)
           /\ \A d : goodAnswer(u, d) => goodAnswer(u, d)'
  PROVE  AnswerInv'
BY Zenon DEF AnswerInv

\* What an answer says depends on the operation, the log and the view of the client.
LEMMA SameGoodness ==
  ASSUME NEW u, job'[u] = job[u], UNCHANGED storeVars
  PROVE  \A d : goodAnswer(u, d) => goodAnswer(u, d)'
BY Zenon DEF goodAnswer, storeVars

-----------------------------------------------------------------------------
\* The thread no longer waits for a call; the store and the messages are as they were.
leaves(t) ==
  /\ waits' = [waits EXCEPT ![t] = Nobody]
  /\ requests' = requests
  /\ filled' \subseteq filled
  /\ UNCHANGED <<storeVars, netVars>>

\* The outcome an operation ends with is backed by the store.
okEnd(t, st, value, since, from) ==
  /\ st = "OK" /\ job[t].op \in {"createStream", "createStreamPartition", "allocCheckpointId"}
       => since \in Nat /\ from \in Nat /\ (since <= view[Client[t]] \/ since <= from)
  /\ st = "OK" /\ job[t].op \in {"append", "appendBatch"} =>
       value \in 1..Len(records) /\ records[value] = payloadOf(t, job[t].op)
  /\ job[t].op = "allocCheckpointId" /\ job[t].expect # 0 =>
       st \in {"TIMEDOUT", "refused", "interrupted"} \/ (st = "OK" /\ value = job[t].expect)

\* The other threads wait for the same calls and have no new answers.
LEMMA LeaveAnswers ==
  ASSUME IInv, NEW t \in Threads, leaves(t)
  PROVE  \A u \in Threads : waits'[u] # Nobody =>
           u # t /\ waits[u] # Nobody /\ waits'[u] = waits[u] /\ answersTo(u)' \subseteq answersTo(u)
<1> SUFFICES ASSUME NEW u \in Threads, waits'[u] # Nobody
             PROVE  /\ u # t /\ waits[u] # Nobody /\ waits'[u] = waits[u]
                    /\ answersTo(u)' \subseteq answersTo(u)
  BY Zenon
<1>1. u # t /\ waits'[u] = waits[u]
  BY Zenon DEF leaves, IInv, CallsTypeOK
<1>2. filled' \subseteq filled /\ memory' = memory /\ replies' = replies
  BY Zenon DEF leaves, netVars
<1> QED
  BY Zenon, <1>1, <1>2 DEF answersTo

\* The messages belong to the same calls, and the other threads asked the same.
LEMMA LeaveNet ==
  ASSUME StoreInv, NEW t \in Threads, leaves(t),
         \A u \in Threads : u # t => job'[u] = job[u]
  PROVE  WireInv' /\ RequestInv' /\ AnswerInv'
<1>1. \A u \in Threads : waits'[u] # Nobody =>
        /\ u # t /\ waits[u] # Nobody /\ waits'[u] = waits[u]
        /\ answersTo(u)' \subseteq answersTo(u) /\ job'[u] = job[u]
  BY Zenon, LeaveAnswers DEF StoreInv
<1>2. WireInv'
  BY Zenon DEF StoreInv, WireInv, leaves, netVars
<1>3. RequestInv'
  <2>1. \A u \in Threads : waits'[u] # Nobody => \A id : request(u, id)' = request(u, id)
    BY Zenon, <1>1, SameRequest
  <2>2. wire' = wire /\ RequestInv
    BY Zenon DEF leaves, netVars, StoreInv
  <2> QED
    BY <1>1, <2>1, <2>2 DEF RequestInv
<1>4. AnswerInv'
  <2>1. \A u \in Threads : waits'[u] # Nobody => \A d : goodAnswer(u, d) => goodAnswer(u, d)'
    BY Zenon, <1>1, SameGoodness DEF leaves
  <2> QED
    BY Zenon, <1>1, <2>1, AnswersStayGood DEF StoreInv
<1> QED
  BY Zenon, <1>2, <1>3, <1>4

\* The operation ends with an outcome that the store backs.
LEMMA EndStep ==
  ASSUME StoreInv, NEW t \in Threads, NEW st, NEW value, NEW since, NEW from,
         leaves(t), IInv', ends(t, st, value, since, from), okEnd(t, st, value, since, from)
  PROVE  StoreInv'
<1>0. /\ DOMAIN job = Threads /\ DOMAIN result = Threads /\ DOMAIN promised = Clients
      /\ Client[t] \in Clients
  BY Zenon DEF StoreInv, DomainInv, Clients
<1>1. /\ job' = [job EXCEPT ![t] = None]
      /\ UNCHANGED <<trees, view, records, wire, replies, memory>>
  BY Zenon DEF ends, leaves, storeVars, netVars
<1>2. \A u \in Threads : job'[u] = IF u = t THEN None ELSE job[u]
  BY Zenon, <1>0, <1>1
<1>3. WireInv' /\ RequestInv' /\ AnswerInv'
  BY Zenon, <1>2, LeaveNet
<1>4. DomainInv'
  BY Zenon, <1>1 DEF ends, StoreInv, DomainInv
<1>5. JobInv'
  <2>1. \A u \in Threads : waits'[u] # Nobody => u # t /\ waits[u] # Nobody
    BY Zenon, LeaveAnswers DEF StoreInv
  <2> QED
    BY Zenon, <1>2, <2>1 DEF StoreInv, JobInv
<1>6. ExpectInv'
  BY Zenon, <1>1, <1>2 DEF StoreInv, ExpectInv, holdsFor
<1>7. VisibleInv'
  <2> SUFFICES ASSUME NEW c \in Clients, NEW p \in promised'[c]
               PROVE  p[2] \in Nat /\ holdsFrom(c, p[1], p[2])'
    BY Zenon, <1>1 DEF StoreInv, VisibleInv
  <2>1. CASE p \in promised[c]
    BY Zenon, <1>1, <2>1 DEF StoreInv, VisibleInv, holdsFrom
  <2>2. CASE p \notin promised[c]
    <3>1. PICK f \in lasting(since) : /\ st = "OK" /\ c = Client[t] /\ p = <<f, from>>
            /\ job[t].op \in {"createStream", "createStreamPartition", "allocCheckpointId"}
      BY Zenon, <1>0, <2>2 DEF ends
    <3>2. /\ since \in Nat /\ from \in Nat /\ (since <= view[c] \/ since <= from)
          /\ view[c] \in 1..Len(trees)
      BY Zenon, <3>1 DEF okEnd, StoreInv, VisibleInv
    <3>3. \A v \in 1..Len(trees) : v >= since => f \in facts(trees[v])
      BY Zenon, <3>1 DEF lasting
    <3>4. Len(trees) \in Nat
      BY Zenon DEF StoreInv, DomainInv, isSeq
    <3>5. p[1] = f /\ p[2] = from
      BY <3>1
    <3>6. holdsFrom(c, f, from)'
      BY <1>1, <3>2, <3>3, <3>4 DEF holdsFrom
    <3> QED
      BY Zenon, <3>2, <3>5, <3>6
  <2> QED
    BY Zenon, <2>1, <2>2
<1>8. result' = [result EXCEPT ![t] = [op |-> job[t].op, st |-> st, value |-> value,
                                         expect |-> job[t].expect]]
  BY Zenon DEF ends
<1>9. AckedIsStored'
  <2> SUFFICES ASSUME NEW u \in Threads, result'[u] # None,
                      result'[u].op \in {"append", "appendBatch"}, result'[u].st = "OK"
               PROVE  /\ result'[u].value \in 1..Len(records)
                      /\ records[result'[u].value] =
                           IF result'[u].op = "append" THEN <<u>> ELSE <<u, "a", "b">>
    BY Zenon, <1>1 DEF AckedIsStored
  <2>1. CASE u # t
    BY Zenon, <1>0, <1>8, <2>1 DEF StoreInv, AckedIsStored
  <2>2. CASE u = t
    BY Zenon, <1>0, <1>8, <2>2 DEF okEnd, payloadOf
  <2> QED
    BY Zenon, <2>1, <2>2
<1>10. AllocIsStable'
  <2> SUFFICES ASSUME NEW u \in Threads, result'[u] # None,
                      result'[u].op = "allocCheckpointId", result'[u].expect # 0
               PROVE  \/ result'[u].st = "OK" /\ result'[u].value = result'[u].expect
                      \/ result'[u].st \in {"TIMEDOUT", "refused", "interrupted"}
    BY Zenon DEF AllocIsStable
  <2>1. CASE u # t
    BY Zenon, <1>0, <1>8, <2>1 DEF StoreInv, AllocIsStable
  <2>2. CASE u = t
    BY Zenon, <1>0, <1>8, <2>2 DEF okEnd
  <2> QED
    BY Zenon, <2>1, <2>2
<1> QED
  BY Zenon, <1>3, <1>4, <1>5, <1>6, <1>7, <1>9, <1>10 DEF StoreInv

\* The local state an operation goes on with.
okGoOn(t, j) ==
  goodJob(j) /\ j.expect = job[t].expect /\ j.path = job[t].path

\* The operation goes on with another step.
LEMMA GoOnStep ==
  ASSUME StoreInv, NEW t \in Threads, job[t] # None, NEW j,
         leaves(t), IInv', goOn(t, j), okGoOn(t, j)
  PROVE  StoreInv'
<1>0. DOMAIN job = Threads
  BY Zenon DEF StoreInv, DomainInv
<1>1. /\ job' = [job EXCEPT ![t] = j]
      /\ UNCHANGED <<trees, view, records, wire, replies, memory, result, promised>>
  BY Zenon DEF goOn, leaves, storeVars, netVars
<1>2. \A u \in Threads : job'[u] = IF u = t THEN j ELSE job[u]
  BY Zenon, <1>0, <1>1
<1>3. WireInv' /\ RequestInv' /\ AnswerInv'
  BY Zenon, <1>2, LeaveNet
<1>4. DomainInv'
  BY Zenon, <1>1 DEF StoreInv, DomainInv
<1>5. JobInv'
  <2>1. \A u \in Threads : waits'[u] # Nobody => u # t /\ waits[u] # Nobody
    BY Zenon, LeaveAnswers DEF StoreInv
  <2> QED
    BY Zenon, <1>2, <2>1 DEF StoreInv, JobInv, okGoOn
<1>6. ExpectInv'
  <2>1. \A u \in Threads : job'[u] # None /\ job'[u].expect # 0 =>
          /\ job[u] # None /\ job[u].expect = job'[u].expect /\ job[u].path = job'[u].path
    BY Zenon, <1>2 DEF okGoOn
  <2> QED
    BY Zenon, <1>1, <2>1 DEF StoreInv, ExpectInv, holdsFor
<1>7. VisibleInv' /\ AckedIsStored' /\ AllocIsStable'
  BY Zenon, <1>1 DEF StoreInv, VisibleInv, holdsFrom, AckedIsStored, AllocIsStable
<1> QED
  BY Zenon, <1>3, <1>4, <1>5, <1>6, <1>7 DEF StoreInv

\* An operation ends with a backed outcome or goes on in a good state.
decided(t) ==
  \/ \E st, value, since, from :
       ends(t, st, value, since, from) /\ okEnd(t, st, value, since, from)
  \/ \E j : goOn(t, j) /\ okGoOn(t, j)

\* Decided operations keep the invariant.
LEMMA DecidedStep ==
  ASSUME StoreInv, NEW t \in Threads, job[t] # None, leaves(t), IInv', decided(t)
  PROVE  StoreInv'
BY Zenon, EndStep, GoOnStep DEF decided

\* An operation that throws claims nothing, except that an id it cannot get is not there.
LEMMA ThrowDecides ==
  ASSUME NEW t \in Threads, NEW st, NEW value, NEW since, finish(t, st, value, since),
         st # "OK",
         \/ job[t].op # "allocCheckpointId" \/ job[t].expect = 0
         \/ st \in {"TIMEDOUT", "refused", "interrupted"}
  PROVE  decided(t)
<1>1. okEnd(t, st, value, since, 0)
  BY Zenon DEF okEnd
<1> QED
  BY Zenon, <1>1 DEF finish, decided

\* An operation that returns nothing that the store has to back.
LEMMA ReturnDecides ==
  ASSUME NEW t \in Threads, NEW st, NEW value, NEW since, finish(t, st, value, since),
         job[t].op \notin {"createStream", "createStreamPartition", "allocCheckpointId",
                           "append", "appendBatch"}
  PROVE  decided(t)
<1>1. okEnd(t, st, value, since, 0)
  BY Zenon DEF okEnd
<1> QED
  BY Zenon, <1>1 DEF finish, decided

\* syncLogsConfigVersion, or the status of a write that failed.
LEMMA ThenSyncDecides ==
  ASSUME StoreInv, NEW t \in Threads, job[t] # None, NEW r, r.version \in Nat,
         thenSync(t, r), job[t].op \notin {"append", "appendBatch"},
         job[t].op = "allocCheckpointId" => job[t].expect = 0
  PROVE  decided(t)
<1>1. CASE r.st = "OK"
  <2> DEFINE k == [job[t] EXCEPT !.step = "sync", !.version = r.version, !.value = r.value]
  <2>1. goodJob(job[t])
    BY Zenon DEF StoreInv, JobInv
  <2>2. /\ DOMAIN k = JobFields /\ k.op = job[t].op /\ k.step = "sync"
        /\ k.version = r.version /\ k.expect = job[t].expect /\ k.path = job[t].path
    BY Zenon, <2>1 DEF goodJob, JobFields
  <2>3. goOn(t, k)
    BY Zenon, <1>1 DEF thenSync
  <2> HIDE DEF k
  <2>4. goodJob(k)
    BY Zenon, <2>1, <2>2 DEF goodJob, Steps
  <2>5. okGoOn(t, k)
    BY Zenon, <2>2, <2>4 DEF okGoOn
  <2> QED
    BY Zenon, <2>3, <2>5 DEF decided
<1>2. CASE r.st # "OK"
  <2>1. finish(t, r.st, 0, r.version)
    BY Zenon, <1>2 DEF thenSync
  <2> QED
    BY Zenon, <1>2, <2>1, ThrowDecides
<1> QED
  BY Zenon, <1>1, <1>2

\* The operation keeps what it knows and makes its log group next.
LEMMA MakeGroupDecides ==
  ASSUME StoreInv, NEW t \in Threads, job[t] # None,
         goOn(t, [job[t] EXCEPT !.step = "makeLogGroup"]),
         job[t].op \notin {"append", "appendBatch"},
         job[t].op = "allocCheckpointId" => job[t].expect = 0
  PROVE  decided(t)
<1> DEFINE k == [job[t] EXCEPT !.step = "makeLogGroup"]
<1>1. goodJob(job[t])
  BY Zenon DEF StoreInv, JobInv
<1>2. /\ DOMAIN k = JobFields /\ k.op = job[t].op /\ k.step = "makeLogGroup"
      /\ k.version = job[t].version /\ k.expect = job[t].expect /\ k.path = job[t].path
  BY Zenon, <1>1 DEF goodJob, JobFields
<1>3. goOn(t, k)
  BY Zenon
<1> HIDE DEF k
<1>4. goodJob(k)
  BY Zenon, <1>1, <1>2 DEF goodJob, Steps
<1>5. okGoOn(t, k)
  BY Zenon, <1>2, <1>4 DEF okGoOn
<1> QED
  BY Zenon, <1>3, <1>5 DEF decided

\* createRandomLogGroup retries with another id while there is a clash.
LEMMA RandomGroupDecides ==
  ASSUME StoreInv, NEW t \in Threads, job[t] # None, NEW r, r.version \in Nat,
         createRandomLogGroup(t, r),
         job[t].op \notin {"append", "appendBatch"},
         job[t].op = "allocCheckpointId" => job[t].expect = 0
  PROVE  decided(t)
<1>1. CASE r.st # "ID_CLASH"
  <2>1. thenSync(t, r)
    BY Zenon, <1>1 DEF createRandomLogGroup
  <2> QED
    BY Zenon, <2>1, ThenSyncDecides
<1>2. CASE r.st = "ID_CLASH" /\ job[t].tries > 1
  <2> DEFINE k == [job[t] EXCEPT !.tries = @ - 1]
  <2>1. goodJob(job[t])
    BY Zenon DEF StoreInv, JobInv
  <2>2. /\ DOMAIN k = JobFields /\ k.op = job[t].op /\ k.step = job[t].step
        /\ k.version = job[t].version /\ k.expect = job[t].expect /\ k.path = job[t].path
        /\ k.value = job[t].value
    BY Zenon, <2>1 DEF goodJob, JobFields
  <2>3. goOn(t, k)
    BY Zenon, <1>2 DEF createRandomLogGroup
  <2> HIDE DEF k
  <2>4. goodJob(k)
    BY Zenon, <2>1, <2>2 DEF goodJob
  <2>5. okGoOn(t, k)
    BY Zenon, <2>2, <2>4 DEF okGoOn
  <2> QED
    BY Zenon, <2>3, <2>5 DEF decided
<1>3. CASE r.st = "ID_CLASH" /\ ~(job[t].tries > 1)
  <2>1. finish(t, "StoreError", 0, r.version)
    BY Zenon, <1>3 DEF createRandomLogGroup
  <2> QED
    BY Zenon, <2>1, ThrowDecides
<1> QED
  BY Zenon, <1>1, <1>2, <1>3

\* createStreamPartition looks at the directory, then makes the log group.
LEMMA PartitionDecides ==
  ASSUME StoreInv, NEW t \in Threads, job[t] # None, NEW r, r.version \in Nat,
         job[t].op = "createStreamPartition", createStreamPartition(t, r)
  PROVE  decided(t)
<1>1. CASE job[t].step = "makeLogGroup"
  <2>1. createRandomLogGroup(t, r)
    BY Zenon, <1>1 DEF createStreamPartition
  <2> QED
    BY Zenon, <2>1, RandomGroupDecides
<1>2. CASE job[t].step # "makeLogGroup" /\ r.st = "OK"
  <2>1. goOn(t, [job[t] EXCEPT !.step = "makeLogGroup"])
    BY Zenon, <1>2 DEF createStreamPartition
  <2> QED
    BY Zenon, <2>1, MakeGroupDecides
<1>3. CASE job[t].step # "makeLogGroup" /\ r.st # "OK"
  <2>1. finish(t, IF r.st = "NOTFOUND" THEN "StoreError" ELSE r.st, 0, r.version)
    BY Zenon, <1>3 DEF createStreamPartition
  <2>2. (IF r.st = "NOTFOUND" THEN "StoreError" ELSE r.st) # "OK"
    BY Zenon, <1>3
  <2> QED
    BY Zenon, <2>1, <2>2, ThrowDecides
<1> QED
  BY Zenon, <1>1, <1>2, <1>3

\* allocCheckpointId takes the id that is there, and makes one only when there is none.
LEMMA AllocDecides ==
  ASSUME StoreInv, NEW t \in Threads, job[t] # None, NEW r, goodAnswer(t, r),
         job[t].step # "sync", job[t].op = "allocCheckpointId", allocCheckpointId(t, r)
  PROVE  decided(t)
<1>0. /\ r.version \in Nat
      /\ job[t].step = "getLogGroup" \/ (job[t].step = "makeLogGroup" /\ job[t].expect = 0)
  BY Zenon DEF goodAnswer, StoreInv, JobInv, goodJob
<1>1. CASE job[t].step = "makeLogGroup"
  <2>1. createRandomLogGroup(t, r)
    BY Zenon, <1>1 DEF allocCheckpointId
  <2> QED
    BY Zenon, <1>0, <1>1, <2>1, RandomGroupDecides
<1>2. CASE job[t].step # "makeLogGroup" /\ r.st = "NOTFOUND"
  <2>1. goOn(t, [job[t] EXCEPT !.step = "makeLogGroup"])
    BY Zenon, <1>2 DEF allocCheckpointId
  <2>2. job[t].expect = 0
    BY Zenon, <1>0, <1>2 DEF goodAnswer
  <2> QED
    BY Zenon, <2>1, <2>2, MakeGroupDecides
<1>3. CASE job[t].step # "makeLogGroup" /\ r.st # "NOTFOUND"
  <2>1. finish(t, r.st, r.value, r.version)
    BY Zenon, <1>3 DEF allocCheckpointId
  <2>2. okEnd(t, r.st, r.value, r.version, 0)
    BY Zenon, <1>0, <1>3 DEF goodAnswer, okEnd
  <2> QED
    BY Zenon, <2>1, <2>2 DEF finish, decided
<1> QED
  BY Zenon, <1>1, <1>2, <1>3

\* append and appendBatch return what the callback brought.
LEMMA AppendDecides ==
  ASSUME StoreInv, NEW t \in Threads, job[t] # None, NEW r, goodAnswer(t, r),
         job[t].op \in {"append", "appendBatch"}, append(t, r)
  PROVE  decided(t)
<1>1. job[t].step = job[t].op
  BY Zenon DEF StoreInv, JobInv, goodJob
<1>2. okEnd(t, r.st, r.value, r.version, 0)
  BY Zenon, <1>1 DEF okEnd, goodAnswer
<1> QED
  BY Zenon, <1>2 DEF append, finish, decided

\* updateStreamExtraAttrs reads the attributes and writes them with the new one.
LEMMA AttrsDecide ==
  ASSUME StoreInv, NEW t \in Threads, job[t] # None, NEW r, r.version \in Nat,
         job[t].op = "updateStreamExtraAttrs", updateStreamExtraAttrs(t, r)
  PROVE  decided(t)
<1>1. CASE job[t].step = "setAttributes"
  <2>1. thenSync(t, r)
    BY Zenon, <1>1 DEF updateStreamExtraAttrs
  <2> QED
    BY Zenon, <2>1, ThenSyncDecides
<1>2. CASE job[t].step # "setAttributes" /\ r.st = "OK"
  <2> DEFINE x == r.value \cup {job[t].arg}
             k == [job[t] EXCEPT !.step = "setAttributes", !.extras = x]
  <2>1. goOn(t, k)
    BY Zenon, <1>2 DEF updateStreamExtraAttrs
  <2>2. goodJob(job[t])
    BY Zenon DEF StoreInv, JobInv
  <2> HIDE DEF x
  <2>3. /\ DOMAIN k = JobFields /\ k.op = job[t].op /\ k.step = "setAttributes"
        /\ k.version = job[t].version /\ k.expect = job[t].expect /\ k.path = job[t].path
    BY Zenon, <2>2 DEF goodJob, JobFields
  <2> HIDE DEF k
  <2>4. goodJob(k)
    BY Zenon, <2>2, <2>3 DEF goodJob, Steps
  <2>5. okGoOn(t, k)
    BY Zenon, <2>3, <2>4 DEF okGoOn
  <2> QED
    BY Zenon, <2>1, <2>5 DEF decided
<1>3. CASE job[t].step # "setAttributes" /\ r.st # "OK"
  <2>1. finish(t, r.st, 0, r.version)
    BY Zenon, <1>3 DEF updateStreamExtraAttrs
  <2> QED
    BY Zenon, <2>1, ReturnDecides
<1> QED
  BY Zenon, <1>1, <1>2, <1>3

\* initCheckpointDir and freeCheckpointId take one status for success.
LEMMA CheckpointDirDecides ==
  ASSUME StoreInv, NEW t \in Threads, job[t] # None, NEW r, r.version \in Nat,
         \/ job[t].op = "initCheckpointDir" /\ initCheckpointDir(t, r)
         \/ job[t].op = "freeCheckpointId" /\ freeCheckpointId(t, r)
  PROVE  decided(t)
<1>1. job[t].op \notin {"createStream", "createStreamPartition", "allocCheckpointId",
                        "append", "appendBatch"}
  BY Zenon
<1>2. CASE finish(t, "OK", 0, r.version)
  BY Zenon, <1>1, <1>2, ReturnDecides
<1>3. CASE thenSync(t, r)
  BY Zenon, <1>1, <1>3, ThenSyncDecides
<1> QED
  BY Zenon, <1>2, <1>3 DEF initCheckpointDir, freeCheckpointId

\* The outcome of the call is read and the operation decides on it.
LEMMA WakeStep ==
  ASSUME StoreInv, NEW t \in Threads, wake(t), IInv'
  PROVE  StoreInv'
<1>0. waits[t] # Nobody /\ waits[t].id \in filled /\ resume(t)
  BY Zenon DEF wake, resume
<1>1. leaves(t)
  BY Zenon, <1>0 DEF wake, resume, leaves
<1>2. job[t] # None /\ job[t].step # "sync"
  BY Zenon, <1>0 DEF StoreInv, JobInv
<1>3. PICK r : r = memory[waits[t].buf]
  BY Zenon
<1>4. r \in answersTo(t) /\ goodAnswer(t, r)
  BY Zenon, <1>0, <1>3 DEF answersTo, StoreInv, AnswerInv
<1>5. r.version \in Nat
  BY Zenon, <1>4 DEF goodAnswer
<1>6. decided(t)
  <2>1. CASE job[t].op = "createStream" /\ createStream(t, r)
    BY Zenon, <1>2, <1>5, <2>1, ThenSyncDecides DEF createStream
  <2>2. CASE job[t].op = "createStreamPartition" /\ createStreamPartition(t, r)
    BY Zenon, <1>2, <1>5, <2>2, PartitionDecides
  <2>3. CASE job[t].op = "removeStream" /\ removeStream(t, r)
    BY Zenon, <1>2, <1>5, <2>3, ThenSyncDecides DEF removeStream
  <2>4. CASE job[t].op = "renameStream" /\ renameStream(t, r)
    BY Zenon, <1>2, <1>5, <2>4, ThenSyncDecides DEF renameStream
  <2>5. CASE job[t].op = "updateStreamExtraAttrs" /\ updateStreamExtraAttrs(t, r)
    BY Zenon, <1>2, <1>5, <2>5, AttrsDecide
  <2>6. CASE job[t].op = "getUnderlyingLogId" /\ getUnderlyingLogId(t, r)
    BY Zenon, <2>6, ReturnDecides DEF getUnderlyingLogId
  <2>7. CASE job[t].op = "getStreamIdFromLogId" /\ getStreamIdFromLogId(t, r)
    BY Zenon, <2>7, ReturnDecides DEF getStreamIdFromLogId
  <2>8. CASE \/ job[t].op = "initCheckpointDir" /\ initCheckpointDir(t, r)
             \/ job[t].op = "freeCheckpointId" /\ freeCheckpointId(t, r)
    BY Zenon, <1>2, <1>5, <2>8, CheckpointDirDecides
  <2>9. CASE job[t].op = "allocCheckpointId" /\ allocCheckpointId(t, r)
    BY Zenon, <1>2, <1>4, <2>9, AllocDecides
  <2>10. CASE job[t].op \in {"append", "appendBatch"} /\ append(t, r)
    BY Zenon, <1>2, <1>4, <2>10, AppendDecides
  <2> QED
    BY Zenon, <1>3, <2>1, <2>2, <2>3, <2>4, <2>5, <2>6, <2>7, <2>8, <2>9, <2>10 DEF wake
<1> QED
  BY Zenon, <1>1, <1>2, <1>6, DecidedStep
=============================================================================
