-------------------------- MODULE AckWindowProofs --------------------------
(***************************************************************************)
(* Proofs about AckWindow, for every log, every size of batches and every  *)
(* number of consumers.  WindowInv relates the ranges, the lower bound and *)
(* the map of batch sizes to what was acknowledged; it needs the shape of  *)
(* the ranges (ordered: they may overlap, but only where one ends with its *)
(* batch) and that the loop knows no batch beyond the one it works on.     *)
(* From it follow that the checkpoint covers acknowledged records only,    *)
(* that ranges hold nothing else, and that their ends are known batches.   *)
(* ResendInv adds that a batch has one entry in the resend job's lists; a  *)
(* record that was delivered is in it until it is acknowledged.            *)
(***************************************************************************)
EXTENDS AckWindow, TLAPS, WellFoundedInduction

-----------------------------------------------------------------------------
(* The order of record ids.                                                *)

Pairs == Nat \X Nat

\* A nonempty set of natural numbers has a least element.
LEMMA LeastOf ==
  ASSUME NEW S, S \subseteq Nat, S # {}
  PROVE  \E x \in S : \A y \in S : x <= y
<1> DEFINE R == {ss \in Nat \X Nat : ss[1] < ss[2]}
<1>1. IsWellFoundedOn(R, Nat)
  BY Zenon, NatLessThanWellFounded DEF OpToRel
<1>2. \E x \in S : \A y \in S : ~ (<<y, x>> \in R)
  <2> HIDE DEF R
  <2> QED BY Zenon, <1>1, WFMin
<1>3. PICK x \in S : \A y \in S : ~ (<<y, x>> \in R)
  BY Zenon, <1>2
<1>4. ASSUME NEW y \in S PROVE x <= y
  <2>1. x \in Nat /\ y \in Nat /\ <<y, x>> \in Nat \X Nat /\ ~ (<<y, x>> \in R)
    BY Zenon, <1>3
  <2>2. ~ (y < x)
    BY Zenon, <2>1
  <2> QED
    BY <2>1, <2>2
<1> QED
  BY Zenon, <1>4

\* A nonempty bounded set of natural numbers has a greatest element.
LEMMA GreatestOf ==
  ASSUME NEW N \in Nat, NEW S, S \subseteq 0..N, S # {}
  PROVE  \E x \in S : \A y \in S : y <= x
<1> DEFINE T == {N - x : x \in S}
<1>1. T \subseteq Nat /\ T # {}
  <2>1. \A x \in 0..N : N - x \in Nat
    OBVIOUS
  <2> QED
    BY Zenon, <2>1
<1>2. PICK m \in T : \A y \in T : m <= y
  <2> HIDE DEF T
  <2> QED BY Zenon, <1>1, LeastOf
<1>3. PICK x \in S : m = N - x
  BY Zenon
<1>4. ASSUME NEW y \in S PROVE y <= x
  <2>1. N - y \in T /\ x \in 0..N /\ y \in 0..N
    BY Zenon
  <2>2. N - x <= N - y
    BY Zenon, <1>2, <1>3, <2>1
  <2> QED
    BY <2>1, <2>2
<1> QED
  BY Zenon, <1>4

\* Below is a total order of record ids.
LEMMA Order ==
  ASSUME NEW r \in Pairs, NEW s \in Pairs
  PROVE  /\ Below(r, s) \/ r = s \/ Below(s, r)
         /\ ~ (Below(r, s) /\ Below(s, r)) /\ ~ Below(r, r)
         /\ \A t \in Pairs : Below(r, s) /\ Below(s, t) => Below(r, t)
<1>1. /\ r[1] \in Nat /\ r[2] \in Nat /\ s[1] \in Nat /\ s[2] \in Nat
      /\ (r[1] = s[1] /\ r[2] = s[2] => r = s)
  BY DEF Pairs
<1>2. \A t \in Pairs : t[1] \in Nat /\ t[2] \in Nat
  BY Zenon DEF Pairs
<1> QED
  BY <1>1, <1>2 DEF Below

\* A nonempty set of record ids has a smallest one.
LEMMA MinimumIs ==
  ASSUME NEW S, S \subseteq Pairs, S # {}
  PROVE  Minimum(S) \in S /\ \A x \in S : AtMost(Minimum(S), x)
<1> DEFINE B == {x[1] : x \in S}
<1>1. B \subseteq Nat /\ B # {}
  BY Zenon DEF Pairs
<1>2. PICK b \in B : \A y \in B : b <= y
  <2> HIDE DEF B
  <2> QED BY Zenon, <1>1, LeastOf
<1> DEFINE I == {x[2] : x \in {y \in S : y[1] = b}}
<1>3. I \subseteq Nat /\ I # {}
  BY Zenon, <1>2 DEF Pairs
<1>4. PICK i \in I : \A y \in I : i <= y
  <2> HIDE DEF I
  <2> QED BY Zenon, <1>3, LeastOf
<1>5. PICK r \in S : r[1] = b /\ r[2] = i
  BY Zenon
<1>6. ASSUME NEW x \in S PROVE AtMost(r, x)
  <2>1. r[1] <= x[1] /\ (x[1] = b => r[2] <= x[2])
    BY Zenon, <1>2, <1>4, <1>5
  <2>2. x[1] \in Nat /\ x[2] \in Nat /\ r[1] \in Nat /\ r[2] \in Nat /\ (r[1] = x[1] /\ r[2] = x[2] => r = x)
    BY DEF Pairs
  <2> QED
    BY <1>5, <2>1, <2>2 DEF AtMost, Below
<1> QED
  BY Zenon, <1>6 DEF Minimum

\* A nonempty bounded set of record ids has a largest one.
LEMMA MaximumIs ==
  ASSUME NEW M \in Nat, NEW N \in Nat, NEW S, S \subseteq (0..M) \X (0..N), S # {}
  PROVE  Maximum(S) \in S /\ \A x \in S : AtMost(x, Maximum(S))
<1> DEFINE B == {x[1] : x \in S}
<1>1. B \subseteq 0..M /\ B # {}
  BY Zenon
<1>2. PICK b \in B : \A y \in B : y <= b
  <2> HIDE DEF B
  <2> QED BY Zenon, <1>1, GreatestOf
<1> DEFINE I == {x[2] : x \in {y \in S : y[1] = b}}
<1>3. I \subseteq 0..N /\ I # {}
  BY Zenon, <1>2
<1>4. PICK i \in I : \A y \in I : y <= i
  <2> HIDE DEF I
  <2> QED BY Zenon, <1>3, GreatestOf
<1>5. PICK r \in S : r[1] = b /\ r[2] = i
  BY Zenon
<1>6. ASSUME NEW x \in S PROVE AtMost(x, r)
  <2>1. x[1] <= r[1] /\ (x[1] = b => x[2] <= r[2])
    BY Zenon, <1>2, <1>4, <1>5
  <2>2. x[1] \in 0..M /\ x[2] \in 0..N /\ r[1] \in 0..M /\ r[2] \in 0..N /\ (r[1] = x[1] /\ r[2] = x[2] => r = x)
    OBVIOUS
  <2> QED
    BY <1>5, <2>1, <2>2 DEF AtMost, Below
<1> QED
  BY Zenon, <1>6 DEF Maximum

-----------------------------------------------------------------------------
(* The inductive invariants.                                               *)

\* The ids of the log.
Records == {r \in LSNs \X Nat : r[2] < log[r[1]]}

\* The index at which a batch ends; a gap has the largest.
lastIndex(b) == IF log[b] = 0 THEN W - 1 ELSE log[b] - 1

LogInv == log \in [LSNs -> 0..W - 2]

MapInv ==
  /\ DOMAIN awBatchNumMap \subseteq LSNs
  /\ \A b \in DOMAIN awBatchNumMap : awBatchNumMap[b] = log[b]

\* The loop works on consecutive batches, and knows of no batch beyond them.
LoopInv ==
  /\ next \in 1..MaxLSN + 1
  /\ step \in {"read", "insert", "deliver", "register"}
  /\ step = "read" =>
       /\ \A b \in DOMAIN awBatchNumMap : b <= next
       /\ next \in DOMAIN awBatchNumMap => log[next] # 0
  /\ step # "read" =>
       /\ batches \in Seq(LSNs) /\ batches # <<>>
       /\ next = Head(batches) + Len(batches)
       /\ \A i \in 1..Len(batches) : batches[i] = Head(batches) + i - 1 /\ log[batches[i]] # 0
       /\ \A b \in DOMAIN awBatchNumMap : b <= Head(batches)

\* A thread with ids of a set.
isThread(a, S) ==
  \E st, ids, keys, lsn : a = [step |-> st, ids |-> ids, keys |-> keys, lsn |-> lsn] /\ ids \in Seq(S)

\* What the threads are about to acknowledge was acknowledged.
AckInv ==
  /\ received \subseteq RecordId /\ acked \subseteq received
  /\ \A h \in Handlers : isThread(acks[h], acked)
  /\ DOMAIN acks = Handlers

coversOnlyAcked(lsn) == lsn \in Nat /\ \A r \in Records : r[1] <= lsn => r \in acked

CommitInv ==
  /\ coversOnlyAcked(checkpoint) /\ checkpoint <= MaxLSN
  /\ \A h \in Handlers : coversOnlyAcked(acks[h].lsn) /\ acks[h].lsn <= MaxLSN

LowerInv ==
  /\ awWindowLowerBound \in Nat \X Nat
  /\ \A r \in Records : Below(r, awWindowLowerBound) => r \in acked

\* The ends of ranges are ids or ends of batches that are known ...
endsIn(ranges, known) ==
  \A s \in DOMAIN ranges : ranges[s][1] \in known /\ ranges[s][2] <= lastIndex(ranges[s][1])

\* ... the later a range starts the later it ends, ranges overlap only where one ends with
\* its batch, and no two of them meet inside a batch ...
ordered(ranges) ==
  /\ \A s \in DOMAIN ranges : AtMost(s, ranges[s])
  /\ \A s, t \in DOMAIN ranges : Below(s, t) =>
       /\ Below(ranges[s], ranges[t])
       /\ AtMost(t, ranges[s]) => ranges[s][2] = lastIndex(ranges[s][1])
       /\ t # <<ranges[s][1], ranges[s][2] + 1>>

\* ... and what is in them was acknowledged.
sound(ranges) ==
  \A s \in DOMAIN ranges : \A r \in Records :
    AtMost(s, r) /\ AtMost(r, ranges[s]) => r \in acked

RangesInv(ranges, known) ==
  /\ DOMAIN ranges \subseteq RecordId
  /\ ranges \in [DOMAIN ranges -> RecordId]
  /\ endsIn(ranges, known) /\ ordered(ranges) /\ sound(ranges)

\* The entries of the resend job are batches with indexes.
EntryInv ==
  /\ checkList \cup timeoutList \subseteq CheckedRecordIds
  /\ resending = Nothing \/ resending \in CheckedRecordIds

WindowInv ==
  /\ LogInv /\ MapInv /\ LoopInv /\ AckInv /\ CommitInv /\ LowerInv /\ EntryInv
  /\ RangesInv(awAckedRanges, DOMAIN awBatchNumMap)

\* The batch has been delivered and registered in this life of the server.
done(b) == IF step = "read" THEN b < next ELSE b < Head(batches)

\* There is one entry for a batch, in one of three places.
EntriesInv ==
  /\ \A c \in checkList \cup timeoutList : done(c.batch)
  /\ resending # Nothing => done(resending.batch)
  /\ \A c, d \in checkList : c.batch = d.batch => c = d
  /\ \A c, d \in timeoutList : c.batch = d.batch => c = d
  /\ \A c \in checkList, d \in timeoutList : c.batch # d.batch
  /\ resending # Nothing => \A c \in checkList \cup timeoutList : c.batch # resending.batch

DeliveredInv ==
  /\ delivered \subseteq Records
  /\ \A r \in delivered : done(r[1]) \/ (step = "register" /\ r[1] = Head(batches))

\* The batches whose entries a thread is about to remove are acknowledged, or
\* given up by the resend job.
KeysInv ==
  \A h \in Handlers : acks[h].step = "sweep" =>
    \A b \in acks[h].keys : b \in LSNs /\ done(b) /\ \A r \in delivered : r[1] = b => r \in acked \cup forgotten

ResendInv ==
  EntriesInv /\ DeliveredInv /\ KeysInv /\ UnackedWaitsForResend


\* What is true of ids and sizes.
LEMMA SizesAre ==
  ASSUME LogInv
  PROVE  /\ W \in Nat /\ W >= 1 /\ MaxLSN \in Nat
         /\ \A b \in LSNs : /\ log[b] \in 0..W - 2 /\ lastIndex(b) \in 0..W - 1
                            /\ log[b] # 0 => lastIndex(b) = log[b] - 1
                            /\ log[b] = 0 => lastIndex(b) = W - 1
         /\ RecordId \subseteq Pairs /\ Records \subseteq Pairs
         /\ RecordId \subseteq (0..MaxLSN) \X (0..W - 1)
         /\ \A r \in RecordId : r = <<r[1], r[2]>> /\ r[1] \in LSNs /\ r[2] \in 0..W - 1
         /\ \A r \in Records : r = <<r[1], r[2]>> /\ r[1] \in LSNs /\ r[2] \in Nat /\ r[2] < log[r[1]]
<1>1. W \in Nat /\ W >= 1 /\ MaxLSN \in Nat
  BY WordAssumption
<1>2. \A b \in LSNs : log[b] \in 0..W - 2
  BY Zenon DEF LogInv
<1>3. \A b \in LSNs : /\ lastIndex(b) \in 0..W - 1
                      /\ log[b] # 0 => lastIndex(b) = log[b] - 1
                      /\ log[b] = 0 => lastIndex(b) = W - 1
  BY <1>1, <1>2 DEF lastIndex
<1>4. \A r \in RecordId : r = <<r[1], r[2]>> /\ r[1] \in LSNs /\ r[2] \in 0..W - 1
  BY DEF RecordId, Indexes
<1>5. \A r \in Records : r = <<r[1], r[2]>> /\ r[1] \in LSNs /\ r[2] \in Nat /\ r[2] < log[r[1]]
  BY DEF Records
<1>6. RecordId \subseteq (0..MaxLSN) \X (0..W - 1) /\ RecordId \subseteq Pairs
  BY <1>1, <1>4 DEF LSNs, Pairs
<1>7. Records \subseteq Pairs
  BY <1>1, <1>5 DEF LSNs, Pairs
<1> QED
  BY Zenon, <1>1, <1>2, <1>3, <1>4, <1>5, <1>6, <1>7

\* The neighbours of an id among the ranges.
Left(r, ranges, l) ==
  l \in DOMAIN ranges /\ Below(l, r) /\ \A k \in DOMAIN ranges : Below(k, r) => AtMost(k, l)

\* lookupLTWithDefault finds the range that starts last before an id, if any does.
LEMMA LeftIs ==
  ASSUME LogInv, NEW ranges, DOMAIN ranges \subseteq RecordId, NEW r
  PROVE  \/ /\ lookupLTWithDefault(r, ranges) = <<minBound, minBound>>
            /\ \A k \in DOMAIN ranges : ~ Below(k, r)
         \/ \E l : Left(r, ranges, l) /\ lookupLTWithDefault(r, ranges) = <<l, ranges[l]>>
<1> DEFINE S == {k \in DOMAIN ranges : Below(k, r)}
<1>1. CASE S = {}
  BY Zenon, <1>1 DEF lookupLTWithDefault
<1>2. CASE S # {}
  <2>1. S \subseteq (0..MaxLSN) \X (0..W - 1) /\ MaxLSN \in Nat /\ W - 1 \in Nat
    BY SizesAre, WordAssumption
  <2>2. Maximum(S) \in S /\ \A x \in S : AtMost(x, Maximum(S))
    <3> HIDE DEF S
    <3> QED BY <1>2, <2>1, MaximumIs
  <2>3. lookupLTWithDefault(r, ranges) = <<Maximum(S), ranges[Maximum(S)]>>
    BY Zenon, <1>2 DEF lookupLTWithDefault
  <2>4. Left(r, ranges, Maximum(S))
    BY Zenon, <2>2 DEF Left
  <2> HIDE DEF S
  <2> QED
    BY Zenon, <2>3, <2>4
<1> QED
  BY Zenon, <1>1, <1>2

Right(r, ranges, l) ==
  l \in DOMAIN ranges /\ Below(r, l) /\ \A k \in DOMAIN ranges : Below(r, k) => AtMost(l, k)

\* lookupGTWithDefault finds the range that starts first after an id, if any does.
LEMMA RightIs ==
  ASSUME LogInv, NEW ranges, DOMAIN ranges \subseteq RecordId, NEW r
  PROVE  \/ /\ lookupGTWithDefault(r, ranges) = <<maxBound, maxBound>>
            /\ \A k \in DOMAIN ranges : ~ Below(r, k)
         \/ \E l : Right(r, ranges, l) /\ lookupGTWithDefault(r, ranges) = <<l, ranges[l]>>
<1> DEFINE S == {k \in DOMAIN ranges : Below(r, k)}
<1>1. CASE S = {}
  BY Zenon, <1>1 DEF lookupGTWithDefault
<1>2. CASE S # {}
  <2>1. S \subseteq Pairs
    BY Zenon, SizesAre
  <2>2. Minimum(S) \in S /\ \A x \in S : AtMost(Minimum(S), x)
    <3> HIDE DEF S
    <3> QED BY <1>2, <2>1, MinimumIs
  <2>3. lookupGTWithDefault(r, ranges) = <<Minimum(S), ranges[Minimum(S)]>>
    BY Zenon, <1>2 DEF lookupGTWithDefault
  <2>4. Right(r, ranges, Minimum(S))
    BY Zenon, <2>2 DEF Right
  <2> HIDE DEF S
  <2> QED
    BY Zenon, <2>3, <2>4
<1> QED
  BY Zenon, <1>1, <1>2

-----------------------------------------------------------------------------
(* The ranges after insertAckedRecordId.                                   *)

\* r comes right after e.
Adjacent(e, r) ==
  \/ r[1] = e[1] /\ r[2] = e[2] + 1
  \/ r[1] = e[1] + 1 /\ r[2] = 0 /\ (log[e[1]] = 0 \/ e[2] = log[e[1]] - 1)

\* isSuccessor holds of neighbours only.
LEMMA SuccessorIs ==
  ASSUME LogInv, NEW map, DOMAIN map \subseteq LSNs, \A b \in DOMAIN map : map[b] = log[b],
         NEW r \in RecordId, NEW e, isSuccessor(r, e, map)
  PROVE  Below(e, r) /\ Adjacent(e, r)
BY Zenon DEF isSuccessor, isLastInBatch, Adjacent

\* No record is between adjacent ids.
LEMMA NoneBetween ==
  ASSUME LogInv, NEW e \in RecordId, NEW r \in RecordId, Adjacent(e, r), NEW x \in Records
  PROVE  AtMost(x, e) \/ AtMost(r, x)
<1>1. /\ x = <<x[1], x[2]>> /\ x[1] \in LSNs /\ x[2] \in Nat /\ x[2] < log[x[1]]
      /\ e = <<e[1], e[2]>> /\ e[1] \in LSNs /\ e[2] \in Nat
      /\ r = <<r[1], r[2]>> /\ r[1] \in LSNs /\ r[2] \in Nat
  BY SizesAre
<1>2. log[x[1]] \in Nat /\ log[e[1]] \in Nat /\ x[1] \in Nat /\ e[1] \in Nat
  BY <1>1, SizesAre DEF LSNs
<1>3. x \in Pairs /\ e \in Pairs /\ r \in Pairs
  BY Zenon, SizesAre
<1>4. (AtMost(x, e) \/ Below(e, x)) /\ (AtMost(r, x) \/ Below(x, r))
  BY Zenon, <1>3, Order DEF AtMost
<1>5. ASSUME Below(e, x), Below(x, r) PROVE FALSE
  <2>1. x[1] = e[1] => x[2] > e[2] /\ x[2] < log[e[1]]
    BY <1>1, <1>2, <1>5 DEF Below
  <2>2. CASE r[1] = e[1] /\ r[2] = e[2] + 1
    BY <1>1, <1>2, <1>5, <2>1, <2>2 DEF Below
  <2>3. CASE r[1] = e[1] + 1 /\ r[2] = 0 /\ (log[e[1]] = 0 \/ e[2] = log[e[1]] - 1)
    <3>1. x[1] = e[1]
      BY <1>1, <1>2, <1>5, <2>3 DEF Below
    <3> QED
      BY <1>1, <1>2, <2>1, <2>3, <3>1
  <2> QED
    BY Zenon, <2>2, <2>3 DEF Adjacent
<1> QED
  BY Zenon, <1>4, <1>5

\* The range to the left of the id ends with it from now on.
LEMMA Extend ==
  ASSUME LogInv, NEW ranges, NEW known, RangesInv(ranges, known),
         NEW r \in RecordId, r \in acked, r[1] \in known, r[2] < log[r[1]],
         NEW l, Left(r, ranges, l), r \notin DOMAIN ranges, Adjacent(ranges[l], r), Below(ranges[l], r),
         \A u \in DOMAIN ranges : u # <<r[1], r[2] + 1>>,
         NEW new, new = [ranges EXCEPT ![l] = r]
  PROVE  RangesInv(new, known)
<1>1. /\ l \in DOMAIN ranges /\ DOMAIN new = DOMAIN ranges /\ DOMAIN ranges \subseteq RecordId
      /\ new[l] = r /\ \A s \in DOMAIN ranges : s # l => new[s] = ranges[s]
      /\ \A s \in DOMAIN ranges : ranges[s] \in RecordId
      /\ new \in [DOMAIN new -> RecordId]
  BY Zenon DEF RangesInv, Left
<1>2. DOMAIN ranges \subseteq Pairs /\ r \in Pairs /\ \A s \in DOMAIN ranges : ranges[s] \in Pairs
  BY Zenon, <1>1, SizesAre
<1>3. r[1] \in LSNs /\ lastIndex(r[1]) = log[r[1]] - 1 /\ r[2] \in Nat /\ log[r[1]] \in Nat
  BY SizesAre
<1>4. endsIn(new, known)
  BY <1>1, <1>3 DEF RangesInv, endsIn
<1>5. /\ \A s, t \in DOMAIN ranges : Below(s, t) => Below(ranges[s], ranges[t])
      /\ \A s \in DOMAIN ranges : AtMost(s, ranges[s])
  BY Zenon DEF RangesInv, ordered
<1>6. \A s \in DOMAIN new : AtMost(s, new[s])
  BY Zenon, <1>1, <1>5 DEF Left, AtMost
<1>7. \A t \in DOMAIN ranges : Below(l, t) => Below(r, t)
  BY <1>1, <1>2, Order DEF Left, AtMost
<1>8. ASSUME NEW s \in DOMAIN new, NEW t \in DOMAIN new, Below(s, t)
      PROVE  /\ Below(new[s], new[t])
             /\ AtMost(t, new[s]) => new[s][2] = lastIndex(new[s][1])
             /\ t # <<new[s][1], new[s][2] + 1>>
  <2>1. CASE s = l
    <3>1. Below(r, t) /\ t # l /\ AtMost(t, ranges[t]) /\ t \in Pairs /\ ranges[t] \in Pairs /\ r \in Pairs
      BY Zenon, <1>1, <1>2, <1>5, <1>7, <1>8, <2>1, Order
    <3>2. Below(r, ranges[t]) /\ ~ AtMost(t, r)
      BY Zenon, <3>1, Order DEF AtMost
    <3> QED
      BY Zenon, <1>1, <2>1, <3>1, <3>2
  <2>2. CASE s # l /\ t = l
    <3>1. Below(ranges[s], ranges[l]) /\ Below(ranges[l], r)
      BY Zenon, <1>1, <1>5, <1>8, <2>2
    <3>2. Below(ranges[s], r)
      BY Zenon, <1>1, <1>2, <2>2, <3>1, Order
    <3> QED
      BY Zenon, <1>1, <1>8, <2>2, <3>2 DEF RangesInv, ordered
  <2>3. CASE s # l /\ t # l
    BY Zenon, <1>1, <1>8, <2>3 DEF RangesInv, ordered
  <2> QED
    BY Zenon, <2>1, <2>2, <2>3
<1>9. ordered(new)
  BY Zenon, <1>6, <1>8 DEF ordered
<1>10. sound(new)
  <2> SUFFICES ASSUME NEW s \in DOMAIN new, NEW x \in Records, AtMost(s, x), AtMost(x, new[s])
               PROVE  x \in acked
    BY Zenon DEF sound
  <2>1. CASE s # l
    BY Zenon, <1>1, <2>1 DEF RangesInv, sound
  <2>2. CASE s = l
    <3>1. AtMost(x, ranges[l]) \/ AtMost(r, x)
      BY Zenon, <1>1, NoneBetween
    <3>2. x \in Pairs
      BY Zenon, SizesAre
    <3>3. AtMost(r, x) => x = r
      BY Zenon, <1>1, <1>2, <2>2, <3>2, Order DEF AtMost
    <3> QED
      BY Zenon, <1>1, <2>2, <3>1, <3>3 DEF RangesInv, sound
  <2> QED
    BY Zenon, <2>1, <2>2
<1> QED
  BY Zenon, <1>1, <1>4, <1>9, <1>10 DEF RangesInv

\* The id closes the hole between two ranges, which become one.
LEMMA Join ==
  ASSUME LogInv, NEW ranges, NEW known, RangesInv(ranges, known),
         NEW r \in RecordId, r \in acked, r \notin DOMAIN ranges,
         NEW l, Left(r, ranges, l), Adjacent(ranges[l], r), Below(ranges[l], r),
         NEW u, Right(r, ranges, u), Adjacent(r, u),
         NEW new, new = [Without(ranges, u) EXCEPT ![l] = ranges[u]]
  PROVE  RangesInv(new, known)
<1>1. /\ l \in DOMAIN ranges /\ u \in DOMAIN ranges /\ DOMAIN ranges \subseteq RecordId
      /\ \A s \in DOMAIN ranges : ranges[s] \in RecordId
      /\ Below(l, r) /\ Below(r, u)
  BY Zenon DEF RangesInv, Left, Right
<1>2. DOMAIN ranges \subseteq Pairs /\ r \in Pairs /\ \A s \in DOMAIN ranges : ranges[s] \in Pairs
  BY Zenon, <1>1, SizesAre
<1>3. l # u
  BY Zenon, <1>1, <1>2, Order
<1>4. /\ DOMAIN new = DOMAIN ranges \ {u} /\ new[l] = ranges[u]
      /\ \A s \in DOMAIN new : s # l => new[s] = ranges[s]
      /\ new \in [DOMAIN new -> RecordId]
  BY Zenon, <1>1, <1>3 DEF Without
<1>5. endsIn(new, known)
  BY Zenon, <1>1, <1>4 DEF RangesInv, endsIn
<1>6. /\ \A s, t \in DOMAIN ranges : Below(s, t) => Below(ranges[s], ranges[t])
      /\ \A s \in DOMAIN ranges : AtMost(s, ranges[s])
  BY Zenon DEF RangesInv, ordered
<1>7. \A t \in DOMAIN new : Below(l, t) => Below(u, t)
  <2> SUFFICES ASSUME NEW t \in DOMAIN new, Below(l, t) PROVE Below(u, t)
    BY Zenon
  <2>1. ~ Below(t, r) /\ t # r /\ t \in DOMAIN ranges /\ t \in Pairs /\ t # u
    BY <1>1, <1>2, <1>4, Order DEF Left, AtMost
  <2>2. Below(r, t)
    BY Zenon, <1>2, <2>1, Order
  <2> QED
    BY Zenon, <2>1, <2>2 DEF Right, AtMost
<1>8. \A s \in DOMAIN new : AtMost(s, new[s])
  <2>1. Below(l, u) /\ AtMost(u, ranges[u])
    BY Zenon, <1>1, <1>2, <1>6, Order
  <2>2. AtMost(l, ranges[u])
    BY Zenon, <1>1, <1>2, <2>1, Order DEF AtMost
  <2> QED
    BY Zenon, <1>4, <1>6, <2>2
<1>9. ASSUME NEW s \in DOMAIN new, NEW t \in DOMAIN new, Below(s, t)
      PROVE  /\ Below(new[s], new[t])
             /\ AtMost(t, new[s]) => new[s][2] = lastIndex(new[s][1])
             /\ t # <<new[s][1], new[s][2] + 1>>
  <2>1. CASE s = l
    <3>1. Below(u, t) /\ t # l /\ t \in DOMAIN ranges
      BY <1>1, <1>2, <1>4, <1>7, <1>9, <2>1, Order
    <3> QED
      BY Zenon, <1>1, <1>4, <2>1, <3>1 DEF RangesInv, ordered
  <2>2. CASE s # l /\ t = l
    <3>1. Below(ranges[s], ranges[l]) /\ Below(ranges[l], ranges[u])
      BY Zenon, <1>1, <1>2, <1>4, <1>6, <1>9, <2>2, Order
    <3>2. Below(ranges[s], ranges[u])
      BY Zenon, <1>1, <1>2, <1>4, <2>2, <3>1, Order
    <3> QED
      BY <1>1, <1>4, <1>9, <2>2, <3>2 DEF RangesInv, ordered
  <2>3. CASE s # l /\ t # l
    BY <1>1, <1>4, <1>9, <2>3 DEF RangesInv, ordered
  <2> QED
    BY Zenon, <2>1, <2>2, <2>3
<1>10. ordered(new)
  BY Zenon, <1>8, <1>9 DEF ordered
<1>11. sound(new)
  <2> SUFFICES ASSUME NEW s \in DOMAIN new, NEW x \in Records, AtMost(s, x), AtMost(x, new[s])
               PROVE  x \in acked
    BY Zenon DEF sound
  <2>1. CASE s # l
    BY Zenon, <1>4, <2>1 DEF RangesInv, sound
  <2>2. CASE s = l
    <3>1. AtMost(x, ranges[l]) \/ AtMost(r, x)
      BY Zenon, <1>1, NoneBetween
    <3>2. AtMost(x, r) \/ AtMost(u, x)
      BY Zenon, <1>1, NoneBetween
    <3>3. x \in Pairs
      BY Zenon, SizesAre
    <3>4. AtMost(r, x) /\ AtMost(x, r) => x = r
      BY Zenon, <1>2, <3>3, Order DEF AtMost
    <3> QED
      BY Zenon, <1>1, <1>4, <2>2, <3>1, <3>2, <3>4 DEF RangesInv, sound
  <2> QED
    BY Zenon, <2>1, <2>2
<1> QED
  BY Zenon, <1>1, <1>4, <1>5, <1>10, <1>11 DEF RangesInv

\* The id and the range to its right become one.
LEMMA Prepend ==
  ASSUME LogInv, NEW ranges, NEW known, RangesInv(ranges, known),
         NEW r \in RecordId, r \in acked, r \notin DOMAIN ranges, r[2] < log[r[1]],
         NEW u, Right(r, ranges, u), Adjacent(r, u),
         \A l : Left(r, ranges, l) => r # <<ranges[l][1], ranges[l][2] + 1>>,
         \A k \in DOMAIN ranges : Below(k, r) => \E l : Left(r, ranges, l),
         NEW new, new = With(Without(ranges, u), r, ranges[u])
  PROVE  RangesInv(new, known)
<1>1. /\ u \in DOMAIN ranges /\ DOMAIN ranges \subseteq RecordId
      /\ \A s \in DOMAIN ranges : ranges[s] \in RecordId
      /\ Below(r, u)
  BY Zenon DEF RangesInv, Right
<1>2. DOMAIN ranges \subseteq Pairs /\ r \in Pairs /\ \A s \in DOMAIN ranges : ranges[s] \in Pairs
  BY Zenon, <1>1, SizesAre
<1>3. /\ DOMAIN new = (DOMAIN ranges \ {u}) \cup {r} /\ new[r] = ranges[u]
      /\ \A s \in DOMAIN new : s # r => s \in DOMAIN ranges /\ s # u /\ new[s] = ranges[s]
      /\ new \in [DOMAIN new -> RecordId] /\ DOMAIN new \subseteq RecordId
  BY Zenon, <1>1 DEF With, Without
<1>4. endsIn(new, known)
  BY Zenon, <1>1, <1>3 DEF RangesInv, endsIn
<1>5. /\ \A s, t \in DOMAIN ranges : Below(s, t) => Below(ranges[s], ranges[t])
      /\ \A s \in DOMAIN ranges : AtMost(s, ranges[s])
  BY Zenon DEF RangesInv, ordered
<1>6. \A t \in DOMAIN new : Below(r, t) => Below(u, t)
  BY Zenon, <1>1, <1>2, <1>3, Order DEF Right, AtMost
<1>7. \A s \in DOMAIN new : AtMost(s, new[s])
  <2>1. AtMost(r, ranges[u])
    BY Zenon, <1>1, <1>2, <1>5, Order DEF AtMost
  <2> QED
    BY Zenon, <1>3, <1>5, <2>1
<1>8. /\ r[1] \in LSNs /\ r[2] \in Nat /\ log[r[1]] \in Nat /\ lastIndex(r[1]) = log[r[1]] - 1
      /\ r[1] \in Nat /\ r = <<r[1], r[2]>>
  BY SizesAre DEF LSNs
<1>9. ASSUME NEW s \in DOMAIN ranges, Below(s, r)
      PROVE  /\ AtMost(r, ranges[s]) => ranges[s][2] = lastIndex(ranges[s][1])
             /\ r # <<ranges[s][1], ranges[s][2] + 1>>
  <2> DEFINE e == ranges[s]
  <2>0. /\ e = <<e[1], e[2]>> /\ e[1] \in LSNs /\ e[2] \in Nat /\ e[1] \in Nat
        /\ u = <<u[1], u[2]>> /\ u[1] \in Nat /\ u[2] \in Nat
        /\ e[2] <= lastIndex(e[1])
    BY <1>1, SizesAre DEF LSNs, RangesInv, endsIn
  <2>1. Below(s, u)
    BY Zenon, <1>1, <1>2, <1>9, Order
  <2>2. /\ AtMost(u, e) => e[2] = lastIndex(e[1])
        /\ u # <<e[1], e[2] + 1>>
    BY Zenon, <1>1, <2>1 DEF RangesInv, ordered
  <2>3. ASSUME AtMost(r, e) PROVE e[2] = lastIndex(e[1])
    <3>1. CASE r = e
      BY <1>8, <2>0, <2>2, <3>1 DEF Adjacent
    <3>2. CASE Below(r, e)
      <4>1. AtMost(u, e)
        <5>1. CASE u[1] = r[1] /\ u[2] = r[2] + 1
          BY <1>8, <2>0, <3>2, <5>1 DEF Below, AtMost
        <5>2. CASE u[1] = r[1] + 1 /\ u[2] = 0 /\ (log[r[1]] = 0 \/ r[2] = log[r[1]] - 1)
          <6>1. e[1] # r[1]
            BY <1>8, <2>0, <3>2, <5>2 DEF Below
          <6> QED
            BY <1>8, <2>0, <3>2, <5>2, <6>1 DEF Below, AtMost
        <5> QED
          BY Zenon, <5>1, <5>2 DEF Adjacent
      <4> QED
        BY Zenon, <2>2, <4>1
    <3> QED
      BY Zenon, <2>3, <3>1, <3>2 DEF AtMost
  <2>4. ASSUME r = <<e[1], e[2] + 1>> PROVE FALSE
    <3>1. PICK l : Left(r, ranges, l)
      BY Zenon, <1>9
    <3>2. l \in DOMAIN ranges /\ Below(l, r) /\ AtMost(s, l)
      BY Zenon, <1>9, <3>1 DEF Left
    <3>3. s # l /\ Below(s, l)
      BY Zenon, <2>4, <3>1, <3>2 DEF AtMost
    <3>4. AtMost(l, e)
      <4>1. l = <<l[1], l[2]>> /\ l[1] \in Nat /\ l[2] \in Nat
        BY <1>2, <3>2 DEF Pairs
      <4> QED
        BY <2>0, <2>4, <3>2, <4>1 DEF Below, AtMost
    <3>5. e[2] = lastIndex(e[1])
      BY Zenon, <3>2, <3>3, <3>4 DEF RangesInv, ordered
    <3> QED
      BY <1>8, <2>0, <2>4, <3>5
  <2> QED
    BY Zenon, <2>3, <2>4
<1>10. ASSUME NEW s \in DOMAIN new, NEW t \in DOMAIN new, Below(s, t)
      PROVE  /\ Below(new[s], new[t])
             /\ AtMost(t, new[s]) => new[s][2] = lastIndex(new[s][1])
             /\ t # <<new[s][1], new[s][2] + 1>>
  <2>1. CASE s = r
    <3>1. Below(u, t) /\ t # r /\ t \in DOMAIN ranges
      BY Zenon, <1>2, <1>3, <1>6, <1>10, <2>1, Order
    <3> QED
      BY <1>1, <1>3, <2>1, <3>1 DEF RangesInv, ordered
  <2>2. CASE s # r /\ t = r
    <3>1. s \in DOMAIN ranges /\ Below(s, u)
      BY Zenon, <1>1, <1>2, <1>3, <1>10, <2>2, Order
    <3> QED
      BY Zenon, <1>1, <1>3, <1>5, <1>9, <1>10, <2>2, <3>1
  <2>3. CASE s # r /\ t # r
    BY Zenon, <1>3, <1>10, <2>3 DEF RangesInv, ordered
  <2> QED
    BY Zenon, <2>1, <2>2, <2>3
<1>11. ordered(new)
  BY Zenon, <1>7, <1>10 DEF ordered
<1>12. sound(new)
  <2> SUFFICES ASSUME NEW s \in DOMAIN new, NEW x \in Records, AtMost(s, x), AtMost(x, new[s])
               PROVE  x \in acked
    BY Zenon DEF sound
  <2>1. CASE s # r
    BY Zenon, <1>3, <2>1 DEF RangesInv, sound
  <2>2. CASE s = r
    <3>2. AtMost(x, r) \/ AtMost(u, x)
      BY Zenon, <1>1, NoneBetween
    <3>3. x \in Pairs
      BY Zenon, SizesAre
    <3>4. AtMost(r, x) /\ AtMost(x, r) => x = r
      BY Zenon, <1>2, <3>3, Order DEF AtMost
    <3> QED
      BY Zenon, <1>1, <1>3, <2>2, <3>2, <3>4 DEF RangesInv, sound
  <2> QED
    BY Zenon, <2>1, <2>2
<1> QED
  BY Zenon, <1>3, <1>4, <1>11, <1>12 DEF RangesInv

\* The id is a range of its own.
LEMMA Add ==
  ASSUME LogInv, NEW ranges, NEW known, RangesInv(ranges, known),
         NEW r \in RecordId, r \in acked, r \notin DOMAIN ranges, r[1] \in known, r[2] < log[r[1]],
         \A u \in DOMAIN ranges : u # <<r[1], r[2] + 1>>,
         \A l : Left(r, ranges, l) => r # <<ranges[l][1], ranges[l][2] + 1>> /\ ~ AtMost(r, ranges[l]),
         \A k \in DOMAIN ranges : Below(k, r) => \E l : Left(r, ranges, l),
         NEW new, new = With(ranges, r, r)
  PROVE  RangesInv(new, known)
<1>1. /\ DOMAIN ranges \subseteq RecordId
      /\ \A s \in DOMAIN ranges : ranges[s] \in RecordId
  BY Zenon DEF RangesInv
<1>2. DOMAIN ranges \subseteq Pairs /\ r \in Pairs /\ \A s \in DOMAIN ranges : ranges[s] \in Pairs
  BY Zenon, <1>1, SizesAre
<1>3. /\ DOMAIN new = DOMAIN ranges \cup {r} /\ new[r] = r
      /\ \A s \in DOMAIN new : s # r => s \in DOMAIN ranges /\ new[s] = ranges[s]
      /\ new \in [DOMAIN new -> RecordId] /\ DOMAIN new \subseteq RecordId
  BY Zenon, <1>1 DEF With
<1>4. r[1] \in LSNs /\ lastIndex(r[1]) = log[r[1]] - 1 /\ r[2] \in Nat /\ log[r[1]] \in Nat
  BY SizesAre
<1>5. endsIn(new, known)
  BY <1>3, <1>4 DEF RangesInv, endsIn
<1>6. /\ \A s, t \in DOMAIN ranges : Below(s, t) => Below(ranges[s], ranges[t])
      /\ \A s \in DOMAIN ranges : AtMost(s, ranges[s])
  BY Zenon DEF RangesInv, ordered
<1>7. \A s \in DOMAIN new : AtMost(s, new[s])
  BY Zenon, <1>3, <1>6 DEF AtMost
<1>8. ASSUME NEW s \in DOMAIN ranges, Below(s, r)
      PROVE  Below(ranges[s], r) /\ r # <<ranges[s][1], ranges[s][2] + 1>>
  <2>1. PICK l : Left(r, ranges, l)
    BY Zenon, <1>8
  <2>2. l \in DOMAIN ranges /\ Below(l, r) /\ AtMost(s, l)
    BY Zenon, <1>8, <2>1 DEF Left
  <2>3. Below(ranges[l], r)
    BY Zenon, <1>2, <2>1, <2>2, Order DEF AtMost
  <2>4. CASE s = l
    BY Zenon, <2>1, <2>3, <2>4
  <2>5. CASE s # l
    <3>1. Below(ranges[s], ranges[l])
      BY Zenon, <1>6, <2>2, <2>5 DEF AtMost
    <3>2. Below(ranges[s], r)
      BY Zenon, <1>2, <2>2, <2>3, <3>1, Order
    <3>3. ranges[s][1] \in Nat /\ ranges[s][2] \in Nat /\ ranges[l][1] \in Nat /\ ranges[l][2] \in Nat
      BY Zenon, <1>2, <2>2 DEF Pairs
    <3>4. r # <<ranges[s][1], ranges[s][2] + 1>>
      BY <2>3, <3>1, <3>3 DEF Below
    <3> QED
      BY Zenon, <3>2, <3>4
  <2> QED
    BY Zenon, <2>4, <2>5
<1>9. ASSUME NEW s \in DOMAIN new, NEW t \in DOMAIN new, Below(s, t)
      PROVE  /\ Below(new[s], new[t])
             /\ AtMost(t, new[s]) => new[s][2] = lastIndex(new[s][1])
             /\ t # <<new[s][1], new[s][2] + 1>>
  <2>1. CASE s = r
    <3>1. t # r /\ t \in DOMAIN ranges /\ t \in Pairs
      BY Zenon, <1>2, <1>3, <1>9, <2>1, Order
    <3>2. ~ AtMost(t, r) /\ Below(r, ranges[t])
      BY Zenon, <1>2, <1>6, <1>9, <2>1, <3>1, Order DEF AtMost
    <3> QED
      BY Zenon, <1>3, <2>1, <3>1, <3>2
  <2>2. CASE s # r /\ t = r
    <3>1. s \in DOMAIN ranges /\ Below(ranges[s], r) /\ r # <<ranges[s][1], ranges[s][2] + 1>>
      BY Zenon, <1>3, <1>8, <1>9, <2>2
    <3>2. ~ AtMost(r, ranges[s])
      BY Zenon, <1>2, <3>1, Order DEF AtMost
    <3> QED
      BY Zenon, <1>3, <2>2, <3>1, <3>2
  <2>3. CASE s # r /\ t # r
    BY <1>3, <1>9, <2>3 DEF RangesInv, ordered
  <2> QED
    BY Zenon, <2>1, <2>2, <2>3
<1>10. ordered(new)
  BY Zenon, <1>7, <1>9 DEF ordered
<1>11. sound(new)
  <2> SUFFICES ASSUME NEW s \in DOMAIN new, NEW x \in Records, AtMost(s, x), AtMost(x, new[s])
               PROVE  x \in acked
    BY Zenon DEF sound
  <2>1. CASE s # r
    BY Zenon, <1>3, <2>1 DEF RangesInv, sound
  <2>2. CASE s = r
    <3>1. x \in Pairs
      BY Zenon, SizesAre
    <3>2. x = r
      BY <1>2, <1>3, <2>2, <3>1, Order DEF AtMost
    <3> QED
      BY Zenon, <3>2
  <2> QED
    BY Zenon, <2>1, <2>2
<1> QED
  BY Zenon, <1>3, <1>5, <1>10, <1>11 DEF RangesInv

\* insertAckedRecordId keeps the ranges in order, and right.
LEMMA Inserted ==
  ASSUME LogInv, NEW map, DOMAIN map \subseteq LSNs, \A b \in DOMAIN map : map[b] = log[b],
         NEW ranges, RangesInv(ranges, DOMAIN map), NEW lowerBound, NEW r \in RecordId, r \in acked,
         insertAckedRecordId(r, lowerBound, ranges, map) # Nothing
  PROVE  RangesInv(insertAckedRecordId(r, lowerBound, ranges, map), DOMAIN map)
<1> DEFINE left == lookupLTWithDefault(r, ranges)
           right == lookupGTWithDefault(r, ranges)
           toLeft == isSuccessor(r, left[2], map)
           toRight == isPrecursor(r, right[1], map)
           duplicate == \E range \in {left, right} : AtMost(range[1], r) /\ AtMost(r, range[2])
           new == insertAckedRecordId(r, lowerBound, ranges, map)
<1>1. /\ isValidRecordId(r, map) /\ r \notin DOMAIN ranges
      /\ new = IF toLeft /\ toRight THEN [Without(ranges, right[1]) EXCEPT ![left[1]] = right[2]]
               ELSE IF toLeft THEN [ranges EXCEPT ![left[1]] = r]
               ELSE IF toRight THEN With(Without(ranges, right[1]), r, right[2])
               ELSE IF duplicate THEN Nothing
               ELSE With(ranges, r, r)
  BY Zenon DEF insertAckedRecordId
<1> HIDE DEF new, toLeft, toRight
<1>2. r[1] \in DOMAIN map /\ r[2] < log[r[1]]
  BY Zenon, <1>1 DEF isValidRecordId
<1>3. DOMAIN ranges \subseteq RecordId /\ \A s \in DOMAIN ranges : ranges[s] \in RecordId
  BY Zenon DEF RangesInv
<1>4. \/ left = <<minBound, minBound>> /\ \A k \in DOMAIN ranges : ~ Below(k, r)
      \/ \E l : Left(r, ranges, l) /\ left = <<l, ranges[l]>>
  BY Zenon, <1>3, LeftIs
<1>5. \/ right = <<maxBound, maxBound>> /\ \A k \in DOMAIN ranges : ~ Below(r, k)
      \/ \E u : Right(r, ranges, u) /\ right = <<u, ranges[u]>>
  BY Zenon, <1>3, RightIs
<1> HIDE DEF left, right
<1>6. \A k \in DOMAIN ranges : Below(k, r) => \E l : Left(r, ranges, l)
  BY Zenon, <1>4
<1>7. \A l : Left(r, ranges, l) => left = <<l, ranges[l]>>
  <2> SUFFICES ASSUME NEW l, Left(r, ranges, l) PROVE left = <<l, ranges[l]>>
    BY Zenon
  <2>1. PICK k : Left(r, ranges, k) /\ left = <<k, ranges[k]>>
    BY Zenon, <1>4 DEF Left
  <2>2. k \in Pairs /\ l \in Pairs /\ AtMost(k, l) /\ AtMost(l, k)
    BY Zenon, <1>3, <2>1, SizesAre DEF Left
  <2> QED
    BY Zenon, <2>1, <2>2, Order DEF AtMost
<1>8. ASSUME toLeft
      PROVE  \E l : /\ Left(r, ranges, l) /\ left = <<l, ranges[l]>>
                    /\ Adjacent(ranges[l], r) /\ Below(ranges[l], r)
  <2>1. left # <<minBound, minBound>>
    BY <1>8 DEF toLeft, isSuccessor
  <2>2. PICK l : Left(r, ranges, l) /\ left = <<l, ranges[l]>>
    BY Zenon, <1>4, <2>1
  <2>3. isSuccessor(r, ranges[l], map)
    BY Zenon, <1>8, <2>2 DEF toLeft
  <2>4. Adjacent(ranges[l], r) /\ Below(ranges[l], r)
    BY Zenon, <2>3, SuccessorIs
  <2> QED
    BY Zenon, <2>2, <2>4
<1>9. ASSUME toRight
      PROVE  \E u : Right(r, ranges, u) /\ right = <<u, ranges[u]>> /\ Adjacent(r, u)
  <2>1. right # <<maxBound, maxBound>>
    BY <1>9 DEF toRight, isPrecursor
  <2>2. PICK u : Right(r, ranges, u) /\ right = <<u, ranges[u]>>
    BY Zenon, <1>5, <2>1
  <2>3. isSuccessor(u, r, map)
    BY Zenon, <1>9, <2>2 DEF toRight, isPrecursor
  <2>4. u \in RecordId
    BY Zenon, <1>3, <2>2 DEF Right
  <2>5. Adjacent(r, u)
    BY Zenon, <2>3, <2>4, SuccessorIs
  <2> QED
    BY Zenon, <2>2, <2>5
<1>10. ASSUME ~ toLeft, NEW l, Left(r, ranges, l) PROVE r # <<ranges[l][1], ranges[l][2] + 1>>
  <2>1. left = <<l, ranges[l]>>
    BY Zenon, <1>7, <1>10
  <2>2. ranges[l] \in RecordId
    BY Zenon, <1>3, <1>10 DEF Left
  <2>3. ranges[l] # minBound /\ ranges[l][2] \in Nat /\ ranges[l][1] \in Nat
    BY <2>2, SizesAre DEF minBound, LSNs
  <2> QED
    BY <1>10, <2>1, <2>3 DEF toLeft, isSuccessor, Below
<1>11. ASSUME ~ toRight, NEW u \in DOMAIN ranges PROVE u # <<r[1], r[2] + 1>>
  <2> SUFFICES ASSUME u = <<r[1], r[2] + 1>> PROVE FALSE
    BY Zenon
  <2>1. r[1] \in Nat /\ r[2] \in Nat /\ u[1] = r[1] /\ u[2] = r[2] + 1 /\ r = <<r[1], r[2]>>
    BY SizesAre DEF LSNs
  <2>2. Below(r, u)
    BY <2>1 DEF Below
  <2>3. PICK k : Right(r, ranges, k) /\ right = <<k, ranges[k]>>
    BY Zenon, <1>5, <2>2
  <2>4. k = u
    <3>1. Below(r, k) /\ AtMost(k, u) /\ k \in Pairs
      BY Zenon, <1>3, <2>2, <2>3, SizesAre DEF Right
    <3>2. ~ Below(k, u)
      BY <2>1, <3>1 DEF Below, Pairs
    <3> QED
      BY Zenon, <3>1, <3>2 DEF AtMost
  <2>5. u # maxBound
    BY <1>3, <2>1, SizesAre DEF maxBound, LSNs
  <2>6. r # minBound
    BY SizesAre DEF minBound, LSNs
  <2> QED
    BY Zenon, <1>11, <2>1, <2>2, <2>3, <2>4, <2>5, <2>6 DEF toRight, isPrecursor, isSuccessor
<1>12. CASE toLeft /\ toRight
  <2>1. PICK l : /\ Left(r, ranges, l) /\ left = <<l, ranges[l]>>
                 /\ Adjacent(ranges[l], r) /\ Below(ranges[l], r)
    BY Zenon, <1>8, <1>12
  <2>2. PICK u : Right(r, ranges, u) /\ right = <<u, ranges[u]>> /\ Adjacent(r, u)
    BY Zenon, <1>9, <1>12
  <2>3. new = [Without(ranges, u) EXCEPT ![l] = ranges[u]]
    BY Zenon, <1>1, <1>12, <2>1, <2>2
  <2>4. r \notin DOMAIN ranges
    BY Zenon, <1>1
  <2> HIDE DEF new
  <2>5. RangesInv(new, DOMAIN map)
    BY Zenon, <2>1, <2>2, <2>3, <2>4, Join
  <2> QED
    BY Zenon, <2>5 DEF new
<1>13. CASE toLeft /\ ~ toRight
  <2>1. PICK l : /\ Left(r, ranges, l) /\ left = <<l, ranges[l]>>
                 /\ Adjacent(ranges[l], r) /\ Below(ranges[l], r)
    BY Zenon, <1>8, <1>13
  <2>2. new = [ranges EXCEPT ![l] = r]
    BY Zenon, <1>1, <1>13, <2>1
  <2>3. \A u \in DOMAIN ranges : u # <<r[1], r[2] + 1>>
    BY Zenon, <1>11, <1>13
  <2>4. RangesInv(new, DOMAIN map)
    BY Zenon, <1>1, <1>2, <2>1, <2>2, <2>3, Extend
  <2> QED
    BY Zenon, <2>4 DEF new
<1>14. CASE ~ toLeft /\ toRight
  <2>1. PICK u : Right(r, ranges, u) /\ right = <<u, ranges[u]>> /\ Adjacent(r, u)
    BY Zenon, <1>9, <1>14
  <2>2. new = With(Without(ranges, u), r, ranges[u])
    BY Zenon, <1>1, <1>14, <2>1
  <2>3. \A l : Left(r, ranges, l) => r # <<ranges[l][1], ranges[l][2] + 1>>
    BY Zenon, <1>10, <1>14
  <2>4. RangesInv(new, DOMAIN map)
    BY Zenon, <1>1, <1>2, <1>6, <2>1, <2>2, <2>3, Prepend
  <2> QED
    BY Zenon, <2>4 DEF new
<1>15. CASE ~ toLeft /\ ~ toRight
  <2>1. ~ duplicate /\ new = With(ranges, r, r)
    BY Zenon, <1>1, <1>15 DEF new
  <2>2. ASSUME NEW l, Left(r, ranges, l) PROVE ~ AtMost(r, ranges[l])
    <3>1. left = <<l, ranges[l]>> /\ AtMost(l, r)
      BY Zenon, <1>7, <2>2 DEF Left, AtMost
    <3> QED
      BY Zenon, <2>1, <3>1
  <2>3. \A l : Left(r, ranges, l) => r # <<ranges[l][1], ranges[l][2] + 1>>
    BY Zenon, <1>10, <1>15
  <2>4. \A u \in DOMAIN ranges : u # <<r[1], r[2] + 1>>
    BY Zenon, <1>11, <1>15
  <2>5. RangesInv(new, DOMAIN map)
    BY Zenon, <1>1, <1>2, <1>6, <2>1, <2>2, <2>3, <2>4, Add
  <2> QED
    BY Zenon, <2>5 DEF new
<1> QED
  BY Zenon, <1>12, <1>13, <1>14, <1>15

-----------------------------------------------------------------------------
(* insertAll, and what doAck commits.                                      *)

\* insertAll, whatever the ids of an acknowledgement and their order: by least
\* counterexample over the number of ids inserted.
LEMMA Insertions ==
  ASSUME LogInv, MapInv, RangesInv(awAckedRanges, DOMAIN awBatchNumMap),
         acked \subseteq RecordId, NEW ids \in Seq(acked)
  PROVE  RangesInv(insertAll(ids).ranges, DOMAIN awBatchNumMap)
<1> DEFINE first == [ranges |-> awAckedRanges, updated |-> 0]
           after(a, r) == LET ranges == insertAckedRecordId(r, awWindowLowerBound, a.ranges, awBatchNumMap)
                          IN  IF ranges = Nothing THEN a ELSE [ranges |-> ranges, updated |-> a.updated + 1]
           body(g, n) == IF n = 0 THEN first ELSE after(g[n - 1], ids[n])
           acc == CHOOSE g : g = [n \in 0..Len(ids) |-> body(g, n)]
           known == DOMAIN awBatchNumMap
<1>1. insertAll(ids) = acc[Len(ids)]
  BY Zenon DEF insertAll
<1>2. RangesInv(first.ranges, known)
  BY Zenon
<1>3. ASSUME NEW a, RangesInv(a.ranges, known), NEW r \in acked
      PROVE  RangesInv(after(a, r).ranges, known)
  <2>1. r \in RecordId
    BY Zenon
  <2> DEFINE ranges == insertAckedRecordId(r, awWindowLowerBound, a.ranges, awBatchNumMap)
  <2>2. CASE ranges = Nothing
    BY Zenon, <1>3, <2>2
  <2>3. CASE ranges # Nothing
    <3>1. RangesInv(ranges, known)
      BY Zenon, <1>3, <2>1, <2>3, Inserted DEF MapInv
    <3>2. after(a, r).ranges = ranges
      BY Zenon, <2>3
    <3> QED
      BY Zenon, <3>1, <3>2
  <2> QED
    BY Zenon, <2>2, <2>3
<1>4. Len(ids) \in Nat /\ \A n \in 1..Len(ids) : ids[n] \in acked
  OBVIOUS
<1> HIDE DEF after, first, known
<1>5. \A m \in Nat : \E g : g = [n \in 0..m |-> body(g, n)]
  <2> DEFINE Bad == {m \in Nat : ~ \E g : g = [n \in 0..m |-> body(g, n)]}
  <2> SUFFICES ASSUME Bad # {} PROVE FALSE
    BY Zenon
  <2>1. PICK m \in Bad : \A k \in Bad : m <= k
    <3>1. Bad \subseteq Nat
      BY Zenon
    <3> HIDE DEF Bad
    <3> QED
      BY Zenon, <3>1, LeastOf
  <2>2. CASE m = 0
    <3> DEFINE g == [n \in 0..m |-> first]
    <3>1. \A n \in 0..m : body(g, n) = first
      BY <2>2
    <3>2. g = [n \in 0..m |-> body(g, n)]
      BY Zenon, <3>1
    <3> HIDE DEF g
    <3> QED
      BY Zenon, <2>1, <3>2
  <2>3. CASE m # 0
    <3>1. m \in Nat /\ m - 1 \in Nat /\ m - 1 \notin Bad
      <4>1. m \in Nat
        BY Zenon, <2>1
      <4> HIDE DEF Bad
      <4> QED
        BY <2>1, <2>3, <4>1
    <3>2. PICK g : g = [n \in 0..(m - 1) |-> body(g, n)]
      BY Zenon, <3>1
    <3> DEFINE h == [n \in 0..m |-> IF n < m THEN g[n] ELSE body(g, m)]
    <3>3. \A n \in 0..m : h[n] = body(h, n)
      <4> SUFFICES ASSUME NEW n \in 0..m PROVE h[n] = body(h, n)
        BY Zenon
      <4>1. n # 0 => n - 1 \in 0..m /\ n - 1 < m /\ h[n - 1] = g[n - 1]
        BY <3>1
      <4>2. body(h, n) = body(g, n)
        BY Zenon, <4>1
      <4>3. CASE n < m
        <5>1. n \in 0..(m - 1) /\ h[n] = g[n]
          BY <3>1, <4>3
        <5>2. g[n] = body(g, n)
          BY Zenon, <3>2, <5>1
        <5> QED
          BY Zenon, <4>2, <5>1, <5>2
      <4>4. CASE n = m
        BY <3>1, <4>2, <4>4
      <4> QED
        BY <3>1, <4>3, <4>4
    <3>4. h = [n \in 0..m |-> h[n]]
      BY Zenon
    <3> HIDE DEF h
    <3>5. h = [n \in 0..m |-> body(h, n)]
      BY Zenon, <3>3, <3>4
    <3> QED
      BY Zenon, <3>5, <2>1
  <2> QED
    BY Zenon, <2>2, <2>3
<1>6. acc = [n \in 0..Len(ids) |-> body(acc, n)]
  BY Zenon, <1>4, <1>5
<1> HIDE DEF acc
<1>7. acc[0] = first /\ \A n \in 1..Len(ids) : acc[n] = after(acc[n - 1], ids[n])
  <2>1. \A n \in 0..Len(ids) : acc[n] = body(acc, n)
    BY Zenon, <1>6
  <2> QED
    BY <1>4, <2>1
<1> HIDE DEF body
<1>8. \A n \in 0..Len(ids) : RangesInv(acc[n].ranges, known)
  <2> DEFINE Bad == {n \in 0..Len(ids) : ~ RangesInv(acc[n].ranges, known)}
  <2> SUFFICES ASSUME Bad # {} PROVE FALSE
    BY Zenon
  <2>1. PICK m \in Bad : \A k \in Bad : m <= k
    <3>1. Bad \subseteq Nat
      BY <1>4
    <3> HIDE DEF Bad
    <3> QED
      BY Zenon, <3>1, LeastOf
  <2>2. m # 0
    BY Zenon, <1>2, <1>7, <2>1
  <2>3. m - 1 \in 0..Len(ids) /\ m \in 1..Len(ids) /\ m - 1 \notin Bad
    BY <1>4, <2>1, <2>2
  <2>4. RangesInv(acc[m - 1].ranges, known)
    BY Zenon, <2>3
  <2> QED
    BY Zenon, <1>3, <1>4, <1>7, <2>1, <2>3, <2>4
<1>9. RangesInv(acc[Len(ids)].ranges, known)
  BY <1>4, <1>8
<1> QED
  BY Zenon, <1>1, <1>9 DEF known

\* The index before the first wraps: the end of a batch without records is W - 1.
LEMMA LastIndexIs ==
  ASSUME NEW n \in 0..W - 2
  PROVE  (n + W - 1) % W = IF n = 0 THEN W - 1 ELSE n - 1
<1>1. W \in Nat /\ W > 0
  BY WordAssumption
<1>2. CASE n = 0
  BY <1>1, <1>2
<1>3. CASE n # 0
  BY <1>1, <1>3
<1> QED
  BY Zenon, <1>2, <1>3

\* A map without keys is the empty map.
LEMMA NoKeys == ASSUME NEW S, NEW f \in [{} -> S] PROVE f = <<>>
<1>1. <<>> \in [{} -> S]
  OBVIOUS
<1> QED
  BY <1>1

\* What doAck commits is acknowledged, and the window that is left is right.
LEMMA Committed ==
  ASSUME LogInv, MapInv, LowerInv, NEW ranges, RangesInv(ranges, DOMAIN awBatchNumMap),
         NEW commit, commit = getCommitRecordId(ranges, awBatchNumMap),
         NEW moved, moved = tryUpdateWindowLowerBound(ranges, awWindowLowerBound, awBatchNumMap, commit),
         moved # Nothing
  PROVE  /\ coversOnlyAcked(commit[1]) /\ commit[1] <= MaxLSN
         /\ RangesInv(moved.ranges, {b \in DOMAIN awBatchNumMap : b > commit[1]})
         /\ moved.lowerBound \in Nat \X Nat
         /\ \A r \in Records : Below(r, moved.lowerBound) => r \in acked
<1> DEFINE known == DOMAIN awBatchNumMap
           start == Minimum(DOMAIN ranges)
           end == ranges[start]
<1>1. ranges # <<>> /\ commit # Nothing
  BY Zenon DEF tryUpdateWindowLowerBound
<1>2. DOMAIN ranges \subseteq RecordId /\ ranges \in [DOMAIN ranges -> RecordId]
  BY Zenon DEF RangesInv
<1>3. DOMAIN ranges # {}
  BY Zenon, <1>1, <1>2, NoKeys
<1>4. DOMAIN ranges \subseteq Pairs /\ \A s \in DOMAIN ranges : ranges[s] \in Pairs
  BY Zenon, <1>2, SizesAre
<1>5. start \in DOMAIN ranges /\ \A s \in DOMAIN ranges : AtMost(start, s)
  BY Zenon, <1>3, <1>4, MinimumIs
<1>6. /\ awWindowLowerBound = start
      /\ moved = IF end[1] = commit[1]
                 THEN [ranges |-> Without(ranges, start), lowerBound |-> getSuccessor(end, awBatchNumMap)]
                 ELSE [ranges |-> With(Without(ranges, start), getSuccessor(commit, awBatchNumMap), end),
                       lowerBound |-> getSuccessor(commit, awBatchNumMap)]
  BY Zenon, <1>1 DEF tryUpdateWindowLowerBound
<1>7. \A b \in known : /\ b \in LSNs /\ b \in Nat /\ awBatchNumMap[b] = log[b] /\ log[b] \in 0..W - 2
                       /\ (awBatchNumMap[b] + W - 1) % W = lastIndex(b)
  <2>1. \A b \in known : b \in LSNs /\ awBatchNumMap[b] = log[b] /\ log[b] \in 0..W - 2
    BY Zenon, SizesAre DEF MapInv
  <2> QED
    BY <2>1, LastIndexIs DEF lastIndex, LSNs
<1>8. /\ end[1] \in known
      /\ \/ end[2] = lastIndex(end[1]) /\ commit = end
         \/ /\ end[2] # lastIndex(end[1]) /\ end[1] - 1 \in known
            /\ commit = <<end[1] - 1, lastIndex(end[1] - 1)>>
  <2>1. end[1] \in known
    BY Zenon, <1>5 DEF RangesInv, endsIn
  <2>2. commit = IF end[2] = (awBatchNumMap[end[1]] + W - 1) % W THEN end
                 ELSE IF end[1] - 1 \in known
                 THEN <<end[1] - 1, (awBatchNumMap[end[1] - 1] + W - 1) % W>>
                 ELSE Nothing
    BY Zenon, <1>1, <2>1 DEF getCommitRecordId
  <2> HIDE DEF known, end
  <2> QED
    BY Zenon, <1>1, <1>7, <2>1, <2>2
<1>9. /\ end = <<end[1], end[2]>> /\ end[1] \in LSNs /\ end[1] \in Nat /\ end[1] <= MaxLSN
      /\ end[2] \in Nat /\ end[2] \in 0..W - 1 /\ end \in Pairs /\ end \in RecordId
      /\ end[2] <= lastIndex(end[1])
  <2>1. end \in RecordId
    BY Zenon, <1>2, <1>5
  <2>2. end[2] <= lastIndex(end[1])
    BY Zenon, <1>5 DEF RangesInv, endsIn
  <2> HIDE DEF end
  <2> QED
    BY <2>1, <2>2, SizesAre DEF LSNs
<1>10. \A s \in DOMAIN ranges : s # start =>
         /\ Below(start, s) /\ Below(end, ranges[s])
         /\ AtMost(s, end) => end[2] = lastIndex(end[1])
  BY Zenon, <1>5 DEF RangesInv, ordered, AtMost
<1>11. \A x \in Records : AtMost(x, end) => x \in acked
  <2> SUFFICES ASSUME NEW x \in Records, AtMost(x, end) PROVE x \in acked
    BY Zenon
  <2>1. x \in Pairs /\ start \in Pairs
    BY Zenon, <1>4, <1>5, SizesAre
  <2>2. CASE Below(x, start)
    BY Zenon, <1>6, <2>2 DEF LowerInv
  <2>3. CASE AtMost(start, x)
    BY Zenon, <1>5, <2>3 DEF RangesInv, sound
  <2> QED
    BY Zenon, <2>1, <2>2, <2>3, Order DEF AtMost
<1>12. \A b \in known : getSuccessor(<<b, lastIndex(b)>>, awBatchNumMap) = <<b + 1, 0>>
  <2> SUFFICES ASSUME NEW b \in known PROVE isLastInBatch(<<b, lastIndex(b)>>, awBatchNumMap)
    BY Zenon DEF getSuccessor
  <2> QED
    BY Zenon, <1>7 DEF isLastInBatch, lastIndex
<1>13. \A x \in Records : /\ x = <<x[1], x[2]>> /\ x[1] \in Nat /\ x[2] \in Nat /\ x[2] < log[x[1]]
                          /\ log[x[1]] \in Nat /\ lastIndex(x[1]) = log[x[1]] - 1
  BY SizesAre DEF LSNs
<1> HIDE DEF known, start, end
<1>14. CASE end[2] = lastIndex(end[1]) /\ commit = end
  <2>1. getSuccessor(end, awBatchNumMap) = <<end[1] + 1, 0>>
    <3>1. end = <<end[1], lastIndex(end[1])>>
      BY Zenon, <1>9, <1>14
    <3>2. getSuccessor(<<end[1], lastIndex(end[1])>>, awBatchNumMap) = <<end[1] + 1, 0>>
      BY Zenon, <1>8, <1>12
    <3> QED
      BY Zenon, <3>1, <3>2
  <2>2. moved.ranges = Without(ranges, start) /\ moved.lowerBound = <<end[1] + 1, 0>>
    BY <1>6, <1>14, <2>1
  <2>3. \A x \in Records : x[1] <= end[1] => x \in acked
    <3> SUFFICES ASSUME NEW x \in Records, x[1] <= end[1] PROVE x \in acked
      BY Zenon
    <3>1. AtMost(x, end)
      <4>1. x[1] = end[1] => x[2] <= end[2]
        BY <1>9, <1>13, <1>14
      <4>2. CASE x[1] < end[1]
        BY Zenon, <4>2 DEF AtMost, Below
      <4>3. CASE x[1] = end[1] /\ x[2] < end[2]
        BY Zenon, <4>3 DEF AtMost, Below
      <4>4. CASE x[1] = end[1] /\ x[2] = end[2]
        BY Zenon, <1>9, <1>13, <4>4 DEF AtMost
      <4> QED
        BY <1>9, <1>13, <4>1, <4>2, <4>3, <4>4
    <3> QED
      BY Zenon, <1>11, <3>1
  <2>4. coversOnlyAcked(commit[1]) /\ commit[1] <= MaxLSN
    BY Zenon, <1>9, <1>14, <2>3 DEF coversOnlyAcked
  <2>5. ASSUME NEW x \in Records, Below(x, moved.lowerBound) PROVE x \in acked
    <3>1. x[1] <= end[1]
      BY <1>9, <1>13, <2>2, <2>5 DEF Below
    <3> QED
      BY Zenon, <2>3, <3>1
  <2>6. moved.lowerBound \in Nat \X Nat
    BY <1>9, <2>2
  <2> DEFINE new == Without(ranges, start)
  <2>7. /\ DOMAIN new = DOMAIN ranges \ {start} /\ \A s \in DOMAIN new : new[s] = ranges[s]
        /\ new \in [DOMAIN new -> RecordId]
    BY Zenon, <1>2 DEF Without
  <2> HIDE DEF new
  <2>8. \A s \in DOMAIN new : ranges[s][1] \in known /\ ranges[s][1] > end[1] /\ ranges[s][2] <= lastIndex(ranges[s][1])
    <3> SUFFICES ASSUME NEW s \in DOMAIN new
                 PROVE  ranges[s][1] \in known /\ ranges[s][1] > end[1] /\ ranges[s][2] <= lastIndex(ranges[s][1])
      BY Zenon
    <3>1. ranges[s][1] \in known /\ ranges[s][2] <= lastIndex(ranges[s][1])
      BY Zenon, <2>7 DEF RangesInv, endsIn, known
    <3>2. Below(end, ranges[s])
      BY Zenon, <1>10, <2>7
    <3>3. ranges[s][1] \in Nat /\ ranges[s][2] \in Nat
      BY Zenon, <1>4, <2>7 DEF Pairs
    <3> QED
      BY <1>9, <1>14, <3>1, <3>2, <3>3 DEF Below
  <2>9. endsIn(new, {b \in known : b > end[1]})
    BY Zenon, <2>7, <2>8 DEF endsIn
  <2>10. ordered(new) /\ sound(new)
    BY Zenon, <2>7 DEF RangesInv, ordered, sound
  <2>11. RangesInv(new, {b \in known : b > end[1]})
    BY Zenon, <1>2, <2>7, <2>9, <2>10 DEF RangesInv
  <2> QED
    BY Zenon, <1>14, <2>2, <2>4, <2>5, <2>6, <2>11 DEF new, known
<1>15. CASE /\ end[2] # lastIndex(end[1]) /\ end[1] - 1 \in known
            /\ commit = <<end[1] - 1, lastIndex(end[1] - 1)>>
  <2>1. /\ getSuccessor(commit, awBatchNumMap) = <<end[1], 0>>
        /\ commit[1] = end[1] - 1 /\ commit[1] # end[1] /\ commit[1] \in Nat
    <3>1. (end[1] - 1) + 1 = end[1] /\ end[1] - 1 # end[1]
      BY <1>9
    <3> QED
      BY <1>7, <1>12, <1>15, <3>1
  <2> DEFINE first == <<end[1], 0>>
             new == With(Without(ranges, start), first, end)
  <2>2. moved.ranges = new /\ moved.lowerBound = first
    BY <1>6, <2>1
  <2>3. \A x \in Records : x[1] < end[1] => x \in acked
    BY Zenon, <1>11 DEF AtMost, Below
  <2>4. coversOnlyAcked(commit[1]) /\ commit[1] <= MaxLSN
    <3>1. \A x \in Records : x[1] <= commit[1] => x \in acked
      BY <1>9, <1>13, <2>1, <2>3
    <3>2. MaxLSN \in Nat
      BY Zenon, WordAssumption
    <3> QED
      BY <1>9, <2>1, <3>1, <3>2 DEF coversOnlyAcked
  <2>5. ASSUME NEW x \in Records, Below(x, first) PROVE x \in acked
    BY <1>9, <1>13, <2>3, <2>5 DEF Below
  <2>6. first \in Nat \X Nat /\ first \in RecordId /\ first \in Pairs /\ AtMost(first, end)
    <3>1. first \in RecordId
      BY <1>9, WordAssumption DEF RecordId, Indexes
    <3>2. AtMost(first, end)
      BY <1>9 DEF AtMost, Below
    <3> QED
      BY Zenon, <1>9, <3>1, <3>2 DEF Pairs
  <2>7. /\ DOMAIN new = (DOMAIN ranges \ {start}) \cup {first} /\ new[first] = end
        /\ \A s \in DOMAIN new : s # first => s \in DOMAIN ranges /\ s # start /\ new[s] = ranges[s]
        /\ new \in [DOMAIN new -> RecordId] /\ DOMAIN new \subseteq RecordId
    BY Zenon, <1>2, <1>9, <2>6 DEF With, Without
  <2> HIDE DEF first, new
  <2>8. \A s \in DOMAIN new : s # first => Below(end, s) /\ Below(first, s)
    <3> SUFFICES ASSUME NEW s \in DOMAIN new, s # first PROVE Below(end, s) /\ Below(first, s)
      BY Zenon
    <3>1. s \in DOMAIN ranges /\ s # start /\ s \in Pairs
      BY Zenon, <1>4, <2>7
    <3>2. ~ AtMost(s, end)
      BY Zenon, <1>10, <1>15, <3>1
    <3>3. Below(end, s)
      BY Zenon, <1>9, <3>1, <3>2, Order DEF AtMost
    <3> QED
      BY Zenon, <1>9, <2>6, <3>1, <3>3, Order DEF AtMost
  <2>9. endsIn(new, {b \in known : b > commit[1]})
    <3> SUFFICES ASSUME NEW s \in DOMAIN new
                 PROVE  new[s][1] \in known /\ new[s][1] > commit[1] /\ new[s][2] <= lastIndex(new[s][1])
      BY Zenon DEF endsIn
    <3>1. CASE s = first
      BY <1>8, <1>9, <2>1, <2>7, <3>1
    <3>2. CASE s # first
      <4>1. ranges[s][1] \in known /\ ranges[s][2] <= lastIndex(ranges[s][1]) /\ new[s] = ranges[s]
        BY Zenon, <2>7, <3>2 DEF RangesInv, endsIn, known
      <4>2. Below(end, ranges[s]) /\ ranges[s][1] \in Nat
        BY Zenon, <1>4, <1>10, <2>7, <3>2 DEF Pairs
      <4> QED
        BY <1>9, <2>1, <4>1, <4>2 DEF Below
    <3> QED
      BY Zenon, <3>1, <3>2
  <2>10. ASSUME NEW s \in DOMAIN new, NEW t \in DOMAIN new, Below(s, t)
         PROVE  /\ Below(new[s], new[t])
                /\ AtMost(t, new[s]) => new[s][2] = lastIndex(new[s][1])
                /\ t # <<new[s][1], new[s][2] + 1>>
    <3>1. t # first
      <4>1. s # first => Below(first, s)
        BY Zenon, <2>8
      <4> QED
        BY Zenon, <1>4, <2>6, <2>7, <2>10, <4>1, Order
    <3>2. t \in DOMAIN ranges /\ t # start /\ new[t] = ranges[t]
      BY Zenon, <2>7, <3>1
    <3>3. CASE s = first
      <4>1. Below(end, ranges[t]) /\ ~ AtMost(t, end)
        BY Zenon, <1>10, <1>15, <3>2
      <4>2. t # <<end[1], end[2] + 1>>
        <5>1. Below(start, t)
          BY Zenon, <1>10, <3>2
        <5> QED
          BY Zenon, <1>5, <3>2, <5>1 DEF RangesInv, ordered, end
      <4> QED
        BY Zenon, <2>7, <3>2, <3>3, <4>1, <4>2
    <3>4. CASE s # first
      BY Zenon, <2>7, <2>10, <3>2, <3>4 DEF RangesInv, ordered
    <3> QED
      BY Zenon, <3>3, <3>4
  <2>11. ordered(new)
    <3>1. \A s \in DOMAIN new : AtMost(s, new[s])
      BY Zenon, <2>6, <2>7 DEF RangesInv, ordered
    <3> QED
      BY Zenon, <2>10, <3>1 DEF ordered
  <2>12. sound(new)
    <3> SUFFICES ASSUME NEW s \in DOMAIN new, NEW x \in Records, AtMost(s, x), AtMost(x, new[s])
                 PROVE  x \in acked
      BY Zenon DEF sound
    <3> QED
      BY Zenon, <1>11, <2>7 DEF RangesInv, sound
  <2>13. RangesInv(new, {b \in known : b > commit[1]})
    BY Zenon, <2>7, <2>9, <2>11, <2>12 DEF RangesInv
  <2> QED
    BY Zenon, <2>2, <2>4, <2>5, <2>6, <2>13 DEF known
<1> QED
  BY Zenon, <1>8, <1>14, <1>15

-----------------------------------------------------------------------------
(* Every step keeps WindowInv.                                             *)

\* The invariant holds when the subscription is initialised.
LEMMA InitWindow == Init => WindowInv
<1> SUFFICES ASSUME Init PROVE WindowInv
  BY Zenon
<1>1. /\ log \in Logs /\ awWindowLowerBound = <<1, 0>> /\ awAckedRanges = <<>> /\ awBatchNumMap = <<>>
      /\ next = 1 /\ step = "read" /\ acks = [h \in Handlers |-> idle] /\ checkpoint = 0
      /\ received = {} /\ acked = {} /\ checkList = {} /\ timeoutList = {} /\ resending = Nothing
  BY Zenon DEF Init
<1>2. LogInv
  BY Zenon, <1>1, LogsAssumption DEF LogInv
<1>3. DOMAIN awAckedRanges = {} /\ DOMAIN awBatchNumMap = {}
  BY <1>1
<1>4. MapInv /\ LoopInv /\ EntryInv
  BY <1>1, <1>3, WordAssumption DEF MapInv, LoopInv, EntryInv
<1>5. AckInv
  <2>1. <<>> \in Seq(acked)
    OBVIOUS
  <2>2. \A h \in Handlers : acks[h] = [step |-> "idle", ids |-> <<>>, keys |-> {}, lsn |-> 0]
    BY Zenon, <1>1 DEF idle
  <2> QED
    BY Zenon, <1>1, <2>1, <2>2 DEF AckInv, isThread
<1>6. \A r \in Records : r[1] \in Nat /\ r[2] \in Nat /\ r[1] >= 1
  BY <1>2, SizesAre DEF LSNs
<1>7. LowerInv
  BY <1>1, <1>6 DEF LowerInv, Below
<1>8. coversOnlyAcked(0)
  BY <1>6 DEF coversOnlyAcked
<1>9. CommitInv
  BY <1>1, <1>8, WordAssumption DEF CommitInv, idle
<1>10. awAckedRanges \in [{} -> RecordId]
  BY <1>1
<1>11. RangesInv(awAckedRanges, DOMAIN awBatchNumMap)
  BY Zenon, <1>3, <1>10 DEF RangesInv, endsIn, ordered, sound
<1> QED
  BY Zenon, <1>2, <1>4, <1>5, <1>7, <1>9, <1>11 DEF WindowInv

\* The log does not change, and what was acknowledged stays so.
LEMMA RangesPrimed ==
  ASSUME log' = log, acked \subseteq acked', RangesInv(awAckedRanges', DOMAIN awBatchNumMap')
  PROVE  RangesInv(awAckedRanges, DOMAIN awBatchNumMap)'
<1>1. /\ DOMAIN awAckedRanges' \subseteq RecordId /\ awAckedRanges' \in [DOMAIN awAckedRanges' -> RecordId]
  BY Zenon DEF RangesInv
<1>2. endsIn(awAckedRanges, DOMAIN awBatchNumMap)'
  BY Zenon DEF RangesInv, endsIn, lastIndex
<1>3. ordered(awAckedRanges)'
  BY Zenon DEF RangesInv, ordered, lastIndex
<1>4. sound(awAckedRanges)'
  BY Zenon DEF RangesInv, sound, Records
<1> QED
  BY Zenon, <1>1, <1>2, <1>3, <1>4 DEF RangesInv

\* Ranges of batches that are known stay right when more of them are known.
LEMMA MoreKnown ==
  ASSUME NEW ranges, NEW known, RangesInv(ranges, known), NEW more, known \subseteq more
  PROVE  RangesInv(ranges, more)
BY Zenon DEF RangesInv, endsIn

\* Steps of the loop and the resend job that leave the window alone.
LEMMA SameWindow ==
  ASSUME WindowInv, LoopInv', EntryInv',
         UNCHANGED <<log, awAckedRanges, awBatchNumMap, awWindowLowerBound, acked, acks, checkpoint>>,
         received \subseteq received', received' \subseteq RecordId
  PROVE  WindowInv'
<1>1. LogInv' /\ MapInv' /\ LowerInv'
  BY Zenon DEF WindowInv, LogInv, MapInv, LowerInv, Records
<1>2. AckInv'
  BY Zenon DEF WindowInv, AckInv
<1>3. CommitInv'
  BY Zenon DEF WindowInv, CommitInv, coversOnlyAcked, Records
<1>4. RangesInv(awAckedRanges, DOMAIN awBatchNumMap)'
  BY Zenon, RangesPrimed DEF WindowInv
<1> QED
  BY Zenon, <1>1, <1>2, <1>3, <1>4 DEF WindowInv

\* The ids of a batch are records of the log.
LEMMA IdsOf == ASSUME LogInv, NEW b \in LSNs PROVE idsOf(b) \subseteq RecordId /\ idsOf(b) \subseteq Records
<1>1. log[b] \in 0..W - 2 /\ W \in Nat
  BY Zenon, SizesAre
<1> QED
  BY <1>1 DEF idsOf, RecordId, Records, Indexes

\* The batch the loop works on is one of the log, with records.
LEMMA HeadIs == ASSUME LoopInv, step # "read"
                PROVE  Head(batches) \in LSNs /\ log[Head(batches)] # 0 /\ Len(batches) \in Nat /\ Len(batches) >= 1
<1>1. batches \in Seq(LSNs) /\ batches # <<>>
  BY Zenon DEF LoopInv
<1>2. Len(batches) \in Nat /\ Len(batches) >= 1 /\ Head(batches) = batches[1] /\ Head(batches) \in LSNs
  BY <1>1
<1> QED
  BY <1>2 DEF LoopInv

\* readRecordBatches reads consecutive batches beyond the ones that are known.
LEMMA ReadWindow == ASSUME WindowInv, NEW n \in 1..MaxRead, readRecordBatches(n) PROVE WindowInv'
<1>1. /\ step = "read" /\ next + n - 1 <= MaxLSN /\ \A b \in next..next + n - 1 : log[b] # 0
      /\ batches' = [i \in 1..n |-> next + i - 1] /\ next' = next + n /\ step' = "insert"
      /\ UNCHANGED <<log, awAckedRanges, awBatchNumMap, awWindowLowerBound, acked, acks, checkpoint, received,
                     checkList, timeoutList, resending>>
  BY Zenon DEF readRecordBatches, windowVars, clientVars, boundVars, resendVars
<1>2. n \in Nat /\ n >= 1 /\ MaxLSN \in Nat /\ next \in 1..MaxLSN + 1
  BY BoundsAssumption, WordAssumption DEF WindowInv, LoopInv
<1>3. \A i \in 1..n : next + i - 1 \in LSNs /\ next + i - 1 \in next..next + n - 1
  BY <1>1, <1>2 DEF LSNs
<1>4. batches' \in Seq(LSNs) /\ Len(batches') = n
  <2>1. batches' \in [1..n -> LSNs]
    BY Zenon, <1>1, <1>3
  <2> QED
    BY <1>2, <2>1
<1>5. Head(batches') = next /\ \A i \in 1..n : batches'[i] = next + i - 1
  <2>1. batches'[1] = next + 1 - 1 /\ \A i \in 1..n : batches'[i] = next + i - 1
    BY <1>1, <1>2
  <2>2. Head(batches') = batches'[1]
    BY <1>2, <1>4
  <2> QED
    BY <1>2, <2>1, <2>2
<1>6. LoopInv'
  <2>1. batches' # <<>>
    BY <1>2, <1>4
  <2>2. next' \in 1..MaxLSN + 1 /\ next' = Head(batches') + Len(batches')
    BY <1>1, <1>2, <1>4, <1>5
  <2>3. \A i \in 1..Len(batches') : batches'[i] = Head(batches') + i - 1 /\ log'[batches'[i]] # 0
    BY Zenon, <1>1, <1>3, <1>4, <1>5
  <2>4. \A b \in DOMAIN awBatchNumMap' : b <= Head(batches')
    BY Zenon, <1>1, <1>5 DEF WindowInv, LoopInv
  <2> QED
    BY Zenon, <1>1, <1>4, <2>1, <2>2, <2>3, <2>4 DEF LoopInv
<1>7. EntryInv'
  BY Zenon, <1>1 DEF WindowInv, EntryInv
<1> QED
  BY Zenon, <1>1, <1>6, <1>7, SameWindow DEF WindowInv, AckInv

\* A gap enters as a range; its ends become known batches of size 0.
LEMMA GapWindow == ASSUME WindowInv, NEW hi \in LSNs, readGap(hi) PROVE WindowInv'
<1>1. /\ step = "read" /\ hi >= next /\ \A b \in next..hi : log[b] = 0
      /\ awAckedRanges' = With(awAckedRanges, <<next, 0>>, <<hi, W - 1>>)
      /\ awBatchNumMap' = [b \in DOMAIN awBatchNumMap \cup {next, hi} |->
                             IF b \in DOMAIN awBatchNumMap THEN awBatchNumMap[b] ELSE 0]
      /\ next' = hi + 1 /\ step' = step
      /\ UNCHANGED <<log, awWindowLowerBound, acked, acks, checkpoint, received, batches, checkList, timeoutList, resending>>
  BY Zenon DEF readGap, clientVars, boundVars, resendVars
<1>2. /\ next \in LSNs /\ hi \in LSNs /\ next \in Nat /\ hi \in Nat /\ MaxLSN \in Nat /\ hi <= MaxLSN
      /\ log[next] = 0 /\ log[hi] = 0 /\ LogInv
  BY <1>1, WordAssumption DEF WindowInv, LoopInv, LSNs
<1>3. \A b \in DOMAIN awBatchNumMap : b \in LSNs /\ b \in Nat /\ b < next
  <2>1. \A b \in DOMAIN awBatchNumMap : b \in LSNs /\ b <= next /\ b # next
    BY Zenon, <1>1, <1>2 DEF WindowInv, LoopInv, MapInv
  <2> QED
    BY <1>2, <2>1 DEF LSNs
<1>4. DOMAIN awBatchNumMap' = DOMAIN awBatchNumMap \cup {next, hi}
  BY Zenon, <1>1
<1>5. LogInv' /\ MapInv' /\ LowerInv'
  BY Zenon, <1>1, <1>2, <1>4 DEF WindowInv, LogInv, MapInv, LowerInv, Records
<1>6. LoopInv'
  BY <1>1, <1>2, <1>3, <1>4 DEF LoopInv
<1>7. AckInv' /\ CommitInv' /\ EntryInv'
  <2>1. AckInv' /\ EntryInv'
    BY Zenon, <1>1 DEF WindowInv, AckInv, EntryInv
  <2>2. CommitInv'
    BY Zenon, <1>1 DEF WindowInv, CommitInv, coversOnlyAcked, Records
  <2> QED
    BY Zenon, <2>1, <2>2
<1> DEFINE first == <<next, 0>>
           last == <<hi, W - 1>>
           old == awAckedRanges
           new == awAckedRanges'
           known == DOMAIN awBatchNumMap
<1>8. first \in RecordId /\ last \in RecordId /\ first \in Pairs /\ last \in Pairs /\ AtMost(first, last)
  <2>1. W \in Nat /\ W >= 1
    BY WordAssumption
  <2> QED
    BY <1>1, <1>2, <2>1 DEF RecordId, Indexes, Pairs, AtMost, Below
<1>9. DOMAIN old \subseteq RecordId /\ old \in [DOMAIN old -> RecordId] /\ endsIn(old, known) /\ ordered(old) /\ sound(old)
  BY Zenon DEF WindowInv, RangesInv
<1>10. /\ DOMAIN new = DOMAIN old \cup {first} /\ new[first] = last
       /\ \A s \in DOMAIN new : s # first => s \in DOMAIN old /\ new[s] = old[s]
       /\ new \in [DOMAIN new -> RecordId] /\ DOMAIN new \subseteq RecordId
  BY Zenon, <1>1, <1>8, <1>9 DEF With
<1>11. DOMAIN old \subseteq Pairs /\ \A s \in DOMAIN old : old[s] \in Pairs
  BY Zenon, <1>2, <1>9, SizesAre
<1>12. \A s \in DOMAIN old : Below(old[s], first) /\ Below(s, first) /\ Below(old[s], last) /\ old[s][1] # next
  <2> SUFFICES ASSUME NEW s \in DOMAIN old
               PROVE Below(old[s], first) /\ Below(s, first) /\ Below(old[s], last) /\ old[s][1] # next
    BY Zenon
  <2>1. old[s][1] < next /\ old[s][1] # next
    BY <1>2, <1>3, <1>9 DEF endsIn
  <2>2. Below(old[s], first)
    BY Zenon, <2>1 DEF Below
  <2>3. AtMost(s, old[s])
    BY Zenon, <1>9 DEF ordered
  <2> HIDE DEF first, last, old
  <2> QED
    BY Zenon, <1>8, <1>11, <2>1, <2>2, <2>3, Order DEF AtMost
<1>13. endsIn(new, DOMAIN awBatchNumMap')
  <2>1. last[1] = hi /\ last[2] = W - 1 /\ lastIndex(hi) = W - 1 /\ W - 1 <= W - 1
    BY <1>2, WordAssumption DEF lastIndex
  <2> HIDE DEF first, last, old, new
  <2> QED
    BY Zenon, <1>4, <1>9, <1>10, <2>1 DEF endsIn
<1>14. ASSUME NEW s \in DOMAIN new, NEW t \in DOMAIN new, Below(s, t)
       PROVE  /\ Below(new[s], new[t])
              /\ AtMost(t, new[s]) => new[s][2] = lastIndex(new[s][1])
              /\ t # <<new[s][1], new[s][2] + 1>>
  <2>0. first[1] = next
    BY Zenon
  <2> HIDE DEF first, last, old, new
  <2>1. s # first
    BY <1>8, <1>10, <1>11, <1>12, <1>14, Order
  <2>2. CASE t = first
    <3>1. ~ AtMost(first, old[s])
      BY Zenon, <1>8, <1>10, <1>11, <1>12, <2>1, Order DEF AtMost
    <3>2. first # <<old[s][1], old[s][2] + 1>>
      BY <1>10, <1>12, <2>0, <2>1
    <3> QED
      BY Zenon, <1>10, <1>12, <2>1, <2>2, <3>1, <3>2
  <2>3. CASE t # first
    BY Zenon, <1>9, <1>10, <1>14, <2>1, <2>3 DEF ordered
  <2> QED
    BY Zenon, <2>2, <2>3
<1>15. \A x \in Records : AtMost(first, x) => ~ AtMost(x, last)
  <2> SUFFICES ASSUME NEW x \in Records, AtMost(first, x), AtMost(x, last) PROVE FALSE
    BY Zenon
  <2>1. x[1] \in Nat /\ x[2] \in Nat /\ x[2] < log[x[1]] /\ x = <<x[1], x[2]>>
    BY <1>2, SizesAre DEF LSNs
  <2>2. x[1] \in next..hi
    BY <1>2, <2>1 DEF AtMost, Below
  <2> QED
    BY <1>1, <2>1, <2>2
<1> HIDE DEF first, last, old, new
<1>16. ordered(new)
  <2>1. \A s \in DOMAIN new : AtMost(s, new[s])
    BY Zenon, <1>8, <1>9, <1>10 DEF ordered
  <2> QED
    BY Zenon, <1>14, <2>1 DEF ordered
<1>17. sound(new)
  BY Zenon, <1>9, <1>10, <1>15 DEF sound
<1>18. RangesInv(new, DOMAIN awBatchNumMap')
  BY Zenon, <1>10, <1>13, <1>16, <1>17 DEF RangesInv
<1>19. RangesInv(awAckedRanges, DOMAIN awBatchNumMap)'
  BY Zenon, <1>1, <1>18, RangesPrimed DEF new
<1> QED
  BY Zenon, <1>5, <1>6, <1>7, <1>19 DEF WindowInv

\* The batch becomes known before it is delivered.
LEMMA InsertWindow == ASSUME WindowInv, insertBatch PROVE WindowInv'
<1>1. /\ step = "insert" /\ step' = "deliver"
      /\ awBatchNumMap' = With(awBatchNumMap, Head(batches), log[Head(batches)])
      /\ UNCHANGED <<log, awAckedRanges, awWindowLowerBound, acked, acks, checkpoint, received, batches, next,
                     checkList, timeoutList, resending>>
  BY Zenon DEF insertBatch, clientVars, boundVars, resendVars
<1>2. Head(batches) \in LSNs
  BY Zenon, <1>1, HeadIs DEF WindowInv
<1>3. /\ DOMAIN awBatchNumMap' = DOMAIN awBatchNumMap \cup {Head(batches)}
      /\ awBatchNumMap'[Head(batches)] = log[Head(batches)]
      /\ \A b \in DOMAIN awBatchNumMap : b # Head(batches) => awBatchNumMap'[b] = awBatchNumMap[b]
  BY Zenon, <1>1 DEF With
<1>4. LogInv' /\ MapInv' /\ LowerInv'
  BY Zenon, <1>1, <1>2, <1>3 DEF WindowInv, LogInv, MapInv, LowerInv, Records
<1>5. LoopInv'
  BY <1>1, <1>2, <1>3 DEF WindowInv, LoopInv, LSNs
<1>6. AckInv' /\ EntryInv'
  BY Zenon, <1>1 DEF WindowInv, AckInv, EntryInv
<1>7. CommitInv'
  BY Zenon, <1>1 DEF WindowInv, CommitInv, coversOnlyAcked, Records
<1>8. RangesInv(awAckedRanges', DOMAIN awBatchNumMap')
  BY Zenon, <1>1, <1>3, MoreKnown DEF WindowInv
<1>9. RangesInv(awAckedRanges, DOMAIN awBatchNumMap)'
  BY Zenon, <1>1, <1>8, RangesPrimed
<1> QED
  BY Zenon, <1>4, <1>5, <1>6, <1>7, <1>9 DEF WindowInv

\* A delivery, or one that fails and sets the reader back.
LEMMA DeliverWindow == ASSUME WindowInv, deliver \/ deliverFails PROVE WindowInv'
<1>1. /\ step = "deliver" /\ Head(batches) \in LSNs /\ log[Head(batches)] # 0
      /\ UNCHANGED <<log, awAckedRanges, awBatchNumMap, awWindowLowerBound, acked, acks, checkpoint,
                     checkList, timeoutList, resending>>
      /\ received' = received \/ received' = received \cup idsOf(Head(batches))
  <2>1. step = "deliver"
    BY Zenon DEF deliver, deliverFails
  <2>2. Head(batches) \in LSNs /\ log[Head(batches)] # 0
    BY Zenon, <2>1, HeadIs DEF WindowInv
  <2> QED
    BY Zenon, <2>1, <2>2 DEF deliver, deliverFails, windowVars, boundVars, resendVars
<1>2. received \subseteq received' /\ received' \subseteq RecordId
  BY Zenon, <1>1, IdsOf DEF WindowInv, AckInv
<1>3. EntryInv'
  BY Zenon, <1>1 DEF WindowInv, EntryInv
<1>4. LoopInv'
  <2>1. CASE deliver
    BY Zenon, <1>1, <2>1 DEF WindowInv, LoopInv, deliver
  <2>2. CASE deliverFails
    <3>1. next' = Head(batches) /\ step' = "read"
      BY Zenon, <2>2 DEF deliverFails, addUnackedRecords
    <3>2. \A b \in DOMAIN awBatchNumMap : b <= Head(batches)
      BY Zenon, <1>1 DEF WindowInv, LoopInv
    <3>3. Head(batches) \in 1..MaxLSN + 1
      BY <1>1, WordAssumption DEF LSNs
    <3> QED
      BY Zenon, <1>1, <3>1, <3>2, <3>3 DEF LoopInv
  <2> QED
    BY Zenon, <2>1, <2>2
<1> QED
  BY Zenon, <1>1, <1>2, <1>3, <1>4, SameWindow

\* registerResend, and on to the next batch or the next read.
LEMMA RegisterWindow == ASSUME WindowInv, registerResend PROVE WindowInv'
<1>1. /\ step = "register"
      /\ checkList' = checkList \cup {[batch |-> Head(batches), indexes |-> 0..log[Head(batches)] - 1]}
      /\ UNCHANGED <<log, awAckedRanges, awBatchNumMap, awWindowLowerBound, acked, acks, checkpoint, received,
                     timeoutList, resending, next>>
  BY Zenon DEF registerResend, windowVars, boundVars, resendVars, clientVars
<1>2. /\ Head(batches) \in LSNs /\ Head(batches) \in Nat /\ batches \in Seq(LSNs) /\ Len(batches) \in Nat /\ Len(batches) >= 1
      /\ next = Head(batches) + Len(batches) /\ next \in 1..MaxLSN + 1
      /\ \A i \in 1..Len(batches) : batches[i] = Head(batches) + i - 1 /\ log[batches[i]] # 0
      /\ \A b \in DOMAIN awBatchNumMap : b <= Head(batches)
      /\ \A b \in DOMAIN awBatchNumMap : b \in LSNs
  BY <1>1, HeadIs DEF WindowInv, LoopInv, LSNs, MapInv
<1>3. EntryInv'
  <2>1. log[Head(batches)] \in 0..W - 2 /\ W \in Nat
    BY Zenon, <1>2, SizesAre DEF WindowInv
  <2>2. 0..log[Head(batches)] - 1 \subseteq Indexes
    BY <2>1 DEF Indexes
  <2>3. [batch |-> Head(batches), indexes |-> 0..log[Head(batches)] - 1] \in CheckedRecordIds
    BY Zenon, <1>2, <2>2 DEF CheckedRecordIds
  <2> QED
    BY Zenon, <1>1, <2>3 DEF WindowInv, EntryInv
<1>4. LoopInv'
  <2>1. CASE Len(batches) = 1
    <3>1. step' = "read"
      BY Zenon, <2>1 DEF registerResend, addUnackedRecords
    <3>2. next = Head(batches) + 1
      BY Zenon, <1>2, <2>1
    <3>3. \A b \in DOMAIN awBatchNumMap : b <= next /\ b # next
      BY <1>2, <3>2 DEF LSNs
    <3> QED
      BY Zenon, <1>1, <1>2, <3>1, <3>3 DEF LoopInv
  <2>2. CASE Len(batches) # 1
    <3>1. step' = "insert" /\ batches' = Tail(batches)
      BY Zenon, <2>2 DEF registerResend
    <3>2. batches # <<>> /\ Len(batches) > 1
      <4>1. Len(batches) \in Nat /\ Len(batches) >= 1
        BY Zenon, <1>2
      <4>2. batches # <<>>
        BY Zenon, <1>1 DEF WindowInv, LoopInv
      <4>3. Len(batches) > 1
        BY <2>2, <4>1
      <4> QED
        BY Zenon, <4>2, <4>3
    <3>3. /\ batches' \in Seq(LSNs) /\ Len(batches') = Len(batches) - 1
          /\ \A i \in 1..Len(batches') : batches'[i] = batches[i + 1]
      BY <1>2, <3>1, <3>2
    <3>4. Head(batches') = batches[2] /\ batches' # <<>>
      <4>1. Head(batches') = batches'[1] /\ batches' # <<>> /\ 1 \in 1..Len(batches')
        BY <1>2, <3>2, <3>3
      <4> QED
        BY <3>3, <4>1
    <3>5. batches[2] = Head(batches) + 1
      BY <1>2, <3>2
    <3>6. \A i \in 1..Len(batches') : batches'[i] = Head(batches') + i - 1 /\ log[batches'[i]] # 0
      <4> SUFFICES ASSUME NEW i \in 1..Len(batches')
                   PROVE  batches'[i] = Head(batches') + i - 1 /\ log[batches'[i]] # 0
        BY Zenon
      <4>1. i + 1 \in 1..Len(batches) /\ batches'[i] = batches[i + 1]
        BY <1>2, <3>3
      <4>2. batches[i + 1] = Head(batches) + (i + 1) - 1 /\ log[batches[i + 1]] # 0
        BY Zenon, <1>2, <4>1
      <4>3. i \in Int /\ Head(batches) \in Int
        BY <1>2
      <4>4. Head(batches) + (i + 1) - 1 = (Head(batches) + 1) + i - 1
        BY <4>3
      <4> QED
        BY Zenon, <3>4, <3>5, <4>1, <4>2, <4>4
    <3>7. next = Head(batches') + Len(batches')
      BY <1>2, <3>3, <3>4, <3>5
    <3>8. \A b \in DOMAIN awBatchNumMap : b <= Head(batches')
      BY <1>2, <3>4, <3>5 DEF LSNs
    <3> QED
      BY Zenon, <1>1, <1>2, <3>1, <3>3, <3>4, <3>6, <3>7, <3>8 DEF LoopInv
  <2> QED
    BY Zenon, <2>1, <2>2
<1> QED
  BY Zenon, <1>1, <1>3, <1>4, SameWindow DEF WindowInv, AckInv

\* The resend job leaves the window alone.
LEMMA ResendWindow ==
  ASSUME WindowInv,
         \/ \E S \in SUBSET checkList : updateClockAndDoResend(S)
         \/ \E c \in timeoutList : resendTimeoutRecords(c)
         \/ resendReadsNothing \/ resend
  PROVE  WindowInv'
<1>1. /\ UNCHANGED <<log, awAckedRanges, awBatchNumMap, awWindowLowerBound, acked, acks, checkpoint,
                     next, batches, step>>
  BY Zenon DEF updateClockAndDoResend, resendTimeoutRecords, resendReadsNothing, resend,
         windowVars, boundVars, clientVars, loopVars
<1>2. LoopInv'
  BY Zenon, <1>1 DEF WindowInv, LoopInv
<1>3. checkList \cup timeoutList \subseteq CheckedRecordIds /\ (resending = Nothing \/ resending \in CheckedRecordIds)
  BY Zenon DEF WindowInv, EntryInv
<1>4. received \subseteq RecordId
  BY Zenon DEF WindowInv, AckInv
<1>5. ASSUME NEW S \in SUBSET checkList, updateClockAndDoResend(S) PROVE WindowInv'
  <2>1. EntryInv' /\ received' = received
    BY Zenon, <1>3, <1>5 DEF updateClockAndDoResend, EntryInv, clientVars
  <2> QED
    BY Zenon, <1>1, <1>2, <1>4, <2>1, SameWindow
<1>6. ASSUME NEW c \in timeoutList, resendTimeoutRecords(c) PROVE WindowInv'
  <2> DEFINE left == filterUnackedRecordIds(c)
  <2>1. c \in [batch : LSNs, indexes : SUBSET Indexes]
    BY Zenon, <1>3 DEF CheckedRecordIds
  <2>2. left \subseteq c.indexes
    BY Zenon DEF filterUnackedRecordIds
  <2>3. resending' = IF left = {} THEN Nothing ELSE [c EXCEPT !.indexes = left]
    BY Zenon, <1>6 DEF resendTimeoutRecords
  <2>4. /\ timeoutList' \subseteq timeoutList /\ checkList' = checkList /\ received' = received
    BY Zenon, <1>6 DEF resendTimeoutRecords, clientVars
  <2> HIDE DEF left
  <2>5. [c EXCEPT !.indexes = left] \in [batch : LSNs, indexes : SUBSET Indexes]
    BY Zenon, <2>1, <2>2
  <2>6. EntryInv'
    BY Zenon, <1>3, <2>3, <2>4, <2>5 DEF EntryInv, CheckedRecordIds
  <2> QED
    BY Zenon, <1>1, <1>2, <1>4, <2>4, <2>6, SameWindow
<1>7. CASE resendReadsNothing
  <2>1. EntryInv' /\ received' = received
    BY Zenon, <1>3, <1>7 DEF resendReadsNothing, EntryInv, clientVars
  <2> QED
    BY Zenon, <1>1, <1>2, <1>4, <2>1, SameWindow
<1>8. CASE resend
  <2>1. /\ resending \in CheckedRecordIds /\ checkList' = checkList \cup {resending} /\ resending' = Nothing
        /\ timeoutList' = timeoutList /\ received' \in {received, received \cup idsIn(resending)}
    BY Zenon, <1>3, <1>8 DEF resend
  <2>2. idsIn(resending) \subseteq RecordId
    BY <2>1 DEF idsIn, CheckedRecordIds, RecordId
  <2>3. EntryInv'
    BY Zenon, <1>3, <2>1 DEF EntryInv
  <2> QED
    BY Zenon, <1>1, <1>2, <1>4, <2>1, <2>2, <2>3, SameWindow
<1> QED
  BY Zenon, <1>5, <1>6, <1>7, <1>8

\* A thread's record from its fields.
LEMMA ThreadIs ==
  ASSUME NEW f, f = [k \in {"step", "ids", "keys", "lsn"} |-> f[k]]
  PROVE  f = [step |-> f.step, ids |-> f.ids, keys |-> f.keys, lsn |-> f.lsn]
<1> DEFINE g == [step |-> f.step, ids |-> f.ids, keys |-> f.keys, lsn |-> f.lsn]
<1>1. DOMAIN g = {"step", "ids", "keys", "lsn"} /\ g = [k \in DOMAIN g |-> g[k]]
  BY Zenon
<1>2. g["step"] = f["step"] /\ g["ids"] = f["ids"] /\ g["keys"] = f["keys"] /\ g["lsn"] = f["lsn"]
  BY Zenon
<1> HIDE DEF g
<1>3. \A k \in {"step", "ids", "keys", "lsn"} : g[k] = f[k]
  BY Zenon, <1>2
<1>4. f = g
  BY Zenon, <1>1, <1>3
<1> QED
  BY Zenon, <1>4 DEF g

\* The threads, after a change of one.
LEMMA AckTurns ==
  ASSUME WindowInv, NEW h \in Handlers, NEW a, isThread(a, acked'), acks' = [acks EXCEPT ![h] = a],
         acked \subseteq acked', acked' \subseteq received, received' = received
  PROVE  /\ AckInv'
         /\ \A k \in Handlers : acks'[k] = IF k = h THEN a ELSE acks[k]
<1>1. AckInv
  BY Zenon DEF WindowInv
<1>2. \A k \in Handlers : acks'[k] = IF k = h THEN a ELSE acks[k]
  BY Zenon, <1>1 DEF AckInv
<1>3. DOMAIN acks' = Handlers
  BY Zenon, <1>1 DEF AckInv
<1>4. ASSUME NEW q \in Seq(acked) PROVE q \in Seq(acked')
  <2>1. q \in [1..Len(q) -> acked] /\ Len(q) \in Nat
    OBVIOUS
  <2>2. q \in [1..Len(q) -> acked']
    BY Zenon, <2>1
  <2> QED
    BY <2>1, <2>2
<1>5. ASSUME NEW t, isThread(t, acked) PROVE isThread(t, acked')
  BY Zenon, <1>4, <1>5 DEF isThread
<1>6. \A k \in Handlers : isThread(acks'[k], acked')
  BY Zenon, <1>1, <1>2, <1>5 DEF AckInv
<1>7. AckInv'
  BY Zenon, <1>1, <1>3, <1>6 DEF AckInv
<1> QED
  BY Zenon, <1>2, <1>7

\* A step of a recvAcks thread outside of doAck's transaction.
LEMMA ThreadWindow ==
  ASSUME WindowInv, AckInv', EntryInv', CommitInv',
         UNCHANGED <<log, awAckedRanges, awBatchNumMap, awWindowLowerBound, next, batches, step>>,
         acked \subseteq acked'
  PROVE  WindowInv'
<1>1. LogInv' /\ MapInv' /\ LowerInv' /\ LoopInv'
  BY Zenon DEF WindowInv, LogInv, MapInv, LowerInv, LoopInv, Records
<1>2. RangesInv(awAckedRanges, DOMAIN awBatchNumMap)'
  BY Zenon, RangesPrimed DEF WindowInv
<1> QED
  BY Zenon, <1>1, <1>2 DEF WindowInv

\* An acknowledgement arrives: the ids of a thread are ids a client holds.
LEMMA RecvWindow ==
  ASSUME WindowInv, NEW h \in Handlers, NEW n \in 1..MaxAcks, NEW ids \in [1..n -> received], recvAcks(h, ids)
  PROVE  WindowInv'
<1>1. /\ acks' = [acks EXCEPT ![h] = [idle EXCEPT !.step = "mark", !.ids = ids]]
      /\ acked' = acked \cup Range(ids)
      /\ UNCHANGED <<log, awAckedRanges, awBatchNumMap, awWindowLowerBound, next, batches, step, received, checkpoint,
                     checkList, timeoutList, resending>>
  BY Zenon DEF recvAcks, windowVars, loopVars, boundVars, resendVars
<1>2. acks' = [acks EXCEPT ![h] = [step |-> "mark", ids |-> ids, keys |-> {}, lsn |-> 0]]
  <2>1. [idle EXCEPT !.step = "mark", !.ids = ids] = [step |-> "mark", ids |-> ids, keys |-> {}, lsn |-> 0]
    <3> DEFINE f == [idle EXCEPT !.step = "mark", !.ids = ids]
    <3>1. f = [k \in {"step", "ids", "keys", "lsn"} |-> f[k]]
      BY Zenon DEF idle
    <3>2. f.step = "mark" /\ f.ids = ids /\ f.keys = {} /\ f.lsn = 0
      BY Zenon DEF idle
    <3> HIDE DEF f
    <3>3. f = [step |-> "mark", ids |-> ids, keys |-> {}, lsn |-> 0]
      BY Zenon, <3>1, <3>2, ThreadIs
    <3> QED
      BY Zenon, <3>3 DEF f
  <2> QED
    BY Zenon, <1>1, <2>1
<1>3. ids \in Seq(acked') /\ Range(ids) \subseteq received
  <2>1. n \in Nat
    BY BoundsAssumption
  <2>2. Range(ids) \subseteq received /\ \A i \in 1..n : ids[i] \in Range(ids)
    BY Zenon DEF Range
  <2>3. ids \in [1..n -> acked']
    BY Zenon, <1>1, <2>2
  <2> QED
    BY <2>1, <2>2, <2>3
<1>4. acked \subseteq acked' /\ acked' \subseteq received
  BY Zenon, <1>1, <1>3 DEF WindowInv, AckInv
<1>5. AckInv' /\ \A k \in Handlers : acks'[k] = IF k = h THEN [step |-> "mark", ids |-> ids, keys |-> {}, lsn |-> 0]
                                                         ELSE acks[k]
  <2> DEFINE a == [step |-> "mark", ids |-> ids, keys |-> {}, lsn |-> 0]
  <2>1. isThread(a, acked')
    BY Zenon, <1>3 DEF isThread
  <2>2. acks' = [acks EXCEPT ![h] = a]
    BY Zenon, <1>2
  <2> HIDE DEF a
  <2>3. AckInv' /\ \A k \in Handlers : acks'[k] = IF k = h THEN a ELSE acks[k]
    BY Zenon, <1>1, <1>4, <2>1, <2>2, AckTurns
  <2> QED
    BY Zenon, <2>3 DEF a
<1>6. \A r \in Records : r[1] \in Nat /\ r[1] >= 1
  BY SizesAre DEF WindowInv, LSNs
<1>7. CommitInv'
  <2>1. \A lsn : coversOnlyAcked(lsn) => coversOnlyAcked(lsn)'
    BY Zenon, <1>1, <1>4 DEF coversOnlyAcked, Records
  <2>2. coversOnlyAcked(0)
    BY <1>6 DEF coversOnlyAcked
  <2>3. \A k \in Handlers : acks'[k].lsn = IF k = h THEN 0 ELSE acks[k].lsn
    BY <1>5
  <2>4. \A k \in Handlers : /\ \A r \in Records : r[1] <= acks'[k].lsn => r \in acked'
                            /\ acks'[k].lsn \in Nat /\ acks'[k].lsn <= MaxLSN
    BY <1>4, <1>6, <2>3, WordAssumption DEF WindowInv, CommitInv, coversOnlyAcked
  <2>5. Records' = Records
    BY Zenon, <1>1 DEF Records
  <2>6. \A r \in Records : r[1] <= checkpoint => r \in acked'
    BY Zenon, <1>4 DEF WindowInv, CommitInv, coversOnlyAcked
  <2> QED
    BY Zenon, <1>1, <2>4, <2>5, <2>6 DEF WindowInv, CommitInv, coversOnlyAcked
<1>8. EntryInv'
  BY Zenon, <1>1 DEF WindowInv, EntryInv
<1> QED
  BY Zenon, <1>1, <1>4, <1>5, <1>7, <1>8, ThreadWindow

\* The steps of removeAckedRecordIdsFromCheckList.
LEMMA RemoveWindow ==
  ASSUME WindowInv, NEW h \in Handlers, markAcked(h) \/ sweepAcked(h)
  PROVE  WindowInv'
<1>1. /\ UNCHANGED <<log, awAckedRanges, awBatchNumMap, awWindowLowerBound, next, batches, step, received, checkpoint,
                     acked, timeoutList, resending>>
  BY Zenon DEF markAcked, sweepAcked, windowVars, loopVars, boundVars, resendVars, clientVars
<1>2. PICK st, ids, keys, lsn :
        acks[h] = [step |-> st, ids |-> ids, keys |-> keys, lsn |-> lsn] /\ ids \in Seq(acked)
  BY Zenon DEF WindowInv, AckInv, isThread
<1>3. DOMAIN acks = Handlers
  BY Zenon DEF WindowInv, AckInv
<1>4. \E st1, keys1 : acks' = [acks EXCEPT ![h] = [step |-> st1, ids |-> ids, keys |-> keys1, lsn |-> lsn]]
  <2>1. CASE sweepAcked(h)
    <3>1. acks' = [acks EXCEPT ![h].step = "doAck"]
      BY Zenon, <2>1 DEF sweepAcked
    <3>2. acks' = [acks EXCEPT ![h] = [acks[h] EXCEPT !.step = "doAck"]]
      BY Zenon, <3>1
    <3>3. [acks[h] EXCEPT !.step = "doAck"] = [step |-> "doAck", ids |-> ids, keys |-> keys, lsn |-> lsn]
      BY <1>2
    <3> QED
      BY Zenon, <3>2, <3>3
  <2>2. CASE markAcked(h)
    <3>1. PICK K : acks' = [acks EXCEPT ![h].step = "sweep", ![h].keys = K]
      BY Zenon, <2>2 DEF markAcked
    <3>2. acks' = [acks EXCEPT ![h] = [acks[h] EXCEPT !.step = "sweep", !.keys = K]]
      BY Zenon, <1>3, <3>1
    <3>3. [acks[h] EXCEPT !.step = "sweep", !.keys = K] = [step |-> "sweep", ids |-> ids, keys |-> K, lsn |-> lsn]
      <4> DEFINE f == [acks[h] EXCEPT !.step = "sweep", !.keys = K]
      <4>1. f = [k \in {"step", "ids", "keys", "lsn"} |-> f[k]]
        BY Zenon, <1>2
      <4>2. f.step = "sweep" /\ f.ids = ids /\ f.keys = K /\ f.lsn = lsn
        BY <1>2
      <4> HIDE DEF f
      <4>3. f = [step |-> "sweep", ids |-> ids, keys |-> K, lsn |-> lsn]
        BY Zenon, <4>1, <4>2, ThreadIs
      <4> QED
        BY Zenon, <4>3 DEF f
    <3> QED
      BY Zenon, <3>2, <3>3
  <2> QED
    BY Zenon, <2>1, <2>2
<1>5. PICK st1, keys1 : acks' = [acks EXCEPT ![h] = [step |-> st1, ids |-> ids, keys |-> keys1, lsn |-> lsn]]
  BY Zenon, <1>4
<1>6. acked \subseteq received /\ ids \in Seq(acked')
  BY Zenon, <1>1, <1>2 DEF WindowInv, AckInv
<1>7. AckInv' /\ \A k \in Handlers : acks'[k] = IF k = h THEN [step |-> st1, ids |-> ids, keys |-> keys1, lsn |-> lsn]
                                                         ELSE acks[k]
  <2> DEFINE a == [step |-> st1, ids |-> ids, keys |-> keys1, lsn |-> lsn]
  <2>1. isThread(a, acked')
    BY Zenon, <1>6 DEF isThread
  <2>2. acks' = [acks EXCEPT ![h] = a]
    BY Zenon, <1>5
  <2> HIDE DEF a
  <2>3. AckInv' /\ \A k \in Handlers : acks'[k] = IF k = h THEN a ELSE acks[k]
    BY Zenon, <1>1, <1>6, <2>1, <2>2, AckTurns
  <2> QED
    BY Zenon, <2>3 DEF a
<1>8. CommitInv'
  <2>1. ASSUME NEW k \in Handlers PROVE acks'[k].lsn = acks[k].lsn
    <3>1. acks'[k] = IF k = h THEN [step |-> st1, ids |-> ids, keys |-> keys1, lsn |-> lsn]
                              ELSE acks[k]
      BY Zenon, <1>7
    <3>2. acks[h].lsn = lsn
      BY <1>2
    <3> QED
      BY <3>1, <3>2
  <2> QED
    BY Zenon, <1>1, <2>1 DEF WindowInv, CommitInv, coversOnlyAcked, Records
<1>9. EntryInv'
  <2>1. checkList' \subseteq CheckedRecordIds
    <3>1. CASE sweepAcked(h)
      BY Zenon, <3>1 DEF sweepAcked, WindowInv, EntryInv
    <3>2. CASE markAcked(h)
      <4> DEFINE A == Range(acks[h].ids)
                 rest(c) == {i \in c.indexes : <<c.batch, i>> \notin A}
      <4>1. checkList' = {[c EXCEPT !.indexes = rest(c)] : c \in checkList}
        BY Zenon, <3>2 DEF markAcked
      <4>2. ASSUME NEW c \in checkList PROVE [c EXCEPT !.indexes = rest(c)] \in CheckedRecordIds
        <5>1. c \in [batch : LSNs, indexes : SUBSET Indexes]
          BY Zenon DEF WindowInv, EntryInv, CheckedRecordIds
        <5>2. rest(c) \subseteq Indexes
          BY Zenon, <5>1
        <5> HIDE DEF rest
        <5> QED
          BY Zenon, <5>1, <5>2 DEF CheckedRecordIds
      <4> QED
        BY Zenon, <4>1, <4>2
    <3> QED
      BY Zenon, <3>1, <3>2
  <2> QED
    BY Zenon, <1>1, <2>1 DEF WindowInv, EntryInv
<1> QED
  BY Zenon, <1>1, <1>7, <1>8, <1>9, ThreadWindow

\* A thread that is done and one that has a checkpoint to write have no ids.
LEMMA IdleThread ==
  /\ isThread(idle, acked') /\ idle.lsn = 0 /\ idle.step = "idle"
  /\ \A lsn : /\ isThread([idle EXCEPT !.step = "write", !.lsn = lsn], acked')
              /\ [idle EXCEPT !.step = "write", !.lsn = lsn].lsn = lsn
              /\ [idle EXCEPT !.step = "write", !.lsn = lsn].step = "write"
<1>1. <<>> \in Seq(acked')
  OBVIOUS
<1>2. isThread(idle, acked') /\ idle.lsn = 0 /\ idle.step = "idle"
  BY Zenon, <1>1 DEF isThread, idle
<1>3. ASSUME NEW lsn
      PROVE  /\ isThread([idle EXCEPT !.step = "write", !.lsn = lsn], acked')
             /\ [idle EXCEPT !.step = "write", !.lsn = lsn].lsn = lsn
             /\ [idle EXCEPT !.step = "write", !.lsn = lsn].step = "write"
  <2> DEFINE f == [idle EXCEPT !.step = "write", !.lsn = lsn]
  <2>1. f = [k \in {"step", "ids", "keys", "lsn"} |-> f[k]]
    BY Zenon DEF idle
  <2>2. f.step = "write" /\ f.ids = <<>> /\ f.keys = {} /\ f.lsn = lsn
    BY Zenon DEF idle
  <2> HIDE DEF f
  <2>3. f = [step |-> "write", ids |-> <<>>, keys |-> {}, lsn |-> lsn]
    BY Zenon, <2>1, <2>2, ThreadIs
  <2>4. isThread(f, acked')
    BY Zenon, <1>1, <2>3 DEF isThread
  <2> QED
    BY Zenon, <2>2, <2>4 DEF f
<1> QED
  BY Zenon, <1>2, <1>3

\* doAck inserts, commits and moves the window in one transaction.
LEMMA DoAckWindow == ASSUME WindowInv, NEW h \in Handlers, doAck(h) PROVE WindowInv'
<1> DEFINE ids == acks[h].ids
           inserted == insertAll(ids)
           commit == getCommitRecordId(inserted.ranges, awBatchNumMap)
           moved == tryUpdateWindowLowerBound(inserted.ranges, awWindowLowerBound, awBatchNumMap, commit)
           write == [idle EXCEPT !.step = "write", !.lsn = commit[1]]
<1>1. /\ UNCHANGED <<log, next, batches, step, received, checkpoint, acked, checkList, timeoutList, resending>>
      /\ IF moved = Nothing
         THEN /\ awAckedRanges' = inserted.ranges
              /\ acks' = [acks EXCEPT ![h] = idle]
              /\ UNCHANGED <<awWindowLowerBound, awBatchNumMap>>
         ELSE /\ awAckedRanges' = moved.ranges
              /\ awWindowLowerBound' = moved.lowerBound
              /\ awBatchNumMap' = dropWhileAntitone(commit[1], awBatchNumMap)
              /\ acks' = [acks EXCEPT ![h] = write]
  BY Zenon DEF doAck, loopVars, boundVars, resendVars, clientVars
<1>2. ids \in Seq(acked) /\ acked \subseteq received /\ received \subseteq RecordId
  <2>1. PICK st, is, keys, lsn :
          acks[h] = [step |-> st, ids |-> is, keys |-> keys, lsn |-> lsn] /\ is \in Seq(acked)
    BY Zenon DEF WindowInv, AckInv, isThread
  <2> QED
    BY <2>1 DEF WindowInv, AckInv
<1> HIDE DEF ids
<1>3. RangesInv(inserted.ranges, DOMAIN awBatchNumMap)
  BY Zenon, <1>2, Insertions DEF WindowInv
<1> HIDE DEF inserted
<1>4. LogInv' /\ EntryInv'
  BY Zenon, <1>1 DEF WindowInv, LogInv, EntryInv
<1>5. \A r : r \in Records' <=> r \in Records
  BY Zenon, <1>1 DEF Records
<1>6. \A k \in Handlers : coversOnlyAcked(acks[k].lsn) /\ acks[k].lsn <= MaxLSN
  BY Zenon DEF WindowInv, CommitInv
<1>7. coversOnlyAcked(checkpoint) /\ checkpoint <= MaxLSN
  BY Zenon DEF WindowInv, CommitInv
<1>8. coversOnlyAcked(0)
  BY <1>7, WordAssumption, SizesAre DEF coversOnlyAcked, WindowInv, LSNs
<1>9. ASSUME NEW a, isThread(a, acked'), acks' = [acks EXCEPT ![h] = a],
             coversOnlyAcked(a.lsn), a.lsn <= MaxLSN
      PROVE  AckInv' /\ CommitInv'
  <2>1. AckInv' /\ \A k \in Handlers : acks'[k] = IF k = h THEN a ELSE acks[k]
    <3>1. acked \subseteq acked' /\ acked' \subseteq received /\ received' = received
      BY Zenon, <1>1, <1>2
    <3> QED
      BY Zenon, <1>9, <3>1, AckTurns
  <2>2. \A k \in Handlers : coversOnlyAcked(acks'[k].lsn) /\ acks'[k].lsn <= MaxLSN
    BY Zenon, <1>6, <1>9, <2>1
  <2>3. \A lsn : coversOnlyAcked(lsn) => lsn \in Nat /\ \A r \in Records' : r[1] <= lsn => r \in acked'
    BY Zenon, <1>1, <1>5 DEF coversOnlyAcked
  <2>4. CommitInv'
    BY Zenon, <1>1, <1>7, <2>2, <2>3 DEF CommitInv, coversOnlyAcked
  <2> QED
    BY Zenon, <2>1, <2>4
<1>10. CASE moved = Nothing
  <2>1. /\ awAckedRanges' = inserted.ranges /\ acks' = [acks EXCEPT ![h] = idle]
        /\ awWindowLowerBound' = awWindowLowerBound /\ awBatchNumMap' = awBatchNumMap
    BY Zenon, <1>1, <1>10
  <2>2. MapInv' /\ LoopInv' /\ LowerInv'
    BY Zenon, <1>1, <1>5, <2>1 DEF WindowInv, MapInv, LoopInv, LowerInv
  <2>3. RangesInv(awAckedRanges, DOMAIN awBatchNumMap)'
    BY Zenon, <1>1, <1>3, <2>1, RangesPrimed
  <2>4. 0 <= MaxLSN
    BY WordAssumption
  <2>5. AckInv' /\ CommitInv'
    BY Zenon, <1>8, <1>9, <2>1, <2>4, IdleThread
  <2> QED
    BY Zenon, <1>4, <2>2, <2>3, <2>5 DEF WindowInv
<1>11. CASE moved # Nothing
  <2>1. /\ coversOnlyAcked(commit[1]) /\ commit[1] <= MaxLSN
        /\ RangesInv(moved.ranges, {b \in DOMAIN awBatchNumMap : b > commit[1]})
        /\ moved.lowerBound \in Nat \X Nat
        /\ \A r \in Records : Below(r, moved.lowerBound) => r \in acked
    BY Zenon, <1>3, <1>11, Committed DEF WindowInv
  <2>2. /\ awAckedRanges' = moved.ranges /\ awWindowLowerBound' = moved.lowerBound
        /\ awBatchNumMap' = dropWhileAntitone(commit[1], awBatchNumMap)
        /\ acks' = [acks EXCEPT ![h] = write]
    BY Zenon, <1>1, <1>11
  <2>3. isThread(write, acked') /\ write.lsn = commit[1]
    BY Zenon, IdleThread
  <2> HIDE DEF moved, commit, write
  <2>4. AckInv' /\ CommitInv'
    BY Zenon, <1>9, <2>1, <2>2, <2>3
  <2>5. /\ DOMAIN awBatchNumMap' = {b \in DOMAIN awBatchNumMap : b > commit[1]}
        /\ \A b \in DOMAIN awBatchNumMap' : awBatchNumMap'[b] = awBatchNumMap[b]
    BY Zenon, <2>2 DEF dropWhileAntitone
  <2>6. DOMAIN awBatchNumMap' \subseteq DOMAIN awBatchNumMap
    BY Zenon, <2>5
  <2>7. MapInv' /\ LoopInv'
    BY Zenon, <1>1, <2>5, <2>6 DEF WindowInv, MapInv, LoopInv
  <2>8. LowerInv'
    BY Zenon, <1>1, <1>5, <2>1, <2>2 DEF LowerInv
  <2>9. RangesInv(awAckedRanges', DOMAIN awBatchNumMap')
    BY Zenon, <2>1, <2>2, <2>5
  <2>10. RangesInv(awAckedRanges, DOMAIN awBatchNumMap)'
    BY Zenon, <1>1, <2>9, RangesPrimed
  <2> QED
    BY Zenon, <1>4, <2>4, <2>7, <2>8, <2>10 DEF WindowInv
<1> QED
  BY Zenon, <1>10, <1>11

\* A checkpoint that is written, in whatever order, was committed by some thread.
LEMMA WriteWindow == ASSUME WindowInv, NEW h \in Handlers, writeCheckpoints(h) PROVE WindowInv'
<1>1. /\ checkpoint' = acks[h].lsn /\ acks' = [acks EXCEPT ![h] = idle]
      /\ UNCHANGED <<log, awAckedRanges, awBatchNumMap, awWindowLowerBound, next, batches, step, received,
                     acked, checkList, timeoutList, resending>>
  BY Zenon DEF writeCheckpoints, windowVars, loopVars, boundVars, resendVars, clientVars
<1>2. acked \subseteq received
  BY Zenon DEF WindowInv, AckInv
<1>3. isThread(idle, acked') /\ idle.lsn = 0
  BY Zenon, IdleThread
<1>4. AckInv' /\ \A k \in Handlers : acks'[k] = IF k = h THEN idle ELSE acks[k]
  BY Zenon, <1>1, <1>2, <1>3, AckTurns
<1>5. \A k \in Handlers : coversOnlyAcked(acks[k].lsn) /\ acks[k].lsn <= MaxLSN
  BY Zenon DEF WindowInv, CommitInv
<1>6. coversOnlyAcked(0) /\ 0 <= MaxLSN
  BY WordAssumption, SizesAre DEF coversOnlyAcked, WindowInv, LSNs
<1>7. \A k \in Handlers : coversOnlyAcked(acks'[k].lsn) /\ acks'[k].lsn <= MaxLSN
  BY Zenon, <1>3, <1>4, <1>5, <1>6
<1>8. CommitInv'
  BY Zenon, <1>1, <1>5, <1>7 DEF CommitInv, coversOnlyAcked, Records
<1>9. EntryInv'
  BY Zenon, <1>1 DEF WindowInv, EntryInv
<1> QED
  BY Zenon, <1>1, <1>4, <1>8, <1>9, ThreadWindow

\* A restart begins with an empty window, behind the checkpoint.
LEMMA CrashWindow == ASSUME WindowInv, crash PROVE WindowInv'
<1>1. /\ awWindowLowerBound' = <<1, 0>> /\ awAckedRanges' = <<>> /\ awBatchNumMap' = <<>>
      /\ next' = checkpoint + 1 /\ step' = "read" /\ acks' = [h \in Handlers |-> idle]
      /\ checkList' = {} /\ timeoutList' = {} /\ resending' = Nothing
      /\ UNCHANGED <<checkpoint, received, acked, log>>
  BY Zenon DEF crash
<1>2. LogInv' /\ LogInv
  BY Zenon, <1>1 DEF WindowInv, LogInv
<1>3. DOMAIN awAckedRanges' = {} /\ DOMAIN awBatchNumMap' = {}
  BY <1>1
<1>4. checkpoint \in Nat /\ checkpoint <= MaxLSN /\ coversOnlyAcked(checkpoint)
  BY Zenon DEF WindowInv, CommitInv, coversOnlyAcked
<1>5. MapInv' /\ LoopInv' /\ EntryInv'
  BY <1>1, <1>3, <1>4, WordAssumption DEF MapInv, LoopInv, EntryInv
<1>6. AckInv'
  <2>1. isThread(idle, acked')
    BY Zenon, IdleThread
  <2> QED
    BY Zenon, <1>1, <2>1 DEF WindowInv, AckInv
<1>7. \A r \in Records : r[1] \in Nat /\ r[2] \in Nat /\ r[1] >= 1
  BY <1>2, SizesAre DEF LSNs
<1>8. \A r : r \in Records' <=> r \in Records
  BY Zenon, <1>1 DEF Records
<1>9. LowerInv'
  BY <1>1, <1>7, <1>8 DEF LowerInv, Below
<1>10. CommitInv'
  <2>1. \A h \in Handlers : acks'[h].lsn = 0
    BY Zenon, <1>1, IdleThread
  <2> QED
    BY <1>1, <1>4, <1>7, <1>8, <2>1, WordAssumption DEF CommitInv, coversOnlyAcked
<1>11. RangesInv(awAckedRanges, DOMAIN awBatchNumMap)'
  <2>1. awAckedRanges' \in [{} -> RecordId]
    BY <1>1
  <2>2. RangesInv(awAckedRanges', DOMAIN awBatchNumMap')
    BY Zenon, <1>3, <2>1 DEF RangesInv, endsIn, ordered, sound
  <2> QED
    BY Zenon, <1>1, <2>2, RangesPrimed
<1> QED
  BY Zenon, <1>2, <1>5, <1>6, <1>9, <1>10, <1>11 DEF WindowInv

\* Every step keeps the invariant.
LEMMA StepWindow == ASSUME WindowInv, [Next]_vars PROVE WindowInv'
<1>1. ASSUME NEW n \in 1..MaxRead, readRecordBatches(n) PROVE WindowInv'
  BY Zenon, <1>1, ReadWindow
<1>2. ASSUME NEW hi \in LSNs, readGap(hi) PROVE WindowInv'
  BY Zenon, <1>2, GapWindow
<1>3. CASE insertBatch
  BY Zenon, <1>3, InsertWindow
<1>4. CASE deliver \/ deliverFails
  BY Zenon, <1>4, DeliverWindow
<1>5. CASE registerResend
  BY Zenon, <1>5, RegisterWindow
<1>6. CASE \/ \E S \in SUBSET checkList : updateClockAndDoResend(S)
           \/ \E c \in timeoutList : resendTimeoutRecords(c)
           \/ resendReadsNothing \/ resend
  BY Zenon, <1>6, ResendWindow
<1>7. ASSUME NEW h \in Handlers, NEW n \in 1..MaxAcks, NEW ids \in [1..n -> received], recvAcks(h, ids)
      PROVE  WindowInv'
  BY Zenon, <1>7, RecvWindow
<1>8. ASSUME NEW h \in Handlers, markAcked(h) \/ sweepAcked(h) PROVE WindowInv'
  BY Zenon, <1>8, RemoveWindow
<1>9. ASSUME NEW h \in Handlers, doAck(h) PROVE WindowInv'
  BY Zenon, <1>9, DoAckWindow
<1>10. ASSUME NEW h \in Handlers, writeCheckpoints(h) PROVE WindowInv'
  BY Zenon, <1>10, WriteWindow
<1>11. CASE crash
  BY Zenon, <1>11, CrashWindow
<1>12. CASE UNCHANGED vars
  <2>1. /\ UNCHANGED <<log, awAckedRanges, awBatchNumMap, awWindowLowerBound, next, batches, step, received, acks,
                       acked, checkpoint, checkList, timeoutList, resending>>
    BY Zenon, <1>12 DEF vars, windowVars, loopVars, resendVars, clientVars, boundVars
  <2>2. LoopInv' /\ EntryInv'
    BY Zenon, <2>1 DEF WindowInv, LoopInv, EntryInv
  <2> QED
    BY Zenon, <2>1, <2>2, SameWindow DEF WindowInv, AckInv
<1> QED
  BY Zenon, <1>1, <1>2, <1>3, <1>4, <1>5, <1>6, <1>7, <1>8, <1>9, <1>10, <1>11, <1>12 DEF Next

\* Whatever the sizes of batches, the number of consumers and the order of their
\* acknowledgements, the window's ranges, its lower bound, the checkpoints under
\* way and the stored one speak of acknowledged records only.
THEOREM WindowInvariance == Spec => []WindowInv
<1>1. Init => WindowInv
  BY Zenon, InitWindow
<1>2. WindowInv /\ [Next]_vars => WindowInv'
  BY Zenon, StepWindow
<1> QED
  BY <1>1, <1>2, PTL DEF Spec

\* At least once: a record that the stored checkpoint covers, and that a restart
\* therefore skips, was acknowledged (doAck, writeCheckpoints).
THEOREM AtLeastOnce == Spec => []CheckpointCoversOnlyAcked
<1>1. WindowInv => CheckpointCoversOnlyAcked
  <2> SUFFICES ASSUME WindowInv, NEW b \in 1..checkpoint PROVE idsOf(b) \subseteq acked
    BY Zenon DEF CheckpointCoversOnlyAcked
  <2>1. checkpoint \in Nat /\ checkpoint <= MaxLSN /\ \A r \in Records : r[1] <= checkpoint => r \in acked
    BY Zenon DEF WindowInv, CommitInv, coversOnlyAcked
  <2>2. b \in LSNs /\ b <= checkpoint
    BY <2>1, WordAssumption DEF LSNs
  <2>3. idsOf(b) \subseteq Records
    BY Zenon, <2>2, IdsOf DEF WindowInv
  <2>4. \A r \in idsOf(b) : r[1] = b
    BY DEF idsOf
  <2> QED
    BY Zenon, <2>1, <2>2, <2>3, <2>4
<1> QED
  BY <1>1, WindowInvariance, PTL

\* No record that nobody acknowledged is in a range or below the window
\* (insertAckedRecordId, tryUpdateWindowLowerBound).
THEOREM OnlyAckedInRanges == Spec => []RangesAreAcked
<1>1. WindowInv => RangesAreAcked
  <2> SUFFICES ASSUME WindowInv, NEW b \in LSNs, NEW r \in idsOf(b), r \notin acked
               PROVE  AtMost(awWindowLowerBound, r) /\ ~ inAckedRange(r)
    BY Zenon DEF RangesAreAcked
  <2>1. r \in Records
    BY Zenon, IdsOf DEF WindowInv
  <2>2. ~ Below(r, awWindowLowerBound) /\ awWindowLowerBound \in Pairs
    BY Zenon, <2>1 DEF WindowInv, LowerInv, Pairs
  <2>3. AtMost(awWindowLowerBound, r)
    <3>1. r \in Pairs
      BY Zenon, <2>1, SizesAre DEF WindowInv
    <3> QED
      BY Zenon, <2>2, <3>1, Order DEF AtMost
  <2>4. ~ inAckedRange(r)
    BY Zenon, <2>1 DEF WindowInv, RangesInv, sound, inAckedRange
  <2> QED
    BY Zenon, <2>3, <2>4
<1> QED
  BY <1>1, WindowInvariance, PTL

\* The batch in which a range ends is in awBatchNumMap: isLastInBatch never raises
\* its error, although doAck removes batches from the map.
THEOREM EndsStayKnown == Spec => []EndsAreKnown
<1>1. WindowInv => EndsAreKnown
  BY Zenon DEF WindowInv, RangesInv, endsIn, EndsAreKnown
<1> QED
  BY <1>1, WindowInvariance, PTL

-----------------------------------------------------------------------------
(* Every step keeps ResendInv.                                             *)

\* Steps that leave the check list, its entries and what was delivered alone.
LEMMA ResendKept ==
  ASSUME WindowInv, ResendInv,
         UNCHANGED <<log, checkList, timeoutList, resending, delivered, forgotten>>, acked \subseteq acked',
         \A b \in LSNs : done(b) => done(b)',
         step = "register" => UNCHANGED <<step, batches>>,
         \A h \in Handlers : acks'[h].step = "sweep" => acks[h].step = "sweep" /\ acks'[h].keys = acks[h].keys
  PROVE  ResendInv'
<1>1. /\ \A c \in checkList \cup timeoutList : c.batch \in LSNs
      /\ resending # Nothing => resending.batch \in LSNs
  BY Zenon DEF WindowInv, EntryInv, CheckedRecordIds
<1>2. EntriesInv'
  BY Zenon, <1>1 DEF ResendInv, EntriesInv
<1>3. Records' = Records /\ \A r \in Records : r[1] \in LSNs
  BY Zenon DEF Records
<1>4. DeliveredInv'
  BY Zenon, <1>3 DEF ResendInv, DeliveredInv
<1>5. KeysInv' /\ UnackedWaitsForResend'
  <2>1. KeysInv'
    <3> SUFFICES ASSUME NEW h \in Handlers, acks'[h].step = "sweep", NEW b \in acks'[h].keys
                 PROVE  b \in LSNs /\ done(b)' /\ \A r \in delivered : r[1] = b => r \in acked' \cup forgotten'
      BY Zenon DEF KeysInv
    <3>1. b \in LSNs /\ done(b) /\ \A r \in delivered : r[1] = b => r \in acked \cup forgotten
      BY Zenon DEF ResendInv, KeysInv
    <3> QED
      BY Zenon, <3>1
  <2>2. UnackedWaitsForResend'
    <3> SUFFICES ASSUME NEW r \in delivered, r \notin acked', r \notin forgotten PROVE waitsForResend(r)'
      BY Zenon DEF UnackedWaitsForResend
    <3>1. waitsForResend(r)
      BY Zenon DEF ResendInv, UnackedWaitsForResend
    <3> QED
      BY Zenon, <3>1 DEF waitsForResend, idsOf, idsIn
  <2> QED
    BY Zenon, <2>1, <2>2
<1> QED
  BY Zenon, <1>2, <1>4, <1>5 DEF ResendInv

\* A batch that is delivered is registered next.
LEMMA DeliverResend == ASSUME WindowInv, ResendInv, deliver PROVE ResendInv'
<1>1. /\ step = "deliver" /\ step' = "register" /\ delivered' = delivered \cup idsOf(Head(batches))
      /\ UNCHANGED <<log, checkList, timeoutList, resending, forgotten, batches, next, acks, acked>>
  BY Zenon DEF deliver, boundVars, resendVars
<1>2. Head(batches) \in LSNs
  BY Zenon, <1>1, HeadIs DEF WindowInv
<1>3. \A b : done(b)' <=> done(b)
  BY Zenon, <1>1 DEF done
<1>4. EntriesInv'
  BY Zenon, <1>1, <1>3 DEF ResendInv, EntriesInv
<1>5. \A r \in idsOf(Head(batches)) : r \in Records /\ r[1] = Head(batches)
  BY <1>2, IdsOf DEF WindowInv, idsOf
<1>6. DeliveredInv'
  BY Zenon, <1>1, <1>3, <1>5 DEF ResendInv, DeliveredInv, Records
<1>7. KeysInv' /\ UnackedWaitsForResend'
  <2>1. \A b \in LSNs : done(b) => b # Head(batches)
    BY <1>1, <1>2 DEF done, LSNs
  <2>2. KeysInv'
    BY Zenon, <1>1, <1>3, <1>5, <2>1 DEF ResendInv, KeysInv
  <2>3. UnackedWaitsForResend'
    <3> SUFFICES ASSUME NEW r \in delivered', r \notin acked, r \notin forgotten PROVE waitsForResend(r)'
      BY Zenon, <1>1 DEF UnackedWaitsForResend
    <3>1. CASE r \in delivered
      BY Zenon, <1>1, <3>1 DEF ResendInv, UnackedWaitsForResend, waitsForResend, idsIn
    <3>2. CASE r \in idsOf(Head(batches))
      BY Zenon, <1>1, <3>2 DEF waitsForResend, idsOf
    <3> QED
      BY Zenon, <1>1, <3>1, <3>2
  <2> QED
    BY Zenon, <2>2, <2>3
<1> QED
  BY Zenon, <1>4, <1>6, <1>7 DEF ResendInv

\* The batch that was delivered gets its entry; no other entry is of that batch.
LEMMA RegisterResend == ASSUME WindowInv, ResendInv, registerResend PROVE ResendInv'
<1>b. PICK b0 : b0 = Head(batches)
  BY Zenon
<1>c. PICK c0 : c0 = [batch |-> b0, indexes |-> 0..log[b0] - 1]
  BY Zenon
<1>1. /\ step = "register" /\ checkList' = checkList \cup {c0}
      /\ UNCHANGED <<log, timeoutList, resending, forgotten, next, acks, acked, delivered>>
  BY Zenon, <1>b, <1>c DEF registerResend, boundVars, resendVars, clientVars
<1>2. /\ b0 \in LSNs /\ b0 \in Nat /\ batches # <<>> /\ batches \in Seq(LSNs)
      /\ Len(batches) \in Nat /\ Len(batches) >= 1
      /\ \A i \in 1..Len(batches) : batches[i] = b0 + i - 1
  BY <1>1, <1>b, HeadIs DEF WindowInv, LoopInv, LSNs
<1>3. \A b \in LSNs : done(b)' <=> b <= b0
  <2>1. CASE Len(batches) = 1
    <3>1. step' = "read"
      BY Zenon, <2>1 DEF registerResend, addUnackedRecords
    <3>2. next' = b0 + 1
      BY Zenon, <1>1, <1>2, <1>b, <2>1 DEF WindowInv, LoopInv
    <3> QED
      BY <1>2, <3>1, <3>2 DEF done, LSNs
  <2>2. CASE Len(batches) # 1
    <3>1. step' = "insert" /\ batches' = Tail(batches)
      BY Zenon, <2>2 DEF registerResend
    <3>2. Len(batches) \in Nat /\ Len(batches) >= 2 /\ batches \in Seq(LSNs)
      <4>1. Len(batches) \in Nat /\ Len(batches) >= 1
        BY Zenon, <1>2
      <4>2. ASSUME NEW n \in Nat, n >= 1, n # 1 PROVE n >= 2
        BY <4>2
      <4>3. Len(batches) >= 2
        BY Zenon, <2>2, <4>1, <4>2
      <4> QED
        BY Zenon, <1>2, <4>3
    <3>3. 2 \in 1..Len(batches)
      BY <3>2
    <3>4. Head(Tail(batches)) = batches[2]
      BY <3>2
    <3>5. batches[2] = b0 + 2 - 1
      BY Zenon, <1>2, <3>3
    <3>6. b0 \in Nat /\ \A b \in LSNs : b \in Nat
      BY <1>2 DEF LSNs
    <3>7. batches[2] = b0 + 1
      BY <3>5, <3>6
    <3>8. \A b : done(b)' <=> b < b0 + 1
      BY Zenon, <3>1, <3>4, <3>7 DEF done
    <3> QED
      BY <3>6, <3>8
  <2> QED
    BY Zenon, <2>1, <2>2
<1>4. \A b \in LSNs : done(b) <=> b < b0
  BY Zenon, <1>1, <1>b DEF done
<1>5. /\ \A c \in checkList \cup timeoutList : c.batch \in LSNs /\ c.batch < b0
      /\ resending # Nothing => resending.batch \in LSNs /\ resending.batch < b0
  BY Zenon, <1>4 DEF WindowInv, EntryInv, CheckedRecordIds, ResendInv, EntriesInv
<1>6. c0.batch = b0
  BY Zenon, <1>c
<1>7. idsIn(c0) = idsOf(b0)
  BY Zenon, <1>c DEF idsIn, idsOf
<1>8. EntriesInv'
  <2>1. \A c \in checkList' \cup timeoutList : done(c.batch)'
    <3>1. \A c \in checkList \cup timeoutList : done(c.batch)'
      BY <1>2, <1>3, <1>5 DEF LSNs
    <3>2. done(c0.batch)'
      BY <1>2, <1>3, <1>6
    <3> QED
      BY Zenon, <1>1, <3>1, <3>2
  <2>2. resending # Nothing => done(resending.batch)'
    BY <1>1, <1>2, <1>3, <1>5 DEF LSNs
  <2>3. /\ \A c \in checkList \cup timeoutList : c.batch # c0.batch
        /\ resending # Nothing => resending.batch # c0.batch
    BY <1>2, <1>5, <1>6 DEF LSNs
  <2> QED
    BY Zenon, <1>1, <2>1, <2>2, <2>3 DEF ResendInv, EntriesInv
<1>9. \A r \in Records : r[1] \in LSNs
  BY Zenon DEF Records
<1>10. \A r \in delivered : r \in Records /\ done(r[1])'
  BY <1>1, <1>2, <1>3, <1>4, <1>9, <1>b DEF ResendInv, DeliveredInv, LSNs
<1>11. DeliveredInv'
  BY Zenon, <1>1, <1>10 DEF DeliveredInv, Records
<1>12. KeysInv' /\ UnackedWaitsForResend'
  <2>1. KeysInv'
    BY <1>1, <1>2, <1>3, <1>4 DEF ResendInv, KeysInv, LSNs
  <2>2. UnackedWaitsForResend'
    <3> SUFFICES ASSUME NEW r \in delivered, r \notin acked, r \notin forgotten PROVE waitsForResend(r)'
      BY Zenon, <1>1 DEF UnackedWaitsForResend
    <3>1. waitsForResend(r)
      BY Zenon DEF ResendInv, UnackedWaitsForResend
    <3>2. CASE r \in idsOf(b0)
      <4>1. c0 \in checkList' /\ r \in idsIn(c0)
        BY Zenon, <1>1, <1>7, <3>2
      <4> QED
        BY Zenon, <4>1 DEF waitsForResend, idsIn
    <3>3. CASE r \notin idsOf(b0)
      BY Zenon, <1>1, <1>b, <3>1, <3>3 DEF waitsForResend, idsIn
    <3> QED
      BY Zenon, <3>2, <3>3
  <2> QED
    BY Zenon, <2>1, <2>2
<1> QED
  BY Zenon, <1>8, <1>11, <1>12 DEF ResendInv

\* The entries whose deadline has passed change places.
LEMMA ClockResend ==
  ASSUME WindowInv, ResendInv, NEW S \in SUBSET checkList, updateClockAndDoResend(S)
  PROVE  ResendInv'
<1>1. /\ timeoutList = {} /\ resending = Nothing /\ checkList' = checkList \ S /\ timeoutList' = S
      /\ UNCHANGED <<log, resending, forgotten, next, batches, step, acks, acked, delivered>>
  BY Zenon DEF updateClockAndDoResend, boundVars, clientVars, loopVars
<1>2. \A b : done(b)' <=> done(b)
  BY Zenon, <1>1 DEF done
<1>3. checkList' \cup timeoutList' = checkList /\ checkList' \subseteq checkList /\ timeoutList' \subseteq checkList
  BY Zenon, <1>1
<1>4. EntriesInv'
  BY Zenon, <1>1, <1>2, <1>3 DEF ResendInv, EntriesInv
<1>5. DeliveredInv' /\ (KeysInv => KeysInv')
  BY Zenon, <1>1, <1>2 DEF ResendInv, DeliveredInv, Records, KeysInv
<1>6. UnackedWaitsForResend => UnackedWaitsForResend'
  BY Zenon, <1>1, <1>3 DEF UnackedWaitsForResend, waitsForResend, idsIn, idsOf
<1> QED
  BY Zenon, <1>1, <1>4, <1>5, <1>6 DEF ResendInv

\* What the job drops from an entry was acknowledged.
LEMMA FilterIs ==
  ASSUME WindowInv, NEW c \in CheckedRecordIds, NEW r \in Records, r \in idsIn(c), r \notin acked
  PROVE  r[2] \in filterUnackedRecordIds(c) /\ r = <<c.batch, r[2]>>
<1>1. PICK i \in c.indexes : r = <<c.batch, i>>
  BY Zenon DEF idsIn
<1>2. r[2] = i /\ r \in Pairs /\ LogInv
  BY Zenon, <1>1, SizesAre DEF WindowInv
<1>3. AtMost(awWindowLowerBound, r)
  <2>1. ~ Below(r, awWindowLowerBound) /\ awWindowLowerBound \in Pairs
    BY Zenon DEF WindowInv, LowerInv, Pairs
  <2> QED
    BY Zenon, <1>2, <2>1, Order DEF AtMost
<1> DEFINE S == {k \in DOMAIN awAckedRanges : AtMost(k, r)}
<1>4. S # {} => Below(awAckedRanges[Maximum(S)], r)
  <2> SUFFICES ASSUME S # {} PROVE Below(awAckedRanges[Maximum(S)], r)
    BY Zenon
  <2>1. S \subseteq (0..MaxLSN) \X (0..W - 1) /\ MaxLSN \in Nat /\ W - 1 \in Nat
    BY <1>2, SizesAre, WordAssumption DEF WindowInv, RangesInv
  <2>2. Maximum(S) \in S
    <3> HIDE DEF S
    <3> QED BY <2>1, MaximumIs
  <2>3. PICK m : m = Maximum(S)
    BY Zenon
  <2>4. m \in DOMAIN awAckedRanges /\ AtMost(m, r)
    BY Zenon, <2>2, <2>3
  <2>5. ~ AtMost(r, awAckedRanges[m])
    BY Zenon, <2>4 DEF WindowInv, RangesInv, sound
  <2>6. awAckedRanges[m] \in Pairs
    BY Zenon, <1>2, <2>4, SizesAre DEF WindowInv, RangesInv
  <2>7. Below(awAckedRanges[m], r)
    BY Zenon, <1>2, <2>5, <2>6, Order DEF AtMost
  <2> QED
    BY Zenon, <2>3, <2>7
<1>5. i \in filterUnackedRecordIds(c)
  <2>1. LET q == <<c.batch, i>>
            T == {k \in DOMAIN awAckedRanges : AtMost(k, q)} IN
        AtMost(awWindowLowerBound, q) /\ (T # {} => Below(awAckedRanges[Maximum(T)], q))
    BY Zenon, <1>1, <1>3, <1>4
  <2> QED
    BY Zenon, <2>1 DEF filterUnackedRecordIds
<1> QED
  BY Zenon, <1>1, <1>2, <1>5

\* The job narrows an entry to what is not acknowledged.
LEMMA TimeoutResend ==
  ASSUME WindowInv, ResendInv, NEW c \in timeoutList, resendTimeoutRecords(c)
  PROVE  ResendInv'
<1> DEFINE left == filterUnackedRecordIds(c)
           c1 == [c EXCEPT !.indexes = left]
<1>1. /\ resending = Nothing /\ timeoutList' = timeoutList \ {c}
      /\ resending' = IF left = {} THEN Nothing ELSE c1
      /\ UNCHANGED <<log, checkList, forgotten, next, batches, step, acks, acked, delivered>>
  BY Zenon DEF resendTimeoutRecords, boundVars, clientVars, loopVars
<1>2. c \in CheckedRecordIds /\ c \in [batch : LSNs, indexes : SUBSET Indexes]
  BY Zenon DEF WindowInv, EntryInv, CheckedRecordIds
<1>3. left \subseteq c.indexes
  BY Zenon DEF filterUnackedRecordIds
<1>4. \A r \in Records : r \in idsIn(c) /\ r \notin acked => r[2] \in left /\ r = <<c.batch, r[2]>>
  BY Zenon, <1>2, FilterIs
<1> HIDE DEF left
<1>5. c1.batch = c.batch /\ c1.indexes = left /\ c1 \in [batch : LSNs, indexes : SUBSET Indexes]
  BY Zenon, <1>2, <1>3
<1>6. c1 # Nothing
  BY Zenon, <1>5, NothingIsNoEntry DEF CheckedRecordIds
<1> HIDE DEF c1
<1>7. \A b : done(b)' <=> done(b)
  BY Zenon, <1>1 DEF done
<1>8. EntriesInv'
  BY Zenon, <1>1, <1>5, <1>7 DEF ResendInv, EntriesInv
<1>9. DeliveredInv' /\ (KeysInv => KeysInv')
  BY Zenon, <1>1, <1>7 DEF ResendInv, DeliveredInv, Records, KeysInv
<1>10. UnackedWaitsForResend => UnackedWaitsForResend'
  <2> SUFFICES ASSUME UnackedWaitsForResend, NEW r \in delivered, r \notin acked, r \notin forgotten PROVE waitsForResend(r)'
    BY Zenon, <1>1 DEF UnackedWaitsForResend
  <2>1. r \in Records
    BY Zenon DEF ResendInv, DeliveredInv
  <2>2. waitsForResend(r)
    BY Zenon DEF UnackedWaitsForResend
  <2>3. CASE r \in idsIn(c)
    <3>1. r[2] \in left /\ r = <<c.batch, r[2]>>
      BY Zenon, <1>4, <2>1, <2>3
    <3>2. r \in idsIn(c1)
      BY Zenon, <1>5, <3>1 DEF idsIn
    <3>3. resending' = c1
      BY Zenon, <1>1, <3>1
    <3> QED
      BY Zenon, <1>6, <3>2, <3>3 DEF waitsForResend, idsIn
  <2>4. CASE r \notin idsIn(c)
    BY Zenon, <1>1, <2>2, <2>4 DEF waitsForResend, idsIn, idsOf
  <2> QED
    BY Zenon, <2>3, <2>4
<1> QED
  BY Zenon, <1>1, <1>8, <1>9, <1>10 DEF ResendInv

\* The job registers what it sent again, or gives it up when a read returned nothing.
LEMMA SentResend ==
  ASSUME WindowInv, ResendInv, resend \/ resendReadsNothing
  PROVE  ResendInv'
<1>1. /\ resending # Nothing /\ resending' = Nothing
      /\ checkList' = checkList \/ checkList' = checkList \cup {resending}
      /\ UNCHANGED <<log, timeoutList, next, batches, step, acks, acked, delivered>>
  BY Zenon DEF resend, resendReadsNothing, boundVars, clientVars, loopVars
<1>2. \A b : done(b)' <=> done(b)
  BY Zenon, <1>1 DEF done
<1>3. EntriesInv'
  BY Zenon, <1>1, <1>2 DEF ResendInv, EntriesInv
<1>4. DeliveredInv'
  BY Zenon, <1>1, <1>2 DEF ResendInv, DeliveredInv, Records
<1>5. CASE resend
  <2>1. forgotten' = forgotten /\ checkList' = checkList \cup {resending}
    BY Zenon, <1>5 DEF resend, boundVars
  <2>2. UnackedWaitsForResend => UnackedWaitsForResend'
    BY Zenon, <1>1, <2>1 DEF UnackedWaitsForResend, waitsForResend, idsIn, idsOf
  <2>3. KeysInv'
    BY Zenon, <1>1, <1>2, <2>1 DEF ResendInv, KeysInv
  <2> QED
    BY Zenon, <1>3, <1>4, <2>2, <2>3 DEF ResendInv
<1>6. CASE resendReadsNothing
  <2>1. forgotten' = forgotten \cup idsIn(resending) /\ checkList' = checkList
    BY Zenon, <1>6 DEF resendReadsNothing
  <2>2. UnackedWaitsForResend'
    <3> SUFFICES ASSUME NEW r \in delivered, r \notin acked, r \notin forgotten, r \notin idsIn(resending)
                 PROVE  waitsForResend(r)'
      BY Zenon, <1>1, <2>1 DEF UnackedWaitsForResend
    <3>1. waitsForResend(r)
      BY Zenon DEF ResendInv, UnackedWaitsForResend
    <3> QED
      BY Zenon, <1>1, <2>1, <3>1 DEF waitsForResend, idsIn, idsOf
  <2>3. KeysInv'
    BY Zenon, <1>1, <1>2, <2>1 DEF ResendInv, KeysInv
  <2> QED
    BY Zenon, <1>3, <1>4, <2>2, <2>3 DEF ResendInv
<1> QED
  BY Zenon, <1>5, <1>6

\* Acknowledged ids leave the entries; the batches that are noted are acknowledged.
LEMMA MarkResend == ASSUME WindowInv, ResendInv, NEW h \in Handlers, markAcked(h) PROVE ResendInv'
<1> DEFINE A == Range(acks[h].ids)
           rest(c) == {i \in c.indexes : <<c.batch, i>> \notin A}
           left(c) == [c EXCEPT !.indexes = rest(c)]
           K == {c.batch : c \in {d \in checkList : left(d).indexes = {} /\ \E r \in A : r[1] = d.batch}}
<1>1. /\ checkList' = {left(c) : c \in checkList}
      /\ acks' = [acks EXCEPT ![h].step = "sweep", ![h].keys = K]
      /\ UNCHANGED <<log, timeoutList, resending, forgotten, next, batches, step, acked, delivered>>
  BY Zenon DEF markAcked, windowVars, loopVars, resendVars, clientVars, boundVars
<1>2. A \subseteq acked
  <2>1. PICK st, ids, keys, lsn :
          acks[h] = [step |-> st, ids |-> ids, keys |-> keys, lsn |-> lsn] /\ ids \in Seq(acked)
    BY Zenon DEF WindowInv, AckInv, isThread
  <2> QED
    BY <2>1 DEF Range
<1>3. \A b : done(b)' <=> done(b)
  BY Zenon, <1>1 DEF done
<1>4. \A c \in checkList : c \in [batch : LSNs, indexes : SUBSET Indexes] /\ c.batch \in LSNs
  BY Zenon DEF WindowInv, EntryInv, CheckedRecordIds
<1>5. \A c \in checkList : left(c).batch = c.batch /\ left(c).indexes = rest(c)
  BY Zenon, <1>4
<1>6. /\ DOMAIN acks = Handlers
      /\ acks'[h].keys = K
      /\ \A k \in Handlers : k # h => acks'[k] = acks[k]
  <2>1. PICK st, ids, keys, lsn :
          acks[h] = [step |-> st, ids |-> ids, keys |-> keys, lsn |-> lsn] /\ ids \in Seq(acked)
    BY Zenon DEF WindowInv, AckInv, isThread
  <2>2. DOMAIN acks = Handlers
    BY Zenon DEF WindowInv, AckInv
  <2> HIDE DEF K
  <2> QED
    BY Zenon, <1>1, <2>1, <2>2
<1>7. \A b \in K : \E d \in checkList : d.batch = b /\ rest(d) = {}
  BY Zenon, <1>5
<1> HIDE DEF K, left
<1>8. EntriesInv'
  <2>1. \A c \in checkList' : \E d \in checkList : c = left(d) /\ c.batch = d.batch
    BY Zenon, <1>1, <1>5
  <2> QED
    BY <1>1, <1>3, <2>1 DEF ResendInv, EntriesInv
<1>9. DeliveredInv'
  BY Zenon, <1>1, <1>3 DEF ResendInv, DeliveredInv, Records
<1>10. ASSUME KeysInv, UnackedWaitsForResend PROVE KeysInv' /\ UnackedWaitsForResend'
  <2>1. ASSUME NEW b \in K
        PROVE  b \in LSNs /\ done(b) /\ \A r \in delivered : r[1] = b => r \in acked \cup forgotten
    <3>1. PICK d \in checkList : d.batch = b /\ rest(d) = {}
      BY Zenon, <1>7
    <3>2. b \in LSNs /\ done(b)
      BY Zenon, <1>4, <3>1 DEF ResendInv, EntriesInv
    <3>3. ASSUME NEW r \in delivered, r[1] = b, r \notin acked, r \notin forgotten PROVE FALSE
      <4>1. waitsForResend(r)
        BY Zenon, <1>10, <3>3 DEF UnackedWaitsForResend
      <4>2. ASSUME NEW c, r \in idsIn(c) PROVE c.batch = b /\ \E i \in c.indexes : r = <<c.batch, i>>
        BY <3>3, <4>2 DEF idsIn
      <4>3. CASE \E c \in checkList \cup timeoutList : r \in idsIn(c)
        <5>1. PICK c \in checkList \cup timeoutList : r \in idsIn(c)
          BY Zenon, <4>3
        <5>2. c = d
          BY Zenon, <3>1, <4>2, <5>1 DEF ResendInv, EntriesInv
        <5>3. PICK i \in d.indexes : r = <<d.batch, i>>
          BY Zenon, <4>2, <5>1, <5>2
        <5>4. i \in rest(d)
          BY Zenon, <1>2, <3>3, <5>3
        <5> QED
          BY Zenon, <3>1, <5>4
      <4>4. CASE resending # Nothing /\ r \in idsIn(resending)
        BY Zenon, <3>1, <4>2, <4>4 DEF ResendInv, EntriesInv
      <4>5. CASE step = "register" /\ r \in idsOf(Head(batches))
        <5>1. r[1] = Head(batches)
          BY <4>5 DEF idsOf
        <5>2. b < Head(batches) /\ Head(batches) \in LSNs
          BY Zenon, <3>2, <4>5, HeadIs DEF done, WindowInv
        <5> QED
          BY <3>3, <5>1, <5>2 DEF LSNs
      <4> QED
        BY Zenon, <4>1, <4>3, <4>4, <4>5 DEF waitsForResend
    <3> QED
      BY Zenon, <3>2, <3>3
  <2>2. KeysInv'
    <3> SUFFICES ASSUME NEW k \in Handlers, acks'[k].step = "sweep", NEW b \in acks'[k].keys
                 PROVE  b \in LSNs /\ done(b)' /\ \A r \in delivered : r[1] = b => r \in acked \cup forgotten
      BY Zenon, <1>1 DEF KeysInv
    <3>1. CASE k = h
      BY Zenon, <1>3, <1>6, <2>1, <3>1
    <3>2. CASE k # h
      BY Zenon, <1>3, <1>6, <1>10, <3>2 DEF KeysInv
    <3> QED
      BY Zenon, <3>1, <3>2
  <2>3. UnackedWaitsForResend'
    <3> SUFFICES ASSUME NEW r \in delivered, r \notin acked, r \notin forgotten PROVE waitsForResend(r)'
      BY Zenon, <1>1 DEF UnackedWaitsForResend
    <3>1. waitsForResend(r)
      BY Zenon, <1>10 DEF UnackedWaitsForResend
    <3>2. ASSUME NEW c \in checkList, r \in idsIn(c) PROVE left(c) \in checkList' /\ r \in idsIn(left(c))
      <4>1. PICK i \in c.indexes : r = <<c.batch, i>>
        BY Zenon, <3>2 DEF idsIn
      <4>2. i \in rest(c)
        BY Zenon, <1>2, <4>1
      <4> QED
        BY Zenon, <1>1, <1>5, <4>1, <4>2 DEF idsIn
    <3>3. CASE \E c \in checkList : r \in idsIn(c)
      <4>1. PICK c \in checkList' : r \in idsIn(c)
        BY Zenon, <3>2, <3>3
      <4> QED
        BY Zenon, <4>1 DEF waitsForResend, idsIn
    <3>4. CASE ~ \E c \in checkList : r \in idsIn(c)
      BY Zenon, <1>1, <3>1, <3>4 DEF waitsForResend, idsIn, idsOf
    <3> QED
      BY Zenon, <3>3, <3>4
  <2> QED
    BY Zenon, <2>2, <2>3
<1> QED
  BY Zenon, <1>1, <1>8, <1>9, <1>10 DEF ResendInv

\* The entries that are removed hold nothing that is not acknowledged.
LEMMA SweepResend == ASSUME WindowInv, ResendInv, NEW h \in Handlers, sweepAcked(h) PROVE ResendInv'
<1>1. /\ acks[h].step = "sweep" /\ checkList' = {c \in checkList : c.batch \notin acks[h].keys}
      /\ acks' = [acks EXCEPT ![h].step = "doAck"]
      /\ UNCHANGED <<log, timeoutList, resending, forgotten, next, batches, step, acked, delivered>>
  BY Zenon DEF sweepAcked, windowVars, loopVars, resendVars, clientVars, boundVars
<1>2. \A b : done(b)' <=> done(b)
  BY Zenon, <1>1 DEF done
<1>3. \A k \in Handlers : acks'[k].step = "sweep" => acks'[k] = acks[k]
  <2>1. PICK st, ids, keys, lsn :
          acks[h] = [step |-> st, ids |-> ids, keys |-> keys, lsn |-> lsn] /\ ids \in Seq(acked)
    BY Zenon DEF WindowInv, AckInv, isThread
  <2>2. DOMAIN acks = Handlers
    BY Zenon DEF WindowInv, AckInv
  <2>3. acks'[h].step = "doAck" /\ \A k \in Handlers : k # h => acks'[k] = acks[k]
    BY Zenon, <1>1, <2>1, <2>2
  <2> QED
    BY Zenon, <2>3
<1>4. EntriesInv'
  BY Zenon, <1>1, <1>2 DEF ResendInv, EntriesInv
<1>5. DeliveredInv' /\ (KeysInv => KeysInv')
  BY Zenon, <1>1, <1>2, <1>3 DEF ResendInv, DeliveredInv, Records, KeysInv
<1>6. ASSUME KeysInv, UnackedWaitsForResend PROVE UnackedWaitsForResend'
  <2> SUFFICES ASSUME NEW r \in delivered, r \notin acked, r \notin forgotten PROVE waitsForResend(r)'
    BY Zenon, <1>1 DEF UnackedWaitsForResend
  <2>1. waitsForResend(r)
    BY Zenon, <1>6 DEF UnackedWaitsForResend
  <2>2. ASSUME NEW c \in checkList, r \in idsIn(c) PROVE c \in checkList'
    <3>1. r[1] = c.batch
      BY <2>2 DEF idsIn
    <3>2. c.batch \notin acks[h].keys
      BY Zenon, <1>1, <1>6, <3>1 DEF KeysInv
    <3> QED
      BY Zenon, <1>1, <3>2
  <2> QED
    BY Zenon, <1>1, <2>1, <2>2 DEF waitsForResend, idsIn, idsOf
<1> QED
  BY Zenon, <1>1, <1>4, <1>5, <1>6 DEF ResendInv

\* The other steps of the loop.
LEMMA LoopResend ==
  ASSUME WindowInv, ResendInv,
         \/ \E n \in 1..MaxRead : readRecordBatches(n)
         \/ \E hi \in LSNs : readGap(hi)
         \/ insertBatch \/ deliverFails
  PROVE  ResendInv'
<1>1. /\ UNCHANGED <<log, checkList, timeoutList, resending, delivered, forgotten, acked, acks>>
      /\ step # "register"
  BY Zenon DEF readRecordBatches, readGap, insertBatch, deliverFails, clientVars, boundVars, resendVars
<1>2. \A b \in LSNs : b \in Int
  BY DEF LSNs
<1>3. \A b \in LSNs : done(b) => done(b)'
  <2>1. ASSUME NEW n \in 1..MaxRead, readRecordBatches(n) PROVE \A b \in LSNs : done(b) => done(b)'
    <3>1. step = "read" /\ step' = "insert" /\ batches' = [i \in 1..n |-> next + i - 1]
      BY Zenon, <2>1 DEF readRecordBatches
    <3>2. next \in Nat /\ n \in Nat /\ 1 \in 1..n
      BY BoundsAssumption, WordAssumption DEF WindowInv, LoopInv
    <3>3. batches'[1] = next
      BY <3>1, <3>2
    <3>4. Head(batches') = batches'[1]
      BY <3>1, <3>2
    <3> QED
      BY Zenon, <3>1, <3>3, <3>4 DEF done
  <2>2. ASSUME NEW hi \in LSNs, readGap(hi) PROVE \A b \in LSNs : done(b) => done(b)'
    <3>1. step = "read" /\ step' = "read" /\ next' = hi + 1 /\ hi >= next
      BY Zenon, <2>2 DEF readGap
    <3>2. next \in Int /\ hi \in Int
      BY <1>2 DEF WindowInv, LoopInv
    <3> QED
      BY <1>2, <3>1, <3>2 DEF done
  <2>3. CASE insertBatch
    BY Zenon, <2>3 DEF insertBatch, done
  <2>4. CASE deliverFails
    BY Zenon, <2>4 DEF deliverFails, addUnackedRecords, done
  <2> QED
    BY Zenon, <2>1, <2>2, <2>3, <2>4
<1> QED
  BY Zenon, <1>1, <1>3, ResendKept

\* Steps of a thread outside of removeAckedRecordIdsFromCheckList.
LEMMA ThreadResend ==
  ASSUME WindowInv, ResendInv, NEW h \in Handlers,
         \/ \E n \in 1..MaxAcks : \E ids \in [1..n -> received] : recvAcks(h, ids)
         \/ doAck(h) \/ writeCheckpoints(h)
  PROVE  ResendInv'
<1>1. /\ UNCHANGED <<log, checkList, timeoutList, resending, delivered, forgotten, next, batches, step>>
      /\ acked \subseteq acked'
  BY Zenon DEF recvAcks, doAck, writeCheckpoints, clientVars, boundVars, resendVars, loopVars
<1>2. \E a : a.step # "sweep" /\ acks' = [acks EXCEPT ![h] = a]
  <2>1. CASE \E n \in 1..MaxAcks : \E ids \in [1..n -> received] : recvAcks(h, ids)
    <3>1. PICK n \in 1..MaxAcks : \E ids \in [1..n -> received] : recvAcks(h, ids)
      BY Zenon, <2>1
    <3>2. PICK ids \in [1..n -> received] : acks' = [acks EXCEPT ![h] = [idle EXCEPT !.step = "mark", !.ids = ids]]
      BY Zenon, <3>1 DEF recvAcks
    <3>3. [idle EXCEPT !.step = "mark", !.ids = ids].step = "mark"
      BY Zenon DEF idle
    <3> QED
      BY Zenon, <3>2, <3>3
  <2>2. CASE doAck(h)
    <3>1. acks' = [acks EXCEPT ![h] = idle]
          \/ \E lsn : acks' = [acks EXCEPT ![h] = [idle EXCEPT !.step = "write", !.lsn = lsn]]
      BY Zenon, <2>2 DEF doAck
    <3> QED
      BY Zenon, <3>1, IdleThread
  <2>3. CASE writeCheckpoints(h)
    BY Zenon, <2>3, IdleThread DEF writeCheckpoints
  <2> QED
    BY Zenon, <2>1, <2>2, <2>3
<1>3. DOMAIN acks = Handlers
  BY Zenon DEF WindowInv, AckInv
<1>4. \A k \in Handlers : acks'[k].step = "sweep" => acks[k].step = "sweep" /\ acks'[k].keys = acks[k].keys
  BY Zenon, <1>2, <1>3
<1>5. \A b \in LSNs : done(b) => done(b)'
  BY Zenon, <1>1 DEF done
<1> QED
  BY Zenon, <1>1, <1>4, <1>5, ResendKept

\* A restart forgets what was delivered, and will deliver it again.
LEMMA CrashResend == ASSUME ResendInv, crash PROVE ResendInv'
<1>1. /\ checkList' = {} /\ timeoutList' = {} /\ resending' = Nothing /\ delivered' = {}
      /\ acks' = [h \in Handlers |-> idle] /\ UNCHANGED log
  BY Zenon DEF crash
<1>2. EntriesInv' /\ DeliveredInv' /\ UnackedWaitsForResend'
  BY Zenon, <1>1 DEF EntriesInv, DeliveredInv, UnackedWaitsForResend
<1>3. KeysInv'
  BY Zenon, <1>1, IdleThread DEF KeysInv
<1> QED
  BY Zenon, <1>1, <1>2, <1>3 DEF ResendInv

\* Every step keeps the invariant.
LEMMA StepResend == ASSUME WindowInv, ResendInv, [Next]_vars PROVE ResendInv'
<1>1. CASE \/ \E n \in 1..MaxRead : readRecordBatches(n)
           \/ \E hi \in LSNs : readGap(hi)
           \/ insertBatch \/ deliverFails
  BY Zenon, <1>1, LoopResend
<1>2. CASE deliver
  BY Zenon, <1>2, DeliverResend
<1>3. CASE registerResend
  BY Zenon, <1>3, RegisterResend
<1>4. ASSUME NEW S \in SUBSET checkList, updateClockAndDoResend(S) PROVE ResendInv'
  BY Zenon, <1>4, ClockResend
<1>5. ASSUME NEW c \in timeoutList, resendTimeoutRecords(c) PROVE ResendInv'
  BY Zenon, <1>5, TimeoutResend
<1>6. CASE resend \/ resendReadsNothing
  BY Zenon, <1>6, SentResend
<1>7. ASSUME NEW h \in Handlers,
             \/ \E n \in 1..MaxAcks : \E ids \in [1..n -> received] : recvAcks(h, ids)
             \/ doAck(h) \/ writeCheckpoints(h)
      PROVE  ResendInv'
  BY Zenon, <1>7, ThreadResend
<1>8. ASSUME NEW h \in Handlers, markAcked(h) PROVE ResendInv'
  BY Zenon, <1>8, MarkResend
<1>9. ASSUME NEW h \in Handlers, sweepAcked(h) PROVE ResendInv'
  BY Zenon, <1>9, SweepResend
<1>10. CASE crash
  BY Zenon, <1>10, CrashResend
<1>11. CASE UNCHANGED vars
  <2>1. UNCHANGED <<log, checkList, timeoutList, resending, delivered, forgotten, next, batches, step, acks, acked>>
    BY Zenon, <1>11 DEF vars, loopVars, resendVars, clientVars, boundVars
  <2>2. \A b \in LSNs : done(b) => done(b)'
    BY Zenon, <2>1 DEF done
  <2> QED
    BY Zenon, <2>1, <2>2, ResendKept
<1> QED
  BY <1>1, <1>2, <1>3, <1>4, <1>5, <1>6, <1>7, <1>8, <1>9, <1>10, <1>11 DEF Next

\* A record that was delivered and is not acknowledged is due for another delivery,
\* unless the resend job read nothing when it was to send it again, although the
\* loop, the resend job and the recvAcks threads edit the check list concurrently
\* (registerResend, resendTimeoutRecords, removeAckedRecordIdsFromCheckList).
THEOREM NotForgotten == Spec => []UnackedWaitsForResend
<1>1. Init => ResendInv
  <2> SUFFICES ASSUME Init PROVE ResendInv
    BY Zenon
  <2>1. /\ checkList = {} /\ timeoutList = {} /\ resending = Nothing /\ delivered = {}
        /\ acks = [h \in Handlers |-> idle]
    BY Zenon DEF Init
  <2>2. KeysInv
    BY Zenon, <2>1 DEF KeysInv, idle
  <2> QED
    BY Zenon, <2>1, <2>2 DEF ResendInv, EntriesInv, DeliveredInv, UnackedWaitsForResend
<1>2. WindowInv /\ ResendInv /\ [Next]_vars => ResendInv'
  BY Zenon, StepResend
<1>3. ResendInv => UnackedWaitsForResend
  BY Zenon DEF ResendInv
<1> QED
  BY <1>1, <1>2, <1>3, WindowInvariance, PTL DEF Spec
=============================================================================
