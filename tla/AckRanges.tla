----------------------------- MODULE AckRanges -----------------------------
(***************************************************************************)
(* The arithmetic of acknowledged record ids of one shard (Common.hs and   *)
(* tryUpdateWindowLowerBound of Subscription.hs).  A record id is a pair   *)
(* of a batch (an LSN) and an index.  Maps are functions: ackedRanges maps *)
(* the start of each range to its end, batchNumMap a batch to its number   *)
(* of records, 0 for the first and last LSN of a gap.                      *)
(***************************************************************************)
EXTENDS Naturals, FiniteSets

CONSTANTS
  W,       \* number of values of a Word32: indexes, batch sizes and counters wrap
  MaxLSN,  \* bound: the last LSN of the log
  Nothing  \* Haskell's Nothing

ASSUME WordAssumption == W \in Nat \ {0} /\ MaxLSN \in Nat \ {0}
ASSUME NothingAssumption == \A b \in 0..MaxLSN + 1, i \in 0..W : Nothing # <<b, i>>

Indexes == 0..W - 1
minBound == <<0, 0>>
maxBound == <<MaxLSN + 1, W - 1>>   \* larger than any id in the log

Below(r1, r2) == r1[1] < r2[1] \/ (r1[1] = r2[1] /\ r1[2] < r2[2])
AtMost(r1, r2) == r1 = r2 \/ Below(r1, r2)
Minimum(S) == CHOOSE r \in S : \A x \in S : AtMost(r, x)
Maximum(S) == CHOOSE r \in S : \A x \in S : AtMost(x, r)
Without(f, k) == [x \in DOMAIN f \ {k} |-> f[x]]
With(f, k, v) == [x \in DOMAIN f \cup {k} |-> IF x = k THEN v ELSE f[x]]

\* Ranges next to r, as <<start, end>>.
lookupLTWithDefault(r, ranges) ==
  LET S == {k \in DOMAIN ranges : Below(k, r)} IN
  IF S = {} THEN <<minBound, minBound>> ELSE <<Maximum(S), ranges[Maximum(S)]>>

lookupGTWithDefault(r, ranges) ==
  LET S == {k \in DOMAIN ranges : Below(r, k)} IN
  IF S = {} THEN <<maxBound, maxBound>> ELSE <<Minimum(S), ranges[Minimum(S)]>>

isValidRecordId(r, batchNumMap) ==
  r[1] \in DOMAIN batchNumMap /\ r[2] < batchNumMap[r[1]]

\* The code raises an error for a batch it does not know (see EndsAreKnown).
isLastInBatch(r, batchNumMap) ==
  /\ r[1] \in DOMAIN batchNumMap
  /\ batchNumMap[r[1]] = 0 \/ r[2] = batchNumMap[r[1]] - 1

isSuccessor(r1, r2, batchNumMap) ==
  /\ r2 # minBound
  /\ Below(r2, r1)
  /\ \/ r1[1] = r2[1] /\ r1[2] = r2[2] + 1
     \/ r1[1] = r2[1] + 1 /\ r1[2] = 0 /\ isLastInBatch(r2, batchNumMap)

isPrecursor(r1, r2, batchNumMap) == r2 # maxBound /\ isSuccessor(r2, r1, batchNumMap)

getSuccessor(r, batchNumMap) ==
  IF isLastInBatch(r, batchNumMap) THEN <<r[1] + 1, 0>> ELSE <<r[1], r[2] + 1>>

\* Mutant: the left neighbour is extended whether or not it is adjacent.
insertAckedRecordId_MergesAcrossHoles(r, lowerBound, ranges, batchNumMap) ==
  LET left == lookupLTWithDefault(r, ranges) IN
  IF ~isValidRecordId(r, batchNumMap) \/ Below(r, lowerBound) \/ r \in DOMAIN ranges
     \/ AtMost(r, left[2])
  THEN Nothing
  ELSE IF left[1] \in DOMAIN ranges THEN [ranges EXCEPT ![left[1]] = r]
  ELSE With(ranges, r, r)

\* The ranges with r added, or Nothing when r is not one to add.
insertAckedRecordId(r, lowerBound, ranges, batchNumMap) ==
  LET left   == lookupLTWithDefault(r, ranges)
      right  == lookupGTWithDefault(r, ranges)
      toLeft == isSuccessor(r, left[2], batchNumMap)
      toRight == isPrecursor(r, right[1], batchNumMap)
      duplicate == \E range \in {left, right} : AtMost(range[1], r) /\ AtMost(r, range[2])
  IN
  IF ~isValidRecordId(r, batchNumMap) \/ Below(r, lowerBound) \/ r \in DOMAIN ranges
  THEN Nothing
  ELSE IF toLeft /\ toRight THEN [Without(ranges, right[1]) EXCEPT ![left[1]] = right[2]]
  ELSE IF toLeft THEN [ranges EXCEPT ![left[1]] = r]
  ELSE IF toRight THEN With(Without(ranges, right[1]), r, right[2])
  ELSE IF duplicate THEN Nothing
  ELSE With(ranges, r, r)

\* Mutant: the batch of the last acknowledged record is taken for complete.
getCommitRecordId_Incomplete(ranges, batchNumMap) ==
  IF ranges = <<>> THEN Nothing
  ELSE LET last == ranges[Minimum(DOMAIN ranges)] IN
       IF last[1] \in DOMAIN batchNumMap THEN last ELSE Nothing

\* Mutant: only the batch before the one of the last acknowledged record.
getCommitRecordId_Precursor(ranges, batchNumMap) ==
  IF ranges = <<>> THEN Nothing
  ELSE LET b == ranges[Minimum(DOMAIN ranges)][1] - 1 IN
       IF b \in DOMAIN batchNumMap THEN <<b, (batchNumMap[b] + W - 1) % W>> ELSE Nothing

\* The last record of the last complete batch of the lowest range.
getCommitRecordId(ranges, batchNumMap) ==
  IF ranges = <<>> THEN Nothing
  ELSE LET last == ranges[Minimum(DOMAIN ranges)]
           lastIndex(b) == (batchNumMap[b] + W - 1) % W
       IN
       IF last[1] \notin DOMAIN batchNumMap THEN Nothing
       ELSE IF last[2] = lastIndex(last[1]) THEN last
       ELSE IF last[1] - 1 \in DOMAIN batchNumMap THEN <<last[1] - 1, lastIndex(last[1] - 1)>>
       ELSE Nothing

\* The ranges and the lower bound after committing, or Nothing.
tryUpdateWindowLowerBound(ranges, lowerBound, batchNumMap, commitPoint) ==
  IF commitPoint = Nothing \/ ranges = <<>> THEN Nothing
  ELSE LET start == Minimum(DOMAIN ranges)
           end   == ranges[start]
           next  == getSuccessor(commitPoint, batchNumMap)
       IN
       IF start # lowerBound THEN Nothing
       ELSE IF end[1] = commitPoint[1]
       THEN [ranges |-> Without(ranges, start), lowerBound |-> getSuccessor(end, batchNumMap)]
       ELSE [ranges |-> With(Without(ranges, start), next, end), lowerBound |-> next]
=============================================================================
