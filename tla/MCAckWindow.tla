---------------------------- MODULE MCAckWindow ----------------------------
(***************************************************************************)
(* Instances of AckWindow: logs of two or three LSNs.                      *)
(***************************************************************************)
EXTENDS AckWindow, TLC

\* A batch of two and one of one record, in both orders, and a gap before or after.
MixedLogs == {<<2, 1>>, <<1, 2>>, <<0, 2>>, <<2, 0>>}

SingleRecords == {<<1, 1>>}
PairsAndGaps == [LSNs -> {0, 2}]

\* An acknowledgement lists its ids in order.  doAck inserts them one by one in a
\* single transaction, and lists of one id, sent in any order, insert in any order.
AcksInOrder ==
  \A h \in Handlers : \A i, j \in DOMAIN acks[h].ids :
    i < j => Below(acks[h].ids[i], acks[h].ids[j])

Symmetry == Permutations(Handlers)
=============================================================================
