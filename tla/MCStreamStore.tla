--------------------------- MODULE MCStreamStore ---------------------------
(***************************************************************************)
(* An instance of StreamStore: two servers with one thread each, one       *)
(* stream that exists and one name to create or to rename it to.           *)
(***************************************************************************)
EXTENDS StreamStore, TLC

MCClient == [t \in Threads |-> t]
MCStartTree == [dirs |-> ("s1" :> {"made"}), logs |-> <<>>]

do(op, path, arg) == [op |-> op, path |-> path, arg |-> arg]

MCJobs ==
  {do("createStream", <<"s2">>, 0), do("removeStream", <<"s1">>, 0),
   do("renameStream", <<"s1">>, "s2"), do("createStreamPartition", <<"s1", "k">>, 0),
   do("updateStreamExtraAttrs", <<"s1">>, "x"), do("getUnderlyingLogId", <<"s1", "k">>, 0),
   do("getStreamIdFromLogId", <<>>, 1),
   do("initCheckpointDir", <<"ckp">>, 0), do("allocCheckpointId", <<"ckp", "g">>, 0),
   do("freeCheckpointId", <<"ckp", "g">>, 0),
   do("append", <<>>, 0), do("appendBatch", <<>>, 0)}

MCPartitionJobs ==
  {do("createStreamPartition", <<"s1", "k">>, 0), do("removeStream", <<"s1">>, 0),
   do("createStream", <<"s1">>, 0)}

Symmetry == Permutations(Threads)
=============================================================================
