---------------------------- MODULE MCKafkaGroup ----------------------------
(* KafkaGroup for TLC.  Member ids are interchangeable: they are only ever  *)
(* compared, and hash-table order is a free choice in the specification.    *)
EXTENDS KafkaGroup, TLC

Symmetry == Permutations(MemberIds) \cup Permutations(Protocols)
=============================================================================
