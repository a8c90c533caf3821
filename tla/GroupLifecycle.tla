--------------------------- MODULE GroupLifecycle ---------------------------
(***************************************************************************)
(* What a consumer group promises, whatever its timers, protocols and      *)
(* parked requests do.  Membership only grows while a rebalance is being   *)
(* prepared; a generation is opened only then, is numbered one more than   *)
(* the last, and consists of members that were there; it becomes stable    *)
(* only from its sync phase, with exactly the members it has then, and not *)
(* before it is saved.  A restart loses what was not saved, no more.       *)
(***************************************************************************)
EXTENDS Naturals

CONSTANT MemberIds

VARIABLES
  phase,       \* Empty, PreparingRebalance, CompletingRebalance or Stable
  generation,
  members,
  saved        \* the last snapshot, if any

vars == <<phase, generation, members, saved>>

snapshot == [present |-> TRUE, generation |-> generation', members |-> members']

Init ==
  /\ phase = "Empty"
  /\ generation = 0
  /\ members = {}
  /\ saved = [present |-> FALSE, generation |-> 0, members |-> {}]

\* A member joins, rejoins, leaves or is given up: a rebalance is prepared.
Disturb ==
  /\ phase' = "PreparingRebalance"
  /\ \E m \in MemberIds : members' = members \cup {m} \/ members' = members \ {m}
  /\ UNCHANGED <<generation, saved>>

\* A generation nobody is in.
Vacate ==
  /\ phase = "PreparingRebalance"
  /\ phase' = "Empty"
  /\ generation' = generation + 1
  /\ members' = {}
  /\ saved' = snapshot \/ UNCHANGED saved

\* A generation of some of the members, or a failed attempt to open it.
OpenGeneration ==
  /\ phase = "PreparingRebalance"
  /\ phase' \in {"PreparingRebalance", "CompletingRebalance"}
  /\ generation' = generation + 1
  /\ members' \subseteq members
  /\ members' # {}
  /\ UNCHANGED saved

\* Members that do not sync in time are dropped.
Drop ==
  /\ phase = "CompletingRebalance"
  /\ members' \subseteq members
  /\ UNCHANGED <<phase, generation, saved>>

Stabilise ==
  /\ phase = "CompletingRebalance"
  /\ members # {}
  /\ phase' = "Stable"
  /\ UNCHANGED <<generation, members>>
  /\ saved' = snapshot

\* An offset commit may save the group, but never one in its sync phase.
Save ==
  /\ phase # "CompletingRebalance"
  /\ UNCHANGED <<phase, generation, members>>
  /\ saved' = snapshot

Restart ==
  /\ phase' = "Empty"
  /\ generation' = 0
  /\ members' = {}
  /\ UNCHANGED saved

Restore ==
  /\ phase = "Empty" /\ generation = 0
  /\ saved.present
  /\ phase' = IF saved.members = {} THEN "Empty" ELSE "Stable"
  /\ generation' = saved.generation
  /\ members' = saved.members
  /\ UNCHANGED saved

Next ==
  \/ Disturb \/ Vacate \/ OpenGeneration \/ Drop \/ Stabilise \/ Save
  \/ Restart \/ Restore

Spec == Init /\ [][Next]_vars
=============================================================================
