----------------------------- MODULE KafkaGroup -----------------------------
(***************************************************************************)
(* One consumer group of the Kafka-compatible server, as its coordinator   *)
(* keeps it (hstream-kafka/HStream/Kafka/Group/Group.hs).                  *)
(*                                                                         *)
(* Every request handler and every timer of a group works under            *)
(* group.lock, so each is one action here.  Timers are untimed: an armed   *)
(* timer may fire at any moment.  The metastore survives a crash of the    *)
(* server; everything else the coordinator holds does not.  Clients are    *)
(* represented by the answers they hold: a sync, heartbeat or commit       *)
(* request carries what some answer told its member, and since requests    *)
(* may be delayed in the network that answer need not be the latest.       *)
(***************************************************************************)
EXTENDS Naturals, FiniteSets

CONSTANTS
  MemberIds,      \* the member ids the server may generate (UUIDs, never reused)
  Protocols,      \* names of assignment protocols
  ProtocolTypes,  \* e.g. "consumer", "connect"
  None,           \* Haskell's Nothing; as a protocol name also the empty text
  MaxRequests,    \* bound: join requests in a behaviour
  MaxCrashes      \* bound: crashes of the server in a behaviour

ASSUME BoundsAssumption == MaxRequests \in Nat /\ MaxCrashes \in Nat
ASSUME NoneAssumption == None \notin MemberIds \cup Protocols \cup ProtocolTypes

VARIABLES
  \* the Group record
  loaded,                \* the coordinator's table holds the group
  state,
  generation,
  leader,
  members,
  delayedJoinResponses,  \* members whose join request is parked
  delayedSyncResponses,  \* members whose sync request is parked
  delayedRebalance,      \* the rebalance timer
  delayedSync,           \* generation the sync timer was made for, 0 if none
  protocolType,
  protocolName,
  supportedProtocols,
  storedMetadata,
  \* the Member records
  memberProtocols,
  assignment,
  checkers,              \* number of live heartbeat checkers of a member
  heartbeatThread,       \* the member's record names a live checker
  sessionExpired,        \* members silent for a whole session timeout
  \* the metastore
  groupMeta,
  \* clients and history
  generated,             \* member ids generated so far
  answers,               \* successful join answers sent so far
  committed,             \* some offset commit was acknowledged
  requests,              \* join requests handled so far
  incarnation            \* crashes so far

groupVars  == <<loaded, state, generation, leader, members>>
parkVars   == <<delayedJoinResponses, delayedSyncResponses>>
timerVars  == <<delayedRebalance, delayedSync>>
protoVars  == <<protocolType, protocolName, supportedProtocols>>
recordVars == <<memberProtocols, assignment>>
heartVars  == <<checkers, heartbeatThread, sessionExpired>>
metaVars   == <<storedMetadata, groupMeta>>
clientVars == <<generated, answers, requests>>
vars == <<groupVars, parkVars, timerVars, protoVars, recordVars, heartVars,
          metaVars, clientVars, committed, incarnation>>

GroupState == {"PreparingRebalance", "CompletingRebalance", "Stable", "Dead", "Empty"}

\* An assignment is known by the join answer its leader computed it from.
NoAssignment == [incarnation |-> 0, generation |-> 0]
Assignment == [incarnation : Nat, generation : Nat]

NoMeta == [generation |-> 0, leader |-> None, members |-> {}, protocolType |-> None,
           protocolName |-> None, assignment |-> [m \in MemberIds |-> NoAssignment],
           present |-> FALSE]
GroupMetadataValue ==
  [generation : Nat, leader : MemberIds \cup {None}, members : SUBSET MemberIds,
   protocolType : ProtocolTypes \cup {None}, protocolName : Protocols \cup {None},
   assignment : [MemberIds -> Assignment], present : BOOLEAN]

JoinAnswer ==
  [member : MemberIds, leader : MemberIds, roster : SUBSET MemberIds,
   incarnation : Nat, generation : Nat]

TypeOK ==
  /\ loaded \in BOOLEAN
  /\ state \in GroupState
  /\ generation \in Nat
  /\ leader \in MemberIds \cup {None}
  /\ members \subseteq MemberIds
  /\ delayedJoinResponses \subseteq MemberIds
  /\ delayedSyncResponses \subseteq MemberIds
  /\ delayedRebalance \in {"none", "armed", "died"}
  /\ delayedSync \in Nat
  /\ protocolType \in ProtocolTypes \cup {None}
  /\ protocolName \in Protocols \cup {None}
  /\ supportedProtocols \subseteq Protocols \cup {None}
  /\ storedMetadata \in BOOLEAN
  /\ memberProtocols \in [MemberIds -> SUBSET (Protocols \cup {None})]
  /\ assignment \in [MemberIds -> Assignment]
  /\ checkers \in [MemberIds -> Nat]
  /\ heartbeatThread \in [MemberIds -> BOOLEAN]
  /\ sessionExpired \subseteq MemberIds
  /\ groupMeta \in GroupMetadataValue
  /\ generated \subseteq MemberIds
  /\ answers \subseteq JoinAnswer
  /\ committed \in BOOLEAN
  /\ requests \in Nat
  /\ incarnation \in Nat

-----------------------------------------------------------------------------
(* Helpers of Group.hs.                                                     *)

groupStateValidPrevs(s) ==
  CASE s = "PreparingRebalance"  -> {"Stable", "Empty", "CompletingRebalance"}
    [] s = "CompletingRebalance" -> {"PreparingRebalance"}
    [] s = "Stable"              -> {"CompletingRebalance"}
    [] s = "Dead"                -> GroupState
    [] s = "Empty"               -> {"PreparingRebalance"}

\* An illegal transition is logged and leaves the state alone.
transitionTo(s) == state' = IF state \in groupStateValidPrevs(s) THEN s ELSE state

checkSupportedProtocols(P, t) ==
  IF state = "Empty"
  THEN P # {}
  ELSE protocolType = t /\ supportedProtocols \cap P # {}

\* Mutant: a rejoining member's protocols replace the group's.
updateSupportedProtocols_Replaces(P) == supportedProtocols' = P

updateSupportedProtocols(P) ==
  supportedProtocols' = IF supportedProtocols = {} THEN P ELSE P \cap supportedProtocols

\* Mutant: the sync timer is not cancelled.
prepareRebalance_KeepsSyncTimer ==
  /\ delayedSyncResponses' = IF state = "CompletingRebalance" THEN {}
                             ELSE delayedSyncResponses
  /\ UNCHANGED delayedSync
  /\ IF delayedRebalance = "none"
     THEN /\ delayedRebalance' = "armed"
          /\ transitionTo("PreparingRebalance")
     ELSE UNCHANGED <<delayedRebalance, state>>

\* Mutant: parked syncs are not cancelled.
prepareRebalance_KeepsParkedSyncs ==
  /\ delayedSync' = 0
  /\ IF delayedRebalance = "none"
     THEN /\ delayedRebalance' = "armed"
          /\ transitionTo("PreparingRebalance")
     ELSE UNCHANGED <<delayedRebalance, state>>
  /\ UNCHANGED delayedSyncResponses

\* Cancels the sync phase and arms the rebalance timer unless one is set.
prepareRebalance ==
  /\ delayedSyncResponses' = IF state = "CompletingRebalance" THEN {}
                             ELSE delayedSyncResponses
  /\ delayedSync' = 0
  /\ IF delayedRebalance = "none"
     THEN /\ delayedRebalance' = "armed"
          /\ transitionTo("PreparingRebalance")
     ELSE UNCHANGED <<delayedRebalance, state>>

\* Mutant: a stable group is not rebalanced.
rebalanceUnlessPreparing_NotWhenStable ==
  IF state \in {"Empty", "CompletingRebalance"}
  THEN prepareRebalance
  ELSE UNCHANGED <<delayedSyncResponses, delayedSync, delayedRebalance, state>>

\* Mutant: the first member of an empty group starts no rebalance.
rebalanceUnlessPreparing_NotWhenEmpty ==
  IF state \in {"Stable", "CompletingRebalance"}
  THEN prepareRebalance
  ELSE UNCHANGED <<delayedSyncResponses, delayedSync, delayedRebalance, state>>

\* What both join paths and a removal do last: a group that is not already
\* preparing a rebalance starts to.
rebalanceUnlessPreparing ==
  IF state \in {"Empty", "Stable", "CompletingRebalance"}
  THEN prepareRebalance
  ELSE UNCHANGED <<delayedSyncResponses, delayedSync, delayedRebalance, state>>

\* Leaders possible once R is removed while the joins of "parked" are parked:
\* a removed leader is replaced by the first entry of a hash table.
leadersAfterRemoving(R, parked) ==
  IF leader \notin R THEN {leader}
  ELSE IF parked # {} THEN parked
  ELSE IF members \ R # {} THEN members \ R
  ELSE {None}

\* removeMember for every member of R; the checkers are stopped separately.
removeMembers(R, parked) ==
  /\ members' = members \ R
  /\ leader' \in leadersAfterRemoving(R, parked)
  /\ memberProtocols' = [m \in MemberIds |-> IF m \in R THEN {} ELSE memberProtocols[m]]
  /\ assignment' = [m \in MemberIds |-> IF m \in R THEN NoAssignment ELSE assignment[m]]

\* Only the checker the record names is killed: older ones live on.
stopHeartbeatThreads(R) ==
  /\ checkers' = [m \in MemberIds |-> IF m \in R /\ heartbeatThread[m]
                                      THEN checkers[m] - 1 ELSE checkers[m]]
  /\ heartbeatThread' = [m \in MemberIds |-> heartbeatThread[m] /\ m \notin R]
  /\ sessionExpired' = {m \in sessionExpired : checkers'[m] > 0}

\* Mutant: only members that were never watched before get a checker, and
\* the thread of the others is forgotten.
setupDelayedCheckHeartbeat_Forgets ==
  /\ checkers' = [m \in MemberIds |-> IF m \in members /\ checkers[m] = 0 THEN 1 ELSE checkers[m]]
  /\ heartbeatThread' = [m \in MemberIds |-> m \in members /\ checkers[m] = 0]
  /\ sessionExpired' = sessionExpired \ members

\* A new checker for every member, whether or not an old one still runs.
setupDelayedCheckHeartbeat ==
  /\ checkers' = [m \in MemberIds |-> IF m \in members THEN checkers[m] + 1 ELSE checkers[m]]
  /\ heartbeatThread' = [m \in MemberIds |-> heartbeatThread[m] \/ m \in members]
  /\ sessionExpired' = sessionExpired \ members

\* Mutant: the assignments of the previous generation are written.
getGroupValue_OldAssignments(assignments) ==
  [generation |-> generation, leader |-> leader, members |-> members,
   protocolType |-> protocolType, protocolName |-> protocolName,
   assignment |-> assignment, present |-> TRUE]

\* The value written for the group, with the given assignments.
getGroupValue(assignments) ==
  [generation |-> generation, leader |-> leader, members |-> members,
   protocolType |-> protocolType, protocolName |-> protocolName,
   assignment |-> assignments, present |-> TRUE]

storeGroup(value) ==
  /\ groupMeta' = value
  /\ storedMetadata' = TRUE

noAssignments == [m \in MemberIds |-> NoAssignment]

\* The map a leader sends, computed from the roster of its join answer; a
\* follower's answer has no roster, and its sync request an empty map.
getAssignmentMap(a) ==
  [m \in MemberIds |-> IF m \in a.roster
                       THEN [incarnation |-> a.incarnation, generation |-> a.generation]
                       ELSE NoAssignment]


\* newGroup
Init ==
  /\ loaded = FALSE
  /\ state = "Empty"
  /\ generation = 0
  /\ leader = None
  /\ members = {}
  /\ delayedJoinResponses = {}
  /\ delayedSyncResponses = {}
  /\ delayedRebalance = "none"
  /\ delayedSync = 0
  /\ protocolType = None
  /\ protocolName = None
  /\ supportedProtocols = {}
  /\ storedMetadata = FALSE
  /\ memberProtocols = [m \in MemberIds |-> {}]
  /\ assignment = noAssignments
  /\ checkers = [m \in MemberIds |-> 0]
  /\ heartbeatThread = [m \in MemberIds |-> FALSE]
  /\ sessionExpired = {}
  /\ groupMeta = NoMeta
  /\ generated = {}
  /\ answers = {}
  /\ committed = FALSE
  /\ requests = 0
  /\ incarnation = 0

-----------------------------------------------------------------------------
(* Requests.  A request that is refused changes nothing and has no action.  *)

\* A join or an anonymous commit finds no group and creates an empty one.
\* This happens under the coordinator's lock, before the group's.
getOrMaybeCreateGroup ==
  /\ ~loaded
  /\ loaded' = TRUE
  /\ UNCHANGED <<state, generation, leader, members, parkVars, timerVars, protoVars,
                 recordVars, heartVars, metaVars, clientVars, committed, incarnation>>

addMember(m, P, t) ==
  /\ members' = members \cup {m}
  /\ leader' = IF leader = None THEN m ELSE leader
  /\ protocolType' = IF members = {} THEN t ELSE protocolType
  /\ memberProtocols' = [memberProtocols EXCEPT ![m] = P]
  /\ updateSupportedProtocols(P)
  /\ delayedJoinResponses' = delayedJoinResponses \cup {m}

\* joinGroup without a member id.
addMemberAndRebalance(m, P, t) ==
  /\ loaded /\ state # "Dead"
  /\ requests < MaxRequests
  /\ m \notin generated
  /\ checkSupportedProtocols(P, t)
  /\ addMember(m, P, t)
  /\ rebalanceUnlessPreparing
  /\ generated' = generated \cup {m}
  /\ requests' = requests + 1
  /\ UNCHANGED <<loaded, generation, protocolName, assignment, heartVars, metaVars,
                 answers, committed, incarnation>>

\* joinGroup with the id of a current member.
updateMemberAndRebalance(m, P, t) ==
  /\ m \in members /\ state \notin {"Dead", "Empty"}
  /\ requests < MaxRequests
  /\ checkSupportedProtocols(P, t)
  /\ memberProtocols' = [memberProtocols EXCEPT ![m] = P]
  /\ updateSupportedProtocols(P)
  /\ delayedJoinResponses' = delayedJoinResponses \cup {m}
  /\ rebalanceUnlessPreparing
  /\ requests' = requests + 1
  /\ UNCHANGED <<loaded, generation, leader, members, protocolType, protocolName,
                 assignment, heartVars, metaVars, generated, answers, committed, incarnation>>

\* syncGroup while the group waits for its assignment; a second sync of a
\* parked member is refused, and the generation of the request is not looked at.
canSync(m) ==
  /\ m \in members
  /\ state = "CompletingRebalance"
  /\ m \notin delayedSyncResponses

\* A follower's sync is parked.  So is a leader's when the metastore fails.
parkSync(a) ==
  /\ canSync(a.member)
  /\ delayedSyncResponses' = delayedSyncResponses \cup {a.member}
  /\ UNCHANGED <<groupVars, delayedJoinResponses, timerVars, protoVars, recordVars,
                 heartVars, metaVars, clientVars, committed, incarnation>>

\* The leader's sync: store, propagate, watch heartbeats, become stable.
doSyncGroup(a) ==
  /\ canSync(a.member)
  /\ a.member = leader
  /\ storeGroup(getGroupValue([m \in MemberIds |-> IF m \in members THEN getAssignmentMap(a)[m]
                                                   ELSE NoAssignment]))
  /\ assignment' = [m \in MemberIds |-> IF m \in members THEN getAssignmentMap(a)[m]
                                        ELSE assignment[m]]
  /\ delayedSyncResponses' = {}
  /\ setupDelayedCheckHeartbeat
  /\ delayedSync' = 0
  /\ transitionTo("Stable")
  /\ UNCHANGED <<loaded, generation, leader, members, delayedJoinResponses,
                 delayedRebalance, protoVars, memberProtocols, clientVars,
                 committed, incarnation>>

\* Mutant: the member is removed before its parked join is cancelled.
removeMemberAndUpdateGroup_RemovesFirst(m) ==
  /\ delayedJoinResponses' = delayedJoinResponses \ {m}
  /\ removeMembers({m}, delayedJoinResponses)
  /\ rebalanceUnlessPreparing
  /\ UNCHANGED <<loaded, generation, protoVars, metaVars, clientVars, committed, incarnation>>

removeMemberAndUpdateGroup(m) ==
  /\ delayedJoinResponses' = delayedJoinResponses \ {m}
  /\ removeMembers({m}, delayedJoinResponses \ {m})
  /\ rebalanceUnlessPreparing
  /\ UNCHANGED <<loaded, generation, protoVars, metaVars, clientVars, committed, incarnation>>

leaveGroup(m) ==
  /\ m \in members
  /\ state \notin {"Dead", "Empty"}
  /\ removeMemberAndUpdateGroup(m)
  /\ stopHeartbeatThreads({m})

heartbeat(a) ==
  /\ a.generation = generation
  /\ state = "Stable"
  /\ a.member \in members
  /\ sessionExpired' = sessionExpired \ {a.member}
  /\ UNCHANGED <<groupVars, parkVars, timerVars, protoVars, recordVars, checkers,
                 heartbeatThread, metaVars, clientVars, committed, incarnation>>

\* Mutant: a group without members is not stored.
acknowledgeCommit_NotWhenEmpty ==
  /\ IF storedMetadata \/ state = "Empty" THEN UNCHANGED metaVars
     ELSE storeGroup(getGroupValue(noAssignments))
  /\ committed' = TRUE
  /\ UNCHANGED <<groupVars, parkVars, timerVars, protoVars, recordVars, checkers,
                 heartbeatThread, clientVars, incarnation>>

\* The group is stored with the first commit it acknowledges.
acknowledgeCommit ==
  /\ IF storedMetadata THEN UNCHANGED metaVars ELSE storeGroup(getGroupValue(noAssignments))
  /\ committed' = TRUE
  /\ UNCHANGED <<groupVars, parkVars, timerVars, protoVars, recordVars, checkers,
                 heartbeatThread, clientVars, incarnation>>

commitOffsets(a) ==
  /\ a.generation = generation
  /\ a.member \in members
  /\ state \notin {"CompletingRebalance", "Dead"}
  /\ sessionExpired' = sessionExpired \ {a.member}
  /\ acknowledgeCommit

\* A commit with generation -1: an admin client, or a consumer without a group.
commitOffsetsAnonymously ==
  /\ loaded
  /\ state = "Empty"
  /\ UNCHANGED sessionExpired
  /\ acknowledgeCommit

-----------------------------------------------------------------------------
(* Timers.                                                                  *)

\* Mutant: the generation is not incremented.
openNextGeneration_SameGeneration ==
  /\ delayedRebalance = "armed"
  /\ removeMembers(members \ delayedJoinResponses, delayedJoinResponses)
  /\ stopHeartbeatThreads(members \ delayedJoinResponses)
  /\ generation' = generation

\* rebalance begins by removing who has not rejoined and opening a generation.
openNextGeneration ==
  /\ delayedRebalance = "armed"
  /\ removeMembers(members \ delayedJoinResponses, delayedJoinResponses)
  /\ stopHeartbeatThreads(members \ delayedJoinResponses)
  /\ generation' = generation + 1

\* Nobody is left.  The store at the end may fail.
rebalanceToEmpty ==
  /\ openNextGeneration
  /\ leader' = None
  /\ protocolName' = None
  /\ transitionTo("Empty")
  /\ delayedRebalance' = "none"
  /\ delayedSync' = 0
  /\ \/ storeGroup([generation |-> generation', leader |-> None, members |-> members',
                    protocolType |-> protocolType, protocolName |-> None,
                    assignment |-> noAssignments, present |-> TRUE])
     \/ UNCHANGED metaVars
  /\ UNCHANGED <<loaded, parkVars, protocolType, supportedProtocols, clientVars,
                 committed, incarnation>>

\* Every member votes for one of the supported protocols it prefers, in an
\* order that is the member's own; the vote throws when it has none of them.
voteForProtocol(m) == supportedProtocols \cap memberProtocols[m]

voters == members \cap delayedJoinResponses

\* The protocols with the most votes; a tie is settled by their names.
mostOccur(votes) ==
  LET count(p) == Cardinality({m \in voters : votes[m] = p}) IN
  {p \in supportedProtocols : \A q \in supportedProtocols : count(p) >= count(q)}

chooseProtocolName ==
  UNION {mostOccur(votes) : votes \in {v \in [voters -> supportedProtocols] :
                                       \A m \in voters : v[m] \in voteForProtocol(m)}}

computeProtocolName ==
  IF protocolName # None THEN {protocolName} ELSE chooseProtocolName

votingThrows ==
  /\ protocolName = None
  /\ \E m \in voters : voteForProtocol(m) = {}

\* The exception ends the timer's thread: delayedRebalance still names it.
rebalanceThrows ==
  /\ openNextGeneration
  /\ leader' # None
  /\ votingThrows
  /\ delayedRebalance' = "died"
  /\ UNCHANGED <<loaded, state, parkVars, delayedSync, protoVars, metaVars, clientVars,
                 committed, incarnation>>

doRelance ==
  /\ openNextGeneration
  /\ leader' # None
  /\ ~votingThrows
  /\ protocolName' \in computeProtocolName
  /\ transitionTo("CompletingRebalance")
  /\ answers' = answers \cup
       {[member |-> m, leader |-> leader', incarnation |-> incarnation,
         generation |-> generation', roster |-> IF m = leader' THEN members' ELSE {}]
          : m \in delayedJoinResponses}
  /\ delayedJoinResponses' = {}
  /\ delayedSync' = generation'
  /\ delayedRebalance' = "none"
  /\ UNCHANGED <<loaded, delayedSyncResponses, protocolType, supportedProtocols,
                 metaVars, generated, requests, committed, incarnation>>

\* The sync timer of makeDelayedSync: who has not synced is removed, and the
\* group stays in the same state.
delayedSyncExpires ==
  /\ delayedSync # 0
  /\ state = "CompletingRebalance"
  /\ removeMembers(members \ delayedSyncResponses, delayedJoinResponses)
  /\ stopHeartbeatThreads(members \ delayedSyncResponses)
  /\ delayedSync' = 0
  /\ UNCHANGED <<loaded, state, generation, parkVars, delayedRebalance, protoVars,
                 metaVars, clientVars, committed, incarnation>>

\* Time: a session timeout passes without a sign of the member.
sessionTimeoutPasses(m) ==
  /\ checkers[m] > 0
  /\ m \notin sessionExpired
  /\ sessionExpired' = sessionExpired \cup {m}
  /\ UNCHANGED <<groupVars, parkVars, timerVars, protoVars, recordVars, checkers,
                 heartbeatThread, metaVars, clientVars, committed, incarnation>>

\* A checker finds the session expired, forgets the thread its member's record
\* names, removes the member (which may be gone already) and ends.
checkHeartbeatAndMaybeRebalance(m) ==
  /\ checkers[m] > 0
  /\ m \in sessionExpired
  /\ checkers' = [checkers EXCEPT ![m] = @ - 1]
  /\ heartbeatThread' = [heartbeatThread EXCEPT ![m] = FALSE]
  /\ sessionExpired' = {x \in sessionExpired : checkers'[x] > 0}
  /\ removeMemberAndUpdateGroup(m)

-----------------------------------------------------------------------------
(* Crash of the server, and loading the group again.                        *)

\* What is in memory is lost, the parked requests with it.
crash ==
  /\ loaded
  /\ incarnation < MaxCrashes
  /\ loaded' = FALSE
  /\ state' = "Empty"
  /\ generation' = 0
  /\ leader' = None
  /\ members' = {}
  /\ delayedJoinResponses' = {}
  /\ delayedSyncResponses' = {}
  /\ delayedRebalance' = "none"
  /\ delayedSync' = 0
  /\ protocolType' = None
  /\ protocolName' = None
  /\ supportedProtocols' = {}
  /\ storedMetadata' = FALSE
  /\ memberProtocols' = [m \in MemberIds |-> {}]
  /\ assignment' = noAssignments
  /\ checkers' = [m \in MemberIds |-> 0]
  /\ heartbeatThread' = [m \in MemberIds |-> FALSE]
  /\ sessionExpired' = {}
  /\ incarnation' = incarnation + 1
  /\ UNCHANGED <<groupMeta, clientVars, committed>>

\* loadGroupAndOffsets, addGroupByValue and newGroupFromValue.
newGroupFromValue ==
  LET value == groupMeta IN
  /\ ~loaded
  /\ value.present
  /\ loaded' = TRUE
  /\ state' = IF value.members = {} THEN "Empty" ELSE "Stable"
  /\ generation' = value.generation
  /\ leader' = value.leader
  /\ members' = value.members
  /\ protocolType' = value.protocolType
  /\ protocolName' = value.protocolName
  /\ supportedProtocols' = IF value.members = {} THEN {} ELSE {value.protocolName}
  /\ storedMetadata' = TRUE
  /\ memberProtocols' = [m \in MemberIds |-> IF m \in value.members THEN {value.protocolName}
                                             ELSE {}]
  /\ assignment' = value.assignment
  /\ checkers' = [m \in MemberIds |-> IF m \in value.members THEN 1 ELSE 0]
  /\ heartbeatThread' = [m \in MemberIds |-> m \in value.members]
  /\ sessionExpired' = {}
  /\ UNCHANGED <<parkVars, timerVars, groupMeta, clientVars, committed, incarnation>>

-----------------------------------------------------------------------------

\* A client knows its member id from a join answer.
answered == {a.member : a \in answers}

Next ==
  \/ getOrMaybeCreateGroup
  \/ \E m \in MemberIds, P \in SUBSET Protocols, t \in ProtocolTypes :
        addMemberAndRebalance(m, P, t)
  \/ \E m \in answered, P \in SUBSET Protocols, t \in ProtocolTypes :
        updateMemberAndRebalance(m, P, t)
  \/ \E a \in answers : parkSync(a)
  \/ \E a \in answers : doSyncGroup(a)
  \/ \E m \in answered : leaveGroup(m)
  \/ \E a \in answers : heartbeat(a)
  \/ \E a \in answers : commitOffsets(a)
  \/ commitOffsetsAnonymously
  \/ rebalanceToEmpty
  \/ rebalanceThrows
  \/ doRelance
  \/ delayedSyncExpires
  \/ \E m \in MemberIds : sessionTimeoutPasses(m)
  \/ \E m \in MemberIds : checkHeartbeatAndMaybeRebalance(m)
  \/ crash
  \/ newGroupFromValue

Spec == Init /\ [][Next]_vars
-----------------------------------------------------------------------------
(* Safety.                                                                  *)

\* The leader is a current member, and there is one exactly while there are
\* members: however removals (leave, heartbeat, join and sync timeouts)
\* interleave, removeMember never elects a member that is gone.
LeaderIsMember ==
  /\ leader = None <=> members = {}
  /\ leader # None => leader \in members

\* A group prepares a rebalance exactly while a rebalance timer is recorded,
\* so removeMemberAndUpdateGroup never meets PreparingRebalance without one;
\* a sync timer only runs in the generation it was made for, so the "wrong
\* generationId" and "wrong state" warnings of makeDelayedSync are never logged.
TimersMatchState ==
  /\ state = "PreparingRebalance" <=> delayedRebalance # "none"
  /\ delayedSync # 0 => state = "CompletingRebalance" /\ delayedSync = generation

\* A parked request belongs to a member, and only waits in the state that will
\* answer it: nobody stays parked in a group that has moved on.  In particular
\* nothing is left for the final cancellation of setAndPropagateAssignment.
ParkedAreMembers ==
  /\ delayedJoinResponses \subseteq members
  /\ delayedSyncResponses \subseteq members
  /\ delayedJoinResponses # {} => state = "PreparingRebalance"
  /\ delayedSyncResponses # {} => state = "CompletingRebalance"

\* Within one life of the server a generation has one leader, and the leader
\* was told of every member that was told of the generation (doRelance).
OneLeaderPerGeneration ==
  \A a, b \in answers :
    a.incarnation = b.incarnation /\ a.generation = b.generation =>
      /\ a.leader = b.leader
      /\ a.member = a.leader => b.member \in a.roster

\* In a stable group whose leader's assignment was computed for the current
\* generation, so was the assignment of every member: nobody is left out.
AssignmentsOfOneGeneration ==
  LET current == [incarnation |-> incarnation, generation |-> generation] IN
  state = "Stable" /\ leader # None /\ assignment[leader] = current =>
    \A m \in members : assignment[m] = current

\* What the metastore holds of a stable group is what the coordinator holds,
\* so a restarted server resumes the same generation (storeGroup).
StableIsStored ==
  state = "Stable" =>
    /\ groupMeta.present
    /\ groupMeta.generation = generation
    /\ groupMeta.leader = leader
    /\ groupMeta.members = members
    /\ groupMeta.protocolName = protocolName
    /\ \A m \in members : groupMeta.assignment[m] = assignment[m]

\* Once a commit was acknowledged the metastore lists the group, in every
\* later life of the server: otherwise its offsets would never be loaded.
CommittedIsStored == committed => groupMeta.present

\* The group's supported protocols are supported by each of its members
\* (updateSupportedProtocols), the precondition of voteForProtocol.
SupportedByEachMember ==
  \A m \in members : supportedProtocols \subseteq memberProtocols[m]

\* A stable group watches each of its members: a live checker is recorded,
\* also after a restart (setupDelayedCheckHeartbeat).
StableIsWatched ==
  state = "Stable" => \A m \in members : heartbeatThread[m] /\ checkers[m] > 0

-----------------------------------------------------------------------------
(* Liveness.  The runtime schedules every forked thread, so an armed timer  *)
(* eventually fires; clients are under no obligation.                       *)

rebalance == rebalanceToEmpty \/ rebalanceThrows \/ doRelance

Fairness ==
  /\ WF_vars(rebalance)
  /\ WF_vars(delayedSyncExpires)
  /\ \A m \in MemberIds : WF_vars(checkHeartbeatAndMaybeRebalance(m))

FairSpec == Spec /\ Fairness

\* A member's parked join is eventually answered, by a new generation or by an
\* error; a crash of the server ends the wait too.  (A repeated join replaces
\* the one parked before, so this is about the last request of the member.)
JoinIsAnswered ==
  \A m \in MemberIds : m \in delayedJoinResponses ~> m \notin delayedJoinResponses

-----------------------------------------------------------------------------
(* Refinement.                                                              *)

GL == INSTANCE GroupLifecycle WITH
        phase <- state,
        saved <- [present |-> groupMeta.present, generation |-> groupMeta.generation,
                  members |-> groupMeta.members]

\* Through every interleaving of requests, timers and restarts the group keeps
\* the promises of GroupLifecycle.
Lifecycle == GL!Spec

-----------------------------------------------------------------------------
(* What comments of the source say and the code does not do.                *)

\* Member.hs, voteForProtocol: the exception "should not happen".
VotingNeverThrows == delayedRebalance # "died"

\* Group.hs, chooseProtocolName: "Select the protocol for this group which is
\* supported by all members."
ProtocolSupportedByAll ==
  state = "CompletingRebalance" => \A m \in members : protocolName \in memberProtocols[m]

\* Group.hs, CompletingRebalance: "sync group with state assignment received
\* from leader => Stable": the assignment is one for this generation.
StableMeansAssigned ==
  state = "Stable" /\ incarnation = 0 => \A m \in members : assignment[m].generation = generation

\* Group.hs, removeMember: "stop heartbeatThread".
RemovedIsNotWatched == \A m \in MemberIds \ members : checkers[m] = 0

\* Group.hs, makeDelayedSync: "delayed sync timeout, try to prepare Rebalance".
SyncTimeoutEndsPhase ==
  (state = "CompletingRebalance" /\ delayedSync = 0) ~> state # "CompletingRebalance"
=============================================================================
