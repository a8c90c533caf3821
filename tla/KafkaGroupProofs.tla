-------------------------- MODULE KafkaGroupProofs --------------------------
(***************************************************************************)
(* Invariance proofs for KafkaGroup, for any sets of members, protocols    *)
(* and protocol types and any bounds.                                      *)
(***************************************************************************)
EXTENDS KafkaGroup, TLAPS

\* A record that names a checker names a live one (removeMember only kills
\* threads that run), which keeps the number of checkers natural.
NamedCheckerLives == \A m \in MemberIds : heartbeatThread[m] => checkers[m] > 0

TypeInv == TypeOK /\ NamedCheckerLives

\* Removing members keeps the types of the variables it changes.
LEMMA RemoveMembersType ==
  ASSUME TypeOK, NEW R \in SUBSET MemberIds, NEW parked \in SUBSET MemberIds,
         removeMembers(R, parked)
  PROVE  /\ members' \subseteq MemberIds
         /\ leader' \in MemberIds \cup {None}
         /\ memberProtocols' \in [MemberIds -> SUBSET (Protocols \cup {None})]
         /\ assignment' \in [MemberIds -> Assignment]
<1>1. leadersAfterRemoving(R, parked) \subseteq MemberIds \cup {None}
  BY DEF leadersAfterRemoving, TypeOK
<1>2. NoAssignment \in Assignment
  BY DEF NoAssignment, Assignment
<1> QED
  BY <1>1, <1>2 DEF removeMembers, TypeOK

\* Killing the named checkers keeps the checkers well formed.
LEMMA StopHeartbeatThreadsType ==
  ASSUME TypeInv, NEW R \in SUBSET MemberIds, stopHeartbeatThreads(R)
  PROVE  /\ checkers' \in [MemberIds -> Nat]
         /\ heartbeatThread' \in [MemberIds -> BOOLEAN]
         /\ sessionExpired' \subseteq MemberIds
         /\ NamedCheckerLives'
<1>1. \A m \in MemberIds : heartbeatThread[m] => checkers[m] - 1 \in Nat
  BY DEF TypeInv, TypeOK, NamedCheckerLives
<1>2. checkers' \in [MemberIds -> Nat]
  BY <1>1 DEF stopHeartbeatThreads, TypeInv, TypeOK
<1>3. heartbeatThread' \in [MemberIds -> BOOLEAN]
  BY DEF stopHeartbeatThreads, TypeInv, TypeOK
<1>4. sessionExpired' \subseteq MemberIds
  BY DEF stopHeartbeatThreads, TypeInv, TypeOK
<1>5. NamedCheckerLives'
  BY DEF stopHeartbeatThreads, TypeInv, TypeOK, NamedCheckerLives
<1> QED
  BY <1>2, <1>3, <1>4, <1>5

\* Starting a rebalance, or not, keeps the types of state, timers and syncs.
LEMMA RebalanceUnlessPreparingType ==
  ASSUME TypeOK, rebalanceUnlessPreparing
  PROVE  /\ state' \in GroupState
         /\ delayedSyncResponses' \subseteq MemberIds
         /\ delayedSync' \in Nat
         /\ delayedRebalance' \in {"none", "armed", "died"}
BY DEF TypeOK, rebalanceUnlessPreparing, prepareRebalance, transitionTo, GroupState

\* The first part of rebalance.
LEMMA OpenNextGenerationType ==
  ASSUME TypeInv, openNextGeneration
  PROVE  /\ members' \subseteq MemberIds
         /\ leader' \in MemberIds \cup {None}
         /\ memberProtocols' \in [MemberIds -> SUBSET (Protocols \cup {None})]
         /\ assignment' \in [MemberIds -> Assignment]
         /\ checkers' \in [MemberIds -> Nat]
         /\ heartbeatThread' \in [MemberIds -> BOOLEAN]
         /\ sessionExpired' \subseteq MemberIds
         /\ NamedCheckerLives'
         /\ generation' \in Nat
<1> DEFINE R == members \ delayedJoinResponses
<1>1. R \in SUBSET MemberIds /\ delayedJoinResponses \in SUBSET MemberIds
  BY DEF TypeInv, TypeOK
<1>2. removeMembers(R, delayedJoinResponses) /\ stopHeartbeatThreads(R)
  BY DEF openNextGeneration
<1>3. generation' \in Nat
  BY DEF openNextGeneration, TypeInv, TypeOK
<1> HIDE DEF R
<1> QED
  BY <1>1, <1>2, <1>3, RemoveMembersType, StopHeartbeatThreadsType DEF TypeInv

\* The value written to the metastore is one.
LEMMA GroupValueType ==
  ASSUME TypeOK, NEW asg \in [MemberIds -> Assignment]
  PROVE  getGroupValue(asg) \in GroupMetadataValue
BY DEF TypeOK, getGroupValue, GroupMetadataValue

LEMMA NoAssignmentsType == noAssignments \in [MemberIds -> Assignment]
BY DEF noAssignments, NoAssignment, Assignment

LEMMA AssignmentMapType ==
  ASSUME NEW a \in JoinAnswer
  PROVE  getAssignmentMap(a) \in [MemberIds -> Assignment]
BY DEF JoinAnswer, getAssignmentMap, NoAssignment, Assignment

LEMMA TypeInit == Init => TypeInv
<1> SUFFICES ASSUME Init PROVE TypeInv
  OBVIOUS
<1>1. NoMeta \in GroupMetadataValue
  BY NoAssignmentsType DEF NoMeta, GroupMetadataValue, noAssignments
<1>2. /\ checkers \in [MemberIds -> Nat]
      /\ heartbeatThread \in [MemberIds -> BOOLEAN]
      /\ memberProtocols \in [MemberIds -> SUBSET (Protocols \cup {None})]
      /\ assignment \in [MemberIds -> Assignment]
  BY NoAssignmentsType DEF Init
<1>3. NamedCheckerLives
  BY DEF Init, NamedCheckerLives
<1> QED
  BY <1>1, <1>2, <1>3 DEF Init, TypeInv, TypeOK, GroupState

\* Types are kept by every step.
LEMMA TypeNext == TypeInv /\ [Next]_vars => TypeInv'
<1> SUFFICES ASSUME TypeInv, [Next]_vars PROVE TypeInv'
  OBVIOUS
<1> USE DEF groupVars, parkVars, timerVars, protoVars, recordVars, heartVars, metaVars,
            clientVars
<1>t. TypeOK /\ NamedCheckerLives
  BY DEF TypeInv
<1>1. CASE getOrMaybeCreateGroup
  BY <1>1 DEF getOrMaybeCreateGroup, TypeInv, TypeOK, NamedCheckerLives
<1>2. ASSUME NEW m \in MemberIds, NEW P \in SUBSET Protocols, NEW t \in ProtocolTypes,
             addMemberAndRebalance(m, P, t)
      PROVE  TypeInv'
  <2>1. rebalanceUnlessPreparing /\ addMember(m, P, t)
    BY <1>2 DEF addMemberAndRebalance
  <2>2. /\ members' \subseteq MemberIds /\ leader' \in MemberIds \cup {None}
        /\ protocolType' \in ProtocolTypes \cup {None}
        /\ memberProtocols' \in [MemberIds -> SUBSET (Protocols \cup {None})]
        /\ supportedProtocols' \subseteq Protocols \cup {None}
        /\ delayedJoinResponses' \subseteq MemberIds
    BY <1>t, <2>1 DEF addMember, updateSupportedProtocols, TypeOK
  <2> QED
    BY <1>t, <1>2, <2>1, <2>2, RebalanceUnlessPreparingType
       DEF addMemberAndRebalance, TypeInv, TypeOK, NamedCheckerLives
<1>3. ASSUME NEW m \in answered, NEW P \in SUBSET Protocols, NEW t \in ProtocolTypes,
             updateMemberAndRebalance(m, P, t)
      PROVE  TypeInv'
  <2>1. rebalanceUnlessPreparing /\ m \in MemberIds
    BY <1>t, <1>3 DEF updateMemberAndRebalance, TypeOK
  <2>2. /\ memberProtocols' \in [MemberIds -> SUBSET (Protocols \cup {None})]
        /\ supportedProtocols' \subseteq Protocols \cup {None}
        /\ delayedJoinResponses' \subseteq MemberIds
    BY <1>t, <1>3, <2>1 DEF updateMemberAndRebalance, updateSupportedProtocols, TypeOK
  <2> QED
    BY <1>t, <1>3, <2>1, <2>2, RebalanceUnlessPreparingType
       DEF updateMemberAndRebalance, TypeInv, TypeOK, NamedCheckerLives
<1>4. ASSUME NEW a \in answers, parkSync(a) PROVE TypeInv'
  BY <1>4 DEF parkSync, canSync, TypeInv, TypeOK, NamedCheckerLives
<1>5. ASSUME NEW a \in answers, doSyncGroup(a) PROVE TypeInv'
  <2> DEFINE asg == [m \in MemberIds |-> IF m \in members THEN getAssignmentMap(a)[m]
                                         ELSE NoAssignment]
  <2>1. getAssignmentMap(a) \in [MemberIds -> Assignment] /\ NoAssignment \in Assignment
    BY <1>t, AssignmentMapType DEF TypeOK, NoAssignment, Assignment
  <2>2. asg \in [MemberIds -> Assignment]
    BY <2>1
  <2>3. groupMeta' = getGroupValue(asg) /\ storedMetadata' = TRUE
    BY <1>5 DEF doSyncGroup, storeGroup
  <2>4. groupMeta' \in GroupMetadataValue
    BY <1>t, <2>2, <2>3, GroupValueType
  <2>5. assignment' \in [MemberIds -> Assignment]
    BY <1>t, <1>5, <2>1 DEF doSyncGroup, TypeOK
  <2>6. /\ checkers' \in [MemberIds -> Nat]
        /\ heartbeatThread' \in [MemberIds -> BOOLEAN]
        /\ sessionExpired' \subseteq MemberIds
        /\ NamedCheckerLives'
    BY <1>t, <1>5 DEF doSyncGroup, setupDelayedCheckHeartbeat, TypeOK, NamedCheckerLives
  <2>7. state' \in GroupState
    BY <1>t, <1>5 DEF doSyncGroup, transitionTo, TypeOK, GroupState
  <2> QED
    BY <1>t, <1>5, <2>3, <2>4, <2>5, <2>6, <2>7 DEF doSyncGroup, TypeInv, TypeOK
<1>r. ASSUME NEW m \in MemberIds, removeMemberAndUpdateGroup(m),
             checkers' \in [MemberIds -> Nat],
             heartbeatThread' \in [MemberIds -> BOOLEAN],
             sessionExpired' \subseteq MemberIds,
             NamedCheckerLives'
      PROVE  TypeInv'
  <2>1. removeMembers({m}, delayedJoinResponses \ {m}) /\ rebalanceUnlessPreparing
    BY <1>r DEF removeMemberAndUpdateGroup
  <2>2. {m} \in SUBSET MemberIds /\ delayedJoinResponses \ {m} \in SUBSET MemberIds
    BY <1>t DEF TypeOK
  <2> QED
    BY <1>t, <1>r, <2>1, <2>2, RemoveMembersType, RebalanceUnlessPreparingType
       DEF removeMemberAndUpdateGroup, TypeInv, TypeOK
<1>6. ASSUME NEW m \in answered, leaveGroup(m) PROVE TypeInv'
  <2>0. m \in MemberIds
    BY <1>t, <1>6 DEF leaveGroup, TypeOK
  <2> QED
    BY <1>6, <1>r, <2>0, StopHeartbeatThreadsType DEF leaveGroup
<1>7. ASSUME NEW a \in answers, heartbeat(a) PROVE TypeInv'
  BY <1>7 DEF heartbeat, TypeInv, TypeOK, NamedCheckerLives
<1>c. ASSUME acknowledgeCommit, sessionExpired' \subseteq MemberIds PROVE TypeInv'
  <2>1. groupMeta' \in GroupMetadataValue /\ storedMetadata' \in BOOLEAN
    BY <1>t, <1>c, NoAssignmentsType, GroupValueType
       DEF acknowledgeCommit, storeGroup, TypeOK
  <2> QED
    BY <1>t, <1>c, <2>1 DEF acknowledgeCommit, TypeInv, TypeOK, NamedCheckerLives
<1>8. ASSUME NEW a \in answers, commitOffsets(a) PROVE TypeInv'
  BY <1>t, <1>8, <1>c DEF commitOffsets, TypeOK
<1>9. CASE commitOffsetsAnonymously
  BY <1>t, <1>9, <1>c DEF commitOffsetsAnonymously, TypeOK
<1>10. CASE rebalanceToEmpty
  <2>1. openNextGeneration
    BY <1>10 DEF rebalanceToEmpty
  <2>2. groupMeta' \in GroupMetadataValue
    <3>1. generation' \in Nat /\ members' \in SUBSET MemberIds
      BY <2>1, OpenNextGenerationType
    <3>2. CASE UNCHANGED groupMeta
      BY <1>t, <3>2 DEF TypeOK
    <3>3. CASE groupMeta' = [generation |-> generation', leader |-> None,
                             members |-> members', protocolType |-> protocolType,
                             protocolName |-> None, assignment |-> noAssignments,
                             present |-> TRUE]
      BY <1>t, <3>1, <3>3, NoAssignmentsType DEF TypeOK, GroupMetadataValue
    <3> QED
      BY <1>10, <3>2, <3>3 DEF rebalanceToEmpty, storeGroup
  <2>m. storedMetadata' \in BOOLEAN
    BY <1>t, <1>10 DEF rebalanceToEmpty, storeGroup, TypeOK
  <2>3. state' \in GroupState
    BY <1>t, <1>10 DEF rebalanceToEmpty, transitionTo, TypeOK, GroupState
  <2> QED
    BY <1>t, <1>10, <2>1, <2>2, <2>m, <2>3, OpenNextGenerationType
       DEF rebalanceToEmpty, TypeInv, TypeOK
<1>11. CASE rebalanceThrows
  <2>1. openNextGeneration
    BY <1>11 DEF rebalanceThrows
  <2> QED
    BY <1>t, <1>11, <2>1, OpenNextGenerationType DEF rebalanceThrows, TypeInv, TypeOK
<1>12. CASE doRelance
  <2>1. openNextGeneration
    BY <1>12 DEF doRelance
  <2>2. state' \in GroupState
    BY <1>t, <1>12 DEF doRelance, transitionTo, TypeOK, GroupState
  <2>3. generation' \in Nat /\ leader' \in MemberIds /\ members' \subseteq MemberIds
    BY <1>12, <2>1, OpenNextGenerationType DEF doRelance
  <2>4. answers' \subseteq JoinAnswer
    BY <1>t, <1>12, <2>3 DEF doRelance, TypeOK, JoinAnswer
  <2>5. protocolName' \in Protocols \cup {None}
    <3>1. chooseProtocolName \subseteq supportedProtocols
      BY DEF chooseProtocolName, mostOccur
    <3> QED
      BY <1>t, <1>12, <3>1 DEF doRelance, computeProtocolName, TypeOK
  <2>6. /\ delayedJoinResponses' = {} /\ delayedSync' = generation'
        /\ delayedRebalance' = "none"
        /\ UNCHANGED <<loaded, delayedSyncResponses, protocolType, supportedProtocols,
                       metaVars, generated, requests, committed, incarnation>>
    BY <1>12 DEF doRelance
  <2> QED
    BY <1>t, <2>1, <2>2, <2>3, <2>4, <2>5, <2>6, OpenNextGenerationType DEF TypeInv, TypeOK
<1>13. CASE delayedSyncExpires
  <2> DEFINE R == members \ delayedSyncResponses
  <2>1. R \in SUBSET MemberIds /\ delayedJoinResponses \in SUBSET MemberIds
    BY <1>t DEF TypeOK
  <2>2. removeMembers(R, delayedJoinResponses) /\ stopHeartbeatThreads(R)
    BY <1>13 DEF delayedSyncExpires
  <2> HIDE DEF R
  <2> QED
    BY <1>t, <1>13, <2>1, <2>2, RemoveMembersType, StopHeartbeatThreadsType
       DEF delayedSyncExpires, TypeInv, TypeOK
<1>14. ASSUME NEW m \in MemberIds, sessionTimeoutPasses(m) PROVE TypeInv'
  BY <1>14 DEF sessionTimeoutPasses, TypeInv, TypeOK, NamedCheckerLives
<1>15. ASSUME NEW m \in MemberIds, checkHeartbeatAndMaybeRebalance(m) PROVE TypeInv'
  BY <1>t, <1>15, <1>r DEF checkHeartbeatAndMaybeRebalance, TypeOK, NamedCheckerLives
<1>16. CASE crash
  <2>1. /\ checkers' \in [MemberIds -> Nat]
        /\ heartbeatThread' \in [MemberIds -> BOOLEAN]
        /\ memberProtocols' \in [MemberIds -> SUBSET (Protocols \cup {None})]
        /\ assignment' \in [MemberIds -> Assignment]
    BY <1>16, NoAssignmentsType DEF crash
  <2>2. NamedCheckerLives'
    BY <1>16 DEF crash, NamedCheckerLives
  <2>3. /\ loaded' = FALSE /\ state' = "Empty" /\ generation' = 0 /\ leader' = None
        /\ members' = {} /\ delayedJoinResponses' = {} /\ delayedSyncResponses' = {}
        /\ delayedRebalance' = "none" /\ delayedSync' = 0 /\ protocolType' = None
        /\ protocolName' = None /\ supportedProtocols' = {} /\ storedMetadata' = FALSE
        /\ sessionExpired' = {} /\ incarnation' = incarnation + 1
        /\ UNCHANGED <<groupMeta, generated, answers, requests, committed>>
    BY <1>16 DEF crash
  <2>4. incarnation' \in Nat /\ 0 \in Nat
    BY <1>t, <2>3 DEF TypeOK
  <2>5. TypeOK'
    BY <1>t, <2>1, <2>3, <2>4, Zenon DEF TypeOK, GroupState
  <2> QED
    BY <2>2, <2>5 DEF TypeInv
<1>17. CASE newGroupFromValue
  BY <1>t, <1>17
     DEF newGroupFromValue, TypeInv, TypeOK, NamedCheckerLives, GroupState, GroupMetadataValue
<1>18. CASE UNCHANGED vars
  BY <1>18 DEF vars, TypeInv, TypeOK, NamedCheckerLives
<1> QED
  BY <1>1, <1>2, <1>3, <1>4, <1>5, <1>6, <1>7, <1>8, <1>9, <1>10, <1>11, <1>12, <1>13,
     <1>14, <1>15, <1>16, <1>17, <1>18 DEF Next

LEMMA TypeInvariant == Spec => []TypeInv
BY TypeInit, TypeNext, PTL DEF Spec

\* Every variable of the group keeps its type; the number of heartbeat
\* checkers of a member never becomes negative.
THEOREM TypeCorrect == Spec => []TypeOK
<1>1. TypeInv => TypeOK
  BY DEF TypeInv
<1> QED
  BY <1>1, TypeInvariant, PTL

-----------------------------------------------------------------------------
(* Leadership, timers and parked requests.                                  *)

\* An Empty group has no members, and no group is ever Dead.
EmptyHasNoMembers ==
  /\ state = "Empty" => members = {}
  /\ state # "Dead"

\* A group the coordinator does not hold is blank, and nothing runs for it.
UnloadedIsBlank ==
  ~loaded => state = "Empty" /\ generation = 0 /\ \A m \in MemberIds : checkers[m] = 0

\* What was stored of leader and members is consistent: a restart relies on it.
StoredLeaderIsMember ==
  /\ groupMeta.leader = None <=> groupMeta.members = {}
  /\ groupMeta.leader # None => groupMeta.leader \in groupMeta.members

GroupInv ==
  /\ LeaderIsMember
  /\ TimersMatchState
  /\ ParkedAreMembers
  /\ EmptyHasNoMembers
  /\ UnloadedIsBlank
  /\ StoredLeaderIsMember

\* The answers of this life of the server are of generations opened so far, and
\* there are none before the group is created or loaded.
AnswersAreOfThePast ==
  \A a \in answers :
    /\ a.incarnation <= incarnation
    /\ a.incarnation = incarnation => loaded /\ a.generation <= generation
    /\ a.generation > 0

\* While a generation waits for its assignment the leader's roster covers it.
RosterCoversMembers ==
  state = "CompletingRebalance" =>
    /\ generation > 0
    /\ \A a \in answers :
         a.incarnation = incarnation /\ a.generation = generation /\ a.roster # {} =>
           members \subseteq a.roster

\* Stored assignments come from this life or an earlier one.
StoredAssignmentsArePast ==
  /\ \A m \in MemberIds : groupMeta.assignment[m].incarnation <= incarnation
  /\ ~loaded /\ groupMeta.present =>
       \A m \in MemberIds : groupMeta.assignment[m].incarnation < incarnation

AnswersInv ==
  /\ OneLeaderPerGeneration
  /\ AnswersAreOfThePast
  /\ RosterCoversMembers
  /\ StoredAssignmentsArePast
  /\ AssignmentsOfOneGeneration

\* A stored flag is honest, and a stable group has it.
StoredFlag ==
  /\ storedMetadata => groupMeta.present
  /\ state = "Stable" => storedMetadata

StoreInv ==
  /\ StableIsStored /\ CommittedIsStored /\ StoredFlag /\ StableIsWatched
  /\ SupportedByEachMember

\* A new leader is elected among those that stay.
LEMMA RemoveMembersLeader ==
  ASSUME TypeOK, LeaderIsMember, NEW R \in SUBSET MemberIds,
         NEW parked \in SUBSET (members \ R), removeMembers(R, parked)
  PROVE  LeaderIsMember'
<1>1. None \notin R /\ None \notin members
  BY NoneAssumption DEF TypeOK
<1> QED
  BY <1>1 DEF removeMembers, leadersAfterRemoving, LeaderIsMember, TypeOK

\* Afterwards a rebalance is being prepared, and the sync phase is over.
LEMMA RebalanceUnlessPreparingEffect ==
  ASSUME TypeOK, GroupInv, rebalanceUnlessPreparing
  PROVE  /\ state' = "PreparingRebalance"
         /\ delayedRebalance' # "none"
         /\ delayedSync' = 0
         /\ delayedSyncResponses' = {}
<1>1. CASE state = "PreparingRebalance"
  BY <1>1 DEF TypeOK, GroupInv, TimersMatchState, ParkedAreMembers, rebalanceUnlessPreparing
<1>2. CASE state \in {"Empty", "Stable", "CompletingRebalance"}
  <2>1. prepareRebalance /\ delayedRebalance = "none"
    BY <1>2 DEF GroupInv, TimersMatchState, rebalanceUnlessPreparing
  <2>2. state \in groupStateValidPrevs("PreparingRebalance")
    BY <1>2 DEF groupStateValidPrevs
  <2> QED
    BY <1>2, <2>1, <2>2 DEF prepareRebalance, transitionTo, GroupInv, ParkedAreMembers
<1> QED
  BY <1>1, <1>2 DEF TypeOK, GroupState, GroupInv, EmptyHasNoMembers

\* The first part of rebalance keeps the parked joins, and only them, as members.
LEMMA OpenNextGenerationEffect ==
  ASSUME TypeOK, GroupInv, openNextGeneration
  PROVE  /\ state = "PreparingRebalance"
         /\ loaded
         /\ members' = delayedJoinResponses
         /\ LeaderIsMember'
         /\ delayedSyncResponses = {}
         /\ generation' = generation + 1
<1> DEFINE R == members \ delayedJoinResponses
<1>1. state = "PreparingRebalance"
  BY DEF openNextGeneration, GroupInv, TimersMatchState
<1>2. R \in SUBSET MemberIds /\ delayedJoinResponses \in SUBSET (members \ R)
  BY DEF TypeOK, GroupInv, ParkedAreMembers
<1>3. removeMembers(R, delayedJoinResponses) /\ generation' = generation + 1
  BY DEF openNextGeneration
<1>4. members' = delayedJoinResponses
  BY <1>3 DEF removeMembers, GroupInv, ParkedAreMembers
<1>5. LeaderIsMember'
  <2> HIDE DEF R
  <2> QED
    BY <1>2, <1>3, RemoveMembersLeader DEF GroupInv
<1> QED
  BY <1>1, <1>3, <1>4, <1>5 DEF GroupInv, ParkedAreMembers, UnloadedIsBlank

LEMMA GroupInit == Init => GroupInv
BY DEF Init, GroupInv, LeaderIsMember, TimersMatchState, ParkedAreMembers,
       EmptyHasNoMembers, UnloadedIsBlank, StoredLeaderIsMember, NoMeta

LEMMA GroupNext == TypeInv /\ GroupInv /\ [Next]_vars => GroupInv'
<1> SUFFICES ASSUME TypeInv, GroupInv, [Next]_vars PROVE GroupInv'
  OBVIOUS
<1> USE DEF groupVars, parkVars, timerVars, protoVars, recordVars, heartVars, metaVars,
            clientVars
<1>t. TypeOK
  BY DEF TypeInv
<1>g. /\ LeaderIsMember /\ TimersMatchState /\ ParkedAreMembers
      /\ EmptyHasNoMembers /\ UnloadedIsBlank /\ StoredLeaderIsMember
  BY DEF GroupInv
<1>1. CASE getOrMaybeCreateGroup
  BY <1>g, <1>1 DEF getOrMaybeCreateGroup, GroupInv, LeaderIsMember, TimersMatchState,
       ParkedAreMembers, EmptyHasNoMembers, UnloadedIsBlank, StoredLeaderIsMember
<1>2. ASSUME NEW m \in MemberIds, NEW P \in SUBSET Protocols, NEW t \in ProtocolTypes,
             addMemberAndRebalance(m, P, t)
      PROVE  GroupInv'
  <2>1. /\ rebalanceUnlessPreparing
        /\ members' = members \cup {m}
        /\ leader' = IF leader = None THEN m ELSE leader
        /\ delayedJoinResponses' = delayedJoinResponses \cup {m}
        /\ loaded /\ UNCHANGED <<loaded, groupMeta>>
    BY <1>2 DEF addMemberAndRebalance, addMember
  <2>2. m # None
    BY NoneAssumption
  <2>3. LeaderIsMember'
    BY <1>g, <2>1, <2>2 DEF LeaderIsMember
  <2> QED
    BY <1>t, <1>g, <2>1, <2>3, RebalanceUnlessPreparingEffect
       DEF GroupInv, TimersMatchState, ParkedAreMembers, EmptyHasNoMembers,
           UnloadedIsBlank, StoredLeaderIsMember
<1>3. ASSUME NEW m \in answered, NEW P \in SUBSET Protocols, NEW t \in ProtocolTypes,
             updateMemberAndRebalance(m, P, t)
      PROVE  GroupInv'
  <2>1. /\ rebalanceUnlessPreparing
        /\ m \in members
        /\ delayedJoinResponses' = delayedJoinResponses \cup {m}
        /\ UNCHANGED <<loaded, leader, members, groupMeta>>
        /\ state # "Empty"
    BY <1>3 DEF updateMemberAndRebalance
  <2> QED
    BY <1>t, <1>g, <2>1, RebalanceUnlessPreparingEffect
       DEF GroupInv, LeaderIsMember, TimersMatchState, ParkedAreMembers, EmptyHasNoMembers,
           UnloadedIsBlank, StoredLeaderIsMember
<1>4. ASSUME NEW a \in answers, parkSync(a) PROVE GroupInv'
  BY <1>g, <1>4 DEF parkSync, canSync, GroupInv, LeaderIsMember, TimersMatchState,
       ParkedAreMembers, EmptyHasNoMembers, UnloadedIsBlank, StoredLeaderIsMember
<1>5. ASSUME NEW a \in answers, doSyncGroup(a) PROVE GroupInv'
  <2>1. /\ state = "CompletingRebalance" /\ state' = "Stable"
        /\ delayedSyncResponses' = {} /\ delayedSync' = 0
        /\ groupMeta'.leader = leader /\ groupMeta'.members = members
        /\ UNCHANGED <<loaded, generation, leader, members, delayedJoinResponses,
                       delayedRebalance>>
    BY <1>5 DEF doSyncGroup, canSync, transitionTo, groupStateValidPrevs, storeGroup,
                getGroupValue
  <2> QED
    BY <1>g, <2>1 DEF GroupInv, LeaderIsMember, TimersMatchState, ParkedAreMembers,
                      EmptyHasNoMembers, UnloadedIsBlank, StoredLeaderIsMember
<1>r. ASSUME NEW m \in MemberIds, removeMemberAndUpdateGroup(m), loaded PROVE GroupInv'
  <2>1. /\ rebalanceUnlessPreparing
        /\ removeMembers({m}, delayedJoinResponses \ {m})
        /\ delayedJoinResponses' = delayedJoinResponses \ {m}
        /\ UNCHANGED <<loaded, groupMeta>>
    BY <1>r DEF removeMemberAndUpdateGroup
  <2>2. {m} \in SUBSET MemberIds /\ delayedJoinResponses \ {m} \in SUBSET (members \ {m})
    BY <1>g DEF ParkedAreMembers
  <2>3. LeaderIsMember'
    BY <1>t, <1>g, <2>1, <2>2, RemoveMembersLeader
  <2>4. members' = members \ {m}
    BY <2>1 DEF removeMembers
  <2> QED
    BY <1>t, <1>g, <1>r, <2>1, <2>3, <2>4, RebalanceUnlessPreparingEffect
       DEF GroupInv, TimersMatchState, ParkedAreMembers, EmptyHasNoMembers,
           UnloadedIsBlank, StoredLeaderIsMember
<1>6. ASSUME NEW m \in answered, leaveGroup(m) PROVE GroupInv'
  <2>0. m \in MemberIds
    BY <1>t, <1>6 DEF leaveGroup, TypeOK
  <2>1. loaded
    BY <1>g, <1>6 DEF leaveGroup, UnloadedIsBlank
  <2> QED
    BY <1>6, <1>r, <2>0, <2>1 DEF leaveGroup
<1>7. ASSUME NEW a \in answers, heartbeat(a) PROVE GroupInv'
  BY <1>g, <1>7 DEF heartbeat, GroupInv, LeaderIsMember, TimersMatchState,
       ParkedAreMembers, EmptyHasNoMembers, UnloadedIsBlank, StoredLeaderIsMember
<1>c. ASSUME acknowledgeCommit PROVE GroupInv'
  <2>1. StoredLeaderIsMember'
    BY <1>g, <1>c DEF acknowledgeCommit, storeGroup, getGroupValue, StoredLeaderIsMember,
                      LeaderIsMember
  <2> QED
    BY <1>g, <1>c, <2>1 DEF acknowledgeCommit, GroupInv, LeaderIsMember, TimersMatchState,
       ParkedAreMembers, EmptyHasNoMembers, UnloadedIsBlank
<1>8. ASSUME NEW a \in answers, commitOffsets(a) PROVE GroupInv'
  BY <1>8, <1>c DEF commitOffsets
<1>9. CASE commitOffsetsAnonymously
  BY <1>9, <1>c DEF commitOffsetsAnonymously
<1>10. CASE rebalanceToEmpty
  <2>1. /\ openNextGeneration
        /\ leader' = None /\ delayedRebalance' = "none" /\ delayedSync' = 0
        /\ UNCHANGED <<loaded, parkVars>>
    BY <1>10 DEF rebalanceToEmpty
  <2>2. members' = {} /\ delayedJoinResponses = {}
    BY <1>t, <2>1, OpenNextGenerationEffect DEF LeaderIsMember
  <2>3. state' = "Empty"
    BY <1>t, <1>10, <2>1, OpenNextGenerationEffect
       DEF rebalanceToEmpty, transitionTo, groupStateValidPrevs
  <2>4. StoredLeaderIsMember'
    BY <1>g, <1>10, <2>2 DEF rebalanceToEmpty, storeGroup, StoredLeaderIsMember
  <2> QED
    BY <1>t, <2>1, <2>2, <2>3, <2>4, OpenNextGenerationEffect
       DEF GroupInv, TimersMatchState, ParkedAreMembers, EmptyHasNoMembers, UnloadedIsBlank
<1>11. CASE rebalanceThrows
  <2>1. /\ openNextGeneration
        /\ delayedRebalance' = "died"
        /\ UNCHANGED <<loaded, state, parkVars, delayedSync, groupMeta>>
    BY <1>11 DEF rebalanceThrows
  <2> QED
    BY <1>t, <1>g, <2>1, OpenNextGenerationEffect
       DEF GroupInv, TimersMatchState, ParkedAreMembers, EmptyHasNoMembers,
           UnloadedIsBlank, StoredLeaderIsMember
<1>12. CASE doRelance
  <2>1. /\ openNextGeneration
        /\ delayedRebalance' = "none" /\ delayedSync' = generation'
        /\ delayedJoinResponses' = {}
        /\ UNCHANGED <<loaded, delayedSyncResponses, groupMeta>>
    BY <1>12 DEF doRelance
  <2>2. state' = "CompletingRebalance"
    BY <1>t, <1>12, <2>1, OpenNextGenerationEffect
       DEF doRelance, transitionTo, groupStateValidPrevs
  <2> QED
    BY <1>t, <1>g, <2>1, <2>2, OpenNextGenerationEffect
       DEF GroupInv, TimersMatchState, ParkedAreMembers, EmptyHasNoMembers,
           UnloadedIsBlank, StoredLeaderIsMember
<1>13. CASE delayedSyncExpires
  <2> DEFINE R == members \ delayedSyncResponses
  <2>1. /\ state = "CompletingRebalance"
        /\ removeMembers(R, delayedJoinResponses)
        /\ delayedSync' = 0
        /\ UNCHANGED <<loaded, state, generation, parkVars, delayedRebalance, groupMeta>>
    BY <1>13 DEF delayedSyncExpires
  <2>2. R \in SUBSET MemberIds /\ delayedJoinResponses \in SUBSET (members \ R)
    BY <1>t, <1>g, <2>1 DEF TypeOK, ParkedAreMembers
  <2>3. members' = delayedSyncResponses
    BY <1>g, <2>1 DEF removeMembers, ParkedAreMembers
  <2>4. LeaderIsMember'
    <3> HIDE DEF R
    <3> QED
      BY <1>t, <1>g, <2>1, <2>2, RemoveMembersLeader
  <2> QED
    BY <1>g, <2>1, <2>3, <2>4
       DEF GroupInv, TimersMatchState, ParkedAreMembers, EmptyHasNoMembers,
           UnloadedIsBlank, StoredLeaderIsMember
<1>14. ASSUME NEW m \in MemberIds, sessionTimeoutPasses(m) PROVE GroupInv'
  BY <1>g, <1>14 DEF sessionTimeoutPasses, GroupInv, LeaderIsMember, TimersMatchState,
       ParkedAreMembers, EmptyHasNoMembers, UnloadedIsBlank, StoredLeaderIsMember
<1>15. ASSUME NEW m \in MemberIds, checkHeartbeatAndMaybeRebalance(m) PROVE GroupInv'
  <2>1. loaded
    BY <1>t, <1>g, <1>15 DEF checkHeartbeatAndMaybeRebalance, UnloadedIsBlank, TypeOK
  <2> QED
    BY <1>15, <1>r, <2>1 DEF checkHeartbeatAndMaybeRebalance
<1>16. CASE crash
  <2>1. \A m \in MemberIds : checkers'[m] = 0
    BY <1>16 DEF crash
  <2> QED
    BY <1>g, <1>16, <2>1
       DEF crash, GroupInv, LeaderIsMember, TimersMatchState, ParkedAreMembers,
           EmptyHasNoMembers, UnloadedIsBlank, StoredLeaderIsMember
<1>17. CASE newGroupFromValue
  <2>1. /\ ~loaded /\ loaded' = TRUE
        /\ state' = IF groupMeta.members = {} THEN "Empty" ELSE "Stable"
        /\ leader' = groupMeta.leader /\ members' = groupMeta.members
        /\ UNCHANGED <<parkVars, timerVars, groupMeta>>
    BY <1>17 DEF newGroupFromValue
  <2>2. /\ delayedRebalance = "none" /\ delayedSync = 0
        /\ delayedJoinResponses = {} /\ delayedSyncResponses = {}
    BY <1>g, <2>1 DEF UnloadedIsBlank, TimersMatchState, ParkedAreMembers
  <2> QED
    BY <1>g, <2>1, <2>2
       DEF GroupInv, LeaderIsMember, TimersMatchState, ParkedAreMembers,
           EmptyHasNoMembers, UnloadedIsBlank, StoredLeaderIsMember
<1>18. CASE UNCHANGED vars
  BY <1>g, <1>18 DEF vars, GroupInv, LeaderIsMember, TimersMatchState, ParkedAreMembers,
       EmptyHasNoMembers, UnloadedIsBlank, StoredLeaderIsMember
<1> QED
  BY <1>1, <1>2, <1>3, <1>4, <1>5, <1>6, <1>7, <1>8, <1>9, <1>10, <1>11, <1>12, <1>13,
     <1>14, <1>15, <1>16, <1>17, <1>18 DEF Next

LEMMA GroupInvariant == Spec => []GroupInv
BY TypeInvariant, GroupInit, GroupNext, PTL DEF Spec

\* There is a leader exactly while there are members, and it is one of them.
THEOREM LeaderAlwaysMember == Spec => []LeaderIsMember
<1>1. GroupInv => LeaderIsMember
  BY DEF GroupInv
<1> QED
  BY <1>1, GroupInvariant, PTL

\* The rebalance timer is recorded exactly while a rebalance is being prepared,
\* and the sync timer only runs in the phase and generation it was made for.
THEOREM TimersAlwaysMatch == Spec => []TimersMatchState
<1>1. GroupInv => TimersMatchState
  BY DEF GroupInv
<1> QED
  BY <1>1, GroupInvariant, PTL

\* A parked join or sync belongs to a member, and waits only in the state that
\* answers it.
THEOREM ParkedAlwaysMembers == Spec => []ParkedAreMembers
<1>1. GroupInv => ParkedAreMembers
  BY DEF GroupInv
<1> QED
  BY <1>1, GroupInvariant, PTL

-----------------------------------------------------------------------------
(* What is stored, what is watched, what is supported.                      *)

\* Those that stay keep their protocols.
LEMMA RemoveMembersSupported ==
  ASSUME TypeOK, SupportedByEachMember, NEW R \in SUBSET MemberIds, NEW parked,
         removeMembers(R, parked), supportedProtocols' = supportedProtocols
  PROVE  SupportedByEachMember'
BY DEF removeMembers, SupportedByEachMember, TypeOK

LEMMA StoreInit == Init => StoreInv
BY DEF Init, StoreInv, StableIsStored, CommittedIsStored, StoredFlag, StableIsWatched,
       SupportedByEachMember

LEMMA StoreNext == TypeInv /\ GroupInv /\ StoreInv /\ [Next]_vars => StoreInv'
<1> SUFFICES ASSUME TypeInv, GroupInv, StoreInv, [Next]_vars PROVE StoreInv'
  OBVIOUS
<1> USE DEF groupVars, parkVars, timerVars, protoVars, recordVars, heartVars, metaVars,
            clientVars
<1>t. TypeOK /\ NamedCheckerLives
  BY DEF TypeInv
<1>s. StableIsStored /\ CommittedIsStored /\ StoredFlag /\ StableIsWatched
      /\ SupportedByEachMember
  BY DEF StoreInv
<1>q. ASSUME UNCHANGED <<state, generation, leader, members, protocolName, assignment,
                         supportedProtocols, memberProtocols, storedMetadata, groupMeta,
                         committed>>,
             state = "Stable" => UNCHANGED <<checkers, heartbeatThread>>
      PROVE  StoreInv'
  BY <1>s, <1>q DEF StoreInv, StableIsStored, CommittedIsStored, StoredFlag,
                    StableIsWatched, SupportedByEachMember
<1>n. ASSUME state' # "Stable", UNCHANGED <<storedMetadata, groupMeta, committed>>,
             SupportedByEachMember'
      PROVE  StoreInv'
  BY <1>s, <1>n DEF StoreInv, StableIsStored, CommittedIsStored, StoredFlag, StableIsWatched
<1>1. CASE getOrMaybeCreateGroup
  BY <1>1, <1>q DEF getOrMaybeCreateGroup
<1>2. ASSUME NEW m \in MemberIds, NEW P \in SUBSET Protocols, NEW t \in ProtocolTypes,
             addMemberAndRebalance(m, P, t)
      PROVE  StoreInv'
  <2>1. /\ rebalanceUnlessPreparing
        /\ checkSupportedProtocols(P, t)
        /\ members' = members \cup {m}
        /\ memberProtocols' = [memberProtocols EXCEPT ![m] = P]
        /\ updateSupportedProtocols(P)
        /\ UNCHANGED <<storedMetadata, groupMeta, committed>>
    BY <1>2 DEF addMemberAndRebalance, addMember
  <2>2. members = {} \/ supportedProtocols # {}
    BY <2>1 DEF checkSupportedProtocols, GroupInv, EmptyHasNoMembers
  <2>3. SupportedByEachMember'
    BY <1>t, <1>s, <2>1, <2>2 DEF updateSupportedProtocols, SupportedByEachMember, TypeOK
  <2> QED
    BY <1>t, <1>n, <2>1, <2>3, RebalanceUnlessPreparingEffect
<1>3. ASSUME NEW m \in answered, NEW P \in SUBSET Protocols, NEW t \in ProtocolTypes,
             updateMemberAndRebalance(m, P, t)
      PROVE  StoreInv'
  <2>1. /\ rebalanceUnlessPreparing
        /\ m \in members
        /\ supportedProtocols # {}
        /\ members' = members
        /\ memberProtocols' = [memberProtocols EXCEPT ![m] = P]
        /\ updateSupportedProtocols(P)
        /\ UNCHANGED <<storedMetadata, groupMeta, committed>>
    BY <1>3 DEF updateMemberAndRebalance, checkSupportedProtocols
  <2>2. SupportedByEachMember'
    BY <1>t, <1>s, <2>1 DEF updateSupportedProtocols, SupportedByEachMember, TypeOK
  <2> QED
    BY <1>t, <1>n, <2>1, <2>2, RebalanceUnlessPreparingEffect
<1>4. ASSUME NEW a \in answers, parkSync(a) PROVE StoreInv'
  BY <1>4, <1>q DEF parkSync
<1>5. ASSUME NEW a \in answers, doSyncGroup(a) PROVE StoreInv'
  <2> DEFINE asg == [m \in MemberIds |-> IF m \in members THEN getAssignmentMap(a)[m]
                                         ELSE NoAssignment]
  <2>1. groupMeta' = getGroupValue(asg) /\ storedMetadata' = TRUE
    BY <1>5 DEF doSyncGroup, storeGroup
  <2>2. /\ groupMeta'.present /\ groupMeta'.generation = generation
        /\ groupMeta'.leader = leader /\ groupMeta'.members = members
        /\ groupMeta'.protocolName = protocolName /\ groupMeta'.assignment = asg
    BY <2>1 DEF getGroupValue
  <2>3. \A m \in members : asg[m] = assignment'[m]
    BY <1>t, <1>5 DEF doSyncGroup, TypeOK
  <2>h. \A m \in members : heartbeatThread'[m]
    <3>1. heartbeatThread' = [m \in MemberIds |-> heartbeatThread[m] \/ m \in members]
      BY <1>5 DEF doSyncGroup, setupDelayedCheckHeartbeat
    <3> QED
      BY <1>t, <3>1, Zenon DEF TypeOK
  <2>4. \A m \in members : checkers'[m] > 0
    <3>1. checkers' = [m \in MemberIds |-> IF m \in members THEN checkers[m] + 1
                                                            ELSE checkers[m]]
      BY <1>5 DEF doSyncGroup, setupDelayedCheckHeartbeat
    <3>2. members \subseteq MemberIds /\ checkers \in [MemberIds -> Nat]
      BY <1>t DEF TypeOK
    <3> QED
      BY <3>1, <3>2
  <2>5. UNCHANGED <<generation, leader, members, protocolName, memberProtocols,
                    supportedProtocols, committed>>
    BY <1>5 DEF doSyncGroup
  <2> HIDE DEF asg
  <2> QED
    BY <1>s, <2>1, <2>2, <2>3, <2>h, <2>4, <2>5
       DEF StoreInv, StableIsStored, CommittedIsStored, StoredFlag, StableIsWatched,
           SupportedByEachMember
<1>r. ASSUME NEW m \in MemberIds, removeMemberAndUpdateGroup(m) PROVE StoreInv'
  <2>1. /\ rebalanceUnlessPreparing
        /\ removeMembers({m}, delayedJoinResponses \ {m})
        /\ UNCHANGED <<supportedProtocols, storedMetadata, groupMeta, committed>>
    BY <1>r DEF removeMemberAndUpdateGroup
  <2> QED
    BY <1>t, <1>s, <1>n, <2>1, RebalanceUnlessPreparingEffect, RemoveMembersSupported
<1>6. ASSUME NEW m \in answered, leaveGroup(m) PROVE StoreInv'
  <2>0. m \in MemberIds
    BY <1>t, <1>6 DEF leaveGroup, TypeOK
  <2> QED
    BY <1>6, <1>r, <2>0 DEF leaveGroup
<1>7. ASSUME NEW a \in answers, heartbeat(a) PROVE StoreInv'
  BY <1>7, <1>q DEF heartbeat
<1>c. ASSUME acknowledgeCommit PROVE StoreInv'
  <2>1. CASE storedMetadata
    BY <1>s, <1>c, <2>1 DEF acknowledgeCommit, StoreInv, StableIsStored, CommittedIsStored,
                            StoredFlag, StableIsWatched, SupportedByEachMember
  <2>2. CASE ~storedMetadata
    <3>1. state # "Stable" /\ UNCHANGED <<state, members, memberProtocols, supportedProtocols>>
      BY <1>s, <1>c, <2>2 DEF StoredFlag, acknowledgeCommit
    <3>2. groupMeta'.present
      BY <1>c, <2>2 DEF acknowledgeCommit, storeGroup, getGroupValue
    <3> QED
      BY <1>s, <3>1, <3>2 DEF StoreInv, StableIsStored, CommittedIsStored, StoredFlag,
                              StableIsWatched, SupportedByEachMember
  <2> QED
    BY <2>1, <2>2
<1>8. ASSUME NEW a \in answers, commitOffsets(a) PROVE StoreInv'
  BY <1>8, <1>c DEF commitOffsets
<1>9. CASE commitOffsetsAnonymously
  BY <1>9, <1>c DEF commitOffsetsAnonymously
<1>o. ASSUME openNextGeneration, supportedProtocols' = supportedProtocols
      PROVE  SupportedByEachMember'
  <2>1. members \ delayedJoinResponses \in SUBSET MemberIds
    BY <1>t DEF TypeOK
  <2> QED
    BY <1>t, <1>s, <1>o, <2>1, RemoveMembersSupported DEF openNextGeneration
<1>10. CASE rebalanceToEmpty
  <2>1. openNextGeneration /\ UNCHANGED <<supportedProtocols, committed>>
    BY <1>10 DEF rebalanceToEmpty
  <2>2. state' = "Empty"
    BY <1>t, <1>10, <2>1, OpenNextGenerationEffect
       DEF rebalanceToEmpty, transitionTo, groupStateValidPrevs
  <2>3. CASE UNCHANGED metaVars
    BY <1>n, <1>o, <2>1, <2>2, <2>3
  <2>4. CASE groupMeta'.present
    BY <1>o, <2>1, <2>2, <2>4 DEF StoreInv, StableIsStored, CommittedIsStored, StoredFlag,
                                  StableIsWatched
  <2> QED
    BY <1>10, <2>3, <2>4 DEF rebalanceToEmpty, storeGroup
<1>11. CASE rebalanceThrows
  <2>1. openNextGeneration
        /\ UNCHANGED <<state, supportedProtocols, storedMetadata, groupMeta, committed>>
    BY <1>11 DEF rebalanceThrows
  <2> QED
    BY <1>t, <1>n, <1>o, <2>1, OpenNextGenerationEffect
<1>12. CASE doRelance
  <2>1. openNextGeneration
        /\ UNCHANGED <<supportedProtocols, storedMetadata, groupMeta, committed>>
    BY <1>12 DEF doRelance
  <2>2. state' = "CompletingRebalance"
    BY <1>t, <1>12, <2>1, OpenNextGenerationEffect
       DEF doRelance, transitionTo, groupStateValidPrevs
  <2> QED
    BY <1>n, <1>o, <2>1, <2>2
<1>13. CASE delayedSyncExpires
  <2>1. /\ state' = "CompletingRebalance"
        /\ removeMembers(members \ delayedSyncResponses, delayedJoinResponses)
        /\ UNCHANGED <<supportedProtocols, storedMetadata, groupMeta, committed>>
    BY <1>13 DEF delayedSyncExpires
  <2>2. members \ delayedSyncResponses \in SUBSET MemberIds
    BY <1>t DEF TypeOK
  <2> QED
    BY <1>t, <1>s, <1>n, <2>1, <2>2, RemoveMembersSupported
<1>14. ASSUME NEW m \in MemberIds, sessionTimeoutPasses(m) PROVE StoreInv'
  BY <1>14, <1>q DEF sessionTimeoutPasses
<1>15. ASSUME NEW m \in MemberIds, checkHeartbeatAndMaybeRebalance(m) PROVE StoreInv'
  BY <1>15, <1>r DEF checkHeartbeatAndMaybeRebalance
<1>16. CASE crash
  <2>1. /\ state' = "Empty" /\ members' = {} /\ storedMetadata' = FALSE
        /\ UNCHANGED <<groupMeta, committed>>
    BY <1>16 DEF crash
  <2> QED
    BY <1>s, <2>1 DEF StoreInv, StableIsStored, CommittedIsStored, StoredFlag,
                      StableIsWatched, SupportedByEachMember
<1>17. CASE newGroupFromValue
  <2>1. /\ groupMeta.present /\ storedMetadata' = TRUE
        /\ generation' = groupMeta.generation /\ leader' = groupMeta.leader
        /\ members' = groupMeta.members /\ protocolName' = groupMeta.protocolName
        /\ assignment' = groupMeta.assignment
        /\ UNCHANGED <<groupMeta, committed>>
    BY <1>17 DEF newGroupFromValue
  <2>2. groupMeta.members \subseteq MemberIds
    BY <1>t DEF TypeOK, GroupMetadataValue
  <2>h. \A m \in members' : heartbeatThread'[m]
    BY <1>17, <2>1, <2>2, Zenon DEF newGroupFromValue
  <2>3. \A m \in members' : checkers'[m] > 0
    <3>1. checkers' = [m \in MemberIds |-> IF m \in groupMeta.members THEN 1 ELSE 0]
      BY <1>17 DEF newGroupFromValue
    <3> QED
      BY <2>1, <2>2, <3>1
  <2>4. SupportedByEachMember'
    <3>1. /\ supportedProtocols' \subseteq {groupMeta.protocolName}
          /\ memberProtocols' = [m \in MemberIds |->
                                   IF m \in groupMeta.members
                                   THEN {groupMeta.protocolName} ELSE {}]
      BY <1>17 DEF newGroupFromValue
    <3>2. \A m \in members' : memberProtocols'[m] = {groupMeta.protocolName}
      BY <2>1, <2>2, <3>1
    <3> QED
      BY <3>1, <3>2 DEF SupportedByEachMember
  <2> QED
    BY <2>1, <2>h, <2>3, <2>4 DEF StoreInv, StableIsStored, CommittedIsStored, StoredFlag,
                            StableIsWatched
<1>18. CASE UNCHANGED vars
  BY <1>18, <1>q DEF vars
<1> QED
  BY <1>1, <1>2, <1>3, <1>4, <1>5, <1>6, <1>7, <1>8, <1>9, <1>10, <1>11, <1>12, <1>13,
     <1>14, <1>15, <1>16, <1>17, <1>18 DEF Next

LEMMA StoreInvariant == Spec => []StoreInv
BY TypeInvariant, GroupInvariant, StoreInit, StoreNext, PTL DEF Spec

\* A restart of the server finds the stable generation as it was.
THEOREM StableAlwaysStored == Spec => []StableIsStored
<1>1. StoreInv => StableIsStored
  BY DEF StoreInv
<1> QED
  BY <1>1, StoreInvariant, PTL

\* An acknowledged commit is always of a group the metastore lists.
THEOREM CommittedAlwaysStored == Spec => []CommittedIsStored
<1>1. StoreInv => CommittedIsStored
  BY DEF StoreInv
<1> QED
  BY <1>1, StoreInvariant, PTL

\* The candidates of a vote are supported by each member.
THEOREM AlwaysSupported == Spec => []SupportedByEachMember
<1>1. StoreInv => SupportedByEachMember
  BY DEF StoreInv
<1> QED
  BY <1>1, StoreInvariant, PTL

\* Every member of a stable group has a live heartbeat checker.
THEOREM StableAlwaysWatched == Spec => []StableIsWatched
<1>1. StoreInv => StableIsWatched
  BY DEF StoreInv
<1> QED
  BY <1>1, StoreInvariant, PTL

-----------------------------------------------------------------------------
(* Generations and their assignments.                                       *)

LEMMA AnswersInit == Init => AnswersInv
<1> SUFFICES ASSUME Init PROVE AnswersInv
  OBVIOUS
<1>1. \A m \in MemberIds : groupMeta.assignment[m] = NoAssignment
  BY DEF Init, NoMeta
<1>2. answers = {} /\ state = "Empty" /\ incarnation = 0 /\ groupMeta.present = FALSE
  BY DEF Init, NoMeta
<1> QED
  BY <1>1, <1>2
     DEF AnswersInv, OneLeaderPerGeneration, AnswersAreOfThePast, RosterCoversMembers,
         StoredAssignmentsArePast, AssignmentsOfOneGeneration, NoAssignment

LEMMA AnswersNext == TypeInv /\ GroupInv /\ AnswersInv /\ [Next]_vars => AnswersInv'
<1> SUFFICES ASSUME TypeInv, GroupInv, AnswersInv, [Next]_vars PROVE AnswersInv'
  OBVIOUS
<1> USE DEF groupVars, parkVars, timerVars, protoVars, recordVars, heartVars, metaVars,
            clientVars
<1>t. TypeOK
  BY DEF TypeInv
<1>a. /\ OneLeaderPerGeneration /\ AnswersAreOfThePast /\ RosterCoversMembers
      /\ StoredAssignmentsArePast /\ AssignmentsOfOneGeneration
  BY DEF AnswersInv
<1>n. NoAssignment.incarnation = 0 /\ NoAssignment.generation = 0
  BY DEF NoAssignment
\* Steps that change none of what AnswersInv is about.
<1>q. ASSUME UNCHANGED <<loaded, state, generation, leader, members, assignment, groupMeta,
                         answers, incarnation>>
      PROVE  AnswersInv'
  BY <1>a, <1>q
     DEF AnswersInv, OneLeaderPerGeneration, AnswersAreOfThePast, RosterCoversMembers,
         StoredAssignmentsArePast, AssignmentsOfOneGeneration
\* Steps after which a rebalance is being prepared in the same generation.
<1>p. ASSUME state' = "PreparingRebalance",
             UNCHANGED <<loaded, generation, groupMeta, answers, incarnation>>
      PROVE  AnswersInv'
  BY <1>a, <1>p
     DEF AnswersInv, OneLeaderPerGeneration, AnswersAreOfThePast, RosterCoversMembers,
         StoredAssignmentsArePast, AssignmentsOfOneGeneration
<1>1. CASE getOrMaybeCreateGroup
  BY <1>a, <1>1
     DEF getOrMaybeCreateGroup, AnswersInv, OneLeaderPerGeneration, AnswersAreOfThePast,
         RosterCoversMembers, StoredAssignmentsArePast, AssignmentsOfOneGeneration
<1>2. ASSUME NEW m \in MemberIds, NEW P \in SUBSET Protocols, NEW t \in ProtocolTypes,
             addMemberAndRebalance(m, P, t)
      PROVE  AnswersInv'
  BY <1>t, <1>2, <1>p, RebalanceUnlessPreparingEffect DEF addMemberAndRebalance
<1>3. ASSUME NEW m \in answered, NEW P \in SUBSET Protocols, NEW t \in ProtocolTypes,
             updateMemberAndRebalance(m, P, t)
      PROVE  AnswersInv'
  BY <1>t, <1>3, <1>p, RebalanceUnlessPreparingEffect DEF updateMemberAndRebalance
<1>4. ASSUME NEW a \in answers, parkSync(a) PROVE AnswersInv'
  BY <1>4, <1>q DEF parkSync
<1>5. ASSUME NEW a \in answers, doSyncGroup(a) PROVE AnswersInv'
  <2> DEFINE asg == getAssignmentMap(a)
             tag == [incarnation |-> a.incarnation, generation |-> a.generation]
  <2>1. /\ state = "CompletingRebalance" /\ state' = "Stable"
        /\ UNCHANGED <<loaded, generation, leader, members, answers, incarnation>>
        /\ a.member \in members /\ a.member = leader
    BY <1>5 DEF doSyncGroup, canSync, transitionTo, groupStateValidPrevs
  <2>2. loaded
    BY <2>1 DEF GroupInv, UnloadedIsBlank
  <2>3. \A m \in members : assignment'[m] = asg[m]
    BY <1>t, <1>5 DEF doSyncGroup, TypeOK
  <2>4. \A m \in MemberIds : asg[m] = IF m \in a.roster THEN tag ELSE NoAssignment
    BY DEF getAssignmentMap
  <2>5. \A m \in MemberIds : groupMeta'.assignment[m] \in {tag, NoAssignment}
    <3>1. groupMeta'.assignment = [m \in MemberIds |-> IF m \in members THEN asg[m]
                                                       ELSE NoAssignment]
      BY <1>5 DEF doSyncGroup, storeGroup, getGroupValue
    <3> HIDE DEF asg, tag
    <3> QED
      BY <2>4, <3>1
  <2>6. a.incarnation <= incarnation /\ a.incarnation \in Nat /\ incarnation \in Nat
    BY <1>t, <1>a DEF AnswersAreOfThePast, TypeOK, JoinAnswer
  <2>7. StoredAssignmentsArePast'
    <3>1. tag.incarnation = a.incarnation
      OBVIOUS
    <3> HIDE DEF tag
    <3>2. \A m \in MemberIds : groupMeta'.assignment[m].incarnation <= incarnation
      BY <1>n, <2>5, <2>6, <3>1
    <3> QED
      BY <2>1, <2>2, <3>2 DEF StoredAssignmentsArePast
  <2>8. AssignmentsOfOneGeneration'
    <3> DEFINE current == [incarnation |-> incarnation, generation |-> generation]
    <3>1. SUFFICES ASSUME assignment'[leader] = current, NEW m \in members
                   PROVE  assignment'[m] = current
      BY <2>1 DEF AssignmentsOfOneGeneration
    <3>2. generation > 0 /\ leader \in members
      BY <1>a, <2>1 DEF RosterCoversMembers
    <3>3. asg[leader] = current
      BY <2>3, <3>1, <3>2
    <3>4. NoAssignment # current
      BY <1>t, <3>2 DEF NoAssignment, TypeOK
    <3>5. members \subseteq MemberIds
      BY <1>t DEF TypeOK
    <3>6. leader \in a.roster /\ tag = current
      <4> HIDE DEF asg, tag, current
      <4> QED
        BY <2>4, <3>2, <3>3, <3>4, <3>5
    <3>7. a.incarnation = incarnation /\ a.generation = generation
      BY <3>6
    <3>8. members \subseteq a.roster
      BY <1>a, <2>1, <3>6, <3>7 DEF RosterCoversMembers
    <3>9. asg[m] = tag
      <4> HIDE DEF asg, tag
      <4> QED
        BY <2>4, <3>5, <3>8
    <3> HIDE DEF asg, tag, current
    <3> QED
      BY <2>3, <3>6, <3>9
  <2> QED
    BY <1>a, <2>1, <2>7, <2>8
       DEF AnswersInv, OneLeaderPerGeneration, AnswersAreOfThePast, RosterCoversMembers
<1>r. ASSUME NEW m \in MemberIds, removeMemberAndUpdateGroup(m) PROVE AnswersInv'
  BY <1>t, <1>r, <1>p, RebalanceUnlessPreparingEffect DEF removeMemberAndUpdateGroup
<1>6. ASSUME NEW m \in answered, leaveGroup(m) PROVE AnswersInv'
  <2>0. m \in MemberIds
    BY <1>t, <1>6 DEF leaveGroup, TypeOK
  <2> QED
    BY <1>6, <1>r, <2>0 DEF leaveGroup
<1>7. ASSUME NEW a \in answers, heartbeat(a) PROVE AnswersInv'
  BY <1>7, <1>q DEF heartbeat
<1>c. ASSUME acknowledgeCommit, loaded PROVE AnswersInv'
  <2>1. UNCHANGED <<loaded, state, generation, leader, members, assignment, answers,
                    incarnation>>
    BY <1>c DEF acknowledgeCommit
  <2>2. CASE storedMetadata
    BY <1>c, <1>q, <2>1, <2>2 DEF acknowledgeCommit
  <2>3. CASE ~storedMetadata
    <3>1. \A m \in MemberIds : groupMeta'.assignment[m] = NoAssignment
      BY <1>c, <2>3 DEF acknowledgeCommit, storeGroup, getGroupValue, noAssignments
    <3>2. StoredAssignmentsArePast'
      <4>1. \A m \in MemberIds : groupMeta'.assignment[m].incarnation <= incarnation'
        BY <1>t, <1>n, <2>1, <3>1 DEF TypeOK
      <4> QED
        BY <1>c, <2>1, <4>1 DEF StoredAssignmentsArePast
    <3> QED
      BY <1>a, <2>1, <3>2
         DEF AnswersInv, OneLeaderPerGeneration, AnswersAreOfThePast, RosterCoversMembers,
             AssignmentsOfOneGeneration
  <2> QED
    BY <2>2, <2>3
<1>8. ASSUME NEW a \in answers, commitOffsets(a) PROVE AnswersInv'
  <2>1. loaded
    BY <1>8 DEF commitOffsets, GroupInv, UnloadedIsBlank, EmptyHasNoMembers
  <2> QED
    BY <1>8, <1>c, <2>1 DEF commitOffsets
<1>9. CASE commitOffsetsAnonymously
  BY <1>9, <1>c DEF commitOffsetsAnonymously
\* Opening a generation without answering anybody.
<1>g. ASSUME openNextGeneration, UNCHANGED <<loaded, answers, incarnation>>
      PROVE  (OneLeaderPerGeneration /\ AnswersAreOfThePast)'
  <2>1. generation' = generation + 1 /\ generation \in Nat
    BY <1>t, <1>g, OpenNextGenerationEffect DEF TypeOK
  <2>2. \A a \in answers : a.generation \in Nat
    BY <1>t DEF TypeOK, JoinAnswer
  <2> QED
    BY <1>a, <1>g, <2>1, <2>2 DEF OneLeaderPerGeneration, AnswersAreOfThePast
<1>10. CASE rebalanceToEmpty
  <2>1. openNextGeneration /\ UNCHANGED <<loaded, answers, incarnation>>
    BY <1>10 DEF rebalanceToEmpty
  <2>2. state' = "Empty" /\ loaded
    BY <1>t, <1>10, <2>1, OpenNextGenerationEffect
       DEF rebalanceToEmpty, transitionTo, groupStateValidPrevs
  <2>3. StoredAssignmentsArePast'
    <3>1. CASE UNCHANGED groupMeta
      BY <1>a, <2>1, <2>2, <3>1 DEF StoredAssignmentsArePast
    <3>2. CASE groupMeta'.assignment = noAssignments
      <4>1. \A m \in MemberIds : groupMeta'.assignment[m] = NoAssignment
        BY <3>2 DEF noAssignments
      <4> QED
        BY <1>t, <1>n, <2>1, <2>2, <4>1 DEF StoredAssignmentsArePast, TypeOK
    <3> QED
      BY <1>10, <3>1, <3>2 DEF rebalanceToEmpty, storeGroup
  <2> QED
    BY <1>g, <2>1, <2>2, <2>3 DEF AnswersInv, RosterCoversMembers, AssignmentsOfOneGeneration
<1>11. CASE rebalanceThrows
  <2>1. openNextGeneration /\ UNCHANGED <<loaded, state, groupMeta, answers, incarnation>>
    BY <1>11 DEF rebalanceThrows
  <2>2. state' = "PreparingRebalance"
    BY <1>t, <2>1, OpenNextGenerationEffect
  <2> QED
    BY <1>a, <1>g, <2>1, <2>2
       DEF AnswersInv, RosterCoversMembers, AssignmentsOfOneGeneration,
           StoredAssignmentsArePast
<1>12. CASE doRelance
  <2> DEFINE new == {[member |-> m, leader |-> leader', incarnation |-> incarnation,
                      generation |-> generation',
                      roster |-> IF m = leader' THEN members' ELSE {}]
                       : m \in delayedJoinResponses}
  <2>1. /\ openNextGeneration /\ leader' # None
        /\ answers' = answers \cup new
        /\ UNCHANGED <<loaded, groupMeta, incarnation>>
    BY <1>12 DEF doRelance
  <2>2. state' = "CompletingRebalance"
    BY <1>t, <1>12, <2>1, OpenNextGenerationEffect
       DEF doRelance, transitionTo, groupStateValidPrevs
  <2>3. /\ generation' = generation + 1 /\ generation \in Nat /\ incarnation \in Nat
        /\ members' = delayedJoinResponses /\ loaded
    BY <1>t, <2>1, OpenNextGenerationEffect DEF TypeOK
  <2>4. \A a \in new : /\ a.incarnation = incarnation /\ a.generation = generation'
                       /\ a.leader = leader' /\ a.member \in members'
                       /\ a.roster = IF a.member = leader' THEN members' ELSE {}
    BY <2>3
  <2>5. \A a \in answers : /\ a.generation \in Nat /\ a.incarnation \in Nat
                           /\ a.incarnation = incarnation => a.generation < generation'
    BY <1>t, <1>a, <2>3 DEF TypeOK, JoinAnswer, AnswersAreOfThePast
  <2> HIDE DEF new
  <2>6. OneLeaderPerGeneration'
    <3> SUFFICES ASSUME NEW a \in answers', NEW b \in answers',
                        a.incarnation = b.incarnation, a.generation = b.generation
                 PROVE  /\ a.leader = b.leader
                        /\ a.member = a.leader => b.member \in a.roster
      BY DEF OneLeaderPerGeneration
    <3>1. CASE a \in answers /\ b \in answers
      BY <1>a, <3>1 DEF OneLeaderPerGeneration
    <3>2. CASE a \in new /\ b \in new
      BY <2>4, <3>2
    <3>3. ~(a \in answers /\ b \in new) /\ ~(a \in new /\ b \in answers)
      BY <2>3, <2>4, <2>5
    <3> QED
      BY <2>1, <3>1, <3>2, <3>3
  <2>7. AnswersAreOfThePast'
    BY <1>a, <2>1, <2>3, <2>4, <2>5 DEF AnswersAreOfThePast
  <2>8. RosterCoversMembers'
    BY <2>1, <2>3, <2>4, <2>5 DEF RosterCoversMembers
  <2> QED
    BY <1>a, <2>1, <2>2, <2>6, <2>7, <2>8
       DEF AnswersInv, AssignmentsOfOneGeneration, StoredAssignmentsArePast
<1>13. CASE delayedSyncExpires
  <2>1. /\ state = "CompletingRebalance" /\ members' \subseteq members
        /\ UNCHANGED <<loaded, state, generation, groupMeta, answers, incarnation>>
    BY <1>13 DEF delayedSyncExpires, removeMembers
  <2> QED
    BY <1>a, <2>1
       DEF AnswersInv, OneLeaderPerGeneration, AnswersAreOfThePast, RosterCoversMembers,
           StoredAssignmentsArePast, AssignmentsOfOneGeneration
<1>14. ASSUME NEW m \in MemberIds, sessionTimeoutPasses(m) PROVE AnswersInv'
  BY <1>14, <1>q DEF sessionTimeoutPasses
<1>15. ASSUME NEW m \in MemberIds, checkHeartbeatAndMaybeRebalance(m) PROVE AnswersInv'
  BY <1>15, <1>r DEF checkHeartbeatAndMaybeRebalance
<1>16. CASE crash
  <2>1. /\ state' = "Empty" /\ loaded' = FALSE /\ incarnation' = incarnation + 1
        /\ UNCHANGED <<groupMeta, answers>>
    BY <1>16 DEF crash
  <2>2. incarnation \in Nat /\ \A a \in answers : a.incarnation \in Nat
    BY <1>t DEF TypeOK, JoinAnswer
  <2>3. \A m \in MemberIds : groupMeta.assignment[m].incarnation \in Nat
    BY <1>t DEF TypeOK, GroupMetadataValue, Assignment
  <2>4. AnswersAreOfThePast'
    <3>1. \A a \in answers : /\ a.incarnation <= incarnation + 1
                             /\ a.incarnation # incarnation + 1
                             /\ a.generation > 0
      BY <1>a, <2>2 DEF AnswersAreOfThePast
    <3> QED
      BY <2>1, <3>1 DEF AnswersAreOfThePast
  <2>5. StoredAssignmentsArePast'
    <3>1. \A m \in MemberIds : /\ groupMeta.assignment[m].incarnation < incarnation + 1
                              /\ groupMeta.assignment[m].incarnation <= incarnation + 1
      BY <1>a, <2>2, <2>3 DEF StoredAssignmentsArePast
    <3> QED
      BY <2>1, <3>1 DEF StoredAssignmentsArePast
  <2> QED
    BY <1>a, <2>1, <2>4, <2>5
       DEF AnswersInv, OneLeaderPerGeneration, RosterCoversMembers, AssignmentsOfOneGeneration
<1>17. CASE newGroupFromValue
  <2>1. /\ ~loaded /\ loaded' = TRUE /\ groupMeta.present
        /\ state' # "CompletingRebalance"
        /\ leader' = groupMeta.leader /\ assignment' = groupMeta.assignment
        /\ UNCHANGED <<groupMeta, answers, incarnation>>
    BY <1>17 DEF newGroupFromValue
  <2>2. incarnation \in Nat
        /\ \A m \in MemberIds : groupMeta.assignment[m].incarnation \in Nat
    BY <1>t DEF TypeOK, GroupMetadataValue, Assignment
  <2>3. \A m \in MemberIds : assignment'[m].incarnation < incarnation
    BY <1>a, <2>1 DEF StoredAssignmentsArePast
  <2>4. leader' # None => leader' \in MemberIds
    BY <1>t, <2>1 DEF TypeOK, GroupMetadataValue
  <2>5. AssignmentsOfOneGeneration'
    <3> DEFINE current == [incarnation |-> incarnation, generation |-> generation']
    <3>1. ASSUME NEW m \in MemberIds PROVE assignment'[m] # current
      <4>1. assignment'[m].incarnation \in Nat /\ assignment'[m].incarnation < incarnation
        BY <2>1, <2>2, <2>3
      <4>2. assignment'[m].incarnation # incarnation
        BY <2>2, <4>1
      <4>3. current.incarnation = incarnation
        OBVIOUS
      <4> HIDE DEF current
      <4> QED
        BY <4>2, <4>3
    <3>2. leader' # None => assignment'[leader'] # current
      BY <2>4, <3>1
    <3>3. incarnation' = incarnation
      BY <2>1
    <3> QED
      BY <3>2, <3>3 DEF AssignmentsOfOneGeneration
  <2>6. AnswersAreOfThePast'
    BY <1>a, <2>1 DEF AnswersAreOfThePast
  <2> QED
    BY <1>a, <2>1, <2>5, <2>6
       DEF AnswersInv, OneLeaderPerGeneration, RosterCoversMembers, StoredAssignmentsArePast
<1>18. CASE UNCHANGED vars
  BY <1>18, <1>q DEF vars
<1> QED
  BY <1>1, <1>2, <1>3, <1>4, <1>5, <1>6, <1>7, <1>8, <1>9, <1>10, <1>11, <1>12, <1>13,
     <1>14, <1>15, <1>16, <1>17, <1>18 DEF Next

LEMMA AnswersInvariant == Spec => []AnswersInv
BY TypeInvariant, GroupInvariant, AnswersInit, AnswersNext, PTL DEF Spec

\* A generation has one leader, who knows every member that was told of it.
THEOREM AlwaysOneLeaderPerGeneration == Spec => []OneLeaderPerGeneration
<1>1. AnswersInv => OneLeaderPerGeneration
  BY DEF AnswersInv
<1> QED
  BY <1>1, AnswersInvariant, PTL

\* If the leader of a stable group has an assignment of its generation, every
\* member has.
THEOREM AlwaysAssignmentsOfOneGeneration == Spec => []AssignmentsOfOneGeneration
<1>1. AnswersInv => AssignmentsOfOneGeneration
  BY DEF AnswersInv
<1> QED
  BY <1>1, AnswersInvariant, PTL

-----------------------------------------------------------------------------
(* The coordinator's group implements the abstract life cycle: every action *)
(* is a step of GroupLifecycle or leaves what it is about alone.            *)

LEMMA LifecycleInit == Init => GL!Init
<1> SUFFICES ASSUME Init PROVE GL!Init
  OBVIOUS
<1>1. groupMeta.present = FALSE /\ groupMeta.generation = 0 /\ groupMeta.members = {}
  BY DEF Init, NoMeta
<1>2. state = "Empty" /\ generation = 0 /\ members = {}
  BY DEF Init
<1> QED
  BY <1>1, <1>2 DEF GL!Init

LEMMA LifecycleNext == TypeInv /\ GroupInv /\ [Next]_vars => [GL!Next]_(GL!vars)
<1> SUFFICES ASSUME TypeInv, GroupInv, [Next]_vars PROVE [GL!Next]_(GL!vars)
  OBVIOUS
<1> USE DEF groupVars, parkVars, timerVars, protoVars, recordVars, heartVars, metaVars,
            clientVars
<1>t. TypeOK
  BY DEF TypeInv
\* Steps the life cycle does not see.
<1>q. ASSUME UNCHANGED <<state, generation, members, groupMeta>>
      PROVE  UNCHANGED GL!vars
  BY <1>q DEF GL!vars
<1>1. CASE getOrMaybeCreateGroup
  BY <1>1, <1>q DEF getOrMaybeCreateGroup
<1>2. ASSUME NEW m \in MemberIds, NEW P \in SUBSET Protocols, NEW t \in ProtocolTypes,
             addMemberAndRebalance(m, P, t)
      PROVE  GL!Disturb
  BY <1>t, <1>2, RebalanceUnlessPreparingEffect
     DEF addMemberAndRebalance, addMember, GL!Disturb
<1>3. ASSUME NEW m \in answered, NEW P \in SUBSET Protocols, NEW t \in ProtocolTypes,
             updateMemberAndRebalance(m, P, t)
      PROVE  GL!Disturb
  <2>1. m \in members /\ m \in MemberIds /\ UNCHANGED <<generation, members, groupMeta>>
    BY <1>t, <1>3 DEF updateMemberAndRebalance, TypeOK
  <2>2. state' = "PreparingRebalance"
    BY <1>t, <1>3, RebalanceUnlessPreparingEffect DEF updateMemberAndRebalance
  <2> QED
    BY <2>1, <2>2 DEF GL!Disturb
<1>4. ASSUME NEW a \in answers, parkSync(a) PROVE UNCHANGED GL!vars
  BY <1>4, <1>q DEF parkSync
<1>5. ASSUME NEW a \in answers, doSyncGroup(a) PROVE GL!Stabilise
  <2>1. /\ state = "CompletingRebalance" /\ state' = "Stable" /\ members # {}
        /\ UNCHANGED <<generation, members>>
    BY <1>5 DEF doSyncGroup, canSync, transitionTo, groupStateValidPrevs
  <2>2. groupMeta'.present /\ groupMeta'.generation = generation
        /\ groupMeta'.members = members
    BY <1>5 DEF doSyncGroup, storeGroup, getGroupValue
  <2>3. groupMeta'.present = TRUE
    BY <1>5 DEF doSyncGroup, storeGroup, getGroupValue
  <2> QED
    BY <2>1, <2>2, <2>3 DEF GL!Stabilise, GL!snapshot
<1>r. ASSUME NEW m \in MemberIds, removeMemberAndUpdateGroup(m) PROVE GL!Disturb
  BY <1>t, <1>r, RebalanceUnlessPreparingEffect
     DEF removeMemberAndUpdateGroup, removeMembers, GL!Disturb
<1>6. ASSUME NEW m \in answered, leaveGroup(m) PROVE GL!Disturb
  <2>0. m \in MemberIds
    BY <1>t, <1>6 DEF leaveGroup, TypeOK
  <2> QED
    BY <1>6, <1>r, <2>0 DEF leaveGroup
<1>7. ASSUME NEW a \in answers, heartbeat(a) PROVE UNCHANGED GL!vars
  BY <1>7, <1>q DEF heartbeat
<1>c. ASSUME acknowledgeCommit, state # "CompletingRebalance"
      PROVE  GL!Save \/ UNCHANGED GL!vars
  <2>1. UNCHANGED <<state, generation, members>>
    BY <1>c DEF acknowledgeCommit
  <2>2. CASE storedMetadata
    BY <1>c, <1>q, <2>1, <2>2 DEF acknowledgeCommit
  <2>3. CASE ~storedMetadata
    <3>1. groupMeta'.present = TRUE /\ groupMeta'.generation = generation
          /\ groupMeta'.members = members
      BY <1>c, <2>3 DEF acknowledgeCommit, storeGroup, getGroupValue
    <3> QED
      BY <1>c, <2>1, <3>1 DEF GL!Save, GL!snapshot
  <2> QED
    BY <2>2, <2>3
<1>8. ASSUME NEW a \in answers, commitOffsets(a) PROVE GL!Save \/ UNCHANGED GL!vars
  BY <1>8, <1>c DEF commitOffsets
<1>9. ASSUME commitOffsetsAnonymously PROVE GL!Save \/ UNCHANGED GL!vars
  BY <1>9, <1>c DEF commitOffsetsAnonymously
<1>10. ASSUME rebalanceToEmpty PROVE GL!Vacate
  <2>1. /\ state = "PreparingRebalance" /\ generation' = generation + 1
        /\ members' = delayedJoinResponses
    BY <1>t, <1>10, OpenNextGenerationEffect DEF rebalanceToEmpty
  <2>2. state' = "Empty"
    BY <1>10, <2>1 DEF rebalanceToEmpty, transitionTo, groupStateValidPrevs
  <2>3. members' = {}
    BY <1>t, <1>10, <2>1, OpenNextGenerationEffect DEF rebalanceToEmpty, LeaderIsMember
  <2>4. UNCHANGED groupMeta \/ /\ groupMeta'.present = TRUE
                               /\ groupMeta'.generation = generation'
                               /\ groupMeta'.members = members'
    BY <1>10 DEF rebalanceToEmpty, storeGroup
  <2> QED
    BY <2>1, <2>2, <2>3, <2>4 DEF GL!Vacate, GL!snapshot
<1>11. ASSUME rebalanceThrows PROVE GL!OpenGeneration
  <2>1. openNextGeneration /\ leader' # None /\ UNCHANGED <<state, groupMeta>>
    BY <1>11 DEF rebalanceThrows
  <2> QED
    BY <1>t, <2>1, OpenNextGenerationEffect
       DEF GL!OpenGeneration, LeaderIsMember, GroupInv, ParkedAreMembers
<1>12. ASSUME doRelance PROVE GL!OpenGeneration
  <2>1. openNextGeneration /\ leader' # None /\ UNCHANGED groupMeta
    BY <1>12 DEF doRelance
  <2>2. state = "PreparingRebalance"
    BY <1>t, <2>1, OpenNextGenerationEffect
  <2>3. state' = "CompletingRebalance"
    BY <1>12, <2>2 DEF doRelance, transitionTo, groupStateValidPrevs
  <2> QED
    BY <1>t, <2>1, <2>2, <2>3, OpenNextGenerationEffect
       DEF GL!OpenGeneration, LeaderIsMember, GroupInv, ParkedAreMembers
<1>13. ASSUME delayedSyncExpires PROVE GL!Drop
  BY <1>13 DEF delayedSyncExpires, removeMembers, GL!Drop
<1>14. ASSUME NEW m \in MemberIds, sessionTimeoutPasses(m) PROVE UNCHANGED GL!vars
  BY <1>14, <1>q DEF sessionTimeoutPasses
<1>15. ASSUME NEW m \in MemberIds, checkHeartbeatAndMaybeRebalance(m) PROVE GL!Disturb
  BY <1>15, <1>r DEF checkHeartbeatAndMaybeRebalance
<1>16. ASSUME crash PROVE GL!Restart
  BY <1>16 DEF crash, GL!Restart
<1>17. ASSUME newGroupFromValue PROVE GL!Restore
  BY <1>17 DEF newGroupFromValue, GL!Restore, GroupInv, UnloadedIsBlank
<1>18. ASSUME UNCHANGED vars PROVE UNCHANGED GL!vars
  BY <1>18, <1>q DEF vars
<1> QED
  BY <1>1, <1>2, <1>3, <1>4, <1>5, <1>6, <1>7, <1>8, <1>9, <1>10, <1>11, <1>12, <1>13,
     <1>14, <1>15, <1>16, <1>17, <1>18 DEF Next, GL!Next

\* Through every interleaving of requests, timers and restarts the group of the
\* coordinator keeps the promises of GroupLifecycle.
THEOREM ImplementsLifecycle == Spec => Lifecycle
BY TypeInvariant, GroupInvariant, LifecycleInit, LifecycleNext, PTL
   DEF Spec, Lifecycle, GL!Spec
=============================================================================
