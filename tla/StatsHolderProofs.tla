------------------------- MODULE StatsHolderProofs -------------------------
(***************************************************************************)
(* For any threads and keys: an erase or a reset that has returned leaves  *)
(* nothing behind, no wrapper outlives the holder it refers to, and an     *)
(* aggregation counts every update once.                                   *)
(***************************************************************************)
EXTENDS StatsHolder, TLAPS

\* The lock of a thread's map: while an update is under way the thread is in the
\* list, and an entry that was found is still there.
UpdatesOwnTheirEntry ==
  \A t \in Threads :
    /\ op[t].kind = "none" => op[t] = idle
    /\ op[t] # idle => t \in registered /\ op[t].key \in Keys
    /\ op[t].found => stats[t][op[t].key] # Absent

\* Only threads of the list have entries.
ListedHaveEntries ==
  \A t \in Threads \ registered, k \in Keys : stats[t][k] = Absent

\* What the accessor has copied stays in place while it reads.
CopiesStayInPlace ==
  /\ accessor.kind = "none" <=> accessor = noAccess
  /\ accessor.kind = "erase" => accessor.key \in Keys
  /\ accessor.todo # {} => accessor.at \in Places
  /\ \A k \in accessor.todo : stats[accessor.at][k] # Absent
  /\ accessor.at # Nobody => accessor.kind \in {"aggregate", "rates"}
  /\ holder # "alive" => accessor.kind \in {"none", "destroy"}
  /\ accessor.kind = "destroy" => holder = "dying"

\* An entry of an erased key is one that the walk in progress has still to visit.
ErasedOrPending ==
  \A k \in erased, p \in Places :
    stats[p][k] # Absent =>
      /\ accessor.kind = "reset" \/ (accessor.kind = "erase" /\ accessor.key = k)
      /\ p \in accessor.pending

\* The destructor has still to visit the wrappers that have an owner.
OwnersArePending ==
  /\ owner \subseteq registered
  /\ accessor.kind = "destroy" => owner \subseteq accessor.pending
  /\ holder # "alive" => (\A t \in Threads : op[t] = idle) /\ (accessor = noAccess => owner = {})

IInv ==
  /\ TypeOK
  /\ UpdatesOwnTheirEntry
  /\ ListedHaveEntries
  /\ CopiesStayInPlace
  /\ ErasedOrPending
  /\ OwnersArePending

-----------------------------------------------------------------------------
(* Totals.                                                                  *)

\* m weighs sets of places: f[p] is the weight of p, and weights add up.
Measure(m, f) ==
  /\ m \in [SUBSET Places -> Int]
  /\ \A S, T \in SUBSET Places : S \cap T = {} => m[S \cup T] = m[S] + m[T]
  /\ \A p \in Places : m[{p}] = f[p]
  /\ \A S \in SUBSET Places : (\A p \in S : f[p] = 0) => m[S] = 0

\* The places weigh total.  A walk that has seen result so far, where the total was
\* before when it began, and that has the places of rest still before it, will not end
\* below what there was, and has not seen more than there is.
Weighs(walks, total, f, before, result, rest) ==
  \E m : /\ Measure(m, f)
         /\ m[Places] = total
         /\ walks => before <= result + m[rest] /\ result <= m[Places \ rest]

\* Nothing weighs nothing.
LEMMA Weightless ==
  ASSUME NEW f, \A p \in Places : f[p] = 0, NEW before, NEW result, NEW rest
  PROVE  Weighs(FALSE, 0, f, before, result, rest)
<1> DEFINE m == [S \in SUBSET Places |-> 0]
<1>1. Measure(m, f)
  <2>1. m \in [SUBSET Places -> Int] /\ \A S \in SUBSET Places : m[S] = 0
    OBVIOUS
  <2> HIDE DEF m
  <2>2. \A S, T \in SUBSET Places : S \cap T = {} => m[S \cup T] = m[S] + m[T]
    BY <2>1
  <2>3. \A p \in Places : m[{p}] = f[p]
    BY Zenon, <2>1
  <2> QED
    BY Zenon, <2>1, <2>2, <2>3 DEF Measure
<1>2. m[Places] = 0
  BY Zenon
<1> HIDE DEF m
<1> QED
  BY Zenon, <1>1, <1>2 DEF Weighs

\* The weight of one place changes.
LEMMA Reweighed ==
  ASSUME NEW m, NEW f \in [Places -> Int], NEW g \in [Places -> Int], Measure(m, f),
         NEW q \in Places, \A p \in Places \ {q} : g[p] = f[p],
         NEW n, n = [S \in SUBSET Places |-> m[S] + (IF q \in S THEN g[q] - f[q] ELSE 0)]
  PROVE  Measure(n, g)
<1> DEFINE d == g[q] - f[q]
<1>0. d \in Int /\ m \in [SUBSET Places -> Int]
  BY DEF Measure
<1>1. /\ n \in [SUBSET Places -> Int]
      /\ \A S \in SUBSET Places : q \in S => n[S] = m[S] + d
      /\ \A S \in SUBSET Places : q \notin S => n[S] = m[S]
  BY <1>0
<1>2. d = g[q] - f[q] /\ f[q] \in Int /\ g[q] \in Int
  BY Zenon
<1> HIDE DEF d
<1>3. ASSUME NEW S \in SUBSET Places, NEW T \in SUBSET Places, S \cap T = {}
      PROVE  n[S \cup T] = n[S] + n[T]
  <2>1. m[S \cup T] = m[S] + m[T] /\ m[S] \in Int /\ m[T] \in Int /\ S \cup T \in SUBSET Places
    BY Zenon, <1>0, <1>3 DEF Measure
  <2>2. CASE q \in S
    BY <2>1, <2>2, <1>0, <1>1, <1>3
  <2>3. CASE q \in T
    BY <2>1, <2>3, <1>0, <1>1, <1>3
  <2>4. CASE q \notin S \cup T
    BY Zenon, <2>1, <2>4, <1>1
  <2> QED
    BY Zenon, <2>2, <2>3, <2>4
<1>4. ASSUME NEW p \in Places PROVE n[{p}] = g[p]
  <2>1. m[{p}] = f[p] /\ {p} \in SUBSET Places
    BY Zenon DEF Measure
  <2>2. CASE p = q
    BY <2>1, <2>2, <1>1, <1>2
  <2>3. CASE p # q
    BY Zenon, <2>1, <2>3, <1>1
  <2> QED
    BY Zenon, <2>2, <2>3
<1>5. ASSUME NEW S \in SUBSET Places, \A p \in S : g[p] = 0 PROVE n[S] = 0
  <2>1. CASE q \notin S
    BY <1>1, <1>5, <2>1 DEF Measure
  <2>2. CASE q \in S
    <3>1. m[S \ {q}] = 0
      <4>1. \A p \in S \ {q} : f[p] = 0
        BY Zenon, <1>5
      <4> QED
        BY Zenon, <4>1 DEF Measure
    <3>2. m[S] = m[S \ {q}] + m[{q}]
      <4> DEFINE T == S \ {q}
      <4>1. S = T \cup {q} /\ T \cap {q} = {} /\ T \in SUBSET Places /\ {q} \in SUBSET Places
        BY Zenon, <2>2
      <4> HIDE DEF T
      <4>2. m[T \cup {q}] = m[T] + m[{q}]
        BY Zenon, <4>1 DEF Measure
      <4> QED
        BY Zenon, <4>1, <4>2 DEF T
    <3>3. m[{q}] = f[q]
      BY Zenon DEF Measure
    <3> QED
      BY <1>1, <1>2, <1>5, <2>2, <3>1, <3>2, <3>3
  <2> QED
    BY Zenon, <2>1, <2>2
<1> QED
  BY Zenon, <1>1, <1>3, <1>4, <1>5 DEF Measure

\* A place becomes heavier, or no walk is under way.
LEMMA Heavier ==
  ASSUME NEW walks \in BOOLEAN, NEW total, NEW f \in [Places -> Int], NEW g \in [Places -> Int],
         NEW before \in Int, NEW result \in Int, NEW rest \in SUBSET Places,
         Weighs(walks, total, f, before, result, rest),
         NEW q \in Places, \A p \in Places \ {q} : g[p] = f[p],
         walks => f[q] <= g[q]
  PROVE  Weighs(walks, total + (g[q] - f[q]), g, before, result, rest)
<1>1. PICK m : /\ Measure(m, f)
               /\ m[Places] = total
               /\ walks => before <= result + m[rest] /\ result <= m[Places \ rest]
  BY Zenon DEF Weighs
<1> DEFINE n == [S \in SUBSET Places |-> m[S] + (IF q \in S THEN g[q] - f[q] ELSE 0)]
<1>2. Measure(n, g)
  BY <1>1, Reweighed
<1>3. /\ \A S \in SUBSET Places : m[S] \in Int
      /\ \A S \in SUBSET Places : n[S] = m[S] + (IF q \in S THEN g[q] - f[q] ELSE 0)
  BY Zenon, <1>1 DEF Measure
<1>4. n[Places] = total + (g[q] - f[q])
  BY Zenon, <1>1, <1>3
<1>5. ASSUME walks PROVE before <= result + n[rest] /\ result <= n[Places \ rest]
  <2>1. f[q] \in Int /\ g[q] \in Int /\ f[q] <= g[q] /\ m[rest] \in Int /\ m[Places \ rest] \in Int
    BY Zenon, <1>3, <1>5
  <2> HIDE DEF n
  <2>2. m[rest] <= n[rest] /\ n[rest] \in Int
    BY <1>3, <2>1
  <2>3. m[Places \ rest] <= n[Places \ rest] /\ n[Places \ rest] \in Int
    BY <1>3, <2>1
  <2> QED
    BY <1>1, <1>5, <2>1, <2>2, <2>3
<1> HIDE DEF n
<1> QED
  BY Zenon, <1>2, <1>4, <1>5 DEF Weighs

\* The walk begins; places outside of it weigh nothing.
LEMMA WalkBegins ==
  ASSUME NEW total, NEW f \in [Places -> Int], NEW before, NEW result, NEW r,
         Weighs(FALSE, total, f, before, result, r),
         NEW rest \in SUBSET Places, \A p \in Places \ rest : f[p] = 0
  PROVE  Weighs(TRUE, total, f, total, 0, rest)
<1>1. PICK m : Measure(m, f) /\ m[Places] = total
  BY Zenon DEF Weighs
<1>2. m[Places \ rest] = 0
  BY Zenon, <1>1 DEF Measure
<1>3. m[Places] = m[rest] + m[Places \ rest] /\ m[rest] \in Int
  <2>1. Places = rest \cup (Places \ rest) /\ rest \cap (Places \ rest) = {}
    BY Zenon
  <2> QED
    BY <1>1, <2>1 DEF Measure
<1>4. total <= 0 + m[rest] /\ 0 <= m[Places \ rest]
  BY <1>1, <1>2, <1>3
<1> QED
  BY Zenon, <1>1, <1>4 DEF Weighs

\* The walk has seen a place.
LEMMA WalkSees ==
  ASSUME NEW walks \in BOOLEAN, NEW total, NEW f \in [Places -> Int],
         NEW before \in Int, NEW result \in Int, NEW rest \in SUBSET Places,
         Weighs(walks, total, f, before, result, rest), NEW p \in rest
  PROVE  Weighs(walks, total, f, before, result + f[p], rest \ {p})
<1>1. PICK m : /\ Measure(m, f)
               /\ m[Places] = total
               /\ walks => before <= result + m[rest] /\ result <= m[Places \ rest]
  BY Zenon DEF Weighs
<1>2. /\ m[rest \ {p}] \in Int /\ m[Places \ rest] \in Int /\ m[rest] \in Int
      /\ m[Places \ (rest \ {p})] \in Int /\ f[p] \in Int
  BY Zenon, <1>1 DEF Measure
<1>3. m[rest] = m[rest \ {p}] + f[p]
  <2> DEFINE T == rest \ {p}
  <2>1. rest = T \cup {p} /\ T \cap {p} = {} /\ T \in SUBSET Places /\ {p} \in SUBSET Places
    BY Zenon
  <2> HIDE DEF T
  <2>2. m[T \cup {p}] = m[T] + m[{p}] /\ m[{p}] = f[p]
    BY Zenon, <1>1, <2>1 DEF Measure
  <2> QED
    BY Zenon, <2>1, <2>2 DEF T
<1>4. m[Places \ (rest \ {p})] = m[Places \ rest] + f[p]
  <2> DEFINE T == Places \ rest
  <2>1. /\ Places \ (rest \ {p}) = T \cup {p} /\ T \cap {p} = {}
        /\ T \in SUBSET Places /\ {p} \in SUBSET Places
    BY Zenon
  <2> HIDE DEF T
  <2>2. m[T \cup {p}] = m[T] + m[{p}] /\ m[{p}] = f[p]
    BY Zenon, <1>1, <2>1 DEF Measure
  <2> QED
    BY Zenon, <2>1, <2>2 DEF T
<1>5. walks => /\ before <= (result + f[p]) + m[rest \ {p}]
               /\ result + f[p] <= m[Places \ (rest \ {p})]
  BY <1>1, <1>2, <1>3, <1>4
<1> QED
  BY Zenon, <1>1, <1>5 DEF Weighs

\* No walk is under way.
LEMMA NoWalk ==
  ASSUME NEW walks, NEW total, NEW f, NEW before, NEW result, NEW rest,
         Weighs(walks, total, f, before, result, rest), NEW b, NEW r, NEW s
  PROVE  Weighs(FALSE, total, f, b, r, s)
BY Zenon DEF Weighs

\* At the end of the walk.
LEMMA WalkEnds ==
  ASSUME NEW total, NEW f, NEW before \in Int, NEW result \in Int,
         Weighs(TRUE, total, f, before, result, {})
  PROVE  before <= result /\ result <= total
<1>1. PICK m : /\ Measure(m, f) /\ m[Places] = total
               /\ before <= result + m[{}] /\ result <= m[Places \ {}]
  BY Zenon DEF Weighs
<1>2. m[{}] = 0
  BY Zenon, <1>1 DEF Measure
<1>3. Places \ {} = Places
  BY Zenon
<1> QED
  BY <1>1, <1>2, <1>3

-----------------------------------------------------------------------------
USE PlacesAssumption, AbsentAssumption, GaugesAssumption

LEMMA EntryFacts ==
  /\ newEntry \in Entry
  /\ noStats \in StatsMap
  /\ \A out \in Entry \cup {Absent}, in \in Entry \cup {Absent} :
       /\ aggregateKey(out, in) \in Entry \cup {Absent}
       /\ in = Absent => aggregateKey(out, in) = out
<1>1. newEntry \in Entry /\ noStats \in StatsMap
  BY Zenon DEF newEntry, Entry, noStats, StatsMap
<1>2. ASSUME NEW out \in Entry, NEW in \in Entry
      PROVE  aggregateEntry(out, in) \in Entry
  <2>1. \A m, n \in Nat : aggregateStat("SUM", m, n) \in Nat
    BY DEF aggregateStat
  <2>2. QED
    BY Zenon, <2>1 DEF aggregateEntry, Entry
<1>3. QED
  BY Zenon, <1>1, <1>2 DEF aggregateKey, Entry

LEMMA InitIInv == Init => IInv
<1> SUFFICES ASSUME Init PROVE IInv
  BY Zenon
<1>1. noAccess.kind = "none" /\ idle.kind = "none" /\ ~idle.found
  BY Zenon DEF noAccess, idle
<1>2. TypeOK
  BY EntryFacts DEF Init, TypeOK, noAccess, idle, StatsMap
<1>3. QED
  BY Zenon, <1>1, <1>2 DEF Init, IInv, UpdatesOwnTheirEntry, ListedHaveEntries, CopiesStayInPlace,
     ErasedOrPending, OwnersArePending, noAccess, noStats, Places

LEMMA FindStep ==
  ASSUME IInv, NEW t \in Threads, NEW kind \in {"add", "set", "series"}, NEW k \in Keys,
         find(t, kind, k)
  PROVE  IInv'
<1> USE DEF IInv, find, get, statsVars, history
<1>1. TypeOK'
  BY DEF TypeOK
<1>2. idle.kind = "none"
  BY Zenon DEF idle
<1>3. UpdatesOwnTheirEntry'
  <2>1. /\ op'[t].kind = kind /\ op'[t].key = k
        /\ op'[t].found = (stats[t][k] # Absent)
        /\ \A s \in Threads \ {t} : op'[s] = op[s]
    BY Zenon DEF TypeOK
  <2>2. registered \subseteq registered' /\ t \in registered' /\ stats' = stats
    BY Zenon
  <2>3. ASSUME NEW s \in Threads
        PROVE  /\ op'[s].kind = "none" => op'[s] = idle
               /\ op'[s] # idle => s \in registered' /\ op'[s].key \in Keys
               /\ op'[s].found => stats'[s][op'[s].key] # Absent
    <3>1. CASE s = t
      BY Zenon, <2>1, <2>2, <3>1
    <3>2. CASE s # t
      BY <2>1, <2>2, <3>2 DEF UpdatesOwnTheirEntry
    <3>3. QED
      BY Zenon, <3>1, <3>2
  <2>4. QED
    BY Zenon, <2>3 DEF UpdatesOwnTheirEntry
<1>4. ListedHaveEntries' /\ CopiesStayInPlace' /\ ErasedOrPending'
  BY DEF ListedHaveEntries, CopiesStayInPlace, ErasedOrPending, TypeOK
<1>5. OwnersArePending'
  BY Zenon DEF OwnersArePending, CopiesStayInPlace, TypeOK, noAccess
<1>6. QED
  BY Zenon, <1>1, <1>3, <1>4, <1>5

\* What the three kinds of updates have in common.
LEMMA StoreStep ==
  ASSUME IInv, NEW t \in Threads, NEW kind \in {"add", "set", "series"}, NEW entry \in Entry,
         store(t, kind, entry), added' \in [Keys -> Int]
  PROVE  IInv'
<1> USE DEF IInv, store
<1>0. /\ op[t] # idle /\ t \in registered /\ op[t].key \in Keys
      /\ entry # Absent
      /\ idle.kind = "none" /\ idle.found = FALSE /\ idle.key = Nobody
  BY DEF UpdatesOwnTheirEntry, idle, Entry
<1>1. TypeOK'
  BY Zenon, <1>0 DEF TypeOK, StatsMap, Places, idle
<1>2. \A p \in Places, k \in Keys :
        stats'[p][k] = IF p = t /\ k = op[t].key THEN entry ELSE stats[p][k]
  BY Zenon, <1>0 DEF TypeOK, StatsMap, Places
<1>3. UpdatesOwnTheirEntry'
  BY <1>0, <1>2 DEF UpdatesOwnTheirEntry, TypeOK, Places
<1>4. ListedHaveEntries'
  BY <1>0, <1>2 DEF ListedHaveEntries, Places
<1>5. CopiesStayInPlace'
  BY <1>0, <1>2 DEF CopiesStayInPlace, TypeOK, Places
<1>6. ErasedOrPending'
  BY <1>0, <1>2 DEF ErasedOrPending, TypeOK
<1>7. OwnersArePending'
  BY Zenon, <1>0 DEF OwnersArePending, TypeOK
<1>8. QED
  BY Zenon, <1>1, <1>3, <1>4, <1>5, <1>6, <1>7

LEMMA EntryOfType == ASSUME IInv, NEW t \in Threads, op[t] # idle PROVE entryOf(t) \in Entry
BY EntryFacts DEF entryOf, IInv, UpdatesOwnTheirEntry, TypeOK, StatsMap, Places

LEMMA UpdateStep ==
  ASSUME IInv, NEW t \in Threads,
         \/ PER_X_STAT_ADD(t)
         \/ \E v \in Gauges : PER_X_STAT_SET(t, v)
         \/ PER_X_TIME_SERIES_ADD(t)
  PROVE  IInv'
<1>1. op[t] # idle /\ op[t].key \in Keys /\ added \in [Keys -> Int]
  <2>1. op[t].kind \in {"add", "set", "series"}
    BY Zenon DEF PER_X_STAT_ADD, PER_X_STAT_SET, PER_X_TIME_SERIES_ADD, store
  <2>2. op[t] # idle
    BY <2>1 DEF idle
  <2>3. QED
    BY Zenon, <2>2 DEF IInv, UpdatesOwnTheirEntry, TypeOK
<1>2. entryOf(t) \in Entry
  BY Zenon, <1>1, EntryOfType
<1>3. CASE PER_X_STAT_ADD(t)
  <2>1. [entryOf(t) EXCEPT !.counter = @ + 1] \in Entry
    BY <1>2 DEF Entry
  <2>2. QED
    BY <1>1, <1>3, <2>1, StoreStep DEF PER_X_STAT_ADD
<1>4. ASSUME NEW v \in Gauges, PER_X_STAT_SET(t, v) PROVE IInv'
  <2>1. [entryOf(t) EXCEPT !.gauge = v] \in Entry
    BY Zenon, <1>2 DEF Entry
  <2>2. QED
    BY Zenon, <1>1, <1>4, <2>1, StoreStep DEF PER_X_STAT_SET
<1>5. CASE PER_X_TIME_SERIES_ADD(t)
  <2>1. [entryOf(t) EXCEPT !.series = @ + 1] \in Entry
    BY <1>2 DEF Entry
  <2>2. QED
    BY Zenon, <1>1, <1>5, <2>1, StoreStep DEF PER_X_TIME_SERIES_ADD
<1>6. QED
  BY Zenon, <1>3, <1>4, <1>5

LEMMA HistogramStep ==
  ASSUME IInv, NEW t \in Threads, server_histogram_add(t)
  PROVE  IInv'
<1> USE DEF IInv, server_histogram_add, get
<1>1. TypeOK'
  BY DEF TypeOK, Places
<1>2. UpdatesOwnTheirEntry' /\ ListedHaveEntries' /\ CopiesStayInPlace' /\ ErasedOrPending'
  BY Zenon DEF UpdatesOwnTheirEntry, ListedHaveEntries, CopiesStayInPlace, ErasedOrPending
<1>3. OwnersArePending'
  BY Zenon DEF OwnersArePending, CopiesStayInPlace, TypeOK, noAccess
<1>4. QED
  BY Zenon, <1>1, <1>2, <1>3

LEMMA ExitStep ==
  ASSUME IInv, NEW t \in Threads, exit(t)
  PROVE  IInv'
<1> USE DEF IInv, exit, history
<1>1. /\ stats' \in [Places -> StatsMap]
      /\ histogram' \in [Places -> Nat]
      /\ \A k \in Keys : stats'[t][k] = Absent
      /\ \A s \in Threads \ {t} : stats'[s] = stats[s]
      /\ \A k \in Keys : stats[Dead][k] = Absent /\ stats[t][k] = Absent => stats'[Dead][k] = Absent
  <2> DEFINE merged == [k \in Keys |-> aggregateKey(stats[Dead][k], stats[t][k])]
  <2>0. t # Dead /\ t \in Places /\ Dead \in Places
    BY Zenon DEF Places
  <2>1. merged \in StatsMap
    BY <2>0, EntryFacts DEF TypeOK, StatsMap
  <2>2. \A k \in Keys : stats[Dead][k] = Absent /\ stats[t][k] = Absent => merged[k] = Absent
    BY Zenon, <2>0, EntryFacts DEF TypeOK, StatsMap
  <2>3. noStats \in StatsMap /\ \A k \in Keys : noStats[k] = Absent
    BY Zenon, EntryFacts DEF noStats
  <2>4. histogram' \in [Places -> Nat]
    BY <2>0 DEF StatsWrapper_destructor, TypeOK
  <2>5. CASE t \in owner
    <3>1. stats' = [stats EXCEPT ![Dead] = merged, ![t] = noStats]
      BY Zenon, <2>5 DEF StatsWrapper_destructor
    <3> HIDE DEF merged
    <3>2. QED
      BY Zenon, <2>0, <2>1, <2>2, <2>3, <2>4, <3>1 DEF TypeOK, Places
  <2>6. CASE t \notin owner
    BY <2>0, <2>3, <2>4, <2>6 DEF StatsWrapper_destructor, TypeOK, Places
  <2>7. QED
    BY Zenon, <2>5, <2>6
<1>2. TypeOK'
  BY Zenon, <1>1 DEF TypeOK
<1>3. UpdatesOwnTheirEntry'
  BY <1>1 DEF UpdatesOwnTheirEntry, idle, TypeOK
<1>4. ListedHaveEntries'
  BY <1>1 DEF ListedHaveEntries
<1>5. CopiesStayInPlace'
  BY Zenon DEF CopiesStayInPlace, noAccess
<1>6. ErasedOrPending'
  <2>1. \A k \in erased, p \in Places : stats[p][k] = Absent
    BY Zenon DEF ErasedOrPending, noAccess
  <2>2. QED
    BY <1>1, <2>1 DEF ErasedOrPending, Places, TypeOK
<1>7. OwnersArePending'
  BY Zenon DEF OwnersArePending, noAccess, TypeOK
<1>8. QED
  BY Zenon, <1>2, <1>3, <1>4, <1>5, <1>6, <1>7

Access == [kind : {"none", "aggregate", "rates", "erase", "reset", "destroy"},
           key : Keys \cup {Nobody}, pending : SUBSET Places,
           at : Places \cup {Nobody}, todo : SUBSET Keys, result : StatsMap,
           samples : Nat, before : [Keys -> Int], sampledBefore : Int]

LEMMA BeginStep ==
  ASSUME IInv, NEW kind \in {"aggregate", "rates", "erase", "reset"}, NEW k \in Keys \cup {Nobody},
         kind = "erase" => k \in Keys,
         accessAllThreads(kind, k)
  PROVE  IInv'
<1> USE DEF IInv, accessAllThreads, statsVars
<1>1. /\ accessor' \in Access
      /\ accessor'.kind = kind /\ accessor'.key = k /\ accessor'.todo = {} /\ accessor'.at = Nobody
      /\ accessor'.pending = registered \cup {Dead}
  BY Zenon, EntryFacts DEF TypeOK, Access, noAccess, Places
<1>2. TypeOK'
  BY Zenon, <1>1 DEF TypeOK, Access
<1>3. UpdatesOwnTheirEntry' /\ ListedHaveEntries'
  BY Zenon DEF UpdatesOwnTheirEntry, ListedHaveEntries
<1>4. CopiesStayInPlace'
  BY Zenon, <1>1 DEF CopiesStayInPlace, noAccess
<1>5. ErasedOrPending'
  <2>1. \A x \in erased, p \in Places : stats[p][x] = Absent
    BY Zenon DEF ErasedOrPending, noAccess
  <2>2. QED
    BY <1>1, <2>1 DEF ErasedOrPending, ListedHaveEntries, Places, TypeOK
<1>6. OwnersArePending'
  BY Zenon, <1>1 DEF OwnersArePending
<1>7. QED
  BY Zenon, <1>2, <1>3, <1>4, <1>5, <1>6

\* Steps of a walk that only reads.
LEMMA ReadStep ==
  ASSUME IInv, UNCHANGED <<holder, registered, owner, stats, histogram, op, added, sampled, erased, ops>>,
         accessor.kind \in {"aggregate", "rates"},
         accessor' \in Access, accessor'.kind = accessor.kind,
         accessor'.todo # {} => accessor'.at \in Places,
         \A k \in accessor'.todo : stats[accessor'.at][k] # Absent
  PROVE  IInv'
<1> USE DEF IInv
<1>0. accessor'.kind # "none" /\ accessor' # noAccess /\ accessor # noAccess
  BY DEF noAccess
<1>1. TypeOK'
  BY Zenon DEF TypeOK, Access
<1>2. UpdatesOwnTheirEntry' /\ ListedHaveEntries'
  BY Zenon DEF UpdatesOwnTheirEntry, ListedHaveEntries
<1>3. CopiesStayInPlace'
  BY Zenon, <1>0 DEF CopiesStayInPlace
<1>4. ErasedOrPending'
  BY Zenon DEF ErasedOrPending
<1>5. OwnersArePending'
  BY Zenon, <1>0 DEF OwnersArePending
<1>6. QED
  BY Zenon, <1>1, <1>2, <1>3, <1>4, <1>5

LEMMA WalkStep ==
  ASSUME IInv,
         \/ \E p \in Places : synchronizedCopy(p)
         \/ \E k \in Keys : aggregateCompoundStats(k)
         \/ aggregateHistogram
         \/ \E k \in Keys : perXTimeSeriesGetall(k)
         \/ runForEach
  PROVE  IInv'
<1> USE DEF statsVars, history
<1>0. accessor \in Access /\ stats \in [Places -> StatsMap]
  BY Zenon DEF IInv, TypeOK, Access
<1>1. ASSUME NEW p \in Places, synchronizedCopy(p) PROVE IInv'
  <2>1. /\ accessor' \in Access /\ accessor'.kind = accessor.kind /\ accessor'.at = p
        /\ accessor'.todo = {k \in Keys : stats[p][k] # Absent}
    BY Zenon, <1>0, <1>1 DEF synchronizedCopy, Access
  <2>2. QED
    BY Zenon, <1>1, <2>1, ReadStep DEF synchronizedCopy
<1>2. ASSUME NEW k \in Keys, aggregateCompoundStats(k) PROVE IInv'
  <2>1. accessor.at \in Places /\ accessor.result[k] \in Entry \cup {Absent}
    BY Zenon, <1>0, <1>2 DEF IInv, CopiesStayInPlace, aggregateCompoundStats, Access, StatsMap
  <2>2. aggregateKey(accessor.result[k], stats[accessor.at][k]) \in Entry \cup {Absent}
    <3>1. stats[accessor.at][k] \in Entry \cup {Absent}
      BY Zenon, <1>0, <2>1 DEF StatsMap
    <3>2. QED
      BY Zenon, <2>1, <3>1, EntryFacts
  <2>3. /\ accessor' \in Access /\ accessor'.kind = accessor.kind /\ accessor'.at = accessor.at
        /\ accessor'.todo = accessor.todo \ {k}
    BY Zenon, <1>0, <1>2, <2>2 DEF aggregateCompoundStats, Access, StatsMap
  <2>4. QED
    BY Zenon, <1>2, <2>1, <2>3, ReadStep DEF aggregateCompoundStats, IInv, CopiesStayInPlace
<1>3. CASE aggregateHistogram
  <2>1. histogram[accessor.at] \in Nat
    BY Zenon, <1>0, <1>3 DEF aggregateHistogram, Access, IInv, TypeOK
  <2>2. accessor' \in Access /\ accessor'.kind = accessor.kind /\ accessor'.todo = {}
    <3>1. accessor.samples + histogram[accessor.at] \in Nat
      BY <1>0, <2>1 DEF Access
    <3>2. accessor.pending \ {accessor.at} \in SUBSET Places
      BY Zenon, <1>0 DEF Access
    <3>3. QED
      BY Zenon, <1>0, <1>3, <3>1, <3>2 DEF aggregateHistogram, Access
  <2>3. QED
    BY Zenon, <1>3, <2>2, ReadStep DEF aggregateHistogram
<1>4. ASSUME NEW k \in Keys, perXTimeSeriesGetall(k) PROVE IInv'
  <2> DEFINE series == stats[accessor.at][k].series
             wanted == series # 0 /\ accessor.key \in {Nobody, k}
             out == IF accessor.result[k] = Absent THEN newEntry ELSE accessor.result[k]
             value == IF wanted THEN [out EXCEPT !.series = @ + series] ELSE accessor.result[k]
  <2>1. accessor.at \in Places /\ stats[accessor.at][k] \in Entry
    <3>1. accessor.at \in Places /\ stats[accessor.at][k] # Absent
      BY Zenon, <1>4 DEF IInv, CopiesStayInPlace, perXTimeSeriesGetall
    <3>2. QED
      BY Zenon, <1>0, <3>1 DEF StatsMap
  <2>2. series \in Nat /\ out \in Entry /\ accessor.result[k] \in Entry \cup {Absent}
    BY <1>0, <2>1, EntryFacts DEF Access, StatsMap, Entry
  <2>3. value \in Entry \cup {Absent}
    BY <2>2 DEF Entry
  <2>4. accessor' = [accessor EXCEPT !.todo = @ \ {k}, !.result[k] = value]
    BY Zenon, <1>4 DEF perXTimeSeriesGetall
  <2> HIDE DEF value
  <2>5. /\ accessor' \in Access /\ accessor'.kind = accessor.kind /\ accessor'.at = accessor.at
        /\ accessor'.todo = accessor.todo \ {k}
    BY Zenon, <1>0, <2>3, <2>4 DEF Access, StatsMap
  <2>6. QED
    BY Zenon, <1>4, <2>1, <2>5, ReadStep DEF perXTimeSeriesGetall, IInv, CopiesStayInPlace
<1>5. CASE runForEach
  <2>1. accessor' \in Access /\ accessor'.kind = accessor.kind /\ accessor'.todo = {}
    BY Zenon, <1>0, <1>5 DEF runForEach, Access
  <2>2. QED
    BY Zenon, <1>5, <2>1, ReadStep DEF runForEach
<1>6. QED
  BY Zenon, <1>1, <1>2, <1>3, <1>4, <1>5

LEMMA EraseStep == ASSUME IInv, NEW p \in Places, perXStatsErase(p) PROVE IInv'
<1> USE DEF IInv, perXStatsErase, nextPlace, wlock
<1>0. /\ accessor.key \in Keys /\ accessor.at = Nobody /\ accessor.todo = {}
      /\ accessor \in Access
  BY Zenon DEF CopiesStayInPlace, TypeOK, Access, Places
<1>1. /\ stats' \in [Places -> StatsMap]
      /\ \A q \in Places, k \in Keys :
           stats'[q][k] = IF q = p /\ k = accessor.key THEN Absent ELSE stats[q][k]
  BY Zenon, <1>0 DEF TypeOK, StatsMap
<1>2. /\ accessor' \in Access /\ accessor'.pending = accessor.pending \ {p}
      /\ accessor'.kind = "erase" /\ accessor'.key = accessor.key
      /\ accessor'.at = accessor.at /\ accessor'.todo = accessor.todo
  BY Zenon, <1>0 DEF Access
<1>3. counterOf(p, accessor.key) \in Int
  BY <1>0 DEF counterOf, TypeOK, StatsMap, Entry
<1>4. TypeOK'
  <2>1. added' \in [Keys -> Int]
    BY <1>0, <1>3 DEF TypeOK
  <2>2. QED
    BY Zenon, <1>1, <1>2, <2>1 DEF TypeOK, Access
<1>5. UpdatesOwnTheirEntry'
  <2>1. \A t \in Threads : op[t].found => t # p /\ op[t] # idle
    BY DEF idle
  <2>2. QED
    BY Zenon, <1>1, <2>1 DEF UpdatesOwnTheirEntry, Places
<1>6. ListedHaveEntries'
  BY <1>0, <1>1 DEF ListedHaveEntries, Places
<1>7. CopiesStayInPlace'
  BY Zenon, <1>0, <1>2 DEF CopiesStayInPlace, noAccess
<1>8. ErasedOrPending'
  BY <1>0, <1>1, <1>2 DEF ErasedOrPending, TypeOK
<1>9. OwnersArePending'
  BY Zenon, <1>2 DEF OwnersArePending, CopiesStayInPlace
<1>10. QED
  BY Zenon, <1>4, <1>5, <1>6, <1>7, <1>8, <1>9

LEMMA ResetStep == ASSUME IInv, NEW p \in Places, reset(p) PROVE IInv'
<1> USE DEF IInv, reset, nextPlace, wlock
<1>0. accessor.at = Nobody /\ accessor.todo = {} /\ accessor \in Access
  BY Zenon DEF CopiesStayInPlace, TypeOK, Access, Places
<1>1. /\ stats' \in [Places -> StatsMap]
      /\ \A q \in Places, k \in Keys : stats'[q][k] = IF q = p THEN Absent ELSE stats[q][k]
  BY Zenon, EntryFacts DEF TypeOK, noStats
<1>2. /\ accessor' \in Access /\ accessor'.pending = accessor.pending \ {p}
      /\ accessor'.kind = "reset"
      /\ accessor'.at = accessor.at /\ accessor'.todo = accessor.todo
  BY Zenon, <1>0 DEF Access
<1>3. \A k \in Keys : counterOf(p, k) \in Int
  BY DEF counterOf, TypeOK, StatsMap, Entry
<1>4. TypeOK'
  <2>1. added' \in [Keys -> Int] /\ sampled' \in Int /\ histogram' \in [Places -> Nat]
    BY <1>3 DEF TypeOK
  <2>2. QED
    BY Zenon, <1>1, <1>2, <2>1 DEF TypeOK, Access
<1>5. UpdatesOwnTheirEntry'
  <2>1. \A t \in Threads : op[t].found => t # p /\ op[t] # idle
    BY DEF idle
  <2>2. QED
    BY Zenon, <1>1, <2>1 DEF UpdatesOwnTheirEntry, Places
<1>6. ListedHaveEntries'
  BY <1>1 DEF ListedHaveEntries, Places
<1>7. CopiesStayInPlace'
  BY <1>0, <1>2 DEF CopiesStayInPlace, noAccess
<1>8. ErasedOrPending'
  BY Zenon, <1>1, <1>2 DEF ErasedOrPending, TypeOK
<1>9. OwnersArePending'
  BY Zenon, <1>2 DEF OwnersArePending, CopiesStayInPlace
<1>10. QED
  BY Zenon, <1>4, <1>5, <1>6, <1>7, <1>8, <1>9

LEMMA ReleaseStep == ASSUME IInv, release \/ unlockDying PROVE IInv'
<1> USE DEF IInv, release, unlockDying, statsVars, history
<1>1. /\ accessor' = noAccess /\ accessor.pending = {} /\ accessor # noAccess
      /\ noAccess \in Access
      /\ noAccess.kind = "none" /\ noAccess.todo = {} /\ noAccess.at = Nobody
  BY EntryFacts DEF noAccess, Access
<1>2. TypeOK'
  BY Zenon, <1>1 DEF TypeOK, Access
<1>3. UpdatesOwnTheirEntry' /\ ListedHaveEntries' /\ CopiesStayInPlace'
  BY <1>1 DEF UpdatesOwnTheirEntry, ListedHaveEntries, CopiesStayInPlace
<1>4. ErasedOrPending'
  BY Zenon, <1>1 DEF ErasedOrPending
<1>5. OwnersArePending'
  BY Zenon, <1>1 DEF OwnersArePending, CopiesStayInPlace
<1>6. QED
  BY Zenon, <1>2, <1>3, <1>4, <1>5

LEMMA DestructionStep ==
  ASSUME IInv, destroy \/ (\E t \in Threads : unsetOwner(t)) \/ free
  PROVE  IInv'
<1> USE DEF IInv, statsVars, history
<1>1. CASE destroy
  <2>1. /\ accessor' \in Access /\ accessor'.kind = "destroy" /\ accessor'.pending = registered
        /\ accessor'.todo = {} /\ accessor'.at = Nobody /\ accessor' # noAccess
    BY Zenon, <1>1, EntryFacts DEF destroy, noAccess, Access, TypeOK, Places
  <2>2. TypeOK'
    BY Zenon, <1>1, <2>1 DEF destroy, TypeOK, Access
  <2>3. UpdatesOwnTheirEntry' /\ ListedHaveEntries' /\ CopiesStayInPlace'
    BY <1>1, <2>1 DEF destroy, UpdatesOwnTheirEntry, ListedHaveEntries, CopiesStayInPlace
  <2>4. ErasedOrPending'
    BY Zenon, <1>1 DEF destroy, ErasedOrPending, noAccess
  <2>5. OwnersArePending'
    BY Zenon, <1>1, <2>1 DEF destroy, OwnersArePending
  <2>6. QED
    BY Zenon, <2>2, <2>3, <2>4, <2>5
<1>2. ASSUME NEW t \in Threads, unsetOwner(t) PROVE IInv'
  <2>1. /\ accessor' \in Access /\ accessor'.kind = "destroy"
        /\ accessor'.pending = accessor.pending \ {t}
        /\ accessor'.todo = accessor.todo /\ accessor'.at = accessor.at
        /\ accessor # noAccess /\ accessor' # noAccess
    BY <1>2 DEF unsetOwner, noAccess, Access, TypeOK
  <2>2. TypeOK'
    BY Zenon, <1>2, <2>1 DEF unsetOwner, TypeOK, Access
  <2>3. UpdatesOwnTheirEntry' /\ ListedHaveEntries' /\ CopiesStayInPlace'
    BY Zenon, <1>2, <2>1 DEF unsetOwner, UpdatesOwnTheirEntry, ListedHaveEntries, CopiesStayInPlace
  <2>4. ErasedOrPending'
    BY Zenon, <1>2, <2>1 DEF unsetOwner, ErasedOrPending
  <2>5. OwnersArePending'
    BY Zenon, <1>2, <2>1 DEF unsetOwner, OwnersArePending
  <2>6. QED
    BY Zenon, <2>2, <2>3, <2>4, <2>5
<1>3. CASE free
  <2>1. /\ stats' \in [Places -> StatsMap]
        /\ \A p \in Places, k \in Keys : stats'[p][k] = Absent
    BY Zenon, <1>3, EntryFacts DEF free, noStats
  <2>2. TypeOK'
    BY Zenon, <1>3, <2>1 DEF free, TypeOK
  <2>3. UpdatesOwnTheirEntry'
    BY <1>3 DEF free, UpdatesOwnTheirEntry, OwnersArePending, idle, TypeOK
  <2>4. ListedHaveEntries' /\ CopiesStayInPlace' /\ ErasedOrPending'
    BY Zenon, <1>3, <2>1 DEF free, ListedHaveEntries, CopiesStayInPlace, ErasedOrPending, noAccess, Places, TypeOK
  <2>5. OwnersArePending'
    BY Zenon, <1>3 DEF free, OwnersArePending, noAccess
  <2>6. QED
    BY Zenon, <2>2, <2>3, <2>4, <2>5
<1>4. QED
  BY Zenon, <1>1, <1>2, <1>3

LEMMA StepIInv == IInv /\ [Next]_vars => IInv'
<1> SUFFICES ASSUME IInv, [Next]_vars PROVE IInv'
  BY Zenon
<1>1. ASSUME NEW t \in Threads, update(t) PROVE IInv'
  BY Zenon, <1>1, FindStep, UpdateStep, HistogramStep, ExitStep DEF update
<1>2. CASE access
  <2>1. ASSUME NEW kind \in {"aggregate", "rates", "reset"}, accessAllThreads(kind, Nobody) PROVE IInv'
    BY Zenon, <2>1, BeginStep
  <2>2. ASSUME NEW kind \in {"rates", "erase"}, NEW k \in Keys, accessAllThreads(kind, k) PROVE IInv'
    BY Zenon, <2>2, BeginStep
  <2>3. QED
    BY Zenon, <1>2, <2>1, <2>2, WalkStep, EraseStep, ResetStep, ReleaseStep DEF access
<1>3. CASE UNCHANGED vars
  BY <1>3 DEF vars, statsVars, history, IInv, TypeOK, UpdatesOwnTheirEntry, ListedHaveEntries,
     CopiesStayInPlace, ErasedOrPending, OwnersArePending
<1>4. CASE destruction
  BY Zenon, <1>3, <1>4, DestructionStep, ReleaseStep DEF destruction, gone
<1>5. QED
  BY Zenon, <1>1, <1>2, <1>3, <1>4 DEF Next

-----------------------------------------------------------------------------
\* The counters of a key at all places, and those a walk has still before it.
counters(k) == [p \in Places |-> counterOf(p, k)]
unread(k) ==
  IF accessor.at # Nobody /\ k \notin accessor.todo
  THEN accessor.pending \ {accessor.at} ELSE accessor.pending

aggregates == accessor.kind = "aggregate"

\* While the holder lives, what was added is what the places hold, for every key and for
\* the histograms, and a walk accounts for what it has passed and for what it has not.
SumInv ==
  /\ \A t \in Threads : op[t].kind # "none" /\ ~op[t].found => stats[t][op[t].key] = Absent
  /\ \A t \in Threads \ registered : histogram[t] = 0
  /\ accessor.at # Nobody => accessor.at \in accessor.pending
  /\ holder = "alive" =>
       /\ registered \subseteq owner
       /\ \A k \in Keys : Weighs(aggregates, added[k], counters(k), accessor.before[k],
                                 aggregated(k), unread(k))
       /\ Weighs(aggregates, sampled, histogram, accessor.sampledBefore, accessor.samples,
                 accessor.pending)

LEMMA SumTypes ==
  ASSUME IInv
  PROVE  /\ \A k \in Keys : /\ counters(k) \in [Places -> Int]
                            /\ \A p \in Places : counters(k)[p] = counterOf(p, k)
                            /\ accessor.before[k] \in Int /\ aggregated(k) \in Int
                            /\ unread(k) \in SUBSET Places /\ added[k] \in Int
         /\ histogram \in [Places -> Int]
         /\ accessor.sampledBefore \in Int /\ accessor.samples \in Int
         /\ accessor.pending \in SUBSET Places
         /\ aggregates \in BOOLEAN
         /\ sampled \in Int
<1> USE DEF IInv, TypeOK
<1>1. ASSUME NEW p \in Places, NEW k \in Keys PROVE counterOf(p, k) \in Int
  BY DEF counterOf, StatsMap, Entry
<1>2. ASSUME NEW k \in Keys PROVE aggregated(k) \in Int
  BY DEF aggregated, StatsMap, Entry
<1> QED
  BY <1>1, <1>2 DEF counters, unread, aggregates

LEMMA InitSum == Init => SumInv
<1> SUFFICES ASSUME Init PROVE SumInv
  BY Zenon
<1>1. ~aggregates /\ accessor.at = Nobody
  BY Zenon DEF Init, noAccess, aggregates
<1>2. aggregates = FALSE
  BY Zenon, <1>1 DEF aggregates
<1>3. ASSUME NEW k \in Keys
      PROVE  Weighs(aggregates, added[k], counters(k), accessor.before[k], aggregated(k), unread(k))
  <2>1. added[k] = 0 /\ \A p \in Places : counters(k)[p] = 0
    BY Zenon DEF Init, counters, counterOf, noStats
  <2> QED
    BY Zenon, <1>2, <2>1, Weightless
<1>4. Weighs(aggregates, sampled, histogram, accessor.sampledBefore, accessor.samples, accessor.pending)
  <2>1. sampled = 0 /\ \A p \in Places : histogram[p] = 0
    BY Zenon DEF Init
  <2> QED
    BY Zenon, <1>2, <2>1, Weightless
<1>5. /\ \A t \in Threads : op[t].kind = "none"
      /\ \A t \in Threads : histogram[t] = 0
      /\ registered \subseteq owner
  BY Zenon DEF Init, idle, Places
<1> QED
  BY Zenon, <1>1, <1>3, <1>4, <1>5 DEF SumInv

\* Where the counters and the walk stay as they are.
LEMMA SumsKept ==
  ASSUME UNCHANGED <<stats, histogram, accessor, added, sampled>>
  PROVE  /\ \A k \in Keys : /\ counters(k)' = counters(k) /\ aggregated(k)' = aggregated(k)
                            /\ unread(k)' = unread(k)
         /\ aggregates' = aggregates
BY Zenon DEF counters, counterOf, aggregated, unread, aggregates

LEMMA FindSum ==
  ASSUME IInv, SumInv, NEW t \in Threads, NEW kind \in {"add", "set", "series"}, NEW k \in Keys,
         find(t, kind, k)
  PROVE  SumInv'
<1> USE DEF find, get, statsVars, history
<1>1. \A x \in Threads : op'[x].kind # "none" /\ ~op'[x].found => stats'[x][op'[x].key] = Absent
  <2>1. op'[t].key = k /\ (op'[t].found <=> stats[t][k] # Absent) /\ \A s \in Threads \ {t} : op'[s] = op[s]
    BY Zenon DEF IInv, TypeOK
  <2> QED
    BY <2>1 DEF SumInv
<1>2. \A x \in Threads \ registered' : histogram'[x] = 0
  BY Zenon DEF SumInv
<1>3. registered \subseteq owner => registered' \subseteq owner'
  BY Zenon
<1>4. UNCHANGED <<stats, histogram, accessor, added, sampled, holder>>
  BY Zenon
<1> QED
  BY Zenon, <1>1, <1>2, <1>3, <1>4, SumsKept DEF SumInv

\* An entry is stored: only its counter matters.
LEMMA StoreSum ==
  ASSUME IInv, IInv', SumInv, NEW t \in Threads, NEW kind \in {"add", "set", "series"}, NEW entry \in Entry,
         store(t, kind, entry), NEW d \in Nat, entry.counter = entryOf(t).counter + d,
         \A k \in Keys : added'[k] = IF k = op[t].key THEN added[k] + d ELSE added[k]
  PROVE  SumInv'
<1> DEFINE key == op[t].key
<1>0. /\ key \in Keys /\ t \in registered /\ t \in Places
      /\ op[t] # idle /\ op[t].kind # "none"
  BY DEF IInv, UpdatesOwnTheirEntry, store, idle, Places
<1>1. \A p \in Places, k \in Keys :
        stats'[p][k] = IF p = t /\ k = key THEN entry ELSE stats[p][k]
  BY <1>0 DEF IInv, TypeOK, StatsMap, store
<1>2. counterOf(t, key) = entryOf(t).counter
  BY Zenon, <1>0 DEF counterOf, entryOf, SumInv, IInv, UpdatesOwnTheirEntry, newEntry
<1>3. entry # Absent
  BY Zenon DEF Entry
<1>4. \A p \in Places, k \in Keys :
        counterOf(p, k)' = IF p = t /\ k = key THEN counterOf(p, k) + d ELSE counterOf(p, k)
  BY <1>0, <1>1, <1>2, <1>3 DEF counterOf
<1>5. UNCHANGED <<holder, registered, owner, histogram, accessor, sampled>>
  BY Zenon DEF store
<1>6. aggregates' = aggregates /\ \A k \in Keys : aggregated(k)' = aggregated(k) /\ unread(k)' = unread(k)
  BY Zenon, <1>5 DEF aggregates, aggregated, unread
<1>7. /\ op'[t].kind = "none"
      /\ \A s \in Threads \ {t} : op'[s] = op[s] /\ stats'[s] = stats[s]
  <2>1. op' = [op EXCEPT ![t] = idle] /\ stats' = [stats EXCEPT ![t][op[t].key] = entry]
    BY Zenon DEF store
  <2>2. \A s \in Threads \ {t} : stats'[s] = stats[s]
    BY Zenon, <2>1 DEF IInv, TypeOK, Places
  <2>3. op'[t] = idle /\ \A s \in Threads \ {t} : op'[s] = op[s]
    BY <2>1 DEF IInv, TypeOK
  <2>4. idle.kind = "none"
    BY Zenon DEF idle
  <2> QED
    BY Zenon, <2>2, <2>3, <2>4
<1>8. \A s \in Threads : op'[s].kind # "none" /\ ~op'[s].found => stats'[s][op'[s].key] = Absent
  BY Zenon, <1>7 DEF SumInv
<1>9. ASSUME NEW k \in Keys, holder = "alive"
      PROVE  Weighs(aggregates', added'[k], counters(k)', accessor'.before[k], aggregated(k)', unread(k)')
  <2>1. Weighs(aggregates, added[k], counters(k), accessor.before[k], aggregated(k), unread(k))
    BY Zenon, <1>9 DEF SumInv
  <2>2. CASE k # key
    <3>1. added'[k] = added[k]
      BY Zenon, <2>2
    <3>2. counters(k)' = counters(k)
      BY Zenon, <1>4, <2>2 DEF counters
    <3> QED
      BY Zenon, <2>1, <3>1, <3>2, <1>5, <1>6
  <2>3. CASE k = key
    <3>1. /\ \A p \in Places \ {t} : counters(k)'[p] = counters(k)[p]
          /\ counters(k)'[t] = counters(k)[t] + d
          /\ counters(k)[t] \in Int
      <4>1. \A p \in Places : counters(k)'[p] = counterOf(p, k)' /\ counters(k)[p] = counterOf(p, k)
        BY Zenon DEF counters
      <4> QED
        BY <1>0, <1>4, <2>3, <4>1, SumTypes
    <3>2. counters(k) \in [Places -> Int] /\ counters(k)' \in [Places -> Int]
      <4>1. counters(k) \in [Places -> Int]
        BY Zenon, SumTypes
      <4>2. \A p \in Places : counters(k)'[p] \in Int
        BY <3>1, <4>1
      <4> QED
        BY Zenon, <4>1, <4>2 DEF counters
    <3>3. added'[k] = added[k] + (counters(k)'[t] - counters(k)[t])
      BY <2>3, <3>1, SumTypes
    <3>4. Weighs(aggregates, added[k] + (counters(k)'[t] - counters(k)[t]), counters(k)',
                 accessor.before[k], aggregated(k), unread(k))
      <4>1. /\ aggregates \in BOOLEAN /\ accessor.before[k] \in Int /\ aggregated(k) \in Int
            /\ unread(k) \in SUBSET Places
        BY Zenon, SumTypes
      <4>2. aggregates => counters(k)[t] <= counters(k)'[t]
        BY <3>1
      <4> QED
        BY Zenon, <1>0, <2>1, <3>1, <3>2, <4>1, <4>2, Heavier
    <3> QED
      BY Zenon, <3>3, <3>4, <1>5, <1>6
  <2> QED
    BY Zenon, <2>2, <2>3
<1> QED
  BY Zenon, <1>5, <1>6, <1>8, <1>9 DEF SumInv

LEMMA UpdateSum ==
  ASSUME IInv, IInv', SumInv, NEW t \in Threads,
         \/ PER_X_STAT_ADD(t)
         \/ \E v \in Gauges : PER_X_STAT_SET(t, v)
         \/ PER_X_TIME_SERIES_ADD(t)
  PROVE  SumInv'
<1>1. op[t] # idle /\ op[t].key \in Keys /\ added \in [Keys -> Int]
  <2>1. op[t].kind \in {"add", "set", "series"}
    BY Zenon DEF PER_X_STAT_ADD, PER_X_STAT_SET, PER_X_TIME_SERIES_ADD, store
  <2>2. op[t] # idle
    BY <2>1 DEF idle
  <2>3. QED
    BY Zenon, <2>2 DEF IInv, UpdatesOwnTheirEntry, TypeOK
<1>2. entryOf(t) \in Entry
  BY Zenon, <1>1, EntryOfType
<1>3. CASE PER_X_STAT_ADD(t)
  <2> DEFINE entry == [entryOf(t) EXCEPT !.counter = @ + 1]
  <2>1. entry \in Entry /\ entry.counter = entryOf(t).counter + 1
    BY <1>2 DEF Entry
  <2>2. store(t, "add", entry) /\ \A k \in Keys : added'[k] = IF k = op[t].key THEN added[k] + 1 ELSE added[k]
    BY Zenon, <1>1, <1>3 DEF PER_X_STAT_ADD
  <2> HIDE DEF entry
  <2>3. QED
    BY <2>1, <2>2, StoreSum
<1>4. ASSUME NEW v \in Gauges, PER_X_STAT_SET(t, v) PROVE SumInv'
  <2> DEFINE entry == [entryOf(t) EXCEPT !.gauge = v]
  <2>1. entry \in Entry /\ entry.counter = entryOf(t).counter + 0
    BY <1>2 DEF Entry
  <2>2. store(t, "set", entry) /\ \A k \in Keys : added'[k] = IF k = op[t].key THEN added[k] + 0 ELSE added[k]
    BY <1>1, <1>4 DEF PER_X_STAT_SET
  <2> HIDE DEF entry
  <2>3. QED
    BY <2>1, <2>2, StoreSum
<1>5. CASE PER_X_TIME_SERIES_ADD(t)
  <2> DEFINE entry == [entryOf(t) EXCEPT !.series = @ + 1]
  <2>1. entry \in Entry /\ entry.counter = entryOf(t).counter + 0
    BY <1>2 DEF Entry
  <2>2. store(t, "series", entry) /\ \A k \in Keys : added'[k] = IF k = op[t].key THEN added[k] + 0 ELSE added[k]
    BY <1>1, <1>5 DEF PER_X_TIME_SERIES_ADD
  <2> HIDE DEF entry
  <2>3. QED
    BY <2>1, <2>2, StoreSum
<1>6. QED
  BY Zenon, <1>3, <1>4, <1>5

LEMMA HistogramSum ==
  ASSUME IInv, IInv', SumInv, NEW t \in Threads, server_histogram_add(t)
  PROVE  SumInv'
<1>1. UNCHANGED <<holder, stats, op, accessor, added, erased>> /\ holder = "alive"
  BY Zenon DEF server_histogram_add, get
<1>2. /\ aggregates' = aggregates
      /\ \A k \in Keys : /\ aggregated(k)' = aggregated(k) /\ unread(k)' = unread(k)
                         /\ counters(k)' = counters(k)
  BY Zenon, <1>1 DEF aggregates, aggregated, unread, counters, counterOf
<1>3. t \in registered' /\ registered \subseteq registered' /\ t \in Places
  BY Zenon DEF server_histogram_add, get, Places
<1>4. /\ histogram' \in [Places -> Int] /\ histogram \in [Places -> Int]
      /\ \A p \in Places \ {t} : histogram'[p] = histogram[p]
      /\ histogram'[t] = histogram[t] + 1
  BY <1>3 DEF server_histogram_add, IInv, TypeOK
<1>5. \A s \in Threads \ registered' : histogram'[s] = 0
  BY Zenon, <1>3, <1>4 DEF SumInv, Places
<1>6. registered' \subseteq owner'
  BY Zenon, <1>1 DEF server_histogram_add, get, SumInv
<1>7. sampled' = sampled + (histogram'[t] - histogram[t])
  BY <1>3, <1>4, SumTypes DEF server_histogram_add
<1>8. Weighs(aggregates, sampled', histogram', accessor.sampledBefore, accessor.samples, accessor.pending)
  <2>1. Weighs(aggregates, sampled, histogram, accessor.sampledBefore, accessor.samples, accessor.pending)
    BY Zenon, <1>1 DEF SumInv
  <2>2. histogram[t] <= histogram'[t]
    BY <1>3, <1>4
  <2> QED
    BY Zenon, <1>3, <1>4, <1>7, <2>1, <2>2, SumTypes, Heavier
<1> QED
  BY Zenon, <1>1, <1>2, <1>5, <1>6, <1>8 DEF SumInv

\* What a thread has counted moves to dead_stats_.
LEMMA Moved ==
  ASSUME NEW total \in Int, NEW f \in [Places -> Int], NEW g \in [Places -> Int],
         NEW before \in Int, NEW result \in Int, NEW rest \in SUBSET Places,
         Weighs(FALSE, total, f, before, result, rest), NEW t \in Threads,
         \A s \in Threads \ {t} : g[s] = f[s], g[t] = 0, g[Dead] = f[Dead] + f[t]
  PROVE  Weighs(FALSE, total, g, before, result, rest)
<1> DEFINE h == [f EXCEPT ![t] = 0]
<1>0. t \in Places /\ Dead \in Places /\ t # Dead /\ f[t] \in Int /\ f[Dead] \in Int
  BY Zenon DEF Places
<1>1. h \in [Places -> Int] /\ h[t] = 0 /\ \A p \in Places \ {t} : h[p] = f[p]
  BY Zenon, <1>0
<1> HIDE DEF h
<1>2. Weighs(FALSE, total + (h[t] - f[t]), h, before, result, rest)
  BY Zenon, <1>0, <1>1, Heavier
<1>3. \A p \in Places \ {Dead} : g[p] = h[p]
  BY Zenon, <1>0, <1>1 DEF Places
<1>4. Weighs(FALSE, (total + (h[t] - f[t])) + (g[Dead] - h[Dead]), g, before, result, rest)
  BY Zenon, <1>0, <1>2, <1>1, <1>3, Heavier
<1>5. (total + (h[t] - f[t])) + (g[Dead] - h[Dead]) = total
  BY <1>0, <1>1
<1> QED
  BY Zenon, <1>4, <1>5

LEMMA ExitSum ==
  ASSUME IInv, IInv', SumInv, NEW t \in Threads, exit(t)
  PROVE  SumInv'
<1>1. /\ UNCHANGED <<holder, op, accessor, added, sampled>>
      /\ registered' = registered \ {t} /\ owner' = owner \ {t}
      /\ accessor = noAccess /\ op[t] = idle /\ t \in registered
  BY Zenon DEF exit, history
<1>2. t \in Places /\ Dead \in Places /\ t # Dead
  BY Zenon DEF Places
<1>3. /\ \A s \in Threads \ {t} : histogram'[s] = histogram[s] /\ stats'[s] = stats[s]
      /\ histogram'[t] = 0
  BY <1>2 DEF exit, StatsWrapper_destructor, IInv, TypeOK, Places
<1>4. \A s \in Threads : op'[s].kind # "none" /\ ~op'[s].found => stats'[s][op'[s].key] = Absent
  BY <1>1, <1>3 DEF SumInv, idle
<1>5. \A s \in Threads \ registered' : histogram'[s] = 0
  BY Zenon, <1>1, <1>3 DEF SumInv
<1>6. accessor'.at = Nobody /\ aggregates' = FALSE /\ aggregates = FALSE
  BY Zenon, <1>1 DEF noAccess, aggregates
<1>7. ASSUME holder = "alive"
      PROVE  /\ registered' \subseteq owner'
             /\ \A k \in Keys : Weighs(aggregates', added'[k], counters(k)', accessor'.before[k],
                                       aggregated(k)', unread(k)')
             /\ Weighs(aggregates', sampled', histogram', accessor'.sampledBefore, accessor'.samples,
                       accessor'.pending)
  <2>1. t \in owner /\ registered' \subseteq owner'
    BY Zenon, <1>1, <1>7 DEF SumInv
  <2>2. histogram'[Dead] = histogram[Dead] + histogram[t]
    BY Zenon, <1>2, <2>1 DEF exit, StatsWrapper_destructor, IInv, TypeOK
  <2>3. Weighs(aggregates', sampled', histogram', accessor'.sampledBefore, accessor'.samples, accessor'.pending)
    <3>1. histogram' \in [Places -> Int]
      BY DEF IInv, TypeOK
    <3>2. Weighs(FALSE, sampled, histogram, accessor.sampledBefore, accessor.samples, accessor.pending)
      BY Zenon, <1>6, <1>7 DEF SumInv
    <3> QED
      <4>1. /\ sampled \in Int /\ histogram \in [Places -> Int]
            /\ accessor.sampledBefore \in Int /\ accessor.samples \in Int
            /\ accessor.pending \in SUBSET Places
        BY Zenon, SumTypes
      <4>2. Weighs(FALSE, sampled, histogram', accessor.sampledBefore, accessor.samples, accessor.pending)
        BY Zenon, <1>3, <2>2, <3>1, <3>2, <4>1, Moved
      <4> QED
        BY Zenon, <1>1, <1>6, <4>2
  <2>4. ASSUME NEW k \in Keys
        PROVE  Weighs(aggregates', added'[k], counters(k)', accessor'.before[k], aggregated(k)', unread(k)')
    <3>1. stats'[Dead][k] = aggregateKey(stats[Dead][k], stats[t][k]) /\ stats'[t][k] = Absent
      BY <1>2, <2>1 DEF exit, StatsWrapper_destructor, IInv, TypeOK, noStats
    <3>2. counterOf(Dead, k)' = counterOf(Dead, k) + counterOf(t, k)
      <4>1. stats[Dead][k] \in Entry \cup {Absent} /\ stats[t][k] \in Entry \cup {Absent}
        BY <1>2 DEF IInv, TypeOK, StatsMap
      <4>2. CASE stats[t][k] = Absent
        <5>1. stats'[Dead][k] = stats[Dead][k] /\ counterOf(t, k) = 0
          BY Zenon, <3>1, <4>2 DEF aggregateKey, counterOf
        <5>2. counterOf(Dead, k)' = counterOf(Dead, k)
          BY Zenon, <5>1 DEF counterOf
        <5>3. counterOf(Dead, k) \in Int
          BY <1>2, SumTypes
        <5> QED
          BY <5>1, <5>2, <5>3
      <4>3. CASE stats[t][k] # Absent
        <5> DEFINE out == IF stats[Dead][k] = Absent THEN newEntry ELSE stats[Dead][k]
        <5>1. out \in Entry /\ out.counter = counterOf(Dead, k)
          BY Zenon, <4>1, EntryFacts DEF counterOf, newEntry
        <5>2. stats'[Dead][k] = aggregateEntry(out, stats[t][k])
          BY Zenon, <3>1, <4>3 DEF aggregateKey
        <5> HIDE DEF out
        <5>3. stats'[Dead][k].counter = out.counter + stats[t][k].counter
          BY Zenon, <5>1, <5>2 DEF aggregateEntry, aggregateStat, Entry
        <5>4. stats'[Dead][k] \in Entry
          <6>1. stats'[Dead][k] \in Entry \cup {Absent}
            BY <1>2 DEF IInv, TypeOK, StatsMap
          <6>2. aggregateEntry(out, stats[t][k]) \in Entry
            <7>1. \A m, n \in Nat : aggregateStat("SUM", m, n) \in Nat
              BY DEF aggregateStat
            <7> QED
              BY Zenon, <4>1, <4>3, <5>1, <7>1 DEF aggregateEntry, Entry
          <6> QED
            BY Zenon, <5>2, <6>2
        <5>5. stats'[Dead][k] # Absent
          BY Zenon, <5>4 DEF Entry
        <5> QED
          BY Zenon, <4>3, <5>1, <5>3, <5>5 DEF counterOf
      <4> QED
        BY Zenon, <4>2, <4>3
    <3>3. counterOf(t, k)' = 0 /\ \A s \in Threads \ {t} : counterOf(s, k)' = counterOf(s, k)
      BY Zenon, <1>3, <3>1 DEF counterOf
    <3>4. /\ counters(k)'[Dead] = counters(k)[Dead] + counters(k)[t]
          /\ counters(k)'[t] = 0
          /\ \A s \in Threads \ {t} : counters(k)'[s] = counters(k)[s]
      <4>1. \A p \in Places : counters(k)'[p] = counterOf(p, k)' /\ counters(k)[p] = counterOf(p, k)
        BY Zenon DEF counters
      <4> QED
        BY Zenon, <1>2, <3>2, <3>3, <4>1 DEF Places
    <3>5. counters(k)' \in [Places -> Int] /\ counters(k) \in [Places -> Int]
      <4>1. counters(k) \in [Places -> Int]
        BY Zenon, SumTypes
      <4>2. \A p \in Places : counters(k)'[p] \in Int
        BY <1>2, <3>4, <4>1 DEF Places
      <4> QED
        BY Zenon, <4>1, <4>2 DEF counters
    <3>6. Weighs(FALSE, added[k], counters(k), accessor.before[k], aggregated(k), unread(k))
      BY Zenon, <1>6, <1>7 DEF SumInv
    <3>7. Weighs(FALSE, added[k], counters(k)', accessor.before[k], aggregated(k), unread(k))
      BY Zenon, <3>4, <3>5, <3>6, SumTypes, Moved
    <3>8. aggregated(k)' = aggregated(k) /\ unread(k)' = unread(k) /\ added' = added /\ accessor' = accessor
      BY Zenon, <1>1 DEF aggregated, unread
    <3> QED
      BY Zenon, <1>6, <3>7, <3>8
  <2> QED
    BY Zenon, <2>1, <2>3, <2>4
<1> QED
  BY Zenon, <1>1, <1>4, <1>5, <1>6, <1>7 DEF SumInv

\* No walk sums up after the step, and what is counted stays.
LEMMA StillSum ==
  ASSUME SumInv, UNCHANGED <<stats, histogram, op, registered, owner, holder, added, sampled>>,
         aggregates' = FALSE,
         accessor'.at # Nobody => accessor'.at \in accessor'.pending
  PROVE  SumInv'
<1>1. \A k \in Keys : counters(k)' = counters(k)
  BY Zenon DEF counters, counterOf
<1>2. ASSUME NEW k \in Keys, holder = "alive"
      PROVE  Weighs(aggregates', added'[k], counters(k)', accessor'.before[k], aggregated(k)', unread(k)')
  <2>1. Weighs(aggregates, added[k], counters(k), accessor.before[k], aggregated(k), unread(k))
    BY Zenon, <1>2 DEF SumInv
  <2>2. Weighs(FALSE, added[k], counters(k), accessor'.before[k], aggregated(k)', unread(k)')
    BY Zenon, <2>1, NoWalk
  <2> QED
    BY Zenon, <1>1, <2>2
<1>3. ASSUME holder = "alive"
      PROVE  Weighs(aggregates', sampled', histogram', accessor'.sampledBefore, accessor'.samples, accessor'.pending)
  <2>1. Weighs(aggregates, sampled, histogram, accessor.sampledBefore, accessor.samples, accessor.pending)
    BY Zenon, <1>3 DEF SumInv
  <2>2. Weighs(FALSE, sampled, histogram, accessor'.sampledBefore, accessor'.samples, accessor'.pending)
    BY Zenon, <2>1, NoWalk
  <2> QED
    BY Zenon, <2>2
<1> QED
  BY Zenon, <1>2, <1>3 DEF SumInv

LEMMA BeginSum ==
  ASSUME IInv, SumInv, NEW kind \in {"aggregate", "rates", "erase", "reset"},
         NEW k \in Keys \cup {Nobody}, accessAllThreads(kind, k)
  PROVE  SumInv'
<1>1. /\ UNCHANGED <<stats, histogram, op, registered, owner, holder, added, sampled>>
      /\ holder = "alive" /\ accessor = noAccess
  BY Zenon DEF accessAllThreads, statsVars
<1>2. /\ accessor'.kind = kind /\ accessor'.at = Nobody /\ accessor'.pending = registered \cup {Dead}
      /\ accessor'.before = added /\ accessor'.sampledBefore = sampled
      /\ accessor'.result = noStats /\ accessor'.samples = 0
  BY Zenon DEF accessAllThreads, noAccess
<1>3. CASE kind # "aggregate"
  <2>1. aggregates' = FALSE
    BY Zenon, <1>2, <1>3 DEF aggregates
  <2> QED
    BY Zenon, <1>1, <1>2, <2>1, StillSum
<1>4. CASE kind = "aggregate"
  <2>1. aggregates' = TRUE /\ aggregates = FALSE
    BY Zenon, <1>1, <1>2, <1>4 DEF aggregates, noAccess
  <2>2. registered \cup {Dead} \in SUBSET Places
    BY Zenon DEF IInv, TypeOK, Places
  <2>3. ASSUME NEW x \in Keys
        PROVE  Weighs(aggregates', added'[x], counters(x)', accessor'.before[x], aggregated(x)', unread(x)')
    <3>1. Weighs(FALSE, added[x], counters(x), accessor.before[x], aggregated(x), unread(x))
      BY Zenon, <1>1, <2>1 DEF SumInv
    <3>2. \A p \in Places \ (registered \cup {Dead}) : counters(x)[p] = 0
      BY Zenon DEF IInv, ListedHaveEntries, counters, counterOf, Places
    <3>3. Weighs(TRUE, added[x], counters(x), added[x], 0, registered \cup {Dead})
      BY Zenon, <2>2, <3>1, <3>2, SumTypes, WalkBegins
    <3>4. counters(x)' = counters(x)
      BY Zenon, <1>1 DEF counters, counterOf
    <3>5. aggregated(x)' = 0 /\ unread(x)' = registered \cup {Dead}
      BY Zenon, <1>2 DEF aggregated, unread, noStats
    <3> QED
      BY Zenon, <1>1, <1>2, <2>1, <3>3, <3>4, <3>5
  <2>4. Weighs(aggregates', sampled', histogram', accessor'.sampledBefore, accessor'.samples, accessor'.pending)
    <3>1. Weighs(FALSE, sampled, histogram, accessor.sampledBefore, accessor.samples, accessor.pending)
      BY Zenon, <1>1, <2>1 DEF SumInv
    <3>2. \A p \in Places \ (registered \cup {Dead}) : histogram[p] = 0
      BY Zenon DEF SumInv, Places
    <3>3. Weighs(TRUE, sampled, histogram, sampled, 0, registered \cup {Dead})
      BY Zenon, <2>2, <3>1, <3>2, SumTypes, WalkBegins
    <3> QED
      BY Zenon, <1>1, <1>2, <2>1, <3>3
  <2> QED
    BY Zenon, <1>1, <1>2, <2>3, <2>4 DEF SumInv
<1> QED
  BY Zenon, <1>3, <1>4

\* What a place counts of a key is added to the result.
LEMMA AggregatedSum ==
  ASSUME NEW out \in Entry \cup {Absent}, NEW in \in Entry
  PROVE  LET sum == aggregateKey(out, in)
         IN sum # Absent /\ sum.counter = (IF out = Absent THEN 0 ELSE out.counter) + in.counter
<1> DEFINE base == IF out = Absent THEN newEntry ELSE out
<1>1. base \in Entry /\ base.counter = IF out = Absent THEN 0 ELSE out.counter
  BY Zenon, EntryFacts DEF newEntry
<1>2. aggregateKey(out, in) = aggregateEntry(base, in)
  BY Zenon DEF aggregateKey, Entry
<1> HIDE DEF base
<1>3. \A m, n \in Nat : aggregateStat("SUM", m, n) = m + n
  BY Zenon DEF aggregateStat
<1>4. aggregateEntry(base, in) \in Entry /\ aggregateEntry(base, in).counter = base.counter + in.counter
  <2>1. /\ base.counter \in Nat /\ in.counter \in Nat /\ base.gauge \in Nat /\ in.gauge \in Nat
    BY Zenon, <1>1 DEF Entry
  <2>2. aggregateEntry(base, in) = [base EXCEPT !.counter = base.counter + in.counter,
                                                !.gauge = base.gauge + in.gauge]
    BY Zenon, <1>3, <2>1 DEF aggregateEntry
  <2>3. base = [counter |-> base.counter, gauge |-> base.gauge, series |-> base.series]
        /\ base.series \in Nat
    BY Zenon, <1>1 DEF Entry
  <2>4. aggregateEntry(base, in) = [counter |-> base.counter + in.counter,
                                    gauge |-> base.gauge + in.gauge, series |-> base.series]
    BY Zenon, <2>2, <2>3
  <2>5. base.counter + in.counter \in Nat /\ base.gauge + in.gauge \in Nat
    BY <2>1
  <2> QED
    BY <2>3, <2>4, <2>5 DEF Entry
<1>5. aggregateEntry(base, in) # Absent
  BY Zenon, <1>4 DEF Entry
<1> QED
  BY Zenon, <1>1, <1>2, <1>4, <1>5

LEMMA WalkSum ==
  ASSUME IInv, IInv', SumInv,
         \/ \E p \in Places : synchronizedCopy(p)
         \/ \E k \in Keys : aggregateCompoundStats(k)
         \/ aggregateHistogram
         \/ \E k \in Keys : perXTimeSeriesGetall(k)
         \/ runForEach
  PROVE  SumInv'
<1>0. /\ UNCHANGED <<stats, histogram, op, registered, owner, holder, added, sampled>>
      /\ accessor \in Access /\ aggregates' = aggregates
      /\ \A k \in Keys : counters(k)' = counters(k)
      /\ aggregates \in BOOLEAN
  <2>1. UNCHANGED <<stats, histogram, op, registered, owner, holder, added, sampled>>
    BY Zenon DEF statsVars, history, synchronizedCopy, aggregateCompoundStats, aggregateHistogram,
       perXTimeSeriesGetall, runForEach
  <2>2. accessor \in Access
    BY Zenon DEF IInv, TypeOK, Access
  <2>3. accessor'.kind = accessor.kind
    BY Zenon, <2>2 DEF synchronizedCopy, aggregateCompoundStats, aggregateHistogram,
       perXTimeSeriesGetall, runForEach, Access
  <2> QED
    BY Zenon, <2>1, <2>2, <2>3 DEF aggregates, counters, counterOf
<1>1. ASSUME NEW p \in Places, synchronizedCopy(p) PROVE SumInv'
  <2>1. /\ accessor.at = Nobody /\ p \in accessor.pending /\ p # Nobody
        /\ accessor' = [accessor EXCEPT !.at = p, !.todo = {k \in Keys : stats[p][k] # Absent}]
    BY Zenon, <1>1 DEF synchronizedCopy, nextPlace, Places
  <2>2. /\ accessor'.at = p /\ accessor'.todo = {k \in Keys : stats[p][k] # Absent}
        /\ accessor'.pending = accessor.pending /\ accessor'.result = accessor.result
        /\ accessor'.before = accessor.before /\ accessor'.samples = accessor.samples
        /\ accessor'.sampledBefore = accessor.sampledBefore
    BY Zenon, <1>0, <2>1 DEF Access
  <2>3. ASSUME NEW k \in Keys, holder = "alive"
        PROVE  Weighs(aggregates', added'[k], counters(k)', accessor'.before[k], aggregated(k)', unread(k)')
    <3>1. /\ Weighs(aggregates, added[k], counters(k), accessor.before[k], aggregated(k), unread(k))
          /\ unread(k) = accessor.pending
      BY Zenon, <2>1, <2>3 DEF SumInv, unread
    <3>2. aggregated(k)' = aggregated(k)
      BY Zenon, <2>2 DEF aggregated
    <3>3. CASE stats[p][k] # Absent
      <4>1. unread(k)' = unread(k)
        BY Zenon, <2>2, <3>1, <3>3 DEF unread
      <4> QED
        BY Zenon, <1>0, <2>2, <3>1, <3>2, <4>1
    <3>4. CASE stats[p][k] = Absent
      <4>1. unread(k)' = unread(k) \ {p}
        BY Zenon, <2>1, <2>2, <3>1, <3>4 DEF unread
      <4>2. counters(k)[p] = 0
        BY Zenon, <3>4 DEF counters, counterOf
      <4>3. Weighs(aggregates, added[k], counters(k), accessor.before[k], aggregated(k) + counters(k)[p],
                   unread(k) \ {p})
        BY Zenon, <2>1, <3>1, SumTypes, WalkSees
      <4>4. aggregated(k) + counters(k)[p] = aggregated(k)
        BY <4>2, SumTypes
      <4> QED
        BY Zenon, <1>0, <2>2, <3>2, <4>1, <4>3, <4>4
    <3> QED
      BY Zenon, <3>3, <3>4
  <2> QED
    BY Zenon, <1>0, <2>1, <2>2, <2>3 DEF SumInv
<1>2. ASSUME NEW k \in Keys, aggregateCompoundStats(k) PROVE SumInv'
  <2>1. /\ accessor.at \in Places /\ accessor.at # Nobody /\ k \in accessor.todo
        /\ accessor.at \in accessor.pending
        /\ accessor.result[k] \in Entry \cup {Absent}
        /\ stats[accessor.at][k] \in Entry
    <3>1. k \in accessor.todo
      BY Zenon, <1>2 DEF aggregateCompoundStats
    <3>2. accessor.at \in Places /\ stats[accessor.at][k] # Absent
      BY Zenon, <3>1 DEF IInv, CopiesStayInPlace
    <3> QED
      BY <1>0, <3>1, <3>2 DEF SumInv, Places, Access, StatsMap, IInv, TypeOK
  <2> DEFINE sum == aggregateKey(accessor.result[k], stats[accessor.at][k])
  <2>2. /\ accessor'.at = accessor.at /\ accessor'.todo = accessor.todo \ {k}
        /\ accessor'.pending = accessor.pending
        /\ accessor'.before = accessor.before /\ accessor'.samples = accessor.samples
        /\ accessor'.sampledBefore = accessor.sampledBefore
    BY Zenon, <1>0, <1>2 DEF Access, aggregateCompoundStats
  <2>3. accessor'.result[k] = sum /\ \A x \in Keys \ {k} : accessor'.result[x] = accessor.result[x]
    BY Zenon, <1>0, <1>2 DEF Access, aggregateCompoundStats, StatsMap
  <2>4. aggregated(k)' = aggregated(k) + counters(k)[accessor.at]
    <3>1. stats[accessor.at][k] # Absent
      BY Zenon, <2>1 DEF Entry
    <3>2. counters(k)[accessor.at] = stats[accessor.at][k].counter
      BY Zenon, <2>1, <3>1 DEF counters, counterOf
    <3> QED
      BY <2>1, <2>3, <3>2, AggregatedSum DEF aggregated
  <2> HIDE DEF sum
  <2>5. ASSUME NEW x \in Keys, holder = "alive"
        PROVE  Weighs(aggregates', added'[x], counters(x)', accessor'.before[x], aggregated(x)', unread(x)')
    <3>1. Weighs(aggregates, added[x], counters(x), accessor.before[x], aggregated(x), unread(x))
      BY Zenon, <2>5 DEF SumInv
    <3>2. CASE x # k
      <4>1. aggregated(x)' = aggregated(x) /\ unread(x)' = unread(x)
        BY Zenon, <2>2, <2>3, <3>2 DEF aggregated, unread
      <4> QED
        BY Zenon, <1>0, <2>2, <3>1, <4>1
    <3>3. CASE x = k
      <4>1. unread(k) = accessor.pending /\ unread(k)' = accessor.pending \ {accessor.at}
        BY Zenon, <2>1, <2>2 DEF unread
      <4>2. Weighs(aggregates, added[k], counters(k), accessor.before[k],
                   aggregated(k) + counters(k)[accessor.at], unread(k) \ {accessor.at})
        BY Zenon, <2>1, <3>1, <3>3, <4>1, SumTypes, WalkSees
      <4> QED
        BY Zenon, <1>0, <2>2, <2>4, <3>3, <4>1, <4>2
    <3> QED
      BY Zenon, <3>2, <3>3
  <2> QED
    BY Zenon, <1>0, <2>1, <2>2, <2>5 DEF SumInv
<1>3. CASE aggregateHistogram
  <2>1. /\ accessor.at # Nobody /\ accessor.at \in accessor.pending /\ accessor.todo = {}
        /\ accessor'.at = Nobody /\ accessor'.pending = accessor.pending \ {accessor.at}
        /\ accessor'.result = accessor.result
        /\ accessor'.before = accessor.before /\ accessor'.samples = accessor.samples + histogram[accessor.at]
        /\ accessor'.sampledBefore = accessor.sampledBefore
    BY Zenon, <1>0, <1>3 DEF aggregateHistogram, SumInv, Access
  <2>2. \A k \in Keys : unread(k)' = unread(k) /\ aggregated(k)' = aggregated(k)
    BY Zenon, <2>1 DEF unread, aggregated
  <2>3. ASSUME holder = "alive"
        PROVE  Weighs(aggregates', sampled', histogram', accessor'.sampledBefore, accessor'.samples, accessor'.pending)
    <3>1. Weighs(aggregates, sampled, histogram, accessor.sampledBefore, accessor.samples, accessor.pending)
      BY Zenon, <2>3 DEF SumInv
    <3>2. Weighs(aggregates, sampled, histogram, accessor.sampledBefore,
                 accessor.samples + histogram[accessor.at], accessor.pending \ {accessor.at})
      BY Zenon, <2>1, <3>1, SumTypes, WalkSees
    <3> QED
      BY Zenon, <1>0, <2>1, <3>2
  <2> QED
    BY Zenon, <1>0, <2>1, <2>2, <2>3 DEF SumInv
<1>4. ASSUME NEW k \in Keys, perXTimeSeriesGetall(k) PROVE SumInv'
  <2>1. aggregates' = FALSE
    BY Zenon, <1>0, <1>4 DEF aggregates, perXTimeSeriesGetall
  <2>2. accessor'.at = accessor.at /\ accessor'.pending = accessor.pending
    BY Zenon, <1>0, <1>4 DEF perXTimeSeriesGetall, Access
  <2> QED
    BY Zenon, <1>0, <2>1, <2>2, StillSum DEF SumInv
<1>5. CASE runForEach
  <2>1. aggregates' = FALSE
    BY Zenon, <1>0, <1>5 DEF aggregates, runForEach
  <2>2. accessor'.at = Nobody
    BY Zenon, <1>0, <1>5 DEF runForEach, Access
  <2> QED
    BY Zenon, <1>0, <2>1, <2>2, StillSum
<1> QED
  BY Zenon, <1>1, <1>2, <1>3, <1>4, <1>5

\* A place is emptied of some keys.
LEMMA EmptySum ==
  ASSUME IInv, IInv', SumInv, NEW p \in Places, perXStatsErase(p) \/ reset(p)
  PROVE  SumInv'
<1>1. /\ UNCHANGED <<op, registered, owner, holder>>
      /\ accessor.at = Nobody /\ accessor'.at = Nobody
      /\ aggregates = FALSE /\ aggregates' = FALSE
  <2>1. accessor \in Access
    BY Zenon DEF IInv, TypeOK, Access
  <2>2. accessor'.at = accessor.at /\ accessor'.kind = accessor.kind
    BY Zenon, <2>1 DEF perXStatsErase, reset, Access
  <2> QED
    BY Zenon, <2>2 DEF perXStatsErase, reset, nextPlace, aggregates
<1>2. p \in Threads => op[p] = idle
  BY Zenon DEF perXStatsErase, reset, wlock
<1>3. /\ \A q \in Places \ {p}, k \in Keys : stats'[q][k] = stats[q][k]
      /\ \A k \in Keys : \/ stats'[p][k] = stats[p][k] /\ added'[k] = added[k]
                         \/ stats'[p][k] = Absent /\ added'[k] = added[k] - counterOf(p, k)
  <2>1. CASE perXStatsErase(p)
    <3>1. accessor.key \in Keys
      BY Zenon, <2>1 DEF perXStatsErase, IInv, CopiesStayInPlace
    <3>2. \A q \in Places, k \in Keys :
            stats'[q][k] = IF q = p /\ k = accessor.key THEN Absent ELSE stats[q][k]
      BY <2>1, <3>1 DEF perXStatsErase, IInv, TypeOK, StatsMap
    <3>3. \A k \in Keys : added'[k] = IF k = accessor.key THEN added[k] - counterOf(p, k) ELSE added[k]
      BY Zenon, <2>1, <3>1 DEF perXStatsErase, IInv, TypeOK
    <3> QED
      BY Zenon, <3>2, <3>3
  <2>2. CASE reset(p)
    BY Zenon, <2>2 DEF reset, IInv, TypeOK, noStats
  <2> QED
    BY Zenon, <2>1, <2>2
<1>4. /\ \A q \in Places \ {p} : histogram'[q] = histogram[q]
      /\ \/ histogram'[p] = histogram[p] /\ sampled' = sampled
         \/ histogram'[p] = 0 /\ sampled' = sampled - histogram[p]
      /\ histogram' \in [Places -> Int]
  <2>1. histogram' \in [Places -> Int]
    BY DEF IInv, TypeOK
  <2> QED
    BY <2>1 DEF perXStatsErase, reset, IInv, TypeOK
<1>5. \A s \in Threads : op'[s].kind # "none" /\ ~op'[s].found => stats'[s][op'[s].key] = Absent
  <2>1. ASSUME NEW s \in Threads, op[s].kind # "none", ~op[s].found PROVE stats'[s][op[s].key] = Absent
    <3>1. op[s] # idle /\ op[s].key \in Keys /\ s \in Places
      BY <2>1 DEF idle, IInv, UpdatesOwnTheirEntry, Places
    <3>2. stats[s][op[s].key] = Absent
      BY Zenon, <2>1 DEF SumInv
    <3> QED
      BY Zenon, <1>2, <1>3, <3>1, <3>2
  <2> QED
    BY Zenon, <1>1, <2>1
<1>6. \A s \in Threads \ registered' : histogram'[s] = 0
  BY Zenon, <1>1, <1>4 DEF SumInv, Places
<1>7. ASSUME NEW k \in Keys, holder = "alive"
      PROVE  Weighs(aggregates', added'[k], counters(k)', accessor'.before[k], aggregated(k)', unread(k)')
  <2>1. Weighs(FALSE, added[k], counters(k), accessor.before[k], aggregated(k), unread(k))
    BY Zenon, <1>1, <1>7 DEF SumInv
  <2>2. \A q \in Places \ {p} : counters(k)'[q] = counters(k)[q]
    BY Zenon, <1>3 DEF counters, counterOf
  <2>3. counters(k)[p] \in Int /\ counters(k)'[p] \in Int
    BY <1>3, SumTypes DEF counters, counterOf
  <2>4. counters(k) \in [Places -> Int] /\ counters(k)' \in [Places -> Int]
    <3>1. counters(k) \in [Places -> Int]
      BY Zenon, SumTypes
    <3>2. \A q \in Places : counters(k)'[q] \in Int
      BY Zenon, <2>2, <2>3, <3>1
    <3> QED
      BY Zenon, <3>1, <3>2 DEF counters
  <2>5. added'[k] = added[k] + (counters(k)'[p] - counters(k)[p])
    <3>1. counters(k)[p] = counterOf(p, k) /\ added[k] \in Int
      BY Zenon, SumTypes
    <3>2. stats'[p][k] = Absent => counters(k)'[p] = 0
      BY Zenon DEF counters, counterOf
    <3>3. stats'[p][k] = stats[p][k] => counters(k)'[p] = counters(k)[p]
      BY Zenon DEF counters, counterOf
    <3> QED
      BY <1>3, <2>3, <3>1, <3>2, <3>3
  <2>6. Weighs(FALSE, added'[k], counters(k)', accessor.before[k], aggregated(k), unread(k))
    <3>1. /\ accessor.before[k] \in Int /\ aggregated(k) \in Int /\ unread(k) \in SUBSET Places
      BY Zenon, SumTypes
    <3>2. Weighs(FALSE, added[k] + (counters(k)'[p] - counters(k)[p]), counters(k)', accessor.before[k],
                 aggregated(k), unread(k))
      BY Zenon, <2>1, <2>2, <2>4, <3>1, Heavier
    <3> QED
      BY Zenon, <2>5, <3>2
  <2>7. Weighs(FALSE, added'[k], counters(k)', accessor'.before[k], aggregated(k)', unread(k)')
    BY Zenon, <2>6, NoWalk
  <2> QED
    BY Zenon, <1>1, <2>7
<1>8. ASSUME holder = "alive"
      PROVE  Weighs(aggregates', sampled', histogram', accessor'.sampledBefore, accessor'.samples, accessor'.pending)
  <2>1. Weighs(FALSE, sampled, histogram, accessor.sampledBefore, accessor.samples, accessor.pending)
    BY Zenon, <1>1, <1>8 DEF SumInv
  <2>2. sampled' = sampled + (histogram'[p] - histogram[p])
    BY <1>4, SumTypes
  <2>3. Weighs(FALSE, sampled', histogram', accessor.sampledBefore, accessor.samples, accessor.pending)
    BY Zenon, <1>4, <2>1, <2>2, SumTypes, Heavier
  <2>4. Weighs(FALSE, sampled', histogram', accessor'.sampledBefore, accessor'.samples, accessor'.pending)
    BY Zenon, <2>3, NoWalk
  <2> QED
    BY Zenon, <1>1, <2>4
<1> QED
  BY Zenon, <1>1, <1>5, <1>6, <1>7, <1>8 DEF SumInv

LEMMA DestructionSum ==
  ASSUME IInv, SumInv, destroy \/ (\E t \in Threads : unsetOwner(t)) \/ unlockDying \/ free
  PROVE  SumInv'
<1>1. holder' # "alive" /\ UNCHANGED op
  BY Zenon DEF destroy, unsetOwner, unlockDying, free, IInv, CopiesStayInPlace
<1>2. accessor'.at = Nobody
  <2>1. accessor \in Access
    BY Zenon DEF IInv, TypeOK, Access
  <2>2. accessor.kind = "destroy" => accessor.at = Nobody
    BY Zenon DEF IInv, CopiesStayInPlace
  <2> QED
    <3>1. noAccess.at = Nobody
      BY Zenon DEF noAccess
    <3>2. CASE destroy
      BY Zenon, <3>2 DEF destroy, noAccess
    <3>3. ASSUME NEW t \in Threads, unsetOwner(t) PROVE accessor'.at = Nobody
      BY Zenon, <2>1, <2>2, <3>3 DEF unsetOwner, Access
    <3>4. CASE unlockDying \/ free
      BY Zenon, <3>1, <3>4 DEF unlockDying, free
    <3> QED
      BY Zenon, <3>2, <3>3, <3>4
<1>3. CASE free
  <2>1. \A t \in Threads : op'[t].kind = "none" /\ histogram'[t] = 0
    BY <1>1, <1>3 DEF free, IInv, OwnersArePending, idle, Places
  <2> QED
    BY Zenon, <1>1, <1>2, <2>1 DEF SumInv
<1>4. CASE ~free
  <2>1. UNCHANGED <<stats, histogram, registered>>
    BY Zenon, <1>4 DEF destroy, unsetOwner, unlockDying, statsVars
  <2> QED
    BY Zenon, <1>1, <1>2, <2>1 DEF SumInv
<1> QED
  BY Zenon, <1>3, <1>4

LEMMA StepSum == IInv /\ IInv' /\ SumInv /\ [Next]_vars => SumInv'
<1> SUFFICES ASSUME IInv, IInv', SumInv, [Next]_vars PROVE SumInv'
  BY Zenon
<1>1. ASSUME NEW t \in Threads, update(t) PROVE SumInv'
  BY Zenon, <1>1, FindSum, UpdateSum, HistogramSum, ExitSum DEF update
<1>2. CASE access
  <2>1. ASSUME NEW kind \in {"aggregate", "rates", "reset"}, accessAllThreads(kind, Nobody) PROVE SumInv'
    BY Zenon, <2>1, BeginSum
  <2>2. ASSUME NEW kind \in {"rates", "erase"}, NEW k \in Keys, accessAllThreads(kind, k) PROVE SumInv'
    BY Zenon, <2>2, BeginSum
  <2>3. CASE release
    <3>1. aggregates' = FALSE /\ accessor'.at = Nobody
      BY Zenon, <2>3 DEF release, noAccess, aggregates
    <3> QED
      BY Zenon, <2>3, <3>1, StillSum DEF release, statsVars, history
  <2>4. QED
    BY Zenon, <1>2, <2>1, <2>2, <2>3, WalkSum, EmptySum DEF access
<1>3. CASE UNCHANGED vars
  <2>1. UNCHANGED <<holder, registered, owner, stats, histogram, op, accessor, added, sampled>>
    BY Zenon, <1>3 DEF vars, statsVars, history
  <2> QED
    BY Zenon, <2>1, SumsKept DEF SumInv
<1>4. CASE destruction
  BY Zenon, <1>3, <1>4, DestructionSum DEF destruction, gone
<1>5. QED
  BY Zenon, <1>1, <1>2, <1>3, <1>4 DEF Next

-----------------------------------------------------------------------------
\* The inductive invariant holds: in particular what an accessor has copied from
\* a map is still in it when the counters are read without the lock
\* (synchronizedCopy), and an entry an update has found is still there.
THEOREM Invariance == Spec => []IInv
BY InitIInv, StepIInv, PTL DEF Spec

\* An erase or a reset that has returned leaves nothing behind (perXStatsErase,
\* Stats::reset), for any number of threads that come, go and update meanwhile.
THEOREM EraseIsComplete == Spec => []ErasedKeyStaysGone
<1>1. IInv => ErasedKeyStaysGone
  BY Zenon DEF IInv, ErasedOrPending, ErasedKeyStaysGone, TypeOK
<1>2. QED
  BY <1>1, Invariance, PTL

\* No wrapper refers to a holder that is gone (~StatsHolder, ~StatsWrapper).
THEOREM OwnersAreSafe == Spec => []OwnerOutlivesThreads
<1>1. IInv => OwnerOutlivesThreads
  <2> SUFFICES ASSUME IInv, holder = "gone" PROVE owner = {}
    BY Zenon DEF OwnerOutlivesThreads
  <2>1. QED
    BY Zenon DEF IInv, OwnersArePending, CopiesStayInPlace
<1>2. QED
  BY <1>1, Invariance, PTL

\* What an aggregation reports is at least what had been added when it began and at
\* most what has been added when it ends, for any number of threads that come, go and
\* update meanwhile (new_aggregate_stats, aggregateForDestroyedThread).
THEOREM StatsAreAccountedOnce == Spec => []AccountedOnce
<1>1. Spec => []SumInv
  <2>1. IInv /\ SumInv /\ [Next]_vars => SumInv'
    BY Zenon, StepIInv, StepSum
  <2> QED
    BY <2>1, InitSum, Invariance, PTL DEF Spec
<1>2. IInv /\ SumInv => AccountedOnce
  <2> SUFFICES ASSUME IInv, SumInv, accessor.kind = "aggregate", accessor.pending = {}
               PROVE  /\ \A k \in Keys : accessor.before[k] <= aggregated(k) /\ aggregated(k) <= added[k]
                      /\ accessor.sampledBefore <= accessor.samples /\ accessor.samples <= sampled
    BY Zenon DEF AccountedOnce
  <2>1. aggregates = TRUE /\ holder = "alive" /\ accessor.at = Nobody
    BY Zenon DEF aggregates, IInv, TypeOK, CopiesStayInPlace, SumInv
  <2>2. \A k \in Keys : unread(k) = {}
    BY Zenon, <2>1 DEF unread
  <2>3. ASSUME NEW k \in Keys PROVE accessor.before[k] <= aggregated(k) /\ aggregated(k) <= added[k]
    <3>1. Weighs(TRUE, added[k], counters(k), accessor.before[k], aggregated(k), {})
      BY Zenon, <2>1, <2>2 DEF SumInv
    <3> QED
      BY Zenon, <3>1, SumTypes, WalkEnds
  <2>4. Weighs(TRUE, sampled, histogram, accessor.sampledBefore, accessor.samples, {})
    BY Zenon, <2>1 DEF SumInv
  <2>5. accessor.sampledBefore <= accessor.samples /\ accessor.samples <= sampled
    BY Zenon, <2>4, SumTypes, WalkEnds
  <2> QED
    BY Zenon, <2>3, <2>5
<1>3. QED
  BY <1>1, <1>2, Invariance, PTL
============================================================================
