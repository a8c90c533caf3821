----------------------------- MODULE StoreCalls -----------------------------
(***************************************************************************)
(* How Haskell threads call the store's C++ client (Foreign.hs, withAsync  *)
(* and its variants; the C functions of hs_*.cpp that take an MVar).  A    *)
(* call hands a buffer and a fresh MVar to a C function, which posts a     *)
(* request and returns.  A C++ thread later runs the callback: it writes   *)
(* the outcome to the buffer and fills the MVar.  The caller waits for the *)
(* MVar, unless an exception interrupts it; the callback runs all the same.*)
(***************************************************************************)
EXTENDS Integers

CONSTANTS
  Threads,  \* Haskell threads
  Ids,      \* calls under way, each with its MVar
  Buffers,  \* pinned memory for outcomes
  Nobody    \* the owner of a free buffer

ASSUME CallsAssumption == Nobody \notin Ids /\ Nobody \notin [id : Ids, buf : Buffers]

VARIABLES
  waits,     \* the call a thread waits for, [id, buf], or Nobody
  keepers,   \* calls for which a forked thread waits (onException forkIO)
  requests,  \* [id, buf] whose callback has not run
  filled,    \* the MVars that are full
  owner,     \* the call a buffer was allocated for
  written    \* the call whose callback wrote to the buffer last

callVars == <<waits, keepers, requests, filled, owner, written>>

Calls == [id : Ids, buf : Buffers]

CallsInit ==
  /\ waits = [t \in Threads |-> Nobody]
  /\ keepers = {}
  /\ requests = {}
  /\ filled = {}
  /\ owner = [b \in Buffers |-> Nobody]
  /\ written = [b \in Buffers |-> Nobody]

\* The ids that name a live MVar: a thread waits for it or a callback will fill it.
used == {waits[t].id : t \in {u \in Threads : waits[u] # Nobody}}
        \cup {c.id : c \in keepers \cup requests} \cup filled

\* newEmptyMVar, mallocForeignPtrBytes and the C function, which accepts.
submit(t, id, buf) ==
  /\ waits[t] = Nobody
  /\ id \in Ids \ used
  /\ owner[buf] = Nobody
  /\ waits' = [waits EXCEPT ![t] = [id |-> id, buf |-> buf]]
  /\ requests' = requests \cup {[id |-> id, buf |-> buf]}
  /\ owner' = [owner EXCEPT ![buf] = id]
  /\ written' = [written EXCEPT ![buf] = Nobody]
  /\ UNCHANGED <<keepers, filled>>

\* Mutant: the callback fills the MVar before it writes.
callback_Early(c) ==
  /\ requests' = requests \ {c}
  /\ filled' = filled \cup {c.id}
  /\ UNCHANGED <<waits, keepers, owner, written>>

\* The callback: cb_data, then hs_try_putmvar, which frees the stable pointer.
callback(c) ==
  /\ requests' = requests \ {c}
  /\ written' = [written EXCEPT ![c.buf] = c.id]
  /\ filled' = filled \cup {c.id}
  /\ UNCHANGED <<waits, keepers, owner>>

\* takeMVar returns and the outcome is read; the buffer goes out of scope.
resume(t) ==
  /\ waits[t] # Nobody
  /\ waits[t].id \in filled
  /\ waits' = [waits EXCEPT ![t] = Nobody]
  /\ filled' = filled \ {waits[t].id}
  /\ owner' = [owner EXCEPT ![waits[t].buf] = Nobody]
  /\ UNCHANGED <<keepers, requests, written>>

\* Mutant: the exception just leaves the scope of the buffer.
interrupt_NoKeeper(t) ==
  /\ waits[t] # Nobody
  /\ waits[t].id \notin filled
  /\ waits' = [waits EXCEPT ![t] = Nobody]
  /\ owner' = [owner EXCEPT ![waits[t].buf] = Nobody]
  /\ UNCHANGED <<keepers, requests, filled, written>>

\* An exception arrives while takeMVar blocks: a forked thread waits instead and
\* keeps the buffer alive.  (mask_ holds exceptions back everywhere else.)
interrupt(t) ==
  /\ waits[t] # Nobody
  /\ waits[t].id \notin filled
  /\ keepers' = keepers \cup {waits[t]}
  /\ waits' = [waits EXCEPT ![t] = Nobody]
  /\ UNCHANGED <<requests, filled, owner, written>>

\* The forked thread takes the MVar and touches the buffer for the last time.
letGo(c) ==
  /\ c.id \in filled
  /\ keepers' = keepers \ {c}
  /\ filled' = filled \ {c.id}
  /\ owner' = [owner EXCEPT ![c.buf] = Nobody]
  /\ UNCHANGED <<waits, requests, written>>

CallsNext ==
  \/ \E t \in Threads, id \in Ids, buf \in Buffers : submit(t, id, buf)
  \/ \E c \in requests : callback(c)
  \/ \E t \in Threads : resume(t) \/ interrupt(t)
  \/ \E c \in keepers : letGo(c)

CallsSpec == CallsInit /\ [][CallsNext]_callVars

-----------------------------------------------------------------------------
\* Types of the calls, their MVars and their buffers (withAsync').
CallsTypeOK ==
  /\ waits \in [Threads -> Calls \cup {Nobody}]
  /\ keepers \subseteq Calls
  /\ requests \subseteq Calls
  /\ filled \subseteq Ids
  /\ owner \in [Buffers -> Ids \cup {Nobody}]
  /\ written \in [Buffers -> Ids \cup {Nobody}]

\* A callback that has not run finds the buffer it was given still allocated for its
\* call, whatever became of the caller (withAsync', onException).
BufferOutlivesCallback == \A c \in requests : owner[c.buf] = c.id

\* What a thread reads when its MVar is full was written by the callback of its own
\* call, not left there by another one (withAsync', peek_data).
OutcomeIsOwn ==
  \A t \in Threads :
    (waits[t] # Nobody /\ waits[t].id \in filled) =>
      /\ owner[waits[t].buf] = waits[t].id
      /\ written[waits[t].buf] = waits[t].id
=============================================================================
