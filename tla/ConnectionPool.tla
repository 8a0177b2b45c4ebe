--------------------------- MODULE ConnectionPool ---------------------------
(***************************************************************************)
(* The pool of PostgreSQL connections that every store borrows from:       *)
(* modules/runtime_persistence/database.py.  The queue of free connections *)
(* and the counter of slots are guarded separately, so a thread takes a    *)
(* slot, opens, borrows and gives back in several steps, and the pool may  *)
(* be closed between any two of them.                                      *)
(***************************************************************************)
EXTENDS Naturals, FiniteSets

CONSTANTS
  Threads,
  MaximumSize   \* maximum_size

ASSUME ConnectionPoolAssumption == IsFiniteSet(Threads) /\ MaximumSize \in Nat

VARIABLES
  slots,     \* _created
  opened,    \* connections that are open on our side
  dead,      \* of these, the ones the server or a failed commit closed
  free,      \* _available
  shut,      \* _closed, and whether close still empties the queue
  borrow     \* threads in acquire, with a lease, or in release

poolVars == <<slots, opened, dead, free, shut, borrow>>

Connections == 1..MaximumSize
Borrowing == {"got", "lease", "checked"}

PoolTypeOK ==
  /\ slots \in 0..MaximumSize
  /\ opened \subseteq Connections /\ dead \subseteq opened /\ free \subseteq opened
  /\ shut \in {"no", "draining", "yes"}
  /\ borrow \in [Threads -> [pc : {"out", "create", "open", "wait"} \cup Borrowing,
                             conn : Connections \cup {0}]]

Outside == [pc |-> "out", conn |-> 0]

PoolInit ==
  /\ slots = 0 /\ opened = {} /\ dead = {} /\ free = {} /\ shut = "no"
  /\ borrow = [t \in Threads |-> Outside]

In(t, pc) == borrow[t].pc = pc
Moves(t, pc, conn) == borrow' = [borrow EXCEPT ![t] = [pc |-> pc, conn |-> conn]]
Leaves(t) == borrow' = [borrow EXCEPT ![t] = Outside]

\* acquire: a free connection, or a slot to open one.
Acquire(t) ==
  /\ In(t, "out")
  /\ shut = "no"
  /\ IF free # {} THEN \E c \in free : free' = free \ {c} /\ Moves(t, "got", c)
     ELSE Moves(t, "create", 0) /\ UNCHANGED free
  /\ UNCHANGED <<slots, opened, dead, shut>>

\* Mutant of HasSlot: one slot too many.
HasSlotMore == slots <= MaximumSize

HasSlot == slots < MaximumSize

\* _create_if_allowed, under the lock
TakeSlot(t) ==
  /\ In(t, "create")
  /\ IF shut = "no" /\ HasSlot
       THEN slots' = slots + 1 /\ Moves(t, "open", 0)
       ELSE UNCHANGED slots /\ IF shut = "no" THEN Moves(t, "wait", 0) ELSE Leaves(t)
  /\ UNCHANGED <<opened, dead, free, shut>>

Open(t) ==
  /\ In(t, "open")
  /\ LET c == CHOOSE x \in Connections \ opened : TRUE IN
       opened' = opened \cup {c} /\ Moves(t, "got", c)
  /\ UNCHANGED <<slots, dead, free, shut>>

\* Mutant of OpenFails: the slot is kept.
OpenFailsKeepingSlot(t) ==
  /\ In(t, "open")
  /\ Leaves(t)
  /\ UNCHANGED <<slots, opened, dead, free, shut>>

OpenFails(t) ==
  /\ In(t, "open")
  /\ slots' = slots - 1
  /\ Leaves(t)
  /\ UNCHANGED <<opened, dead, free, shut>>

\* A thread without a slot waits for a connection that comes back, and nothing
\* else wakes it: a slot that becomes free while it waits stays unused.
WaitEnds(t) ==
  /\ In(t, "wait")
  /\ \/ \E c \in free : free' = free \ {c} /\ Moves(t, "got", c)
     \/ Leaves(t) /\ UNCHANGED free
  /\ UNCHANGED <<slots, opened, dead, shut>>

Drop(c) == opened' = opened \ {c} /\ dead' = dead \ {c} /\ slots' = slots - 1

\* A closed connection is dropped and acquire starts again.
Lease(t) ==
  /\ In(t, "got")
  /\ IF borrow[t].conn \in dead
       THEN Drop(borrow[t].conn) /\ Leaves(t)
       ELSE Moves(t, "lease", borrow[t].conn) /\ UNCHANGED <<slots, opened, dead>>
  /\ UNCHANGED <<free, shut>>

\* A lease ends in a commit or a rollback; when either fails, or the block
\* raised, the connection counts as broken.
ReleaseBroken(t) ==
  /\ In(t, "lease")
  /\ Drop(borrow[t].conn)
  /\ Leaves(t)
  /\ UNCHANGED <<free, shut>>

\* release looks at _closed without the lock, before it puts.
Release(t) ==
  /\ In(t, "lease")
  /\ IF shut # "no" \/ borrow[t].conn \in dead
       THEN Drop(borrow[t].conn) /\ Leaves(t)
       ELSE Moves(t, "checked", borrow[t].conn) /\ UNCHANGED <<slots, opened, dead>>
  /\ UNCHANGED <<free, shut>>

PutBack(t) ==
  /\ In(t, "checked")
  /\ free' = free \cup {borrow[t].conn}
  /\ Leaves(t)
  /\ UNCHANGED <<slots, opened, dead, shut>>

Dies(c) ==
  /\ c \in opened \ dead
  /\ dead' = dead \cup {c}
  /\ UNCHANGED <<slots, opened, free, shut, borrow>>

Close ==
  /\ shut = "no"
  /\ shut' = "draining"
  /\ UNCHANGED <<slots, opened, dead, free, borrow>>

\* close empties the queue until it finds it empty; what comes later stays.
Drain(c) ==
  /\ shut = "draining"
  /\ c \in free
  /\ free' = free \ {c}
  /\ Drop(c)
  /\ UNCHANGED <<shut, borrow>>

Drained ==
  /\ shut = "draining"
  /\ free = {}
  /\ shut' = "yes"
  /\ UNCHANGED <<slots, opened, dead, free, borrow>>

PoolNext ==
  \/ Close \/ Drained
  \/ \E c \in Connections : Dies(c) \/ Drain(c)
  \/ \E t \in Threads :
       \/ Acquire(t) \/ TakeSlot(t) \/ Open(t) \/ OpenFails(t) \/ WaitEnds(t)
       \/ Lease(t) \/ Release(t) \/ ReleaseBroken(t) \/ PutBack(t)

PoolSpec == PoolInit /\ [][PoolNext]_poolVars

-----------------------------------------------------------------------------
\* However acquiring, breaking, giving back and closing interleave, no slot is
\* lost or invented: the counter is the number of connections that are open or
\* being opened, and every open one is free or in the hands of one thread.
SlotsAreCounted ==
  LET holders(c) == {t \in Threads : borrow[t].pc \in Borrowing /\ borrow[t].conn = c} IN
  /\ slots = Cardinality(opened) + Cardinality({t \in Threads : In(t, "open")})
  /\ \A c \in opened : IF c \in free THEN holders(c) = {} ELSE Cardinality(holders(c)) = 1
  /\ \A t \in Threads : borrow[t].pc \in Borrowing => borrow[t].conn \in opened
=============================================================================
