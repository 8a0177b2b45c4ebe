--------------------------- MODULE DeliveryProofs ---------------------------
(***************************************************************************)
(* Proofs about what background work shares and what it leaves behind: the *)
(* pool of connections, the gateway to the language models, the outbox of  *)
(* the worker process, and the batches of push copy.                       *)
(***************************************************************************)
EXTENDS ConnectionPool, LlmGateway, OrderOutbox, PushCopyBatch, FiniteSetTheorems, TLAPS

-----------------------------------------------------------------------------
(***************************************************************************)
(* The pool, for any finite number of threads and any size.                *)
(***************************************************************************)

Opening == {t \in Threads : In(t, "open")}
Borrows(t) == borrow[t].pc \in Borrowing

\* The slots are the connections open and being opened.
CountsAgree == slots = Cardinality(opened) + Cardinality(Opening)

\* A connection in the hands of a thread is open and not free, one that is
\* open and not free is in the hands of a thread, and of one thread only.
Owned ==
  /\ \A t \in Threads : Borrows(t) => borrow[t].conn \in opened \ free
  /\ \A c \in opened \ free : \E t \in Threads : Borrows(t) /\ borrow[t].conn = c
  /\ \A t, u \in Threads :
       Borrows(t) /\ Borrows(u) /\ borrow[t].conn = borrow[u].conn => t = u

\* The inductive invariant.
PoolInv == PoolTypeOK /\ CountsAgree /\ Owned

Sized == IsFiniteSet(Threads) /\ MaximumSize \in Nat

-----------------------------------------------------------------------------
(* Counting.                                                               *)

LEMMA PoolFinite ==
  ASSUME Sized, PoolTypeOK
  PROVE  /\ IsFiniteSet(opened) /\ Cardinality(opened) \in Nat
         /\ IsFiniteSet(Opening) /\ Cardinality(Opening) \in Nat
  <1>1. IsFiniteSet(Connections)
    BY FS_Interval DEF Sized, Connections
  <1>2. IsFiniteSet(opened)
    BY <1>1, FS_Subset DEF PoolTypeOK
  <1>3. IsFiniteSet(Opening)
    BY FS_Subset DEF Sized, Opening
  <1> QED BY <1>2, <1>3, FS_CardinalityType

\* A thread that opens a connection finds a number that is not in use.
LEMMA RoomToOpen ==
  ASSUME Sized, PoolInv, NEW t \in Threads, In(t, "open")
  PROVE  Connections \ opened # {}
  <1> SUFFICES ASSUME Connections \subseteq opened PROVE FALSE
    OBVIOUS
  <1>1. opened = Connections
    BY DEF PoolInv, PoolTypeOK
  <1>2. Cardinality(opened) = MaximumSize
    BY <1>1, FS_Interval DEF Sized, Connections
  <1>3. Cardinality(Opening) # 0
    BY PoolFinite, FS_EmptySet DEF PoolInv, Opening
  <1> QED BY <1>2, <1>3, PoolFinite DEF PoolInv, PoolTypeOK, CountsAgree, Sized

\* A dropped connection gives its slot back.
LEMMA DropCounts ==
  ASSUME Sized, PoolInv, NEW c \in opened, Drop(c), Opening' = Opening
  PROVE  slots' \in 0..MaximumSize /\ CountsAgree'
  <1>1. Cardinality(opened') = Cardinality(opened) - 1
    BY PoolFinite, FS_RemoveElement DEF Drop, PoolInv
  <1>2. Cardinality(opened) # 0
    BY PoolFinite, FS_EmptySet DEF PoolInv
  <1>3. slots' = slots - 1
    BY DEF Drop
  <1> QED BY <1>1, <1>2, <1>3, PoolFinite DEF PoolInv, PoolTypeOK, CountsAgree, Sized

-----------------------------------------------------------------------------
(* The steps.                                                              *)

\* What a step does to the threads, for all of them.
LEMMA MovesTo ==
  ASSUME PoolTypeOK, NEW t \in Threads,
         NEW pc \in {"out", "create", "open", "wait"} \cup Borrowing,
         NEW conn \in Connections \cup {0}, Moves(t, pc, conn)
  PROVE  /\ borrow' \in [Threads -> [pc : {"out", "create", "open", "wait"} \cup Borrowing,
                                     conn : Connections \cup {0}]]
         /\ borrow'[t].pc = pc /\ borrow'[t].conn = conn
         /\ \A u \in Threads \ {t} : borrow'[u] = borrow[u]
  BY DEF PoolTypeOK, Moves

LEMMA LeavesIsAMove ==
  ASSUME NEW t \in Threads, Leaves(t)
  PROVE  Moves(t, "out", 0)
  BY DEF Leaves, Moves, Outside

LEMMA AcquireSound ==
  ASSUME Sized, PoolInv, NEW t \in Threads, Acquire(t)
  PROVE  PoolInv'
  <1>1. CASE free # {}
    <2>1. PICK c \in free : free' = free \ {c} /\ Moves(t, "got", c)
      BY <1>1 DEF Acquire
    <2>2. PoolTypeOK'
      BY <2>1, MovesTo DEF Acquire, PoolInv, PoolTypeOK, Borrowing
    <2>3. Opening' = Opening
      BY <2>1, MovesTo DEF Acquire, PoolInv, PoolTypeOK, Borrowing, Opening, In
    <2>4. Owned'
      BY <2>1, MovesTo DEF Acquire, PoolInv, PoolTypeOK, Borrowing, Owned, Borrows, In
    <2> QED BY <2>2, <2>3, <2>4 DEF Acquire, PoolInv, CountsAgree
  <1>2. CASE free = {}
    <2>1. Moves(t, "create", 0) /\ UNCHANGED free
      BY <1>2 DEF Acquire
    <2>2. PoolTypeOK'
      BY <2>1, MovesTo DEF Acquire, PoolInv, PoolTypeOK
    <2>3. Opening' = Opening
      BY <2>1, MovesTo DEF Acquire, PoolInv, PoolTypeOK, Opening, In
    <2>4. Owned'
      BY <2>1, MovesTo DEF Acquire, PoolInv, Borrowing, Owned, Borrows, In
    <2> QED BY <2>2, <2>3, <2>4 DEF Acquire, PoolInv, CountsAgree
  <1> QED BY <1>1, <1>2

LEMMA TakeSlotSound ==
  ASSUME Sized, PoolInv, NEW t \in Threads, TakeSlot(t)
  PROVE  PoolInv'
  <1>1. t \notin Opening
    BY DEF TakeSlot, Opening, In
  <1>2. CASE shut = "no" /\ HasSlot
    <2>1. slots' = slots + 1 /\ Moves(t, "open", 0)
      BY <1>2 DEF TakeSlot
    <2>2. PoolTypeOK'
      BY <1>2, <2>1, MovesTo DEF TakeSlot, HasSlot, PoolInv, PoolTypeOK, Sized
    <2>3. Opening' = Opening \cup {t}
      BY <2>1, MovesTo DEF PoolInv, PoolTypeOK, Opening, In
    <2>4. Cardinality(Opening') = Cardinality(Opening) + 1
      BY <1>1, <2>3, PoolFinite, FS_AddElement DEF PoolInv
    <2>5. Owned'
      BY <2>1, MovesTo DEF TakeSlot, PoolInv, Borrowing, Owned, Borrows, In
    <2> QED BY <2>1, <2>2, <2>4, <2>5, PoolFinite DEF TakeSlot, PoolInv, CountsAgree, PoolTypeOK
  <1>3. CASE ~ (shut = "no" /\ HasSlot)
    <2>1. UNCHANGED slots /\ (Moves(t, "wait", 0) \/ Moves(t, "out", 0))
      BY <1>3, LeavesIsAMove DEF TakeSlot
    <2>2. PoolTypeOK'
      BY <2>1, MovesTo DEF TakeSlot, PoolInv, PoolTypeOK
    <2>3. Opening' = Opening
      BY <1>1, <2>1, MovesTo DEF PoolInv, PoolTypeOK, Opening, In
    <2>4. Owned'
      BY <2>1, MovesTo DEF TakeSlot, PoolInv, Borrowing, Owned, Borrows, In
    <2> QED BY <2>1, <2>2, <2>3, <2>4 DEF TakeSlot, PoolInv, CountsAgree
  <1> QED BY <1>2, <1>3

LEMMA OpenSound ==
  ASSUME Sized, PoolInv, NEW t \in Threads, Open(t)
  PROVE  PoolInv'
  <1> DEFINE c == CHOOSE x \in Connections \ opened : TRUE
  <1>1. c \in Connections \ opened
    BY RoomToOpen DEF Open
  <1> HIDE DEF c
  <1>2. opened' = opened \cup {c} /\ Moves(t, "got", c)
    BY DEF Open, c
  <1>3. PoolTypeOK'
    BY <1>1, <1>2, MovesTo DEF Open, PoolInv, PoolTypeOK, Borrowing
  <1>4. t \in Opening /\ Opening' = Opening \ {t}
    BY <1>1, <1>2, MovesTo DEF Open, PoolInv, PoolTypeOK, Borrowing, Opening, In
  <1>5. /\ Cardinality(Opening') = Cardinality(Opening) - 1
        /\ Cardinality(opened') = Cardinality(opened) + 1
    BY <1>1, <1>2, <1>4, PoolFinite, FS_AddElement, FS_RemoveElement DEF PoolInv
  <1>6. CountsAgree'
    BY <1>5, PoolFinite DEF Open, PoolInv, CountsAgree
  <1>7. \A u \in Threads : Borrows(u) => borrow[u].conn # c
    BY <1>1 DEF PoolInv, Owned
  <1>8. Owned'
    <2>1. c \notin free
      BY <1>1 DEF PoolInv, PoolTypeOK
    <2> QED BY <1>1, <1>2, <1>7, <2>1, MovesTo DEF Open, PoolInv, Borrowing, Owned, Borrows, In
  <1> QED BY <1>3, <1>6, <1>8 DEF PoolInv

LEMMA OpenFailsSound ==
  ASSUME Sized, PoolInv, NEW t \in Threads, OpenFails(t)
  PROVE  PoolInv'
  <1>1. Moves(t, "out", 0)
    BY LeavesIsAMove DEF OpenFails
  <1>2. t \in Opening /\ Opening' = Opening \ {t}
    BY <1>1, MovesTo DEF OpenFails, PoolInv, PoolTypeOK, Opening, In
  <1>3. Cardinality(Opening') = Cardinality(Opening) - 1 /\ Cardinality(Opening) # 0
    BY <1>2, PoolFinite, FS_RemoveElement, FS_EmptySet DEF PoolInv
  <1>4. CountsAgree' /\ slots' \in 0..MaximumSize
    BY <1>3, PoolFinite DEF OpenFails, PoolInv, CountsAgree, PoolTypeOK, Sized
  <1>5. PoolTypeOK'
    BY <1>1, <1>4, MovesTo DEF OpenFails, PoolInv, PoolTypeOK
  <1>6. Owned'
    BY <1>1, MovesTo DEF OpenFails, PoolInv, Borrowing, Owned, Borrows, In
  <1> QED BY <1>4, <1>5, <1>6 DEF PoolInv

LEMMA WaitEndsSound ==
  ASSUME Sized, PoolInv, NEW t \in Threads, WaitEnds(t)
  PROVE  PoolInv'
  <1>1. ASSUME NEW c \in free, free' = free \ {c}, Moves(t, "got", c)
        PROVE  PoolInv'
    <2>1. PoolTypeOK'
      BY <1>1, MovesTo DEF WaitEnds, PoolInv, PoolTypeOK, Borrowing
    <2>2. Opening' = Opening
      BY <1>1, MovesTo DEF WaitEnds, PoolInv, PoolTypeOK, Borrowing, Opening, In
    <2>3. Owned'
      BY <1>1, MovesTo DEF WaitEnds, PoolInv, PoolTypeOK, Borrowing, Owned, Borrows, In
    <2> QED BY <2>1, <2>2, <2>3 DEF WaitEnds, PoolInv, CountsAgree
  <1>2. CASE Moves(t, "out", 0) /\ UNCHANGED free
    <2>1. PoolTypeOK'
      BY <1>2, MovesTo DEF WaitEnds, PoolInv, PoolTypeOK
    <2>2. Opening' = Opening
      BY <1>2, MovesTo DEF WaitEnds, PoolInv, PoolTypeOK, Opening, In
    <2>3. Owned'
      BY <1>2, MovesTo DEF WaitEnds, PoolInv, Borrowing, Owned, Borrows, In
    <2> QED BY <2>1, <2>2, <2>3 DEF WaitEnds, PoolInv, CountsAgree
  <1> QED BY <1>1, <1>2, LeavesIsAMove DEF WaitEnds

\* A thread that drops what it holds leaves the pool as it should be.
LEMMA DropSound ==
  ASSUME Sized, PoolInv, NEW t \in Threads, Borrows(t),
         Drop(borrow[t].conn), Leaves(t), UNCHANGED <<free, shut>>
  PROVE  PoolInv'
  <1>1. Moves(t, "out", 0)
    BY LeavesIsAMove
  <1>2. borrow[t].conn \in opened \ free
    BY DEF PoolInv, Owned
  <1>3. Opening' = Opening
    BY <1>1, MovesTo DEF PoolInv, PoolTypeOK, Opening, In, Borrows, Borrowing
  <1>4. slots' \in 0..MaximumSize /\ CountsAgree'
    BY <1>2, <1>3, DropCounts
  <1>5. PoolTypeOK'
    BY <1>1, <1>2, <1>4, MovesTo DEF PoolInv, PoolTypeOK, Drop
  <1>6. Owned'
    BY <1>1, <1>2, MovesTo DEF PoolInv, PoolTypeOK, Owned, Borrows, Drop, Borrowing
  <1> QED BY <1>4, <1>5, <1>6 DEF PoolInv

\* What changes only how far a thread is with the connection it holds.
LEMMA KeepsSound ==
  ASSUME Sized, PoolInv, NEW t \in Threads, Borrows(t), NEW pc \in Borrowing,
         Moves(t, pc, borrow[t].conn), UNCHANGED <<slots, opened, dead, free, shut>>
  PROVE  PoolInv'
  <1>1. borrow[t].conn \in Connections
    BY DEF PoolInv, PoolTypeOK, Owned
  <1>2. PoolTypeOK'
    BY <1>1, MovesTo DEF PoolInv, PoolTypeOK
  <1>3. Opening' = Opening
    BY <1>1, MovesTo DEF PoolInv, PoolTypeOK, Opening, In, Borrows, Borrowing
  <1>4. \A u \in Threads : (Borrows(u)' <=> Borrows(u)) /\ borrow'[u].conn = borrow[u].conn
    BY <1>1, MovesTo DEF PoolInv, Borrows
  <1>5. Owned'
    BY <1>4 DEF PoolInv, Owned
  <1> QED BY <1>2, <1>3, <1>5 DEF PoolInv, CountsAgree

LEMMA LeaseSound ==
  ASSUME Sized, PoolInv, NEW t \in Threads, Lease(t)
  PROVE  PoolInv'
  <1>1. Borrows(t)
    BY DEF Lease, In, Borrows, Borrowing
  <1>2. CASE borrow[t].conn \in dead
    BY <1>1, <1>2, DropSound DEF Lease
  <1>3. CASE borrow[t].conn \notin dead
    BY <1>1, <1>3, KeepsSound DEF Lease, Borrowing
  <1> QED BY <1>2, <1>3

LEMMA ReleaseSound ==
  ASSUME Sized, PoolInv, NEW t \in Threads, Release(t) \/ ReleaseBroken(t)
  PROVE  PoolInv'
  <1>1. Borrows(t)
    BY DEF Release, ReleaseBroken, In, Borrows, Borrowing
  <1>2. CASE ReleaseBroken(t)
    BY <1>1, <1>2, DropSound DEF ReleaseBroken
  <1>3. CASE Release(t) /\ (shut # "no" \/ borrow[t].conn \in dead)
    BY <1>1, <1>3, DropSound DEF Release
  <1>4. CASE Release(t) /\ ~ (shut # "no" \/ borrow[t].conn \in dead)
    BY <1>1, <1>4, KeepsSound DEF Release, Borrowing
  <1> QED BY <1>2, <1>3, <1>4

LEMMA PutBackSound ==
  ASSUME Sized, PoolInv, NEW t \in Threads, PutBack(t)
  PROVE  PoolInv'
  <1>1. Moves(t, "out", 0) /\ Borrows(t)
    BY LeavesIsAMove DEF PutBack, Borrows, In, Borrowing
  <1>2. borrow[t].conn \in opened \ free
    BY <1>1 DEF PoolInv, Owned
  <1>3. PoolTypeOK'
    BY <1>1, <1>2, MovesTo DEF PutBack, PoolInv, PoolTypeOK
  <1>4. Opening' = Opening
    BY <1>1, MovesTo DEF PoolInv, PoolTypeOK, Opening, In, Borrows, Borrowing
  <1>5. Owned'
    BY <1>1, <1>2, MovesTo DEF PutBack, PoolInv, Owned, Borrows, Borrowing
  <1> QED BY <1>3, <1>4, <1>5 DEF PutBack, PoolInv, CountsAgree

LEMMA DrainSound ==
  ASSUME Sized, PoolInv, NEW c \in Connections, Drain(c)
  PROVE  PoolInv'
  <1>1. c \in opened /\ UNCHANGED borrow /\ Drop(c) /\ free' = free \ {c}
    BY DEF Drain, PoolInv, PoolTypeOK
  <1>2. Opening' = Opening
    BY <1>1 DEF Opening, In
  <1>3. slots' \in 0..MaximumSize /\ CountsAgree'
    BY <1>1, <1>2, DropCounts
  <1>4. PoolTypeOK'
    BY <1>1, <1>3 DEF Drain, Drop, PoolInv, PoolTypeOK
  <1>5. Owned'
    BY <1>1 DEF Drain, Drop, PoolInv, Owned, Borrows
  <1> QED BY <1>3, <1>4, <1>5 DEF PoolInv

\* What only the server and close do, and a step that changes nothing.
LEMMA ElsewhereSound ==
  ASSUME PoolInv, (\E c \in Connections : Dies(c)) \/ Close \/ Drained \/ UNCHANGED poolVars
  PROVE  PoolInv'
  <1>1. UNCHANGED <<slots, opened, free, borrow>>
    BY DEF Dies, Close, Drained, poolVars
  <1>2. dead' \subseteq opened' /\ shut' \in {"no", "draining", "yes"}
    BY DEF Dies, Close, Drained, poolVars, PoolInv, PoolTypeOK
  <1>3. PoolTypeOK'
    BY <1>1, <1>2 DEF PoolInv, PoolTypeOK
  <1>4. Opening' = Opening
    BY <1>1 DEF Opening, In
  <1> QED BY <1>1, <1>3, <1>4 DEF PoolInv, CountsAgree, Owned, Borrows

LEMMA PoolStart ==
  ASSUME Sized, PoolInit
  PROVE  PoolInv
  <1>1. PoolTypeOK
    BY DEF PoolInit, PoolTypeOK, Outside, Sized
  <1>2. Opening = {} /\ opened = {}
    BY DEF PoolInit, Opening, In, Outside
  <1>3. CountsAgree
    BY <1>2, FS_EmptySet DEF PoolInit, CountsAgree
  <1>4. Owned
    BY DEF PoolInit, Owned, Borrows, Outside, Borrowing
  <1> QED BY <1>1, <1>3, <1>4 DEF PoolInv

LEMMA PoolStep ==
  ASSUME Sized, PoolInv, [PoolNext]_poolVars
  PROVE  PoolInv'
  <1>1. CASE \E c \in Connections : Drain(c)
    BY <1>1, DrainSound
  <1>2. CASE (\E c \in Connections : Dies(c)) \/ Close \/ Drained \/ UNCHANGED poolVars
    BY <1>2, ElsewhereSound
  <1>3. ASSUME NEW t \in Threads,
               \/ Acquire(t) \/ TakeSlot(t) \/ Open(t) \/ OpenFails(t) \/ WaitEnds(t)
               \/ Lease(t) \/ Release(t) \/ ReleaseBroken(t) \/ PutBack(t)
        PROVE  PoolInv'
    BY <1>3, AcquireSound, TakeSlotSound, OpenSound, OpenFailsSound, WaitEndsSound,
       LeaseSound, ReleaseSound, PutBackSound
  <1> QED BY <1>1, <1>2, <1>3 DEF PoolNext

\* The property follows: the holders of a connection are one thread or none.
LEMMA PoolInvCounts ==
  ASSUME Sized, PoolInv
  PROVE  SlotsAreCounted
  <1> DEFINE holders(c) == {t \in Threads : borrow[t].pc \in Borrowing /\ borrow[t].conn = c}
  <1>1. ASSUME NEW c \in opened, c \in free
        PROVE  holders(c) = {}
    BY <1>1 DEF PoolInv, Owned, Borrows
  <1>2. ASSUME NEW c \in opened, c \notin free
        PROVE  Cardinality(holders(c)) = 1
    <2>1. PICK t \in Threads : Borrows(t) /\ borrow[t].conn = c
      BY <1>2 DEF PoolInv, Owned
    <2>2. holders(c) = {t}
      BY <2>1 DEF PoolInv, Owned, Borrows
    <2> QED BY <2>2, FS_Singleton
  <1>3. \A t \in Threads : borrow[t].pc \in Borrowing => borrow[t].conn \in opened
    BY DEF PoolInv, Owned, Borrows
  <1> HIDE DEF holders
  <1>4. slots = Cardinality(opened) + Cardinality({t \in Threads : In(t, "open")})
    BY DEF PoolInv, CountsAgree, Opening
  <1>5. \A c \in opened : IF c \in free THEN holders(c) = {} ELSE Cardinality(holders(c)) = 1
    BY <1>1, <1>2
  <1> QED BY <1>3, <1>4, <1>5 DEF SlotsAreCounted, holders

-----------------------------------------------------------------------------
\* The pool never loses or invents a slot, and never lends one connection
\* twice, however many threads borrow and however large it is: acquire,
\* release and close of modules/runtime_persistence/database.py.
THEOREM PoolCounts == PoolSpec => []SlotsAreCounted
  <1>0. Sized
    BY ConnectionPoolAssumption DEF Sized
  <1>1. PoolInit => PoolInv
    BY <1>0, PoolStart
  <1>2. PoolInv /\ [PoolNext]_poolVars => PoolInv'
    BY <1>0, PoolStep
  <1>3. PoolInv => SlotsAreCounted
    BY <1>0, PoolInvCounts
  <1> QED BY <1>1, <1>2, <1>3, PTL DEF PoolSpec

-----------------------------------------------------------------------------
(***************************************************************************)
(* The gateway, for any requests and callers, any number of threads of the *)
(* pool of calls and any number of retries.                                *)
(***************************************************************************)

RequestRow == [pc : {"out", "submit", "wait", "answered", "done"},
        caller : Callers \cup {"none"}, policy : Policies, at : 1..2,
        tries : 0..(MaxRetries + 1), lost : SUBSET Calls, answer : SUBSET Answers,
        outcome : {"none", "served", "failed"}]

GatewayTyped == ask \in [Requests -> RequestRow] /\ pending \in Seq(Calls) /\ running \subseteq Calls

\* The n-th call of request r to the i-th provider, when its row is q.
CallOf(r, q, i, n) == <<r, Chain(q.policy)[i], n>>

\* A call that was given up was to an earlier provider, or was an earlier try;
\* it is the current one only while the request does not wait.
Earlier(r, q, c) ==
  \E i \in 1..q.at, n \in 1..(MaxRetries + 1) :
    /\ c = CallOf(r, q, i, n)
    /\ i = q.at => n < q.tries \/ (n = q.tries /\ q.pc # "wait")

\* The clauses of AnswersAreOwn, for an answer a of a request whose row is q.
Own(r, q, a) ==
  /\ a.call[1] = r
  /\ Serves(a) => /\ a.call \notin q.lost
                  /\ a.given = "good"
                  /\ a.finish = "stop" <=> a.call[2] = Chain(q.policy)[1]
  /\ a.finish = "timeout" <=> (a.call \in q.lost \/ a.given = "late")

RowSound(r, q) ==
  /\ q.at <= Len(Chain(q.policy))
  /\ q.pc = "submit" => q.tries <= MaxRetries
  /\ q.pc = "wait" => q.tries >= 1
  /\ q.pc # "out" => q.caller \in Callers
  /\ \A a, b \in q.answer : a = b
  /\ q.pc \in {"out", "submit", "wait"} => q.answer = {}
  /\ q.outcome # "none" => q.pc = "done"
  /\ \A c \in q.lost : Earlier(r, q, c)
  /\ \A a \in q.answer : Own(r, q, a)
  /\ q.outcome = "served" /\ q.caller # "voice" => \A a \in q.answer : a.given = "good"

\* A call that queues or runs is to a provider of its request's chain.
CallSound(c) ==
  /\ ask[c[1]].pc # "out"
  /\ \E i \in 1..Len(Chain(ask[c[1]].policy)) : c[2] = Chain(ask[c[1]].policy)[i]

InFlight == running \cup {pending[i] : i \in 1..Len(pending)}

\* The inductive invariant.
GatewayInv ==
  /\ GatewayTyped
  /\ \A r \in Requests : RowSound(r, ask[r])
  /\ \A c \in InFlight : CallSound(c)

-----------------------------------------------------------------------------
(* Chains and calls.                                                       *)

\* A chain names each provider at most once, and a policy of one provider
\* names no other.
LEMMA ChainFacts ==
  ASSUME NEW policy \in Policies
  PROVE  /\ Len(Chain(policy)) \in 1..2
         /\ \A i \in 1..Len(Chain(policy)) : Chain(policy)[i] \in Providers
         /\ \A i, j \in 1..Len(Chain(policy)) : Chain(policy)[i] = Chain(policy)[j] => i = j
         /\ policy = "local_only" => \A i \in 1..Len(Chain(policy)) : Chain(policy)[i] = "ollama"
         /\ policy = "cloud_only" => \A i \in 1..Len(Chain(policy)) : Chain(policy)[i] = "cloud"
  <1>1. CASE policy = "local_only"
    BY <1>1 DEF Chain, Providers
  <1>2. CASE policy = "cloud_only"
    BY <1>2 DEF Chain, Providers
  <1>3. CASE policy = "cloud_first"
    BY <1>3 DEF Chain, Providers
  <1>4. CASE policy = "local_first"
    BY <1>4 DEF Chain, Providers
  <1> QED BY <1>1, <1>2, <1>3, <1>4 DEF Policies

LEMMA CallFacts ==
  ASSUME MaxRetries \in Nat, NEW r \in Requests, NEW q \in RequestRow,
         q.at <= Len(Chain(q.policy))
  PROVE  \A i \in 1..q.at, n \in 1..(MaxRetries + 1) : CallOf(r, q, i, n) \in Calls
  <1>1. q.policy \in Policies /\ q.at \in 1..2
    BY DEF RequestRow
  <1> QED BY <1>1, ChainFacts DEF CallOf, Calls

\* The call a request waits for was not given up.
LEMMA CurrentIsNotLost ==
  ASSUME MaxRetries \in Nat, GatewayTyped, NEW r \in Requests, RowSound(r, ask[r]), Waiting(r)
  PROVE  Current(r) \in Calls /\ Current(r) \notin ask[r].lost
  <1> DEFINE q == ask[r]
  <1>1. q \in RequestRow /\ q.policy \in Policies /\ q.at \in 1..2 /\ q.tries \in 1..(MaxRetries + 1)
    BY DEF GatewayTyped, RequestRow, RowSound, Waiting
  <1>2. Current(r) = CallOf(r, q, q.at, q.tries)
    BY DEF Current, CallOf
  <1>3. Current(r) \in Calls
    BY <1>1, <1>2, CallFacts DEF RowSound
  <1>4. ASSUME Current(r) \in q.lost
        PROVE  FALSE
    <2>1. PICK i \in 1..q.at, n \in 1..(MaxRetries + 1) :
            /\ Current(r) = CallOf(r, q, i, n)
            /\ i = q.at => n < q.tries
      BY <1>4 DEF RowSound, Earlier, Waiting
    <2>2. n = q.tries /\ Chain(q.policy)[i] = Chain(q.policy)[q.at]
      BY <1>2, <2>1 DEF CallOf
    <2>3. i = q.at
      BY <1>1, <2>2, ChainFacts DEF RowSound
    <2> QED BY <2>1, <2>2, <2>3, <1>1
  <1> QED BY <1>3, <1>4

-----------------------------------------------------------------------------
(* Rows.                                                                   *)

\* While a request waits, what it gave up and the call of now were made.
LEMMA LostCalls ==
  ASSUME MaxRetries \in Nat, NEW r \in Requests, NEW q \in RequestRow, RowSound(r, q), q.pc = "wait",
         NEW c, c \in q.lost \/ c = CallOf(r, q, q.at, q.tries)
  PROVE  \E i \in 1..q.at, n \in 1..(MaxRetries + 1) :
           c = CallOf(r, q, i, n) /\ (i = q.at => n <= q.tries)
  <1>1. q.at \in 1..2 /\ q.tries \in 1..(MaxRetries + 1)
    BY DEF RequestRow, RowSound
  <1>2. CASE c \in q.lost
    <2>1. PICK i \in 1..q.at, n \in 1..(MaxRetries + 1) :
            /\ c = CallOf(r, q, i, n)
            /\ i = q.at => n < q.tries
      BY <1>2 DEF RowSound, Earlier
    <2> QED BY <1>1, <2>1
  <1>3. CASE c = CallOf(r, q, q.at, q.tries)
    <2>1. q.at \in 1..q.at /\ q.tries <= q.tries
      BY <1>1
    <2> QED BY <1>1, <1>3, <2>1
  <1> QED BY <1>2, <1>3

\* A row stays sound when the request goes on to a later call.
LEMMA LaterRow ==
  ASSUME MaxRetries \in Nat, NEW r \in Requests, NEW q \in RequestRow, RowSound(r, q), q.pc = "wait",
         NEW p \in RequestRow, p.pc = "submit", p.caller = q.caller, p.policy = q.policy,
         p.answer = {}, p.outcome = q.outcome,
         \/ p.at = q.at /\ p.tries = q.tries /\ p.tries <= MaxRetries
         \/ p.at = q.at + 1 /\ p.at <= Len(Chain(q.policy)) /\ p.tries = 0,
         \A c \in p.lost : c \in q.lost \/ c = CallOf(r, q, q.at, q.tries)
  PROVE  RowSound(r, p)
  <1>1. q.at \in 1..2 /\ p.at \in 1..2 /\ q.tries \in 0..(MaxRetries + 1)
        /\ p.tries \in 0..(MaxRetries + 1) /\ q.policy \in Policies
    BY DEF RequestRow
  <1>2. ASSUME NEW c \in p.lost
        PROVE  Earlier(r, p, c)
    <2>1. PICK i \in 1..q.at, n \in 1..(MaxRetries + 1) :
            c = CallOf(r, q, i, n) /\ (i = q.at => n <= q.tries)
      BY LostCalls
    <2>2. c = CallOf(r, p, i, n) /\ i \in 1..p.at
      BY <1>1, <2>1 DEF CallOf
    <2>3. i = p.at => n < p.tries \/ (n = p.tries /\ p.pc # "wait")
      BY <1>1, <2>1
    <2> QED BY <2>2, <2>3 DEF Earlier
  <1>3. p.at <= Len(Chain(p.policy)) /\ p.tries <= MaxRetries /\ p.outcome = "none"
    BY <1>1, ChainFacts DEF RowSound, RequestRow
  <1> QED BY <1>2, <1>3 DEF RowSound

\* A row with an answer is sound when the answer is the request's own.
LEMMA AnsweredRow ==
  ASSUME MaxRetries \in Nat, NEW r \in Requests, NEW q \in RequestRow, RowSound(r, q), q.pc = "wait",
         NEW p \in RequestRow, p.pc = "answered", p.caller = q.caller, p.policy = q.policy,
         p.at = q.at, p.tries = q.tries, p.outcome = q.outcome,
         \A a \in p.answer : Own(r, p, a), \A a, b \in p.answer : a = b,
         \A c \in p.lost : c \in q.lost \/ c = CallOf(r, q, q.at, q.tries)
  PROVE  RowSound(r, p)
  <1>1. q.at \in 1..2 /\ q.tries \in 0..(MaxRetries + 1)
    BY DEF RequestRow
  <1>2. ASSUME NEW c \in p.lost
        PROVE  Earlier(r, p, c)
    <2>1. PICK i \in 1..q.at, n \in 1..(MaxRetries + 1) :
            c = CallOf(r, q, i, n) /\ (i = q.at => n <= q.tries)
      BY LostCalls
    <2>2. c = CallOf(r, p, i, n)
      BY <2>1 DEF CallOf
    <2>3. i = p.at => n < p.tries \/ (n = p.tries /\ p.pc # "wait")
      BY <1>1, <2>1
    <2> QED BY <2>2, <2>3 DEF Earlier
  <1>3. p.outcome = "none" /\ p.at <= Len(Chain(p.policy))
    BY DEF RequestRow, RowSound
  <1> QED BY <1>2, <1>3 DEF RowSound

\* What a failed call leads to: another call, or the failure as the answer.
LEMMA FailedRow ==
  ASSUME MaxRetries \in Nat, GatewayTyped, NEW r \in Requests, RowSound(r, ask[r]), Waiting(r),
         NEW retryable \in BOOLEAN, NEW failure \in {"schema_failure", "error", "timeout"},
         NEW given \in Replies \cup {"none"},
         NEW p, p = Failed(r, Current(r), retryable, failure, given)
  PROVE  /\ p \in RequestRow
         /\ p.caller = ask[r].caller /\ p.policy = ask[r].policy /\ p.outcome = ask[r].outcome
         /\ p.lost = ask[r].lost
         /\ \/ /\ p.pc = "submit" /\ p.answer = {}
               /\ \/ p.at = ask[r].at /\ p.tries = ask[r].tries /\ p.tries <= MaxRetries
                  \/ p.at = ask[r].at + 1 /\ p.at <= Len(Chain(ask[r].policy)) /\ p.tries = 0
            \/ /\ p.pc = "answered" /\ p.at = ask[r].at /\ p.tries = ask[r].tries
               /\ p.answer = {[finish |-> failure, given |-> given, call |-> Current(r)]}
  <1> DEFINE q == ask[r]
  <1>1. q \in RequestRow /\ q.pc = "wait" /\ q.policy \in Policies /\ q.at \in 1..2 /\ q.answer = {}
        /\ q.tries \in 0..(MaxRetries + 1)
    BY DEF GatewayTyped, RequestRow, RowSound, Waiting
  <1>2. CASE retryable /\ q.tries <= MaxRetries
    <2>1. p = [q EXCEPT !.pc = "submit"]
      BY <1>2 DEF Failed
    <2> QED BY <1>1, <1>2, <2>1 DEF RequestRow
  <1>3. CASE ~ (retryable /\ q.tries <= MaxRetries) /\ q.at < Len(Chain(q.policy))
    <2>1. p = [q EXCEPT !.pc = "submit", !.at = q.at + 1, !.tries = 0]
      BY <1>3 DEF Failed
    <2> DEFINE last == Len(Chain(q.policy))
    <2>2. last \in 1..2 /\ q.at < last
      BY <1>1, <1>3, ChainFacts
    <2>3. q.at + 1 \in 1..2 /\ q.at + 1 <= last
      <3> HIDE DEF last, q
      <3> QED BY <1>1, <2>2
    <2>4. /\ p \in RequestRow /\ p.pc = "submit" /\ p.at = q.at + 1 /\ p.tries = 0
          /\ p.caller = q.caller /\ p.policy = q.policy /\ p.answer = q.answer
          /\ p.lost = q.lost /\ p.outcome = q.outcome
      <3>1. 0 \in 0..(MaxRetries + 1)
        OBVIOUS
      <3> HIDE DEF q
      <3> QED BY <1>1, <2>1, <2>3, <3>1 DEF RequestRow
    <2> QED BY <1>1, <2>3, <2>4
  <1>4. CASE ~ (retryable /\ q.tries <= MaxRetries) /\ ~ (q.at < Len(Chain(q.policy)))
    <2> DEFINE a == [finish |-> failure, given |-> given, call |-> Current(r)]
    <2>1. p = [q EXCEPT !.pc = "answered", !.answer = {a}]
      BY <1>4 DEF Failed, Answered
    <2>2. a \in Answers
      BY CurrentIsNotLost DEF Answers
    <2> HIDE DEF a
    <2>3. /\ p \in RequestRow /\ p.pc = "answered" /\ p.answer = {a}
          /\ p.caller = q.caller /\ p.policy = q.policy /\ p.at = q.at /\ p.tries = q.tries
          /\ p.lost = q.lost /\ p.outcome = q.outcome
      <3>1. {a} \in SUBSET Answers
        BY <2>2
      <3> HIDE DEF q
      <3> QED BY <1>1, <2>1, <3>1 DEF RequestRow
    <2> QED BY <2>3 DEF a
  <1> QED BY <1>2, <1>3, <1>4

\* A reply that comes in time leaves a sound row.
LEMMA HeardSound ==
  ASSUME MaxRetries \in Nat, GatewayTyped, NEW r \in Requests, RowSound(r, ask[r]), Waiting(r),
         NEW reply \in Replies
  PROVE  /\ Heard(r, Current(r), reply) \in RequestRow
         /\ Heard(r, Current(r), reply).policy = ask[r].policy
         /\ Heard(r, Current(r), reply).pc # "out"
         /\ RowSound(r, Heard(r, Current(r), reply))
  <1> DEFINE q == ask[r]
             p == Heard(r, Current(r), reply)
  <1>1. q \in RequestRow /\ q.pc = "wait" /\ q.policy \in Policies /\ q.at \in 1..2 /\ q.answer = {}
    BY DEF GatewayTyped, RequestRow, RowSound, Waiting
  <1>2. Current(r) \in Calls /\ Current(r) \notin q.lost /\ Current(r)[1] = r
    BY CurrentIsNotLost DEF Current
  <1>3. CASE reply = "good"
    <2> DEFINE finish == IF q.at = 1 THEN "stop" ELSE "fallback"
               a == [finish |-> finish, given |-> reply, call |-> Current(r)]
    <2>1. p = [q EXCEPT !.pc = "answered", !.answer = {a}]
      BY <1>3 DEF Heard, Answered
    <2>2. a \in Answers
      BY <1>2 DEF Answers
    <2>3. finish = "stop" <=> Current(r)[2] = Chain(q.policy)[1]
      BY <1>1, ChainFacts DEF Current, RowSound
    <2>4. Own(r, q, a)
      BY <1>2, <1>3, <2>3 DEF Own, Serves
    <2> HIDE DEF a
    <2>5. /\ p \in RequestRow /\ p.pc = "answered" /\ p.at = q.at /\ p.tries = q.tries /\ p.answer = {a}
          /\ p.caller = q.caller /\ p.policy = q.policy /\ p.outcome = q.outcome
          /\ p.lost = q.lost
      <3>1. {a} \in SUBSET Answers
        BY <2>2
      <3> HIDE DEF q
      <3> QED BY <1>1, <2>1, <3>1 DEF RequestRow
    <2>6. Own(r, p, a)
      BY <2>4, <2>5 DEF Own
    <2> HIDE DEF p, q
    <2>7. RowSound(r, p)
      BY <1>1, <2>5, <2>6, AnsweredRow DEF q
    <2> QED BY <2>5, <2>7 DEF p, q
  <1>4. CASE reply # "good"
    <2>1. PICK retryable \in BOOLEAN, failure \in {"schema_failure", "error", "timeout"} :
            /\ p = Failed(r, Current(r), retryable, failure, reply)
            /\ failure = "timeout" <=> reply = "late"
      BY <1>4 DEF Heard, Replies
    <2> HIDE DEF p
    <2>2. /\ p \in RequestRow
          /\ p.caller = q.caller /\ p.policy = q.policy /\ p.outcome = q.outcome
          /\ p.lost = q.lost
          /\ \/ /\ p.pc = "submit" /\ p.answer = {}
                /\ \/ p.at = q.at /\ p.tries = q.tries /\ p.tries <= MaxRetries
                   \/ p.at = q.at + 1 /\ p.at <= Len(Chain(q.policy)) /\ p.tries = 0
             \/ /\ p.pc = "answered" /\ p.at = q.at /\ p.tries = q.tries
                /\ p.answer = {[finish |-> failure, given |-> reply, call |-> Current(r)]}
      BY <2>1, FailedRow DEF Waiting
    <2>3. ASSUME p.pc = "submit"
          PROVE  RowSound(r, p)
      BY <1>1, <2>2, <2>3, LaterRow
    <2>4. ASSUME p.pc = "answered"
          PROVE  RowSound(r, p)
      <3>1. \A a \in p.answer : Own(r, p, a)
        BY <1>2, <2>1, <2>2, <2>4 DEF Own, Serves
      <3>2. \A a, b \in p.answer : a = b
        BY <2>2, <2>4
      <3> QED BY <1>1, <2>2, <2>4, <3>1, <3>2, AnsweredRow
    <2>5. RowSound(r, p)
      BY <2>2, <2>3, <2>4
    <2> QED BY <2>2, <2>5 DEF p
  <1> QED BY <1>3, <1>4

-----------------------------------------------------------------------------
(* The steps.                                                              *)

LEMMA FlyingCalls ==
  ASSUME GatewayTyped
  PROVE  /\ InFlight \subseteq Calls
         /\ \A c \in InFlight : c[1] \in Requests /\ c[2] \in Providers
  <1>1. \A i \in 1..Len(pending) : pending[i] \in Calls
    BY DEF GatewayTyped
  <1>2. InFlight \subseteq Calls
    BY <1>1 DEF GatewayTyped, InFlight
  <1>3. \A c \in Calls : c[1] \in Requests /\ c[2] \in Providers
    BY DEF Calls
  <1> QED BY <1>2, <1>3

\* A step that gives one request a sound row of the same policy.
LEMMA RowReplaced ==
  ASSUME GatewayInv, NEW r \in Requests, NEW p \in RequestRow, RowSound(r, p), p.pc # "out",
         ask[r].pc = "out" \/ p.policy = ask[r].policy,
         ask' = [ask EXCEPT ![r] = p]
  PROVE  /\ ask' \in [Requests -> RequestRow]
         /\ \A s \in Requests : RowSound(s, ask'[s])
         /\ \A c \in InFlight : CallSound(c)'
  <1>1. ask \in [Requests -> RequestRow]
    BY DEF GatewayInv, GatewayTyped
  <1>2. ask' \in [Requests -> RequestRow] /\ ask'[r] = p /\ \A s \in Requests \ {r} : ask'[s] = ask[s]
    BY <1>1
  <1>3. \A s \in Requests : RowSound(s, ask'[s])
    BY <1>2 DEF GatewayInv
  <1>4. ASSUME NEW c \in InFlight
        PROVE  CallSound(c)'
    <2>1. c[1] \in Requests /\ CallSound(c)
      BY <1>4, FlyingCalls DEF GatewayInv
    <2>2. ask'[c[1]].pc # "out" /\ ask'[c[1]].policy = ask[c[1]].policy
      BY <1>2, <2>1 DEF CallSound
    <2> QED BY <2>1, <2>2 DEF CallSound
  <1> QED BY <1>2, <1>3, <1>4

LEMMA FreshRow ==
  ASSUME MaxRetries \in Nat
  PROVE  /\ NoRequest \in RequestRow
         /\ NoRequest.pc = "out" /\ NoRequest.policy = "local_first" /\ NoRequest.at = 1
         /\ NoRequest.tries = 0 /\ NoRequest.lost = {} /\ NoRequest.answer = {}
         /\ NoRequest.outcome = "none"
  <1>1. 1 \in 1..2 /\ 0 \in 0..(MaxRetries + 1) /\ {} \in SUBSET Calls /\ {} \in SUBSET Answers
    OBVIOUS
  <1> QED BY <1>1 DEF NoRequest, RequestRow, Policies

LEMMA GenerateSound ==
  ASSUME MaxRetries \in Nat, GatewayInv, NEW r \in Requests, NEW caller \in Callers,
         NEW policy \in Policies, Generate(r, caller, policy)
  PROVE  GatewayInv'
  <1> DEFINE p == [NoRequest EXCEPT !.pc = "submit", !.caller = caller, !.policy = policy]
  <1>1. p \in RequestRow /\ p.pc = "submit" /\ p.caller = caller /\ p.policy = policy /\ p.at = 1
        /\ p.tries = 0 /\ p.lost = {} /\ p.answer = {} /\ p.outcome = "none"
    <2>1. NoRequest \in RequestRow /\ NoRequest.at = 1 /\ NoRequest.tries = 0 /\ NoRequest.lost = {}
          /\ NoRequest.answer = {} /\ NoRequest.outcome = "none"
      BY FreshRow
    <2> QED BY <2>1 DEF RequestRow
  <1>2. ask' = [ask EXCEPT ![r] = p] /\ ask[r].pc = "out" /\ UNCHANGED <<pending, running>>
    BY DEF Generate
  <1> HIDE DEF p
  <1>3. RowSound(r, p)
    <2>1. 1 <= Len(Chain(policy))
      BY ChainFacts
    <2> QED BY <1>1, <2>1 DEF RowSound
  <1>4. InFlight' = InFlight
    BY <1>2 DEF InFlight
  <1> QED BY <1>1, <1>2, <1>3, <1>4, RowReplaced DEF GatewayInv, GatewayTyped

LEMMA SubmitSound ==
  ASSUME MaxRetries \in Nat, GatewayInv, NEW r \in Requests, Submit(r)
  PROVE  GatewayInv'
  <1> DEFINE q == ask[r]
  <1>0. PICK p : p = [q EXCEPT !.pc = "wait", !.tries = q.tries + 1]
    OBVIOUS
  <1>1. q \in RequestRow /\ RowSound(r, q) /\ q.pc = "submit" /\ q.policy \in Policies /\ q.at \in 1..2
    BY DEF GatewayInv, GatewayTyped, RequestRow, Submit
  <1>2. q.tries \in 0..MaxRetries
    BY <1>1 DEF RowSound, RequestRow
  <1>3. /\ p \in RequestRow /\ p.pc = "wait" /\ p.tries = q.tries + 1 /\ p.caller = q.caller
        /\ p.policy = q.policy /\ p.at = q.at /\ p.lost = q.lost /\ p.answer = q.answer
        /\ p.outcome = q.outcome
    <2>1. q.tries + 1 \in 0..(MaxRetries + 1)
      BY <1>2
    <2> HIDE DEF q
    <2> QED BY <1>0, <1>1, <2>1 DEF RequestRow
  <1>4. ask' = [ask EXCEPT ![r] = p] /\ ask'[r] = p
    BY <1>0 DEF Submit, GatewayInv, GatewayTyped
  <1>5. RowSound(r, p)
    <2>1. ASSUME NEW c \in p.lost
          PROVE  Earlier(r, p, c)
      <3>1. PICK i \in 1..q.at, n \in 1..(MaxRetries + 1) :
              c = CallOf(r, q, i, n) /\ (i = q.at => n <= q.tries)
        BY <1>1, <1>2, <1>3, <2>1 DEF RowSound, Earlier
      <3>2. c = CallOf(r, p, i, n)
        BY <1>3, <3>1 DEF CallOf
      <3>3. i = p.at => n < p.tries
        BY <1>1, <1>2, <1>3, <3>1
      <3> QED BY <1>3, <3>2, <3>3 DEF Earlier
    <2>2. p.tries >= 1
      BY <1>2, <1>3
    <2> QED BY <1>1, <1>3, <2>1, <2>2 DEF RowSound
  <1>6. /\ ask' \in [Requests -> RequestRow]
        /\ \A s \in Requests : RowSound(s, ask'[s])
        /\ \A c \in InFlight : CallSound(c)'
    BY <1>1, <1>3, <1>4, <1>5, RowReplaced
  <1>c. PICK c : c = CallOf(r, p, p.at, p.tries)
    OBVIOUS
  <1>7. pending' = Append(pending, c) /\ UNCHANGED running
    BY <1>4, <1>c DEF Submit, Current, CallOf
  <1>8. c \in Calls /\ CallSound(c)'
    <2>1. p.at \in 1..p.at /\ p.tries \in 1..(MaxRetries + 1) /\ p.at <= Len(Chain(p.policy))
      BY <1>1, <1>2, <1>3 DEF RowSound
    <2>2. c \in Calls
      BY <1>3, <1>c, <2>1, CallFacts
    <2>3. p.at \in 1..Len(Chain(p.policy))
      BY <1>1, <1>3, <2>1, ChainFacts
    <2>4. c[1] = r /\ c[2] = Chain(p.policy)[p.at]
      BY <1>c DEF CallOf
    <2> QED BY <1>3, <1>4, <2>2, <2>3, <2>4 DEF CallSound
  <1>9. pending' \in Seq(Calls) /\ InFlight' \subseteq InFlight \cup {c}
    <2>1. pending \in Seq(Calls) /\ pending' = Append(pending, c)
      BY <1>7 DEF GatewayInv, GatewayTyped
    <2>2. /\ pending' \in Seq(Calls) /\ Len(pending') = Len(pending) + 1
          /\ \A i \in 1..Len(pending') : pending'[i] = IF i <= Len(pending) THEN pending[i] ELSE c
      BY <1>8, <2>1
    <2>3. \A i \in 1..Len(pending') : i <= Len(pending) => i \in 1..Len(pending)
      BY <2>1
    <2> QED BY <1>7, <2>2, <2>3 DEF InFlight
  <1> QED BY <1>7, <1>6, <1>8, <1>9 DEF GatewayInv, GatewayTyped

LEMMA StartSound ==
  ASSUME GatewayInv, Start
  PROVE  GatewayInv'
  <1>1. pending \in Seq(Calls) /\ pending # <<>> /\ UNCHANGED ask
        /\ running' = running \cup {Head(pending)} /\ pending' = Tail(pending)
    BY DEF GatewayInv, GatewayTyped, Start
  <1>2. /\ pending' \in Seq(Calls) /\ Head(pending) = pending[1] /\ Len(pending) \in Nat \ {0}
        /\ Len(pending') = Len(pending) - 1
        /\ \A i \in 1..Len(pending') : pending'[i] = pending[i + 1]
    BY <1>1
  <1>3. Head(pending) \in InFlight
    BY <1>2 DEF InFlight
  <1>4. InFlight' \subseteq InFlight
    <2>1. \A i \in 1..Len(pending') : i + 1 \in 1..Len(pending)
      BY <1>2
    <2> QED BY <1>1, <1>2, <1>3, <2>1 DEF InFlight
  <1>5. running' \subseteq Calls
    BY <1>1, <1>3, FlyingCalls DEF GatewayInv, GatewayTyped
  <1>6. \A c \in InFlight' : CallSound(c)'
    BY <1>1, <1>4 DEF GatewayInv, CallSound
  <1> QED BY <1>1, <1>2, <1>5, <1>6 DEF GatewayInv, GatewayTyped

LEMMA ReturnsSound ==
  ASSUME MaxRetries \in Nat, GatewayInv, NEW c \in Calls, NEW reply \in Replies, Returns(c, reply)
  PROVE  GatewayInv'
  <1>1. InFlight' \subseteq InFlight /\ running' \subseteq Calls /\ UNCHANGED pending
    BY DEF Returns, InFlight, GatewayInv, GatewayTyped
  <1>2. ASSUME NEW r \in Requests
        PROVE  /\ ask'[r] \in RequestRow /\ RowSound(r, ask'[r])
               /\ ask'[r].policy = ask[r].policy
               /\ ask[r].pc # "out" => ask'[r].pc # "out"
    <2>1. ask'[r] = IF Awaits(r, c) THEN Heard(r, c, reply) ELSE ask[r]
      BY DEF Returns
    <2>2. ask[r] \in RequestRow /\ RowSound(r, ask[r])
      BY DEF GatewayInv, GatewayTyped
    <2>3. CASE Awaits(r, c)
      <3>1. Waiting(r) /\ ask'[r] = Heard(r, Current(r), reply)
        BY <2>1, <2>3 DEF Awaits
      <3> QED BY <2>2, <3>1, HeardSound DEF GatewayInv
    <2>4. CASE ~ Awaits(r, c)
      BY <2>1, <2>2, <2>4
    <2> QED BY <2>3, <2>4
  <1>3. ask' \in [Requests -> RequestRow]
    <2>1. ask' = [r \in Requests |-> ask'[r]]
      BY DEF Returns
    <2> QED BY <1>2, <2>1
  <1>4. ASSUME NEW d \in InFlight
        PROVE  CallSound(d)'
    <2>1. d[1] \in Requests /\ CallSound(d)
      BY <1>4, FlyingCalls DEF GatewayInv
    <2> QED BY <1>2, <2>1 DEF CallSound
  <1> QED BY <1>1, <1>2, <1>3, <1>4 DEF GatewayInv, GatewayTyped

LEMMA TimesOutSound ==
  ASSUME MaxRetries \in Nat, GatewayInv, NEW r \in Requests, TimesOut(r)
  PROVE  GatewayInv'
  <1> DEFINE q == ask[r]
  <1>1. q \in RequestRow /\ RowSound(r, q) /\ Waiting(r) /\ GatewayTyped /\ q.pc = "wait"
    BY DEF GatewayInv, GatewayTyped, TimesOut, Waiting
  <1>2. PICK f : f = Failed(r, Current(r), TRUE, "timeout", "none")
    OBVIOUS
  <1>3. PICK call : call = Current(r)
    OBVIOUS
  <1>4. PICK p : p = [f EXCEPT !.lost = f.lost \cup {call}]
    OBVIOUS
  <1>5. call \in Calls /\ call[1] = r /\ call = CallOf(r, q, q.at, q.tries)
    BY <1>1, <1>3, CurrentIsNotLost DEF Current, CallOf
  <1>6. /\ f \in RequestRow
        /\ f.caller = q.caller /\ f.policy = q.policy /\ f.outcome = q.outcome
        /\ f.lost = q.lost
        /\ \/ /\ f.pc = "submit" /\ f.answer = {}
              /\ \/ f.at = q.at /\ f.tries = q.tries /\ f.tries <= MaxRetries
                 \/ f.at = q.at + 1 /\ f.at <= Len(Chain(q.policy)) /\ f.tries = 0
           \/ /\ f.pc = "answered" /\ f.at = q.at /\ f.tries = q.tries
              /\ f.answer = {[finish |-> "timeout", given |-> "none", call |-> call]}
    <2>1. PICK retryable \in BOOLEAN, failure \in {"schema_failure", "error", "timeout"},
               given \in Replies \cup {"none"} :
            retryable = TRUE /\ failure = "timeout" /\ given = "none"
      OBVIOUS
    <2>2. f = Failed(r, Current(r), retryable, failure, given)
      BY <1>2, <2>1
    <2>3. /\ f \in RequestRow
          /\ f.caller = q.caller /\ f.policy = q.policy /\ f.outcome = q.outcome
          /\ f.lost = q.lost
          /\ \/ /\ f.pc = "submit" /\ f.answer = {}
                /\ \/ f.at = q.at /\ f.tries = q.tries /\ f.tries <= MaxRetries
                   \/ f.at = q.at + 1 /\ f.at <= Len(Chain(q.policy)) /\ f.tries = 0
             \/ /\ f.pc = "answered" /\ f.at = q.at /\ f.tries = q.tries
                /\ f.answer = {[finish |-> failure, given |-> given, call |-> Current(r)]}
      BY <1>1, <2>2, FailedRow
    <2> QED BY <1>3, <2>1, <2>3
  <1>7. /\ p \in RequestRow /\ p.pc = f.pc /\ p.at = f.at /\ p.tries = f.tries /\ p.answer = f.answer
        /\ p.caller = f.caller /\ p.policy = f.policy /\ p.outcome = f.outcome
        /\ p.lost = f.lost \cup {call}
    <2>1. f.lost \cup {call} \in SUBSET Calls
      BY <1>5, <1>6 DEF RequestRow
    <2> QED BY <1>4, <1>6, <2>1 DEF RequestRow
  <1>8. \A c \in p.lost : c \in q.lost \/ c = CallOf(r, q, q.at, q.tries)
    BY <1>5, <1>6, <1>7
  <1>9. ASSUME p.pc = "submit"
        PROVE  RowSound(r, p)
    BY <1>1, <1>6, <1>7, <1>8, <1>9, LaterRow
  <1>10. ASSUME p.pc = "answered"
         PROVE  RowSound(r, p)
    <2>1. p.answer = {[finish |-> "timeout", given |-> "none", call |-> call]}
      BY <1>6, <1>7, <1>10
    <2>2. \A a \in p.answer : Own(r, p, a)
      BY <1>5, <1>7, <2>1 DEF Own, Serves
    <2>3. \A a, b \in p.answer : a = b
      BY <2>1
    <2> QED BY <1>1, <1>6, <1>7, <1>8, <1>10, <2>2, <2>3, AnsweredRow
  <1>11. ask' = [ask EXCEPT ![r] = p] /\ UNCHANGED <<pending, running>>
    BY <1>2, <1>3, <1>4 DEF TimesOut
  <1>12. RowSound(r, p) /\ p.pc # "out" /\ p.policy = q.policy
    BY <1>6, <1>7, <1>9, <1>10
  <1>13. InFlight' = InFlight
    BY <1>11 DEF InFlight
  <1>14. /\ ask' \in [Requests -> RequestRow]
         /\ \A s \in Requests : RowSound(s, ask'[s])
         /\ \A c \in InFlight : CallSound(c)'
    BY <1>7, <1>11, <1>12, RowReplaced
  <1> QED BY <1>11, <1>13, <1>14 DEF GatewayInv, GatewayTyped

\* Only the voice assistant goes on with an answer that is a failure.
LEMMA OutcomeEarned ==
  ASSUME Callers \subseteq {"voice", "copy", "lab"}, NEW caller \in Callers, caller # "voice",
         NEW answer, "served" \in Outcomes(caller, answer)
  PROVE  Serves(answer)
  <1>1. CASE caller = "copy"
    BY <1>1 DEF Outcomes
  <1>2. CASE caller = "lab"
    BY <1>2 DEF Outcomes
  <1> QED BY <1>1, <1>2

LEMMA ReceiveSound ==
  ASSUME MaxRetries \in Nat, Callers \subseteq {"voice", "copy", "lab"}, GatewayInv,
         NEW r \in Requests, Receive(r)
  PROVE  GatewayInv'
  <1> DEFINE q == ask[r]
  <1>1. q \in RequestRow /\ RowSound(r, q) /\ q.pc = "answered" /\ q.caller \in Callers
    BY DEF GatewayInv, GatewayTyped, Receive, RowSound
  <1>a. PICK a \in q.answer : \E outcome \in Outcomes(q.caller, a) :
          ask' = [ask EXCEPT ![r].pc = "done", ![r].outcome = outcome]
    BY DEF Receive
  <1>2. PICK outcome \in Outcomes(q.caller, a) :
          ask' = [ask EXCEPT ![r].pc = "done", ![r].outcome = outcome]
    BY <1>a
  <1>3. outcome \in {"served", "failed"}
    BY <1>1, <1>2 DEF Outcomes
  <1>4. PICK p : p = [q EXCEPT !.pc = "done", !.outcome = outcome]
    OBVIOUS
  <1>5. /\ p \in RequestRow /\ p.pc = "done" /\ p.outcome = outcome
        /\ p.caller = q.caller /\ p.policy = q.policy /\ p.at = q.at /\ p.tries = q.tries
        /\ p.lost = q.lost /\ p.answer = q.answer
    <2> HIDE DEF q
    <2> QED BY <1>1, <1>3, <1>4 DEF RequestRow
  <1>6. ask' = [ask EXCEPT ![r] = p] /\ UNCHANGED <<pending, running>>
    BY <1>2, <1>4 DEF Receive
  <1>7. RowSound(r, p)
    <2>1. ASSUME NEW c \in p.lost
          PROVE  Earlier(r, p, c)
      <3>1. Earlier(r, q, c)
        BY <1>1, <1>5, <2>1 DEF RowSound
      <3> QED BY <1>1, <1>5, <3>1 DEF Earlier, CallOf
    <2>2. \A b \in p.answer : Own(r, p, b)
      BY <1>1, <1>5 DEF RowSound, Own
    <2>3. ASSUME p.outcome = "served", p.caller # "voice", NEW b \in p.answer
          PROVE  b.given = "good"
      <3>1. b = a
        BY <1>1, <1>2, <1>5 DEF RowSound
      <3>2. Serves(a)
        BY <1>1, <1>2, <1>5, <2>3, OutcomeEarned
      <3> QED BY <2>2, <3>1, <3>2 DEF Own
    <2> QED BY <1>1, <1>5, <2>1, <2>2, <2>3 DEF RowSound
  <1>8. InFlight' = InFlight
    BY <1>6 DEF InFlight
  <1>9. /\ ask' \in [Requests -> RequestRow]
        /\ \A s \in Requests : RowSound(s, ask'[s])
        /\ \A c \in InFlight : CallSound(c)'
    BY <1>5, <1>6, <1>7, RowReplaced
  <1> QED BY <1>6, <1>8, <1>9 DEF GatewayInv, GatewayTyped

LEMMA GatewayStart ==
  ASSUME MaxRetries \in Nat, GatewayInit
  PROVE  GatewayInv
  <1>1. ask = [r \in Requests |-> NoRequest] /\ pending = <<>> /\ running = {}
    BY DEF GatewayInit
  <1>2. GatewayTyped
    BY <1>1, FreshRow DEF GatewayTyped
  <1>3. ASSUME NEW r \in Requests
        PROVE  RowSound(r, ask[r])
    <2>1. ask[r] = NoRequest
      BY <1>1
    <2>2. 1 <= Len(Chain("local_first"))
      BY DEF Chain
    <2> QED BY <2>1, <2>2, FreshRow DEF RowSound
  <1>4. InFlight = {}
    BY <1>1 DEF InFlight
  <1> QED BY <1>2, <1>3, <1>4 DEF GatewayInv

LEMMA GatewayStep ==
  ASSUME MaxRetries \in Nat, Callers \subseteq {"voice", "copy", "lab"}, GatewayInv,
         [GatewayNext]_gatewayVars
  PROVE  GatewayInv'
  <1>1. CASE Start
    BY <1>1, StartSound
  <1>2. ASSUME NEW r \in Requests, Submit(r) \/ TimesOut(r) \/ Receive(r)
        PROVE  GatewayInv'
    BY <1>2, SubmitSound, TimesOutSound, ReceiveSound
  <1>3. ASSUME NEW r \in Requests, NEW caller \in Callers, NEW policy \in Policies,
               Generate(r, caller, policy)
        PROVE  GatewayInv'
    BY <1>3, GenerateSound
  <1>4. ASSUME NEW c \in Calls, NEW reply \in Replies, Returns(c, reply)
        PROVE  GatewayInv'
    BY <1>4, ReturnsSound
  <1>5. CASE UNCHANGED gatewayVars
    BY <1>5 DEF gatewayVars, GatewayInv, GatewayTyped, InFlight, CallSound
  <1> QED BY <1>1, <1>2, <1>3, <1>4, <1>5 DEF GatewayNext

LEMMA GatewayInvEarns ==
  ASSUME GatewayInv
  PROVE  AnswerIsEarned
  <1>1. AnswersAreOwn
    BY DEF GatewayInv, RowSound, Own, AnswersAreOwn, FirstChoice
  <1>2. PolicyIsKept
    <2> SUFFICES ASSUME NEW c \in InFlight
                 PROVE  /\ ask[c[1]].policy = "local_only" => c[2] = "ollama"
                        /\ ask[c[1]].policy = "cloud_only" => c[2] = "cloud"
      BY DEF PolicyIsKept, InFlight
    <2>1. CallSound(c) /\ ask[c[1]].policy \in Policies
      BY FlyingCalls DEF GatewayInv, GatewayTyped, RequestRow
    <2> QED BY <2>1, ChainFacts DEF CallSound
  <1>3. \A r \in Requests : ask[r].outcome = "served" /\ ask[r].caller # "voice" =>
          \A a \in ask[r].answer : a.given = "good"
    BY DEF GatewayInv, RowSound
  <1> QED BY <1>1, <1>2, <1>3 DEF AnswerIsEarned

-----------------------------------------------------------------------------
\* However many requests share the threads of the pool, and however calls
\* queue, hang, are given up and return late, an answer is the request's own,
\* no provider is asked that its policy forbids, and what authoring and the lab
\* take for a draft or a report a model gave: services/llm_gateway_service.py.
THEOREM AnswersAreEarned == GatewaySpec => []AnswerIsEarned
  <1>1. GatewayInit => GatewayInv
    BY GatewayStart, LlmGatewayAssumption
  <1>2. GatewayInv /\ [GatewayNext]_gatewayVars => GatewayInv'
    BY GatewayStep, LlmGatewayAssumption
  <1>3. GatewayInv => AnswerIsEarned
    BY GatewayInvEarns
  <1> QED BY <1>1, <1>2, <1>3, PTL DEF GatewaySpec

-----------------------------------------------------------------------------
(***************************************************************************)
(* The outbox of the worker process, when deliveries end within their      *)
(* lease.                                                                  *)
(***************************************************************************)

\* A worker at an event holds its row, which nobody has settled, and says it is
\* published only of an event in the sink.
DeliverySound(w, k) ==
  k.pc # "idle" =>
    /\ row[k.e].lockedBy = w /\ ~row[k.e].published /\ ~row[k.e].dead
    /\ k.pc = "published" => k.e \in sink

OutboxInv ==
  /\ OrderOutboxTypeOK
  /\ \A w \in Workers : DeliverySound(w, worker[w])
  /\ SettledOneWay

LEMMA NoDeliveryType == NoDelivery \in Delivery /\ NoDelivery.pc = "idle"
  BY OrderOutboxAssumption DEF NoDelivery, Delivery

LEMMA OutboxStart == OrderOutboxInit => OutboxInv
  <1> SUFFICES ASSUME OrderOutboxInit PROVE OutboxInv
    OBVIOUS
  <1> DEFINE fresh == [there |-> FALSE, published |-> FALSE, dead |-> FALSE,
                       ripe |-> TRUE, attempts |-> 0, lockedBy |-> "nobody"]
  <1>1. fresh \in OutboxRow /\ ~fresh.published
    BY OrderOutboxAssumption DEF OutboxRow, Workers0
  <1>2. row = [e \in Events |-> fresh]
    BY DEF OrderOutboxInit
  <1> HIDE DEF fresh
  <1> QED
    BY <1>1, <1>2, NoDeliveryType
    DEF OrderOutboxInit, OutboxInv, OrderOutboxTypeOK, DeliverySound, SettledOneWay

\* A row r for event e fits the delivery that worker w has.
Fits(w, e, r) ==
  worker'[w].pc # "idle" =>
    \/ worker'[w] = worker[w] /\ worker[w].e # e
    \/ worker'[w].e = e /\ worker'[w].pc = "check" /\ r.lockedBy = w /\ ~r.published /\ ~r.dead
    \/ /\ worker'[w] = worker[w] /\ r.lockedBy = row[e].lockedBy
       /\ r.published = row[e].published /\ r.dead = row[e].dead

LEMMA RowMoves ==
  ASSUME OutboxInv, NEW e \in Events, NEW r \in OutboxRow, row' = [row EXCEPT ![e] = r],
         worker' \in [Workers -> Delivery], UNCHANGED sink,
         \A w \in Workers : Fits(w, e, r),
         r.published => e \in sink /\ ~r.dead
  PROVE  OutboxInv'
  <1>1. \A f \in Events : row'[f] = IF f = e THEN r ELSE row[f]
    BY DEF OutboxInv, OrderOutboxTypeOK
  <1>2. OrderOutboxTypeOK'
    BY DEF OutboxInv, OrderOutboxTypeOK
  <1>3. SettledOneWay'
    BY <1>1 DEF OutboxInv, SettledOneWay
  <1>4. ASSUME NEW w \in Workers, worker'[w].pc # "idle" PROVE DeliverySound(w, worker[w])'
    <2>1. worker'[w].e \in Events
      BY <1>2 DEF OrderOutboxTypeOK, Delivery
    <2>2. DeliverySound(w, worker[w])
      BY DEF OutboxInv
    <2>3. Fits(w, e, r)
      OBVIOUS
    <2> QED BY <1>1, <1>4, <2>1, <2>2, <2>3 DEF DeliverySound, Fits
  <1>5. \A w \in Workers : DeliverySound(w, worker[w])'
    BY <1>4 DEF DeliverySound
  <1> QED BY <1>2, <1>3, <1>5 DEF OutboxInv

\* A worker moves and leaves the rows alone.
LEMMA WorkerMoves ==
  ASSUME OutboxInv, NEW w \in Workers, NEW k \in Delivery, worker' = [worker EXCEPT ![w] = k],
         UNCHANGED row, sink \subseteq sink', sink' \subseteq Events,
         k.pc # "idle" => worker[w].pc # "idle" /\ k.e = worker[w].e,
         k.pc = "published" => k.e \in sink'
  PROVE  OutboxInv'
  <1>1. \A v \in Workers : worker'[v] = IF v = w THEN k ELSE worker[v]
    BY DEF OutboxInv, OrderOutboxTypeOK
  <1>2. OrderOutboxTypeOK'
    BY DEF OutboxInv, OrderOutboxTypeOK
  <1> QED BY <1>1, <1>2 DEF OutboxInv, DeliverySound, SettledOneWay

LEMMA RowActions ==
  ASSUME ~Lapsing, OutboxInv, NEW e \in Events, Emit(e) \/ Backoff(e) \/ LeaseLapses(e)
  PROVE  OutboxInv'
  <1>0. /\ OrderOutboxTypeOK /\ row[e] \in OutboxRow /\ UNCHANGED <<sink, worker>>
        /\ worker \in [Workers -> Delivery]
        /\ row[e].published => e \in sink /\ ~row[e].dead
    BY DEF OutboxInv, OrderOutboxTypeOK, SettledOneWay, Emit, Backoff, LeaseLapses
  <1>1. CASE Emit(e)
    <2> DEFINE r == [row[e] EXCEPT !.there = TRUE]
    <2>1. row' = [row EXCEPT ![e] = r]
      BY <1>0, <1>1 DEF Emit, OrderOutboxTypeOK
    <2>2. /\ r \in OutboxRow /\ r.published = row[e].published /\ r.dead = row[e].dead
          /\ r.lockedBy = row[e].lockedBy
      BY <1>0 DEF OutboxRow
    <2>3. \A w \in Workers : Fits(w, e, r)
      BY <1>0, <2>2 DEF Fits
    <2> HIDE DEF r
    <2> QED BY <1>0, <2>1, <2>2, <2>3, RowMoves
  <1>2. CASE Backoff(e)
    <2> DEFINE r == [row[e] EXCEPT !.ripe = TRUE]
    <2>1. row' = [row EXCEPT ![e] = r]
      BY <1>0, <1>2 DEF Backoff, OrderOutboxTypeOK
    <2>2. /\ r \in OutboxRow /\ r.published = row[e].published /\ r.dead = row[e].dead
          /\ r.lockedBy = row[e].lockedBy
      BY <1>0 DEF OutboxRow
    <2>3. \A w \in Workers : Fits(w, e, r)
      BY <1>0, <2>2 DEF Fits
    <2> HIDE DEF r
    <2> QED BY <1>0, <2>1, <2>2, <2>3, RowMoves
  <1>3. CASE LeaseLapses(e)
    <2> DEFINE r == [row[e] EXCEPT !.lockedBy = "nobody"]
    <2>1. row' = [row EXCEPT ![e] = r]
      BY <1>0, <1>3 DEF LeaseLapses, OrderOutboxTypeOK
    <2>2. r \in OutboxRow /\ r.published = row[e].published /\ r.dead = row[e].dead
      BY <1>0 DEF OutboxRow, Workers0
    <2>3. \A w \in Workers : Fits(w, e, r)
      BY <1>0, <1>3 DEF LeaseLapses, WorkerAt, Fits
    <2> HIDE DEF r
    <2> QED BY <1>0, <2>1, <2>2, <2>3, RowMoves
  <1> QED BY <1>1, <1>2, <1>3

LEMMA ClaimSound ==
  ASSUME OutboxInv, NEW w \in Workers, NEW e \in Events, Claim(w, e)
  PROVE  OutboxInv'
  <1> DEFINE r == [row[e] EXCEPT !.attempts = @ + 1, !.lockedBy = w]
             k == [NoDelivery EXCEPT !.pc = "check", !.e = e]
  <1>0. /\ OrderOutboxTypeOK /\ row[e] \in OutboxRow /\ row[e].attempts < MaxClaims
        /\ ~row[e].published /\ ~row[e].dead /\ row[e].lockedBy = "nobody" /\ UNCHANGED sink
    BY DEF OutboxInv, OrderOutboxTypeOK, Claim, Claimable
  <1>1. row' = [row EXCEPT ![e] = r] /\ worker' = [worker EXCEPT ![w] = k]
    BY <1>0 DEF Claim, OrderOutboxTypeOK
  <1>2. r \in OutboxRow /\ ~r.published /\ ~r.dead /\ r.lockedBy = w
    <2>1. row[e].attempts + 1 \in 0..MaxClaims
      BY <1>0, OrderOutboxAssumption DEF OutboxRow
    <2> QED BY <1>0, <2>1 DEF OutboxRow, Workers0
  <1>3. k \in Delivery /\ k.pc = "check" /\ k.e = e
    BY NoDeliveryType DEF Delivery
  <1> HIDE DEF r, k
  <1>4. /\ worker' \in [Workers -> Delivery]
        /\ \A v \in Workers : worker'[v] = IF v = w THEN k ELSE worker[v]
    BY <1>0, <1>1, <1>3 DEF OrderOutboxTypeOK
  <1>5. \A v \in Workers : worker[v].pc # "idle" => worker[v].e # e
    BY <1>0, OrderOutboxAssumption DEF OutboxInv, DeliverySound
  <1>6. \A v \in Workers : Fits(v, e, r)
    BY <1>2, <1>3, <1>4, <1>5 DEF Fits
  <1> QED BY <1>0, <1>1, <1>2, <1>4, <1>6, RowMoves

\* The row of an event is settled by the one worker at it.
LEMMA SettleSound ==
  ASSUME OutboxInv, NEW w \in Workers, MarkPublished(w) \/ MarkFailed(w)
  PROVE  OutboxInv'
  <1> DEFINE e == worker[w].e
  <1>0. /\ OrderOutboxTypeOK /\ e \in Events /\ row[e] \in OutboxRow
        /\ worker[w].pc \in {"published", "failed"} /\ DeliverySound(w, worker[w])
        /\ UNCHANGED sink /\ worker' = [worker EXCEPT ![w] = NoDelivery]
    BY DEF OutboxInv, OrderOutboxTypeOK, Delivery, MarkPublished, MarkFailed, WorkerAt, WorkerIdles
  <1>1. row[e].lockedBy = w /\ ~row[e].published /\ ~row[e].dead
    BY <1>0 DEF DeliverySound
  <1>2. /\ worker' \in [Workers -> Delivery]
        /\ \A v \in Workers : worker'[v] = IF v = w THEN NoDelivery ELSE worker[v]
    BY <1>0, NoDeliveryType DEF OrderOutboxTypeOK
  <1>3. \A v \in Workers : worker'[v].pc # "idle" => worker'[v] = worker[v] /\ worker[v].e # e
    BY <1>0, <1>1, <1>2, NoDeliveryType DEF OutboxInv, DeliverySound
  <1>4. CASE MarkPublished(w)
    <2> DEFINE r == [row[e] EXCEPT !.published = TRUE, !.lockedBy = "nobody"]
    <2>1. row' = [row EXCEPT ![e] = r] /\ e \in sink
      BY <1>0, <1>1, <1>4 DEF MarkPublished, WorkerAt, OrderOutboxTypeOK, DeliverySound
    <2>2. r \in OutboxRow /\ r.dead = row[e].dead
      BY <1>0 DEF OutboxRow, Workers0
    <2> HIDE DEF r, e
    <2>3. \A v \in Workers : Fits(v, e, r)
      BY <1>3 DEF Fits
    <2> QED BY <1>0, <1>1, <1>2, <2>1, <2>2, <2>3, RowMoves
  <1>5. CASE MarkFailed(w)
    <2> DEFINE final == row[e].attempts >= MaxAttempts
               r == [row[e] EXCEPT !.dead = @ \/ final, !.ripe = final /\ @, !.lockedBy = "nobody"]
    <2>1. row' = [row EXCEPT ![e] = r]
      BY <1>0, <1>5 DEF MarkFailed, OrderOutboxTypeOK
    <2>2. final \in BOOLEAN
      OBVIOUS
    <2> HIDE DEF final
    <2>3. r \in OutboxRow /\ r.published = row[e].published
      BY <1>0, <2>2 DEF OutboxRow, Workers0
    <2> HIDE DEF r, e
    <2>4. \A v \in Workers : Fits(v, e, r)
      BY <1>3 DEF Fits
    <2> QED BY <1>0, <1>1, <1>2, <2>1, <2>3, <2>4, RowMoves
  <1> QED BY <1>4, <1>5

LEMMA SinkSound ==
  ASSUME OutboxInv, NEW w \in Workers, SinkCheck(w) \/ SinkInsert(w) \/ WorkerDies(w)
  PROVE  OutboxInv'
  <1>0. /\ OrderOutboxTypeOK /\ worker[w] \in Delivery /\ worker[w].e \in Events /\ sink \subseteq Events
        /\ UNCHANGED row
    BY DEF OutboxInv, OrderOutboxTypeOK, Delivery, SinkCheck, SinkInsert, WorkerDies
  <1>1. CASE WorkerDies(w)
    BY <1>0, <1>1, NoDeliveryType, WorkerMoves DEF WorkerDies, WorkerIdles
  <1>2. ASSUME NEW pc \in {"insert", "published", "failed"}, WorkerGoes(w, pc),
               worker[w].pc # "idle", sink \subseteq sink', sink' \subseteq Events,
               pc = "published" => worker[w].e \in sink'
        PROVE  OutboxInv'
    <2> DEFINE k == [worker[w] EXCEPT !.pc = pc]
    <2>1. worker' = [worker EXCEPT ![w] = k]
      BY <1>0, <1>2 DEF WorkerGoes, OrderOutboxTypeOK
    <2>2. k \in Delivery /\ k.pc = pc /\ k.e = worker[w].e
      BY <1>0 DEF Delivery
    <2> HIDE DEF k
    <2> QED BY <1>0, <1>2, <2>1, <2>2, WorkerMoves
  <1>3. CASE SinkCheck(w)
    BY <1>0, <1>2, <1>3 DEF SinkCheck, WorkerAt
  <1>4. CASE SinkInsert(w)
    BY <1>0, <1>2, <1>4 DEF SinkInsert, WorkerAt
  <1> QED BY <1>1, <1>3, <1>4

LEMMA OutboxStep ==
  ASSUME ~Lapsing
  PROVE  OutboxInv /\ [OrderOutboxNext]_orderOutboxVars => OutboxInv'
  <1>1. OutboxInv /\ UNCHANGED orderOutboxVars => OutboxInv'
    BY DEF orderOutboxVars, OutboxInv, OrderOutboxTypeOK, DeliverySound, SettledOneWay
  <1> QED BY <1>1, RowActions, ClaimSound, SettleSound, SinkSound DEF OrderOutboxNext

\* While deliveries end within their lease, an order event is published only
\* once the analytics sink has it and never also dead-lettered, for any number
\* of workers, deaths, retries and failing statements
\* (repositories/worker_job_repository.py, mark_outbox_published and
\* mark_outbox_failed, which do not ask who holds the row).
THEOREM EventsSettleOneWay ==
  ASSUME ~Lapsing
  PROVE  OrderOutboxSpec => []SettledOneWay
  <1>1. OutboxInv => SettledOneWay
    BY DEF OutboxInv
  <1> QED BY <1>1, OutboxStart, OutboxStep, PTL DEF OrderOutboxSpec

-----------------------------------------------------------------------------
(***************************************************************************)
(* Batches of push copy, for any items, any staff and any number of        *)
(* deliveries of a job, also at the same time.                             *)
(***************************************************************************)

BatchRow == [status : {"none", "pending", "running", "succeeded", "failed"}, items : SUBSET Items,
             succeeded : Nat, failed : Nat, job : {"none", "queued", "settled"}]
StaffRequest == [pc : {"idle", "create", "enqueue"}, b : 0..MaxBatches, items : SUBSET Items]

PushCopyTyped ==
  /\ batches \in [BatchIds -> BatchRow]
  /\ request \in [Staff -> StaffRequest]
  /\ runs \subseteq Run
  /\ delivered \in [BatchIds -> 0..MaxRuns]
  /\ touched \in [BatchIds -> SUBSET Items]

CountOf(b) == batches[b].succeeded + batches[b].failed
IsMade(b) == batches[b].status # "none"

\* A batch keeps its items; what it counts as a success it wrote.
BatchSound(b) ==
  /\ ~IsMade(b) => batches[b] = NoBatch
  /\ IsMade(b) => batches[b].items # {}
  /\ touched[b] \subseteq batches[b].items
  /\ batches[b].succeeded > 0 \/ batches[b].status = "succeeded" => touched[b] # {}
  /\ batches[b].status \in {"succeeded", "failed"} => CountOf(b) >= Cardinality(batches[b].items)

\* What a run has left, with what was counted, accounts for every item: other
\* runs of the same job only ever add to the counters.
RunSound(r) ==
  LET left == Cardinality(r.left)
      all == Cardinality(batches[r.b].items) IN
  /\ IsMade(r.b)
  /\ r.left \subseteq batches[r.b].items
  /\ r.pc = "mark" => r.left = batches[r.b].items
  /\ r.pc = "item" => CountOf(r.b) + left >= all
  /\ r.pc = "saved" => CountOf(r.b) + 1 + left >= all /\ touched[r.b] # {}
  /\ r.pc \in {"count", "succeeded", "failed", "report"} => CountOf(r.b) >= all
  /\ r.pc = "succeeded" => batches[r.b].succeeded > 0

RequestSound(q) ==
  /\ q.pc = "create" => q.items # {}
  /\ q.pc = "enqueue" => q.b \in BatchIds /\ IsMade(q.b)

PushCopyInv ==
  /\ PushCopyTyped
  /\ Made = 1..Latest
  /\ \A b \in BatchIds : BatchSound(b)
  /\ \A r \in runs : RunSound(r)
  /\ \A q \in Staff : RequestSound(request[q])

LEMMA ItemSets ==
  ASSUME NEW s \in SUBSET Items
  PROVE  /\ IsFiniteSet(s) /\ Cardinality(s) \in Nat
         /\ s # {} => Cardinality(s) >= 1
         /\ \A i \in s : Cardinality(s \ {i}) = Cardinality(s) - 1
  <1>1. IsFiniteSet(s) /\ Cardinality(s) \in Nat
    BY PushCopyAssumption, FS_Subset, FS_CardinalityType
  <1>2. s # {} => Cardinality(s) # 0
    BY <1>1, FS_EmptySet
  <1>3. \A i \in s : Cardinality(s \ {i}) = Cardinality(s) - 1
    BY <1>1, FS_RemoveElement
  <1> QED BY <1>1, <1>2, <1>3

LEMMA MadeFinite == IsFiniteSet(Made) /\ Latest \in Nat
  <1>1. IsFiniteSet(BatchIds)
    BY PushCopyAssumption, FS_Interval DEF BatchIds
  <1>2. IsFiniteSet(Made)
    BY <1>1, FS_Subset DEF Made
  <1> QED BY <1>2, FS_CardinalityType DEF Latest

LEMMA NoBatchType == NoBatch \in BatchRow /\ NoStaffRequest \in StaffRequest
  BY PushCopyAssumption DEF NoBatch, BatchRow, NoStaffRequest, StaffRequest

LEMMA PushCopyStart == PushCopyInit => PushCopyInv
  <1> SUFFICES ASSUME PushCopyInit PROVE PushCopyInv
    OBVIOUS
  <1>1. PushCopyTyped
    BY NoBatchType, PushCopyAssumption DEF PushCopyInit, PushCopyTyped
  <1>2. Made = {} /\ Latest = 0
    BY FS_EmptySet DEF PushCopyInit, Made, NoBatch, Latest
  <1>3. \A b \in BatchIds : BatchSound(b)
    BY DEF PushCopyInit, BatchSound, IsMade, NoBatch
  <1>4. \A q \in Staff : RequestSound(request[q])
    BY DEF PushCopyInit, RequestSound, NoStaffRequest
  <1> QED BY <1>1, <1>2, <1>3, <1>4 DEF PushCopyInit, PushCopyInv

\* A batch b moves on to x, having written the copies s.
BatchBecomes(b, x, s) ==
  /\ batches' = [batches EXCEPT ![b] = x]
  /\ touched' = [touched EXCEPT ![b] = s]
  /\ x.status # "none" /\ x.items = batches[b].items
  /\ x.succeeded >= batches[b].succeeded /\ x.failed >= batches[b].failed
  /\ touched[b] \subseteq s /\ s \subseteq x.items
  /\ x.succeeded > 0 \/ x.status = "succeeded" => s # {}
  /\ x.status \in {"succeeded", "failed"} => x.succeeded + x.failed >= Cardinality(x.items)

LEMMA BatchMoves ==
  ASSUME PushCopyInv, NEW b \in BatchIds, NEW x \in BatchRow, NEW s \in SUBSET Items,
         IsMade(b), BatchBecomes(b, x, s),
         runs' \subseteq Run, \A r \in runs' : r \in runs \/ RunSound(r)',
         delivered' \in [BatchIds -> 0..MaxRuns],
         UNCHANGED request \/ \E q \in Staff : request' = [request EXCEPT ![q] = NoStaffRequest]
  PROVE  PushCopyInv'
  <1>0. PushCopyTyped
    BY DEF PushCopyInv
  <1>1. \A c \in BatchIds : /\ batches'[c] = IF c = b THEN x ELSE batches[c]
                            /\ touched'[c] = IF c = b THEN s ELSE touched[c]
    BY <1>0 DEF PushCopyTyped, BatchBecomes
  <1>2. /\ request' \in [Staff -> StaffRequest]
        /\ \A q \in Staff : request'[q] = request[q] \/ request'[q] = NoStaffRequest
    BY <1>0, NoBatchType DEF PushCopyTyped
  <1>3. PushCopyTyped'
    BY <1>0, <1>2 DEF PushCopyTyped, BatchBecomes
  <1>4. /\ \A c \in BatchIds : IsMade(c)' <=> IsMade(c)
        /\ \A c \in BatchIds : batches'[c].items = batches[c].items
        /\ \A c \in BatchIds : touched[c] # {} => touched'[c] # {}
    BY <1>1 DEF IsMade, BatchBecomes
  <1>5. Made' = 1..Latest'
    <2>1. Made' = Made
      BY <1>4 DEF Made, IsMade
    <2> QED BY <2>1 DEF PushCopyInv, Latest
  <1>6. ASSUME NEW c \in BatchIds
        PROVE  /\ CountOf(c) \in Nat /\ CountOf(c)' \in Nat /\ CountOf(c)' >= CountOf(c)
               /\ batches[c].succeeded > 0 => batches'[c].succeeded > 0
    <2>1. /\ batches[c].succeeded \in Nat /\ batches[c].failed \in Nat
          /\ batches'[c].succeeded \in Nat /\ batches'[c].failed \in Nat
      BY <1>0, <1>3 DEF PushCopyTyped, BatchRow
    <2>2. /\ batches'[c].succeeded >= batches[c].succeeded
          /\ batches'[c].failed >= batches[c].failed
      BY <1>1, <2>1 DEF BatchBecomes
    <2> QED BY <2>1, <2>2 DEF CountOf
  <1>7. \A c \in BatchIds : BatchSound(c)'
    BY <1>1 DEF PushCopyInv, BatchSound, BatchBecomes, IsMade, CountOf
  <1>8. ASSUME NEW r \in runs, RunSound(r) PROVE RunSound(r)'
    <2>1. r.b \in BatchIds /\ r.left \subseteq Items /\ batches[r.b].items \subseteq Items
      BY <1>0 DEF PushCopyTyped, Run, BatchRow
    <2>2. Cardinality(r.left) \in Nat /\ Cardinality(batches[r.b].items) \in Nat
      BY <2>1, ItemSets
    <2> QED BY <1>4, <1>6, <1>8, <2>1, <2>2 DEF RunSound
  <1>9. \A q \in Staff : RequestSound(request[q])'
    BY <1>2, <1>4 DEF PushCopyInv, RequestSound, NoStaffRequest
  <1> QED BY <1>3, <1>5, <1>7, <1>8, <1>9 DEF PushCopyInv

LEMMA StartBatchSound ==
  ASSUME PushCopyInv, NEW q \in Staff, NEW s \in SUBSET Items, StartBatch(q, s)
  PROVE  PushCopyInv'
  <1> DEFINE k == [NoStaffRequest EXCEPT !.pc = "create", !.items = s]
  <1>1. /\ request' = [request EXCEPT ![q] = k] /\ s # {}
        /\ UNCHANGED <<batches, runs, delivered, touched>>
    BY DEF StartBatch
  <1>2. k \in StaffRequest /\ k.pc = "create" /\ k.items = s
    BY NoBatchType DEF StaffRequest
  <1> HIDE DEF k
  <1>3. PushCopyTyped'
    BY <1>1, <1>2 DEF PushCopyInv, PushCopyTyped
  <1>4. \A p \in Staff : RequestSound(request[p])'
    BY <1>1, <1>2 DEF PushCopyInv, PushCopyTyped, RequestSound, IsMade
  <1> QED
    BY <1>1, <1>3, <1>4
    DEF PushCopyInv, Made, Latest, BatchSound, RunSound, CountOf, IsMade

\* The new batch is the next in order, which nobody has heard of.
LEMMA CreateSound ==
  ASSUME PushCopyInv, NEW q \in Staff, CreateBatch(q)
  PROVE  PushCopyInv'
  <1> DEFINE n == Latest + 1
             x == [NoBatch EXCEPT !.status = "pending", !.items = request[q].items]
             k == [request[q] EXCEPT !.pc = "enqueue", !.b = n]
  <1>0. /\ PushCopyTyped /\ request[q] \in StaffRequest /\ request[q].items \in SUBSET Items
        /\ request[q].items # {} /\ Latest < MaxBatches /\ UNCHANGED <<runs, delivered, touched>>
    BY DEF PushCopyInv, PushCopyTyped, CreateBatch, RequestSound, StaffRequest
  <1>1. batches' = [batches EXCEPT ![n] = x] /\ request' = [request EXCEPT ![q] = k]
    BY <1>0 DEF CreateBatch, PushCopyTyped
  <1>2. n \in BatchIds /\ n \in 0..MaxBatches /\ n \in Nat /\ n \notin Made /\ n = Latest + 1
    BY <1>0, MadeFinite, PushCopyAssumption DEF PushCopyInv, BatchIds
  <1>3. /\ x \in BatchRow /\ x.status = "pending" /\ x.items = request[q].items
        /\ x.succeeded = 0 /\ x.failed = 0
    BY <1>0, NoBatchType DEF BatchRow, NoBatch
  <1>4. k \in StaffRequest /\ k.pc = "enqueue" /\ k.b = n
    BY <1>0, <1>2 DEF StaffRequest
  <1> HIDE DEF n, x, k
  <1>5. \A c \in BatchIds : batches'[c] = IF c = n THEN x ELSE batches[c]
    BY <1>0, <1>1 DEF PushCopyTyped
  <1>6. PushCopyTyped'
    BY <1>0, <1>1, <1>2, <1>3, <1>4 DEF PushCopyTyped
  <1>7. ~IsMade(n) /\ batches[n] = NoBatch
    BY <1>2 DEF PushCopyInv, BatchSound, Made, IsMade
  <1>8. Made' = 1..Latest'
    <2>1. Made' = Made \cup {n}
      BY <1>2, <1>3, <1>5 DEF Made
    <2>2. Latest' = n
      BY <1>2, <2>1, MadeFinite, FS_AddElement DEF Latest
    <2>3. Made = 1..Latest
      BY DEF PushCopyInv
    <2> QED BY <1>2, <2>1, <2>2, <2>3, MadeFinite
  <1>9. ASSUME NEW c \in BatchIds PROVE BatchSound(c)'
    <2>1. CASE c = n
      <3>1. touched'[c] = {}
        BY <1>0, <1>2, <1>7, <2>1 DEF PushCopyInv, BatchSound, NoBatch
      <3> QED BY <1>0, <1>3, <1>5, <2>1, <3>1 DEF BatchSound, IsMade
    <2>2. CASE c # n
      BY <1>0, <1>5, <2>2 DEF PushCopyInv, BatchSound, IsMade, CountOf
    <2> QED BY <2>1, <2>2
  <1>10. ASSUME NEW r \in runs PROVE RunSound(r)'
    <2>1. RunSound(r) /\ r.b \in BatchIds /\ r.b # n
      BY <1>0, <1>7 DEF PushCopyInv, RunSound, PushCopyTyped, Run
    <2> QED BY <1>0, <1>5, <2>1 DEF RunSound, IsMade, CountOf
  <1>11. \A p \in Staff : RequestSound(request[p])'
    <2>1. \A p \in Staff : request'[p] = IF p = q THEN k ELSE request[p]
      BY <1>0, <1>1 DEF PushCopyTyped
    <2>2. \A c \in BatchIds : IsMade(c) => IsMade(c)'
      BY <1>3, <1>5 DEF IsMade
    <2>3. batches'[n].status # "none"
      BY <1>2, <1>3, <1>5
    <2> QED BY <1>2, <1>4, <2>1, <2>2, <2>3 DEF PushCopyInv, RequestSound, IsMade
  <1> QED BY <1>0, <1>6, <1>8, <1>9, <1>10, <1>11 DEF PushCopyInv

\* What a step leaves of a batch it does not count in.
LEMMA SameBatch ==
  ASSUME PushCopyInv, NEW b \in BatchIds
  PROVE  /\ batches[b] \in BatchRow /\ touched[b] \in SUBSET Items /\ BatchSound(b)
         /\ batches = [batches EXCEPT ![b] = batches[b]]
         /\ touched = [touched EXCEPT ![b] = touched[b]]
         /\ batches[b].succeeded \in Nat /\ batches[b].failed \in Nat
  BY DEF PushCopyInv, PushCopyTyped, BatchRow

LEMMA JobMoves ==
  ASSUME PushCopyInv, NEW b \in BatchIds, IsMade(b), NEW j \in {"queued", "settled"},
         batches' = [batches EXCEPT ![b].job = j] \/ UNCHANGED batches, UNCHANGED touched,
         runs' \subseteq Run, \A r \in runs' : r \in runs \/ RunSound(r)',
         delivered' \in [BatchIds -> 0..MaxRuns],
         UNCHANGED request \/ \E q \in Staff : request' = [request EXCEPT ![q] = NoStaffRequest]
  PROVE  PushCopyInv'
  <1>0. /\ batches[b] \in BatchRow /\ touched[b] \in SUBSET Items /\ BatchSound(b)
        /\ batches = [batches EXCEPT ![b] = batches[b]]
        /\ touched' = [touched EXCEPT ![b] = touched[b]]
        /\ batches[b].succeeded \in Nat /\ batches[b].failed \in Nat
    BY SameBatch
  <1> DEFINE y == [batches[b] EXCEPT !.job = j]
  <1>1. /\ y \in BatchRow /\ y.status = batches[b].status /\ y.items = batches[b].items
        /\ y.succeeded = batches[b].succeeded /\ y.failed = batches[b].failed
    BY <1>0 DEF BatchRow
  <1>2. batches' = [batches EXCEPT ![b] = y] \/ batches' = [batches EXCEPT ![b] = batches[b]]
    BY <1>0 DEF PushCopyInv, PushCopyTyped
  <1> HIDE DEF y
  <1>3. ASSUME NEW x \in BatchRow, batches' = [batches EXCEPT ![b] = x],
               x.status = batches[b].status, x.items = batches[b].items,
               x.succeeded = batches[b].succeeded, x.failed = batches[b].failed
        PROVE  PushCopyInv'
    <2>1. x.succeeded >= batches[b].succeeded /\ x.failed >= batches[b].failed
      BY <1>0, <1>3
    <2>2. /\ touched[b] \subseteq x.items
          /\ x.succeeded > 0 \/ x.status = "succeeded" => touched[b] # {}
          /\ x.status \in {"succeeded", "failed"} => x.succeeded + x.failed >= Cardinality(x.items)
      BY <1>0, <1>3 DEF BatchSound, CountOf
    <2>3. BatchBecomes(b, x, touched[b])
      BY <1>0, <1>3, <2>1, <2>2 DEF BatchBecomes, IsMade
    <2> QED BY <1>0, <2>3, BatchMoves
  <1> QED BY <1>0, <1>1, <1>2, <1>3

LEMMA EnqueueBatchSound ==
  ASSUME PushCopyInv, NEW q \in Staff, EnqueueBatch(q)
  PROVE  PushCopyInv'
  <1> DEFINE b == request[q].b
  <1>1. b \in BatchIds /\ IsMade(b) /\ UNCHANGED <<runs, delivered, touched>>
    BY DEF PushCopyInv, RequestSound, EnqueueBatch
  <1>2. /\ batches' = [batches EXCEPT ![b].job = "queued"] \/ UNCHANGED batches
        /\ \E p \in Staff : request' = [request EXCEPT ![p] = NoStaffRequest]
        /\ runs' \subseteq Run /\ delivered' \in [BatchIds -> 0..MaxRuns]
    BY <1>1 DEF EnqueueBatch, PushCopyInv, PushCopyTyped
  <1> HIDE DEF b
  <1> QED BY <1>1, <1>2, JobMoves

LEMMA DeliverSound ==
  ASSUME PushCopyInv, NEW b \in BatchIds, Deliver(b)
  PROVE  PushCopyInv'
  <1> DEFINE r == [b |-> b, n |-> delivered[b] + 1, pc |-> "mark", left |-> batches[b].items]
  <1>0. /\ PushCopyTyped /\ batches[b] \in BatchRow /\ delivered[b] \in 0..MaxRuns
        /\ delivered[b] < MaxRuns /\ UNCHANGED <<batches, request, touched>>
        /\ runs' = runs \cup {r} /\ delivered' = [delivered EXCEPT ![b] = delivered[b] + 1]
    BY DEF PushCopyInv, PushCopyTyped, Deliver
  <1>1. IsMade(b)
    BY DEF PushCopyInv, BatchSound, Deliver, NoBatch
  <1>2. delivered[b] + 1 \in 1..MaxRuns /\ delivered[b] + 1 \in 0..MaxRuns
    BY <1>0, PushCopyAssumption
  <1>3. r \in Run /\ r.b = b /\ r.pc = "mark" /\ r.left = batches[b].items
    BY <1>0, <1>2 DEF Run, BatchRow
  <1>4. delivered' \in [BatchIds -> 0..MaxRuns]
    BY <1>0, <1>2 DEF PushCopyTyped
  <1> HIDE DEF r
  <1>5. r.b = b /\ r.pc = "mark" /\ r.left = batches'[b].items /\ batches'[b].status # "none"
    BY <1>0, <1>1, <1>3 DEF IsMade
  <1>6. ASSUME NEW k \in runs', k \notin runs PROVE RunSound(k)'
    <2>1. k.b = b /\ k.pc = "mark" /\ k.left = batches'[b].items
      BY <1>0, <1>5, <1>6
    <2> QED BY <1>5, <2>1 DEF RunSound, IsMade
  <1>7. runs' \subseteq Run
    BY <1>0, <1>3 DEF PushCopyTyped
  <1> QED BY <1>0, <1>1, <1>4, <1>6, <1>7, JobMoves

\* A run goes on, or ends: no other run appears.
LEMMA BecomesRuns ==
  ASSUME PushCopyInv, NEW r \in runs, NEW new, new \subseteq Run, Becomes(r, new),
         \A k \in new : RunSound(k)'
  PROVE  runs' \subseteq Run /\ \A k \in runs' : k \in runs \/ RunSound(k)'
  BY DEF Becomes, PushCopyInv, PushCopyTyped

\* What is known of a run and its batch.
LEMMA RunFacts ==
  ASSUME PushCopyInv, NEW r \in runs
  PROVE  /\ r \in Run /\ r.b \in BatchIds /\ RunSound(r) /\ IsMade(r.b)
         /\ r.left \in SUBSET Items /\ batches[r.b] \in BatchRow
         /\ batches[r.b].items \in SUBSET Items /\ batches[r.b].items # {}
         /\ batches[r.b].succeeded \in Nat /\ batches[r.b].failed \in Nat
         /\ CountOf(r.b) = batches[r.b].succeeded + batches[r.b].failed
         /\ Cardinality(r.left) \in Nat
         /\ Cardinality(batches[r.b].items) \in Nat /\ Cardinality(batches[r.b].items) >= 1
         /\ BatchSound(r.b) /\ touched[r.b] \in SUBSET Items
         /\ batches \in [BatchIds -> BatchRow] /\ touched \in [BatchIds -> SUBSET Items]
         /\ delivered \in [BatchIds -> 0..MaxRuns]
  <1>1. /\ r \in Run /\ r.b \in BatchIds /\ RunSound(r) /\ IsMade(r.b)
        /\ r.left \in SUBSET Items /\ batches[r.b] \in BatchRow
        /\ BatchSound(r.b) /\ touched[r.b] \in SUBSET Items
        /\ batches \in [BatchIds -> BatchRow] /\ touched \in [BatchIds -> SUBSET Items]
        /\ delivered \in [BatchIds -> 0..MaxRuns]
    BY DEF PushCopyInv, PushCopyTyped, Run, RunSound
  <1>2. /\ batches[r.b].items \in SUBSET Items /\ batches[r.b].items # {}
        /\ batches[r.b].succeeded \in Nat /\ batches[r.b].failed \in Nat
    BY <1>1 DEF BatchRow, BatchSound
  <1> QED BY <1>1, <1>2, ItemSets DEF CountOf

LEMMA RunEnds ==
  ASSUME PushCopyInv, NEW r \in runs, Report(r) \/ RunRaises(r) \/ RunDies(r)
  PROVE  PushCopyInv'
  <1>1. /\ Becomes(r, {}) /\ UNCHANGED <<request, delivered, touched>>
        /\ batches' = [batches EXCEPT ![r.b].job = "settled"] \/ UNCHANGED batches
    BY DEF Report, RunRaises, RunDies
  <1>2. runs' \subseteq Run /\ \A k \in runs' : k \in runs \/ RunSound(k)'
    BY <1>1, BecomesRuns
  <1> QED BY <1>1, <1>2, RunFacts, JobMoves

\* A run that goes on with its batch as x, the copies s, and itself as k.
LEMMA RunGoesOn ==
  ASSUME PushCopyInv, NEW r \in runs, NEW k \in Run, NEW x \in BatchRow, NEW s \in SUBSET Items,
         Becomes(r, {k}), UNCHANGED <<request, delivered>>,
         batches' = [batches EXCEPT ![r.b] = x], touched' = [touched EXCEPT ![r.b] = s],
         BatchBecomes(r.b, x, s), k.b = r.b, k.left \subseteq x.items,
         k.pc # "mark",
         k.pc = "item" => x.succeeded + x.failed + Cardinality(k.left) >= Cardinality(x.items),
         k.pc = "saved" =>
           /\ x.succeeded + x.failed + 1 + Cardinality(k.left) >= Cardinality(x.items)
           /\ s # {},
         k.pc \in {"count", "succeeded", "failed", "report"} =>
           x.succeeded + x.failed >= Cardinality(x.items),
         k.pc = "succeeded" => x.succeeded > 0
  PROVE  PushCopyInv'
  <1>1. batches'[r.b] = x /\ touched'[r.b] = s
    BY RunFacts
  <1>2. RunSound(k)'
    BY <1>1 DEF RunSound, IsMade, CountOf, BatchBecomes
  <1>3. runs' \subseteq Run /\ \A j \in runs' : j \in runs \/ RunSound(j)'
    BY <1>2, BecomesRuns
  <1> QED BY <1>3, RunFacts, BatchMoves

LEMMA MarkRunningSound ==
  ASSUME PushCopyInv, NEW r \in runs, MarkRunning(r)
  PROVE  PushCopyInv'
  <1> DEFINE x == [batches[r.b] EXCEPT !.status = "running"]
             k == [r EXCEPT !.pc = IF r.left = {} THEN "count" ELSE "item"]
  <1>1. /\ batches' = [batches EXCEPT ![r.b] = x] /\ Becomes(r, {k}) /\ r.pc = "mark"
        /\ UNCHANGED <<request, delivered, touched>>
    BY RunFacts DEF MarkRunning
  <1>2. /\ x \in BatchRow /\ x.status = "running" /\ x.items = batches[r.b].items
        /\ x.succeeded = batches[r.b].succeeded /\ x.failed = batches[r.b].failed
    BY RunFacts DEF BatchRow
  <1>3. r.left = batches[r.b].items /\ r.left # {}
    BY <1>1, RunFacts DEF RunSound
  <1>4. k \in Run /\ k.b = r.b /\ k.left = r.left /\ k.pc = "item"
    BY <1>3, RunFacts DEF Run
  <1> HIDE DEF x, k
  <1>5. touched' = [touched EXCEPT ![r.b] = touched[r.b]]
    BY <1>1, RunFacts
  <1>6. BatchBecomes(r.b, x, touched[r.b])
    <2>1. /\ x.succeeded >= batches[r.b].succeeded /\ x.failed >= batches[r.b].failed
          /\ touched[r.b] \subseteq x.items
          /\ x.succeeded > 0 => touched[r.b] # {}
      BY <1>2, RunFacts DEF BatchSound
    <2> QED BY <1>1, <1>2, <1>5, <2>1 DEF BatchBecomes
  <1>7. x.succeeded + x.failed + Cardinality(k.left) >= Cardinality(x.items)
    BY <1>2, <1>3, <1>4, RunFacts
  <1>8. k.left \subseteq x.items
    BY <1>2, <1>3, <1>4
  <1> QED BY <1>1, <1>2, <1>4, <1>5, <1>6, <1>7, <1>8, RunFacts, RunGoesOn

LEMMA ItemFailsSound ==
  ASSUME PushCopyInv, NEW r \in runs, NEW i \in Items, ItemFails(r, i)
  PROVE  PushCopyInv'
  <1> DEFINE x == [batches[r.b] EXCEPT !.failed = @ + 1]
             k == [r EXCEPT !.left = @ \ {i}, !.pc = IF r.left = {i} THEN "count" ELSE "item"]
  <1>1. /\ batches' = [batches EXCEPT ![r.b] = x] /\ Becomes(r, {k}) /\ r.pc = "item" /\ i \in r.left
        /\ UNCHANGED <<request, delivered, touched>>
    BY RunFacts DEF ItemFails
  <1>2. /\ x \in BatchRow /\ x.status = batches[r.b].status /\ x.items = batches[r.b].items
        /\ x.succeeded = batches[r.b].succeeded /\ x.failed = batches[r.b].failed + 1
    <2>1. batches[r.b].failed + 1 \in Nat
      BY RunFacts
    <2> QED BY <2>1, RunFacts DEF BatchRow
  <1>3. /\ k \in Run /\ k.b = r.b /\ k.left = r.left \ {i} /\ k.pc \in {"count", "item"}
        /\ k.pc = "count" => r.left = {i}
    BY RunFacts DEF Run
  <1> HIDE DEF x, k
  <1>4. /\ Cardinality(k.left) = Cardinality(r.left) - 1
        /\ k.pc = "count" => Cardinality(k.left) = 0
    BY <1>1, <1>3, RunFacts, ItemSets, FS_EmptySet
  <1>5. /\ touched' = [touched EXCEPT ![r.b] = touched[r.b]]
        /\ k.left \subseteq x.items /\ IsMade(r.b)
    BY <1>1, <1>2, <1>3, RunFacts DEF RunSound
  <1>6. x.succeeded + x.failed + Cardinality(k.left) >= Cardinality(x.items)
    BY <1>1, <1>2, <1>4, RunFacts DEF RunSound
  <1>7. k.pc = "count" => x.succeeded + x.failed >= Cardinality(x.items)
    BY <1>2, <1>4, <1>6, RunFacts
  <1>8. BatchBecomes(r.b, x, touched[r.b])
    <2>1. /\ x.succeeded >= batches[r.b].succeeded /\ x.failed >= batches[r.b].failed
          /\ x.status \in {"succeeded", "failed"} => x.succeeded + x.failed >= Cardinality(x.items)
      BY <1>2, RunFacts DEF BatchSound
    <2> QED BY <1>1, <1>2, <1>5, <2>1, RunFacts DEF BatchBecomes, BatchSound, IsMade
  <1> QED BY <1>1, <1>2, <1>3, <1>5, <1>6, <1>7, <1>8, RunFacts, RunGoesOn

LEMMA SaveCopySound ==
  ASSUME PushCopyInv, NEW r \in runs, NEW i \in Items, SaveCopy(r, i)
  PROVE  PushCopyInv'
  <1> DEFINE s == touched[r.b] \cup {i}
             k == [r EXCEPT !.left = @ \ {i}, !.pc = "saved"]
             x == batches[r.b]
  <1>1. /\ touched' = [touched EXCEPT ![r.b] = s] /\ Becomes(r, {k}) /\ r.pc = "item" /\ i \in r.left
        /\ UNCHANGED <<batches, request, delivered>>
    BY RunFacts DEF SaveCopy
  <1>2. k \in Run /\ k.b = r.b /\ k.left = r.left \ {i} /\ k.pc = "saved"
    BY RunFacts DEF Run
  <1>3. s \in SUBSET Items /\ s # {} /\ touched[r.b] \subseteq s /\ s \subseteq batches[r.b].items
    BY <1>1, RunFacts DEF RunSound, BatchSound
  <1> HIDE DEF s, k
  <1>4. Cardinality(k.left) = Cardinality(r.left) - 1
    BY <1>1, <1>2, RunFacts, ItemSets
  <1>5. /\ batches' = [batches EXCEPT ![r.b] = x]
        /\ k.left \subseteq x.items
    BY <1>1, <1>2, RunFacts DEF RunSound
  <1>6. x.succeeded + x.failed + 1 + Cardinality(k.left) >= Cardinality(x.items)
    BY <1>1, <1>4, RunFacts DEF RunSound
  <1>7. BatchBecomes(r.b, x, s)
    <2>1. x.succeeded >= x.succeeded /\ x.failed >= x.failed
      BY RunFacts
    <2> QED BY <1>1, <1>3, <1>5, <2>1, RunFacts DEF BatchBecomes, BatchSound, IsMade
  <1> HIDE DEF x
  <1>8. x \in BatchRow
    BY RunFacts DEF x
  <1> QED BY <1>1, <1>2, <1>3, <1>5, <1>6, <1>7, <1>8, RunGoesOn

LEMMA CountSuccessSound ==
  ASSUME PushCopyInv, NEW r \in runs, CountSuccess(r)
  PROVE  PushCopyInv'
  <1> DEFINE x == [batches[r.b] EXCEPT !.succeeded = @ + 1]
             k == [r EXCEPT !.pc = IF r.left = {} THEN "count" ELSE "item"]
  <1>1. /\ batches' = [batches EXCEPT ![r.b] = x] /\ Becomes(r, {k}) /\ r.pc = "saved"
        /\ UNCHANGED <<request, delivered, touched>>
    BY RunFacts DEF CountSuccess
  <1>2. /\ x \in BatchRow /\ x.status = batches[r.b].status /\ x.items = batches[r.b].items
        /\ x.succeeded = batches[r.b].succeeded + 1 /\ x.failed = batches[r.b].failed
    <2>1. batches[r.b].succeeded + 1 \in Nat
      BY RunFacts
    <2> QED BY <2>1, RunFacts DEF BatchRow
  <1>3. /\ k \in Run /\ k.b = r.b /\ k.left = r.left /\ k.pc \in {"count", "item"}
        /\ k.pc = "count" => r.left = {}
    BY RunFacts DEF Run
  <1> HIDE DEF x, k
  <1>4. k.pc = "count" => Cardinality(k.left) = 0
    BY <1>3, FS_EmptySet
  <1>5. /\ touched' = [touched EXCEPT ![r.b] = touched[r.b]] /\ touched[r.b] # {}
        /\ k.left \subseteq x.items /\ IsMade(r.b)
    BY <1>1, <1>2, <1>3, RunFacts DEF RunSound
  <1>6. x.succeeded + x.failed + Cardinality(k.left) >= Cardinality(x.items)
    BY <1>1, <1>2, <1>3, RunFacts DEF RunSound
  <1>7. k.pc = "count" => x.succeeded + x.failed >= Cardinality(x.items)
    BY <1>2, <1>4, <1>6, RunFacts
  <1>8. BatchBecomes(r.b, x, touched[r.b])
    <2>1. /\ x.succeeded >= batches[r.b].succeeded /\ x.failed >= batches[r.b].failed
          /\ x.status \in {"succeeded", "failed"} => x.succeeded + x.failed >= Cardinality(x.items)
      BY <1>2, RunFacts DEF BatchSound
    <2> QED BY <1>1, <1>2, <1>5, <2>1, RunFacts DEF BatchBecomes, BatchSound, IsMade
  <1> QED BY <1>1, <1>2, <1>3, <1>5, <1>6, <1>7, <1>8, RunFacts, RunGoesOn

\* A run counts what every run of the job has counted, and calls the batch a
\* success only when one copy was.
LEMMA ReadCountsSound ==
  ASSUME PushCopyInv, NEW r \in runs, ReadCounts(r)
  PROVE  PushCopyInv'
  <1> DEFINE x == batches[r.b]
             k == [r EXCEPT !.pc = Outcome(x)]
  <1>1. /\ Becomes(r, {k}) /\ r.pc = "count" /\ UNCHANGED <<batches, request, delivered, touched>>
    BY DEF ReadCounts
  <1>2. k \in Run /\ k.b = r.b /\ k.left = r.left /\ k.pc = Outcome(x) /\ k.pc \in {"succeeded", "failed"}
    BY RunFacts DEF Run, Outcome
  <1>3. x.succeeded + x.failed >= Cardinality(x.items)
    BY <1>1, RunFacts DEF RunSound
  <1>4. k.pc = "succeeded" => x.succeeded > 0
    BY <1>2, <1>3, RunFacts DEF Outcome
  <1>5. /\ batches' = [batches EXCEPT ![r.b] = x] /\ touched' = [touched EXCEPT ![r.b] = touched[r.b]]
        /\ k.left \subseteq x.items
    BY <1>1, <1>2, RunFacts DEF RunSound
  <1> HIDE DEF k
  <1>6. BatchBecomes(r.b, x, touched[r.b])
    <2>1. x.succeeded >= x.succeeded /\ x.failed >= x.failed
      BY RunFacts
    <2> QED BY <1>3, <1>5, <2>1, RunFacts DEF BatchBecomes, BatchSound, IsMade
  <1> HIDE DEF x
  <1>7. x \in BatchRow
    BY RunFacts DEF x
  <1> QED BY <1>1, <1>2, <1>3, <1>4, <1>5, <1>6, <1>7, RunFacts, RunGoesOn

LEMMA FinishBatchSound ==
  ASSUME PushCopyInv, NEW r \in runs, FinishBatch(r)
  PROVE  PushCopyInv'
  <1> DEFINE x == [batches[r.b] EXCEPT !.status = r.pc]
             k == [r EXCEPT !.pc = "report"]
  <1>1. /\ batches' = [batches EXCEPT ![r.b] = x] /\ Becomes(r, {k}) /\ r.pc \in {"succeeded", "failed"}
        /\ UNCHANGED <<request, delivered, touched>>
    BY RunFacts DEF FinishBatch
  <1>2. /\ x \in BatchRow /\ x.status = r.pc /\ x.items = batches[r.b].items
        /\ x.succeeded = batches[r.b].succeeded /\ x.failed = batches[r.b].failed
    BY <1>1, RunFacts DEF BatchRow
  <1>3. k \in Run /\ k.b = r.b /\ k.left = r.left /\ k.pc = "report"
    BY RunFacts DEF Run
  <1> HIDE DEF x, k
  <1>4. /\ x.succeeded + x.failed >= Cardinality(x.items)
        /\ x.status = "succeeded" => x.succeeded > 0
    BY <1>1, <1>2, RunFacts DEF RunSound
  <1>5. /\ touched' = [touched EXCEPT ![r.b] = touched[r.b]]
        /\ k.left \subseteq x.items
    BY <1>1, <1>2, <1>3, RunFacts DEF RunSound
  <1>6. x.succeeded > 0 => touched[r.b] # {}
    BY <1>2, RunFacts DEF BatchSound
  <1>7. BatchBecomes(r.b, x, touched[r.b])
    <2>1. x.succeeded >= batches[r.b].succeeded /\ x.failed >= batches[r.b].failed
      BY <1>2, RunFacts
    <2>2. x.status # "none" /\ touched[r.b] \subseteq x.items
      BY <1>1, <1>2, RunFacts DEF BatchSound
    <2> QED BY <1>1, <1>2, <1>4, <1>5, <1>6, <2>1, <2>2 DEF BatchBecomes
  <1> QED BY <1>1, <1>2, <1>3, <1>4, <1>5, <1>7, RunFacts, RunGoesOn

LEMMA PushCopyStep == PushCopyInv /\ [PushCopyNext]_pushCopyVars => PushCopyInv'
  <1> SUFFICES ASSUME PushCopyInv, [PushCopyNext]_pushCopyVars PROVE PushCopyInv'
    OBVIOUS
  <1>1. CASE UNCHANGED pushCopyVars
    BY <1>1
    DEF pushCopyVars, PushCopyInv, PushCopyTyped, Made, Latest, BatchSound, RunSound, RequestSound,
        IsMade, CountOf
  <1>2. ASSUME NEW q \in Staff,
               (\E s \in SUBSET Items : StartBatch(q, s)) \/ CreateBatch(q) \/ EnqueueBatch(q)
        PROVE  PushCopyInv'
    BY <1>2, StartBatchSound, CreateSound, EnqueueBatchSound
  <1>3. ASSUME NEW r \in runs,
               \/ MarkRunning(r) \/ CountSuccess(r) \/ ReadCounts(r) \/ FinishBatch(r)
               \/ Report(r) \/ RunRaises(r) \/ RunDies(r)
               \/ \E i \in Items : ItemFails(r, i) \/ SaveCopy(r, i)
        PROVE  PushCopyInv'
    BY <1>3, MarkRunningSound, CountSuccessSound, ReadCountsSound, FinishBatchSound, RunEnds,
       ItemFailsSound, SaveCopySound
  <1> QED BY <1>1, <1>2, <1>3, DeliverSound DEF PushCopyNext

LEMMA PushCopyInvariant == PushCopySpec => []PushCopyInv
  BY PushCopyStart, PushCopyStep, PTL DEF PushCopySpec

\* A batch of push copy that ended accounts for all its items, and one that
\* succeeded wrote a copy, however often its job was delivered, overlapped with
\* itself or died (services/worker_handlers.py over
\* repositories/push_copy_batch_repository.py).
THEOREM OutcomesAreEarned == PushCopySpec => []OutcomeIsEarned
  <1>1. PushCopyInv => OutcomeIsEarned
    BY DEF PushCopyInv, BatchSound, CountOf, OutcomeIsEarned
  <1> QED BY <1>1, PushCopyInvariant, PTL

-----------------------------------------------------------------------------
(***************************************************************************)
(* What a batch counts is bounded by its deliveries: a delivery counts     *)
(* each item at most once.                                                 *)
(***************************************************************************)

\* A delivery is known by its batch and its number, which was given out.
RunsApart ==
  /\ \A r \in runs : r.n <= delivered[r.b]
  /\ \A r, s \in runs : r.b = s.b /\ r.n = s.n => r = s

\* A run has not counted what it has left, nor the item it has just saved.
Uncounted(r, counted) ==
  /\ \A i \in r.left : <<r.n, i>> \notin counted
  /\ r.pc = "saved" => \E i \in Items \ r.left : <<r.n, i>> \notin counted

Tallies == SUBSET ((1..MaxRuns) \X Items)

\* The count of a batch is the number of pairs of a delivery and an item.
Accounted(b) ==
  \E counted \in Tallies :
    /\ CountOf(b) = Cardinality(counted)
    /\ \A t \in counted : t[1] <= delivered[b]
    /\ \A r \in runs : r.b = b => Uncounted(r, counted)

TallyInv == PushCopyInv /\ RunsApart /\ \A b \in BatchIds : Accounted(b)

LEMMA TallyStart == PushCopyInit => TallyInv
  <1> SUFFICES ASSUME PushCopyInit PROVE TallyInv
    OBVIOUS
  <1>1. PushCopyInv /\ runs = {}
    BY PushCopyStart DEF PushCopyInit
  <1>2. ASSUME NEW b \in BatchIds PROVE Accounted(b)
    <2>1. CountOf(b) = 0
      BY DEF PushCopyInit, NoBatch, CountOf
    <2>2. {} \in Tallies /\ Cardinality({}) = 0
      BY FS_EmptySet DEF Tallies
    <2> QED BY <1>1, <2>1, <2>2 DEF Accounted
  <1> QED BY <1>1, <1>2 DEF TallyInv, RunsApart

\* A batch whose count stays as it is, whose runs go on with what they had left.
LEMMA SameTally ==
  ASSUME NEW b \in BatchIds, Accounted(b), CountOf(b)' = CountOf(b),
         delivered[b] \in Nat, delivered'[b] \in Nat, delivered[b] <= delivered'[b],
         runs \subseteq Run,
         \A r \in runs' : r.b = b =>
           \/ \E s \in runs :
                /\ s.b = b /\ s.n = r.n /\ r.left \subseteq s.left
                /\ r.pc = "saved" =>
                     \/ s.pc = "saved" /\ r.left = s.left
                     \/ \E i \in s.left : i \notin r.left
           \/ r.n \in Nat /\ r.n > delivered[b] /\ r.pc # "saved"
  PROVE  Accounted(b)'
  <1>1. PICK counted \in Tallies :
          /\ CountOf(b) = Cardinality(counted)
          /\ \A t \in counted : t[1] <= delivered[b]
          /\ \A r \in runs : r.b = b => Uncounted(r, counted)
    BY DEF Accounted
  <1>2. \A t \in counted : t[1] \in Nat /\ t[2] \in Items
    BY <1>1, PushCopyAssumption DEF Tallies
  <1>3. \A t \in counted : t[1] <= delivered'[b]
    BY <1>1, <1>2
  <1>4. ASSUME NEW r \in runs', r.b = b PROVE Uncounted(r, counted)
    <2>1. CASE r.n \in Nat /\ r.n > delivered[b] /\ r.pc # "saved"
      <3>1. \A i : <<r.n, i>> \notin counted
        BY <1>1, <2>1
      <3> QED BY <2>1, <3>1 DEF Uncounted
    <2>2. CASE \E s \in runs :
                 /\ s.b = b /\ s.n = r.n /\ r.left \subseteq s.left
                 /\ r.pc = "saved" =>
                      \/ s.pc = "saved" /\ r.left = s.left
                      \/ \E i \in s.left : i \notin r.left
      <3>1. PICK s \in runs :
                   /\ s.b = b /\ s.n = r.n /\ r.left \subseteq s.left
                   /\ r.pc = "saved" =>
                        \/ s.pc = "saved" /\ r.left = s.left
                        \/ \E i \in s.left : i \notin r.left
        BY <2>2
      <3>2. Uncounted(s, counted) /\ s.left \subseteq Items
        BY <1>1, <3>1 DEF Run
      <3> QED BY <3>1, <3>2 DEF Uncounted
    <2> QED BY <1>4, <2>1, <2>2
  <1> QED BY <1>1, <1>3, <1>4 DEF Accounted, Tallies

\* A run counts an item that it has not counted.
LEMMA OneMore ==
  ASSUME TallyInv, NEW r \in runs, NEW k \in Run, Becomes(r, {k}), k.b = r.b, k.n = r.n,
         k.left \subseteq r.left, k.pc # "saved",
         r.pc = "saved" \/ \E i \in r.left : i \notin k.left,
         CountOf(r.b)' = CountOf(r.b) + 1, UNCHANGED delivered
  PROVE  Accounted(r.b)'
  <1> DEFINE b == r.b
  <1>0. /\ r \in Run /\ b \in BatchIds /\ r.n \in 1..MaxRuns /\ r.n <= delivered[b]
        /\ r.left \subseteq Items /\ runs \subseteq Run
        /\ Accounted(b) /\ \A s \in runs : s.b = b /\ s.n = r.n => s = r
    BY DEF TallyInv, PushCopyInv, PushCopyTyped, RunsApart, Run
  <1>1. PICK counted \in Tallies :
          /\ CountOf(b) = Cardinality(counted)
          /\ \A t \in counted : t[1] <= delivered[b]
          /\ \A s \in runs : s.b = b => Uncounted(s, counted)
    BY <1>0 DEF Accounted
  <1>2. PICK i \in Items : i \notin k.left /\ <<r.n, i>> \notin counted
    <2>1. Uncounted(r, counted)
      BY <1>1
    <2>2. CASE r.pc = "saved"
      BY <2>1, <2>2 DEF Uncounted
    <2>3. CASE \E i \in r.left : i \notin k.left
      BY <1>0, <2>1, <2>3 DEF Uncounted
    <2> QED BY <2>2, <2>3
  <1> DEFINE new == counted \cup {<<r.n, i>>}
  <1>3. IsFiniteSet(counted)
    <2>0. IsFiniteSet(1..MaxRuns)
      BY PushCopyAssumption, FS_Interval
    <2>1. IsFiniteSet((1..MaxRuns) \X Items)
      BY <2>0, PushCopyAssumption, FS_Product
    <2> QED BY <1>1, <2>1, FS_Subset DEF Tallies
  <1>4. new \in Tallies /\ Cardinality(new) = Cardinality(counted) + 1
    <2>1. Cardinality(new) = Cardinality(counted) + 1
      BY <1>2, <1>3, FS_AddElement
    <2>2. new \in Tallies
      BY <1>0, <1>1, <1>2 DEF Tallies
    <2> QED BY <2>1, <2>2
  <1>5. \A t \in new : t[1] <= delivered'[b]
    BY <1>0, <1>1
  <1>6. ASSUME NEW s \in runs', s.b = b PROVE Uncounted(s, new)
    <2>1. CASE s = k
      <3>1. \A j \in k.left : <<r.n, j>> \notin counted /\ j # i
        BY <1>1, <1>2 DEF Uncounted
      <3> QED BY <2>1, <3>1 DEF Uncounted
    <2>2. CASE s \in runs /\ s # r
      <3>1. s.n # r.n /\ Uncounted(s, counted)
        BY <1>0, <1>1, <1>6, <2>2
      <3>2. \A j : <<s.n, j>> # <<r.n, i>>
        BY <3>1
      <3> QED BY <3>1, <3>2 DEF Uncounted
    <2> QED BY <2>1, <2>2 DEF Becomes
  <1>7. CountOf(b)' = Cardinality(new)
    BY <1>1, <1>4
  <1> HIDE DEF new
  <1> QED BY <1>4, <1>5, <1>6, <1>7 DEF Accounted, Tallies

LEMMA CountsAreNat ==
  ASSUME PushCopyTyped, NEW b \in BatchIds
  PROVE  /\ batches[b] \in BatchRow /\ batches[b].succeeded \in Nat /\ batches[b].failed \in Nat
         /\ delivered[b] \in 0..MaxRuns /\ delivered[b] \in Nat
  BY PushCopyAssumption DEF PushCopyTyped, BatchRow

\* A run that goes on, or ends, stays apart from the others.
LEMMA ApartAsBefore ==
  ASSUME TallyInv, NEW r \in runs, NEW new, Becomes(r, new), UNCHANGED delivered,
         \A k \in new : k.b = r.b /\ k.n = r.n, \A j, k \in new : j = k
  PROVE  RunsApart'
  BY DEF TallyInv, RunsApart, Becomes

\* A step of a run that counts nothing.
LEMMA QuietTally ==
  ASSUME TallyInv, PushCopyInv', NEW r \in runs, NEW new, Becomes(r, new), UNCHANGED delivered,
         \A j, k \in new : j = k,
         \A k \in new :
           /\ k.b = r.b /\ k.n = r.n /\ k.left \subseteq r.left
           /\ k.pc = "saved" => \E i \in r.left : i \notin k.left,
         \A b \in BatchIds : CountOf(b)' = CountOf(b)
  PROVE  TallyInv'
  <1>0. PushCopyTyped /\ runs \subseteq Run
    BY DEF TallyInv, PushCopyInv, PushCopyTyped
  <1>1. RunsApart'
    BY ApartAsBefore
  <1>2. ASSUME NEW b \in BatchIds PROVE Accounted(b)'
    <2>1. ASSUME NEW s \in runs', s.b = b
          PROVE  \E q \in runs : /\ q.b = b /\ q.n = s.n /\ s.left \subseteq q.left
                                 /\ s.pc = "saved" =>
                                      \/ q.pc = "saved" /\ s.left = q.left
                                      \/ \E i \in q.left : i \notin s.left
      <3>1. CASE s \in runs
        BY <2>1, <3>1
      <3>2. CASE s \in new
        BY <2>1, <3>2
      <3> QED BY <3>1, <3>2 DEF Becomes
    <2>2. Accounted(b) /\ delivered[b] \in Nat /\ delivered'[b] = delivered[b]
      BY <1>0, CountsAreNat DEF TallyInv
    <2> QED BY <1>0, <2>1, <2>2, SameTally
  <1> QED BY <1>1, <1>2 DEF TallyInv

\* A step of a run that counts an item.
LEMMA CountingTally ==
  ASSUME TallyInv, PushCopyInv', NEW r \in runs, NEW k \in Run, Becomes(r, {k}),
         UNCHANGED delivered, k.b = r.b, k.n = r.n, k.left \subseteq r.left, k.pc # "saved",
         r.pc = "saved" \/ \E i \in r.left : i \notin k.left,
         CountOf(r.b)' = CountOf(r.b) + 1,
         \A b \in BatchIds : b # r.b => CountOf(b)' = CountOf(b)
  PROVE  TallyInv'
  <1>0. PushCopyTyped /\ runs \subseteq Run
    BY DEF TallyInv, PushCopyInv, PushCopyTyped
  <1>1. RunsApart'
    BY ApartAsBefore
  <1>2. Accounted(r.b)'
    BY OneMore
  <1>3. ASSUME NEW b \in BatchIds, b # r.b PROVE Accounted(b)'
    <2>1. \A s \in runs' : s.b = b => s \in runs
      BY <1>3 DEF Becomes
    <2>2. Accounted(b) /\ delivered[b] \in Nat /\ delivered'[b] = delivered[b]
      BY <1>0, CountsAreNat DEF TallyInv
    <2> QED BY <1>0, <1>3, <2>1, <2>2, SameTally
  <1> QED BY <1>1, <1>2, <1>3 DEF TallyInv

LEMMA TallyRuns ==
  ASSUME TallyInv, PushCopyInv', NEW r \in runs,
         \/ MarkRunning(r) \/ CountSuccess(r) \/ ReadCounts(r) \/ FinishBatch(r)
         \/ Report(r) \/ RunRaises(r) \/ RunDies(r)
         \/ \E i \in Items : ItemFails(r, i) \/ SaveCopy(r, i)
  PROVE  TallyInv'
  <1>0. /\ PushCopyTyped /\ runs \subseteq Run /\ r \in Run /\ r.b \in BatchIds /\ r.left \subseteq Items
        /\ batches \in [BatchIds -> BatchRow]
        /\ \A b \in BatchIds : batches[b].succeeded \in Nat /\ batches[b].failed \in Nat
    BY CountsAreNat DEF TallyInv, PushCopyInv, PushCopyTyped, Run
  \* Neither the status nor the job of a batch is part of its count.
  <1>1. ASSUME \/ UNCHANGED batches
               \/ \E s : batches' = [batches EXCEPT ![r.b].status = s]
               \/ \E s : batches' = [batches EXCEPT ![r.b].job = s]
        PROVE  \A b \in BatchIds : CountOf(b)' = CountOf(b)
    <2> SUFFICES ASSUME NEW b \in BatchIds
                 PROVE  /\ batches'[b].succeeded = batches[b].succeeded
                        /\ batches'[b].failed = batches[b].failed
      BY DEF CountOf
    <2>1. batches[r.b] \in BatchRow
      BY <1>0
    <2>2. ASSUME NEW s, batches' = [batches EXCEPT ![r.b].status = s]
          PROVE  /\ batches'[b].succeeded = batches[b].succeeded
                 /\ batches'[b].failed = batches[b].failed
      BY <1>0, <2>1, <2>2 DEF BatchRow
    <2>3. ASSUME NEW s, batches' = [batches EXCEPT ![r.b].job = s]
          PROVE  /\ batches'[b].succeeded = batches[b].succeeded
                 /\ batches'[b].failed = batches[b].failed
      BY <1>0, <2>1, <2>3 DEF BatchRow
    <2> QED BY <1>1, <2>2, <2>3
  <1>2. CASE Report(r) \/ RunRaises(r) \/ RunDies(r)
    <2>1. /\ Becomes(r, {}) /\ UNCHANGED delivered
          /\ UNCHANGED batches \/ \E s : batches' = [batches EXCEPT ![r.b].job = s]
      BY <1>2 DEF Report, RunRaises, RunDies
    <2> QED BY <1>1, <2>1, QuietTally
  <1>3. ASSUME NEW pc, pc # "saved", Becomes(r, {[r EXCEPT !.pc = pc]}), UNCHANGED delivered,
               \A b \in BatchIds : CountOf(b)' = CountOf(b)
        PROVE  TallyInv'
    <2> DEFINE k == [r EXCEPT !.pc = pc]
    <2>1. k.pc = pc /\ k.b = r.b /\ k.n = r.n /\ k.left = r.left
      BY <1>0 DEF Run
    <2> HIDE DEF k
    <2>2. Becomes(r, {k})
      BY <1>3 DEF k
    <2> QED BY <1>3, <2>1, <2>2, QuietTally
  <1>4. CASE MarkRunning(r)
    BY <1>1, <1>3, <1>4 DEF MarkRunning
  <1>5. CASE ReadCounts(r)
    BY <1>1, <1>3, <1>5 DEF ReadCounts, Outcome
  <1>6. CASE FinishBatch(r)
    BY <1>1, <1>3, <1>6 DEF FinishBatch
  <1>7. ASSUME NEW i \in Items, SaveCopy(r, i) PROVE TallyInv'
    <2> DEFINE k == [r EXCEPT !.left = @ \ {i}, !.pc = "saved"]
    <2>1. k.b = r.b /\ k.n = r.n /\ k.left = r.left \ {i}
      BY <1>0 DEF Run
    <2>2. Becomes(r, {k}) /\ i \in r.left /\ UNCHANGED <<batches, delivered>>
      BY <1>7 DEF SaveCopy
    <2> HIDE DEF k
    <2> QED BY <1>1, <2>1, <2>2, QuietTally
  <1>8. CASE CountSuccess(r)
    <2> DEFINE k == [r EXCEPT !.pc = IF r.left = {} THEN "count" ELSE "item"]
    <2>1. k \in Run /\ k.b = r.b /\ k.n = r.n /\ k.left = r.left /\ k.pc # "saved"
      BY <1>0 DEF Run
    <2>2. /\ Becomes(r, {k}) /\ r.pc = "saved" /\ UNCHANGED delivered
          /\ batches' = [batches EXCEPT ![r.b].succeeded = @ + 1]
      BY <1>8 DEF CountSuccess
    <2> HIDE DEF k
    <2>3. \A b \in BatchIds :
            /\ batches'[b].succeeded = batches[b].succeeded + (IF b = r.b THEN 1 ELSE 0)
            /\ batches'[b].failed = batches[b].failed
      BY <1>0, <2>2 DEF BatchRow
    <2>4. CountOf(r.b)' = CountOf(r.b) + 1 /\ \A b \in BatchIds : b # r.b => CountOf(b)' = CountOf(b)
      BY <1>0, <2>3 DEF CountOf
    <2> QED BY <2>1, <2>2, <2>4, CountingTally
  <1>9. ASSUME NEW i \in Items, ItemFails(r, i) PROVE TallyInv'
    <2> DEFINE k == [r EXCEPT !.left = @ \ {i}, !.pc = IF r.left = {i} THEN "count" ELSE "item"]
    <2>1. k \in Run /\ k.b = r.b /\ k.n = r.n /\ k.left = r.left \ {i} /\ k.pc # "saved"
      BY <1>0 DEF Run
    <2>2. /\ Becomes(r, {k}) /\ i \in r.left /\ UNCHANGED delivered
          /\ batches' = [batches EXCEPT ![r.b].failed = @ + 1]
      BY <1>9 DEF ItemFails
    <2> HIDE DEF k
    <2>3. \A b \in BatchIds :
            /\ batches'[b].failed = batches[b].failed + (IF b = r.b THEN 1 ELSE 0)
            /\ batches'[b].succeeded = batches[b].succeeded
      BY <1>0, <2>2 DEF BatchRow
    <2>4. CountOf(r.b)' = CountOf(r.b) + 1 /\ \A b \in BatchIds : b # r.b => CountOf(b)' = CountOf(b)
      BY <1>0, <2>3 DEF CountOf
    <2> QED BY <2>1, <2>2, <2>4, CountingTally
  <1> QED BY <1>2, <1>4, <1>5, <1>6, <1>7, <1>8, <1>9

\* A step that leaves the runs alone.
LEMMA RestingTally ==
  ASSUME TallyInv, PushCopyInv', UNCHANGED <<runs, delivered>>,
         \A b \in BatchIds : CountOf(b)' = CountOf(b)
  PROVE  TallyInv'
  <1>1. RunsApart'
    BY DEF TallyInv, RunsApart
  <1>2. \A b \in BatchIds : Accounted(b)'
    BY DEF TallyInv, Accounted, Tallies, Uncounted
  <1> QED BY <1>1, <1>2 DEF TallyInv

LEMMA TallyRequests ==
  ASSUME TallyInv, PushCopyInv', NEW q \in Staff,
         CreateBatch(q) \/ EnqueueBatch(q) \/ \E s \in SUBSET Items : StartBatch(q, s)
  PROVE  TallyInv'
  <1>0. /\ batches \in [BatchIds -> BatchRow] /\ UNCHANGED <<runs, delivered>>
        /\ \A b \in BatchIds : batches[b].succeeded \in Nat /\ batches[b].failed \in Nat
    BY CountsAreNat DEF TallyInv, PushCopyInv, PushCopyTyped, CreateBatch, EnqueueBatch, StartBatch
  <1>1. ASSUME NEW b \in BatchIds PROVE CountOf(b)' = CountOf(b)
    <2>1. CASE CreateBatch(q)
      <3>1. Latest \in Nat /\ Latest + 1 \notin Made
        BY MadeFinite DEF TallyInv, PushCopyInv
      <3>2. CASE b = Latest + 1
        <4>1. batches[b] = NoBatch
          BY <3>1, <3>2 DEF TallyInv, PushCopyInv, BatchSound, IsMade, Made
        <4>2. batches'[b] = [NoBatch EXCEPT !.status = "pending", !.items = request[q].items]
          BY <1>0, <2>1, <3>2 DEF CreateBatch
        <4> QED BY <4>1, <4>2 DEF CountOf, NoBatch
      <3>3. CASE b # Latest + 1
        BY <1>0, <2>1, <3>3 DEF CreateBatch, CountOf
      <3> QED BY <3>2, <3>3
    <2>2. CASE EnqueueBatch(q)
      <3>1. batches'[b].succeeded = batches[b].succeeded /\ batches'[b].failed = batches[b].failed
        BY <1>0, <2>2 DEF EnqueueBatch, BatchRow
      <3> QED BY <3>1 DEF CountOf
    <2>3. CASE \E s \in SUBSET Items : StartBatch(q, s)
      BY <2>3 DEF StartBatch, CountOf
    <2> QED BY <2>1, <2>2, <2>3
  <1> QED BY <1>0, <1>1, RestingTally

LEMMA TallyDelivery ==
  ASSUME TallyInv, PushCopyInv', NEW b \in BatchIds, Deliver(b)
  PROVE  TallyInv'
  <1> DEFINE n == delivered[b] + 1
             k == [b |-> b, n |-> n, pc |-> "mark", left |-> batches[b].items]
  <1>0. /\ PushCopyTyped /\ runs \subseteq Run /\ UNCHANGED batches
        /\ runs' = runs \cup {k} /\ delivered' = [delivered EXCEPT ![b] = n]
        /\ delivered \in [BatchIds -> 0..MaxRuns] /\ delivered[b] \in Nat
        /\ \A c \in BatchIds : delivered[c] \in Nat
        /\ \A r \in runs : r.b \in BatchIds /\ r.n \in Nat /\ r.n <= delivered[r.b]
    BY CountsAreNat, PushCopyAssumption
    DEF TallyInv, RunsApart, PushCopyInv, PushCopyTyped, Deliver, Run
  <1>1. k.b = b /\ k.n = n /\ k.pc = "mark" /\ n \in Nat /\ n > delivered[b]
    BY <1>0
  <1>2. /\ \A c \in BatchIds : delivered'[c] = IF c = b THEN n ELSE delivered[c]
        /\ \A c \in BatchIds : delivered'[c] \in Nat /\ delivered[c] <= delivered'[c]
    BY <1>0
  <1> HIDE DEF k, n
  <1>3. RunsApart'
    <2>1. \A r \in runs' : r.n <= delivered'[r.b]
      BY <1>0, <1>1, <1>2
    <2>2. \A r, s \in runs' : r.b = s.b /\ r.n = s.n => r = s
      BY <1>0, <1>1 DEF TallyInv, RunsApart
    <2> QED BY <2>1, <2>2 DEF RunsApart
  <1>4. ASSUME NEW c \in BatchIds PROVE Accounted(c)'
    <2>1. CountOf(c)' = CountOf(c) /\ Accounted(c)
      BY <1>0 DEF CountOf, TallyInv
    <2>2. \A r \in runs' : r.b = c =>
            r \in runs \/ (r.n \in Nat /\ r.n > delivered[c] /\ r.pc # "saved")
      BY <1>0, <1>1
    <2> QED BY <1>0, <1>2, <2>1, <2>2, SameTally
  <1> QED BY <1>3, <1>4 DEF TallyInv

LEMMA TallyStep == TallyInv /\ [PushCopyNext]_pushCopyVars => TallyInv'
  <1> SUFFICES ASSUME TallyInv, [PushCopyNext]_pushCopyVars PROVE TallyInv'
    OBVIOUS
  <1>1. PushCopyInv'
    BY PushCopyStep DEF TallyInv
  <1>2. CASE UNCHANGED pushCopyVars
    BY <1>1, <1>2, RestingTally DEF pushCopyVars, CountOf
  <1> QED BY <1>1, <1>2, TallyRuns, TallyRequests, TallyDelivery DEF PushCopyNext

\* Neither counter outgrows the deliveries times the items.
LEMMA TalliesBound ==
  ASSUME TallyInv, NEW b \in BatchIds
  PROVE  batches[b].succeeded \in Counts /\ batches[b].failed \in Counts
  <1>1. batches[b].succeeded \in Nat /\ batches[b].failed \in Nat
    BY CountsAreNat DEF TallyInv, PushCopyInv
  <1>2. PICK counted \in Tallies : CountOf(b) = Cardinality(counted)
    BY DEF TallyInv, Accounted
  <1>3. IsFiniteSet(1..MaxRuns) /\ Cardinality(1..MaxRuns) = MaxRuns
    BY PushCopyAssumption, FS_Interval
  <1>4. /\ IsFiniteSet((1..MaxRuns) \X Items)
        /\ Cardinality((1..MaxRuns) \X Items) = MaxRuns * Cardinality(Items)
    BY <1>3, PushCopyAssumption, FS_Product
  <1>5. CountOf(b) <= MaxRuns * Cardinality(Items)
    BY <1>2, <1>4, FS_Subset DEF Tallies
  <1>6. MaxRuns * Cardinality(Items) \in Nat
    BY <1>4, FS_CardinalityType
  <1> DEFINE bound == MaxRuns * Cardinality(Items)
  <1>7. Counts = 0..bound /\ bound \in Nat /\ batches[b].succeeded + batches[b].failed <= bound
    BY <1>5, <1>6 DEF Counts, CountOf
  <1> HIDE DEF bound
  <1> QED BY <1>1, <1>7

LEMMA TalliesType == TallyInv => PushCopyTypeOK
  <1> SUFFICES ASSUME TallyInv PROVE PushCopyTypeOK
    OBVIOUS
  <1>1. PushCopyTyped
    BY DEF TallyInv, PushCopyInv
  <1>2. ASSUME NEW b \in BatchIds PROVE batches[b] \in Batch
    <2>1. batches[b] \in BatchRow /\ batches[b].succeeded \in Counts /\ batches[b].failed \in Counts
      BY <1>1, TalliesBound DEF PushCopyTyped
    <2> QED BY <2>1 DEF BatchRow, Batch
  <1>3. batches \in [BatchIds -> Batch]
    BY <1>1, <1>2 DEF PushCopyTyped
  <1> QED BY <1>1, <1>3 DEF PushCopyTyped, PushCopyTypeOK, StaffRequest
=============================================================================
