--------------------------- MODULE CheckoutOutbox ---------------------------
(***************************************************************************)
(* Delivery of the OrderConfirmed events: dispatch_outbox of               *)
(* modules/checkout_confirmation over checkout_outbox, and the consumer of *)
(* its runtime, which credits the order to the member of the session and   *)
(* attributes it to touches.  A fresh confirmation and the start of the    *)
(* process each spawn one dispatch; nothing else does.  Dispatches run in  *)
(* threads of one process, beside each other.  Two events never belong to  *)
(* the same member (the member record is written back as a whole).         *)
(*                                                                         *)
(* ready is available_at <= now; lease is locked_until NULL, in the future *)
(* or in the past.  Punctual is TRUE when a dispatch works off its batch   *)
(* before the 60 s lease of the batch ends.                                *)
(***************************************************************************)
EXTENDS Naturals, FiniteSets

CONSTANTS
  Events,        \* OrderConfirmed events, one for each Order
  Members,       \* events of Orders by a member who consented to a history
  Dispatchers,   \* threads that can run dispatch_outbox
  NoEvent,       \* no event
  MaxDeliveries, \* checkout_outbox.max_attempts
  Limit,         \* the limit argument of dispatch_outbox
  MaxFaults,     \* bound on crashes and failed outbox transactions
  Punctual,      \* TRUE: a batch is worked off before its lease ends
  Busy           \* TRUE: Orders outside of Events go on being confirmed

ASSUME CheckoutOutboxAssumption ==
  /\ NoEvent \notin Events
  /\ Members \subseteq Events
  /\ MaxDeliveries \in Nat \ {0}
  /\ Limit \in Nat \ {0}
  /\ MaxFaults \in Nat
  /\ Punctual \in BOOLEAN
  /\ Busy \in BOOLEAN

VARIABLES
  outbox,     \* checkout_outbox
  bound,      \* events whose ordering session is still bound to a member
  history,    \* how often the order of an event is in the member's records
  attributed, \* events whose purchase touches and attributions are recorded
  thread,     \* what each dispatcher thread is doing
  spawned,    \* dispatches that were spawned and have not started
  faults,     \* crashes and failed transactions so far
  torn        \* history: deliveries of an event that ended between the update
              \* of the member and the unbinding of the session

outboxVars == <<outbox, bound, history, attributed, thread, spawned, faults, torn>>

Row == [state : {"absent", "pending"}, published : BOOLEAN, dead : BOOLEAN,
        attempts : Nat, ready : BOOLEAN, lease : {"none", "held", "lapsed"}]
Labels == {"idle", "next", "credit", "unbind", "attribute", "ack", "nack"}
Thread == [pc : Labels, batch : SUBSET Events, event : Events \cup {NoEvent}, credits : Nat]

OutboxTypeOK ==
  /\ outbox \in [Events -> Row]
  /\ bound \subseteq Events
  /\ history \in [Events -> Nat]
  /\ attributed \subseteq Events
  /\ thread \in [Dispatchers -> Thread]
  /\ spawned \in Nat
  /\ faults \in Nat
  /\ torn \in [Events -> Nat]

NoRow == [state |-> "absent", published |-> FALSE, dead |-> FALSE, attempts |-> 0,
          ready |-> FALSE, lease |-> "none"]
IdleThread == [pc |-> "idle", batch |-> {}, event |-> NoEvent, credits |-> 0]

\* The process has just started and has spawned its first dispatch.
OutboxInit ==
  /\ outbox = [e \in Events |-> NoRow]
  /\ bound = Members
  /\ history = [e \in Events |-> 0]
  /\ attributed = {}
  /\ thread = [d \in Dispatchers |-> IdleThread]
  /\ spawned = 1
  /\ faults = 0
  /\ torn = [e \in Events |-> 0]

HoldersOf(e) ==
  {d \in Dispatchers : e \in thread[d].batch \/ thread[d].event = e}

Settled(e) == outbox[e].published \/ outbox[e].dead

-----------------------------------------------------------------------------
(* Confirmation and claim.                                                 *)

\* The confirmation commits the event.  The route then spawns a dispatch,
\* unless the process dies first.
ConfirmOrder(e) ==
  /\ outbox[e].state = "absent"
  /\ outbox' = [outbox EXCEPT ![e] = [NoRow EXCEPT !.state = "pending", !.ready = TRUE]]
  /\ spawned' = spawned + 1
  /\ UNCHANGED <<bound, history, attributed, thread, faults, torn>>

\* Mutant of DueEvents: only events that nobody ever leased are claimed.
DueUnlockedOnly ==
  {e \in Events : /\ outbox[e].state = "pending"
                  /\ ~Settled(e)
                  /\ outbox[e].ready
                  /\ outbox[e].lease = "none"}

DueEvents ==
  {e \in Events : /\ outbox[e].state = "pending"
                  /\ ~Settled(e)
                  /\ outbox[e].ready
                  /\ outbox[e].lease # "held"}

\* The confirmation of an Order that is not followed here (of another store,
\* say) spawns a dispatch too.
OtherOrder ==
  /\ Busy
  /\ spawned = 0
  /\ spawned' = 1
  /\ UNCHANGED <<outbox, bound, history, attributed, thread, faults, torn>>

\* pending_outbox: the whole batch is leased, and charged with an attempt, in
\* one transaction.
Dispatch(d) ==
  /\ thread[d].pc = "idle"
  /\ spawned > 0
  /\ spawned' = spawned - 1
  /\ \E batch \in SUBSET DueEvents :
       /\ Cardinality(batch) = Limit \/ (batch = DueEvents /\ Cardinality(batch) < Limit)
       /\ outbox' = [e \in Events |->
                       IF e \in batch
                       THEN [outbox[e] EXCEPT !.attempts = outbox[e].attempts + 1, !.lease = "held"]
                       ELSE outbox[e]]
       /\ thread' = [thread EXCEPT ![d] = [IdleThread EXCEPT !.pc = "next", !.batch = batch]]
  /\ UNCHANGED <<bound, history, attributed, faults, torn>>

\* The transaction of pending_outbox fails, and the dispatch with it.
DispatchFails(d) ==
  /\ thread[d].pc = "idle"
  /\ spawned > 0
  /\ faults < MaxFaults
  /\ faults' = faults + 1
  /\ spawned' = spawned - 1
  /\ UNCHANGED <<outbox, bound, history, attributed, thread, torn>>

-----------------------------------------------------------------------------
(* The consumer.                                                           *)

\* Mutant of Deliver: the member is looked up once, before the loop, so a
\* session that was unbound meanwhile is credited again.
DeliverAlwaysCredits(d) ==
  /\ thread[d].pc = "next"
  /\ \E e \in thread[d].batch :
       thread' = [thread EXCEPT ![d] =
         [@ EXCEPT !.batch = @ \ {e}, !.event = e, !.credits = history[e], !.pc = "credit"]]
  /\ UNCHANGED <<outbox, bound, history, attributed, spawned, faults, torn>>

\* The consumer reads the Order, then the member of its ordering session; a
\* session that is not bound skips the member.
Deliver(d) ==
  /\ thread[d].pc = "next"
  /\ \E e \in thread[d].batch :
       thread' = [thread EXCEPT ![d] =
         [@ EXCEPT !.batch = thread[d].batch \ {e}, !.event = e, !.credits = history[e],
                   !.pc = IF e \in bound THEN "credit" ELSE "attribute"]]
  /\ UNCHANGED <<outbox, bound, history, attributed, spawned, faults, torn>>

\* upsert_member writes the whole record back, as it was read plus this order.
Credit(d) ==
  /\ thread[d].pc = "credit"
  /\ history' = [history EXCEPT ![thread[d].event] = thread[d].credits + 1]
  /\ thread' = [thread EXCEPT ![d] = [@ EXCEPT !.pc = "unbind"]]
  /\ UNCHANGED <<outbox, bound, attributed, spawned, faults, torn>>

\* clear_session
Unbind(d) ==
  /\ thread[d].pc = "unbind"
  /\ bound' = bound \ {thread[d].event}
  /\ thread' = [thread EXCEPT ![d] = [@ EXCEPT !.pc = "attribute"]]
  /\ UNCHANGED <<outbox, history, attributed, spawned, faults, torn>>

\* Purchase touches have ids made from the order, attributions are upserts:
\* doing it again changes nothing.
Attribute(d) ==
  /\ thread[d].pc = "attribute"
  /\ attributed' = attributed \cup {thread[d].event}
  /\ thread' = [thread EXCEPT ![d] = [@ EXCEPT !.pc = "ack"]]
  /\ UNCHANGED <<outbox, bound, history, spawned, faults, torn>>

\* A step of the consumer, or the acknowledgement, raises before it has an
\* effect.
Raise(d) ==
  /\ thread[d].pc \in {"credit", "unbind", "attribute", "ack"}
  /\ thread' = [thread EXCEPT ![d] = [@ EXCEPT !.pc = "nack"]]
  /\ torn' = IF thread[d].pc = "unbind" THEN [torn EXCEPT ![thread[d].event] = @ + 1] ELSE torn
  /\ UNCHANGED <<outbox, bound, history, attributed, spawned, faults>>

-----------------------------------------------------------------------------
(* The outcome of a delivery.                                              *)

NextEvent(d) == thread' = [thread EXCEPT ![d] = [@ EXCEPT !.pc = "next", !.event = NoEvent]]

\* mark_outbox_published: nothing is written if the event is published.
Ack(d) ==
  /\ thread[d].pc = "ack"
  /\ outbox' = IF outbox[thread[d].event].published
               THEN outbox
               ELSE [outbox EXCEPT ![thread[d].event] =
                       [@ EXCEPT !.published = TRUE, !.lease = "none"]]
  /\ NextEvent(d)
  /\ UNCHANGED <<bound, history, attributed, spawned, faults, torn>>

MayRedeliver(e) == outbox[e].attempts < MaxDeliveries

\* mark_outbox_failed, back to the queue or to the dead letters; it does not
\* ask whether the event was published meanwhile.
NackRetry(d) ==
  /\ thread[d].pc = "nack"
  /\ MayRedeliver(thread[d].event)
  /\ outbox' = [outbox EXCEPT ![thread[d].event] = [@ EXCEPT !.ready = FALSE, !.lease = "none"]]
  /\ NextEvent(d)
  /\ UNCHANGED <<bound, history, attributed, spawned, faults, torn>>

NackDead(d) ==
  /\ thread[d].pc = "nack"
  /\ ~MayRedeliver(thread[d].event)
  /\ outbox' = [outbox EXCEPT ![thread[d].event] = [@ EXCEPT !.dead = TRUE, !.lease = "none"]]
  /\ NextEvent(d)
  /\ UNCHANGED <<bound, history, attributed, spawned, faults, torn>>

\* mark_outbox_failed fails: the dispatch ends and leaves the rest of its batch
\* leased.
NackFails(d) ==
  /\ thread[d].pc = "nack"
  /\ faults < MaxFaults
  /\ faults' = faults + 1
  /\ thread' = [thread EXCEPT ![d] = IdleThread]
  /\ UNCHANGED <<outbox, bound, history, attributed, spawned, torn>>

\* The batch is done.
Return(d) ==
  /\ thread[d].pc = "next"
  /\ thread[d].batch = {}
  /\ thread' = [thread EXCEPT ![d] = IdleThread]
  /\ UNCHANGED <<outbox, bound, history, attributed, spawned, faults, torn>>

-----------------------------------------------------------------------------
(* Faults and time.                                                        *)

\* The threads of a crashed process.
Torn(e) == \E d \in Dispatchers : thread[d].pc = "unbind" /\ thread[d].event = e

\* Every thread and every dispatch that was spawned is lost; startup spawns one.
ProcessDies ==
  /\ faults < MaxFaults
  /\ faults' = faults + 1
  /\ thread' = [d \in Dispatchers |-> IdleThread]
  /\ spawned' = 1
  /\ torn' = [e \in Events |-> torn[e] + IF Torn(e) THEN 1 ELSE 0]
  /\ UNCHANGED <<outbox, bound, history, attributed>>

EventBackoffElapses(e) ==
  /\ outbox[e].state = "pending"
  /\ ~outbox[e].ready
  /\ outbox' = [outbox EXCEPT ![e] = [@ EXCEPT !.ready = TRUE]]
  /\ UNCHANGED <<bound, history, attributed, thread, spawned, faults, torn>>

BatchLeaseLapses(e) ==
  /\ outbox[e].lease = "held"
  /\ Punctual => HoldersOf(e) = {}
  /\ outbox' = [outbox EXCEPT ![e] = [@ EXCEPT !.lease = "lapsed"]]
  /\ UNCHANGED <<bound, history, attributed, thread, spawned, faults, torn>>

OutboxNext ==
  \/ \E e \in Events : ConfirmOrder(e) \/ EventBackoffElapses(e) \/ BatchLeaseLapses(e)
  \/ OtherOrder
  \/ \E d \in Dispatchers :
       \/ Dispatch(d) \/ DispatchFails(d) \/ Deliver(d) \/ Credit(d) \/ Unbind(d) \/ Attribute(d)
       \/ Raise(d) \/ Ack(d) \/ NackRetry(d) \/ NackDead(d) \/ NackFails(d) \/ Return(d)
  \/ ProcessDies

OutboxSpec == OutboxInit /\ [][OutboxNext]_outboxVars

\* Threads are scheduled, time passes and, if the store is Busy, other Orders
\* follow.  No event of Events has to be confirmed.
OutboxFairness ==
  /\ WF_outboxVars(OtherOrder)
  /\ WF_outboxVars(\E d \in Dispatchers : Dispatch(d))
  /\ \A d \in Dispatchers :
       WF_outboxVars(Deliver(d) \/ Credit(d) \/ Unbind(d) \/ Attribute(d) \/ Ack(d)
                 \/ NackRetry(d) \/ NackDead(d) \/ Return(d))
  /\ \A e \in Events : WF_outboxVars(EventBackoffElapses(e)) /\ WF_outboxVars(BatchLeaseLapses(e))

FairOutboxSpec == OutboxSpec /\ OutboxFairness

-----------------------------------------------------------------------------
(* Properties.                                                             *)

\* An event is published only when everything the consumer does for it is on
\* record: the member is credited and unbound, the purchase attributed.
PublishedIsConsumed ==
  \A e \in Events : outbox[e].published =>
    /\ e \in Members => history[e] >= 1
    /\ e \notin bound
    /\ e \in attributed

\* An event is dead-lettered only after as many claims as it has attempts.
DeadEventsAreEarned ==
  \A e \in Events : outbox[e].dead => outbox[e].attempts >= MaxDeliveries

\* With timely dispatches at most one thread has an event.
OneHolder == \A e \in Events : \A c, d \in HoldersOf(e) : c = d

\* With timely dispatches an event is published or a dead letter, never both.
PublishedOrDead == \A e \in Events : ~(outbox[e].published /\ outbox[e].dead)

\* With timely dispatches an order is in the records of its member once, and
\* once more for each delivery that ended between the credit and the unbinding.
CreditsAreExplained == \A e \in Events : history[e] <= 1 + torn[e]

\* With timely dispatches a published event is not delivered again.
NotDeliveredAgain ==
  [][\A d \in Dispatchers :
       (thread[d].event = NoEvent /\ thread'[d].event # NoEvent) =>
         ~outbox[thread'[d].event].published]_outboxVars

\* Every event is published or dead-lettered in the end.  That takes a dispatch
\* after every backoff and lapsed lease, which only other Orders bring.
EveryEventSettles ==
  \A e \in Events : (outbox[e].state = "pending") ~> Settled(e)

=============================================================================
