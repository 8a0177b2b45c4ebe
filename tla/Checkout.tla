------------------------------ MODULE Checkout ------------------------------
(***************************************************************************)
(* The ordering cart and the checkout confirmation of the kiosk backend:   *)
(* modules/cart and modules/checkout_confirmation.  A request thread runs  *)
(* Prepare (quote the cart) or Confirm (turn a quote into an Order) one    *)
(* statement at a time.  Serialized is TRUE for the SQLite backend, whose  *)
(* transactions start with BEGIN IMMEDIATE, and FALSE for PostgreSQL,      *)
(* where every transaction is READ COMMITTED and its SELECTs lock nothing. *)
(*                                                                         *)
(* The writes of a transaction become visible together in its last step:   *)
(* they update rows by primary key, the rows stay locked until the commit, *)
(* and no two transactions here lock rows in opposite orders.              *)
(***************************************************************************)
EXTENDS Naturals

CONSTANTS
  Sessions,       \* ordering sessions; each has one cart
  Items,          \* menu items; the lines of a cart are a set of items
  QuoteIds,       \* quotes that can be prepared (bounds the prepares)
  OrderIds,       \* Orders that can be created
  Keys,           \* idempotency keys chosen by the kiosks
  Workers,        \* threads that serve requests
  None,           \* absence of a value
  Serialized,     \* TRUE: SQLite, BEGIN IMMEDIATE; FALSE: PostgreSQL
  EventInserts,   \* FALSE: the outbox INSERT violates a NOT NULL constraint
  QuoteTTL,       \* life of a quote, in clock ticks
  MaxRevision,    \* bound on the cart revision
  MaxClock        \* bound on the clock

ASSUME CheckoutAssumption ==
  /\ Serialized \in BOOLEAN
  /\ EventInserts \in BOOLEAN
  /\ QuoteTTL \in Nat \ {0}
  /\ MaxRevision \in Nat
  /\ MaxClock \in Nat
  /\ None \notin Sessions \cup QuoteIds \cup OrderIds \cup Keys \cup Workers

VARIABLES
  cart,        \* ordering_carts with ordering_cart_lines
  quote,       \* checkout_quotes
  orders,      \* confirmed_orders, a set of rows
  attempts,    \* checkout_confirmation_attempts, a set of rows
  lastPickup,  \* checkout_pickup_sequences.last_number
  outbox,      \* orders that have an OrderConfirmed row in checkout_outbox
  sellable,    \* items that are on the menu and available
  clock,       \* wall clock
  writer,      \* SQLite: the thread that holds the write lock
  pc,          \* the next statement of each thread
  loc,         \* the local variables of each thread
  linesAt      \* history: what the cart of a session held at each revision

tables == <<cart, quote, orders, attempts, lastPickup, outbox>>
vars == <<tables, sellable, clock, writer, pc, loc, linesAt>>

CartStatus == {"missing", "open", "closed", "abandoned"}
QuoteStatus == {"none", "active", "superseded", "expired", "stale", "consumed"}
Rejections == {"quote_superseded", "quote_expired", "quote_stale", "quote_consumed"}
Outcomes == Rejections \cup {"items_unavailable", "confirmed"}

CartRow == [status : CartStatus, revision : 0 .. MaxRevision, lines : SUBSET Items]
QuoteRow == [status : QuoteStatus, session : Sessions \cup {None}, revision : Nat,
             lines : SUBSET Items, expires : Nat, order : OrderIds \cup {None}]
OrderRow == [id : OrderIds, quote : QuoteIds, session : Sessions, pickup : Nat,
             lines : SUBSET Items]
AttemptRow == [key : Keys, quote : QuoteIds, type : Outcomes]
Locals == [session : Sessions \cup {None}, quote : QuoteIds \cup {None},
           key : Keys \cup {None}, status : CartStatus, revision : Nat,
           lines : SUBSET Items, seen : SUBSET QuoteIds, now : Nat,
           unavailable : BOOLEAN, result : Outcomes,
           mark : {"none", "expired", "stale"}]
Labels == {"idle", "cart_lines", "price", "quote_select", "quote_write",
           "validate", "attempt", "quote_read", "cart_read", "reject", "commit"}

NoCart == [status |-> "missing", revision |-> 0, lines |-> {}]
NoQuote == [status |-> "none", session |-> None, revision |-> 0, lines |-> {},
            expires |-> 0, order |-> None]
NoLocals == [session |-> None, quote |-> None, key |-> None, status |-> "missing",
             revision |-> 0, lines |-> {}, seen |-> {}, now |-> 0,
             unavailable |-> FALSE, result |-> "confirmed", mark |-> "none"]

TypeOK ==
  /\ cart \in [Sessions -> CartRow]
  /\ quote \in [QuoteIds -> QuoteRow]
  /\ orders \subseteq OrderRow
  /\ attempts \subseteq AttemptRow
  /\ lastPickup \in Nat
  /\ outbox \subseteq OrderIds
  /\ sellable \subseteq Items
  /\ clock \in Nat
  /\ writer \in Workers \cup {None}
  /\ pc \in [Workers -> Labels]
  /\ loc \in [Workers -> Locals]
  /\ linesAt \in [Sessions -> [0 .. MaxRevision -> SUBSET Items]]

Init ==
  /\ cart = [s \in Sessions |-> NoCart]
  /\ quote = [q \in QuoteIds |-> NoQuote]
  /\ orders = {}
  /\ attempts = {}
  /\ lastPickup = 0
  /\ outbox = {}
  /\ sellable = Items
  /\ clock = 0
  /\ writer = None
  /\ pc = [w \in Workers |-> "idle"]
  /\ loc = [w \in Workers |-> NoLocals]
  /\ linesAt = [s \in Sessions |-> [n \in 0 .. MaxRevision |-> {}]]

-----------------------------------------------------------------------------
(* Control of a thread and of the SQLite write lock.                       *)

MayWrite == Serialized => writer = None

\* Mutant of BeginTx: BEGIN DEFERRED takes no write lock.
BeginTxDeferred(w) ==
  /\ MayWrite
  /\ UNCHANGED writer

BeginTx(w) ==
  /\ MayWrite
  /\ writer' = IF Serialized THEN w ELSE writer

EndTx(w) == writer' = IF writer = w THEN None ELSE writer

Goto(w, label) == pc' = [pc EXCEPT ![w] = label]

\* The request is answered (or fails) and the thread forgets its locals.
Finish(w) ==
  /\ Goto(w, "idle")
  /\ loc' = [loc EXCEPT ![w] = NoLocals]
  /\ EndTx(w)

ActiveQuotes(s) == {q \in QuoteIds : quote[q].status = "active" /\ quote[q].session = s}
OrderOf(q) == {o \in orders : o.quote = q}
AttemptsWith(k) == {a \in attempts : a.key = k}

-----------------------------------------------------------------------------
(* The cart, as the kiosk and the entry flow change it.                    *)

\* One locked transaction: a closed cart or a wrong revision changes nothing.
ReplaceCart(s, expected, lines) ==
  /\ MayWrite
  /\ cart[s].status \in {"missing", "open"}
  /\ cart[s].revision = expected
  /\ expected < MaxRevision
  /\ cart' = [cart EXCEPT ![s] =
                [status |-> "open", revision |-> expected + 1, lines |-> lines]]
  /\ linesAt' = [linesAt EXCEPT ![s][expected + 1] = lines]
  /\ UNCHANGED <<quote, orders, attempts, lastPickup, outbox, sellable, clock,
                 writer, pc, loc>>

\* The entry flow abandons the cart of its session.
AbandonCart(s) ==
  /\ MayWrite
  /\ cart[s].status = "open"
  /\ cart' = [cart EXCEPT ![s].status = "abandoned"]
  /\ UNCHANGED <<quote, orders, attempts, lastPickup, outbox, sellable, clock,
                 writer, pc, loc, linesAt>>

-----------------------------------------------------------------------------
(* Prepare: read the cart, price it, and quote it.                         *)

\* cart.get reads the cart row ...
PrepareReadCart(w, s) ==
  /\ pc[w] = "idle"
  /\ BeginTx(w)
  /\ loc' = [loc EXCEPT ![w] = [NoLocals EXCEPT !.session = s,
                                  !.status = cart[s].status,
                                  !.revision = cart[s].revision]]
  /\ Goto(w, "cart_lines")
  /\ UNCHANGED <<tables, sellable, clock, linesAt>>

\* ... and then, in a second statement, its lines.  A missing row is inserted
\* unless another request inserted it in between.
PrepareReadLines(w) ==
  LET s == loc[w].session
      insert == loc[w].status = "missing"
      ready == loc[w].status = "open" /\ cart[s].lines # {}
  IN /\ pc[w] = "cart_lines"
     /\ cart' = IF insert /\ cart[s].status = "missing"
                  THEN [cart EXCEPT ![s].status = "open"] ELSE cart
     /\ IF ready
          THEN /\ loc' = [loc EXCEPT ![w].lines = cart[s].lines]
               /\ Goto(w, "price")
               /\ EndTx(w)
          ELSE Finish(w)
     /\ UNCHANGED <<quote, orders, attempts, lastPickup, outbox, sellable, clock, linesAt>>

\* The cart can be priced; _now() is taken before the transaction starts.
PrepareSetPrice(w) ==
  /\ pc[w] = "price"
  /\ loc' = [loc EXCEPT ![w].now = clock]
  /\ Goto(w, "quote_select")
  /\ UNCHANGED <<tables, sellable, clock, writer, linesAt>>

\* An unexpired active quote of the same revision is returned as it is.
PrepareSelect(w) ==
  LET active == ActiveQuotes(loc[w].session)
      reusable == {q \in active : /\ quote[q].revision = loc[w].revision
                                  /\ quote[q].expires > loc[w].now}
  IN /\ pc[w] = "quote_select"
     /\ MayWrite
     /\ IF reusable # {}
          THEN Finish(w)
          ELSE /\ BeginTx(w)
               /\ loc' = [loc EXCEPT ![w].seen = active]
               /\ Goto(w, "quote_write")
     /\ UNCHANGED <<tables, sellable, clock, linesAt>>

\* The quotes table when q is inserted and the quotes in old are superseded.
QuotesWith(w, q, old) ==
  [p \in QuoteIds |->
     IF p = q
       THEN [status |-> "active", session |-> loc[w].session,
             revision |-> loc[w].revision, lines |-> loc[w].lines,
             expires |-> loc[w].now + QuoteTTL, order |-> None]
       ELSE IF p \in old THEN [quote[p] EXCEPT !.status = "superseded"]
                        ELSE quote[p]]

\* Supersede what is active for the session and insert the new quote, with the
\* revision and lines that were read in the earlier transaction.
PrepareWrite(w, q) ==
  /\ pc[w] = "quote_write"
  /\ quote[q].status = "none"
  /\ quote' = QuotesWith(w, q, ActiveQuotes(loc[w].session))
  /\ Finish(w)
  /\ UNCHANGED <<cart, orders, attempts, lastPickup, outbox, sellable, clock, linesAt>>

\* The one-active-quote index refuses the INSERT: another request inserted an
\* active quote after the UPDATE had run.
PrepareConflict(w) ==
  /\ pc[w] = "quote_write"
  /\ ActiveQuotes(loc[w].session) \ loc[w].seen # {}
  /\ Finish(w)
  /\ UNCHANGED <<tables, sellable, clock, linesAt>>

-----------------------------------------------------------------------------
(* Confirm: the quote becomes an Order, or the attempt records why not.    *)

\* Outside any transaction: an already consumed quote is answered at once.
ConfirmReadOutcome(w, q, k) ==
  /\ pc[w] = "idle"
  /\ quote[q].status # "none"
  /\ quote[q].order = None
  /\ loc' = [loc EXCEPT ![w] = [NoLocals EXCEPT !.quote = q, !.key = k,
                                  !.lines = quote[q].lines]]
  /\ Goto(w, "validate")
  /\ UNCHANGED <<tables, sellable, clock, writer, linesAt>>

\* Fulfillment validation, also outside the transaction.
ConfirmValidate(w) ==
  /\ pc[w] = "validate"
  /\ loc' = [loc EXCEPT ![w] = [@ EXCEPT !.now = clock,
                   !.unavailable = ~ (loc[w].lines \subseteq sellable)]]
  /\ Goto(w, "attempt")
  /\ UNCHANGED <<tables, sellable, clock, writer, linesAt>>

\* A known key replays its stored outcome, or is refused for another quote.
ConfirmReadAttempt(w) ==
  /\ pc[w] = "attempt"
  /\ MayWrite
  /\ IF AttemptsWith(loc[w].key) # {}
       THEN Finish(w)
       ELSE /\ BeginTx(w)
            /\ Goto(w, "quote_read")
            /\ loc' = loc
  /\ UNCHANGED <<tables, sellable, clock, linesAt>>

\* Mutant of InactiveResult: the status of the quote is the result.
InactiveResultStatus(status) == status

\* The result of an attempt on a quote that is not active any more.
InactiveResult(status) ==
  CASE status = "superseded" -> "quote_superseded"
    [] status = "expired" -> "quote_expired"
    [] status = "stale" -> "quote_stale"
    [] OTHER -> "quote_consumed"

\* The attempt is refused with this result; mark is the status the quote gets.
Refuse(w, result, mark) ==
  /\ Goto(w, "reject")
  /\ loc' = [loc EXCEPT ![w] = [@ EXCEPT !.result = result, !.mark = mark]]
  /\ UNCHANGED writer

ConfirmReadQuote(w) ==
  LET row == quote[loc[w].quote]
  IN /\ pc[w] = "quote_read"
     /\ \/ /\ row.order # None
           /\ Finish(w)
        \/ /\ row.order = None
           /\ row.status # "active"
           /\ Refuse(w, InactiveResult(row.status), "none")
        \/ /\ row.order = None
           /\ row.status = "active"
           /\ row.expires <= loc[w].now
           /\ Refuse(w, "quote_expired", "expired")
        \/ /\ row.order = None
           /\ row.status = "active"
           /\ row.expires > loc[w].now
           /\ Goto(w, "cart_read")
           /\ loc' = [loc EXCEPT ![w] = [@ EXCEPT !.session = row.session,
                                                 !.revision = row.revision]]
           /\ UNCHANGED writer
     /\ UNCHANGED <<tables, sellable, clock, linesAt>>

ConfirmReadCart(w) ==
  LET row == cart[loc[w].session]
      fits == row.status = "open" /\ row.revision = loc[w].revision
  IN /\ pc[w] = "cart_read"
     /\ \/ ~ fits /\ Refuse(w, "quote_stale", "stale")
        \/ fits /\ loc[w].unavailable /\ Refuse(w, "items_unavailable", "none")
        \/ /\ fits
           /\ ~ loc[w].unavailable
           /\ Goto(w, "commit")
           /\ UNCHANGED <<loc, writer>>
     /\ UNCHANGED <<tables, sellable, clock, linesAt>>

\* Mutant of ConfirmReject: the UPDATE also resets consumed_order_id.
ConfirmRejectReset(w) ==
  LET l == loc[w]
  IN /\ pc[w] = "reject"
     /\ AttemptsWith(l.key) = {}
     /\ quote' = IF l.mark = "none" THEN quote
                 ELSE [quote EXCEPT ![l.quote].status = l.mark, ![l.quote].order = None]
     /\ attempts' = attempts \cup {[key |-> l.key, quote |-> l.quote, type |-> l.result]}
     /\ Finish(w)
     /\ UNCHANGED <<cart, orders, lastPickup, outbox, sellable, clock, linesAt>>

\* Mark the quote, by its id alone, and store the outcome under the key.
ConfirmReject(w) ==
  LET l == loc[w]
  IN /\ pc[w] = "reject"
     /\ AttemptsWith(l.key) = {}
     /\ quote' = IF l.mark = "none" THEN quote
                 ELSE [quote EXCEPT ![l.quote].status = l.mark]
     /\ attempts' = attempts \cup {[key |-> l.key, quote |-> l.quote, type |-> l.result]}
     /\ Finish(w)
     /\ UNCHANGED <<cart, orders, lastPickup, outbox, sellable, clock, linesAt>>

\* What a committed confirmation writes.
OrderWrites(w, o) ==
  LET l == loc[w]
  IN /\ lastPickup' = lastPickup + 1
     /\ orders' = orders \cup {[id |-> o, quote |-> l.quote, session |-> l.session,
                                pickup |-> lastPickup', lines |-> l.lines]}
     /\ quote' = [quote EXCEPT ![l.quote].status = "consumed", ![l.quote].order = o]
     /\ cart' = [cart EXCEPT ![l.session].status = "closed"]
     /\ outbox' = outbox \cup {o}
     /\ attempts' = attempts \cup {[key |-> l.key, quote |-> l.quote, type |-> "confirmed"]}

\* Next pickup number, Order, consumed quote, closed cart, event and attempt.
ConfirmCommit(w, o) ==
  /\ pc[w] = "commit"
  /\ OrderOf(loc[w].quote) = {}
  /\ AttemptsWith(loc[w].key) = {}
  /\ EventInserts
  /\ \A row \in orders : row.id # o
  /\ OrderWrites(w, o)
  /\ Finish(w)
  /\ UNCHANGED <<sellable, clock, linesAt>>

\* A constraint refuses an INSERT and the whole transaction is rolled back.
ConfirmAbort(w) ==
  /\ \/ pc[w] \in {"reject", "commit"} /\ AttemptsWith(loc[w].key) # {}
     \/ pc[w] = "commit" /\ (OrderOf(loc[w].quote) # {} \/ ~ EventInserts)
  /\ Finish(w)
  /\ UNCHANGED <<tables, sellable, clock, linesAt>>

-----------------------------------------------------------------------------
(* The environment: failures, the catalog, the time.                       *)

\* Pricing raises, the connection breaks, or the process restarts: an open
\* transaction is rolled back and the request is gone.
RequestFails(w) ==
  /\ pc[w] # "idle"
  /\ Finish(w)
  /\ UNCHANGED <<tables, sellable, clock, linesAt>>

\* The catalog withdraws an item or offers it again.
ToggleItem(i) ==
  /\ sellable' = IF i \in sellable THEN sellable \ {i} ELSE sellable \cup {i}
  /\ UNCHANGED <<tables, clock, writer, pc, loc, linesAt>>

Tick ==
  /\ clock < MaxClock
  /\ clock' = clock + 1
  /\ UNCHANGED <<tables, sellable, writer, pc, loc, linesAt>>

Prepare(w) ==
  \/ \E s \in Sessions : PrepareReadCart(w, s)
  \/ PrepareReadLines(w)
  \/ PrepareSetPrice(w)
  \/ PrepareSelect(w)
  \/ \E q \in QuoteIds : PrepareWrite(w, q)
  \/ PrepareConflict(w)

Confirm(w) ==
  \/ \E q \in QuoteIds, k \in Keys : ConfirmReadOutcome(w, q, k)
  \/ ConfirmValidate(w)
  \/ ConfirmReadAttempt(w)
  \/ ConfirmReadQuote(w)
  \/ ConfirmReadCart(w)
  \/ ConfirmReject(w)
  \/ \E o \in OrderIds : ConfirmCommit(w, o)
  \/ ConfirmAbort(w)

ReplaceSome == \E s \in Sessions, n \in 0 .. MaxRevision, lines \in SUBSET Items :
                 ReplaceCart(s, n, lines)
AbandonSome == \E s \in Sessions : AbandonCart(s)
ToggleSome == \E i \in Items : ToggleItem(i)

Next ==
  \/ \E w \in Workers : Prepare(w) \/ Confirm(w) \/ RequestFails(w)
  \/ ReplaceSome
  \/ AbandonSome
  \/ ToggleSome
  \/ Tick

Spec == Init /\ [][Next]_vars

-----------------------------------------------------------------------------
(* Safety on both backends.                                                *)

\* A quote is consumed by at most one Order, whatever the kiosk retries and
\* however many threads confirm it with different keys.
OneOrderPerQuote == \A o1, o2 \in orders : o1.quote = o2.quote => o1 = o2

\* The pickup numbers shown to customers are 1, 2, 3, ... without a gap or a
\* repetition, although aborted confirmations took a number too.
PickupNumbersAreDense ==
  /\ \A o1, o2 \in orders : o1.pickup = o2.pickup => o1 = o2
  /\ \A n \in 1 .. lastPickup : \E o \in orders : o.pickup = n
  /\ \A o \in orders : o.pickup \in 1 .. lastPickup

\* An Order never exists without its companions: a quote that points to it, a
\* cart that is closed, an event for the outbox and a confirmed attempt.
OrderIsComplete ==
  \A o \in orders :
    /\ quote[o.quote].order = o.id
    /\ cart[o.session].status = "closed"
    /\ o.id \in outbox
    /\ \E a \in attempts : a.quote = o.quote /\ a.type = "confirmed"

\* An attempt stored as confirmed always has its Order: a retry of the key
\* that replays the stored outcome never reports an Order that is not there.
ConfirmedAttemptHasOrder ==
  \A a \in attempts : a.type = "confirmed" => OrderOf(a.quote) # {}

\* The lines of an Order are what the customer's cart held at the revision
\* that was quoted, although cart.get reads revision and lines in two
\* statements and prepare writes the quote in a later transaction.
OrderHasTheQuotedLines ==
  \A o \in orders : o.lines = linesAt[o.session][quote[o.quote].revision]

\* An Order is what was quoted, with everything that belongs to it, whatever
\* torn and stale reads and aborted transactions came before it.
OrderIsTheQuote == OrderHasTheQuotedLines /\ OrderIsComplete

\* The partial unique index: one quote at a time is active for a session.
OneActiveQuote ==
  \A q1, q2 \in QuoteIds :
    /\ quote[q1].status = "active"
    /\ quote[q2].status = "active"
    /\ quote[q1].session = quote[q2].session
    => q1 = q2

\* Once an Order exists nothing changes the cart it was made from.
OrderedCartIsFrozen ==
  [][\A o \in orders : cart'[o.session] = cart[o.session]]_vars

-----------------------------------------------------------------------------
(* Safety that only the serialised (SQLite) transactions give.             *)

\* A stored authoritative rejection is final: the quote has no Order.
RejectionIsFinal ==
  \A a \in attempts : a.type \in Rejections => OrderOf(a.quote) = {}

\* A cart is ordered at most once.
OneOrderPerSession == \A o1, o2 \in orders : o1.session = o2.session => o1 = o2

\* The cart an Order closed is the cart it was quoted from, not a later one.
OrderedCartIsTheQuotedCart ==
  \A o \in orders : cart[o.session].revision = quote[o.quote].revision

\* An Order is what was quoted and has everything that belongs to it. On SQLite,
\* moreover, BEGIN IMMEDIATE makes a stored rejection final, and a session has
\* one Order, of the cart as it was quoted, although carts are edited, quotes
\* superseded and keys repeated.
OrdersAsQuoted ==
  /\ OrderIsTheQuote
  /\ Serialized => RejectionIsFinal /\ OneOrderPerSession /\ OrderedCartIsTheQuotedCart

\* A confirmation that decided to create the Order only fails because another
\* request got there first (or because the connection broke).
AbortsOnlyOnConflict ==
  [][\A w \in Workers : ConfirmAbort(w) =>
       OrderOf(loc[w].quote) # {} \/ AttemptsWith(loc[w].key) # {}]_vars

=============================================================================
