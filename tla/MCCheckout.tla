----------------------------- MODULE MCCheckout -----------------------------
(***************************************************************************)
(* Checkout on both backends in one run.  The variables of the module are  *)
(* those of SQLite, which interleaves less and has the larger instance.  A *)
(* behavior chooses one backend and takes the steps of that one only.      *)
(***************************************************************************)
EXTENDS Checkout, TLC

CONSTANT PostgresRevision   \* MaxRevision on PostgreSQL

ASSUME MCCheckoutAssumption == PostgresRevision \in Nat

VARIABLES
  active,
  pgCart, pgQuote, pgOrders, pgAttempts, pgLastPickup, pgOutbox, pgSellable, pgClock,
  pgWriter, pgPc, pgLoc, pgLinesAt

postgres == <<pgCart, pgQuote, pgOrders, pgAttempts, pgLastPickup, pgOutbox, pgSellable,
              pgClock, pgWriter, pgPc, pgLoc, pgLinesAt>>

Postgres == INSTANCE Checkout WITH
  Serialized <- FALSE, MaxRevision <- PostgresRevision,
  cart <- pgCart, quote <- pgQuote, orders <- pgOrders, attempts <- pgAttempts,
  lastPickup <- pgLastPickup, outbox <- pgOutbox, sellable <- pgSellable, clock <- pgClock,
  writer <- pgWriter, pc <- pgPc, loc <- pgLoc, linesAt <- pgLinesAt

RunInit == active \in {"sqlite", "postgres"} /\ Init /\ Postgres!Init

RunNext ==
  \/ active = "sqlite" /\ Next /\ UNCHANGED <<active, postgres>>
  \/ active = "postgres" /\ Postgres!Next /\ UNCHANGED <<active, vars>>

RunSpec == RunInit /\ [][RunNext]_<<active, vars, postgres>>

\* Threads, quotes, Orders and keys are interchangeable.
Symmetry == Permutations(Workers) \cup Permutations(QuoteIds)
              \cup Permutations(OrderIds) \cup Permutations(Keys)

\* The types of the backend that steps; the other is as it began.
TypesOK == IF active = "sqlite" THEN TypeOK ELSE Postgres!TypeOK

\* What OrdersAsQuoted says of PostgreSQL: an Order is what was quoted.
PostgresOrdersAsQuoted == Postgres!OrdersAsQuoted
=============================================================================
