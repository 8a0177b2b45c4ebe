---------------------------- MODULE BackendProofs ----------------------------
(***************************************************************************)
(* Proofs about Checkout on SQLite and on PostgreSQL side by side, for any *)
(* number of sessions, quotes, Orders and threads of either.  What         *)
(* CheckoutProofs says for both values of Serialized is taken for the      *)
(* tables of PostgreSQL by instantiating the whole of it.                  *)
(***************************************************************************)
EXTENDS MCCheckout, CheckoutProofs

Proved == INSTANCE CheckoutProofs WITH
  Serialized <- FALSE, MaxRevision <- PostgresRevision,
  cart <- pgCart, quote <- pgQuote, orders <- pgOrders, attempts <- pgAttempts,
  lastPickup <- pgLastPickup, outbox <- pgOutbox, sellable <- pgSellable, clock <- pgClock,
  writer <- pgWriter, pc <- pgPc, loc <- pgLoc, linesAt <- pgLinesAt

\* Each backend keeps the invariant of the checkout, whichever of them steps.
BackendsInv ==
  /\ active \in {"sqlite", "postgres"}
  /\ IInv
  /\ Proved!IInv

-----------------------------------------------------------------------------
(* The instance that steps is the instance that was proved about.          *)

LEMMA SameInit == ASSUME Postgres!Init PROVE Proved!Init
BY DEF Postgres!Init, Postgres!NoCart, Postgres!NoQuote, Postgres!NoLocals,
       Proved!Init, Proved!NoCart, Proved!NoQuote, Proved!NoLocals

LEMMA SameThread ==
  ASSUME NEW w \in Workers
  PROVE  /\ Postgres!MayWrite <=> Proved!MayWrite
         /\ Postgres!BeginTx(w) <=> Proved!BeginTx(w)
         /\ Postgres!Finish(w) <=> Proved!Finish(w)
BY DEF Postgres!MayWrite, Proved!MayWrite, Postgres!BeginTx, Proved!BeginTx,
       Postgres!Finish, Proved!Finish, Postgres!Goto, Proved!Goto,
       Postgres!EndTx, Proved!EndTx, Postgres!NoLocals, Proved!NoLocals

LEMMA SamePrepare == ASSUME NEW w \in Workers, Postgres!Prepare(w) PROVE Proved!Prepare(w)
BY SameThread
DEF Postgres!Prepare, Proved!Prepare,
    Postgres!PrepareReadCart, Proved!PrepareReadCart,
    Postgres!PrepareReadLines, Proved!PrepareReadLines,
    Postgres!PrepareSetPrice, Proved!PrepareSetPrice,
    Postgres!PrepareSelect, Proved!PrepareSelect,
    Postgres!PrepareWrite, Proved!PrepareWrite,
    Postgres!PrepareConflict, Proved!PrepareConflict,
    Postgres!QuotesWith, Proved!QuotesWith, Postgres!ActiveQuotes, Proved!ActiveQuotes,
    Postgres!Goto, Proved!Goto, Postgres!EndTx, Proved!EndTx,
    Postgres!NoLocals, Proved!NoLocals, Postgres!tables, Proved!tables

LEMMA SameConfirm == ASSUME NEW w \in Workers, Postgres!Confirm(w) PROVE Proved!Confirm(w)
BY SameThread
DEF Postgres!Confirm, Proved!Confirm,
    Postgres!ConfirmReadOutcome, Proved!ConfirmReadOutcome,
    Postgres!ConfirmValidate, Proved!ConfirmValidate,
    Postgres!ConfirmReadAttempt, Proved!ConfirmReadAttempt,
    Postgres!ConfirmReadQuote, Proved!ConfirmReadQuote,
    Postgres!ConfirmReadCart, Proved!ConfirmReadCart,
    Postgres!ConfirmReject, Proved!ConfirmReject,
    Postgres!ConfirmCommit, Proved!ConfirmCommit,
    Postgres!ConfirmAbort, Proved!ConfirmAbort,
    Postgres!InactiveResult, Proved!InactiveResult, Postgres!Refuse, Proved!Refuse,
    Postgres!OrderWrites, Proved!OrderWrites, Postgres!OrderOf, Proved!OrderOf,
    Postgres!AttemptsWith, Proved!AttemptsWith,
    Postgres!Goto, Proved!Goto, Postgres!NoLocals, Proved!NoLocals,
    Postgres!tables, Proved!tables

LEMMA SameNext == ASSUME [Postgres!Next]_postgres PROVE [Proved!Next]_(Proved!vars)
<1>1. CASE UNCHANGED postgres
  BY <1>1 DEF postgres, Proved!vars, Proved!tables
<1>2. ASSUME NEW w \in Workers,
             Postgres!Prepare(w) \/ Postgres!Confirm(w) \/ Postgres!RequestFails(w)
      PROVE  Proved!Next
  <2>1. Postgres!RequestFails(w) => Proved!RequestFails(w)
    BY SameThread DEF Postgres!RequestFails, Proved!RequestFails, Postgres!tables, Proved!tables
  <2>. QED
    BY <1>2, <2>1, SamePrepare, SameConfirm DEF Proved!Next
<1>3. Postgres!ReplaceSome => Proved!ReplaceSome
  BY DEF Postgres!ReplaceSome, Proved!ReplaceSome, Postgres!ReplaceCart, Proved!ReplaceCart,
         Postgres!MayWrite, Proved!MayWrite
<1>4. Postgres!AbandonSome => Proved!AbandonSome
  BY DEF Postgres!AbandonSome, Proved!AbandonSome, Postgres!AbandonCart, Proved!AbandonCart,
         Postgres!MayWrite, Proved!MayWrite
<1>5. Postgres!ToggleSome => Proved!ToggleSome
  BY DEF Postgres!ToggleSome, Proved!ToggleSome, Postgres!ToggleItem, Proved!ToggleItem,
         Postgres!tables, Proved!tables
<1>6. Postgres!Tick => Proved!Tick
  BY DEF Postgres!Tick, Proved!Tick, Postgres!tables, Proved!tables
<1>. QED
  BY <1>1, <1>2, <1>3, <1>4, <1>5, <1>6 DEF Postgres!Next, Proved!Next

LEMMA SameTypes == ASSUME Proved!TypeOK PROVE Postgres!TypeOK
BY DEF Proved!TypeOK, Proved!CartRow, Proved!QuoteRow, Proved!OrderRow, Proved!AttemptRow,
       Proved!Locals, Proved!Labels, Proved!CartStatus, Proved!QuoteStatus, Proved!Rejections,
       Proved!Outcomes,
       Postgres!TypeOK, Postgres!CartRow, Postgres!QuoteRow, Postgres!OrderRow,
       Postgres!AttemptRow, Postgres!Locals, Postgres!Labels, Postgres!CartStatus,
       Postgres!QuoteStatus, Postgres!Rejections, Postgres!Outcomes

LEMMA SameOrders == ASSUME Proved!IInv PROVE Postgres!OrdersAsQuoted
BY DEF Proved!IInv, Proved!OrderHasTheQuotedLines, Proved!OrderIsComplete,
       Postgres!OrdersAsQuoted, Postgres!OrderIsTheQuote, Postgres!OrderHasTheQuotedLines,
       Postgres!OrderIsComplete

-----------------------------------------------------------------------------
(* The invariant.                                                          *)

\* What CheckoutProofs assumes holds of PostgreSQL.
LEMMA PostgresAssumption ==
  /\ FALSE \in BOOLEAN
  /\ EventInserts \in BOOLEAN
  /\ QuoteTTL \in Nat \ {0}
  /\ PostgresRevision \in Nat
  /\ MaxClock \in Nat
  /\ None \notin Sessions \cup QuoteIds \cup OrderIds \cup Keys \cup Workers
BY CheckoutAssumption, MCCheckoutAssumption

LEMMA BackendsInit == RunInit => BackendsInv
<1>1. Proved!Init => Proved!IInv
  BY Proved!IInvInit, PostgresAssumption
<1>. QED
  BY <1>1, IInvInit, SameInit DEF RunInit, BackendsInv

LEMMA BackendsNext == BackendsInv /\ [RunNext]_<<active, vars, postgres>> => BackendsInv'
<1> SUFFICES ASSUME BackendsInv, [RunNext]_<<active, vars, postgres>>
             PROVE  BackendsInv'
  OBVIOUS
<1>1. [Next]_vars /\ [Postgres!Next]_postgres /\ active' = active
  BY DEF RunNext
<1>2. IInv'
  BY <1>1, IInvNext DEF BackendsInv
<1>3. Proved!IInv /\ [Proved!Next]_(Proved!vars) => Proved!IInv'
  BY Proved!IInvNext, PostgresAssumption
<1>4. Proved!IInv'
  BY <1>1, <1>3, SameNext DEF BackendsInv
<1>. QED
  BY <1>1, <1>2, <1>4 DEF BackendsInv

LEMMA BackendsInvariant == RunSpec => []BackendsInv
BY BackendsInit, BackendsNext, PTL DEF RunSpec

-----------------------------------------------------------------------------
(* The theorems.                                                           *)

\* On either backend the rows of carts, quotes, Orders and attempts, and the
\* locals of every request thread, keep their types: what one statement of
\* prepare or confirm writes is what the next one, of any thread, expects.
THEOREM BackendTypes == RunSpec => []TypesOK
<1>1. BackendsInv => TypesOK
  <2> SUFFICES ASSUME BackendsInv PROVE TypesOK
    OBVIOUS
  <2>1. TypeOK
    BY DEF BackendsInv, IInv
  <2>2. Proved!TypeOK
    BY DEF BackendsInv, Proved!IInv
  <2>. QED
    BY <2>1, <2>2, SameTypes DEF TypesOK
<1>. QED
  BY <1>1, BackendsInvariant, PTL

\* On PostgreSQL, where every statement of prepare and confirm reads what other
\* requests have committed by then, an Order still has the lines that its quote
\* was made of, a quote that points to it, a closed cart, an event and a
\* confirmed attempt (PostgresCheckoutConfirmationStore).
THEOREM PostgresOrdersAreAsQuoted == RunSpec => []PostgresOrdersAsQuoted
<1>1. BackendsInv => PostgresOrdersAsQuoted
  BY SameOrders DEF BackendsInv, PostgresOrdersAsQuoted
<1>. QED
  BY <1>1, BackendsInvariant, PTL

==============================================================================
