--------------------------- MODULE CheckoutProofs ---------------------------
(* Proofs about Checkout, for any number of sessions, quotes and threads   *)
(* and for both backends; at the end, what BEGIN IMMEDIATE adds on SQLite. *)
EXTENDS Checkout, TLAPS

PrepareLabels == {"cart_lines", "price", "quote_select", "quote_write"}
ConfirmLabels == {"validate", "attempt", "quote_read", "cart_read", "reject", "commit"}

\* What a thread in the middle of a request knows about its locals.
LocalsOK ==
  \A w \in Workers :
    /\ pc[w] \in PrepareLabels => loc[w].session \in Sessions
    /\ pc[w] \in ConfirmLabels => /\ loc[w].quote \in QuoteIds
                                  /\ loc[w].key \in Keys
                                  /\ quote[loc[w].quote].status # "none"
                                  /\ loc[w].lines = quote[loc[w].quote].lines
    /\ pc[w] \in {"cart_read", "commit"} =>
         /\ loc[w].session = quote[loc[w].quote].session
         /\ loc[w].revision = quote[loc[w].quote].revision

\* A prepared quote belongs to a session.
QuotesOK == \A q \in QuoteIds : quote[q].status # "none" => quote[q].session \in Sessions

\* An ordered quote was prepared, and is not handed out again.
OrderedQuoteWasPrepared == \A o \in orders : quote[o.quote].status # "none"

\* lines are what the cart held at revision n, or that revision is in the past.
Faithful(s, n, lines) ==
  \/ n <= cart[s].revision /\ lines = linesAt[s][n]
  \/ n < cart[s].revision

\* How far the lines that a cart, a quote, a thread or an Order carries can be
\* trusted, from the two-statement read of the cart to the commit.
CartLinesOK == \A s \in Sessions : cart[s].lines = linesAt[s][cart[s].revision]

QuoteLinesOK ==
  \A q \in QuoteIds : quote[q].status # "none" =>
    Faithful(quote[q].session, quote[q].revision, quote[q].lines)

PrepareLinesOK ==
  \A w \in Workers :
    /\ pc[w] = "cart_lines" => loc[w].revision <= cart[loc[w].session].revision
    /\ pc[w] \in {"price", "quote_select", "quote_write"} =>
         Faithful(loc[w].session, loc[w].revision, loc[w].lines)

CommitLinesOK ==
  \A w \in Workers : pc[w] = "commit" =>
    /\ loc[w].revision <= cart[loc[w].session].revision
    /\ loc[w].lines = linesAt[loc[w].session][loc[w].revision]

OrderLinesOK ==
  \A o \in orders : /\ o.session = quote[o.quote].session
                    /\ quote[o.quote].revision <= cart[o.session].revision

\* A rejecting thread never stores the result "confirmed".
RejectsOK == \A w \in Workers : pc[w] = "reject" => loc[w].result # "confirmed"

\* The inductive invariant.
IInv ==
  /\ TypeOK
  /\ LocalsOK
  /\ QuotesOK
  /\ OrderedQuoteWasPrepared
  /\ RejectsOK
  /\ CartLinesOK
  /\ QuoteLinesOK
  /\ PrepareLinesOK
  /\ CommitLinesOK
  /\ OrderLinesOK
  /\ OneOrderPerQuote
  /\ PickupNumbersAreDense
  /\ ConfirmedAttemptHasOrder
  /\ OrderIsComplete
  /\ OneActiveQuote
  /\ OrderHasTheQuotedLines

-----------------------------------------------------------------------------
(* Every table, every local and every program counter keeps its type.      *)

LEMMA NoLocalsType == NoLocals \in Locals
BY DEF NoLocals, Locals, CartStatus, QuoteStatus, Outcomes

\* Updating one field of the locals or of a quote keeps the record's type.
LEMMA LocalsUpdate ==
  ASSUME NEW r \in Locals
  PROVE  /\ \A x \in Sessions \cup {None} : [r EXCEPT !.session = x] \in Locals
         /\ \A x \in QuoteIds \cup {None} : [r EXCEPT !.quote = x] \in Locals
         /\ \A x \in Keys \cup {None} : [r EXCEPT !.key = x] \in Locals
         /\ \A x \in CartStatus : [r EXCEPT !.status = x] \in Locals
         /\ \A x \in Nat : [r EXCEPT !.revision = x] \in Locals
         /\ \A x \in SUBSET Items : [r EXCEPT !.lines = x] \in Locals
         /\ \A x \in SUBSET QuoteIds : [r EXCEPT !.seen = x] \in Locals
         /\ \A x \in Nat : [r EXCEPT !.now = x] \in Locals
         /\ \A x \in BOOLEAN : [r EXCEPT !.unavailable = x] \in Locals
         /\ \A x \in Outcomes : [r EXCEPT !.result = x] \in Locals
         /\ \A x \in {"none", "expired", "stale"} : [r EXCEPT !.mark = x] \in Locals
BY DEF Locals

LEMMA QuoteUpdate ==
  ASSUME NEW r \in QuoteRow
  PROVE  /\ \A x \in QuoteStatus : [r EXCEPT !.status = x] \in QuoteRow
         /\ \A x \in OrderIds \cup {None} : [r EXCEPT !.order = x] \in QuoteRow
BY DEF QuoteRow

LEMMA TypeInit == Init => TypeOK
BY CheckoutAssumption
DEF Init, TypeOK, NoCart, NoQuote, NoLocals, CartRow, QuoteRow, Locals, Labels,
    CartStatus, QuoteStatus, Outcomes

\* A thread that finishes keeps the types of what it touches.
LEMMA FinishType ==
  ASSUME TypeOK, NEW w \in Workers, Finish(w)
  PROVE  /\ pc' \in [Workers -> Labels]
         /\ loc' \in [Workers -> Locals]
         /\ writer' \in Workers \cup {None}
BY NoLocalsType DEF TypeOK, Finish, Goto, EndTx, Labels

LEMMA RefuseType ==
  ASSUME TypeOK, NEW w \in Workers, NEW r \in Outcomes,
         NEW m \in {"none", "expired", "stale"}, Refuse(w, r, m)
  PROVE  /\ pc' \in [Workers -> Labels]
         /\ loc' \in [Workers -> Locals]
         /\ writer' \in Workers \cup {None}
<1>1. [loc[w] EXCEPT !.result = r, !.mark = m] \in Locals
  BY LocalsUpdate DEF TypeOK
<1>. QED
  BY <1>1 DEF TypeOK, Refuse, Goto, Labels

LEMMA TypeNext ==
  ASSUME TypeOK, LocalsOK, QuotesOK, [Next]_vars
  PROVE  TypeOK'
<1> USE CheckoutAssumption DEF TypeOK, tables
<1>1. CASE UNCHANGED vars
  BY <1>1 DEF vars
<1>2. ASSUME NEW w \in Workers, Prepare(w)
      PROVE  TypeOK'
  <2>1. ASSUME NEW s \in Sessions, PrepareReadCart(w, s)
        PROVE  TypeOK'
    <3>1. [NoLocals EXCEPT !.session = s, !.status = cart[s].status,
                           !.revision = cart[s].revision] \in Locals
      <4>1. cart[s].status \in CartStatus /\ cart[s].revision \in Nat
        BY DEF CartRow
      <4>. QED
        BY <4>1, NoLocalsType, LocalsUpdate
    <3>. QED
      BY <2>1, <3>1 DEF PrepareReadCart, BeginTx, Goto, Labels
  <2>2. CASE PrepareReadLines(w)
    <3>1. loc[w].session \in Sessions
      BY <2>2 DEF LocalsOK, PrepareReadLines, PrepareLabels
    <3>2. cart' \in [Sessions -> CartRow]
      BY <2>2, <3>1 DEF PrepareReadLines, CartRow, CartStatus
    <3>3. [loc[w] EXCEPT !.lines = cart[loc[w].session].lines] \in Locals
      BY <3>1 DEF Locals, CartRow
    <3>4. /\ pc' \in [Workers -> Labels]
          /\ loc' \in [Workers -> Locals]
          /\ writer' \in Workers \cup {None}
      BY <2>2, <3>3, NoLocalsType DEF PrepareReadLines, Finish, Goto, EndTx, Labels
    <3>. QED
      BY <2>2, <3>2, <3>4 DEF PrepareReadLines
  <2>3. CASE PrepareSetPrice(w)
    <3>1. [loc[w] EXCEPT !.now = clock] \in Locals
      BY DEF Locals
    <3>. QED
      BY <2>3, <3>1 DEF PrepareSetPrice, Goto, Labels
  <2>4. CASE PrepareSelect(w)
    <3>1. [loc[w] EXCEPT !.seen = ActiveQuotes(loc[w].session)] \in Locals
      BY DEF Locals, ActiveQuotes
    <3>. QED
      BY <2>4, <3>1, NoLocalsType DEF PrepareSelect, BeginTx, Finish, EndTx, Goto, Labels
  <2>5. ASSUME NEW q \in QuoteIds, PrepareWrite(w, q)
        PROVE  TypeOK'
    <3>1. loc[w].session \in Sessions
      BY <2>5 DEF LocalsOK, PrepareWrite, QuotesWith, PrepareLabels
    <3>2. [status |-> "active", session |-> loc[w].session,
           revision |-> loc[w].revision, lines |-> loc[w].lines,
           expires |-> loc[w].now + QuoteTTL, order |-> None] \in QuoteRow
      BY <3>1 DEF Locals, QuoteRow, QuoteStatus
    <3>3. \A p \in QuoteIds : [quote[p] EXCEPT !.status = "superseded"] \in QuoteRow
      BY DEF QuoteRow, QuoteStatus
    <3>4. quote' \in [QuoteIds -> QuoteRow]
      BY <2>5, <3>2, <3>3 DEF PrepareWrite, QuotesWith
    <3>. QED
      BY <2>5, <3>4, FinishType DEF PrepareWrite, QuotesWith
  <2>6. CASE PrepareConflict(w)
    BY <2>6, FinishType DEF PrepareConflict
  <2>. QED
    BY <1>2, <2>1, <2>2, <2>3, <2>4, <2>5, <2>6 DEF Prepare
<1>3. ASSUME NEW w \in Workers, Confirm(w)
      PROVE  TypeOK'
  <2>1. ASSUME NEW q \in QuoteIds, NEW k \in Keys, ConfirmReadOutcome(w, q, k)
        PROVE  TypeOK'
    <3>1. [NoLocals EXCEPT !.quote = q, !.key = k, !.lines = quote[q].lines] \in Locals
      BY DEF NoLocals, Locals, QuoteRow, CartStatus, QuoteStatus, Outcomes
    <3>. QED
      BY <2>1, <3>1 DEF ConfirmReadOutcome, Goto, Labels
  <2>2. CASE ConfirmValidate(w)
    <3>1. [loc[w] EXCEPT !.now = clock, !.unavailable = ~ (loc[w].lines \subseteq sellable)]
            \in Locals
      BY LocalsUpdate
    <3>. QED
      BY <2>2, <3>1 DEF ConfirmValidate, Goto, Labels
  <2>3. CASE ConfirmReadAttempt(w)
    BY <2>3, NoLocalsType DEF ConfirmReadAttempt, BeginTx, Finish, EndTx, Goto, Labels
  <2>4. CASE ConfirmReadQuote(w)
    <3>1. loc[w].quote \in QuoteIds
      BY <2>4 DEF LocalsOK, ConfirmReadQuote, ConfirmLabels
    <3>2. \A st \in QuoteStatus : InactiveResult(st) \in Outcomes
      BY DEF InactiveResult, Outcomes, Rejections, QuoteStatus
    <3>3. quote[loc[w].quote] \in QuoteRow
      BY <3>1
    <3>4. [loc[w] EXCEPT !.session = quote[loc[w].quote].session,
                         !.revision = quote[loc[w].quote].revision] \in Locals
      <4>1. /\ quote[loc[w].quote].session \in Sessions \cup {None}
            /\ quote[loc[w].quote].revision \in Nat
        BY <3>3 DEF QuoteRow
      <4>. QED
        BY <4>1, LocalsUpdate
    <3>5. InactiveResult(quote[loc[w].quote].status) \in Outcomes
      BY <3>2, <3>3 DEF QuoteRow
    <3>6. "quote_expired" \in Outcomes
      BY DEF Outcomes, Rejections
    <3>7. /\ pc' \in [Workers -> Labels]
          /\ loc' \in [Workers -> Locals]
          /\ writer' \in Workers \cup {None}
      BY <2>4, <3>4, <3>5, <3>6, FinishType, RefuseType
      DEF ConfirmReadQuote, Goto, Labels
    <3>. QED
      BY <2>4, <3>7 DEF ConfirmReadQuote
  <2>5. CASE ConfirmReadCart(w)
    <3>1. "items_unavailable" \in Outcomes /\ "quote_stale" \in Outcomes
      BY DEF Outcomes, Rejections
    <3>2. /\ pc' \in [Workers -> Labels]
          /\ loc' \in [Workers -> Locals]
          /\ writer' \in Workers \cup {None}
      BY <2>5, <3>1, RefuseType DEF ConfirmReadCart, Goto, Labels
    <3>. QED
      BY <2>5, <3>2 DEF ConfirmReadCart
  <2>6. CASE ConfirmReject(w)
    <3>1. loc[w].quote \in QuoteIds /\ loc[w].key \in Keys
      BY <2>6 DEF LocalsOK, ConfirmReject, ConfirmLabels
    <3>2. loc[w] \in Locals
      OBVIOUS
    <3>3. [quote[loc[w].quote] EXCEPT !.status = loc[w].mark] \in QuoteRow
      <4>1. loc[w].mark \in QuoteStatus
        BY <3>2 DEF Locals, QuoteStatus
      <4>. QED
        BY <3>1, <4>1, QuoteUpdate
    <3>4. quote' \in [QuoteIds -> QuoteRow]
      BY <2>6, <3>3 DEF ConfirmReject
    <3>5. attempts' \subseteq AttemptRow
      BY <2>6, <3>1, <3>2 DEF ConfirmReject, AttemptRow, Locals
    <3>. QED
      BY <2>6, <3>4, <3>5, FinishType DEF ConfirmReject
  <2>7. ASSUME NEW o \in OrderIds, ConfirmCommit(w, o)
        PROVE  TypeOK'
    <3>1. /\ loc[w].quote \in QuoteIds
          /\ loc[w].key \in Keys
          /\ loc[w].session = quote[loc[w].quote].session
          /\ quote[loc[w].quote].status # "none"
      BY <2>7 DEF LocalsOK, ConfirmCommit, OrderWrites, ConfirmLabels
    <3>2. loc[w] \in Locals
      OBVIOUS
    <3>3. [[quote[loc[w].quote] EXCEPT !.status = "consumed"] EXCEPT !.order = o] \in QuoteRow
      <4>1. "consumed" \in QuoteStatus
        BY DEF QuoteStatus
      <4>. QED
        BY <3>1, <4>1, QuoteUpdate
    <3>4. quote' \in [QuoteIds -> QuoteRow]
      BY <2>7, <3>3 DEF ConfirmCommit, OrderWrites
    <3>5. cart' \in [Sessions -> CartRow]
      BY <2>7 DEF ConfirmCommit, OrderWrites, CartRow, CartStatus
    <3>6. attempts' \subseteq AttemptRow
      BY <2>7, <3>1 DEF ConfirmCommit, OrderWrites, AttemptRow, Outcomes
    <3>7. loc[w].session \in Sessions
      BY <3>1 DEF QuotesOK
    <3>8. [id |-> o, quote |-> loc[w].quote, session |-> loc[w].session,
           pickup |-> lastPickup + 1, lines |-> loc[w].lines] \in OrderRow
      BY <3>1, <3>2, <3>7 DEF OrderRow, Locals
    <3>. QED
      BY <2>7, <3>4, <3>5, <3>6, <3>8, FinishType DEF ConfirmCommit, OrderWrites
  <2>8. CASE ConfirmAbort(w)
    BY <2>8, FinishType DEF ConfirmAbort
  <2>. QED
    BY <1>3, <2>1, <2>2, <2>3, <2>4, <2>5, <2>6, <2>7, <2>8 DEF Confirm
<1>4. ASSUME NEW w \in Workers, RequestFails(w)
      PROVE  TypeOK'
  BY <1>4, FinishType DEF RequestFails
<1>5. ASSUME NEW s \in Sessions, NEW n \in 0 .. MaxRevision,
             NEW lines \in SUBSET Items, ReplaceCart(s, n, lines)
      PROVE  TypeOK'
  <2>1. n + 1 \in 0 .. MaxRevision
    BY <1>5 DEF ReplaceCart
  <2>2. cart' \in [Sessions -> CartRow]
    BY <1>5, <2>1 DEF ReplaceCart, CartRow, CartStatus
  <2>3. linesAt' \in [Sessions -> [0 .. MaxRevision -> SUBSET Items]]
    BY <1>5, <2>1 DEF ReplaceCart
  <2>. QED
    BY <1>5, <2>2, <2>3 DEF ReplaceCart
<1>6. ASSUME NEW s \in Sessions, AbandonCart(s)
      PROVE  TypeOK'
  BY <1>6 DEF AbandonCart, CartRow, CartStatus
<1>7. ASSUME NEW i \in Items, ToggleItem(i)
      PROVE  TypeOK'
  BY <1>7 DEF ToggleItem
<1>8. CASE Tick
  BY <1>8 DEF Tick
<1>. QED
  BY <1>1, <1>2, <1>3, <1>4, <1>5, <1>6, <1>7, <1>8
  DEF Next, ReplaceSome, AbandonSome, ToggleSome

-----------------------------------------------------------------------------
(* Which steps change what.                                                *)

\* The steps that write a table.
TableWrite ==
  \/ \E w \in Workers : PrepareReadLines(w) \/ ConfirmReject(w)
  \/ \E w \in Workers, q \in QuoteIds : PrepareWrite(w, q)
  \/ \E w \in Workers, o \in OrderIds : ConfirmCommit(w, o)
  \/ \E s \in Sessions, n \in 0 .. MaxRevision, lines \in SUBSET Items :
       ReplaceCart(s, n, lines)
  \/ \E s \in Sessions : AbandonCart(s)

LEMMA TableSteps ==
  ASSUME [Next]_vars
  PROVE  UNCHANGED <<tables, linesAt>> \/ TableWrite
<1>1. CASE UNCHANGED vars
  BY <1>1 DEF vars
<1>2. ASSUME NEW w \in Workers, Prepare(w)
      PROVE  UNCHANGED <<tables, linesAt>> \/ TableWrite
  BY <1>2 DEF Prepare, PrepareReadCart, PrepareSetPrice, PrepareSelect,
              PrepareConflict, TableWrite
<1>3. ASSUME NEW w \in Workers, Confirm(w)
      PROVE  UNCHANGED <<tables, linesAt>> \/ TableWrite
  BY <1>3 DEF Confirm, ConfirmReadOutcome, ConfirmValidate, ConfirmReadAttempt,
              ConfirmReadQuote, ConfirmReadCart, ConfirmAbort, TableWrite
<1>. QED
  BY <1>1, <1>2, <1>3
  DEF Next, RequestFails, ReplaceSome, AbandonSome, ToggleSome, ToggleItem, Tick,
      TableWrite

\* A quote keeps its session, revision and lines from its INSERT on.
LEMMA QuoteStable ==
  ASSUME TypeOK, LocalsOK, [Next]_vars, NEW q \in QuoteIds, quote[q].status # "none"
  PROVE  /\ quote'[q].status # "none"
         /\ quote'[q].session = quote[q].session
         /\ quote'[q].revision = quote[q].revision
         /\ quote'[q].lines = quote[q].lines
<1>0. quote[q] \in QuoteRow
  BY DEF TypeOK
<1>1. CASE quote' = quote
  BY <1>1
<1>2. ASSUME NEW w \in Workers, ConfirmReject(w)
      PROVE  /\ quote'[q].status # "none"
             /\ quote'[q].session = quote[q].session
             /\ quote'[q].revision = quote[q].revision
             /\ quote'[q].lines = quote[q].lines
  BY <1>0, <1>2 DEF ConfirmReject, TypeOK, QuoteRow
<1>3. ASSUME NEW w \in Workers, NEW p \in QuoteIds, PrepareWrite(w, p)
      PROVE  /\ quote'[q].status # "none"
             /\ quote'[q].session = quote[q].session
             /\ quote'[q].revision = quote[q].revision
             /\ quote'[q].lines = quote[q].lines
  BY <1>0, <1>3 DEF PrepareWrite, QuotesWith, TypeOK, QuoteRow
<1>4. ASSUME NEW w \in Workers, NEW o \in OrderIds, ConfirmCommit(w, o)
      PROVE  /\ quote'[q].status # "none"
             /\ quote'[q].session = quote[q].session
             /\ quote'[q].revision = quote[q].revision
             /\ quote'[q].lines = quote[q].lines
  BY <1>0, <1>4 DEF ConfirmCommit, OrderWrites, TypeOK, QuoteRow
<1>. QED
  BY <1>1, <1>2, <1>3, <1>4, TableSteps
  DEF TableWrite, tables, PrepareReadLines, ReplaceCart, AbandonCart

\* Revisions only grow, and what the cart held at a revision is settled.
LEMMA CartStable ==
  ASSUME TypeOK, LocalsOK, [Next]_vars, NEW s \in Sessions
  PROVE  /\ cart[s].revision <= cart'[s].revision
         /\ \A n \in 0 .. cart[s].revision : linesAt'[s][n] = linesAt[s][n]
         /\ \/ cart'[s].lines = cart[s].lines /\ cart'[s].revision = cart[s].revision
            \/ /\ cart'[s].revision = cart[s].revision + 1
               /\ cart'[s].lines = linesAt'[s][cart'[s].revision]
<1>0. cart[s] \in CartRow /\ cart[s].revision \in Nat
  BY DEF TypeOK, CartRow
<1>1. CASE cart' = cart /\ linesAt' = linesAt
  BY <1>0, <1>1
<1>2. ASSUME NEW w \in Workers, PrepareReadLines(w)
      PROVE  /\ cart'[s].revision = cart[s].revision
             /\ cart'[s].lines = cart[s].lines
             /\ linesAt' = linesAt
  BY <1>0, <1>2 DEF PrepareReadLines, TypeOK, CartRow
<1>3. ASSUME NEW w \in Workers, NEW o \in OrderIds, ConfirmCommit(w, o)
      PROVE  /\ cart'[s].revision = cart[s].revision
             /\ cart'[s].lines = cart[s].lines
             /\ linesAt' = linesAt
  BY <1>0, <1>3 DEF ConfirmCommit, OrderWrites, TypeOK, CartRow
<1>4. ASSUME NEW t \in Sessions, AbandonCart(t)
      PROVE  /\ cart'[s].revision = cart[s].revision
             /\ cart'[s].lines = cart[s].lines
             /\ linesAt' = linesAt
  BY <1>0, <1>4 DEF AbandonCart, TypeOK, CartRow
<1>5. ASSUME NEW t \in Sessions, NEW n \in 0 .. MaxRevision,
             NEW lines \in SUBSET Items, ReplaceCart(t, n, lines), t # s
      PROVE  cart'[s] = cart[s] /\ linesAt'[s] = linesAt[s]
  BY <1>5 DEF ReplaceCart, TypeOK
<1>6. ASSUME NEW n \in 0 .. MaxRevision, NEW lines \in SUBSET Items,
             ReplaceCart(s, n, lines)
      PROVE  /\ cart'[s].revision = cart[s].revision + 1
             /\ cart'[s].lines = linesAt'[s][cart'[s].revision]
             /\ \A m \in 0 .. cart[s].revision : linesAt'[s][m] = linesAt[s][m]
  <2>1. cart'[s] = [status |-> "open", revision |-> n + 1, lines |-> lines]
    BY <1>6 DEF ReplaceCart, TypeOK
  <2>2. n = cart[s].revision /\ n + 1 \in 0 .. MaxRevision
    BY <1>6, CheckoutAssumption DEF ReplaceCart
  <2>3. linesAt'[s] = [linesAt[s] EXCEPT ![n + 1] = lines]
    BY <1>6 DEF ReplaceCart, TypeOK
  <2>4. linesAt[s] \in [0 .. MaxRevision -> SUBSET Items]
    BY DEF TypeOK
  <2>5. linesAt'[s][n + 1] = lines
    BY <2>2, <2>3, <2>4
  <2>6. \A m \in 0 .. n : linesAt'[s][m] = linesAt[s][m]
    BY <2>2, <2>3, <2>4, CheckoutAssumption
  <2>. QED
    BY <2>1, <2>2, <2>5, <2>6
<1>7. ASSUME NEW w \in Workers, ConfirmReject(w) \/ \E q \in QuoteIds : PrepareWrite(w, q)
      PROVE  cart' = cart /\ linesAt' = linesAt
  BY <1>7 DEF ConfirmReject, PrepareWrite, QuotesWith
<1>8. CASE TableWrite
  BY <1>0, <1>1, <1>2, <1>3, <1>4, <1>5, <1>6, <1>7, <1>8 DEF TableWrite
<1>. QED
  BY <1>1, <1>8, TableSteps DEF tables

-----------------------------------------------------------------------------
(* The locals of a thread.                                                 *)

\* What LocalsOK says of one thread.
ThreadOK(w) ==
  /\ pc[w] \in PrepareLabels => loc[w].session \in Sessions
  /\ pc[w] \in ConfirmLabels => /\ loc[w].quote \in QuoteIds
                                /\ loc[w].key \in Keys
                                /\ quote[loc[w].quote].status # "none"
                                /\ loc[w].lines = quote[loc[w].quote].lines
  /\ pc[w] \in {"cart_read", "commit"} =>
       /\ loc[w].session = quote[loc[w].quote].session
       /\ loc[w].revision = quote[loc[w].quote].revision

LEMMA LocalsNext ==
  ASSUME TypeOK, LocalsOK, QuotesOK, [Next]_vars
  PROVE  LocalsOK'
<1>0. SUFFICES ASSUME NEW v \in Workers
               PROVE  ThreadOK(v)'
  BY <1>0 DEF LocalsOK, ThreadOK
<1>1. ThreadOK(v)
  BY DEF LocalsOK, ThreadOK
<1>2. CASE pc'[v] = pc[v] /\ loc'[v] = loc[v]
  BY <1>1, <1>2, QuoteStable DEF ThreadOK, PrepareLabels, ConfirmLabels
<1>3. CASE pc'[v] = "idle"
  BY <1>3 DEF ThreadOK, PrepareLabels, ConfirmLabels
<1>4. ASSUME NEW w \in Workers, Finish(w)
      PROVE  ThreadOK(v)'
  <2>1. CASE w = v
    BY <1>3, <1>4, <2>1 DEF Finish, Goto, TypeOK
  <2>2. CASE w # v
    BY <1>2, <1>4, <2>2 DEF Finish, Goto, TypeOK
  <2>. QED
    BY <2>1, <2>2
<1>5. ASSUME NEW w \in Workers, w # v,
             \E label \in Labels : Goto(w, label),
             loc' = [loc EXCEPT ![w] = loc'[w]]
      PROVE  ThreadOK(v)'
  BY <1>2, <1>5 DEF Goto, TypeOK
<1>6. ASSUME NEW w \in Workers, Prepare(w)
      PROVE  ThreadOK(v)'
  <2>1. ASSUME NEW s \in Sessions, PrepareReadCart(w, s)
        PROVE  ThreadOK(v)'
    <3>1. CASE w = v
      <4>1. pc'[v] = "cart_lines" /\ loc'[v].session = s
        BY <2>1, <3>1 DEF PrepareReadCart, Goto, TypeOK, NoLocals
      <4>. QED
        BY <4>1 DEF ThreadOK, PrepareLabels, ConfirmLabels
    <3>. QED
      BY <2>1, <3>1, <1>5 DEF PrepareReadCart, Labels, TypeOK
  <2>2. CASE PrepareReadLines(w)
    <3>1. CASE w = v /\ ~ Finish(w)
      <4>1. pc'[v] = "price" /\ loc'[v].session = loc[v].session /\ pc[v] = "cart_lines"
        BY <2>2, <3>1 DEF PrepareReadLines, Goto, TypeOK, Locals
      <4>. QED
        BY <4>1, <1>1 DEF ThreadOK, PrepareLabels, ConfirmLabels
    <3>. QED
      BY <2>2, <3>1, <1>4, <1>5 DEF PrepareReadLines, Labels, TypeOK
  <2>3. CASE PrepareSetPrice(w)
    <3>1. CASE w = v
      <4>1. pc'[v] = "quote_select" /\ loc'[v].session = loc[v].session /\ pc[v] = "price"
        BY <2>3, <3>1 DEF PrepareSetPrice, Goto, TypeOK, Locals
      <4>. QED
        BY <4>1, <1>1 DEF ThreadOK, PrepareLabels, ConfirmLabels
    <3>. QED
      BY <2>3, <3>1, <1>5 DEF PrepareSetPrice, Labels, TypeOK
  <2>4. CASE PrepareSelect(w)
    <3>1. CASE w = v /\ ~ Finish(w)
      <4>1. /\ pc'[v] = "quote_write"
            /\ loc'[v].session = loc[v].session
            /\ pc[v] = "quote_select"
        BY <2>4, <3>1 DEF PrepareSelect, Goto, TypeOK, Locals
      <4>. QED
        BY <4>1, <1>1 DEF ThreadOK, PrepareLabels, ConfirmLabels
    <3>. QED
      BY <2>4, <3>1, <1>4, <1>5 DEF PrepareSelect, Labels, TypeOK
  <2>5. ASSUME NEW q \in QuoteIds, PrepareWrite(w, q)
        PROVE  ThreadOK(v)'
    BY <2>5, <1>4 DEF PrepareWrite, QuotesWith
  <2>6. CASE PrepareConflict(w)
    BY <2>6, <1>4 DEF PrepareConflict
  <2>. QED
    BY <1>6, <2>1, <2>2, <2>3, <2>4, <2>5, <2>6 DEF Prepare
<1>7. ASSUME NEW w \in Workers, Confirm(w)
      PROVE  ThreadOK(v)'
  <2>0. ASSUME NEW r \in Outcomes, NEW m \in {"none", "expired", "stale"},
               Refuse(w, r, m), pc[w] \in ConfirmLabels
        PROVE  ThreadOK(v)'
    <3>1. CASE w = v
      <4>1. /\ pc'[v] = "reject"
            /\ loc'[v].quote = loc[v].quote
            /\ loc'[v].key = loc[v].key
            /\ loc'[v].lines = loc[v].lines
        BY <2>0, <3>1 DEF Refuse, Goto, TypeOK, Locals
      <4>. QED
        BY <4>1, <3>1, <2>0, <1>1, QuoteStable DEF ThreadOK, PrepareLabels, ConfirmLabels
    <3>. QED
      BY <2>0, <3>1, <1>5 DEF Refuse, Labels, TypeOK
  <2>1. ASSUME NEW q \in QuoteIds, NEW k \in Keys, ConfirmReadOutcome(w, q, k)
        PROVE  ThreadOK(v)'
    <3>1. CASE w = v
      <4>1. /\ pc'[v] = "validate"
            /\ loc'[v].quote = q
            /\ loc'[v].key = k
            /\ loc'[v].lines = quote[q].lines
            /\ quote[q].status # "none"
        BY <2>1, <3>1 DEF ConfirmReadOutcome, Goto, TypeOK, NoLocals
      <4>. QED
        BY <4>1, QuoteStable DEF ThreadOK, PrepareLabels, ConfirmLabels
    <3>. QED
      BY <2>1, <3>1, <1>5 DEF ConfirmReadOutcome, Labels, TypeOK
  <2>2. CASE ConfirmValidate(w)
    <3>1. CASE w = v
      <4>1. /\ pc[v] = "validate" /\ pc'[v] = "attempt"
            /\ loc'[v].quote = loc[v].quote
            /\ loc'[v].key = loc[v].key
            /\ loc'[v].lines = loc[v].lines
        BY <2>2, <3>1 DEF ConfirmValidate, Goto, TypeOK, Locals
      <4>. QED
        BY <4>1, <1>1, QuoteStable DEF ThreadOK, PrepareLabels, ConfirmLabels
    <3>. QED
      BY <2>2, <3>1, <1>5 DEF ConfirmValidate, Labels, TypeOK
  <2>3. CASE ConfirmReadAttempt(w)
    <3>1. CASE w = v /\ ~ Finish(w)
      <4>1. pc[v] = "attempt" /\ pc'[v] = "quote_read" /\ loc'[v] = loc[v]
        BY <2>3, <3>1 DEF ConfirmReadAttempt, Goto, TypeOK
      <4>. QED
        BY <4>1, <1>1, QuoteStable DEF ThreadOK, PrepareLabels, ConfirmLabels
    <3>. QED
      BY <2>3, <3>1, <1>4, <1>5 DEF ConfirmReadAttempt, Labels, TypeOK
  <2>4. CASE ConfirmReadQuote(w)
    <3>. DEFINE row == quote[loc[w].quote]
    <3>1. loc[w].quote \in QuoteIds /\ pc[w] \in ConfirmLabels
      BY <2>4 DEF LocalsOK, ConfirmReadQuote, ConfirmLabels
    <3>2. row.status \in QuoteStatus
      BY <3>1 DEF TypeOK, QuoteRow
    <3>3. InactiveResult(row.status) \in Outcomes /\ "quote_expired" \in Outcomes
      BY <3>2 DEF InactiveResult, Outcomes, Rejections, QuoteStatus
    <3>4. CASE /\ Goto(w, "cart_read")
               /\ loc' = [loc EXCEPT ![w] = [@ EXCEPT !.session = row.session,
                                                    !.revision = row.revision]]
      <4>1. CASE w = v
        <5>1. /\ pc'[v] = "cart_read"
              /\ loc'[v].quote = loc[v].quote
              /\ loc'[v].key = loc[v].key
              /\ loc'[v].lines = loc[v].lines
              /\ loc'[v].session = quote[loc[v].quote].session
              /\ loc'[v].revision = quote[loc[v].quote].revision
          BY <3>4, <4>1 DEF Goto, TypeOK, Locals
        <5>. QED
          BY <5>1, <4>1, <3>1, <1>1, QuoteStable DEF ThreadOK, PrepareLabels, ConfirmLabels
      <4>. QED
        BY <3>4, <4>1, <1>5 DEF Labels, TypeOK
    <3>. QED
      BY <2>4, <2>0, <3>1, <3>3, <3>4, <1>4 DEF ConfirmReadQuote
  <2>5. CASE ConfirmReadCart(w)
    <3>1. pc[w] \in ConfirmLabels /\ "quote_stale" \in Outcomes /\ "items_unavailable" \in Outcomes
      BY <2>5 DEF ConfirmReadCart, ConfirmLabels, Outcomes, Rejections
    <3>2. CASE Goto(w, "commit") /\ UNCHANGED loc
      <4>1. CASE w = v
        <5>1. pc[v] = "cart_read" /\ pc'[v] = "commit" /\ loc'[v] = loc[v]
          BY <2>5, <3>2, <4>1 DEF ConfirmReadCart, Goto, TypeOK
        <5>. QED
          BY <5>1, <1>1, QuoteStable DEF ThreadOK, PrepareLabels, ConfirmLabels
      <4>. QED
        BY <3>2, <4>1, <1>5 DEF Labels, TypeOK
    <3>. QED
      BY <2>5, <2>0, <3>1, <3>2 DEF ConfirmReadCart
  <2>6. CASE ConfirmReject(w)
    BY <2>6, <1>4 DEF ConfirmReject
  <2>7. ASSUME NEW o \in OrderIds, ConfirmCommit(w, o)
        PROVE  ThreadOK(v)'
    BY <2>7, <1>4 DEF ConfirmCommit, OrderWrites
  <2>8. CASE ConfirmAbort(w)
    BY <2>8, <1>4 DEF ConfirmAbort
  <2>. QED
    BY <1>7, <2>1, <2>2, <2>3, <2>4, <2>5, <2>6, <2>7, <2>8 DEF Confirm
<1>8. ASSUME NEW w \in Workers, RequestFails(w)
      PROVE  ThreadOK(v)'
  BY <1>8, <1>4 DEF RequestFails
<1>9. CASE UNCHANGED <<pc, loc>>
  BY <1>2, <1>9
<1>. QED
  BY <1>6, <1>7, <1>8, <1>9
  DEF Next, vars, ReplaceSome, AbandonSome, ToggleSome, ReplaceCart, AbandonCart,
      ToggleItem, Tick

-----------------------------------------------------------------------------
(* Orders, quotes and attempts.                                            *)

LEMMA QuotesNext ==
  ASSUME TypeOK, LocalsOK, QuotesOK, [Next]_vars
  PROVE  QuotesOK'
<1>0. SUFFICES ASSUME NEW q \in QuoteIds, quote'[q].status # "none"
               PROVE  quote'[q].session \in Sessions
  BY DEF QuotesOK
<1>1. CASE quote[q].status # "none"
  BY <1>1, QuoteStable DEF QuotesOK
<1>2. CASE quote[q].status = "none"
  <2>1. ASSUME NEW w \in Workers, NEW p \in QuoteIds, PrepareWrite(w, p)
        PROVE  quote'[q].session \in Sessions
    <3>1. loc[w].session \in Sessions
      BY <2>1 DEF PrepareWrite, QuotesWith, LocalsOK, PrepareLabels
    <3>2. q \notin ActiveQuotes(loc[w].session)
      BY <1>2 DEF ActiveQuotes
    <3>3. q = p
      BY <1>0, <1>2, <2>1, <3>2 DEF PrepareWrite, QuotesWith
    <3>. QED
      BY <2>1, <3>1, <3>3 DEF PrepareWrite, QuotesWith
  <2>2. ASSUME NEW w \in Workers,
               ConfirmReject(w) \/ \E o \in OrderIds : ConfirmCommit(w, o)
        PROVE  quote'[q] = quote[q]
    <3>1. loc[w].quote # q
      BY <1>2, <2>2 DEF LocalsOK, ConfirmReject, ConfirmCommit, OrderWrites, ConfirmLabels
    <3>. QED
      BY <2>2, <3>1 DEF ConfirmReject, ConfirmCommit, OrderWrites, TypeOK
  <2>. QED
    BY <1>0, <1>2, <2>1, <2>2, TableSteps
    DEF TableWrite, tables, PrepareReadLines, ReplaceCart, AbandonCart
<1>. QED
  BY <1>1, <1>2

LEMMA OrderedQuoteNext ==
  ASSUME TypeOK, LocalsOK, OrderedQuoteWasPrepared, [Next]_vars
  PROVE  OrderedQuoteWasPrepared'
<1>1. ASSUME NEW o \in orders
      PROVE  quote'[o.quote].status # "none"
  <2>1. o.quote \in QuoteIds
    BY DEF TypeOK, OrderRow
  <2>. QED
    BY <2>1, QuoteStable DEF OrderedQuoteWasPrepared
<1>2. ASSUME NEW w \in Workers, NEW o \in OrderIds, ConfirmCommit(w, o)
      PROVE  quote'[loc[w].quote].status # "none"
  <2>1. loc[w].quote \in QuoteIds /\ quote[loc[w].quote].status # "none"
    BY <1>2 DEF ConfirmCommit, OrderWrites, LocalsOK, ConfirmLabels
  <2>. QED
    BY <2>1, QuoteStable
<1>3. ASSUME NEW w \in Workers, NEW o \in OrderIds, ConfirmCommit(w, o)
      PROVE  OrderedQuoteWasPrepared'
  <2>1. \A p \in orders' \ orders : p.quote = loc[w].quote
    BY <1>3 DEF ConfirmCommit, OrderWrites
  <2>. QED
    BY <1>1, <1>2, <1>3, <2>1 DEF OrderedQuoteWasPrepared
<1>4. CASE orders' = orders
  BY <1>1, <1>4 DEF OrderedQuoteWasPrepared
<1>. QED
  BY <1>3, <1>4, TableSteps
  DEF TableWrite, tables, PrepareReadLines, ConfirmReject, PrepareWrite, QuotesWith, ReplaceCart,
      AbandonCart

\* Orders are only added by ConfirmCommit.
LEMMA OrderSteps ==
  ASSUME [Next]_vars
  PROVE  \/ orders' = orders /\ lastPickup' = lastPickup /\ outbox' = outbox
         \/ \E w \in Workers, o \in OrderIds : ConfirmCommit(w, o)
BY TableSteps
DEF TableWrite, tables, PrepareReadLines, ConfirmReject, PrepareWrite, QuotesWith, ReplaceCart,
    AbandonCart

LEMMA OneOrderNext ==
  ASSUME TypeOK, OneOrderPerQuote, [Next]_vars
  PROVE  OneOrderPerQuote'
<1>1. ASSUME NEW w \in Workers, NEW o \in OrderIds, ConfirmCommit(w, o)
      PROVE  OneOrderPerQuote'
  BY <1>1 DEF ConfirmCommit, OrderWrites, OrderOf, OneOrderPerQuote
<1>. QED
  BY <1>1, OrderSteps DEF OneOrderPerQuote

LEMMA PickupNext ==
  ASSUME TypeOK, PickupNumbersAreDense, [Next]_vars
  PROVE  PickupNumbersAreDense'
<1>1. ASSUME NEW w \in Workers, NEW o \in OrderIds, ConfirmCommit(w, o)
      PROVE  PickupNumbersAreDense'
  <2>. DEFINE new == [id |-> o, quote |-> loc[w].quote, session |-> loc[w].session,
                      pickup |-> lastPickup + 1, lines |-> loc[w].lines]
  <2>1. /\ lastPickup' = lastPickup + 1
        /\ orders' = orders \cup {new}
        /\ lastPickup \in Nat
        /\ new.pickup = lastPickup + 1
    BY <1>1 DEF ConfirmCommit, OrderWrites, TypeOK
  <2>. HIDE DEF new
  <2>2. \A p \in orders : p.pickup \in 1 .. lastPickup
    BY DEF PickupNumbersAreDense
  <2>3. \A p1, p2 \in orders' : p1.pickup = p2.pickup => p1 = p2
    BY <2>1, <2>2 DEF PickupNumbersAreDense
  <2>4. \A n \in 1 .. lastPickup' : \E p \in orders' : p.pickup = n
    BY <2>1 DEF PickupNumbersAreDense
  <2>5. \A p \in orders' : p.pickup \in 1 .. lastPickup'
    BY <2>1, <2>2
  <2>. QED
    BY <2>3, <2>4, <2>5 DEF PickupNumbersAreDense
<1>. QED
  BY <1>1, OrderSteps DEF PickupNumbersAreDense

\* Attempts are only added.
LEMMA AttemptsGrow ==
  ASSUME [Next]_vars
  PROVE  /\ attempts \subseteq attempts'
         /\ orders \subseteq orders'
         /\ outbox \subseteq outbox'
BY TableSteps
DEF TableWrite, tables, PrepareReadLines, ConfirmReject, ConfirmCommit, OrderWrites, PrepareWrite, QuotesWith,
    ReplaceCart, AbandonCart

LEMMA RejectsNext ==
  ASSUME TypeOK, LocalsOK, RejectsOK, [Next]_vars
  PROVE  RejectsOK'
<1>0. SUFFICES ASSUME NEW v \in Workers, pc'[v] = "reject"
               PROVE  loc'[v].result # "confirmed"
  BY DEF RejectsOK
<1>1. CASE pc'[v] = pc[v] /\ loc'[v] = loc[v]
  BY <1>0, <1>1 DEF RejectsOK
<1>2. ASSUME NEW w \in Workers, NEW r \in Outcomes \ {"confirmed"}, NEW m, Refuse(w, r, m)
      PROVE  loc'[v].result # "confirmed"
  <2>1. CASE w = v
    BY <1>2, <2>1 DEF Refuse, TypeOK, Locals
  <2>2. CASE w # v
    BY <1>1, <1>2, <2>2 DEF Refuse, Goto, TypeOK
  <2>. QED
    BY <2>1, <2>2
<1>3. ASSUME NEW w \in Workers, NEW label \in Labels \ {"reject"}, Goto(w, label),
             \A u \in Workers \ {w} : loc'[u] = loc[u]
      PROVE  loc'[v].result # "confirmed"
  BY <1>0, <1>1, <1>3 DEF Goto, TypeOK
<1>4. ASSUME NEW w \in Workers, Finish(w)
      PROVE  loc'[v].result # "confirmed"
  BY <1>3, <1>4 DEF Finish, TypeOK, Labels
<1>5. ASSUME NEW w \in Workers, ConfirmReadQuote(w)
      PROVE  loc'[v].result # "confirmed"
  <2>1. loc[w].quote \in QuoteIds
    BY <1>5 DEF LocalsOK, ConfirmReadQuote, ConfirmLabels
  <2>2. quote[loc[w].quote].status \in QuoteStatus
    BY <2>1 DEF TypeOK, QuoteRow
  <2>3. /\ InactiveResult(quote[loc[w].quote].status) \in Outcomes \ {"confirmed"}
        /\ "quote_expired" \in Outcomes \ {"confirmed"}
    BY <2>2 DEF InactiveResult, Outcomes, Rejections, QuoteStatus
  <2>. QED
    BY <1>5, <1>2, <1>3, <1>4, <2>3 DEF ConfirmReadQuote, TypeOK, Labels
<1>6. ASSUME NEW w \in Workers, ConfirmReadCart(w)
      PROVE  loc'[v].result # "confirmed"
  <2>1. {"quote_stale", "items_unavailable"} \subseteq Outcomes \ {"confirmed"}
    BY DEF Outcomes, Rejections
  <2>. QED
    BY <1>6, <1>2, <1>3, <2>1 DEF ConfirmReadCart, TypeOK, Labels
<1>7. ASSUME NEW w \in Workers, Confirm(w)
      PROVE  loc'[v].result # "confirmed"
  BY <1>7, <1>3, <1>4, <1>5, <1>6
  DEF Confirm, ConfirmReadOutcome, ConfirmValidate, ConfirmReadAttempt, ConfirmReject,
      ConfirmCommit, OrderWrites, ConfirmAbort, TypeOK, Labels
<1>8. ASSUME NEW w \in Workers, Prepare(w)
      PROVE  loc'[v].result # "confirmed"
  BY <1>8, <1>3, <1>4
  DEF Prepare, PrepareReadCart, PrepareReadLines, PrepareSetPrice, PrepareSelect,
      PrepareWrite, QuotesWith, PrepareConflict, TypeOK, Labels
<1>9. CASE UNCHANGED <<pc, loc>>
  BY <1>1, <1>9
<1>. QED
  BY <1>4, <1>7, <1>8, <1>9
  DEF Next, vars, RequestFails, ReplaceSome, AbandonSome, ToggleSome, ReplaceCart,
      AbandonCart, ToggleItem, Tick

LEMMA ConfirmedAttemptNext ==
  ASSUME TypeOK, RejectsOK, ConfirmedAttemptHasOrder, [Next]_vars
  PROVE  ConfirmedAttemptHasOrder'
<1>0. \A a \in attempts : a.type = "confirmed" => \E p \in orders' : p.quote = a.quote
  BY AttemptsGrow DEF ConfirmedAttemptHasOrder, OrderOf
<1>1. ASSUME NEW w \in Workers, NEW o \in OrderIds, ConfirmCommit(w, o)
      PROVE  ConfirmedAttemptHasOrder'
  <2>. DEFINE new == [id |-> o, quote |-> loc[w].quote, session |-> loc[w].session,
                      pickup |-> lastPickup', lines |-> loc[w].lines]
  <2>1. \E p \in orders' : p.quote = loc[w].quote
    <3>1. new \in orders' /\ new.quote = loc[w].quote
      BY <1>1 DEF ConfirmCommit, OrderWrites
    <3>. QED
      BY <3>1
  <2>2. \A a \in attempts' \ attempts : a.quote = loc[w].quote
    BY <1>1 DEF ConfirmCommit, OrderWrites
  <2>3. \A a \in attempts' : a.type = "confirmed" => \E p \in orders' : p.quote = a.quote
    BY <1>0, <2>1, <2>2
  <2>. QED
    BY <2>3 DEF ConfirmedAttemptHasOrder, OrderOf
<1>2. ASSUME NEW w \in Workers, ConfirmReject(w)
      PROVE  ConfirmedAttemptHasOrder'
  <2>1. \A a \in attempts' \ attempts : a.type # "confirmed"
    BY <1>2 DEF ConfirmReject, RejectsOK
  <2>2. orders' = orders
    BY <1>2 DEF ConfirmReject
  <2>. QED
    BY <2>1, <2>2 DEF ConfirmedAttemptHasOrder, OrderOf
<1>3. CASE UNCHANGED <<orders, attempts>>
  BY <1>3 DEF ConfirmedAttemptHasOrder, OrderOf
<1>. QED
  BY <1>1, <1>2, <1>3, TableSteps
  DEF TableWrite, tables, PrepareReadLines, PrepareWrite, QuotesWith, ReplaceCart, AbandonCart

-----------------------------------------------------------------------------
(* What an Order drags along.                                              *)

LEMMA OrderIsCompleteNext ==
  ASSUME TypeOK, LocalsOK, QuotesOK, OrderedQuoteWasPrepared, OneOrderPerQuote,
         OrderIsComplete, [Next]_vars
  PROVE  OrderIsComplete'
<1>1. ASSUME NEW o \in orders
      PROVE  /\ quote'[o.quote].order = o.id
             /\ cart'[o.session].status = "closed"
             /\ o.id \in outbox'
             /\ \E a \in attempts' : a.quote = o.quote /\ a.type = "confirmed"
  <2>1. /\ o.quote \in QuoteIds
        /\ o.session \in Sessions
        /\ quote[o.quote].order = o.id
        /\ quote[o.quote].status # "none"
        /\ cart[o.session].status = "closed"
        /\ quote[o.quote] \in QuoteRow
        /\ cart[o.session] \in CartRow
    BY DEF TypeOK, OrderRow, OrderIsComplete, OrderedQuoteWasPrepared
  <2>2. quote'[o.quote].order = o.id
    <3>1. ASSUME NEW w \in Workers, NEW q \in QuoteIds, PrepareWrite(w, q)
          PROVE  quote'[o.quote].order = o.id
      BY <2>1, <3>1 DEF PrepareWrite, QuotesWith, TypeOK, QuoteRow
    <3>2. ASSUME NEW w \in Workers, ConfirmReject(w)
          PROVE  quote'[o.quote].order = o.id
      BY <2>1, <3>2 DEF ConfirmReject, TypeOK, QuoteRow
    <3>3. ASSUME NEW w \in Workers, NEW n \in OrderIds, ConfirmCommit(w, n)
          PROVE  quote'[o.quote].order = o.id
      BY <2>1, <3>3 DEF ConfirmCommit, OrderWrites, OrderOf, TypeOK, QuoteRow
    <3>. QED
      BY <2>1, <3>1, <3>2, <3>3, TableSteps
      DEF TableWrite, tables, PrepareReadLines, ReplaceCart, AbandonCart
  <2>3. cart'[o.session].status = "closed"
    <3>1. ASSUME NEW w \in Workers, PrepareReadLines(w)
          PROVE  cart'[o.session].status = "closed"
      BY <2>1, <3>1 DEF PrepareReadLines, TypeOK, CartRow
    <3>2. ASSUME NEW w \in Workers, NEW n \in OrderIds, ConfirmCommit(w, n)
          PROVE  cart'[o.session].status = "closed"
      BY <2>1, <3>2 DEF ConfirmCommit, OrderWrites, TypeOK, CartRow
    <3>3. ASSUME NEW s \in Sessions, AbandonCart(s)
          PROVE  cart'[o.session].status = "closed"
      BY <2>1, <3>3 DEF AbandonCart, TypeOK
    <3>4. ASSUME NEW s \in Sessions, NEW n \in 0 .. MaxRevision,
                 NEW lines \in SUBSET Items, ReplaceCart(s, n, lines)
          PROVE  cart'[o.session].status = "closed"
      BY <2>1, <3>4 DEF ReplaceCart, TypeOK
    <3>. QED
      BY <2>1, <3>1, <3>2, <3>3, <3>4, TableSteps
      DEF TableWrite, tables, PrepareWrite, QuotesWith, ConfirmReject
  <2>. QED
    BY <2>2, <2>3, AttemptsGrow DEF OrderIsComplete
<1>2. ASSUME NEW w \in Workers, NEW n \in OrderIds, ConfirmCommit(w, n)
      PROVE  OrderIsComplete'
  <2>1. /\ loc[w].quote \in QuoteIds
        /\ loc[w].session \in Sessions
    BY <1>2 DEF ConfirmCommit, OrderWrites, LocalsOK, QuotesOK, ConfirmLabels
  <2>2. /\ quote'[loc[w].quote].order = n
        /\ cart'[loc[w].session].status = "closed"
        /\ n \in outbox'
        /\ \E a \in attempts' : a.quote = loc[w].quote /\ a.type = "confirmed"
    <3>1. quote[loc[w].quote] \in QuoteRow /\ cart[loc[w].session] \in CartRow
      BY <2>1 DEF TypeOK
    <3>. DEFINE a0 == [key |-> loc[w].key, quote |-> loc[w].quote, type |-> "confirmed"]
    <3>2. a0 \in attempts' /\ a0.quote = loc[w].quote /\ a0.type = "confirmed"
      BY <1>2 DEF ConfirmCommit, OrderWrites
    <3>. HIDE DEF a0
    <3>3. /\ quote'[loc[w].quote].order = n
          /\ cart'[loc[w].session].status = "closed"
          /\ n \in outbox'
      BY <1>2, <2>1, <3>1 DEF ConfirmCommit, OrderWrites, TypeOK, QuoteRow, CartRow
    <3>. QED
      BY <3>2, <3>3
  <2>3. \A p \in orders' \ orders : /\ p.id = n
                                   /\ p.quote = loc[w].quote
                                   /\ p.session = loc[w].session
    BY <1>2 DEF ConfirmCommit, OrderWrites
  <2>4. \A p \in orders' \ orders :
          /\ quote'[p.quote].order = p.id
          /\ cart'[p.session].status = "closed"
          /\ p.id \in outbox'
          /\ \E a \in attempts' : a.quote = p.quote /\ a.type = "confirmed"
    BY <2>2, <2>3
  <2>. QED
    BY <1>1, <2>4 DEF OrderIsComplete
<1>. QED
  BY <1>1, <1>2, OrderSteps DEF OrderIsComplete

LEMMA OneActiveNext ==
  ASSUME TypeOK, LocalsOK, OneActiveQuote, [Next]_vars
  PROVE  OneActiveQuote'
<1>0. \A q \in QuoteIds : quote[q] \in QuoteRow
  BY DEF TypeOK
<1>1. ASSUME NEW w \in Workers, NEW q \in QuoteIds, PrepareWrite(w, q)
      PROVE  OneActiveQuote'
  <2>1. \A p \in QuoteIds : p # q /\ quote'[p].status = "active"
           => quote[p].status = "active" /\ quote'[p].session = quote[p].session
                /\ quote[p].session # loc[w].session
    BY <1>0, <1>1 DEF PrepareWrite, QuotesWith, ActiveQuotes, QuoteRow
  <2>2. quote'[q].session = loc[w].session
    BY <1>1 DEF PrepareWrite, QuotesWith
  <2>. QED
    BY <2>1, <2>2 DEF OneActiveQuote
<1>2. ASSUME NEW w \in Workers, ConfirmReject(w)
      PROVE  OneActiveQuote'
  <2>1. loc[w].mark \in {"none", "expired", "stale"}
    BY DEF TypeOK, Locals
  <2>2. \A p \in QuoteIds : quote'[p].status = "active"
           => quote[p].status = "active" /\ quote'[p].session = quote[p].session
    BY <1>0, <1>2, <2>1 DEF ConfirmReject, TypeOK, QuoteRow
  <2>. QED
    BY <2>2 DEF OneActiveQuote
<1>3. ASSUME NEW w \in Workers, NEW o \in OrderIds, ConfirmCommit(w, o)
      PROVE  OneActiveQuote'
  <2>1. \A p \in QuoteIds : quote'[p].status = "active"
           => quote[p].status = "active" /\ quote'[p].session = quote[p].session
    BY <1>0, <1>3 DEF ConfirmCommit, OrderWrites, TypeOK, QuoteRow
  <2>. QED
    BY <2>1 DEF OneActiveQuote
<1>4. CASE quote' = quote
  BY <1>4 DEF OneActiveQuote
<1>. QED
  BY <1>1, <1>2, <1>3, <1>4, TableSteps
  DEF TableWrite, tables, PrepareReadLines, ReplaceCart, AbandonCart

-----------------------------------------------------------------------------
(* The lines of a quote, from the two-statement read to the Order.         *)

\* A line-up stays faithful: the cart only moves on.
LEMMA FaithfulStable ==
  ASSUME TypeOK, LocalsOK, [Next]_vars, NEW s \in Sessions, NEW n \in Nat,
         NEW lines, Faithful(s, n, lines)
  PROVE  \/ n <= cart'[s].revision /\ lines = linesAt'[s][n]
         \/ n < cart'[s].revision
<1>1. cart[s].revision \in Nat /\ cart'[s].revision \in Nat
  <2>1. cart[s].revision \in Nat
    BY DEF TypeOK, CartRow
  <2>. QED
    BY <2>1, CartStable
<1>2. CASE n < cart[s].revision
  BY <1>1, <1>2, CartStable
<1>3. CASE n <= cart[s].revision /\ lines = linesAt[s][n]
  <2>1. n \in 0 .. cart[s].revision
    BY <1>1, <1>3
  <2>. QED
    BY <1>1, <1>3, <2>1, CartStable
<1>. QED
  BY <1>2, <1>3 DEF Faithful

LEMMA CartLinesNext ==
  ASSUME TypeOK, LocalsOK, CartLinesOK, [Next]_vars
  PROVE  CartLinesOK'
<1> SUFFICES ASSUME NEW s \in Sessions
             PROVE  cart'[s].lines = linesAt'[s][cart'[s].revision]
  BY DEF CartLinesOK
<1>1. cart[s].revision \in 0 .. cart[s].revision
  BY DEF TypeOK, CartRow
<1>. QED
  BY <1>1, CartStable DEF CartLinesOK

LEMMA QuoteLinesNext ==
  ASSUME TypeOK, LocalsOK, QuotesOK, PrepareLinesOK, QuoteLinesOK, [Next]_vars
  PROVE  QuoteLinesOK'
<1>0. SUFFICES ASSUME NEW q \in QuoteIds, quote'[q].status # "none"
               PROVE  LET s == quote'[q].session
                          n == quote'[q].revision
                      IN \/ n <= cart'[s].revision /\ quote'[q].lines = linesAt'[s][n]
                         \/ n < cart'[s].revision
  BY DEF QuoteLinesOK, Faithful
<1>1. CASE quote[q].status # "none"
  <2>1. /\ quote[q].session \in Sessions
        /\ quote[q].revision \in Nat
        /\ Faithful(quote[q].session, quote[q].revision, quote[q].lines)
    BY <1>1 DEF QuotesOK, QuoteLinesOK, TypeOK, QuoteRow
  <2>. QED
    BY <1>1, <2>1, QuoteStable, FaithfulStable
<1>2. CASE quote[q].status = "none"
  <2>1. PICK w \in Workers : PrepareWrite(w, q)
    <3>1. ASSUME NEW w \in Workers, NEW p \in QuoteIds, PrepareWrite(w, p), p # q
          PROVE  quote'[q] = quote[q]
      BY <1>2, <3>1 DEF PrepareWrite, QuotesWith, ActiveQuotes
    <3>2. ASSUME NEW w \in Workers,
                 ConfirmReject(w) \/ \E o \in OrderIds : ConfirmCommit(w, o)
          PROVE  quote'[q] = quote[q]
      <4>1. loc[w].quote # q
        BY <1>2, <3>2 DEF LocalsOK, ConfirmReject, ConfirmCommit, OrderWrites, ConfirmLabels
      <4>. QED
        BY <3>2, <4>1 DEF ConfirmReject, ConfirmCommit, OrderWrites, TypeOK
    <3>. QED
      BY <1>0, <1>2, <3>1, <3>2, TableSteps
      DEF TableWrite, tables, PrepareReadLines, ReplaceCart, AbandonCart
  <2>2. /\ loc[w].session \in Sessions
        /\ loc[w].revision \in Nat
        /\ Faithful(loc[w].session, loc[w].revision, loc[w].lines)
    BY <2>1 DEF PrepareWrite, QuotesWith, LocalsOK, PrepareLabels, PrepareLinesOK, TypeOK, Locals
  <2>3. /\ quote'[q].session = loc[w].session
        /\ quote'[q].revision = loc[w].revision
        /\ quote'[q].lines = loc[w].lines
    BY <2>1 DEF PrepareWrite, QuotesWith
  <2>. QED
    BY <2>2, <2>3, FaithfulStable
<1>. QED
  BY <1>1, <1>2

LEMMA PrepareLinesNext ==
  ASSUME TypeOK, LocalsOK, CartLinesOK, PrepareLinesOK, [Next]_vars
  PROVE  PrepareLinesOK'
<1>. DEFINE PL(v) ==
       /\ pc[v] = "cart_lines" => loc[v].revision <= cart[loc[v].session].revision
       /\ pc[v] \in {"price", "quote_select", "quote_write"} =>
            Faithful(loc[v].session, loc[v].revision, loc[v].lines)
<1>0. SUFFICES ASSUME NEW v \in Workers
               PROVE  PL(v)'
  BY DEF PrepareLinesOK
<1>1. PL(v)
  BY DEF PrepareLinesOK
<1>t. /\ loc[v] \in Locals
      /\ \A s \in Sessions : cart[s].revision \in Nat /\ cart'[s].revision \in Nat
  <2>1. \A s \in Sessions : cart[s].revision \in Nat
    BY DEF TypeOK, CartRow
  <2>. QED
    BY <2>1, CartStable DEF TypeOK
<1>2. CASE pc'[v] = pc[v] /\ loc'[v] = loc[v]
  <2>1. CASE pc[v] = "cart_lines"
    <3>1. loc[v].session \in Sessions /\ loc[v].revision \in Nat
      BY <2>1, <1>t DEF LocalsOK, PrepareLabels, Locals
    <3>. QED
      BY <1>1, <1>2, <1>t, <2>1, <3>1, CartStable
  <2>2. CASE pc[v] \in {"price", "quote_select", "quote_write"}
    <3>1. loc[v].session \in Sessions /\ loc[v].revision \in Nat
      BY <2>2, <1>t DEF LocalsOK, PrepareLabels, Locals
    <3>. QED
      BY <1>1, <1>2, <2>2, <3>1, FaithfulStable DEF Faithful
  <2>. QED
    BY <1>2, <2>1, <2>2
<1>3. CASE pc'[v] \notin {"cart_lines", "price", "quote_select", "quote_write"}
  BY <1>3
<1>4. ASSUME NEW w \in Workers, Finish(w)
      PROVE  PL(v)'
  BY <1>2, <1>3, <1>4 DEF Finish, Goto, TypeOK
<1>5. ASSUME NEW w \in Workers, w # v, \E label \in Labels : Goto(w, label),
             loc' = [loc EXCEPT ![w] = loc'[w]]
      PROVE  PL(v)'
  BY <1>2, <1>5 DEF Goto, TypeOK
<1>6. ASSUME NEW w \in Workers, NEW s \in Sessions, PrepareReadCart(w, s)
      PROVE  PL(v)'
  <2>1. CASE w = v
    <3>1. /\ pc'[v] = "cart_lines"
          /\ loc'[v].session = s
          /\ loc'[v].revision = cart[s].revision
      BY <1>6, <2>1 DEF PrepareReadCart, Goto, TypeOK, NoLocals
    <3>. QED
      BY <1>6, <3>1, CartStable DEF PrepareReadCart
  <2>. QED
    BY <1>6, <2>1, <1>5 DEF PrepareReadCart, Labels, TypeOK
<1>7. ASSUME NEW w \in Workers, PrepareReadLines(w)
      PROVE  PL(v)'
  <2>1. CASE w = v /\ ~ Finish(w)
    <3>. DEFINE s == loc[v].session
                n == loc[v].revision
    <3>1. /\ pc[v] = "cart_lines"
          /\ pc'[v] = "price"
          /\ loc'[v].session = s
          /\ loc'[v].revision = n
          /\ loc'[v].lines = cart[s].lines
      BY <1>7, <2>1 DEF PrepareReadLines, Goto, TypeOK, Locals
    <3>2. s \in Sessions /\ n \in Nat /\ n <= cart[s].revision
      BY <3>1, <1>1, <1>t DEF LocalsOK, PrepareLabels, Locals
    <3>3. Faithful(s, n, cart[s].lines)
      <4>1. CASE n = cart[s].revision
        BY <3>2, <4>1 DEF Faithful, CartLinesOK
      <4>2. CASE n < cart[s].revision
        BY <4>2 DEF Faithful
      <4>. QED
        BY <3>2, <4>1, <4>2, <1>t
    <3>4. \/ n <= cart'[s].revision /\ cart[s].lines = linesAt'[s][n]
          \/ n < cart'[s].revision
      BY <3>2, <3>3, FaithfulStable
    <3>. QED
      BY <3>1, <3>4 DEF Faithful
  <2>. QED
    BY <1>7, <2>1, <1>4, <1>5 DEF PrepareReadLines, Labels, TypeOK
<1>8. ASSUME NEW w \in Workers, PrepareSetPrice(w) \/ PrepareSelect(w)
      PROVE  PL(v)'
  <2>1. CASE w = v /\ ~ Finish(w)
    <3>. DEFINE s == loc[v].session
                n == loc[v].revision
                l == loc[v].lines
    <3>1. /\ pc[v] \in {"price", "quote_select"}
          /\ pc'[v] \in {"quote_select", "quote_write"}
          /\ loc'[v].session = s
          /\ loc'[v].revision = n
          /\ loc'[v].lines = l
      BY <1>8, <2>1 DEF PrepareSetPrice, PrepareSelect, Goto, TypeOK, Locals
    <3>2. s \in Sessions /\ n \in Nat /\ Faithful(s, n, l)
      BY <3>1, <1>1, <1>t DEF LocalsOK, PrepareLabels, Locals
    <3>3. \/ n <= cart'[s].revision /\ l = linesAt'[s][n]
          \/ n < cart'[s].revision
      BY <3>2, FaithfulStable
    <3>. QED
      BY <3>1, <3>3 DEF Faithful
  <2>. QED
    BY <1>8, <2>1, <1>4, <1>5 DEF PrepareSetPrice, PrepareSelect, Labels, TypeOK
<1>9. ASSUME NEW w \in Workers, Prepare(w)
      PROVE  PL(v)'
  BY <1>9, <1>4, <1>6, <1>7, <1>8 DEF Prepare, PrepareWrite, QuotesWith, PrepareConflict
<1>10. ASSUME NEW w \in Workers, NEW label \in Labels \ PrepareLabels, Goto(w, label),
              \A u \in Workers \ {w} : loc'[u] = loc[u]
       PROVE  PL(v)'
  <2>1. CASE w = v
    BY <1>3, <1>10, <2>1 DEF Goto, TypeOK, PrepareLabels
  <2>2. CASE w # v
    BY <1>2, <1>10, <2>2 DEF Goto, TypeOK
  <2>. QED
    BY <2>1, <2>2
<1>11. ASSUME NEW w \in Workers, Confirm(w)
       PROVE  PL(v)'
  BY <1>11, <1>4, <1>10
  DEF Confirm, ConfirmReadOutcome, ConfirmValidate, ConfirmReadAttempt, ConfirmReadQuote,
      ConfirmReadCart, Refuse, ConfirmReject, ConfirmCommit, OrderWrites, ConfirmAbort, TypeOK, Labels,
      PrepareLabels
<1>12. CASE UNCHANGED <<pc, loc>>
  BY <1>2, <1>12
<1>. QED
  BY <1>4, <1>9, <1>11, <1>12
  DEF Next, vars, RequestFails, ReplaceSome, AbandonSome, ToggleSome, ReplaceCart,
      AbandonCart, ToggleItem, Tick

LEMMA CommitLinesNext ==
  ASSUME TypeOK, LocalsOK, QuotesOK, QuoteLinesOK, CommitLinesOK, [Next]_vars
  PROVE  CommitLinesOK'
<1>0. SUFFICES ASSUME NEW v \in Workers, pc'[v] = "commit"
               PROVE  /\ loc'[v].revision <= cart'[loc'[v].session].revision
                      /\ loc'[v].lines = linesAt'[loc'[v].session][loc'[v].revision]
  BY DEF CommitLinesOK
<1>1. ASSUME NEW s \in Sessions, NEW n \in Nat, NEW l,
             n <= cart[s].revision, l = linesAt[s][n]
      PROVE  n <= cart'[s].revision /\ l = linesAt'[s][n]
  <2>1. cart[s].revision \in Nat /\ cart'[s].revision \in Nat
    <3>1. cart[s].revision \in Nat
      BY DEF TypeOK, CartRow
    <3>. QED
      BY <3>1, CartStable
  <2>2. n \in 0 .. cart[s].revision
    BY <1>1, <2>1
  <2>. QED
    BY <1>1, <2>1, <2>2, CartStable
<1>2. pc[v] \in {"cart_read", "commit"} =>
        loc[v].session \in Sessions /\ loc[v].revision \in Nat
  BY DEF LocalsOK, ConfirmLabels, QuotesOK, TypeOK, Locals
<1>3. CASE pc'[v] = pc[v] /\ loc'[v] = loc[v]
  <2>1. /\ loc[v].revision <= cart[loc[v].session].revision
        /\ loc[v].lines = linesAt[loc[v].session][loc[v].revision]
    BY <1>0, <1>3 DEF CommitLinesOK
  <2>. QED
    BY <1>0, <1>1, <1>2, <1>3, <2>1
<1>4. ASSUME NEW w \in Workers, ConfirmReadCart(w), w = v
      PROVE  /\ loc'[v].revision <= cart'[loc'[v].session].revision
             /\ loc'[v].lines = linesAt'[loc'[v].session][loc'[v].revision]
  <2>1. /\ pc[v] = "cart_read"
        /\ loc'[v] = loc[v]
        /\ cart[loc[v].session].revision = loc[v].revision
    BY <1>0, <1>4 DEF ConfirmReadCart, Refuse, Goto, TypeOK
  <2>2. /\ loc[v].quote \in QuoteIds
        /\ quote[loc[v].quote].status # "none"
        /\ loc[v].session = quote[loc[v].quote].session
        /\ loc[v].revision = quote[loc[v].quote].revision
        /\ loc[v].lines = quote[loc[v].quote].lines
    BY <2>1 DEF LocalsOK, ConfirmLabels
  <2>3. Faithful(loc[v].session, loc[v].revision, loc[v].lines)
    BY <2>2 DEF QuoteLinesOK
  <2>4. loc[v].lines = linesAt[loc[v].session][loc[v].revision]
    BY <1>2, <2>1, <2>3 DEF Faithful
  <2>. QED
    BY <1>1, <1>2, <2>1, <2>4
<1>5. ASSUME NEW w \in Workers, NEW label \in Labels \ {"commit"}, Goto(w, label),
             \A u \in Workers \ {w} : loc'[u] = loc[u]
      PROVE  pc'[v] = pc[v] /\ loc'[v] = loc[v]
  BY <1>0, <1>5 DEF Goto, TypeOK
<1>6. ASSUME NEW w \in Workers, Finish(w)
      PROVE  pc'[v] = pc[v] /\ loc'[v] = loc[v]
  BY <1>5, <1>6 DEF Finish, TypeOK, Labels
<1>7. ASSUME NEW w \in Workers, ConfirmReadCart(w), w # v
      PROVE  pc'[v] = pc[v] /\ loc'[v] = loc[v]
  BY <1>7 DEF ConfirmReadCart, Refuse, Goto, TypeOK
<1>8. ASSUME NEW w \in Workers, Prepare(w)
      PROVE  pc'[v] = pc[v] /\ loc'[v] = loc[v]
  BY <1>8, <1>5, <1>6
  DEF Prepare, PrepareReadCart, PrepareReadLines, PrepareSetPrice, PrepareSelect,
      PrepareWrite, QuotesWith, PrepareConflict, TypeOK, Labels
<1>9. ASSUME NEW w \in Workers, Confirm(w), ~ ConfirmReadCart(w)
      PROVE  pc'[v] = pc[v] /\ loc'[v] = loc[v]
  BY <1>9, <1>5, <1>6
  DEF Confirm, ConfirmReadOutcome, ConfirmValidate, ConfirmReadAttempt, ConfirmReadQuote,
      Refuse, ConfirmReject, ConfirmCommit, OrderWrites, ConfirmAbort, TypeOK, Labels
<1>10. CASE UNCHANGED <<pc, loc>>
  BY <1>3, <1>10
<1>. QED
  BY <1>3, <1>4, <1>6, <1>7, <1>8, <1>9, <1>10
  DEF Next, vars, RequestFails, ReplaceSome, AbandonSome, ToggleSome, ReplaceCart,
      AbandonCart, ToggleItem, Tick

LEMMA OrderLinesNext ==
  ASSUME TypeOK, LocalsOK, QuotesOK, OrderedQuoteWasPrepared, CommitLinesOK,
         OrderLinesOK, OrderHasTheQuotedLines, [Next]_vars
  PROVE  OrderLinesOK' /\ OrderHasTheQuotedLines'
<1>0. \A s \in Sessions : cart[s].revision \in Nat /\ cart'[s].revision \in Nat
  <2>1. \A s \in Sessions : cart[s].revision \in Nat
    BY DEF TypeOK, CartRow
  <2>. QED
    BY <2>1, CartStable
<1>1. ASSUME NEW q \in QuoteIds, NEW s \in Sessions, NEW l,
             quote[q].status # "none",
             s = quote[q].session,
             quote[q].revision <= cart[s].revision,
             l = linesAt[s][quote[q].revision]
      PROVE  /\ s = quote'[q].session
             /\ quote'[q].revision <= cart'[s].revision
             /\ l = linesAt'[s][quote'[q].revision]
  <2>1. quote[q].revision \in Nat
    BY DEF TypeOK, QuoteRow
  <2>2. quote'[q].session = s /\ quote'[q].revision = quote[q].revision
    BY <1>1, QuoteStable
  <2>3. quote[q].revision \in 0 .. cart[s].revision
    BY <1>0, <1>1, <2>1
  <2>. QED
    BY <1>0, <1>1, <2>1, <2>2, <2>3, CartStable
<1>2. ASSUME NEW o \in orders
      PROVE  /\ o.session = quote'[o.quote].session
             /\ quote'[o.quote].revision <= cart'[o.session].revision
             /\ o.lines = linesAt'[o.session][quote'[o.quote].revision]
  <2>1. /\ o.quote \in QuoteIds
        /\ o.session \in Sessions
        /\ quote[o.quote].status # "none"
        /\ o.session = quote[o.quote].session
        /\ quote[o.quote].revision <= cart[o.session].revision
        /\ o.lines = linesAt[o.session][quote[o.quote].revision]
    BY DEF TypeOK, OrderRow, OrderedQuoteWasPrepared, OrderLinesOK, OrderHasTheQuotedLines
  <2>. QED
    BY <1>1, <2>1
<1>3. ASSUME NEW w \in Workers, NEW n \in OrderIds, ConfirmCommit(w, n),
             NEW o \in orders' \ orders
      PROVE  /\ o.session = quote'[o.quote].session
             /\ quote'[o.quote].revision <= cart'[o.session].revision
             /\ o.lines = linesAt'[o.session][quote'[o.quote].revision]
  <2>1. /\ o.quote = loc[w].quote
        /\ o.session = loc[w].session
        /\ o.lines = loc[w].lines
    BY <1>3 DEF ConfirmCommit, OrderWrites
  <2>2. /\ loc[w].quote \in QuoteIds
        /\ quote[loc[w].quote].status # "none"
        /\ loc[w].session = quote[loc[w].quote].session
        /\ loc[w].revision = quote[loc[w].quote].revision
        /\ loc[w].session \in Sessions
        /\ loc[w].revision <= cart[loc[w].session].revision
        /\ loc[w].lines = linesAt[loc[w].session][loc[w].revision]
    BY <1>3 DEF ConfirmCommit, OrderWrites, LocalsOK, ConfirmLabels, QuotesOK, CommitLinesOK
  <2>. QED
    BY <1>1, <2>1, <2>2
<1>4. \A o \in orders' : /\ o.session = quote'[o.quote].session
                         /\ quote'[o.quote].revision <= cart'[o.session].revision
                         /\ o.lines = linesAt'[o.session][quote'[o.quote].revision]
  BY <1>2, <1>3, OrderSteps
<1>. QED
  BY <1>4 DEF OrderLinesOK, OrderHasTheQuotedLines

-----------------------------------------------------------------------------
(* The inductive invariant and the theorems.                               *)

LEMMA IInvInit == Init => IInv
<1> SUFFICES ASSUME Init
             PROVE  IInv
  OBVIOUS
<1>1. TypeOK
  BY TypeInit
<1>2. /\ \A w \in Workers : pc[w] = "idle"
      /\ \A q \in QuoteIds : quote[q].status = "none"
      /\ orders = {}
      /\ attempts = {}
      /\ lastPickup = 0
  BY DEF Init, NoQuote
<1>3. CartLinesOK
  <2> SUFFICES ASSUME NEW s \in Sessions
               PROVE  cart[s].lines = linesAt[s][cart[s].revision]
    BY DEF CartLinesOK
  <2>1. cart[s].lines = {} /\ cart[s].revision = 0
    BY DEF Init, NoCart
  <2>2. linesAt[s] = [n \in 0 .. MaxRevision |-> {}]
    BY DEF Init
  <2>3. 0 \in 0 .. MaxRevision
    BY CheckoutAssumption
  <2>. QED
    BY <2>1, <2>2, <2>3
<1>. QED
  BY <1>1, <1>2, <1>3
  DEF IInv, LocalsOK, PrepareLabels, ConfirmLabels, QuotesOK, OrderedQuoteWasPrepared,
      RejectsOK, QuoteLinesOK, PrepareLinesOK, CommitLinesOK, OrderLinesOK,
      OneOrderPerQuote, PickupNumbersAreDense, ConfirmedAttemptHasOrder, OrderIsComplete,
      OneActiveQuote, OrderHasTheQuotedLines

LEMMA IInvNext == IInv /\ [Next]_vars => IInv'
BY TypeNext, LocalsNext, QuotesNext, OrderedQuoteNext, RejectsNext, CartLinesNext,
   QuoteLinesNext, PrepareLinesNext, CommitLinesNext, OrderLinesNext, OneOrderNext,
   PickupNext, ConfirmedAttemptNext, OrderIsCompleteNext, OneActiveNext
DEF IInv

LEMMA Invariant == Spec => []IInv
BY IInvInit, IInvNext, PTL DEF Spec

\* Every table and every thread keeps its type, on both backends.
THEOREM TypeCorrect == Spec => []TypeOK
BY Invariant, PTL DEF IInv

\* However many threads confirm a quote, with the same key or with different
\* ones, at most one Order is created from it (checkout store, confirm).
THEOREM QuoteIsOrderedOnce == Spec => []OneOrderPerQuote
BY Invariant, PTL DEF IInv

\* The pickup sequence has neither gaps nor repetitions, aborted confirmations
\* included (checkout store, _next_pickup_number).
THEOREM PickupNumbersDense == Spec => []PickupNumbersAreDense
BY Invariant, PTL DEF IInv

\* An Order, its consumed quote, its closed cart, its outbox event and its
\* confirmed attempt appear and stay together (checkout store, confirm).
THEOREM OrdersAreComplete == Spec => []OrderIsComplete
BY Invariant, PTL DEF IInv

\* A retry that replays a stored confirmation always finds the Order.
THEOREM ConfirmationsHaveOrders == Spec => []ConfirmedAttemptHasOrder
BY Invariant, PTL DEF IInv

\* An Order holds exactly what the cart held at the quoted revision, even with
\* the READ COMMITTED reads of cart.get and confirm (cart store and checkout store).
THEOREM OrdersHoldTheQuotedLines == Spec => []OrderHasTheQuotedLines
BY Invariant, PTL DEF IInv

\* Both together: an Order is the quote, entire (checkout store, prepare and
\* confirm).
THEOREM OrdersAreTheQuotes == Spec => []OrderIsTheQuote
<1>1. IInv => OrderIsTheQuote BY DEF IInv, OrderIsTheQuote
<1> QED BY <1>1, Invariant, PTL

\* No two quotes of a session are active together (checkout store, prepare).
THEOREM ActiveQuoteIsUnique == Spec => []OneActiveQuote
BY Invariant, PTL DEF IInv

\* No step writes the cart of an Order.
LEMMA OrderedCartStable ==
  ASSUME IInv, [Next]_vars, NEW o \in orders
  PROVE  cart'[o.session] = cart[o.session]
<1>1. /\ o.session \in Sessions
      /\ cart[o.session].status = "closed"
      /\ cart[o.session] \in CartRow
  BY DEF IInv, OrderIsComplete, TypeOK, OrderRow
<1>2. ASSUME NEW w \in Workers, NEW n \in OrderIds, ConfirmCommit(w, n)
      PROVE  cart'[o.session] = cart[o.session]
  <2>1. CASE loc[w].session = o.session
    <3>1. cart'[o.session] = [cart[o.session] EXCEPT !.status = "closed"]
      BY <1>1, <1>2, <2>1 DEF ConfirmCommit, OrderWrites, IInv, TypeOK
    <3>. QED
      BY <1>1, <3>1 DEF CartRow
  <2>2. CASE loc[w].session # o.session
    BY <1>1, <1>2, <2>2 DEF ConfirmCommit, OrderWrites, IInv, TypeOK
  <2>. QED
    BY <2>1, <2>2
<1>3. ASSUME NEW w \in Workers, PrepareReadLines(w)
      PROVE  cart'[o.session] = cart[o.session]
  BY <1>1, <1>3 DEF PrepareReadLines, IInv, TypeOK
<1>4. ASSUME NEW s \in Sessions,
             AbandonCart(s) \/ \E n \in 0 .. MaxRevision, lines \in SUBSET Items :
                                 ReplaceCart(s, n, lines)
      PROVE  cart'[o.session] = cart[o.session]
  BY <1>1, <1>4 DEF AbandonCart, ReplaceCart, IInv, TypeOK
<1>. QED
  BY <1>1, <1>2, <1>3, <1>4, TableSteps
  DEF TableWrite, tables, PrepareWrite, QuotesWith, ConfirmReject

\* Once an Order exists nobody changes the cart behind it: not the kiosk's
\* replace, not the entry flow's abandon, not a second confirmation.
THEOREM OrderedCartsAreFrozen == Spec => OrderedCartIsFrozen
<1>1. IInv /\ [Next]_vars => [\A o \in orders : cart'[o.session] = cart[o.session]]_vars
  BY OrderedCartStable
<1>. QED
  BY <1>1, Invariant, PTL DEF Spec, OrderedCartIsFrozen

-----------------------------------------------------------------------------
(* What BEGIN IMMEDIATE adds: on SQLite a confirmation holds the write lock *)
(* from its first statement to its commit, so that what it read of the      *)
(* quote and of the cart is still true when it writes.                      *)

\* The statements that run inside a transaction after its first one.
TxLabels == {"cart_lines", "quote_write", "quote_read", "cart_read", "reject", "commit"}

\* A thread inside a transaction holds the write lock.
LockHeld == \A w \in Workers : pc[w] \in TxLabels => writer = w

\* What a confirmation read of the quote and of the cart is what they are.
HeldOK(w) ==
  /\ pc[w] \in {"cart_read", "commit"} =>
       quote[loc[w].quote].status = "active" /\ quote[loc[w].quote].order = None
  /\ pc[w] = "commit" =>
       /\ cart[loc[w].session].status = "open"
       /\ cart[loc[w].session].revision = loc[w].revision
  /\ pc[w] = "reject" =>
       /\ quote[loc[w].quote].order = None
       /\ loc[w].result \in Rejections =>
            loc[w].mark # "none" \/ quote[loc[w].quote].status # "active"

ReadsHold == \A w \in Workers : HeldOK(w)

\* A quote with an authoritative rejection is out of use and was not ordered.
RejectedIsSettled ==
  \A a \in attempts : a.type \in Rejections =>
    /\ quote[a.quote].status \notin {"none", "active"}
    /\ OrderOf(a.quote) = {}

\* The inductive invariant on SQLite.
SqliteInv ==
  /\ IInv
  /\ LockHeld
  /\ ReadsHold
  /\ RejectedIsSettled
  /\ OneOrderPerSession
  /\ OrderedCartIsTheQuotedCart

-----------------------------------------------------------------------------
(* The write lock.                                                         *)

\* A thread that is not about to go on with a confirmation keeps still or
\* leaves the labels at which it relies on what it read.
LEMMA ConfirmSteps ==
  ASSUME TypeOK, [Next]_vars, NEW v \in Workers
  PROVE  \/ pc'[v] = pc[v] /\ loc'[v] = loc[v]
         \/ pc'[v] \notin {"cart_read", "reject", "commit"}
         \/ ConfirmReadQuote(v)
         \/ ConfirmReadCart(v)
<1>. DEFINE Goal == \/ pc'[v] = pc[v] /\ loc'[v] = loc[v]
                    \/ pc'[v] \notin {"cart_read", "reject", "commit"}
                    \/ ConfirmReadQuote(v)
                    \/ ConfirmReadCart(v)
<1>1. ASSUME NEW w \in Workers, NEW label \in Labels \ {"cart_read", "reject", "commit"},
             Goto(w, label), \A u \in Workers \ {w} : loc'[u] = loc[u]
      PROVE  Goal
  BY <1>1 DEF Goto, TypeOK
<1>2. ASSUME NEW w \in Workers, Finish(w)
      PROVE  Goal
  BY <1>1, <1>2 DEF Finish, TypeOK, Labels
<1>3. ASSUME NEW w \in Workers, ConfirmReadQuote(w) \/ ConfirmReadCart(w), w # v
      PROVE  pc'[v] = pc[v] /\ loc'[v] = loc[v]
  BY <1>3 DEF ConfirmReadQuote, ConfirmReadCart, Refuse, Finish, Goto, TypeOK
<1>4. ASSUME NEW w \in Workers, Prepare(w)
      PROVE  Goal
  BY <1>4, <1>1, <1>2
  DEF Prepare, PrepareReadCart, PrepareReadLines, PrepareSetPrice, PrepareSelect,
      PrepareWrite, PrepareConflict, TypeOK, Labels
<1>5. ASSUME NEW w \in Workers, Confirm(w)
      PROVE  Goal
  BY <1>5, <1>1, <1>2, <1>3
  DEF Confirm, ConfirmReadOutcome, ConfirmValidate, ConfirmReadAttempt, ConfirmReject,
      ConfirmCommit, ConfirmAbort, TypeOK, Labels
<1>6. CASE UNCHANGED <<pc, loc>>
  BY <1>6
<1>. QED
  BY <1>2, <1>4, <1>5, <1>6
  DEF Next, vars, RequestFails, ReplaceSome, AbandonSome, ToggleSome, ReplaceCart,
      AbandonCart, ToggleItem, Tick

\* Beside the thread in a transaction nobody writes a table.
LEMMA NobodyElseWrites ==
  ASSUME Serialized, LockHeld, [Next]_vars, NEW v \in Workers, pc[v] \in TxLabels
  PROVE  \/ UNCHANGED tables
         \/ PrepareReadLines(v)
         \/ ConfirmReject(v)
         \/ \E q \in QuoteIds : PrepareWrite(v, q)
         \/ \E o \in OrderIds : ConfirmCommit(v, o)
<1>1. writer = v /\ writer # None
  BY CheckoutAssumption DEF LockHeld
<1>2. ~ MayWrite
  BY <1>1 DEF MayWrite
<1>3. ASSUME NEW w \in Workers, pc[w] \in TxLabels
      PROVE  w = v
  BY <1>1, <1>3 DEF LockHeld
<1>4. CASE TableWrite
  BY <1>2, <1>3, <1>4
  DEF TableWrite, PrepareReadLines, ConfirmReject, PrepareWrite, ConfirmCommit,
      ReplaceCart, AbandonCart, TxLabels
<1>. QED
  BY <1>4, TableSteps

LEMMA LockHeldNext ==
  ASSUME Serialized, TypeOK, LockHeld, [Next]_vars
  PROVE  LockHeld'
<1>0. SUFFICES ASSUME NEW v \in Workers, pc'[v] \in TxLabels
               PROVE  writer' = v
  BY DEF LockHeld
<1>n. None \notin Workers
  BY CheckoutAssumption
<1>1. ASSUME pc'[v] = pc[v], writer' = writer
      PROVE  writer' = v
  BY <1>0, <1>1 DEF LockHeld
<1>2. ASSUME NEW w \in Workers, NEW label \in Labels, Goto(w, label), EndTx(w), label \notin TxLabels
      PROVE  writer' = v
  BY <1>0, <1>2 DEF Goto, EndTx, LockHeld, TypeOK
<1>3. ASSUME NEW w \in Workers, NEW label \in Labels, Goto(w, label), UNCHANGED writer,
             label \in TxLabels => pc[w] \in TxLabels
      PROVE  writer' = v
  BY <1>0, <1>3 DEF Goto, LockHeld, TypeOK
<1>4. ASSUME NEW w \in Workers, NEW label \in Labels, Goto(w, label), BeginTx(w)
      PROVE  writer' = v
  <2>1. writer = None /\ writer' = w
    BY <1>4 DEF BeginTx, MayWrite
  <2>2. pc[v] \notin TxLabels
    BY <1>n, <2>1 DEF LockHeld
  <2>. QED
    BY <1>0, <1>4, <2>1, <2>2 DEF Goto, TypeOK
<1>5. ASSUME NEW w \in Workers, Finish(w)
      PROVE  writer' = v
  BY <1>2, <1>5 DEF Finish, Labels, TxLabels
<1>6. ASSUME NEW w \in Workers, Prepare(w)
      PROVE  writer' = v
  BY <1>6, <1>2, <1>3, <1>4, <1>5
  DEF Prepare, PrepareReadCart, PrepareReadLines, PrepareSetPrice, PrepareSelect,
      PrepareWrite, PrepareConflict, Labels, TxLabels
<1>7. ASSUME NEW w \in Workers, ConfirmReadQuote(w) \/ ConfirmReadCart(w)
      PROVE  writer' = v
  BY <1>7, <1>3, <1>5 DEF ConfirmReadQuote, ConfirmReadCart, Refuse, Labels, TxLabels
<1>8. ASSUME NEW w \in Workers, Confirm(w)
      PROVE  writer' = v
  BY <1>8, <1>3, <1>4, <1>5, <1>7
  DEF Confirm, ConfirmReadOutcome, ConfirmValidate, ConfirmReadAttempt, ConfirmReject,
      ConfirmCommit, ConfirmAbort, Labels, TxLabels
<1>9. CASE UNCHANGED <<pc, writer>>
  BY <1>1, <1>9
<1>. QED
  BY <1>5, <1>6, <1>8, <1>9
  DEF Next, vars, RequestFails, ReplaceSome, AbandonSome, ToggleSome, ReplaceCart,
      AbandonCart, ToggleItem, Tick

LEMMA ReadsHoldNext ==
  ASSUME Serialized, TypeOK, LocalsOK, LockHeld, ReadsHold, [Next]_vars
  PROVE  ReadsHold'
<1>0. SUFFICES ASSUME NEW v \in Workers, pc'[v] \in {"cart_read", "reject", "commit"}
               PROVE  HeldOK(v)'
  BY DEF ReadsHold, HeldOK
<1>t. loc[v] \in Locals
  BY DEF TypeOK
<1>1. CASE pc'[v] = pc[v] /\ loc'[v] = loc[v]
  <2>1. pc[v] \in TxLabels
    BY <1>0, <1>1 DEF TxLabels
  <2>2. UNCHANGED <<cart, quote>>
    BY <1>0, <1>1, <2>1, NobodyElseWrites
    DEF tables, PrepareReadLines, ConfirmReject, PrepareWrite, ConfirmCommit, Finish, Goto,
        TypeOK
  <2>3. HeldOK(v)
    BY DEF ReadsHold
  <2>. QED
    BY <1>1, <2>2, <2>3 DEF HeldOK
<1>2. CASE ConfirmReadQuote(v)
  <2>. DEFINE row == quote[loc[v].quote]
  <2>1. UNCHANGED <<cart, quote>> /\ row.order = None
    BY <1>0, <1>2 DEF ConfirmReadQuote, tables, Finish, Goto, TypeOK
  <2>2. CASE row.status # "active" /\ Refuse(v, InactiveResult(row.status), "none")
    <3>1. pc'[v] = "reject" /\ loc'[v].quote = loc[v].quote
      BY <1>t, <2>2 DEF Refuse, Goto, TypeOK, Locals
    <3>. QED
      BY <2>1, <2>2, <3>1 DEF HeldOK
  <2>3. CASE Refuse(v, "quote_expired", "expired")
    <3>1. pc'[v] = "reject" /\ loc'[v].quote = loc[v].quote /\ loc'[v].mark # "none"
      BY <1>t, <2>3 DEF Refuse, Goto, TypeOK, Locals
    <3>. QED
      BY <2>1, <3>1 DEF HeldOK
  <2>4. CASE /\ row.status = "active"
             /\ Goto(v, "cart_read")
             /\ loc' = [loc EXCEPT ![v] = [@ EXCEPT !.session = row.session,
                                                  !.revision = row.revision]]
    <3>1. pc'[v] = "cart_read" /\ loc'[v].quote = loc[v].quote
      BY <1>t, <2>4 DEF Goto, TypeOK, Locals
    <3>. QED
      BY <2>1, <2>4, <3>1 DEF HeldOK
  <2>. QED
    BY <1>0, <1>2, <2>1, <2>2, <2>3, <2>4 DEF ConfirmReadQuote, Finish, Goto, TypeOK
<1>3. CASE ConfirmReadCart(v)
  <2>1. /\ UNCHANGED <<cart, quote>>
        /\ quote[loc[v].quote].status = "active"
        /\ quote[loc[v].quote].order = None
    BY <1>3 DEF ConfirmReadCart, tables, ReadsHold, HeldOK
  <2>2. CASE Refuse(v, "quote_stale", "stale")
    <3>1. pc'[v] = "reject" /\ loc'[v].quote = loc[v].quote /\ loc'[v].mark # "none"
      BY <1>t, <2>2 DEF Refuse, Goto, TypeOK, Locals
    <3>. QED
      BY <2>1, <3>1 DEF HeldOK
  <2>3. CASE Refuse(v, "items_unavailable", "none")
    <3>1. /\ pc'[v] = "reject"
          /\ loc'[v].quote = loc[v].quote
          /\ loc'[v].result = "items_unavailable"
      BY <1>t, <2>3 DEF Refuse, Goto, TypeOK, Locals
    <3>. QED
      BY <2>1, <3>1 DEF HeldOK, Rejections
  <2>4. CASE /\ cart[loc[v].session].status = "open"
             /\ cart[loc[v].session].revision = loc[v].revision
             /\ Goto(v, "commit")
             /\ UNCHANGED loc
    BY <2>1, <2>4 DEF HeldOK, Goto, TypeOK
  <2>. QED
    BY <1>3, <2>2, <2>3, <2>4 DEF ConfirmReadCart
<1>. QED
  BY <1>0, <1>1, <1>2, <1>3, ConfirmSteps

-----------------------------------------------------------------------------
(* Rejections and Orders.                                                  *)

LEMMA RejectedIsSettledNext ==
  ASSUME IInv, ReadsHold, RejectedIsSettled, [Next]_vars
  PROVE  RejectedIsSettled'
<1>. USE DEF IInv
<1>1. ASSUME NEW a \in attempts, a.type \in Rejections
      PROVE  /\ quote'[a.quote].status \notin {"none", "active"}
             /\ \A o \in orders' : o.quote # a.quote
  <2>1. /\ a.quote \in QuoteIds
        /\ quote[a.quote].status \notin {"none", "active"}
        /\ \A o \in orders : o.quote # a.quote
        /\ quote[a.quote] \in QuoteRow
    BY <1>1 DEF TypeOK, AttemptRow, RejectedIsSettled, OrderOf
  <2>2. ASSUME NEW w \in Workers, NEW o \in OrderIds, ConfirmCommit(w, o)
        PROVE  /\ quote'[a.quote] = quote[a.quote]
               /\ \A p \in orders' : p.quote # a.quote
    <3>1. loc[w].quote # a.quote
      BY <2>1, <2>2 DEF ConfirmCommit, ReadsHold, HeldOK
    <3>. QED
      BY <2>1, <2>2, <3>1 DEF ConfirmCommit, OrderWrites, TypeOK
  <2>3. ASSUME NEW w \in Workers, ConfirmReject(w)
        PROVE  quote'[a.quote].status \notin {"none", "active"}
    <3>1. loc[w].mark \in {"none", "expired", "stale"}
      BY DEF TypeOK, Locals
    <3>. QED
      BY <2>1, <2>3, <3>1 DEF ConfirmReject, TypeOK, QuoteRow
  <2>4. ASSUME NEW w \in Workers, NEW q \in QuoteIds, PrepareWrite(w, q)
        PROVE  quote'[a.quote] = quote[a.quote]
    BY <2>1, <2>4 DEF PrepareWrite, QuotesWith, ActiveQuotes
  <2>5. quote'[a.quote].status \notin {"none", "active"}
    BY <2>1, <2>2, <2>3, <2>4, TableSteps
    DEF TableWrite, tables, PrepareReadLines, ReplaceCart, AbandonCart
  <2>. QED
    BY <2>1, <2>2, <2>5, OrderSteps
<1>2. ASSUME NEW w \in Workers, ConfirmReject(w), NEW a \in attempts' \ attempts,
             a.type \in Rejections
      PROVE  /\ quote'[a.quote].status \notin {"none", "active"}
             /\ \A o \in orders' : o.quote # a.quote
  <2>1. a.quote = loc[w].quote /\ a.type = loc[w].result /\ orders' = orders
    BY <1>2 DEF ConfirmReject
  <2>2. /\ loc[w].quote \in QuoteIds
        /\ quote[loc[w].quote].status # "none"
        /\ quote[loc[w].quote].order = None
        /\ loc[w].mark # "none" \/ quote[loc[w].quote].status # "active"
    BY <1>2, <2>1 DEF ConfirmReject, ReadsHold, HeldOK, LocalsOK, ConfirmLabels
  <2>3. loc[w].mark \in {"none", "expired", "stale"} /\ quote[loc[w].quote] \in QuoteRow
    BY <2>2 DEF TypeOK, Locals
  <2>4. quote'[loc[w].quote].status \notin {"none", "active"}
    BY <1>2, <2>2, <2>3 DEF ConfirmReject, TypeOK, QuoteRow
  <2>5. \A o \in orders : quote[o.quote].order \in OrderIds
    BY DEF OrderIsComplete, TypeOK, OrderRow
  <2>6. None \notin OrderIds
    BY CheckoutAssumption
  <2>. QED
    BY <2>1, <2>2, <2>4, <2>5, <2>6
<1>3. ASSUME NEW w \in Workers, NEW n \in OrderIds, ConfirmCommit(w, n),
             NEW a \in attempts' \ attempts
      PROVE  a.type \notin Rejections
  <2>1. a.type = "confirmed"
    BY <1>3 DEF ConfirmCommit, OrderWrites
  <2>. QED
    BY <2>1 DEF Rejections
<1>4. \A a \in attempts' : a.type \in Rejections =>
        /\ quote'[a.quote].status \notin {"none", "active"}
        /\ \A o \in orders' : o.quote # a.quote
  BY <1>1, <1>2, <1>3, TableSteps
  DEF TableWrite, tables, PrepareReadLines, PrepareWrite, ReplaceCart, AbandonCart
<1>. QED
  BY <1>4 DEF RejectedIsSettled, OrderOf

LEMMA OneOrderPerSessionNext ==
  ASSUME IInv, ReadsHold, OneOrderPerSession, [Next]_vars
  PROVE  OneOrderPerSession'
<1>1. ASSUME NEW w \in Workers, NEW n \in OrderIds, ConfirmCommit(w, n)
      PROVE  OneOrderPerSession'
  <2>1. \A o \in orders : o.session # loc[w].session
    BY <1>1 DEF ConfirmCommit, ReadsHold, HeldOK, IInv, OrderIsComplete
  <2>. QED
    BY <1>1, <2>1 DEF ConfirmCommit, OrderWrites, OneOrderPerSession
<1>. QED
  BY <1>1, OrderSteps DEF OneOrderPerSession

LEMMA OrderedCartIsTheQuotedCartNext ==
  ASSUME IInv, ReadsHold, OrderedCartIsTheQuotedCart, [Next]_vars
  PROVE  OrderedCartIsTheQuotedCart'
<1>1. ASSUME NEW o \in orders
      PROVE  cart'[o.session].revision = quote'[o.quote].revision
  <2>1. o.quote \in QuoteIds /\ quote[o.quote].status # "none"
    BY DEF IInv, TypeOK, OrderRow, OrderedQuoteWasPrepared
  <2>2. quote'[o.quote].revision = quote[o.quote].revision
    BY <2>1, QuoteStable DEF IInv
  <2>. QED
    BY <2>2, OrderedCartStable DEF OrderedCartIsTheQuotedCart
<1>2. ASSUME NEW w \in Workers, NEW n \in OrderIds, ConfirmCommit(w, n),
             NEW o \in orders' \ orders
      PROVE  cart'[o.session].revision = quote'[o.quote].revision
  <2>1. o.quote = loc[w].quote /\ o.session = loc[w].session
    BY <1>2 DEF ConfirmCommit, OrderWrites
  <2>2. /\ loc[w].quote \in QuoteIds
        /\ quote[loc[w].quote].status # "none"
        /\ loc[w].session = quote[loc[w].quote].session
        /\ loc[w].revision = quote[loc[w].quote].revision
    BY <1>2 DEF ConfirmCommit, IInv, LocalsOK, ConfirmLabels
  <2>3. loc[w].session \in Sessions /\ cart[loc[w].session].revision = loc[w].revision
    BY <1>2, <2>2 DEF ConfirmCommit, IInv, QuotesOK, ReadsHold, HeldOK
  <2>4. cart'[loc[w].session].revision = cart[loc[w].session].revision
    BY <1>2, <2>3 DEF ConfirmCommit, OrderWrites, IInv, TypeOK, CartRow
  <2>5. quote'[loc[w].quote].revision = quote[loc[w].quote].revision
    BY <2>2, QuoteStable DEF IInv
  <2>. QED
    BY <2>1, <2>2, <2>3, <2>4, <2>5
<1>. QED
  BY <1>1, <1>2, OrderSteps DEF OrderedCartIsTheQuotedCart

-----------------------------------------------------------------------------
(* The theorems.                                                           *)

LEMMA SqliteInit == Init => SqliteInv
BY IInvInit
DEF SqliteInv, Init, LockHeld, ReadsHold, HeldOK, RejectedIsSettled, OneOrderPerSession,
    OrderedCartIsTheQuotedCart, TxLabels

LEMMA SqliteNext ==
  ASSUME Serialized, SqliteInv, [Next]_vars
  PROVE  SqliteInv'
BY IInvNext, LockHeldNext, ReadsHoldNext, RejectedIsSettledNext, OneOrderPerSessionNext,
   OrderedCartIsTheQuotedCartNext
DEF SqliteInv, IInv

LEMMA SqliteInvariant ==
  ASSUME Serialized
  PROVE  Spec => []SqliteInv
<1>1. SqliteInv /\ [Next]_vars => SqliteInv'
  BY SqliteNext
<1>. QED
  BY <1>1, SqliteInit, PTL DEF Spec

\* On SQLite a quote whose rejection was stored never becomes an Order: the
\* decision and the write are one transaction (checkout store, confirm).
THEOREM RejectionsAreFinal ==
  ASSUME Serialized
  PROVE  Spec => []RejectionIsFinal
<1>1. SqliteInv => RejectionIsFinal
  BY DEF SqliteInv, RejectedIsSettled, RejectionIsFinal
<1>. QED
  BY <1>1, SqliteInvariant, PTL

\* On SQLite a cart is ordered at most once, whatever quotes exist of it
\* (checkout store, confirm: an Order is only made of an open cart).
THEOREM SessionsOrderOnce ==
  ASSUME Serialized
  PROVE  Spec => []OneOrderPerSession
<1>1. SqliteInv => OneOrderPerSession
  BY DEF SqliteInv
<1>. QED
  BY <1>1, SqliteInvariant, PTL

\* On SQLite the cart that an Order closes is still at the revision of its
\* quote: the customer changed nothing after seeing the price.
THEOREM OrdersCloseTheQuotedCart ==
  ASSUME Serialized
  PROVE  Spec => []OrderedCartIsTheQuotedCart
<1>1. SqliteInv => OrderedCartIsTheQuotedCart
  BY DEF SqliteInv
<1>. QED
  BY <1>1, SqliteInvariant, PTL

\* An Order is what was quoted and has everything that belongs to it; on SQLite
\* a stored rejection is final and a session has one Order, of the cart as it
\* was quoted (checkout store, prepare and confirm).
THEOREM OrdersAreAsQuoted == Spec => []OrdersAsQuoted
<1>1. CASE Serialized
  <2>1. SqliteInv => OrdersAsQuoted
    <3>1. SqliteInv => OrderIsTheQuote
      BY DEF SqliteInv, IInv, OrderIsTheQuote
    <3>. QED
      BY <3>1 DEF SqliteInv, RejectedIsSettled, RejectionIsFinal, OrdersAsQuoted
  <2>2. Spec => []SqliteInv
    BY <1>1, SqliteInvariant
  <2>. QED
    BY <2>1, <2>2, PTL
<1>2. CASE ~ Serialized
  <2>1. OrderIsTheQuote => OrdersAsQuoted
    BY <1>2 DEF OrdersAsQuoted
  <2>. QED
    BY <2>1, OrdersAreTheQuotes, PTL
<1>. QED
  BY <1>1, <1>2

=============================================================================
