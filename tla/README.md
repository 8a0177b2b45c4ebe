# Formal models of the Project_2026 kiosk

The repository holds an ordering kiosk: a browser front end, a Python backend
(`src/UI_API/backend`, FastAPI over SQLite or PostgreSQL), worker processes and
a few external models. This directory holds TLA+ models of the parts of the
backend where the order of events decides whether the program is right, the
instances that TLC checks, and theorems that TLAPS proves for every instance.

Run them from this directory:

    tlc -workers 2 -config Checkout.cfg MCCheckout.tla
    tlapm CheckoutProofs.tla

`PROJECT.json` ties every definition to the lines it translates, every property
to a run and to a mutant of the code it rules out, and every hazard to the
properties that watch it. Paths below are relative to `src/UI_API/backend`
unless they start with `docs/` or `frontend/`.

## 1. Inventory

### The parts and how they meet

    browser of the kiosk: cart and checkout, voice, recommendations
      |                   (KioskCheckout, KioskVoice, KioskPush)
      |
      |------- start/command ----> ordering entry ---- get/close ----> cart
      |                                                                 ^
      |------- prepare/confirm --> checkout confirmation ---------------|
      |                                 | checkout_outbox
      |                                 v
      |                            outbox dispatch ----> members, attribution
      |
      |------- post/replay ------> voice turn ---> voice evidence ---> optimization lab
                                        |                                 | drafts
                                        v                                 v
                                   session memory    retrieval check  knowledge publication
    admin ------------------------------------------------------------>   | jobs
                                                                          v
    run_worker.py ---- claim/complete/fail ----> worker jobs <--- push copy batches
              \------- claim/ack --------------> order outbox ---> analytics

Everything shares one database through `modules/runtime_persistence`. On SQLite
a write transaction begins with `BEGIN IMMEDIATE`, so at most one is open at a
time; on PostgreSQL transactions are `READ COMMITTED` and a plain `SELECT` locks
nothing. Much of what is true of the program depends on which of the two it
runs on, and several modules have a constant for it. The pattern that recurs in
the modules around the core is *read the whole record in one transaction, decide,
write the whole record back in another*: what such code promises when two
requests overlap is what most properties of the back office are about.

| Component | State | Operations | What is hard | What makes it correct |
|---|---|---|---|---|
| cart (`modules/cart`) | `ordering_carts`, `ordering_cart_lines` | get (inserts a missing row), replace, close | revision and lines are read by two statements; edits race with a confirmation | the lines of a revision never change; a closed cart stays closed |
| checkout confirmation (`modules/checkout_confirmation`) | quotes, Orders, attempts, pickup sequence, outbox | prepare, confirm | two confirmations with different keys; retries of a key; edits and expiry between prepare and confirm; rollback after a number was taken | one Order per quote, complete, with the quoted lines; outcomes of a key are final |
| kiosk cart and checkout (`frontend/kiosk/app.js`, `cart.js`) | cart, quote, screens, pending handlers | edit, price, press checkout, pay, cancel, home, reload | handlers overlap; prices overtake one another; a confirmation is answered late or never | the price shown is of the cart; what the customer is told of the order is true |
| prices (`_pricing_service.py`, `modules/promotion/application.py`, `frontend/kiosk`) | menu prices, offers, cart rows, menu | quote, project, add, sign in, edit | two quotes of a cart at different times; rows and menu remember offers | what is ordered costs no more than was shown; what the menu shows is what a cart gets |
| kiosk voice (`frontend/kiosk/voice.js`, `voiceTurnProtocol.js`) | detector, turn, stream, draft | listen, post, reconnect, answer or cancel a draft | the payment screen or the start screen opens between any two awaits; responses break after any line | a turn is heard whole; a draft belongs to the customer in front |
| kiosk recommendations (`aiRecommendationController`) | timer, request in flight, seen items, candidates, the bar | start, stop, refresh, hide, time | requests outlive the screen and the order they were asked in | the bar shows what it should where it should, and nothing of another customer |
| checkout outbox (`dispatch_outbox`) | `checkout_outbox`, member record, session binding, attributions | claim a batch, deliver, acknowledge, fail | overlapping dispatches, leases, a consumer of two transactions, crashes | each event is consumed before it counts as published, and is settled once |
| ordering entry (`modules/ordering_entry`) | flows, sessions, events, and the cart | start, command | reloads and double clicks; a cart made and closed in transactions of their own | one active flow per device; the log replays; sessions and carts follow the flow |
| worker jobs (`modules/operations/_worker.py`, `repositories/worker_job_repository.py`) | `background_jobs` | enqueue, claim, complete, fail, cancel | late reports after the lease, crashes, backoff, cancellation of a running job | every job is settled, once if handlers are timely |
| voice turn (`modules/voice_turn`, `routes/voice_routes.py`) | `voice_turns`, `voice_turn_events`, evidence outbox, session memory | accept, run, replay, clean up | a task and replays run one turn; services fail; the process dies between phases | one terminal event, a journal that agrees with the row, work that is not redone |
| voice evidence (`modules/voice_evidence`) | evidence outbox, projections, backfill marker | enqueue, claim, project, backfill, retention | claims without a lease, projection only at startup, a backfill that runs once | what is called ready or completed misses nothing it should have |
| order outbox (`services/outbox_delivery_router.py`) | `order_outbox`, analytics sink | emit, claim one, deliver, acknowledge, fail | a crash between the sink and the acknowledgement; an unconditional failure report | never both published and dead |
| knowledge publication (`modules/knowledge_publication`) | items, versions, attempts, pointer, artifacts, retirements | draft, request, run, retry, swap, clean up, retire, purge | jobs run twice; enqueue fails after it worked; retention races with a retry | the pointer, the status of the versions and the index tell the same |
| optimization lab (`modules/optimization_lab`) | candidates | derive, edit, abandon, confirm | check-then-act across two components and two transactions | a candidate is applied once, as it was accepted |
| retrieval check (`modules/retrieval_check`) | configurations, checks | publish, check, confirm, clean up | a check takes seconds between two readings of what is published | ready means that what is published was checked |
| push copy batches | batch rows with counters | start, record an item, finish | redelivery starts at the first item; two deliveries at once | an outcome that some item earned |
| campaigns (`modules/promotion`) | campaign versions, projection, audit | draft, revise, transition, publish | publish is several transactions; projections out of order | a lawful history, and what is on air is what it says |
| device and admin identity (`modules/identity`) | device credentials and sessions, admin sessions | create, authenticate, rotate, revoke | a session is created from a credential read earlier | a revocation holds |
| members (`modules/member`) | member records, session cache | register, bind, finalize, clear, consent, erase | lost updates, a cache refilled behind a logout | nothing is stored for a number that never consented; an erased row stays erased |
| catalog (`services/menu_catalog_service.py`) | menu items, images | seed, create, update, upload, delete | objects in three places; whole-row updates | an item refers to an image that was stored |
| language model gateway (`services/llm_gateway_service.py`) | requests, the queue and threads of a shared pool | generate, time out, retry, fall back | calls outlive the wait for them; callers must notice a failed answer | an answer is the request's own, from a provider that may see it |
| runtime persistence | connection pool | acquire, lease, release, close | close races with release; opening fails | the slots are counted |
| startup (`bootstrap/startup.py`) | — | clean up, backfill, project, dispatch | they run beside one another | evidence is taken before its turn is deleted |
| recommendation, emotion, analytics | statistics, event files | score, record | files rewritten as a whole | — |
| realtime, Redis limits | subscribers, counters | broadcast, count | `INCR` and `EXPIRE` are two calls | a limit ends |
| other front ends, tools, deployment, emotion model | — | — | — | environment of the backend, or outside the program's own logic |

`PROJECT.json` lists each of these with its files and status, and the hazards
with the lines where they bite.

### What is modelled

| Module | Component | Extends / instantiates |
|---|---|---|
| `Checkout` | cart and checkout confirmation | — |
| `CheckoutOutbox` | outbox dispatch and its consumer | — |
| `EntryFlow` | ordering entry with session and cart | — |
| `KioskCheckout`, `KioskVoice`, `KioskPush` | the browser of a kiosk | — |
| `WorkerJobs` | durable jobs and the worker loop | implements `JobLedger` |
| `JobLedger` | what the queue promises whoever enqueues | abstract |
| `VoiceTurn` | voice turns, their tasks and replays | implements `TurnStream` |
| `TurnStream` | what `frontend/kiosk/voiceTurnProtocol.js` demands of the events of a turn | abstract |
| `KnowledgePublication` | one item of the knowledge base with its versions, attempts and index documents | implements `KnowledgeServing` |
| `KnowledgeServing` | what a store is promised about the version that retrieval serves | abstract |
| `OptimizationLab`, `VoiceEvidence`, `OrderOutbox`, `PushCopyBatch`, `RetrievalCheck`, `Campaigns`, `Identity`, `Members`, `Catalog`, `ConnectionPool`, `LlmGateway` | the component of that name | — |
| `CheckoutProofs`, `EntryFlowProofs`, `KnowledgePublicationProofs` | theorems about one component | extend it and `TLAPS` |
| `BackendProofs` | theorems about both backends side by side | extends `MCCheckout` and `CheckoutProofs`, and instantiates the latter for PostgreSQL |
| `KioskProofs` | theorems about `KioskCheckout`, `KioskVoice`, `KioskPush`, `CartPricing`, and about all of a kiosk | extends `MCKiosk` and `EntryFlowProofs` |
| `SettlementProofs` | theorems about `WorkerJobs`, `CheckoutOutbox`, `VoiceTurn` | extends `MCSettlement` |
| `DeliveryProofs` | theorems about `ConnectionPool`, `LlmGateway`, `OrderOutbox`, `PushCopyBatch` | extends the four |
| `BackOfficeProofs` | theorems about `Members`, `Identity`, `Catalog`, `Campaigns`, `VoiceEvidence`, `OptimizationLab`, `RetrievalCheck`, and about all of the back office | extends `MCBackOffice` and `DeliveryProofs` |
| `MCBackOffice`, `MCSettlement` | several components in one run | extend them: what the run checks is what the theorems state |
| `MCKiosk` | the kiosk in one run | extends the five |
| `MCCheckout` | both backends in one run | extends `Checkout` (SQLite) and instantiates it (PostgreSQL) |
| other `MC…` | sets and symmetry for TLC | extend their component |

Conventions. A table is a function from ids to rows, or a set of rows when rows
are only inserted. A thread has a program counter and a record of locals; one
action is one SQL statement where interleaving at statements matters
(`Checkout`, `EntryFlow`, `VoiceTurn`), and one transaction where the code
locks its row at the start or reads and writes in one statement. In the
browser an action is what runs between two awaits. Clocks are kept as
the comparisons the code makes: `ready` for `available_at <= now`, `lease` for
`locked_until` being null, in the future or in the past. A definition that
begins with the comment "Mutant of" is not part of any specification: it is the
plausible mistake that a property is shown to catch.

`MCBackOffice`, `MCKiosk` and `MCSettlement` check components that share no state in one run,
and `MCCheckout` two backends of one. A
variable `active` chooses one of them in the initial state, and only its
actions are taken, so the reachable states are the sum of those of the
components and not their product. A property of an inactive component holds of
its initial state; no property relates two of them.

## 2. The modules and their code

### Checkout

`cart`, `quote`, `orders`, `attempts`, `lastPickup` and `outbox` are the tables
of `modules/cart/sqlite_store.py` and `modules/checkout_confirmation/sqlite_store.py`;
`loc` and `pc` are a request thread between two statements; `linesAt` is a
history variable that remembers what each revision of a cart held.

| Actions | Code |
|---|---|
| `ReplaceCart`, `AbandonCart` | `CartModule.replace`, `close` (one locked transaction each) |
| `PrepareReadCart`, `PrepareReadLines` | `SQLiteCartStore.get`: the row, then its lines, inserting a missing row |
| `PrepareSetPrice`, `PrepareSelect`, `PrepareWrite`, `PrepareConflict` | pricing, then `prepare` of the store: reuse, or supersede and insert |
| `ConfirmReadOutcome`, `ConfirmValidate` | the reads `CheckoutModule.confirm` makes before the transaction |
| `ConfirmReadAttempt`, `ConfirmReadQuote`, `ConfirmReadCart` | the reads inside it |
| `ConfirmReject`, `ConfirmCommit`, `ConfirmAbort` | its ends: a stored rejection, six writes, or a rollback by a constraint |
| `RequestFails`, `ToggleItem`, `Tick` | broken requests, the catalog, the clock |

`Serialized` chooses the backend. The writes of a transaction take effect
together in its last step. That is exact for rows written by primary key: the
row locks last until the commit, and no two of these transactions lock rows in
opposite orders. `EventInserts = FALSE` is a freshly created SQLite schema, where
the outbox INSERT of a confirmation violates a NOT NULL column.

A line of a cart is an item: quantities, options and amounts are data that no
property of this module tells apart. A price is the set of lines it was
computed from; how it is computed is the subject of `CartPricing`.

### CartPricing

`base`, `rules` and `running` are what staff decides: the menu's prices, what
each offer says (its price, priority, the items it is on, the items it requires,
whether it is for members) and which offers are on. `Eligible`, `SelectOffer` and
`Project` are the three functions of `modules/promotion/application.py`,
`Accepts` and `Charged` what `price_checkout_cart` makes of them. The other
variables are the kiosk in front: `rows` is the cart with the offer each row
names (`applied_offer_id`), `quote` the quote of the cart with its unit prices,
`menu` the projection the menu shows, `menuAsked` the projections under way,
`banners` the offers loaded once for a page.

Both quotes of a cart, the one the kiosk shows and the Checkout Quote that is
ordered, come from `price_checkout_cart`, at different times, and the second
from rows into which the first has written the offers it selected
(`applyServerQuote`). An offer that a row names and that does not apply refuses
the whole cart; one that no row names is left out silently. `NoDearerThanShown`
says what these rules give the customer, and `MenuKeepsItsWord` that the offers
the menu puts into rows do not get the cart refused.

A quote is asked and answered in one step, since `KioskCheckout` shows that
answers to an earlier cart are dropped; the menu's projections, which have no such
guard, are two. Quantities multiply and options add to what is modelled.

### CheckoutOutbox

`outbox` is `checkout_outbox`; `thread` is a `dispatch_outbox` call with the rest
of its batch; `spawned` counts background tasks that have not started; `bound`,
`history` and `attributed` are what the consumer (`runtime.py`,
`member/_member_service.py` `finalize_checkout`) reads and writes: the session
binding, the number of times the order is in the member's records, the touches.
`Credit` and `Unbind` are two actions because they are two transactions; an
exception between them is counted in the history variable `torn`.

`Punctual = TRUE` says that a dispatch ends before its lease does.

Events belong to different members here. Two requests of one member at the same
time overwrite one another; that is the subject of `Members`.

### EntryFlow

`flow`, `session` and `events` are the three tables, `cart` the status of the
session's cart. `Start`/`StartInsert`/`StartConflict` are `start`. A command is
looked at (`Command`), initialises the menu if it is `menu_initialized` (`Boot`,
a transaction of the cart), is read again in the transaction (`Select`,
`RevisionConflict`) and commits (`CommandCommit`), or is stopped by the primary
key of the events (`CommandConflict`); an abandon then closes the cart
(`CloseCart`). The transition table `Legal` is the one of the code.
The module has the PostgreSQL interleavings. `BEGIN IMMEDIATE` only removes
behaviours (a transaction's read and its commit become adjacent), so the
safety properties carry over to SQLite.

### KioskCheckout

The browser between the cart and the completion screen. JavaScript runs one
handler at a time up to its next await, so an action is what runs between two
awaits, and the handlers that are under way are data: `press[p]` is a run of
`checkoutBtn.onclick`, `pay[w]` a run of `finishOrder`, `priceAsked` the price
requests, `timer` the 120 ms debounce. `carts`, `quotes` and `arriving` are the
server as the transactions of `Checkout` leave it; one transaction is one step here.

| Actions | Code |
|---|---|
| `Edit`, `CartQuoteTimerFires`, `PriceArrives` | `cartManager` and `refreshCartQuote` with its sequence check |
| `Press`, `GetCart`, `ReplaceCart`, `Prepare`, `PrepareArrives`, `PressFails` | the checkout button and its three requests |
| `CounterPay`, `GuidePay`, `Confirm`, `ConfirmationArrives` | the payment buttons, `finishOrder`, `writeCheckoutLog` |
| `ConnectionBreaks`, `Poll`, `GiveUp` | the unknown outcome and its polling |
| `Back`, `Cancel`, `GuideCancel`, `GuideClose`, `Home`, `BeginSession`, `Reload` | the ways out and in |

`Timeouts = FALSE` leaves out confirmations that outlive the client's own 15 s
(the run `KioskTimesOut` has them), `LeavesCheckout = FALSE` the customer who goes home
while a checkout is prepared (section 3).

### KioskVoice

`mic` is the detector with its flags, `stream` the one run of
`submitVoiceSegment` with its request, cursor, protocol state and reconnects,
`journal` the turn's events on the server, a well-formed stream as `VoiceTurn`
implements it on SQLite; `draft` the order draft on the screen. A response can break after any
line (`ResponseBreaks`), replays resume at `ReplayFrom`, and the payment screen
(`OpenPayment`), the completion (`CompleteOrder`), the way home (`LeaveForHome`) and a
reload come between any two awaits.

### KioskPush

`push` is the closure of `aiRecommendationController`: its timer, the flag of a
request in flight, the current item, the items seen, the candidates fetched in
advance, and the bar. `ui` is what the eligibility of the bar reads from the
page, `due` the starts that wait for their 600 ms, `net` the requests that are
awaited. A seen item carries the order it was asked for, which the code does not
know. `Fetch`, `StartController`, `Stop`, `Sync`, `Hide` and `PrefetchNext` are the
functions of the controller; each handler of `app.js` that calls one or more of them is
an action (`showPaymentScreen` calls three). `LeavesRequest = FALSE` lets a customer go
home only when nothing is awaited (section 3). The features are on, and the menu
does not change.

### WorkerJobs and JobLedger

`jobs` is `background_jobs`; `worker` is `run_worker.py` between claim, handler
and report. The store's operations are single statements or run under one lock,
and are single actions. `Timely` is the set of the jobs whose handler does not
outlive its visibility timeout, `Cancellable` the set of those that operators
cancel. `handled`, `fatal` and `retries` are history variables.

`JobLedger` is the promise of the queue: a job stays open until it has one
outcome, which is never revised, and every open job gets one. `WorkerJobs`
implements it for the jobs that are timely and not cancelled
(`ImplementsLedger`). For the others it does not, since `complete_job` and
`fail_job` update by id alone.

The attempt budget is read when a failure is reported, never at a claim: a job
whose worker dies every time is claimed without end. `RetriesAreBounded`
therefore counts what is put back after a reported failure.

### VoiceTurn and TurnStream

`turn` and `journal` are `voice_turns` and `voice_turn_events`; `enqueued` is the
evidence row of a turn; `memory` is `session_db`, which a crash clears. A run
(`run[w]`) is `VoiceTurnModule.run` called by a task (`Spawn`, up to `Attempts`
times) or by a replay (`Replay`, once). It reads the turn (`Get`), calls the
service of its phase (`Answer`, `RetryPhase`, `Fail`) and commits a transition:
`Check` and `CheckRefused` are the status check, `Write` the UPDATE and the
event, `Reread` the row as `transition` returns it from another transaction.
`Locking` is TRUE on SQLite. `Remember` and `EnqueueEvidence` follow the commit and can
be lost (`RunRaises`, `ServerDies`). `Expire` is retention.

`TurnStream` is the consumer's side: events are appended, nothing follows a
terminal event, and a stream is dropped only after its end.

Speech, menu and draft validation are data: a service answers with a text or
fails, transiently or for good. A post that is cancelled between `accept` and
the creation of its task is modelled (`RunRaises` at `spawn`). Nothing ends such
a turn, because the kiosk replays only a turn of which it has read an event, so
`RunTurnEnds` speaks of turns that a run has read.

### KnowledgePublication and KnowledgeServing

One item of the knowledge base. `rev`, `status`, `attempt`, `pointer` and
`retiring` are its tables; an attempt is named by its version because a later
request resumes it. `docs` is the index: a document's id is made of the attempt,
so building again writes the same documents, and what matters is whose content
they hold. `admin`, `run` and `sweep` are `request_publication`/`retry`/`delete`,
`run_attempt` and the retention sweep between two transactions; `job` is the
row in the worker's queue. Every one of them can die (`RequestDies`,
`WorkerDies`, `SweepDies`) or meet a failing service.

`Prompt` says that nobody overtakes a retry, a failed enqueue or a sweep, three
places where the code checks and then acts without a guard; `Lossy` that
enqueueing can raise although the job is stored; `Timely` that a job has one run
at a time; `Torn` that a sweep can stop between deleting an artifact's documents and
clearing the reference to it. `OnSqlite` chooses the backend. An operation of the store is
one transaction, and on SQLite, where it begins with `BEGIN IMMEDIATE`, one action.
`PostgresPublicationStore` runs the same statements without a lock. With `OnSqlite = FALSE`
the two operations that decide from what they read and then write without a condition,
`begin_batch` (`RequestPublication`, resting at `batch`) and `begin_retirement`
(`BeginRetirement`, keeping the version it read), are two actions each; the rest stays whole,
so that this is a part of what PostgreSQL lets happen. It is there to show that the hypothesis
is needed (section 3), and the run has TRUE. `KnowledgeServing` is what a store is promised: retrieval serves one
version, a newer one takes over in one step, nothing older comes back
(`ImplementsServing`; the mapping reads `live` from the pointer and the documents).

### The back office

The remaining modules have one pattern: a request reads a record in one
transaction and writes it in another, and its record of locals is what it read.

| Module | State | Actions | Left out, and constants |
|---|---|---|---|
| `OptimizationLab` | candidates, revision of the item they update | `Simulate`, `CreateCandidate`, `OpenCandidate`, `SaveEdit`, `SaveAbandon`, `ConfirmCandidate` to `RecordConfirmed` | the evaluation of a content is an arbitrary verdict; `OnSqlite`: `revise_draft` compares the revision and writes in one step, on PostgreSQL it rests in between |
| `Members` | one phone number and its records by id | `ReadMember`, `Register`, `ReportOrder`, `ReadToErase`, then `ReadPreferences` and `ReadOrders` on another connection, then `Upsert` or `Anonymize` | sessions; `MEMBER_IDENTITY_READ_MODE = legacy` |
| `Campaigns` | versions of one campaign, what is on air | `Revise`, `PublishCampaign`, `Transition`, then `Append_`, `Project`, `NextTransition`, `Abort` | `Overtaking`: another version can be appended between a version and its projection. A request can end between the two in any case (`missed`) |
| `Identity` | device credentials, device and admin sessions | `Issue`, `RotateCredential`, `RevokeCredential`, `ReadCredential`/`InsertSession`, `Login`, `Logout`, `ReadLogin`/`RotateLogin`, `TimePasses` | roles and permissions |
| `RetrievalCheck` | index and configuration, checks | `PublishConfiguration`, `DeleteConfiguration`, `Execute`/`Retrieve`/`Judge`/`StoreCheck`, `ConfirmCheck`/`MarkConfirmed`, `Expire`, `CleanUpExpired` | `Reused`: an identity can come back for something else, be it by a publication and a retirement, or by two publications of the configuration that overlap and take one version |
| `VoiceEvidence` | turns, evidence outbox, evidence, backfill marker, starting processes | `EnqueueTerminal`, `BeginBackfill` to `CompleteBackfill`, `ClaimRead`/`ClaimWrite`, `ProjectTurn`, `MarkProjected`, `MarkProjectionFailed`, `StopProcess` | `Immediate`: SQLite's lock before the first read |
| `OrderOutbox` | `order_outbox`, analytics sink, deliveries | `Emit`, `Claim`, `SinkCheck`/`SinkInsert`, `MarkPublished`, `MarkFailed`, `Backoff`, `LeaseLapses` | `Lapsing`: a lease can lapse under a working worker |
| `PushCopyBatch` | batches with their counters, deliveries of their job | `StartBatch`/`CreateBatch`/`EnqueueBatch`, `MarkRunning`, `ItemFails`, `SaveCopy`, `CountSuccess`, `ReadCounts`/`FinishBatch`, `Report` | `Overlap`: a job can be delivered while it runs |
| `Catalog` | items; bytes, metadata file and row of an object | `SeedCheck`/`SeedWrite`, `CreateItem`, `ReadItem`/`UpsertItem`, `Upload` to `ReferToImage`, `DeleteObject` to `MarkRow` | encryption, links; what a client writes as an image is an object it was given, an id of its own, or none |
| `LlmGateway` | requests, the pool's queue and threads | `Generate`, `Submit`, `Start`, `Returns`, `TimesOut`, `Receive` | what a model says; streaming and the diagnostic prompt, which ask one provider |
| `ConnectionPool` | slots, open connections, the queue, the borrowing threads | `Acquire`, `TakeSlot`, `Open`, `OpenFails`, `Lease`, `Release`, `PutBack`, `Close`, `Drain` | `warm` |

## 3. What the runs check

| Run | Instance | States | What it shows |
|---|---|---|---|
| `Checkout` | `Checkout` on PostgreSQL: 1 session, 1 item, 2 quotes, 2 Orders, 2 keys, 2 threads, 2 revisions, 2 clock values; on SQLite: the same with 3 revisions | 1.7 million | on either backend an Order is complete and has the quoted lines; `BEGIN IMMEDIATE` adds that rejections are final, one Order per session, the ordered cart is the quoted one |
| `CheckoutPgRejection` | PostgreSQL | violation | a rejection is stored for a quote that has an Order |
| `CheckoutShowsOldPrice` | 1 item, 1 offer, staff raises a price | violation | an order is dearer than the price the customer saw |
| `Settlement` | `WorkerJobs`: 2 jobs, 2 workers, 2 attempts, 2 crashes; one handler is timely, the other may outlive its lease and be cancelled. `CheckoutOutbox`: 2 events (one of a member), 2 threads, 2 attempts, 1 fault. `VoiceTurn` on SQLite: 1 turn, 2 texts, 2 threads, 3 attempts, 2 faults | 124 000 | exclusive leases and the ledger for the timely job, an end for both; a credit beyond the first is explained by a torn delivery, every event settles; the journal is the stream the kiosk expects and tells what row and evidence tell, work is kept, a run ends the turn |
| `Kiosk` | `EntryFlow`: 1 device, 2 flows, 2 sessions, 1 member, 2 threads, 4 revisions, dying requests. `KioskCheckout`: 2 carts, 3 prices, 2 quotes, 2 presses, 2 payments. `KioskVoice`: 2 turns of 3 events, 3 reconnects. `KioskPush`: 3 items, 2 requests in flight, 2 orders. `CartPricing`: 2 items, 2 offers with 135 sets of rules, 1 change by staff, 1 projection under way | 2.8 million | one active flow, a log that replays, flows that keep their session; the price shown is of the cart, the outcome told is true; a turn is heard whole, a draft belongs to the customer in front; a recommendation is shown where it should be, of the order at hand; an order is no dearer than the kiosk showed, and the menu's prices are what a cart gets |
| `KioskTimesOut` | 1 cart, 1 quote | violation | a confirmation that commits is told as a failure |
| `PushOutlivesItsOrder` | 2 items, 2 requests, 2 orders; customers leave | violation | a customer begins with what was fetched for the last one |
| `VoiceTurnPostgres` | 1 turn, 2 threads, 1 fault | violation | two terminal events for one turn |
| `KnowledgePublication` | SQLite: 2 versions, 2 requests, 1 worker, 2 claims, 2 faults | 1.1 million | what the operator is shown is what retrieval serves; the promise of `KnowledgeServing`; an attempt whose job is in the queue ends |
| `KnowledgeRetryStuck` | 1 version, 1 request, 1 claim | violation | a retried attempt whose job had ended is never run |
| `BackOffice` | eleven components, each with 2 actors (3 threads on a pool of 2; 2 tries of each of 2 providers on one thread), the lab on SQLite | 3.3 million | what each promises although nothing locks across its transactions |
| `VoiceHidesOutage` | 1 request of the voice assistant | violation | no provider answers and the turn goes on |

**Why the bounds are enough to see the interesting cases.** Every race listed
among the hazards is one of two actors over one row (two confirmations, two
dispatches, two commands, two runs), so two threads produce it; the pool has
three, for one must wait while two hold a connection. Two quotes and two
keys give a quote that is superseded while it is confirmed and a key used for
another quote. Two revisions (three on SQLite) make a quote stale before and
after the confirmation reads the cart; the clock reaches exactly `expires_at`.
Two attempts put the last attempt next to the first. Two faults put a crash into
the recovery from a crash. Two offers compete for an item, or one stands on what
the other requires; their rules are those that two offers can have up to the names of
items and offers (without two that are both for members), and a change by staff
falls between any two steps of the kiosk. With one projection under way none overtakes
another, which `MenuKeepsItsWord` excludes anyway. Four phase revisions take a flow to the menu, into
a failure or to its abandonment, with a second command for a revision that
is taken. Texts are two so that a redone phase can answer differently. Two
versions of a knowledge item are one that replaces and one that is replaced;
five versions of a campaign let a publication (three appends) meet an edit; two
registrations of a phone number are the erased member and the new one. With one
thread in the gateway's pool of eight a call that hangs holds up the next; a request
has two tries, the default, although its callers ask for one. Three items are the
default, another and one that is left.
The voice turn was also checked once with three threads (530 000 states).
All next-state disjuncts fire in the passing runs.

**Deadlock.** A bounded instance stops when its quotes, jobs, flows or turns
are used up, as an idle server does, and the configurations of those say
`CHECK_DEADLOCK FALSE`.

**Symmetry** is used in runs without liveness properties only. `ErasureIsFinal`
and `FlowIsKept` are of the form `[][A]_v` with an `A` that is itself symmetric.

### The disagreements

* `CheckoutPgRejection`. `confirm` reads the quote without a lock, and the
  UPDATE that marks it stale has no condition. On PostgreSQL a confirmation with
  a second key overwrites `consumed` and stores `quote_stale`, although the Order
  exists. `docs/adr/0008-deepen-checkout-confirmation.md:17` promises that a
  rejection means no Order.
* `CheckoutShowsOldPrice`. `prepareAuthoritativeCheckout` renders the Checkout Quote
  into a dialog (`frontend/kiosk/index.html:349`) that nothing opens:
  `openOrderConfirmModal` (`app.js:2161`) shows the payment screen, which has no
  price. The customer saw the price of the cart's own quote, and a price that was
  raised meanwhile is ordered unseen, where `CONTEXT.md:240` has the Checkout Quote
  presented before the order. While prices are only cut and offers start and end,
  `NoDearerThanShown` holds.
* `KioskTimesOut`. The ordering client gives up after its own 15 s with an error
  that `writeCheckoutLog` does not take for an unknown outcome, and so it treats
  an answer of 5xx. `frontend/kiosk/app.js:1950` says that a timeout is not a
  failure.
* `VoiceTurnPostgres`. The transition's check and UPDATE do not exclude one
  another on PostgreSQL. `docs/adr/0007-deepen-voice-turn-orchestration.md:9`
  promises exactly one terminal event.
* `PushOutlivesItsOrder`. `stop()` clears the controller but not the requests under way,
  and the handlers that await them ask nothing when they go on. A customer who goes home
  (the page is not loaded again) leaves an answer that is rendered, counted as seen and
  followed by another fetch, on the start page or in the next order. The comment at
  `frontend/kiosk/app.js:897` says that seen items and candidates belong to one order only.
* `VoiceHidesOutage`. The gateway reports a failure in its answer; `assist`
  (`modules/voice_turn/runtime.py:84`) waits for an exception. An outage of both
  providers is answered with a sentence of its own, synthesized and completed, where
  `docs/adr/0007-deepen-voice-turn-orchestration.md:18` has retries and then the failure
  terminal. `VoiceTurn` itself models the assistant by its port, which may fail.
* `KnowledgeRetryStuck`. The job of an attempt has the attempt as its key, and
  enqueueing a key that exists answers with the old job whatever became of it.
  `modules/knowledge_publication/module.py:311` says that delivery is restored;
  the attempt stays active and keeps the item from every later publication.

### Facts that no property states

What the code does, seen with the models under other constants (named) or read
while writing them. They explain why the constants of the runs are what they are.

* **Checkout.** On PostgreSQL `OneOrderPerSession` and
  `OrderedCartIsTheQuotedCart` fail as `RejectionIsFinal` does: an edit that commits between the read of the cart
  and the end of the transaction is ordered over, and two quotes of a session can
  both become Orders. `CONTEXT.md:244` calls the validation atomic; on both backends
  an item withdrawn after `ConfirmValidate` (`module.py:65`) is still ordered.
  After `items_unavailable` the quote stays active. In a new SQLite schema
  `available_at` of `checkout_outbox` is NOT NULL without a default and the INSERT
  leaves it out, so no confirmation commits (`EventInserts = FALSE`).
* **Prices.** Naming an offer makes a cart unpriceable: the row keeps the offer that
  the quote selected, and when the item it requires is removed, the offer ends or the
  member signs out, every later quote is refused (`_pricing_service.py:190`) until
  that row is removed. `docs/upgrade/gates/README.md:348` calls the client's
  preference a tie-break; leaving the offer out silently would break
  `NoDearerThanShown`. A quote that failed is not asked for again until the cart changes.
  The menu's projections are applied in the order they come in. At Home the next one is
  asked for in the old session, so the next guest may see the prices of members and
  get a cart that is refused.
* **Checkout outbox.** Only confirmations and the start of the process dispatch;
  nothing wakes up when a backoff ends (`Busy = FALSE`), although
  `docs/upgrade/gates/README.md:706` promises retries. If dispatches outlive
  their 60 s lease, `OneHolder`, `PublishedOrDead` and `NotDeliveredAgain` fail
  (`Punctual = FALSE`), and a published event can be dead-lettered (`sqlite_store.py:302`).
  `mark_outbox_failed` raising inside the `except` block ends the dispatch with the
  rest of the batch leased.
* **Entry flow.** `menu_initialized` makes the cart in a transaction of its own,
  which an abandon can overtake: the flow is abandoned and its cart stays open,
  against `docs/adr/0009-deepen-ordering-entry-flow.md:20`. `member_ref` is kept
  when a customer returns to the mode selection and chooses guest.
* **Kiosk checkout.** Home during a prepare opens the payment screen with the old
  session's quote for the next customer, who can pay it (`LeavesCheckout = TRUE`). An edit
  during a prepare enables the button again, so two prepares overlap and the
  payment may be for the cart as it was pressed. `activeCheckoutQuote` is never
  reset. A rejection is stored, so paying the same quote again is refused until it
  is prepared anew. An unknown outcome that no poll resolves leaves the kiosk with
  disabled payment buttons and a hidden Home button.
* **Kiosk voice.** After the wait in the `finally` of `submitVoiceSegment` the
  detector starts although it was suspended meanwhile. After `await pause()` the
  active turn may be gone, and the turn is posted with an empty id: the server
  makes one up and every event counts as a violation of the protocol. A turn that is
  processed when the customer goes home shows its draft to the next one
  (`LeavesTurn = TRUE`). Voice is not resumed after returning from the payment. The streaming
  fetch has no timeout.
* **Kiosk recommendations.** A request and one in advance that are under way together can
  bring the same item, and then the customer's wish for another shows the same again. The first request of
  an order excludes the default although the comment at `app.js:886` says that the
  preloaded item is not excluded. Cards rendered while the bar is hidden are reported as shown.
* **Gateway.** Nothing cancels a call: providers that hang occupy the pool's threads, and
  requests then time out before their call has begun.
* **Worker jobs.** A claim never compares `attempt_count` with `max_attempts`.
* **Knowledge publication.** With `Prompt = FALSE`, with `Lossy = TRUE`, or with two workers on one job (`Timely = FALSE`)
  `StatusTellsPointer` fails: `fail_enqueue` has no condition
  (`sqlite_store.py:525`), retention cleans up the artifact before it asks
  whether the attempt is still failed (`module.py:172`). A build indexes the content of the item's
  latest version (`runtime.py:58`), not of the version the attempt is for.
  `cleanup_pending` after a dead-lettered job blocks the item for ever.
  `PostgresPublicationStore` calls itself "with the same durable publication semantics as
  SQLite" (`postgres_store.py:42`), and is not, since it takes no lock: with `OnSqlite = FALSE` and
  the other hypotheses as they are, a retirement that has read version 1 deletes the
  pointer to version 2, which was swapped in meanwhile and stays `published` without a pointer
  (`StatusTellsPointer`); and a `begin_batch` that has read version 1 as the draft, while version
  2 is drafted and published, starts the attempt that publishes 1 over 2 (`ImplementsServing`).
  A sweep that dies, or whose statement fails, after it has deleted the documents of a failed
  attempt leaves the reference to them (`module.py:165`). A retry takes the artifact for complete,
  since `is_compatible` (`runtime.py:98`) looks at the manifest alone, and publishes a version
  without documents: with `Torn = TRUE` and three faults (the failed swap, the torn sweep and a
  worker that died before it reported) `StatusTellsPointer` fails. It came up when the
  invariant of section 4 turned out not to be inductive; the two faults of the run hide it.
* **Optimization lab.** Two simulations at once leave two pending candidates; a
  stale edit or abandon overwrites a confirmed record; a candidate that creates an
  item may create it twice. On PostgreSQL (`OnSqlite = FALSE`) two confirmations of a candidate
  that updates an item both pass the comparison of `revise_draft`
  (`modules/knowledge_publication/sqlite_store.py:316`) and write it one after the other:
  `AppliedAsAccepted` fails.
* **Members.** Of two requests of one member at once one is lost. The consents are read on one
  connection and the orders on another (`adapters/member.py:339`), and a whole record is written
  over whoever has the number by then: orders can be stored in a record without the
  consent to them, if an earlier registration of the number had it. A checkout
  without consent to the order history persists nothing. An upsert that comes
  after an erasure overwrites a new registration of the number. The session cache
  can be filled again behind a logout (`_member_service.py:191`).
* **Campaigns.** With `Overtaking = TRUE` what is on air is not what the campaign
  says: two projections are written out of order. A request that ends between a transition and
  its projection (the process dies, the audit entry fails) leaves the campaign on air, or off it,
  without the kiosk being told, and nothing repairs it but the next transition.
* **Voice evidence.** A process that dies leaves its claimed rows in `processing`;
  turns that are lost after the backfill has completed are lost; on PostgreSQL two
  processes can claim one row; nothing projects but a start.
* **Order outbox.** On PostgreSQL a duplicate is retried into the dead letters
  (`DuplicateIsAcknowledged` fails), where the comment at
  `services/outbox_delivery_router.py:108` speaks of an idempotent acknowledgement.
  `deliver_outbox_by_id` may claim, and abandon, another event. With
  `Lapsing = TRUE` `SettledOneWay` fails.
* **Push copy.** A redelivery counts every item again; a terminal status returns to
  `running`; a batch whose enqueueing failed blocks all later ones.
* **Catalog.** Two readers of an empty store both seed it, and the second deletes what
  staff created in between; a stale update brings a retired item or an old image
  back; replaced images are never deleted. An image that a client writes into an item is kept
  when it begins with `object:`, whether the object exists or was deleted
  (`services/menu_catalog_service.py:82`); `ImagesAreStored` speaks of ids that the storage
  gave away.
* **Identity.** A logout that races a rotation leaves the new session alive if the
  rotation commits first; a credential can be rotated again after its grace window;
  sessions of a rotated credential outlive the window.
* **Retrieval check.** With `Reused = TRUE` a publication and a retirement during a
  retrieval go unnoticed; deleting the configuration resets its version to 1;
  confirming a check that was cleaned up meanwhile answers success with empty fields.
* **Pool.** A slot freed by a broken connection wakes no waiter; a connection that is
  put back after `close` has drained the queue stays open.

### Fairness

Safety properties are checked without fairness. The liveness properties assume:

* `WorkerJobs`: a worker that can claim some job claims one (`run_worker.py`
  polls for ever), handlers return and results are reported unless the worker
  crashes, leases and backoffs elapse. No job need be picked over another.
* `CheckoutOutbox`: threads run, leases and backoffs elapse, and, as the run
  `Settlement` assumes with `Busy`, Orders keep being confirmed, since nothing
  else spawns a dispatch. `Limit` is not smaller than the backlog in the run: with a
  smaller limit an event can be passed over. The consumer is not assumed to succeed:
  an event whose delivery always raises settles as a dead letter.
* `VoiceTurn`: the steps of a run are taken, which includes that a service
  answers or times out. Nothing is assumed of kiosks: nobody has to post or replay.
  `RunTurnEnds` therefore promises the end of a turn that some run has read,
  unless a fault strikes afterwards; the first replay after a crash is such a run.
* `KnowledgePublication`: requests, worker runs and the sweep go on unless they
  die, and the worker keeps polling. No operator has to come back: `OpenJobSettles`
  speaks of attempts whose job is in the queue.

## 4. What is proved

TLAPS proves the following for any number of sessions, quotes, keys, threads, flows,
devices, jobs, workers, events, turns, requests, records, versions, connections, attempts
and faults. The only assumptions on constants are those of the named `ASSUME` of each
module (absent values are not ids, bounds are naturals, the workers and the threads of the
pool are finitely many), which TLC evaluates in the runs. Where a theorem has a hypothesis, it
is one of the switches that say which of two environments the code runs in, and the run has
it set the same way:

| Hypothesis | Of | What it says, and what happens without it |
|---|---|---|
| `Serialized`, `Locking` | `Checkout`, `VoiceTurn` | the backend is SQLite; PostgreSQL breaks the property (`CheckoutPgRejection`, `VoiceTurnPostgres`) |
| `Punctual` | `CheckoutOutbox` | a dispatch ends within its lease of 60 s; without it an event is delivered twice |
| `~Lapsing` | `OrderOutbox` | a delivery ends within its lease; without it an event can be both published and dead |
| `~Overtaking` | `Campaigns` | nobody appends a version between another one and its projection; without it what is on air is not what the campaign says. A request may end between the two: the property then asks nothing of the kiosk until the next projection |
| `OnSqlite` | `KnowledgePublication` (in `Guarded`), `OptimizationLab` | the backend is SQLite; on PostgreSQL a published version can lose its pointer, an older version can replace a newer one, an update can be applied twice |
| `~Reused` | `RetrievalCheck` | an identity does not come back for something else, and publications of the configuration do not overlap; without it a publication and a retirement go unnoticed, and two configurations can have one version |
| `~Timeouts`, `~LeavesCheckout` | `KioskCheckout` | no confirmation outlives the bound of the client, nobody goes home from a prepare; without the first a customer is told that an order failed which was made (`KioskTimesOut`), without the second a checkout is offered to the next customer |
| `~LeavesTurn` | `KioskVoice` | nobody goes home from a turn under way; without it the draft of one customer is shown to the next |
| `~LeavesRequest` | `KioskPush` | nobody goes home from a request or a start under way; without it what one customer was shown counts as seen by the next (`PushOutlivesItsOrder`) |
| `~Raises` | `CartPricing` | staff raises no price while a cart is at the kiosk; without it the Order costs more than was shown (`CheckoutShowsOldPrice`) |
| `Guarded` | `KnowledgePublication` | `OnSqlite`, `Prompt`, `Timely`, neither `Lossy` nor `Torn`; TLC finds `StatusTellsPointer` violated when any one of the five is dropped (`Timely` with two workers, `Torn` with three faults) |

The facts of section 3 name the behaviours that each hypothesis excludes. The other theorems
have none.

**`CheckoutProofs`**, on both backends: types, `OneOrderPerQuote`,
`PickupNumbersAreDense`, `OrderIsComplete`, `ConfirmedAttemptHasOrder`,
`OrderHasTheQuotedLines` (with `OrderIsComplete`, `OrderIsTheQuote`), `OneActiveQuote` and
`OrderedCartIsFrozen`. The argument for the lines is the one worth reading. `cart.get` may pair a
revision with the lines of a later one. `Faithful(s, n, lines)` says that the
lines are those of revision `n` or that `n` is already in the past. It holds of
what a thread read, of the quote it writes and of what a confirmation takes from
it. When `ConfirmReadCart` then finds the cart at revision `n`, the second case
is impossible and the lines are right, however stale the first read was; what
happens to the cart afterwards does not matter to them. `OrderIsComplete` survives
`ConfirmReject` overwriting the status of a consumed quote because the
UPDATE leaves `consumed_order_id` alone, and it needs no mutual exclusion.

`OrdersAsQuoted`, which the run checks, asks `OrderIsTheQuote` of both backends and three things
more of SQLite, `RejectionIsFinal`, `OneOrderPerSession` and `OrderedCartIsTheQuotedCart`; for these,
`LockHeld` says that a thread inside a confirmation's transaction holds the write lock;
hence nobody else writes a table meanwhile (`NobodyElseWrites`), and what the thread read
of the quote and the cart is still there when it writes (`ReadsHold`). A rejection
thus meets a quote that has no Order, and leaves it so that none can follow; an
Order meets an open cart at the quoted revision, and closes it. On PostgreSQL
`ReadsHold` is what is missing, and all three fail.

**`BackendProofs`**: `TypesOK` and `PostgresOrdersAsQuoted` of the run, which has the tables of
both backends. `BackendsInv` is the invariant of `CheckoutProofs` twice, once for
the variables of SQLite and once, by instantiating the proofs with `Serialized` false, for
those of PostgreSQL. What is left to show is that the instance that `MCCheckout`
steps is the one that was proved about, action by action, and that the backend which does
not step keeps what it had.

**`EntryFlowProofs`**: types, `LogReplays`, `FlowIsKept`, and `FlowsAreSound`. A command
decides from a row it read without a lock. `Snapshots` says that this row is the one of now
or of an earlier revision; `LogReplays` that each revision reached has its event.
An event that the primary key does not refuse is of a revision not yet reached, so the
row that was read is the one of now: the table of the events is the lock. For a session
to follow its flow the invariant needs the converse too (`FlowHasItsSession`), and that a
`menu_initialized` about to commit has its cart (`Booted`).

**`SettlementProofs`**, of `WorkerJobs`: types, `RetriesAreBounded`, `DeadLettersAreEarned`, that a
succeeded job was handled, and `CancelledIdleStays` for any handlers. Of the jobs
in `Timely` also `OneRunnerPerJob` and that a success or a dead letter
is final; and, of those that nobody cancels, that the queue implements the safety part of
`JobLedger`. The key of the invariant is `ClaimsPayForRetries`: the retries of a job
and its present runners together are at most its claims, so that late reports
cannot put a job back more often than the budget allows. For timely handlers it
is `RunnerHoldsLease`: whoever runs a job still holds its lease, unless the job was
cancelled.

Of `CheckoutOutbox`: types, `PublishedIsConsumed` and `DeadEventsAreEarned`
for any dispatches, and, if they are punctual, `OneHolder`, `PublishedOrDead`,
`CreditsAreExplained` and `NotDeliveredAgain`. The invariant follows the consumer:
`Progress` says what is on record at each of its steps, `HeldIsLeased` that what a
thread holds is leased and unsettled, and `CreditsAreFresh` that the records
a thread read are still those of now, which is what makes the unconditional
write of `Credit` an increment.

Of `VoiceTurn`, for `Locking = TRUE` (SQLite): `TurnIsTold`, `PhaseWorkIsKept`,
that a turn has one terminal event, and `ImplementsStream`. A run decides from a row that
it read in an earlier transaction. `Snapshot` says that what this row holds of the turn,
the transcript and the reply, is still so or was not there yet: no phase is undone.
`RunSound` adds that a run between the status check and the write meets the status it
checked, and `OneTransition` that one run at a time stands there; this is what `BEGIN
IMMEDIATE` gives and what is missing on PostgreSQL. `Tables` relates the row, the
journal, the evidence and the session's memory. That the journal ends once follows: no
status is legal after a terminal one. The mapping to `TurnStream` takes the journal as
it is; `Accept` and `Write` emit, `Expire` discards, every other step is a stutter.

Of the three together: `SettlementTypeOK`. The types of jobs and events are parts of their
invariants. Those of a turn need SQLite: on PostgreSQL a late transition can take a
turn out of its end, and the evidence is then enqueued with a status that is none.

**`KioskProofs`**, of the browser, where handlers await answers while the customer goes on.
`KioskCheckout`: `PriceIsOfTheCart` for any customers. `PriceInv` says that a request whose sequence
is the present one is of the present cart: every edit raises the sequence, so that an
answer which is not outdated prices what is there. `OutcomeIsTold` needs `TruthInv`, that
nothing outlives its session: a prepared quote, the payment screen and whoever pays are
of the session at the kiosk (`PreparedPart`, `OfferedPart`), one payment is under way at a
time and holds the buttons (`Paying`), and what counts as failed was rejected and so has no
order in any later state (`QuotesLast`).
`KioskVoice`: `VoiceInv` says that what was heard of a stream is the beginning of its journal,
that the cursor of a replay is where it broke off, and that it is called whole at the end only
(`Listens`); from it `TurnIsHeard`, for any customers. `DraftInv` adds whose turn it is: a
stream with an identity and a draft are of the session at the kiosk, and the start page has
neither, nor an open microphone; from it `VoiceIsHeeded`.
`KioskPush`: `PushInv` says, for any customers, that the bar stands on the menu of an order and that
a request or the timer will look at it again, by following what each operator of the controller
does to its locals (`Keeps`). `OnlyThisOrder` adds that what it holds, what is under way and what
is waiting are of the present order: `RecommendationIsInPlace`.
`CartPricing`: `MenuKeepsItsWord` for any changes, and `NoDearerThanShown` while no price is raised. Both
rest on lemmas about the selection of offers. That `SelectOffer` has a result is the
well-ordering of the natural numbers (`WFMin`), used for each of its keys in turn
(`FirstOffer`); what it selects is then the cheapest that applies, and no dearer than the menu
price (`SelectDoes`). `QuoteIsHeld` says that every row, at the price of the offer that it names,
costs at most what the quote on the screen says of it. While that offer applies the selection
charges no more; when it has ended, the cart is refused.
`TypeOK` of the run is the five type invariants together; those of the handlers are inductive only
with what their invariants say of sessions and quotes.

**`BackOfficeProofs`**, of components in which a request reads a record in one transaction
and writes it whole in another.
`Members`: `DataNeedsConsent` and `ErasureIsFinal`. A record that was read may pair the
consents of one moment with the orders of another, so that no invariant relates the two. What
holds is that what a request carries, whether torn or stale, stays within what a record of the
number was once stored with (`accepted`, which only grows), that a report drops what the record
it read does not consent to, that the phone number is in one record, and that a deleted
registration is empty.
`Identity`: `RevocationHolds`, a property of steps. `RevokedStays` says that no step takes the
revocation of a credential back, `EndedStays` that none takes back the end of an admin session
or makes an heir of it; for the latter `IdentityInv` keeps the rows of sessions that were not
made blank, and says that a session which has an heir is revoked. A session that a request
inserts for a revoked credential is refused when it authenticates, since that asks the credential
again, and a rotation reads the session it continues under a lock.
`Catalog`: `ImagesAreStored`. `PutOK` says for each statement of an upload and a removal what is
in the three places by then, `PutAlone` that no two calls work at one object, `PutInTurn`
that ids not handed out are used nowhere; `write` carries an image that `Stored` holds of,
which a stale update of the whole row keeps true since objects are only added. An image that a
client names is none, foreign, or one whose row is there.
`Campaigns`: `VersionsFollow` for any projections, and `CampaignIsKept` while none is overtaken. A
request that has read the latest version carries one that may follow it; in an ordered
world one projects at a time, and what it projects is the last version; a request that
ends before it projects sets `missed`, and the next projection clears it.

`VoiceEvidence`: `EvidenceIsComplete`. `BackfillHolds` says that each turn
that had ended when the backfill began is in the hands of every process that is at it, in the
outbox, or deleted: so whichever of them completes it leaves none out.
`OptimizationLab`: `AppliedAsAccepted`. `Carries` says that the record a request read was
accepted on an evaluation that was passed, and that what a candidate does and its base revision
never change; the acceptance is thus sound whoever overwrites the record. `AppliedOnce` says that
on SQLite an update was written at the revision its candidate starts from, which the item has
left behind: a second confirmation meets another revision. On PostgreSQL a request can rest at
`revise`, past the comparison; that nobody does is what `OnSqlite` gives the invariant.
`RetrievalCheck`: `ReadinessIsEarned`. `Past(c)` says that a configuration of the present version
is the present one. While a check retrieves, what it read first is `Past` and what it saw
lies `Between` that and now, so that two equal readings enclose one equal to both; an
eligible check vouches for what it saw.

`TypeOK` of the run `BackOffice` is the eleven type invariants together, with no hypothesis. Most are
parts of the invariants above. That of `PushCopyBatch` bounds the counters of a batch by one
count of each item for each delivery, which nothing in the code looks at: see the next paragraph.

**`DeliveryProofs`**. `ConnectionPool`: `SlotsAreCounted`. `CountsAgree` says that the slots are
the open connections and the threads that are opening one, `Owned` that each open connection is
free or in the hands of one thread. Each action moves at most one connection or thread between
these sets, so that the proof is one about cardinalities.
`LlmGateway`: `AnswerIsEarned`. `CallSound` says of every call that queues or
runs, given up or not, that its request was allowed to make it; `RowSound` that the answer
of a request is one that a call of its own returned.
`OrderOutbox`: `SettledOneWay`. `DeliverySound` says that who delivers an event holds its row,
unsettled, and that who is about to acknowledge it has put it into the sink; this is what the
unconditional `mark_outbox_failed` needs of its callers.
`PushCopyBatch`: `OutcomeIsEarned`, with overlapping deliveries. `RunSound` says that what a run has
left and what the batch has counted are at least all items, whoever counted: other runs only
add. A batch therefore ends with every item accounted for, however often some are counted twice.
How often that can be is `TallyInv`: there is a set of pairs of a delivery and an item, as many as
the batch has counted, that has no pair of a delivery with an item it has yet to do (`Uncounted`).
Each count adds the pair of its delivery and item, which was not in it, so that the count
stays within the number of pairs there are.

**`KnowledgePublicationProofs`**, under `Guarded`: `StatusTellsPointer`, and that the module implements
`KnowledgeServing` (`ImplementsServing`). `Agree(v)` lists what phase and status of an attempt, status
of its version, reference and documents may be together; a documents' loss is allowed only
where a sweep is at the version. `Numbered` says that the latest version has the largest number,
`NewestSound` that what is in progress is newer than all that was ever served, `OneRuns` that one attempt
is. `RequestSound`, `RunSound` and `SweepSound` say what each actor may rely on of what it read
before: a retry in its window is alone with a failed attempt, a run works at an
attempt that has a job, a sweep at attempts that have failed and have an artifact. `Whole` says that
no request rests inside an operation of the store, which is what SQLite gives. The refinement
maps `live` to the pointer; `PointerMoves` says that it moves to a newer version with documents, to
none, or not at all. Its invariant was checked by TLC with 2 versions, 2 requests and 3 faults
(3.5 million states) and with 3 versions, 2 workers and 2 faults (2.2 million).

`TypeOK` is proved without `Guarded`. What requests and runs hold of an item must then
survive that others overtake them, and the invariant, `TypesInv`, is about what lasts: versions are numbered
without a gap (`Numbered`), an attempt and a pointer have a row (`RowsTogether`), a purge takes all
of it at once, and a version that a request or a run is at exists as a number even when its row
is gone.

Each invariant was first checked by TLC on instances like those of the runs.
What is proved for every instance and no run lists is not checked again: `OneOrderPerQuote`,
`PickupNumbersAreDense`, `ConfirmedAttemptHasOrder`, `OneActiveQuote`,
`OrderedCartIsFrozen`, `RetriesAreBounded`, `DeadLettersAreEarned`, `DeadEventsAreEarned`,
`CancelledIdleStays`, `PublishedIsConsumed`, `OneHolder`, `PublishedOrDead`,
`NotDeliveredAgain` and `VersionsFollow`.

**Only model-checked**: the liveness properties and the fair part of
`ImplementsLedger`, which is liveness and outside the prover: `EveryJobSettles`,
`EveryEventSettles`, `RunTurnEnds` and `OpenJobSettles`. Every invariant and every action property
that a passing run checks, and the safety part of every refinement, is a theorem.

## 5. What is not modelled

* Quantities and options of a price, menu contents, wording, audio, scores: data that no
  property tells apart.
* The bodies of most worker handlers: a handler is a step with a result and a side
  effect. Those of copy batches and of knowledge attempts have modules.
* The in-memory stores beyond what they share with the SQL ones; the in-memory
  job store computes leases from the clock of the whole batch.
* The isolation that `modules/runtime_persistence` gives is taken as the
  documented behaviour of SQLite and PostgreSQL. Migrations are run by an operator.
* Recommendation: which item is picked is a function of statistics; its event files are
  rewritten as a whole and decide nothing another component relies on.
* Realtime: a fan-out without acknowledgement promises nothing that could be stated.
* Member views of the kiosk and the administration pages: their
  requests are the environment of the backend models, in any order, repeated and abandoned.
* Settings: one JSON document behind a version. Two tabs of the administration that save at
  once both read it before the advisory lock, and the keys of the first are lost, although
  `frontend/admin/modules/settingsAdmin.js:14` counts on their being disjoint.
* Fleet commands: one JSON file, of which only `issue_command` is called.
* Emotion model, generators, backup scripts, container files: no coordination of
  their own. The emotion model is the larger part of the repository's source that
  no module covers.

## 6. Plan

1. An abstract `OrderLedger` that `Checkout` implements, and its composition with
   `KioskCheckout`: a kiosk that retries until it has an answer.
2. Device verification of the two front ends, the settings document of the
   administration pages, the rate limits.
