----------------------------- MODULE EntryFlow ------------------------------
(***************************************************************************)
(* The ordering entry flow of a kiosk: modules/ordering_entry over         *)
(* ordering_entry_flows, ordering_sessions and ordering_entry_events, and  *)
(* the cart it initialises and abandons in transactions of their own.      *)
(*                                                                         *)
(* Transactions are READ COMMITTED ones of PostgreSQL: the SELECT is one   *)
(* step, the writes take effect together at the commit, where the unique   *)
(* keys are enforced.  SQLite's BEGIN IMMEDIATE allows fewer behaviours.   *)
(*                                                                         *)
(* A request whose revision is not the current one is refused at once and  *)
(* changes nothing: only requests that pass that first look are modelled.  *)
(***************************************************************************)
EXTENDS Naturals

CONSTANTS
  Devices,      \* kiosks
  FlowIds,      \* entry flow ids
  Sessions,     \* ordering session ids
  Members,      \* opaque references of members
  Workers,      \* request threads
  None,         \* no device, session, member or flow
  MaxRevision,  \* bound on phase_revision
  MayFail       \* TRUE: a request can die between two transactions

ASSUME EntryFlowAssumption ==
  /\ None \notin Devices \cup FlowIds \cup Sessions \cup Members
  /\ MaxRevision \in Nat
  /\ MayFail \in BOOLEAN

VARIABLES
  flow,      \* ordering_entry_flows
  session,   \* ordering_sessions
  events,    \* ordering_entry_events
  cart,      \* ordering_carts.status of a session
  pc, loc    \* what each thread is doing, and its locals

entryFlow == <<flow, session, events, cart, pc, loc>>

-----------------------------------------------------------------------------
(* The pure state machine.                                                 *)

Terminal == {"menu_ready", "abandoned"}

Legal ==
  { <<"choosing_mode", "choose_member", "member_lookup">>,
    <<"choosing_mode", "choose_guest", "initializing_menu">>,
    <<"member_lookup", "member_found", "initializing_menu">>,
    <<"member_lookup", "member_not_found", "registration_offered">>,
    <<"member_lookup", "member_unavailable", "member_lookup_degraded">>,
    <<"member_lookup", "return_to_mode", "choosing_mode">>,
    <<"registration_offered", "begin_registration", "member_registration">>,
    <<"registration_offered", "retry_member", "member_lookup">>,
    <<"registration_offered", "choose_guest", "initializing_menu">>,
    <<"registration_offered", "return_to_mode", "choosing_mode">>,
    <<"member_lookup_degraded", "choose_guest", "initializing_menu">>,
    <<"member_lookup_degraded", "retry_member", "member_lookup">>,
    <<"member_lookup_degraded", "return_to_mode", "choosing_mode">>,
    <<"member_registration", "retry_member", "member_lookup">>,
    <<"member_registration", "registration_completed", "initializing_menu">>,
    <<"member_registration", "choose_guest", "initializing_menu">>,
    <<"member_registration", "return_to_mode", "choosing_mode">>,
    <<"initializing_menu", "menu_initialized", "menu_ready">>,
    <<"initializing_menu", "menu_failed", "menu_initialization_failed">>,
    <<"menu_initialization_failed", "retry_menu", "initializing_menu">>,
    <<"menu_initialization_failed", "return_to_mode", "choosing_mode">> }

States == {step[1] : step \in Legal} \cup Terminal
Commands == {step[2] : step \in Legal} \cup {"abandon"}

\* Mutant of Targets: abandon is accepted in every state.
TargetsAbandonAlways(state, command) ==
  {t \in States : <<state, command, t>> \in Legal}
    \cup (IF command = "abandon" THEN {"abandoned"} ELSE {})

\* The state a command leads to; none if the command is illegal.
Targets(state, command) ==
  {t \in States : <<state, command, t>> \in Legal}
    \cup (IF command = "abandon" /\ state \notin Terminal THEN {"abandoned"} ELSE {})

\* The commands that carry a member reference.
Identifies(command) == command \in {"member_found", "registration_completed"}

-----------------------------------------------------------------------------
(* Tables and threads.                                                     *)

FlowRow == [state : States \cup {"absent"}, revision : Nat, device : Devices \cup {None},
            session : Sessions \cup {None}, member : Members \cup {None}]
SessionRow == [status : {"absent", "open", "abandoned"}, flow : FlowIds \cup {None},
               member : Members \cup {None}]
Event == [flow : FlowIds, revision : Nat, command : Commands \cup {"started"}, state : States]
CartStatus == {"absent", "open", "abandoned"}

\* Mutant of NoFlow: member_ref is NULL instead of empty.
NoFlowWithoutMember ==
  [state |-> "absent", revision |-> 0, device |-> None, session |-> None, member |-> 0]

NoFlow == [state |-> "absent", revision |-> 0, device |-> None, session |-> None, member |-> None]
NoSession == [status |-> "absent", flow |-> None, member |-> None]

Labels == {"idle", "insert", "boot", "select", "commit", "close"}
NoLocals == [flow |-> None, device |-> None, membership |-> TRUE, command |-> "abandon",
             member |-> None, current |-> NoFlow]
Locals == [flow : FlowIds \cup {None}, device : Devices \cup {None}, membership : BOOLEAN,
           command : Commands, member : Members \cup {None}, current : FlowRow]

EntryFlowTypeOK ==
  /\ flow \in [FlowIds -> FlowRow]
  /\ session \in [Sessions -> SessionRow]
  /\ events \subseteq Event
  /\ cart \in [Sessions -> CartStatus]
  /\ pc \in [Workers -> Labels]
  /\ loc \in [Workers -> Locals]

EntryFlowInit ==
  /\ flow = [f \in FlowIds |-> NoFlow]
  /\ session = [s \in Sessions |-> NoSession]
  /\ events = {}
  /\ cart = [s \in Sessions |-> "absent"]
  /\ pc = [w \in Workers |-> "idle"]
  /\ loc = [w \in Workers |-> NoLocals]

Active(f) == flow[f].state \notin Terminal \cup {"absent"}
ActiveFlows(d) == {f \in FlowIds : Active(f) /\ flow[f].device = d}

Goto(w, label) == pc' = [pc EXCEPT ![w] = label]
Finish(w) == Goto(w, "idle") /\ loc' = [loc EXCEPT ![w] = NoLocals]

NewEvent(f, revision, command, state) ==
  [flow |-> f, revision |-> revision, command |-> command, state |-> state]
Logged(f, revision) == \E e \in events : e.flow = f /\ e.revision = revision

-----------------------------------------------------------------------------
(* Start.                                                                  *)

\* start found no active flow of the device (else it returns that flow).
Start(w) ==
  /\ pc[w] = "idle"
  /\ \E d \in Devices, f \in FlowIds, membership \in BOOLEAN :
       /\ ActiveFlows(d) = {}
       /\ loc' = [loc EXCEPT ![w] =
            [NoLocals EXCEPT !.flow = f, !.device = d, !.membership = membership]]
  /\ Goto(w, "insert")
  /\ UNCHANGED <<flow, session, events, cart>>

\* The rows of a new flow; without membership it has a session from the start.
WriteStart(w) ==
  LET f == loc[w].flow
      first == IF loc[w].membership THEN "choosing_mode" ELSE "initializing_menu"
      Row(s) == [state |-> first, revision |-> 1, device |-> loc[w].device,
                 session |-> s, member |-> None]
  IN /\ events' = events \cup {NewEvent(f, 1, "started", first)}
     /\ IF loc[w].membership
        THEN flow' = [flow EXCEPT ![f] = Row(None)] /\ UNCHANGED session
        ELSE \E s \in Sessions :
               /\ session[s].status = "absent"
               /\ flow' = [flow EXCEPT ![f] = Row(s)]
               /\ session' = [session EXCEPT ![s] =
                               [status |-> "open", flow |-> f, member |-> None]]

\* Mutant of StartInsert: no unique index on the active flow of a device.
StartInsertUnindexed(w) ==
  /\ pc[w] = "insert"
  /\ flow[loc[w].flow].state = "absent"
  /\ WriteStart(w)
  /\ Finish(w)
  /\ UNCHANGED cart

StartInsert(w) ==
  /\ pc[w] = "insert"
  /\ flow[loc[w].flow].state = "absent"
  /\ ActiveFlows(loc[w].device) = {}
  /\ WriteStart(w)
  /\ Finish(w)
  /\ UNCHANGED cart

\* The id is taken, or another request started a flow on the device.
StartConflict(w) ==
  /\ pc[w] = "insert"
  /\ flow[loc[w].flow].state # "absent" \/ ActiveFlows(loc[w].device) # {}
  /\ Finish(w)
  /\ UNCHANGED <<flow, session, events, cart>>

-----------------------------------------------------------------------------
(* Command.                                                                *)

\* command read the flow at the revision of the request.  menu_initialized is
\* bootstrapped before its legality is checked; an illegal command is refused.
Command(w) ==
  /\ pc[w] = "idle"
  /\ \E f \in FlowIds, c \in Commands, m \in Members \cup {None} :
       /\ flow[f].state # "absent"
       /\ flow[f].revision < MaxRevision
       /\ m # None => Identifies(c)
       /\ c = "menu_initialized" \/ Targets(flow[f].state, c) # {}
       /\ loc' = [loc EXCEPT ![w] =
            [NoLocals EXCEPT !.flow = f, !.command = c, !.member = m, !.current = flow[f]]]
       /\ Goto(w, IF c = "menu_initialized" THEN "boot" ELSE "select")
  /\ UNCHANGED <<flow, session, events, cart>>

\* The menu has an available item; cart.get inserts a missing cart.
Boot(w) ==
  /\ pc[w] = "boot"
  /\ LET s == loc[w].current.session
     IN /\ s # None
        /\ cart' = IF cart[s] = "absent" THEN [cart EXCEPT ![s] = "open"] ELSE cart
  /\ IF Targets(loc[w].current.state, loc[w].command) # {}
     THEN Goto(w, "select") /\ UNCHANGED loc
     ELSE Finish(w)
  /\ UNCHANGED <<flow, session, events>>

\* There is no session, or no available item.
BootFails(w) ==
  /\ pc[w] = "boot"
  /\ Finish(w)
  /\ UNCHANGED <<flow, session, events, cart>>

\* The transaction reads the flow again, without a lock.
Select(w) ==
  /\ pc[w] = "select"
  /\ flow[loc[w].flow].revision = loc[w].current.revision
  /\ Goto(w, "commit")
  /\ UNCHANGED <<flow, session, events, cart, loc>>

RevisionConflict(w) ==
  /\ pc[w] = "select"
  /\ flow[loc[w].flow].revision # loc[w].current.revision
  /\ Finish(w)
  /\ UNCHANGED <<flow, session, events, cart>>

NeedsSession(row, target) == target = "initializing_menu" /\ row.session = None

CloseSession(rows, s, target) ==
  IF target = "abandoned" /\ s # None
  THEN [rows EXCEPT ![s] = [@ EXCEPT !.status = "abandoned"]]
  ELSE rows

KeptSession(row, target) == row.session

\* The UPDATE of the flow has no condition on the revision: it writes over the
\* row whatever it is by now.
WriteCommand(w) ==
  LET f == loc[w].flow
      row == loc[w].current
      member == IF loc[w].member = None THEN row.member ELSE loc[w].member
  IN \E target \in Targets(row.state, loc[w].command) :
       /\ events' = events \cup {NewEvent(f, row.revision + 1, loc[w].command, target)}
       /\ \E s \in Sessions \cup {None} :
            /\ IF NeedsSession(row, target)
               THEN /\ s # None /\ session[s].status = "absent"
                    /\ session' = [session EXCEPT ![s] =
                                    [status |-> "open", flow |-> f, member |-> member]]
               ELSE /\ s = KeptSession(row, target)
                    /\ session' = CloseSession(session, s, target)
            /\ flow' = [flow EXCEPT ![f] =
                 [@ EXCEPT !.state = target, !.revision = row.revision + 1,
                           !.session = s, !.member = member]]
       /\ IF target = "abandoned" /\ row.session # None
          THEN Goto(w, "close") /\ UNCHANGED loc
          ELSE Finish(w)

\* What the unique keys refuse: the event of a revision that is logged, and a
\* second session of the flow.
Refused(w) ==
  LET f == loc[w].flow
      row == loc[w].current
  IN \/ Logged(f, row.revision + 1)
     \/ /\ \E target \in Targets(row.state, loc[w].command) : NeedsSession(row, target)
        /\ \E s \in Sessions : session[s].flow = f

\* Mutant of CommandCommit: the events have no primary key.
CommandCommitUnkeyed(w) ==
  /\ pc[w] = "commit"
  /\ WriteCommand(w)
  /\ UNCHANGED cart

CommandCommit(w) ==
  /\ pc[w] = "commit"
  /\ ~Refused(w)
  /\ WriteCommand(w)
  /\ UNCHANGED cart

\* Another command committed the same revision first: this one is rolled back.
CommandConflict(w) ==
  /\ pc[w] = "commit"
  /\ Refused(w)
  /\ Finish(w)
  /\ UNCHANGED <<flow, session, events, cart>>

\* After the commit of abandon the cart of the session is closed.
CloseCart(w) ==
  /\ pc[w] = "close"
  /\ LET s == loc[w].current.session
     IN cart' = IF cart[s] = "open" THEN [cart EXCEPT ![s] = "abandoned"] ELSE cart
  /\ Finish(w)
  /\ UNCHANGED <<flow, session, events>>

\* The connection breaks or the process dies; what is not committed is gone.
RequestFails(w) ==
  /\ MayFail
  /\ pc[w] # "idle"
  /\ Finish(w)
  /\ UNCHANGED <<flow, session, events, cart>>

EntryFlowNext ==
  \E w \in Workers :
    \/ Start(w) \/ StartInsert(w) \/ StartConflict(w)
    \/ Command(w) \/ Boot(w) \/ BootFails(w) \/ Select(w) \/ RevisionConflict(w)
    \/ CommandCommit(w) \/ CommandConflict(w) \/ CloseCart(w) \/ RequestFails(w)

EntryFlowSpec == EntryFlowInit /\ [][EntryFlowNext]_entryFlow

-----------------------------------------------------------------------------
(* Properties.                                                             *)

\* A device has at most one active flow, although start looks for one and
\* inserts without a lock.
OneActiveFlow == \A d \in Devices : \A f, g \in ActiveFlows(d) : f = g

\* The events of a flow replay to it: one for each revision, every step legal
\* from the state the one before it led to, the last one the state of the flow.
LogReplays ==
  /\ \A e \in events :
       /\ e.revision \in 1..flow[e.flow].revision
       /\ e.revision = flow[e.flow].revision => e.state = flow[e.flow].state
       /\ e.command = "started" <=> e.revision = 1
       /\ \A d \in events : (d.flow = e.flow /\ d.revision = e.revision) => d = e
       /\ \A d \in events : (d.flow = e.flow /\ d.revision + 1 = e.revision) =>
            e.state \in Targets(d.state, e.command)
  /\ \A f \in FlowIds : \A n \in 1..flow[f].revision : Logged(f, n)

\* A session belongs to the flow that is bound to it, and is abandoned exactly
\* when that flow is.
SessionFollowsFlow ==
  \A s \in Sessions : session[s].status # "absent" =>
    /\ session[s].flow # None
    /\ flow[session[s].flow].session = s
    /\ session[s].status = "abandoned" <=> flow[session[s].flow].state = "abandoned"

\* A flow is at the menu only with an open session and a cart, although both
\* were made in other transactions than the one that says so.
MenuReadyIsBootstrapped ==
  \A f \in FlowIds : flow[f].state = "menu_ready" =>
    /\ flow[f].session # None
    /\ session[flow[f].session].status = "open"
    /\ cart[flow[f].session] # "absent"

\* A device has one active flow; it and its session hold on to one another
\* through every way to the menu and out of it.
FlowsAreSound == OneActiveFlow /\ SessionFollowsFlow /\ MenuReadyIsBootstrapped

\* A flow keeps the session it got, through failures, retries and returns to
\* the mode selection.
SessionBoundOnce ==
  \A f \in FlowIds : flow[f].session # None => flow'[f].session = flow[f].session

\* A flow that is at the menu or abandoned is never written again, although a
\* command that read an earlier revision may still be under way.
TerminalIsFinal ==
  \A f \in FlowIds : flow[f].state \in Terminal => flow'[f] = flow[f]

\* What a flow has it keeps: its session, and its end.
FlowIsKept == [][SessionBoundOnce /\ TerminalIsFinal]_entryFlow

\* When no request is under way, an abandoned flow has no open cart: what
\* docs/adr/0009-deepen-ordering-entry-flow.md:20 says, and the code does not do.
AbandonedCartIsClosed ==
  (\A w \in Workers : pc[w] = "idle") =>
    \A f \in FlowIds :
      (flow[f].state = "abandoned" /\ flow[f].session # None) => cart[flow[f].session] # "open"

=============================================================================
