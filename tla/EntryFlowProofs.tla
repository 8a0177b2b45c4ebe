--------------------------- MODULE EntryFlowProofs --------------------------
(* Proofs about EntryFlow, for any number of devices, flows, sessions,      *)
(* members and request threads, and for any bound on the revisions.         *)
EXTENDS EntryFlow, TLAPS

\* A flow without a row has no revision and no session.
AbsentIsNew ==
  \A f \in FlowIds : /\ flow[f].state = "absent" <=> flow[f].revision = 0
                     /\ flow[f].state = "absent" => flow[f].session = None

\* What a request read of its flow is the row of now, or of an earlier revision.
Snapshots ==
  \A w \in Workers : pc[w] \in {"boot", "select", "commit"} =>
    /\ loc[w].flow \in FlowIds
    /\ loc[w].current.state # "absent"
    /\ loc[w].current.revision <= flow[loc[w].flow].revision
    /\ loc[w].current.revision = flow[loc[w].flow].revision =>
         loc[w].current = flow[loc[w].flow]

\* A start knows what it inserts.
Starts ==
  \A w \in Workers : pc[w] = "insert" => loc[w].flow \in FlowIds /\ loc[w].device \in Devices

\* menu_initialized goes on only with the cart of the session it read.
Booted ==
  \A w \in Workers :
    (pc[w] \in {"select", "commit"} /\ loc[w].command = "menu_initialized") =>
      loc[w].current.session # None /\ cart[loc[w].current.session] # "absent"

\* The converse of SessionFollowsFlow.
FlowHasItsSession ==
  \A f \in FlowIds : flow[f].session # None =>
    session[flow[f].session].status # "absent" /\ session[flow[f].session].flow = f

Threads == Snapshots /\ Starts /\ Booted
Tables == AbsentIsNew /\ LogReplays /\ OneActiveFlow /\ SessionFollowsFlow /\ FlowHasItsSession
            /\ MenuReadyIsBootstrapped

\* The inductive invariant.
IInv == EntryFlowTypeOK /\ Threads /\ Tables

-----------------------------------------------------------------------------
(* The state machine.                                                      *)

LEMMA StateFacts ==
  /\ "absent" \notin States
  /\ Terminal \subseteq States
  /\ {"choosing_mode", "initializing_menu"} \subseteq States \ Terminal
  /\ "started" \notin Commands
  <1>1. <<"choosing_mode", "choose_guest", "initializing_menu">> \in Legal
    BY DEF Legal
  <1>2. <<"initializing_menu", "menu_failed", "menu_initialization_failed">> \in Legal
    BY DEF Legal
  <1>3. \A step \in Legal : step[1] # "absent" /\ step[2] # "started"
    BY DEF Legal
  <1> QED BY <1>1, <1>2, <1>3 DEF States, Commands, Terminal

LEMMA TargetFacts ==
  ASSUME NEW state, NEW command, NEW target \in Targets(state, command)
  PROVE  /\ target \in States
         /\ state \notin Terminal
         /\ target = "menu_ready" => command = "menu_initialized"
  <1>1. \A step \in Legal : /\ step[1] \notin Terminal
                            /\ step[3] = "menu_ready" => step[2] = "menu_initialized"
    BY DEF Legal, Terminal
  <1>2. CASE <<state, command, target>> \in Legal
    <2>1. target \in States BY StateFacts, <1>2 DEF Targets, Terminal
    <2>2. state \notin Terminal /\ (target = "menu_ready" => command = "menu_initialized")
      BY <1>1, <1>2
    <2> QED BY <2>1, <2>2
  <1>3. CASE <<state, command, target>> \notin Legal
    <2>1. target = "abandoned" /\ state \notin Terminal BY <1>3 DEF Targets
    <2> QED BY <2>1, StateFacts DEF Terminal
  <1> QED BY <1>2, <1>3

-----------------------------------------------------------------------------
(* Types.                                                                  *)

LEMMA Constants ==
  /\ NoFlow \in FlowRow
  /\ NoSession \in SessionRow
  /\ NoLocals \in Locals
  /\ None \notin FlowIds /\ None \notin Sessions
  <1>1. NoFlow \in FlowRow /\ NoSession \in SessionRow
    BY DEF NoFlow, NoSession, FlowRow, SessionRow
  <1>2. "abandon" \in Commands BY DEF Commands
  <1> QED BY <1>1, <1>2, EntryFlowAssumption DEF NoLocals, Locals

\* Who ends its request has nothing left of it.
LEMMA FinishType ==
  ASSUME EntryFlowTypeOK, NEW w \in Workers, Finish(w)
  PROVE  /\ pc' \in [Workers -> Labels]
         /\ loc' \in [Workers -> Locals]
         /\ pc'[w] = "idle"
         /\ \A v \in Workers \ {w} : pc'[v] = pc[v] /\ loc'[v] = loc[v]
  BY Constants DEF Finish, Goto, EntryFlowTypeOK, Labels

\* The steps that write no table but the cart.
TablesUntouched(w) ==
  \/ Start(w) \/ StartConflict(w) \/ Command(w) \/ Boot(w) \/ BootFails(w) \/ Select(w)
  \/ RevisionConflict(w) \/ CommandConflict(w) \/ CloseCart(w) \/ RequestFails(w)

\* What StartInsert does to the tables: a new flow, with its session if it has one.
Begins(f, d, first, s) ==
  /\ f \in FlowIds /\ d \in Devices /\ s \in Sessions \cup {None}
  /\ first \in {"choosing_mode", "initializing_menu"}
  /\ flow[f].state = "absent"
  /\ ActiveFlows(d) = {}
  /\ events' = events \cup {NewEvent(f, 1, "started", first)}
  /\ flow' = [flow EXCEPT ![f] = [state |-> first, revision |-> 1, device |-> d,
                                 session |-> s, member |-> None]]
  /\ \/ s = None /\ session' = session
     \/ /\ s # None /\ session[s].status = "absent"
        /\ session' = [session EXCEPT ![s] = [status |-> "open", flow |-> f, member |-> None]]

LEMMA StartBegins ==
  ASSUME IInv, NEW w \in Workers, StartInsert(w)
  PROVE  \E f, d, first, s : Begins(f, d, first, s)
  <1> DEFINE f == loc[w].flow
             d == loc[w].device
  <1>1. f \in FlowIds /\ d \in Devices
    BY DEF StartInsert, IInv, Threads, Starts
  <1>2. CASE loc[w].membership
    <2>1. Begins(f, d, "choosing_mode", None)
      BY <1>1, <1>2 DEF StartInsert, WriteStart, Begins
    <2> QED BY <2>1
  <1>3. CASE ~loc[w].membership
    <2>1. PICK s \in Sessions :
            /\ session[s].status = "absent"
            /\ flow' = [flow EXCEPT ![f] = [state |-> "initializing_menu", revision |-> 1,
                          device |-> d, session |-> s, member |-> None]]
            /\ session' = [session EXCEPT ![s] =
                            [status |-> "open", flow |-> f, member |-> None]]
      BY <1>3 DEF StartInsert, WriteStart
    <2>2. events' = events \cup {NewEvent(f, 1, "started", "initializing_menu")}
      BY <1>3 DEF StartInsert, WriteStart
    <2>3. Begins(f, d, "initializing_menu", s)
      BY <1>1, <2>1, <2>2, Constants DEF StartInsert, Begins
    <2> QED BY <2>3
  <1> QED BY <1>2, <1>3

\* What CommandCommit does to the tables: although the row was read without a
\* lock, it is the row of now, for a later one would have its event logged.
Moves(w, target, s, member) ==
  LET f == loc[w].flow
      row == flow[f]
  IN /\ f \in FlowIds /\ row.state # "absent"
     /\ target \in Targets(row.state, loc[w].command)
     /\ member \in Members \cup {None}
     /\ s \in Sessions \cup {None}
     /\ events' = events \cup {NewEvent(f, row.revision + 1, loc[w].command, target)}
     /\ flow' = [flow EXCEPT ![f] = [@ EXCEPT !.state = target, !.revision = row.revision + 1,
                                    !.session = s, !.member = member]]
     /\ \/ /\ row.session = None /\ s # None /\ session[s].status = "absent"
           /\ target = "initializing_menu"
           /\ session' = [session EXCEPT ![s] = [status |-> "open", flow |-> f, member |-> member]]
        \/ /\ s = row.session
           /\ session' = CloseSession(session, s, target)

LEMMA CommitReadsNow ==
  ASSUME IInv, NEW w \in Workers, pc[w] = "commit", ~Refused(w)
  PROVE  loc[w].flow \in FlowIds /\ loc[w].current = flow[loc[w].flow]
           /\ loc[w].current.state # "absent"
  <1> DEFINE f == loc[w].flow
             row == loc[w].current
  <1>1. /\ f \in FlowIds /\ row.state # "absent"
        /\ row.revision <= flow[f].revision
        /\ row.revision = flow[f].revision => row = flow[f]
    BY DEF IInv, Threads, Snapshots
  <1>2. row.revision \in Nat /\ flow[f].revision \in Nat
    BY <1>1 DEF IInv, EntryFlowTypeOK, Locals, FlowRow
  <1>3. ~Logged(f, row.revision + 1) BY DEF Refused
  <1>4. ~(row.revision + 1 \in 1..flow[f].revision)
    BY <1>1, <1>3 DEF IInv, Tables, LogReplays
  <1> QED BY <1>1, <1>2, <1>4

LEMMA CommandMoves ==
  ASSUME IInv, NEW w \in Workers, CommandCommit(w)
  PROVE  \E target, s, member : Moves(w, target, s, member)
  <1> DEFINE f == loc[w].flow
             row == loc[w].current
             member == IF loc[w].member = None THEN row.member ELSE loc[w].member
  <1>1. f \in FlowIds /\ row = flow[f] /\ row.state # "absent"
    BY CommitReadsNow DEF CommandCommit
  <1>2. member \in Members \cup {None} /\ row.session \in Sessions \cup {None}
    BY <1>1 DEF IInv, EntryFlowTypeOK, Locals, FlowRow
  <1>3. PICK target \in Targets(row.state, loc[w].command), s \in Sessions \cup {None} :
          /\ events' = events \cup {NewEvent(f, row.revision + 1, loc[w].command, target)}
          /\ IF NeedsSession(row, target)
             THEN /\ s # None /\ session[s].status = "absent"
                  /\ session' = [session EXCEPT ![s] =
                                  [status |-> "open", flow |-> f, member |-> member]]
             ELSE /\ s = KeptSession(row, target)
                  /\ session' = CloseSession(session, s, target)
          /\ flow' = [flow EXCEPT ![f] =
               [@ EXCEPT !.state = target, !.revision = row.revision + 1,
                         !.session = s, !.member = member]]
    BY DEF CommandCommit, WriteCommand
  <1>4. Moves(w, target, s, member)
    <2>1. CASE NeedsSession(row, target)
      BY <1>1, <1>2, <1>3, <2>1 DEF Moves, NeedsSession
    <2>2. CASE ~NeedsSession(row, target)
      BY <1>1, <1>2, <1>3, <2>2 DEF Moves, KeptSession
    <2> QED BY <2>1, <2>2
  <1> QED BY <1>4

LEMMA BeginsType ==
  ASSUME EntryFlowTypeOK, NEW f, NEW d, NEW first, NEW s, Begins(f, d, first, s)
  PROVE  /\ flow' \in [FlowIds -> FlowRow]
         /\ session' \in [Sessions -> SessionRow]
         /\ events' \subseteq Event
  <1>1. first \in States /\ f \in FlowIds /\ d \in Devices /\ s \in Sessions \cup {None}
    BY StateFacts DEF Begins
  <1>2. [state |-> first, revision |-> 1, device |-> d, session |-> s, member |-> None] \in FlowRow
    BY <1>1 DEF FlowRow
  <1>3. NewEvent(f, 1, "started", first) \in Event
    BY <1>1 DEF NewEvent, Event
  <1>4. [status |-> "open", flow |-> f, member |-> None] \in SessionRow
    BY <1>1 DEF SessionRow
  <1> QED BY <1>2, <1>3, <1>4 DEF Begins, EntryFlowTypeOK

LEMMA RowUpdate ==
  ASSUME NEW row \in FlowRow, NEW target \in States, NEW n \in Nat,
         NEW s \in Sessions \cup {None}, NEW member \in Members \cup {None}
  PROVE  [row EXCEPT !.state = target, !.revision = n, !.session = s, !.member = member]
           \in FlowRow
  <1>1. [row EXCEPT !.state = target] \in FlowRow BY DEF FlowRow
  <1>2. [row EXCEPT !.state = target, !.revision = n] \in FlowRow BY <1>1 DEF FlowRow
  <1>3. [row EXCEPT !.state = target, !.revision = n, !.session = s] \in FlowRow
    BY <1>2 DEF FlowRow
  <1> QED BY <1>3 DEF FlowRow

LEMMA MovesType ==
  ASSUME EntryFlowTypeOK, NEW w \in Workers, NEW target, NEW s, NEW member,
         Moves(w, target, s, member)
  PROVE  /\ flow' \in [FlowIds -> FlowRow]
         /\ session' \in [Sessions -> SessionRow]
         /\ events' \subseteq Event
  <1> DEFINE f == loc[w].flow
             row == flow[f]
  <1>1. /\ f \in FlowIds /\ row \in FlowRow
        /\ target \in States /\ loc[w].command \in Commands
        /\ member \in Members \cup {None} /\ s \in Sessions \cup {None}
    BY TargetFacts DEF Moves, EntryFlowTypeOK, Locals
  <1>2. [row EXCEPT !.state = target, !.revision = row.revision + 1, !.session = s,
                    !.member = member] \in FlowRow
    <2>1. row.revision + 1 \in Nat BY <1>1 DEF FlowRow
    <2> QED BY <1>1, <2>1, RowUpdate
  <1>3. NewEvent(f, row.revision + 1, loc[w].command, target) \in Event
    BY <1>1 DEF NewEvent, Event, FlowRow
  <1>4. [status |-> "open", flow |-> f, member |-> member] \in SessionRow
    BY <1>1 DEF SessionRow
  <1>5. CloseSession(session, s, target) \in [Sessions -> SessionRow]
    BY <1>1 DEF CloseSession, EntryFlowTypeOK, SessionRow
  <1>6. flow' \in [FlowIds -> FlowRow] BY <1>2 DEF Moves, EntryFlowTypeOK
  <1> QED BY <1>3, <1>4, <1>5, <1>6 DEF Moves, EntryFlowTypeOK

\* A step that writes no table but the cart.
LEMMA QuietType ==
  ASSUME EntryFlowTypeOK, NEW w \in Workers, TablesUntouched(w)
  PROVE  EntryFlowTypeOK' /\ UNCHANGED <<flow, session, events>>
  <1>1. UNCHANGED <<flow, session, events>>
    BY DEF TablesUntouched, Start, StartConflict, Command, Boot, BootFails, Select, RevisionConflict,
           CommandConflict, CloseCart, RequestFails
  <1>2. cart' \in [Sessions -> CartStatus]
    BY DEF TablesUntouched, Start, StartConflict, Command, Boot, BootFails, Select, RevisionConflict,
           CommandConflict, CloseCart, RequestFails, EntryFlowTypeOK, CartStatus
  <1>3. pc' \in [Workers -> Labels] /\ loc' \in [Workers -> Locals]
    <2>1. CASE Start(w)
      <3>1. PICK d \in Devices, f \in FlowIds, membership \in BOOLEAN :
              loc' = [loc EXCEPT ![w] =
                [NoLocals EXCEPT !.flow = f, !.device = d, !.membership = membership]]
        BY <2>1 DEF Start
      <3>2. [NoLocals EXCEPT !.flow = f, !.device = d, !.membership = membership] \in Locals
        BY Constants DEF Locals
      <3> QED BY <2>1, <3>1, <3>2 DEF Start, Goto, Labels, EntryFlowTypeOK
    <2>2. CASE Command(w)
      <3>1. PICK f \in FlowIds, c \in Commands, m \in Members \cup {None} :
              /\ loc' = [loc EXCEPT ![w] =
                   [NoLocals EXCEPT !.flow = f, !.command = c, !.member = m, !.current = flow[f]]]
              /\ Goto(w, IF c = "menu_initialized" THEN "boot" ELSE "select")
        BY <2>2 DEF Command
      <3>2. [NoLocals EXCEPT !.flow = f, !.command = c, !.member = m, !.current = flow[f]] \in Locals
        BY Constants DEF Locals, EntryFlowTypeOK
      <3> QED BY <2>2, <3>1, <3>2 DEF Goto, Labels, EntryFlowTypeOK
    <2>3. CASE Boot(w) \/ Select(w)
      BY <2>3, FinishType DEF Boot, Select, Goto, Labels, EntryFlowTypeOK
    <2>4. CASE StartConflict(w) \/ BootFails(w) \/ RevisionConflict(w) \/ CommandConflict(w)
                 \/ CloseCart(w) \/ RequestFails(w)
      BY <2>4, FinishType DEF StartConflict, BootFails, RevisionConflict, CommandConflict,
                              CloseCart, RequestFails
    <2> QED BY <2>1, <2>2, <2>3, <2>4 DEF TablesUntouched
  <1> QED BY <1>1, <1>2, <1>3 DEF EntryFlowTypeOK

\* The threads of a step that writes the tables.
LEMMA WriterThreads ==
  ASSUME EntryFlowTypeOK, NEW w \in Workers, StartInsert(w) \/ CommandCommit(w)
  PROVE  /\ cart' = cart
         /\ pc' \in [Workers -> Labels] /\ loc' \in [Workers -> Locals]
         /\ pc'[w] \in {"idle", "close"}
         /\ \A v \in Workers \ {w} : pc'[v] = pc[v] /\ loc'[v] = loc[v]
  <1>1. CASE StartInsert(w) BY <1>1, FinishType DEF StartInsert
  <1>2. CASE CommandCommit(w)
    <2>1. (Goto(w, "close") /\ UNCHANGED loc) \/ Finish(w)
      BY <1>2 DEF CommandCommit, WriteCommand
    <2> QED BY <1>2, <2>1, FinishType DEF CommandCommit, Goto, Labels, EntryFlowTypeOK
  <1> QED BY <1>1, <1>2

LEMMA TypeNext == IInv /\ [EntryFlowNext]_entryFlow => EntryFlowTypeOK'
  <1> SUFFICES ASSUME IInv, [EntryFlowNext]_entryFlow PROVE EntryFlowTypeOK'
    OBVIOUS
  <1> USE DEF IInv
  <1>1. CASE UNCHANGED entryFlow
    BY <1>1 DEF entryFlow, EntryFlowTypeOK
  <1>2. ASSUME NEW w \in Workers, TablesUntouched(w) PROVE EntryFlowTypeOK'
    BY <1>2, QuietType
  <1>3. ASSUME NEW w \in Workers, StartInsert(w) PROVE EntryFlowTypeOK'
    BY <1>3, StartBegins, BeginsType, WriterThreads DEF EntryFlowTypeOK
  <1>4. ASSUME NEW w \in Workers, CommandCommit(w) PROVE EntryFlowTypeOK'
    BY <1>4, CommandMoves, MovesType, WriterThreads DEF EntryFlowTypeOK
  <1> QED BY <1>1, <1>2, <1>3, <1>4 DEF EntryFlowNext, TablesUntouched

-----------------------------------------------------------------------------
(* Request threads.                                                        *)

\* A row that is written gets a later revision.
LEMMA RowsAdvance ==
  ASSUME IInv, [EntryFlowNext]_entryFlow, NEW f \in FlowIds
  PROVE  flow'[f] = flow[f] \/ flow'[f].revision > flow[f].revision
  <1> USE DEF IInv
  <1>1. CASE UNCHANGED entryFlow BY <1>1 DEF entryFlow
  <1>2. ASSUME NEW w \in Workers, TablesUntouched(w) PROVE flow' = flow
    BY <1>2, QuietType
  <1>3. ASSUME NEW w \in Workers, StartInsert(w)
        PROVE  flow'[f] = flow[f] \/ flow'[f].revision > flow[f].revision
    <2>1. PICK g, d, first, s : Begins(g, d, first, s) BY <1>3, StartBegins
    <2>2. flow[g].revision = 0 BY <2>1 DEF Begins, Tables, AbsentIsNew
    <2>3. CASE f = g BY <2>1, <2>2, <2>3 DEF Begins, EntryFlowTypeOK
    <2>4. CASE f # g BY <2>1, <2>4 DEF Begins, EntryFlowTypeOK
    <2> QED BY <2>3, <2>4
  <1>4. ASSUME NEW w \in Workers, CommandCommit(w)
        PROVE  flow'[f] = flow[f] \/ flow'[f].revision > flow[f].revision
    <2>1. PICK target, s, member : Moves(w, target, s, member) BY <1>4, CommandMoves
    <2>2. flow[loc[w].flow] \in FlowRow BY <2>1 DEF Moves, EntryFlowTypeOK
    <2>3. CASE f = loc[w].flow
      <3>1. flow'[f].revision = flow[f].revision + 1
        BY <2>1, <2>2, <2>3 DEF Moves, EntryFlowTypeOK, FlowRow
      <3> QED BY <2>2, <2>3, <3>1 DEF FlowRow
    <2>4. CASE f # loc[w].flow BY <2>1, <2>4 DEF Moves, EntryFlowTypeOK
    <2> QED BY <2>3, <2>4
  <1> QED BY <1>1, <1>2, <1>3, <1>4 DEF EntryFlowNext, TablesUntouched

\* A cart that was made stays made.
LEMMA CartsStay ==
  ASSUME IInv, [EntryFlowNext]_entryFlow, NEW s \in Sessions, cart[s] # "absent"
  PROVE  cart'[s] # "absent"
  <1> USE DEF IInv
  <1>1. CASE UNCHANGED entryFlow BY <1>1 DEF entryFlow
  <1>2. ASSUME NEW w \in Workers, Boot(w) PROVE cart'[s] # "absent"
    BY <1>2 DEF Boot, EntryFlowTypeOK
  <1>3. ASSUME NEW w \in Workers, CloseCart(w) PROVE cart'[s] # "absent"
    BY <1>3 DEF CloseCart, EntryFlowTypeOK
  <1>4. ASSUME NEW w \in Workers,
               Start(w) \/ StartConflict(w) \/ Command(w) \/ BootFails(w) \/ Select(w)
                 \/ RevisionConflict(w) \/ CommandConflict(w) \/ RequestFails(w)
                 \/ StartInsert(w) \/ CommandCommit(w)
        PROVE  cart' = cart
    BY <1>4, WriterThreads DEF Start, StartConflict, Command, BootFails, Select,
                               RevisionConflict, CommandConflict, RequestFails
  <1> QED BY <1>1, <1>2, <1>3, <1>4 DEF EntryFlowNext

\* What a step does to one thread: it goes on with what it read, begins, or ends.
LEMMA ThreadSteps ==
  ASSUME IInv, [EntryFlowNext]_entryFlow, NEW v \in Workers
  PROVE  \/ pc'[v] = pc[v] /\ loc'[v] = loc[v]
         \/ pc'[v] \in {"idle", "close"}
         \/ /\ pc'[v] = "insert"
            /\ loc'[v].flow \in FlowIds /\ loc'[v].device \in Devices
         \/ /\ pc'[v] \in {"boot", "select"}
            /\ loc'[v].flow \in FlowIds /\ loc'[v].current = flow[loc'[v].flow]
            /\ loc'[v].current.state # "absent" /\ flow' = flow
            /\ pc'[v] = "select" => loc'[v].command # "menu_initialized"
         \/ /\ pc[v] \in {"boot", "select"} /\ pc'[v] \in {"select", "commit"}
            /\ loc'[v] = loc[v]
            /\ pc[v] = "boot" => /\ loc[v].current.session # None
                                 /\ cart'[loc[v].current.session] # "absent"
  <1> USE DEF IInv
  <1>1. CASE UNCHANGED entryFlow BY <1>1 DEF entryFlow
  <1>2. ASSUME NEW w \in Workers, StartInsert(w) \/ CommandCommit(w)
        PROVE  (pc'[v] = pc[v] /\ loc'[v] = loc[v]) \/ pc'[v] \in {"idle", "close"}
    BY <1>2, WriterThreads
  <1>3. ASSUME NEW w \in Workers,
               StartConflict(w) \/ BootFails(w) \/ RevisionConflict(w)
                 \/ CommandConflict(w) \/ CloseCart(w) \/ RequestFails(w)
        PROVE  (pc'[v] = pc[v] /\ loc'[v] = loc[v]) \/ pc'[v] \in {"idle", "close"}
    <2>1. Finish(w) BY <1>3 DEF StartConflict, BootFails, RevisionConflict,
                                CommandConflict, CloseCart, RequestFails
    <2> QED BY <2>1, FinishType
  <1>4. ASSUME NEW w \in Workers, Start(w)
        PROVE  \/ pc'[v] = pc[v] /\ loc'[v] = loc[v]
               \/ /\ pc'[v] = "insert"
                  /\ loc'[v].flow \in FlowIds /\ loc'[v].device \in Devices
    <2>1. PICK d \in Devices, f \in FlowIds, membership \in BOOLEAN :
            loc' = [loc EXCEPT ![w] =
              [NoLocals EXCEPT !.flow = f, !.device = d, !.membership = membership]]
      BY <1>4 DEF Start
    <2>2. CASE v = w
      BY <1>4, <2>1, <2>2 DEF Start, Goto, EntryFlowTypeOK, NoLocals
    <2>3. CASE v # w
      BY <1>4, <2>1, <2>3 DEF Start, Goto, EntryFlowTypeOK
    <2> QED BY <2>2, <2>3
  <1>5. ASSUME NEW w \in Workers, Command(w)
        PROVE  \/ pc'[v] = pc[v] /\ loc'[v] = loc[v]
               \/ /\ pc'[v] \in {"boot", "select"}
                  /\ loc'[v].flow \in FlowIds /\ loc'[v].current = flow[loc'[v].flow]
                  /\ loc'[v].current.state # "absent" /\ flow' = flow
                  /\ pc'[v] = "select" => loc'[v].command # "menu_initialized"
    <2>1. PICK f \in FlowIds, c \in Commands, m \in Members \cup {None} :
            /\ flow[f].state # "absent"
            /\ loc' = [loc EXCEPT ![w] =
                 [NoLocals EXCEPT !.flow = f, !.command = c, !.member = m, !.current = flow[f]]]
            /\ Goto(w, IF c = "menu_initialized" THEN "boot" ELSE "select")
      BY <1>5 DEF Command
    <2>2. CASE v = w
      <3>1. loc'[v].flow = f /\ loc'[v].command = c /\ loc'[v].current = flow[f]
        BY <2>1, <2>2 DEF EntryFlowTypeOK, NoLocals
      <3>2. pc'[v] = IF c = "menu_initialized" THEN "boot" ELSE "select"
        BY <2>1, <2>2 DEF EntryFlowTypeOK, Goto
      <3> QED BY <1>5, <2>1, <3>1, <3>2 DEF Command
    <2>3. CASE v # w
      BY <1>5, <2>1, <2>3 DEF Goto, EntryFlowTypeOK
    <2> QED BY <2>2, <2>3
  <1>6. ASSUME NEW w \in Workers, Boot(w)
        PROVE  \/ pc'[v] = pc[v] /\ loc'[v] = loc[v]
               \/ pc'[v] = "idle"
               \/ /\ pc[v] = "boot" /\ pc'[v] = "select" /\ loc'[v] = loc[v]
                  /\ loc[v].current.session # None
                  /\ cart'[loc[v].current.session] # "absent"
    <2>1. CASE Finish(w) BY <2>1, FinishType
    <2>2. CASE Goto(w, "select") /\ UNCHANGED loc
      <3>1. loc[w].current.session \in Sessions
        BY <1>6 DEF Boot, EntryFlowTypeOK, Locals, FlowRow
      <3>2. cart'[loc[w].current.session] # "absent"
        BY <1>6, <3>1 DEF Boot, EntryFlowTypeOK
      <3> QED BY <1>6, <2>2, <3>2 DEF Boot, Goto, EntryFlowTypeOK
    <2> QED BY <1>6, <2>1, <2>2 DEF Boot
  <1>7. ASSUME NEW w \in Workers, Select(w)
        PROVE  \/ pc'[v] = pc[v] /\ loc'[v] = loc[v]
               \/ pc[v] = "select" /\ pc'[v] = "commit" /\ loc'[v] = loc[v]
    BY <1>7 DEF Select, Goto, EntryFlowTypeOK
  <1> QED BY <1>1, <1>2, <1>3, <1>4, <1>5, <1>6, <1>7 DEF EntryFlowNext

LEMMA ThreadsNext == IInv /\ [EntryFlowNext]_entryFlow => Threads'
  <1> SUFFICES ASSUME IInv, [EntryFlowNext]_entryFlow PROVE Threads'
    OBVIOUS
  <1>1. Snapshots'
    <2> SUFFICES ASSUME NEW v \in Workers, pc'[v] \in {"boot", "select", "commit"}
                 PROVE  /\ loc'[v].flow \in FlowIds
                        /\ loc'[v].current.state # "absent"
                        /\ loc'[v].current.revision <= flow'[loc'[v].flow].revision
                        /\ loc'[v].current.revision = flow'[loc'[v].flow].revision =>
                             loc'[v].current = flow'[loc'[v].flow]
      BY DEF Snapshots
    <2>1. CASE pc[v] \in {"boot", "select", "commit"} /\ loc'[v] = loc[v]
      <3>1. /\ loc[v].flow \in FlowIds /\ loc[v].current.state # "absent"
            /\ loc[v].current.revision <= flow[loc[v].flow].revision
            /\ loc[v].current.revision = flow[loc[v].flow].revision =>
                 loc[v].current = flow[loc[v].flow]
        BY <2>1 DEF IInv, Threads, Snapshots
      <3>2. loc[v].current.revision \in Nat /\ flow[loc[v].flow].revision \in Nat
        BY <3>1 DEF IInv, EntryFlowTypeOK, Locals, FlowRow
      <3>3. flow'[loc[v].flow].revision \in Nat
        BY <3>1, TypeNext DEF EntryFlowTypeOK, FlowRow
      <3>4. \/ flow'[loc[v].flow] = flow[loc[v].flow]
            \/ flow'[loc[v].flow].revision > flow[loc[v].flow].revision
        BY <3>1, RowsAdvance
      <3> QED BY <2>1, <3>1, <3>2, <3>3, <3>4
    <2>2. CASE /\ loc'[v].flow \in FlowIds /\ loc'[v].current = flow[loc'[v].flow]
               /\ loc'[v].current.state # "absent" /\ flow' = flow
      <3>1. loc'[v].current.revision \in Nat
        BY <2>2 DEF IInv, EntryFlowTypeOK, FlowRow
      <3> QED BY <2>2, <3>1
    <2> QED BY <2>1, <2>2, ThreadSteps
  <1>2. Starts'
    BY ThreadSteps DEF Starts, IInv, Threads
  <1>3. Booted'
    <2> SUFFICES ASSUME NEW v \in Workers, pc'[v] \in {"select", "commit"},
                        loc'[v].command = "menu_initialized"
                 PROVE  /\ loc'[v].current.session # None
                        /\ cart'[loc'[v].current.session] # "absent"
      BY DEF Booted
    <2>1. CASE pc[v] \in {"select", "commit"} /\ loc'[v] = loc[v]
      <3>1. loc[v].current.session # None /\ cart[loc[v].current.session] # "absent"
        BY <2>1 DEF IInv, Threads, Booted
      <3>2. loc[v].current.session \in Sessions
        BY <3>1 DEF IInv, EntryFlowTypeOK, Locals, FlowRow
      <3> QED BY <2>1, <3>1, <3>2, CartsStay
    <2>2. CASE pc[v] = "boot" /\ loc'[v] = loc[v] /\ loc[v].current.session # None
                 /\ cart'[loc[v].current.session] # "absent"
      BY <2>2
    <2> QED BY <2>1, <2>2, ThreadSteps
  <1> QED BY <1>1, <1>2, <1>3 DEF Threads

-----------------------------------------------------------------------------
(* Tables.                                                                 *)

\* A step that writes no table but the cart keeps what is said of the others.
LEMMA TablesQuiet ==
  ASSUME IInv, [EntryFlowNext]_entryFlow, UNCHANGED <<flow, session, events>>
  PROVE  Tables'
  <1>1. MenuReadyIsBootstrapped'
    <2> SUFFICES ASSUME NEW f \in FlowIds, flow[f].state = "menu_ready"
                 PROVE  /\ flow[f].session # None
                        /\ session[flow[f].session].status = "open"
                        /\ cart'[flow[f].session] # "absent"
      BY DEF MenuReadyIsBootstrapped
    <2>1. /\ flow[f].session # None
          /\ session[flow[f].session].status = "open"
          /\ cart[flow[f].session] # "absent"
      BY DEF IInv, Tables, MenuReadyIsBootstrapped
    <2>2. flow[f].session \in Sessions BY <2>1 DEF IInv, EntryFlowTypeOK, FlowRow
    <2> QED BY <2>1, <2>2, CartsStay
  <1>2. AbsentIsNew' /\ LogReplays' /\ OneActiveFlow' /\ SessionFollowsFlow' /\ FlowHasItsSession'
    BY DEF IInv, Tables, AbsentIsNew, LogReplays, Logged, OneActiveFlow, ActiveFlows, Active,
           SessionFollowsFlow, FlowHasItsSession
  <1> QED BY <1>1, <1>2 DEF Tables

LEMMA TablesBegin ==
  ASSUME IInv, cart' = cart, NEW f, NEW d, NEW first, NEW s, Begins(f, d, first, s)
  PROVE  Tables'
  <1> USE DEF IInv, Tables
  <1>1. /\ f \in FlowIds /\ d \in Devices /\ s \in Sessions \cup {None}
        /\ first \in {"choosing_mode", "initializing_menu"}
        /\ flow[f].state = "absent" /\ flow[f].revision = 0
        /\ ActiveFlows(d) = {}
        /\ events' = events \cup {NewEvent(f, 1, "started", first)}
        /\ flow'[f] = [state |-> first, revision |-> 1, device |-> d, session |-> s,
                       member |-> None]
        /\ \A g \in FlowIds \ {f} : flow'[g] = flow[g]
    BY DEF Begins, AbsentIsNew, EntryFlowTypeOK
  <1>2. /\ s # None => /\ session[s].status = "absent"
                       /\ session'[s] = [status |-> "open", flow |-> f, member |-> None]
        /\ \A t \in Sessions \ {s} : session'[t] = session[t]
    BY Constants DEF Begins, EntryFlowTypeOK
  <1>3. \A e \in events : e.flow \in FlowIds /\ e.flow # f
    BY <1>1 DEF EntryFlowTypeOK, Event, LogReplays
  <1>4. AbsentIsNew'
    BY <1>1 DEF AbsentIsNew
  <1>5. LogReplays'
    <2> DEFINE new == NewEvent(f, 1, "started", first)
    <2>1. new.flow = f /\ new.revision = 1 /\ new.command = "started" /\ new.state = first
      BY DEF NewEvent
    <2>2. ASSUME NEW e \in events'
          PROVE  /\ e.revision \in 1..flow'[e.flow].revision
                 /\ e.revision = flow'[e.flow].revision => e.state = flow'[e.flow].state
                 /\ e.command = "started" <=> e.revision = 1
      BY <1>1, <1>3, <2>1 DEF LogReplays
    <2>3. ASSUME NEW e \in events', NEW g \in events'
          PROVE  /\ (g.flow = e.flow /\ g.revision = e.revision) => g = e
                 /\ (g.flow = e.flow /\ g.revision + 1 = e.revision) =>
                      e.state \in Targets(g.state, e.command)
      BY <1>1, <1>3, <2>1 DEF LogReplays
    <2>4. ASSUME NEW g \in FlowIds, NEW n \in 1..flow'[g].revision PROVE Logged(g, n)'
      <3>1. CASE g = f
        <4>1. n = 1 BY <1>1, <3>1
        <4> QED BY <1>1, <2>1, <3>1, <4>1 DEF Logged
      <3>2. CASE g # f
        <4>1. Logged(g, n) BY <1>1, <3>2 DEF LogReplays
        <4> QED BY <1>1, <4>1 DEF Logged
      <3> QED BY <3>1, <3>2
    <2> QED BY <2>2, <2>3, <2>4 DEF LogReplays
  <1>6. OneActiveFlow'
    BY <1>1 DEF OneActiveFlow, ActiveFlows, Active
  <1>7. \A g \in FlowIds : flow[g].session # None => g # f /\ flow[g].session \in Sessions
                             /\ flow[g].session # s
    <2>1. \A g \in FlowIds : flow[g].session \in Sessions \cup {None}
      BY DEF EntryFlowTypeOK, FlowRow
    <2>2. flow[f].session = None BY <1>1 DEF AbsentIsNew
    <2> QED BY <1>2, <2>1, <2>2 DEF FlowHasItsSession
  <1>8. SessionFollowsFlow'
    <2> SUFFICES ASSUME NEW t \in Sessions, session'[t].status # "absent"
                 PROVE  /\ session'[t].flow # None
                        /\ flow'[session'[t].flow].session = t
                        /\ session'[t].status = "abandoned" <=>
                             flow'[session'[t].flow].state = "abandoned"
      BY DEF SessionFollowsFlow
    <2>1. CASE t = s BY <1>1, <1>2, <2>1, Constants
    <2>2. CASE t # s
      <3>1. session'[t] = session[t] BY <1>2, <2>2
      <3>2. /\ session[t].flow # None /\ flow[session[t].flow].session = t
            /\ session[t].status = "abandoned" <=> flow[session[t].flow].state = "abandoned"
        BY <3>1 DEF SessionFollowsFlow
      <3>3. session[t].flow \in FlowIds BY <3>2 DEF EntryFlowTypeOK, SessionRow
      <3>4. session[t].flow # f BY <1>7, <3>2, <3>3, Constants
      <3> QED BY <1>1, <3>1, <3>2, <3>3, <3>4
    <2> QED BY <2>1, <2>2
  <1>9. FlowHasItsSession'
    BY <1>1, <1>2, <1>7 DEF FlowHasItsSession
  <1>10. MenuReadyIsBootstrapped'
    BY <1>1, <1>2, <1>7 DEF MenuReadyIsBootstrapped
  <1> QED BY <1>4, <1>5, <1>6, <1>8, <1>9, <1>10

LEMMA TablesMove ==
  ASSUME IInv, NEW w \in Workers, CommandCommit(w),
         NEW target, NEW s, NEW member, Moves(w, target, s, member)
  PROVE  Tables'
  <1> USE DEF IInv, Tables
  <1> DEFINE f == loc[w].flow
             row == flow[f]
             c == loc[w].command
             new == NewEvent(f, row.revision + 1, c, target)
  <1>1. /\ f \in FlowIds /\ row \in FlowRow /\ s \in Sessions \cup {None}
        /\ c \in Commands /\ row.revision \in Nat
        /\ row.state # "absent" /\ row.state \notin Terminal
        /\ target \in Targets(row.state, c) /\ target # "absent"
        /\ target = "menu_ready" => c = "menu_initialized"
    BY TargetFacts, StateFacts DEF Moves, EntryFlowTypeOK, Locals, FlowRow
  <1>2. /\ flow'[f].state = target /\ flow'[f].revision = row.revision + 1
        /\ flow'[f].session = s /\ flow'[f].device = row.device
        /\ \A g \in FlowIds \ {f} : flow'[g] = flow[g]
    BY <1>1 DEF Moves, EntryFlowTypeOK, FlowRow
  <1>3. new.flow = f /\ new.revision = row.revision + 1 /\ new.command = c /\ new.state = target
    BY DEF NewEvent
  <1>4. events' = events \cup {new} BY DEF Moves
  <1>5. \A g \in FlowIds : flow[g].revision \in Nat BY DEF EntryFlowTypeOK, FlowRow
  <1>6. AbsentIsNew'
    BY <1>1, <1>2, <1>5 DEF AbsentIsNew
  <1>7. row.revision >= 1 BY <1>1 DEF AbsentIsNew
  <1>8. LogReplays'
    <2>1. \A e \in events : /\ e.flow \in FlowIds /\ e.revision \in 1..flow[e.flow].revision
                            /\ e.flow = f => e.revision <= row.revision
      BY <1>1 DEF EntryFlowTypeOK, Event, LogReplays
    <2>2. ASSUME NEW e \in events'
          PROVE  /\ e.revision \in 1..flow'[e.flow].revision
                 /\ e.revision = flow'[e.flow].revision => e.state = flow'[e.flow].state
                 /\ e.command = "started" <=> e.revision = 1
      <3>1. CASE e \in events
        <4>1. /\ e.revision = flow[e.flow].revision => e.state = flow[e.flow].state
              /\ e.command = "started" <=> e.revision = 1
          BY <3>1 DEF LogReplays
        <4>2. CASE e.flow = f
          BY <1>1, <1>2, <2>1, <3>1, <4>1, <4>2
        <4>3. CASE e.flow # f
          BY <1>2, <2>1, <3>1, <4>1, <4>3
        <4> QED BY <4>2, <4>3
      <3>2. CASE e = new
        BY <1>1, <1>2, <1>3, <1>7, <3>2, StateFacts
      <3> QED BY <1>4, <3>1, <3>2
    <2>3. ASSUME NEW e \in events', NEW d \in events', d.flow = e.flow
          PROVE  /\ d.revision = e.revision => d = e
                 /\ d.revision + 1 = e.revision => e.state \in Targets(d.state, e.command)
      <3>1. CASE e \in events /\ d \in events
        BY <2>3, <3>1 DEF LogReplays
      <3>2. CASE e = new /\ d \in events
        <4>1. d.flow = f /\ d.revision \in Nat /\ d.revision <= row.revision
          BY <1>3, <2>1, <2>3, <3>2 DEF EntryFlowTypeOK, Event
        <4>2. d.revision = row.revision => d.state = row.state
          BY <3>2, <4>1 DEF LogReplays
        <4> QED BY <1>1, <1>3, <3>2, <4>1, <4>2
      <3>3. CASE e \in events /\ d = new
        <4>1. e.flow = f /\ e.revision \in Nat /\ e.revision <= row.revision
          BY <1>3, <2>1, <2>3, <3>3 DEF EntryFlowTypeOK, Event
        <4> QED BY <1>1, <1>3, <3>3, <4>1
      <3>4. CASE e = new /\ d = new
        BY <1>1, <1>3, <3>4
      <3> QED BY <1>4, <3>1, <3>2, <3>3, <3>4
    <2>4. ASSUME NEW g \in FlowIds, NEW n \in 1..flow'[g].revision PROVE Logged(g, n)'
      <3>1. CASE g = f /\ n = row.revision + 1
        BY <1>3, <1>4, <3>1 DEF Logged
      <3>2. CASE ~(g = f /\ n = row.revision + 1)
        <4>1. n \in 1..flow[g].revision BY <1>1, <1>2, <1>5, <3>2
        <4>2. Logged(g, n) BY <4>1 DEF LogReplays
        <4> QED BY <1>4, <4>2 DEF Logged
      <3> QED BY <3>1, <3>2
    <2> QED BY <2>2, <2>3, <2>4 DEF LogReplays
  <1>9. OneActiveFlow'
    <2>1. ASSUME NEW g \in FlowIds, Active(g)' PROVE Active(g) /\ flow'[g].device = flow[g].device
      BY <1>1, <1>2, <2>1 DEF Active
    <2> QED BY <2>1 DEF OneActiveFlow, ActiveFlows
  <1>10. CASE /\ row.session = None /\ s # None /\ session[s].status = "absent"
              /\ target = "initializing_menu"
              /\ session' = [session EXCEPT ![s] =
                              [status |-> "open", flow |-> f, member |-> member]]
    <2>1. /\ s \in Sessions
          /\ session'[s].status = "open" /\ session'[s].flow = f
          /\ \A t \in Sessions \ {s} : session'[t] = session[t]
      BY <1>1, <1>10 DEF EntryFlowTypeOK
    <2>2. \A g \in FlowIds : flow[g].session # None =>
            g # f /\ flow[g].session \in Sessions /\ flow[g].session # s
      BY <1>10 DEF FlowHasItsSession, EntryFlowTypeOK, FlowRow
    <2>3. SessionFollowsFlow'
      <3> SUFFICES ASSUME NEW t \in Sessions, session'[t].status # "absent"
                   PROVE  /\ session'[t].flow # None
                          /\ flow'[session'[t].flow].session = t
                          /\ session'[t].status = "abandoned" <=>
                               flow'[session'[t].flow].state = "abandoned"
        BY DEF SessionFollowsFlow
      <3>1. CASE t = s BY <1>1, <1>2, <1>10, <2>1, <3>1, Constants
      <3>2. CASE t # s
        <4>1. session'[t] = session[t] BY <2>1, <3>2
        <4>2. /\ session[t].flow # None /\ flow[session[t].flow].session = t
              /\ session[t].status = "abandoned" <=> flow[session[t].flow].state = "abandoned"
          BY <4>1 DEF SessionFollowsFlow
        <4>3. session[t].flow \in FlowIds BY <4>2 DEF EntryFlowTypeOK, SessionRow
        <4>4. session[t].flow # f BY <1>10, <4>2, Constants
        <4> QED BY <1>2, <4>1, <4>2, <4>3, <4>4
      <3> QED BY <3>1, <3>2
    <2>4. FlowHasItsSession'
      BY <1>2, <2>1, <2>2 DEF FlowHasItsSession
    <2>5. MenuReadyIsBootstrapped'
      BY <1>2, <1>10, <2>1, <2>2, WriterThreads DEF MenuReadyIsBootstrapped
    <2> QED BY <1>6, <1>8, <1>9, <2>3, <2>4, <2>5
  <1>11. CASE s = row.session /\ session' = CloseSession(session, s, target)
    <2>1. /\ s # None /\ target = "abandoned" => session'[s].status = "abandoned"
          /\ s # None /\ target # "abandoned" => session'[s] = session[s]
          /\ s # None => session'[s].flow = session[s].flow
          /\ \A t \in Sessions \ {s} : session'[t] = session[t]
      BY <1>1, <1>11 DEF CloseSession, EntryFlowTypeOK, SessionRow
    <2>2. s # None => /\ session[s].status # "absent" /\ session[s].flow = f
                      /\ session[s].status = "open"
      <3> SUFFICES ASSUME s # None
                   PROVE  /\ session[s].status # "absent" /\ session[s].flow = f
                          /\ session[s].status = "open"
        OBVIOUS
      <3>1. session[s].status # "absent" /\ session[s].flow = f
        BY <1>1, <1>11 DEF FlowHasItsSession
      <3>2. session[s].status # "abandoned"
        BY <1>1, <3>1 DEF SessionFollowsFlow, Terminal
      <3> QED BY <1>1, <3>1, <3>2 DEF EntryFlowTypeOK, SessionRow
    <2>3. \A g \in FlowIds \ {f} : flow[g].session # None =>
            flow[g].session \in Sessions /\ flow[g].session # s
      BY <2>2 DEF FlowHasItsSession, EntryFlowTypeOK, FlowRow
    <2>4. SessionFollowsFlow'
      <3> SUFFICES ASSUME NEW t \in Sessions, session'[t].status # "absent"
                   PROVE  /\ session'[t].flow # None
                          /\ flow'[session'[t].flow].session = t
                          /\ session'[t].status = "abandoned" <=>
                               flow'[session'[t].flow].state = "abandoned"
        BY DEF SessionFollowsFlow
      <3>1. CASE t = s
        <4>1. s # None BY <3>1, Constants
        <4> QED BY <1>1, <1>2, <2>1, <2>2, <3>1, <4>1, Constants
      <3>2. CASE t # s
        <4>1. session'[t] = session[t] BY <2>1, <3>2
        <4>2. /\ session[t].flow # None /\ flow[session[t].flow].session = t
              /\ session[t].status = "abandoned" <=> flow[session[t].flow].state = "abandoned"
          BY <4>1 DEF SessionFollowsFlow
        <4>3. session[t].flow \in FlowIds BY <4>2 DEF EntryFlowTypeOK, SessionRow
        <4>4. session[t].flow # f BY <1>11, <3>2, <4>2
        <4> QED BY <1>2, <4>1, <4>2, <4>3, <4>4
      <3> QED BY <3>1, <3>2
    <2>5. FlowHasItsSession'
      <3>1. s # None => session'[s].status # "absent" /\ session'[s].flow = f
        BY <2>1, <2>2
      <3> QED BY <1>2, <2>1, <2>3, <3>1 DEF FlowHasItsSession
    <2>6. MenuReadyIsBootstrapped'
      <3>1. cart' = cart BY WriterThreads
      <3>2. ASSUME target = "menu_ready"
            PROVE  s # None /\ session'[s].status = "open" /\ cart[s] # "absent"
        <4>1. loc[w].current = row BY CommitReadsNow DEF CommandCommit
        <4>2. s # None /\ cart[s] # "absent"
          BY <1>1, <1>11, <3>2, <4>1 DEF Threads, Booted, CommandCommit
        <4> QED BY <2>1, <2>2, <3>2, <4>2
      <3>3. ASSUME NEW g \in FlowIds, flow'[g].state = "menu_ready"
            PROVE  /\ flow'[g].session # None
                   /\ session'[flow'[g].session].status = "open"
                   /\ cart'[flow'[g].session] # "absent"
        <4>1. CASE g = f BY <1>2, <3>1, <3>2, <3>3, <4>1
        <4>2. CASE g # f
          BY <1>2, <2>1, <2>3, <3>1, <3>3, <4>2 DEF MenuReadyIsBootstrapped
        <4> QED BY <4>1, <4>2
      <3> QED BY <3>3 DEF MenuReadyIsBootstrapped
    <2> QED BY <1>6, <1>8, <1>9, <2>4, <2>5, <2>6
  <1> QED BY <1>10, <1>11 DEF Moves

LEMMA TablesNext == IInv /\ [EntryFlowNext]_entryFlow => Tables'
  <1> SUFFICES ASSUME IInv, [EntryFlowNext]_entryFlow PROVE Tables'
    OBVIOUS
  <1>1. CASE UNCHANGED entryFlow
    BY <1>1, TablesQuiet DEF entryFlow
  <1>2. ASSUME NEW w \in Workers, TablesUntouched(w) PROVE Tables'
    BY <1>2, QuietType, TablesQuiet DEF IInv
  <1>3. ASSUME NEW w \in Workers, StartInsert(w) PROVE Tables'
    BY <1>3, StartBegins, WriterThreads, TablesBegin DEF IInv
  <1>4. ASSUME NEW w \in Workers, CommandCommit(w) PROVE Tables'
    BY <1>4, CommandMoves, TablesMove
  <1> QED BY <1>1, <1>2, <1>3, <1>4 DEF EntryFlowNext, TablesUntouched

-----------------------------------------------------------------------------
(* The theorems.                                                           *)

LEMMA IInvInit == EntryFlowInit => IInv
  <1> SUFFICES ASSUME EntryFlowInit PROVE IInv
    OBVIOUS
  <1>1. EntryFlowTypeOK
    BY Constants DEF EntryFlowInit, EntryFlowTypeOK, CartStatus, Labels
  <1>2. Threads
    BY DEF EntryFlowInit, Threads, Snapshots, Starts, Booted
  <1>3. \A f \in FlowIds : flow[f].state = "absent" /\ flow[f].revision = 0
                             /\ flow[f].session = None
    BY DEF EntryFlowInit, NoFlow
  <1>4. Tables
    BY <1>3 DEF EntryFlowInit, Tables, AbsentIsNew, LogReplays, OneActiveFlow, ActiveFlows,
       Active, SessionFollowsFlow, NoSession, FlowHasItsSession, MenuReadyIsBootstrapped
  <1> QED BY <1>1, <1>2, <1>4 DEF IInv

LEMMA IInvNext == IInv /\ [EntryFlowNext]_entryFlow => IInv'
  BY TypeNext, ThreadsNext, TablesNext DEF IInv

LEMMA Invariant == EntryFlowSpec => []IInv
  BY IInvInit, IInvNext, PTL DEF EntryFlowSpec

\* Every table and every local of a request keeps its type.
THEOREM TypeCorrect == EntryFlowSpec => []EntryFlowTypeOK
  <1>1. IInv => EntryFlowTypeOK BY DEF IInv
  <1> QED BY <1>1, Invariant, PTL

\* However requests for one flow overlap, its events replay to it.
THEOREM LogsReplay == EntryFlowSpec => []LogReplays
  <1>1. IInv => LogReplays BY DEF IInv, Tables
  <1> QED BY <1>1, Invariant, PTL

\* One active flow for a device, a session exactly as its flow says, and the
\* menu with an open session and a cart.
THEOREM FlowsStaySound == EntryFlowSpec => []FlowsAreSound
  <1>1. IInv => FlowsAreSound BY DEF IInv, Tables, FlowsAreSound
  <1> QED BY <1>1, Invariant, PTL

\* A step that writes a flow keeps its session and does not start from its end.
LEMMA FlowIsKeptNext ==
  ASSUME IInv, [EntryFlowNext]_entryFlow
  PROVE  flow' = flow \/ (SessionBoundOnce /\ TerminalIsFinal)
  <1>1. CASE UNCHANGED entryFlow BY <1>1 DEF entryFlow
  <1>2. ASSUME NEW w \in Workers, TablesUntouched(w) PROVE flow' = flow
    BY <1>2, QuietType DEF IInv
  <1>3. ASSUME NEW w \in Workers, StartInsert(w) PROVE SessionBoundOnce /\ TerminalIsFinal
    <2>1. PICK f, d, first, s : Begins(f, d, first, s) BY <1>3, StartBegins
    <2>2. f \in FlowIds /\ flow[f].state = "absent" /\ flow[f].session = None
            /\ \A g \in FlowIds \ {f} : flow'[g] = flow[g]
      BY <2>1 DEF Begins, IInv, Tables, AbsentIsNew, EntryFlowTypeOK
    <2> QED BY <2>2 DEF SessionBoundOnce, TerminalIsFinal, Terminal
  <1>4. ASSUME NEW w \in Workers, CommandCommit(w) PROVE SessionBoundOnce /\ TerminalIsFinal
    <2>1. PICK target, s, member : Moves(w, target, s, member) BY <1>4, CommandMoves
    <2>2. /\ loc[w].flow \in FlowIds
          /\ flow[loc[w].flow].state \notin Terminal
          /\ flow'[loc[w].flow].session = s
          /\ flow[loc[w].flow].session # None => s = flow[loc[w].flow].session
          /\ \A g \in FlowIds \ {loc[w].flow} : flow'[g] = flow[g]
      BY <2>1, TargetFacts DEF Moves, IInv, EntryFlowTypeOK, FlowRow
    <2> QED BY <2>2 DEF SessionBoundOnce, TerminalIsFinal
  <1> QED BY <1>1, <1>2, <1>3, <1>4 DEF EntryFlowNext, TablesUntouched

\* A flow never loses its session and never leaves its end.
THEOREM FlowsAreKept == EntryFlowSpec => FlowIsKept
  <1>1. IInv /\ [EntryFlowNext]_entryFlow => [SessionBoundOnce /\ TerminalIsFinal]_entryFlow
    <2> SUFFICES ASSUME IInv, [EntryFlowNext]_entryFlow
                 PROVE  SessionBoundOnce /\ TerminalIsFinal
      OBVIOUS
    <2>1. flow' = flow => SessionBoundOnce /\ TerminalIsFinal
      BY DEF SessionBoundOnce, TerminalIsFinal
    <2> QED BY <2>1, FlowIsKeptNext
  <1> QED BY <1>1, Invariant, PTL DEF EntryFlowSpec, FlowIsKept

=============================================================================
