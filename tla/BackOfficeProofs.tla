--------------------------- MODULE BackOfficeProofs ---------------------------
(***************************************************************************)
(* Proofs about the records of the back office and about what the          *)
(* knowledge base is built on: members, device and admin sessions, menu    *)
(* items with their images and campaigns, which requests read in one       *)
(* transaction and write back in another; the projection of voice turns to *)
(* evidence, the candidates that an operator confirms and the retrieval    *)
(* checks behind a store's readiness.  And, with the proofs about the      *)
(* components that deliver, the types of all eleven components.            *)
(***************************************************************************)
EXTENDS MCBackOffice, DeliveryProofs, FiniteSetTheorems, TLAPS


-----------------------------------------------------------------------------
(* Members.                                                                *)

MemberRequest == [kind : Kinds \cup {"none"}, at : {"row", "preferences", "orders", "write"},
                  id : 0..MaxId, new : SUBSET Orders, data : Data]

\* What is kept was consented to once; so were the consents of a record that is
\* stored, or that was read and is not yet changed.
Kept(d) == (d.orders # {} => accepted.hist) /\ (d.freq # {} => accepted.pers)
Consented(d) == (d.hist => accepted.hist) /\ (d.pers => accepted.pers)

RequestLawful(k) ==
  /\ Kept(k.data)
  /\ k.at \in {"preferences", "orders"} => Consented(k.data)
  /\ k.at # "row" => k.id \in Registrations /\ k.kind \in Kinds

\* A request carries what it read, which may be torn; what it adds it adds under
\* a consent that it read, and that was stored.
MembersInv ==
  /\ MembersTypeOK
  /\ \A i \in Registrations : Kept(members[i].data) /\ Consented(members[i].data)
  /\ \A r \in MemberRequests : RequestLawful(req[r])
  /\ \A i, j \in Held : i = j
  /\ \A i \in Registrations : members[i].phone = "deleted" => members[i].data = NoData

LEMMA MemberBlanks ==
  /\ NoData \in Data /\ NoRequestOf \in MemberRequest
  /\ Kept(NoData) /\ Consented(NoData) /\ RequestLawful(NoRequestOf)
  /\ NoRequestOf.kind = "none" /\ NoRequestOf.id = 0
  BY MembersAssumption
  DEF NoData, NoRequestOf, Data, MemberRequest, Kept, Consented, RequestLawful, Kinds

LEMMA MembersStart == MembersInit => MembersInv
  <1> SUFFICES ASSUME MembersInit PROVE MembersInv
    OBVIOUS
  <1>1. MembersTypeOK
    BY MemberBlanks DEF MembersInit, MembersTypeOK, MemberRequest
  <1>2. \A i, j \in Held : i = j
    BY DEF MembersInit, Held
  <1> QED BY <1>1, <1>2, MemberBlanks DEF MembersInit, MembersInv

\* A request goes on with k and no record changes.
LEMMA MembersGo ==
  ASSUME MembersInv, NEW r \in MemberRequests, NEW k \in MemberRequest, RequestLawful(k),
         RequestGoes(r, k), UNCHANGED <<members, accepted>>, todo' \subseteq todo
  PROVE  MembersInv'
  <1>1. /\ req' \in [MemberRequests -> MemberRequest]
        /\ \A q \in MemberRequests : req'[q] = k \/ req'[q] = req[q]
    BY DEF RequestGoes, MembersInv, MembersTypeOK, MemberRequest
  <1>2. \A q \in MemberRequests : RequestLawful(req'[q])
    BY <1>1 DEF MembersInv
  <1>3. (\A q \in MemberRequests : RequestLawful(req[q]))'
    BY <1>2 DEF RequestLawful, Kept, Consented
  <1>4. MembersTypeOK'
    BY <1>1 DEF MembersInv, MembersTypeOK, MemberRequest
  <1> QED BY <1>3, <1>4 DEF MembersInv, Kept, Consented, Held

\* A request is answered and its transaction changed the records.
LEMMA MembersAnswer ==
  ASSUME MembersInv, NEW r \in MemberRequests, RequestAnswered(r), UNCHANGED todo,
         members' \in [Registrations -> [phone : {"none", "held", "deleted"}, data : Data]],
         accepted' \in [hist : BOOLEAN, pers : BOOLEAN],
         accepted.hist => accepted'.hist, accepted.pers => accepted'.pers,
         (\A i \in Registrations : Kept(members[i].data) /\ Consented(members[i].data))',
         \A i, j \in Held' : i = j,
         \A i \in Registrations : members'[i].phone = "deleted" => members'[i].data = NoData
  PROVE  MembersInv'
  <1>1. /\ req' \in [MemberRequests -> MemberRequest]
        /\ \A q \in MemberRequests : req'[q] = NoRequestOf \/ req'[q] = req[q]
    BY MemberBlanks DEF RequestAnswered, RequestGoes, MembersInv, MembersTypeOK, MemberRequest
  <1>2. \A q \in MemberRequests : RequestLawful(req'[q])
    BY <1>1, MemberBlanks DEF MembersInv
  <1>3. (\A q \in MemberRequests : RequestLawful(req[q]))'
    BY <1>2 DEF RequestLawful, Kept, Consented
  <1>4. MembersTypeOK'
    BY <1>1 DEF MembersInv, MembersTypeOK, MemberRequest
  <1> QED BY <1>3, <1>4 DEF MembersInv

\* The first statement of a read.
LEMMA RowIsRead ==
  ASSUME MembersInv, NEW r \in MemberRequests, NEW kind \in Kinds, NEW i \in Held,
         NEW new \in SUBSET Orders, ReadRow(r, kind, i, new),
         UNCHANGED <<members, accepted>>, todo' \subseteq todo
  PROVE  MembersInv'
  <1> DEFINE d == [NoData EXCEPT !.hist = members[i].data.hist, !.pers = members[i].data.pers]
             k == [kind |-> kind, at |-> "preferences", id |-> i, new |-> new, data |-> d]
  <1>1. i \in Registrations /\ i \in 0..MaxId /\ members[i].data \in Data /\ Consented(members[i].data)
    BY MembersAssumption DEF Held, Registrations, MembersInv, MembersTypeOK
  <1>2. /\ d \in Data /\ d.orders = {} /\ d.freq = {}
        /\ d.hist = members[i].data.hist /\ d.pers = members[i].data.pers
    BY <1>1 DEF NoData, Data
  <1>3. RequestGoes(r, k)
    BY DEF ReadRow
  <1> HIDE DEF d
  <1>4. k \in MemberRequest /\ k.data = d /\ k.id = i /\ k.kind = kind
    BY <1>1, <1>2 DEF MemberRequest
  <1> HIDE DEF k
  <1>5. RequestLawful(k)
    BY <1>1, <1>2, <1>4 DEF RequestLawful, Kept, Consented
  <1> QED BY <1>3, <1>4, <1>5, MembersGo

LEMMA ReadPreferencesStep ==
  ASSUME MembersInv, NEW r \in MemberRequests, ReadPreferences(r)
  PROVE  MembersInv'
  <1> DEFINE freq == members[req[r].id].data.freq
             k == [req[r] EXCEPT !.at = "orders", !.data.freq = freq]
  <1>1. /\ req[r] \in MemberRequest /\ RequestLawful(req[r])
        /\ req[r].at = "preferences" /\ req[r].id \in Registrations
    BY DEF ReadPreferences, MembersInv, MembersTypeOK, MemberRequest, RequestLawful
  <1>2. freq \in SUBSET Orders /\ (freq # {} => accepted.pers)
    BY <1>1 DEF MembersInv, MembersTypeOK, Data, Kept
  <1>3. RequestGoes(r, k)
    BY DEF ReadPreferences
  <1> HIDE DEF freq
  <1>4. /\ k \in MemberRequest /\ k.id = req[r].id /\ k.kind = req[r].kind /\ k.data.freq = freq
        /\ k.data.orders = req[r].data.orders
        /\ k.data.hist = req[r].data.hist /\ k.data.pers = req[r].data.pers
    BY <1>1, <1>2 DEF MemberRequest, Data
  <1> HIDE DEF k
  <1>5. RequestLawful(k)
    BY <1>1, <1>2, <1>4 DEF RequestLawful, Kept, Consented
  <1> QED BY <1>3, <1>4, <1>5, MembersGo DEF ReadPreferences

\* What a request adds, it adds under a consent that it read.
LEMMA ChangedIsKept ==
  ASSUME MembersInv, NEW kind \in Kinds, NEW d \in Data, NEW new \in SUBSET Orders,
         Kept(d), Consented(d), new # {} => d.hist
  PROVE  Changed(kind, d, new) \in Data /\ Kept(Changed(kind, d, new))
  <1>1. /\ [d EXCEPT !.orders = {}, !.freq = {}] \in Data
        /\ Kept([d EXCEPT !.orders = {}, !.freq = {}])
    BY DEF Data, Kept
  <1>2. /\ [d EXCEPT !.freq = @ \cup new, !.orders = @ \cup new] \in Data
        /\ d.pers => Kept([d EXCEPT !.freq = @ \cup new, !.orders = @ \cup new])
    BY DEF Data, Kept, Consented
  <1>3. /\ [d EXCEPT !.freq = @, !.orders = @ \cup new] \in Data
        /\ Kept([d EXCEPT !.freq = @, !.orders = @ \cup new])
    BY DEF Data, Kept, Consented
  <1> QED BY <1>1, <1>2, <1>3 DEF Changed, Counted

LEMMA ReadOrdersStep ==
  ASSUME MembersInv, NEW r \in MemberRequests, ReadOrders(r)
  PROVE  MembersInv'
  <1> DEFINE orders == members[req[r].id].data.orders
             d == [req[r].data EXCEPT !.orders = orders]
             c == Changed(req[r].kind, d, req[r].new)
             k == [req[r] EXCEPT !.at = "write", !.data = c]
  <1>1. /\ req[r] \in MemberRequest /\ RequestLawful(req[r]) /\ req[r].at = "orders"
        /\ req[r].id \in Registrations /\ UNCHANGED <<members, todo, accepted>>
    BY DEF ReadOrders, MembersInv, MembersTypeOK, MemberRequest, RequestLawful
  <1>2. orders \in SUBSET Orders /\ (orders # {} => accepted.hist)
    BY <1>1 DEF MembersInv, MembersTypeOK, Data, Kept
  <1>3. d \in Data /\ Kept(d) /\ Consented(d)
    <2>1. req[r].data \in Data /\ Kept(req[r].data) /\ Consented(req[r].data)
      BY <1>1 DEF MemberRequest, RequestLawful
    <2> HIDE DEF orders
    <2> QED BY <1>2, <2>1 DEF Data, Kept, Consented
  <1>4. \/ RequestAnswered(r)
        \/ RequestGoes(r, k) /\ (req[r].new # {} => d.hist)
    BY DEF ReadOrders
  <1>5. CASE RequestAnswered(r)
    BY <1>1, <1>5, MembersGo, MemberBlanks DEF RequestAnswered
  <1>6. CASE RequestGoes(r, k) /\ (req[r].new # {} => d.hist)
    <2> HIDE DEF d
    <2>2. req[r].new \in SUBSET Orders /\ req[r].kind \in Kinds
      BY <1>1 DEF MemberRequest, RequestLawful
    <2>3. c \in Data /\ Kept(c)
      BY <1>3, <1>6, <2>2, ChangedIsKept
    <2> HIDE DEF c
    <2>4. k \in MemberRequest /\ k.data = c /\ k.id = req[r].id /\ k.at = "write" /\ k.kind = req[r].kind
      BY <1>1, <2>3 DEF MemberRequest
    <2> HIDE DEF k
    <2>5. RequestLawful(k)
      BY <1>1, <2>3, <2>4 DEF RequestLawful
    <2> QED BY <1>1, <1>6, <2>4, <2>5, MembersGo
  <1> QED BY <1>4, <1>5, <1>6

LEMMA UpsertStep ==
  ASSUME MembersInv, NEW r \in MemberRequests, Upsert(r)
  PROVE  MembersInv'
  <1> DEFINE Rows == [Registrations -> [phone : {"none", "held", "deleted"}, data : Data]]
             held == [phone |-> "held", data |-> req[r].data]
  <1>1. /\ RequestLawful(req[r]) /\ req[r].data \in Data /\ req[r].id \in Registrations
        /\ members \in Rows /\ accepted \in [hist : BOOLEAN, pers : BOOLEAN]
    BY DEF Upsert, MembersInv, MembersTypeOK, RequestLawful
  <1>2. /\ members' \in Rows
        /\ \A i \in Registrations : members'[i] = members[i] \/ members'[i] = held
    BY <1>1 DEF Upsert, Upserted, Held, Unused
  <1>3. \A i, j \in Held' : i = j
    <2>1. CASE Held # {}
      BY <1>1, <2>1 DEF Upsert, Upserted, Held, MembersInv
    <2>2. CASE Held = {}
      BY <1>1, <2>2 DEF Upsert, Upserted, Held, Unused
    <2> QED BY <2>1, <2>2
  <1>4. /\ accepted'.hist <=> accepted.hist \/ \E i \in Registrations : members'[i].data.hist
        /\ accepted'.pers <=> accepted.pers \/ \E i \in Registrations : members'[i].data.pers
        /\ accepted' \in [hist : BOOLEAN, pers : BOOLEAN]
    BY DEF Upsert
  <1>5. \A i \in Registrations : Kept(members'[i].data)
    BY <1>1, <1>2 DEF MembersInv, RequestLawful
  <1>6. (\A i \in Registrations : Kept(members[i].data) /\ Consented(members[i].data))'
    BY <1>4, <1>5 DEF Kept, Consented
  <1>7. \A i \in Registrations : members'[i].phone = "deleted" => members'[i].data = NoData
    BY <1>2 DEF MembersInv
  <1> QED BY <1>2, <1>3, <1>4, <1>6, <1>7, MembersAnswer DEF Upsert

LEMMA AnonymizeStep ==
  ASSUME MembersInv, NEW r \in MemberRequests, Anonymize(r)
  PROVE  MembersInv'
  <1>1. \A i \in Registrations :
          members'[i] = members[i] \/ members'[i] = [phone |-> "deleted", data |-> NoData]
    BY DEF Anonymize, MembersInv, MembersTypeOK
  <1>2. members' \in [Registrations -> [phone : {"none", "held", "deleted"}, data : Data]]
    BY MemberBlanks DEF Anonymize, MembersInv, MembersTypeOK
  <1>3. /\ \A i \in Registrations : Kept(members'[i].data) /\ Consented(members'[i].data)
        /\ \A i \in Registrations : members'[i].phone = "deleted" => members'[i].data = NoData
    BY <1>1, MemberBlanks DEF MembersInv
  <1>4. (\A i \in Registrations : Kept(members[i].data) /\ Consented(members[i].data))'
    BY <1>3 DEF Kept, Consented, Anonymize
  <1>5. Held' \subseteq Held
    BY <1>1 DEF Held
  <1> QED BY <1>2, <1>3, <1>4, <1>5, MembersAnswer DEF Anonymize, MembersInv, MembersTypeOK

LEMMA RegisterStep ==
  ASSUME MembersInv, NEW r \in MemberRequests, NEW hist \in BOOLEAN, NEW pers \in BOOLEAN,
         Register(r, hist, pers)
  PROVE  MembersInv'
  <1>1. UNCHANGED <<members, todo, accepted>> /\ "register" \in Kinds
    BY DEF Register, Kinds
  <1>2. CASE Held # {}
    BY <1>1, <1>2, RowIsRead DEF Register
  <1>3. CASE Held = {}
    <2> DEFINE d == [NoData EXCEPT !.hist = hist, !.pers = pers]
    <2>1. d \in Data /\ d.orders = {} /\ d.freq = {}
      BY DEF NoData, Data
    <2>2. PICK i \in Unused :
            RequestGoes(r, [kind |-> "register", at |-> "write", id |-> i, new |-> {}, data |-> d])
      BY <1>3 DEF Register
    <2> HIDE DEF d
    <2> DEFINE k == [kind |-> "register", at |-> "write", id |-> i, new |-> {}, data |-> d]
    <2>3. i \in Registrations /\ i \in 0..MaxId
      BY MembersAssumption DEF Unused, Registrations
    <2>4. k \in MemberRequest /\ k.data = d /\ k.id = i /\ k.kind = "register" /\ k.at = "write"
      BY <2>1, <2>3 DEF MemberRequest, Kinds
    <2>5. RequestGoes(r, k)
      BY <2>2
    <2> HIDE DEF k
    <2>6. RequestLawful(k)
      BY <1>1, <2>1, <2>3, <2>4 DEF RequestLawful, Kept
    <2> QED BY <1>1, <2>4, <2>5, <2>6, MembersGo
  <1> QED BY <1>2, <1>3

LEMMA MembersStep == MembersInv /\ [MembersNext]_memberVars => MembersInv'
  <1> SUFFICES ASSUME MembersInv, [MembersNext]_memberVars PROVE MembersInv'
    OBVIOUS
  <1>0. CASE UNCHANGED memberVars
    BY <1>0
    DEF memberVars, MembersInv, MembersTypeOK, Held, Kept, Consented, RequestLawful
  <1>1. ASSUME NEW r \in MemberRequests, NEW k \in Kinds, ReadMember(r, k) PROVE MembersInv'
    BY <1>1, RowIsRead DEF ReadMember
  <1>2. ASSUME NEW r \in MemberRequests, NEW k \in Kinds, NEW o \in Orders, ReportOrder(r, k, o)
        PROVE  MembersInv'
    <2>1. UNCHANGED <<members, accepted>> /\ todo' \subseteq todo /\ {o} \in SUBSET Orders
      BY <1>2 DEF ReportOrder
    <2>2. CASE Held # {}
      <3>1. PICK i \in Held : ReadRow(r, k, i, {o})
        BY <1>2, <2>2 DEF ReportOrder
      <3> QED BY <2>1, <3>1, RowIsRead
    <2>3. CASE Held = {}
      BY <1>2, <2>1, <2>3
      DEF ReportOrder, MembersInv, MembersTypeOK, Held, Kept, Consented, RequestLawful
    <2> QED BY <2>2, <2>3
  <1>3. ASSUME NEW r \in MemberRequests, ReadToErase(r) PROVE MembersInv'
    <2>1. PICK i \in Held : RequestGoes(r, [NoRequestOf EXCEPT !.kind = "erase", !.at = "write", !.id = i])
      BY <1>3 DEF ReadToErase
    <2> DEFINE k == [NoRequestOf EXCEPT !.kind = "erase", !.at = "write", !.id = i]
    <2>2. i \in Registrations /\ i \in 0..MaxId
      BY MembersAssumption DEF Held, Registrations
    <2>3. /\ k \in MemberRequest /\ k.id = i /\ k.kind = "erase" /\ k.at = "write"
          /\ k.data = NoRequestOf.data /\ "erase" \in Kinds
      BY <2>2, MemberBlanks DEF MemberRequest, Kinds
    <2>4. RequestGoes(r, k)
      BY <2>1
    <2> HIDE DEF k
    <2>5. RequestLawful(k)
      BY <2>2, <2>3, MemberBlanks DEF RequestLawful
    <2> QED BY <1>3, <2>3, <2>4, <2>5, MembersGo DEF ReadToErase
  <1>4. ASSUME NEW r \in MemberRequests, MemberRequestDies(r) PROVE MembersInv'
    BY <1>4, MembersGo, MemberBlanks DEF MemberRequestDies, RequestAnswered
  <1> QED
    BY <1>0, <1>1, <1>2, <1>3, <1>4, RegisterStep, ReadPreferencesStep, ReadOrdersStep, UpsertStep,
       AnonymizeStep
    DEF MembersNext

LEMMA MembersInvariant == MembersSpec => []MembersInv
  BY MembersStart, MembersStep, PTL DEF MembersSpec

\* Orders and favourites are never stored for a number of which no record was
\* ever stored with the consent to them, however requests overwrite each other
\* with what they read in several statements (modules/member, adapters/member.py).
THEOREM DataIsConsented == MembersSpec => []DataNeedsConsent
  <1>1. MembersInv => DataNeedsConsent
    BY DEF MembersInv, DataNeedsConsent, Kept
  <1> QED BY <1>1, MembersInvariant, PTL

\* An erased row stays as the erasure left it: a late write of a request that
\* read the member before finds no row (modules/member, the upsert).
THEOREM ErasureHolds == MembersSpec => ErasureIsFinal
  <1>1. ASSUME MembersInv, [MembersNext]_memberVars, NEW i \in Registrations,
               members[i].phone = "deleted"
        PROVE  members'[i] = members[i]
    <2>1. i \notin Held /\ i \notin Unused /\ members[i] = [phone |-> "deleted", data |-> NoData]
      BY <1>1 DEF Held, Unused, MembersInv, MembersTypeOK
    <2>2. CASE UNCHANGED members
      BY <2>2
    <2>3. ASSUME NEW r \in MemberRequests, Upsert(r) PROVE members'[i] = members[i]
      BY <2>1, <2>3, <1>1 DEF Upsert, Upserted, MembersInv, MembersTypeOK
    <2>4. ASSUME NEW r \in MemberRequests, Anonymize(r) PROVE members'[i] = members[i]
      BY <2>1, <2>4, <1>1 DEF Anonymize, MembersInv, MembersTypeOK
    <2> QED BY <1>1, <2>2, <2>3, <2>4
        DEF MembersNext, memberVars, ReadMember, ReadToErase, Register, ReportOrder,
            ReadPreferences, ReadOrders, MemberRequestDies
  <1>2. MembersInv /\ [MembersNext]_memberVars =>
          [\A i \in Registrations : members[i].phone = "deleted" => members'[i] = members[i]]_memberVars
    BY <1>1
  <1> QED BY <1>2, MembersInvariant, PTL DEF MembersSpec, ErasureIsFinal

-----------------------------------------------------------------------------
(* Identity.                                                               *)

\* An admin session that was handed on is revoked, which lasts; nothing but
\* the rotation that read it under the lock hands it on.
IdentityInv ==
  /\ IdentityTypeOK
  /\ \A q \in Clients : /\ client[q].pc = "session" => client[q].id \in Creds
                        /\ client[q].pc = "rotate" => client[q].id \in Sessions
  /\ \A s \in Sessions : ~login[s].made => ~login[s].revoked /\ login[s].from = 0
  /\ \A s \in Sessions : login[s].from # 0 => login[login[s].from].revoked
  /\ \A r, s \in Sessions : login[r].from # 0 /\ login[r].from = login[s].from => r = s

LEMMA IdentityStart == IdentityInit => IdentityInv
  BY IdentityAssumption
  DEF IdentityInit, IdentityInv, IdentityTypeOK, Creds, Sessions, CredentialRow, SessionRow,
      LoginRow

\* What the invariant says of the admin sessions.
LoginsLawful ==
  /\ login \in [Sessions -> LoginRow]
  /\ \A s \in Sessions : ~login[s].made => ~login[s].revoked /\ login[s].from = 0
  /\ \A s \in Sessions : login[s].from # 0 => login[login[s].from].revoked
  /\ \A r, s \in Sessions : login[r].from # 0 /\ login[r].from = login[s].from => r = s

\* A session that is ended or ages stays what it is to the others.
LEMMA LoginAges ==
  ASSUME LoginsLawful, NEW s \in Sessions, login[s].made,
         login' = [login EXCEPT ![s].revoked = TRUE] \/ login' = [login EXCEPT ![s].expired = TRUE]
  PROVE  LoginsLawful'
  <1>1. \A r \in Sessions : /\ login'[r] \in LoginRow
                            /\ login'[r].made = login[r].made
                            /\ login'[r].from = login[r].from
                            /\ login[r].revoked => login'[r].revoked
                            /\ ~login[r].made => login'[r].revoked = login[r].revoked
    <2> SUFFICES ASSUME NEW r \in Sessions
                 PROVE  /\ login'[r] \in LoginRow
                        /\ login'[r].made = login[r].made
                        /\ login'[r].from = login[r].from
                        /\ login[r].revoked => login'[r].revoked
                        /\ ~login[r].made => login'[r].revoked = login[r].revoked
      OBVIOUS
    <2>1. login[r] \in LoginRow
      BY DEF LoginsLawful
    <2>2. \/ login'[r] = login[r]
          \/ r = s /\ login'[r] = [login[r] EXCEPT !.revoked = TRUE]
          \/ r = s /\ login'[r] = [login[r] EXCEPT !.expired = TRUE]
      <3>1. login = [t \in Sessions |-> login[t]]
        BY DEF LoginsLawful
      <3>2. CASE login' = [login EXCEPT ![s].revoked = TRUE]
        BY <3>1, <3>2
      <3>3. CASE login' = [login EXCEPT ![s].expired = TRUE]
        BY <3>1, <3>3
      <3> QED BY <3>2, <3>3
    <2> QED BY <2>1, <2>2 DEF LoginRow
  <1>2. login' \in [Sessions -> LoginRow]
    BY <1>1 DEF LoginsLawful
  <1>3. \A r \in Sessions : login[r].from # 0 => login[r].from \in Sessions
    BY IdentityAssumption DEF LoginsLawful, LoginRow, Sessions
  <1> QED BY <1>1, <1>2, <1>3 DEF LoginsLawful

LEMMA LoginMade ==
  ASSUME LoginsLawful, NEW s \in Sessions, NewLogin(s), login' = [login EXCEPT ![s] = LoginWith(0)]
  PROVE  LoginsLawful'
  <1>1. \A r \in Sessions : login[r].from # s
    BY DEF LoginsLawful, NewLogin, Sessions
  <1> QED BY <1>1, IdentityAssumption DEF LoginsLawful, LoginRow, LoginWith, Sessions

LEMMA LoginHandedOn ==
  ASSUME LoginsLawful, NEW s \in Sessions, NEW old \in Sessions, NewLogin(s), LoginLives(old),
         login' = [login EXCEPT ![old].revoked = TRUE, ![s] = LoginWith(old)]
  PROVE  LoginsLawful'
  <1>1. old # s /\ login[old].made /\ ~login[old].revoked
    BY DEF NewLogin, LoginLives
  <1>2. \A r \in Sessions : login[r].from # s /\ login[r].from # old
    BY <1>1 DEF LoginsLawful, NewLogin, Sessions
  <1>3. \A r \in Sessions \ {s, old} : login'[r] = login[r]
    BY DEF LoginsLawful
  <1>4. login'[old] = [login[old] EXCEPT !.revoked = TRUE] /\ login'[s] = LoginWith(old)
    BY <1>1 DEF LoginsLawful
  <1>5. login' \in [Sessions -> LoginRow]
    <2>1. LoginWith(old) \in LoginRow
      BY IdentityAssumption DEF LoginRow, LoginWith, Sessions
    <2>2. [login[old] EXCEPT !.revoked = TRUE] \in LoginRow
      BY DEF LoginsLawful, LoginRow
    <2> QED BY <1>3, <1>4, <2>1, <2>2 DEF LoginsLawful
  <1>6. /\ login'[old].from = login[old].from /\ login'[old].made /\ login'[old].revoked
        /\ login'[s].from = old /\ login'[s].made
    BY <1>1, <1>4 DEF LoginsLawful, LoginRow, LoginWith
  <1>7. \A r \in Sessions : ~login'[r].made => ~login'[r].revoked /\ login'[r].from = 0
    BY <1>3, <1>6 DEF LoginsLawful
  <1>8. \A r \in Sessions : login'[r].from # 0 => login'[login'[r].from].revoked
    <2> SUFFICES ASSUME NEW r \in Sessions, login'[r].from # 0
                 PROVE  login'[login'[r].from].revoked
      OBVIOUS
    <2>1. CASE r = s
      BY <2>1, <1>6
    <2>2. CASE r # s
      <3>1. login'[r].from = login[r].from /\ login[r].from \in Sessions \ {s, old}
        BY <2>2, <1>2, <1>3, <1>6 DEF LoginsLawful, LoginRow, Sessions
      <3> QED BY <3>1, <1>3 DEF LoginsLawful
    <2> QED BY <2>1, <2>2
  <1>9. \A r, t \in Sessions : login'[r].from # 0 /\ login'[r].from = login'[t].from => r = t
    BY <1>2, <1>3, <1>6 DEF LoginsLawful
  <1> QED BY <1>5, <1>7, <1>8, <1>9 DEF LoginsLawful

\* The rest of the invariant: types and what a request holds.
LEMMA IdentityTypes ==
  ASSUME IdentityInv, [IdentityNext]_identityVars
  PROVE  /\ credential' \in [Creds -> CredentialRow]
         /\ session' \in [Sessions -> SessionRow]
         /\ client' \in [Clients -> [pc : {"idle", "session", "rotate"},
                                     id : 0..MaxCredentials \cup Sessions]]
         /\ \A q \in Clients : /\ client'[q].pc = "session" => client'[q].id \in Creds
                               /\ client'[q].pc = "rotate" => client'[q].id \in Sessions
  <1>. DEFINE ClientsOK(f) ==
         /\ f \in [Clients -> [pc : {"idle", "session", "rotate"},
                               id : 0..MaxCredentials \cup Sessions]]
         /\ \A q \in Clients : /\ f[q].pc = "session" => f[q].id \in Creds
                               /\ f[q].pc = "rotate" => f[q].id \in Sessions
  <1>0. ClientsOK(client) /\ credential \in [Creds -> CredentialRow] /\ session \in [Sessions -> SessionRow]
    BY DEF IdentityInv, IdentityTypeOK
  <1>1. CASE UNCHANGED identityVars
    BY <1>0, <1>1 DEF identityVars
  <1>2. CASE TimePasses
    <2>1. UNCHANGED client
      BY <1>2 DEF TimePasses
    <2>2. credential' \in [Creds -> CredentialRow]
      BY <1>0, <1>2 DEF TimePasses, CredentialRow
    <2>3. session' \in [Sessions -> SessionRow]
      BY <1>0, <1>2 DEF TimePasses, SessionRow
    <2> QED BY <1>0, <2>1, <2>2, <2>3
  <1>3. ASSUME NEW c \in Creds,
               Issue(c) \/ RevokeCredential(c) \/ \E old \in Creds : RotateCredential(old, c)
        PROVE  /\ credential' \in [Creds -> CredentialRow]
               /\ session' \in [Sessions -> SessionRow] /\ UNCHANGED client
    <2>1. CASE Issue(c)
      BY <1>0, <2>1 DEF Issue, CredentialRow
    <2>2. CASE RevokeCredential(c)
      BY <1>0, <2>2 DEF RevokeCredential, CredentialRow, SessionRow
    <2>3. ASSUME NEW old \in Creds, RotateCredential(old, c)
          PROVE  credential' \in [Creds -> CredentialRow] /\ UNCHANGED <<session, client>>
      BY <1>0, <2>3 DEF RotateCredential, CredentialRow
    <2> QED BY <1>0, <1>3, <2>1, <2>2, <2>3
  <1>4. ASSUME NEW s \in Sessions, Login(s) \/ Logout(s)
        PROVE  UNCHANGED <<credential, session, client>>
    BY <1>4 DEF Login, Logout
  <1>5. ASSUME NEW q \in Clients, ClientEnds(q) PROVE ClientsOK(client')
    BY <1>0, <1>5, IdentityAssumption DEF ClientEnds
  <1>6. ASSUME NEW q \in Clients, NEW c \in Creds, ReadCredential(q, c)
        PROVE  ClientsOK(client') /\ UNCHANGED <<credential, session>>
    BY <1>0, <1>6 DEF ReadCredential, Waits, Creds
  <1>7. ASSUME NEW q \in Clients, NEW s \in Sessions, ReadLogin(q, s)
        PROVE  ClientsOK(client') /\ UNCHANGED <<credential, session>>
    BY <1>0, <1>7 DEF ReadLogin, Waits
  <1>8. ASSUME NEW q \in Clients, NEW s \in Sessions, InsertSession(q, s)
        PROVE  ClientsOK(client') /\ session' \in [Sessions -> SessionRow] /\ UNCHANGED credential
    <2>1. client[q].id \in 0..MaxCredentials
      BY <1>8, IdentityAssumption DEF InsertSession, IdentityInv, Creds
    <2>2. session' \in [Sessions -> SessionRow]
      BY <1>0, <1>8, <2>1 DEF InsertSession, SessionRow
    <2> QED BY <1>5, <1>8, <2>2 DEF InsertSession
  <1>9. ASSUME NEW q \in Clients, NEW s \in Sessions, RotateLogin(q, s) \/ ClientDies(q)
        PROVE  ClientsOK(client') /\ UNCHANGED <<credential, session>>
    BY <1>5, <1>9 DEF RotateLogin, ClientDies
  <1>10. ASSUME NEW q \in Clients, ClientDies(q)
         PROVE  ClientsOK(client') /\ UNCHANGED <<credential, session>>
    BY <1>5, <1>10 DEF ClientDies
  <1> QED BY <1>0, <1>1, <1>2, <1>3, <1>4, <1>6, <1>7, <1>8, <1>9, <1>10 DEF IdentityNext

LEMMA IdentityStep == IdentityInv /\ [IdentityNext]_identityVars => IdentityInv'
  <1> SUFFICES ASSUME IdentityInv, [IdentityNext]_identityVars PROVE IdentityInv'
    OBVIOUS
  <1>0. LoginsLawful
    BY DEF IdentityInv, IdentityTypeOK, LoginsLawful
  <1>1. ASSUME login' = login PROVE LoginsLawful'
    BY <1>0, <1>1 DEF LoginsLawful
  <1>2. ASSUME NEW s \in Sessions, Login(s) PROVE LoginsLawful'
    BY <1>0, <1>2, LoginMade DEF Login
  <1>3. ASSUME NEW s \in Sessions, Logout(s) PROVE LoginsLawful'
    BY <1>0, <1>3, LoginAges DEF Logout
  <1>4. ASSUME TimePasses PROVE LoginsLawful'
    <2>1. \/ login' = login
          \/ \E s \in Sessions : LoginLives(s) /\ login' = [login EXCEPT ![s].expired = TRUE]
      BY <1>4 DEF TimePasses
    <2> QED BY <1>0, <1>1, <2>1, LoginAges DEF LoginLives
  <1>5. ASSUME NEW q \in Clients, NEW s \in Sessions, RotateLogin(q, s) PROVE LoginsLawful'
    <2>1. client[q].id \in Sessions
      BY <1>5 DEF RotateLogin, IdentityInv
    <2>2. CASE LoginLives(client[q].id)
      BY <1>0, <1>5, <2>1, <2>2, LoginHandedOn DEF RotateLogin
    <2>3. CASE ~LoginLives(client[q].id)
      BY <1>1, <1>5, <2>3 DEF RotateLogin
    <2> QED BY <2>2, <2>3
  <1>6. LoginsLawful'
    <2>1. CASE UNCHANGED identityVars
      BY <1>1, <2>1 DEF identityVars
    <2>2. ASSUME NEW c \in Creds,
                 Issue(c) \/ RevokeCredential(c) \/ \E old \in Creds : RotateCredential(old, c)
          PROVE  login' = login
      BY <2>2 DEF Issue, RevokeCredential, RotateCredential
    <2>3. ASSUME NEW q \in Clients,
                 \/ ClientDies(q)
                 \/ \E c \in Creds : ReadCredential(q, c)
                 \/ \E s \in Sessions : InsertSession(q, s) \/ ReadLogin(q, s)
          PROVE  login' = login
      BY <2>3 DEF ClientDies, ReadCredential, InsertSession, ReadLogin
    <2> QED BY <1>1, <1>2, <1>3, <1>4, <1>5, <2>1, <2>2, <2>3 DEF IdentityNext
  <1> QED BY <1>6, IdentityTypes DEF IdentityInv, IdentityTypeOK, LoginsLawful

LEMMA IdentityInvariant == IdentitySpec => []IdentityInv
  BY IdentityStart, IdentityStep, PTL DEF IdentitySpec

\* No step takes a revocation of a credential back.
LEMMA RevokedStays ==
  ASSUME IdentityInv, [IdentityNext]_identityVars, NEW c \in Creds, credential[c].status = "revoked"
  PROVE  credential'[c].status = "revoked"
  <1>1. credential \in [Creds -> CredentialRow]
    BY DEF IdentityInv, IdentityTypeOK
  <1>2. ASSUME NEW d \in Creds,
               Issue(d) \/ RevokeCredential(d) \/ \E old \in Creds : RotateCredential(old, d)
        PROVE  credential'[c].status = "revoked"
    <2>1. CASE Issue(d)
      BY <1>1, <2>1 DEF Issue, NewCredential, CredentialRow
    <2>2. CASE RevokeCredential(d)
      BY <1>1, <2>2 DEF RevokeCredential, CredentialRow
    <2>3. ASSUME NEW old \in Creds, RotateCredential(old, d) PROVE credential'[c].status = "revoked"
      BY <1>1, <2>3 DEF RotateCredential, NewCredential, CredentialRow
    <2> QED BY <1>2, <2>1, <2>2, <2>3
  <1>3. CASE TimePasses
    BY <1>1, <1>3 DEF TimePasses, CredentialRow
  <1>4. ASSUME NEW q \in Clients, NEW s \in Sessions,
               InsertSession(q, s) \/ ReadLogin(q, s) \/ RotateLogin(q, s)
        PROVE  UNCHANGED credential
    BY <1>4 DEF InsertSession, ReadLogin, RotateLogin
  <1>5. ASSUME NEW s \in Sessions, Login(s) \/ Logout(s) PROVE UNCHANGED credential
    BY <1>5 DEF Login, Logout
  <1>6. ASSUME NEW q \in Clients, ClientDies(q) \/ \E d \in Creds : ReadCredential(q, d)
        PROVE  UNCHANGED credential
    BY <1>6 DEF ClientDies, ReadCredential
  <1> QED BY <1>2, <1>3, <1>4, <1>5, <1>6 DEF IdentityNext, identityVars

\* Nor does one bring back an admin session that was ended, or make an heir of it.
LEMMA EndedStays ==
  ASSUME IdentityInv, [IdentityNext]_identityVars, NEW r \in Sessions, login[r].revoked
  PROVE  login'[r].revoked /\ \A s \in Sessions : login'[s].from = r => login[s].from = r
  <1>1. /\ login \in [Sessions -> LoginRow] /\ login[r].made /\ r # 0
        /\ \A s \in Sessions : login[s] \in LoginRow
    BY DEF IdentityInv, IdentityTypeOK, Sessions
  <1> DEFINE Ended == /\ login'[r].revoked
                      /\ \A s \in Sessions : login'[s].from = r => login[s].from = r
  <1>2. ASSUME NEW t \in Sessions, Login(t) PROVE Ended
    BY <1>1, <1>2 DEF Login, NewLogin, LoginWith
  <1>3. ASSUME NEW t \in Sessions,
               login' = [login EXCEPT ![t].revoked = TRUE] \/ login' = [login EXCEPT ![t].expired = TRUE]
        PROVE  Ended
    <2>1. CASE login' = [login EXCEPT ![t].revoked = TRUE]
      BY <1>1, <2>1 DEF LoginRow
    <2>2. CASE login' = [login EXCEPT ![t].expired = TRUE]
      BY <1>1, <2>2 DEF LoginRow
    <2> QED BY <1>3, <2>1, <2>2
  <1>4. ASSUME NEW q \in Clients, NEW t \in Sessions, RotateLogin(q, t) PROVE Ended
    <2> DEFINE old == client[q].id
    <2>1. old \in Sessions /\ NewLogin(t)
      BY <1>4 DEF RotateLogin, IdentityInv
    <2>2. CASE LoginLives(old)
      <3>1. old # r /\ t # r /\ t # old
        BY <1>1, <2>1, <2>2 DEF LoginLives, NewLogin
      <3>2. login' = [login EXCEPT ![old].revoked = TRUE, ![t] = LoginWith(old)]
        BY <1>4, <2>2 DEF RotateLogin
      <3> HIDE DEF old
      <3>3. /\ login'[r] = login[r] /\ login'[t] = LoginWith(old)
            /\ login'[old] = [login[old] EXCEPT !.revoked = TRUE]
            /\ \A s \in Sessions \ {old, t} : login'[s] = login[s]
        BY <1>1, <2>1, <3>1, <3>2
      <3>4. login'[t].from = old /\ login'[old].from = login[old].from
        BY <1>1, <2>1, <3>3 DEF LoginWith, LoginRow
      <3> QED BY <3>1, <3>3, <3>4
    <2>3. CASE ~LoginLives(old)
      BY <1>4, <2>3 DEF RotateLogin
    <2> QED BY <2>2, <2>3
  <1>5. ASSUME NEW t \in Sessions, Logout(t) PROVE Ended
    BY <1>3, <1>5 DEF Logout
  <1>6. ASSUME TimePasses PROVE Ended
    BY <1>3, <1>6 DEF TimePasses
  <1>7. ASSUME NEW c \in Creds,
               Issue(c) \/ RevokeCredential(c) \/ \E old \in Creds : RotateCredential(old, c)
        PROVE  login' = login
    BY <1>7 DEF Issue, RevokeCredential, RotateCredential
  <1>8. ASSUME NEW q \in Clients,
               \/ ClientDies(q)
               \/ \E c \in Creds : ReadCredential(q, c)
               \/ \E s \in Sessions : InsertSession(q, s) \/ ReadLogin(q, s)
        PROVE  login' = login
    BY <1>8 DEF ClientDies, ReadCredential, InsertSession, ReadLogin
  <1>9. login' = login => Ended
    OBVIOUS
  <1> HIDE DEF Ended
  <1>10. Ended
    BY <1>2, <1>4, <1>5, <1>6, <1>7, <1>8, <1>9 DEF IdentityNext, identityVars
  <1> QED BY <1>10 DEF Ended

\* Once a credential is revoked none of its sessions authenticates any more,
\* the one a request inserts afterwards included; an admin session that was
\* ended stays so and gets no heir any more, and it had at most one
\* (modules/identity).
THEOREM RevocationsHold == IdentitySpec => RevocationHolds
  <1>1. ASSUME IdentityInv, [IdentityNext]_identityVars
        PROVE  [/\ \A s \in Sessions, c \in Creds :
                     credential[c].status = "revoked" /\ session'[s].cred = c => ~Authenticates(s)'
                /\ \A r \in Sessions : login[r].revoked =>
                     /\ login'[r].revoked
                     /\ \A s \in Sessions : login'[s].from = r => login[s].from = r]_identityVars
    BY <1>1, RevokedStays, EndedStays DEF Authenticates
  <1> QED BY <1>1, IdentityInvariant, PTL DEF IdentitySpec, RevocationHolds

-----------------------------------------------------------------------------
(* Catalog.                                                                *)

Stored(o) == meta[o] # "none" /\ objRow[o] # "none"

\* An object that is being put has left no trace but its bytes, and then its
\* metadata file.
PutOK(c) ==
  LET o == call[c].obj IN
  /\ call[c].pc \in Putting \cup Deleting \cup {"read"} => o \in Objects
  /\ call[c].pc \in {"bytes", "meta"} => meta[o] = "none" /\ objRow[o] = "none"
  /\ call[c].pc = "row" => meta[o] # "none"
  /\ call[c].pc = "read" => Stored(o)
  /\ call[c].pc \in Deleting => meta[o] # "none"
  /\ call[c].pc \in {"markMeta", "markRow"} => o \notin bytes
  /\ call[c].pc = "write" /\ call[c].row.image \in Objects => Stored(call[c].row.image)

\* An object is put by one request, and only deleted when that one is past it.
PutAlone ==
  \A c, d \in CatalogCalls :
    call[c].pc \in Putting /\ call[d].pc \in Putting \cup Deleting /\ c # d =>
      call[c].obj # call[d].obj

\* Objects have their numbers in the order in which they are begun; the row
\* comes after the metadata file.
PutInTurn ==
  /\ \A c \in CatalogCalls : call[c].obj <= puts
  /\ \A o \in Objects : o > puts => meta[o] = "none" /\ objRow[o] = "none"
  /\ \A o \in Objects : objRow[o] # "none" => meta[o] # "none"

CatalogInv ==
  /\ CatalogTypeOK
  /\ ImagesAreStored
  /\ \A c \in CatalogCalls : PutOK(c)
  /\ PutAlone
  /\ PutInTurn

LEMMA NoCallType == NoCall \in Call /\ NoItem \in Item /\ Fresh \in Item /\ NoCall.pc = "idle"
                    /\ NoCall.obj = 0
  <1>1. (CHOOSE i \in MenuItems : TRUE) \in MenuItems
    BY CatalogAssumption DEF MenuItems
  <1>2. NoItem \in Item /\ 0 \in 0..MaxObjects
    BY CatalogAssumption DEF NoItem, Item, Images, Foreign
  <1>3. Fresh \in Item
    BY <1>2 DEF Fresh, Item
  <1> QED BY <1>1, <1>2, <1>3 DEF NoCall, Call

LEMMA CatalogStart == CatalogInit => CatalogInv
  <1> SUFFICES ASSUME CatalogInit PROVE CatalogInv
    OBVIOUS
  <1>1. CatalogTypeOK
    BY NoCallType, CatalogAssumption DEF CatalogInit, CatalogTypeOK, Marks
  <1>2. ImagesAreStored
    BY CatalogAssumption DEF CatalogInit, ImagesAreStored, NoItem, Objects
  <1>3. \A c \in CatalogCalls : call[c].pc = "idle" /\ call[c].obj = 0
    BY NoCallType DEF CatalogInit
  <1>4. (\A c \in CatalogCalls : PutOK(c)) /\ PutAlone
    BY <1>3 DEF PutOK, PutAlone, Putting, Deleting
  <1>5. PutInTurn
    BY <1>3, CatalogAssumption DEF CatalogInit, PutInTurn
  <1> QED BY <1>1, <1>2, <1>4, <1>5 DEF CatalogInv

\* A step of one request on its own variables: its call becomes k.
CallBecomes(c, k) == call' = [call EXCEPT ![c] = k]

\* A request that ends, or goes on without anything to put or delete, breaks nothing.
LEMMA CatalogQuiet ==
  ASSUME CatalogInv, NEW c \in CatalogCalls, NEW k \in Call, CallBecomes(c, k),
         k.pc \in {"idle", "seed"} \/ (k.pc = "write" /\ (k.row.image \in Objects => Stored(k.row.image))),
         k.obj <= puts, UNCHANGED <<bytes, meta, objRow, puts>>,
         items' \in [MenuItems -> Item],
         \A i \in MenuItems : items'[i].image \in Objects => Stored(items'[i].image)
  PROVE  CatalogInv'
  <1>1. CatalogTypeOK'
    BY DEF CatalogInv, CatalogTypeOK, CallBecomes
  <1>2. ImagesAreStored'
    BY DEF CatalogInv, ImagesAreStored, Stored
  <1>3. \A d \in CatalogCalls : call'[d] = IF d = c THEN k ELSE call[d]
    BY DEF CatalogInv, CatalogTypeOK, CallBecomes
  <1>4. \A d \in CatalogCalls : PutOK(d)'
    BY <1>3 DEF CatalogInv, PutOK, Stored, Putting, Deleting
  <1>5. PutAlone' /\ PutInTurn'
    BY <1>3 DEF CatalogInv, PutAlone, PutInTurn, Putting, Deleting
  <1> QED BY <1>1, <1>2, <1>4, <1>5 DEF CatalogInv

LEMMA ItemsStored ==
  ASSUME CatalogInv
  PROVE  /\ items \in [MenuItems -> Item]
         /\ \A i \in MenuItems : items[i].image \in Objects => Stored(items[i].image)
         /\ \A c \in CatalogCalls : call[c] \in Call /\ call[c].obj <= puts
         /\ puts \in Nat /\ 0 <= puts /\ puts <= MaxObjects
         /\ 0 \notin Objects /\ Objects \subseteq Images
  BY CatalogAssumption
  DEF CatalogInv, CatalogTypeOK, ImagesAreStored, Stored, PutInTurn, Objects, Images, Foreign

\* Steps that put or delete nothing.
LEMMA CatalogQuietStep ==
  ASSUME CatalogInv, NEW c \in CatalogCalls,
         \/ SeedCheck(c) \/ SeedWrite(c) \/ UpsertItem(c) \/ CallDies(c) \/ PutFails(c)
         \/ ReferToImage(c)
         \/ \E i \in MenuItems, image \in Images : CreateItem(c, i, image) \/ ReadItem(c, i, image)
  PROVE  CatalogInv'
  <1>0. CallEnds(c) => CallBecomes(c, NoCall)
    BY DEF CallEnds, CallBecomes
  <1>1. CASE SeedCheck(c)
    <2>1. CallBecomes(c, [call[c] EXCEPT !.pc = "seed"]) /\ [call[c] EXCEPT !.pc = "seed"] \in Call
      BY <1>1, ItemsStored DEF SeedCheck, CallGoes, CallBecomes, Call
    <2>2. [call[c] EXCEPT !.pc = "seed"].pc = "seed" /\ [call[c] EXCEPT !.pc = "seed"].obj <= puts
      BY ItemsStored DEF Call
    <2> QED BY <1>1, <2>1, <2>2, CatalogQuiet, ItemsStored DEF SeedCheck
  <1>2. CASE SeedWrite(c)
    <2>1. items' \in [MenuItems -> Item]
      BY <1>2, NoCallType, ItemsStored DEF SeedWrite, Item
    <2>2. \A i \in MenuItems : items'[i].image = 0 \/ items'[i].image = items[i].image
      BY <1>2, ItemsStored DEF SeedWrite, Fresh, NoItem, Item
    <2> QED BY <1>0, <1>2, <2>1, <2>2, NoCallType, CatalogQuiet, ItemsStored DEF SeedWrite
  <1>3. CASE UpsertItem(c)
    <2>1. call[c].item \in MenuItems /\ call[c].row \in Item
      BY ItemsStored DEF Call
    <2>2. call[c].row.image \in Objects => Stored(call[c].row.image)
      BY <1>3 DEF UpsertItem, CallAt, CatalogInv, PutOK
    <2> QED BY <1>0, <1>3, <2>1, <2>2, NoCallType, CatalogQuiet, ItemsStored DEF UpsertItem
  <1>4. CASE CallDies(c) \/ PutFails(c)
    BY <1>0, <1>4, NoCallType, CatalogQuiet, ItemsStored DEF CallDies, PutFails
  <1>5. CASE ReferToImage(c)
    <2>1. CASE There(call[c].item)
      <3>1. call[c].item \in MenuItems /\ call[c].obj \in Images
        BY ItemsStored, CatalogAssumption DEF Call, Images, Foreign
      <3>2. Stored(call[c].obj)
        BY <1>5 DEF ReferToImage, CallAt, CatalogInv, PutOK
      <3> DEFINE new == [items[call[c].item] EXCEPT !.image = call[c].obj]
                 k == [call[c] EXCEPT !.pc = "write", !.item = call[c].item, !.row = new]
      <3>3. new \in Item /\ new.image = call[c].obj
        BY <3>1, ItemsStored DEF Item
      <3>4. k \in Call /\ k.pc = "write" /\ k.row.image = call[c].obj /\ k.obj = call[c].obj
        BY <3>1, <3>3, ItemsStored DEF Call
      <3>5. CallBecomes(c, k)
        BY <1>5, <2>1 DEF ReferToImage, Writes, CallBecomes
      <3> QED BY <1>5, <3>2, <3>4, <3>5, CatalogQuiet, ItemsStored DEF ReferToImage
    <2>2. CASE ~There(call[c].item)
      BY <1>0, <1>5, <2>2, NoCallType, CatalogQuiet, ItemsStored DEF ReferToImage
    <2> QED BY <2>1, <2>2
  <1>6. ASSUME NEW i \in MenuItems, NEW new \in Item, Writes(c, i, new),
               new.image \in Objects => Stored(new.image), UNCHANGED <<items, bytes, meta, objRow, puts>>
        PROVE  CatalogInv'
    <2> DEFINE k == [call[c] EXCEPT !.pc = "write", !.item = i, !.row = new]
    <2>1. k \in Call /\ k.pc = "write" /\ k.row = new /\ k.obj = call[c].obj
      BY <1>6, ItemsStored DEF Call
    <2>2. CallBecomes(c, k)
      BY <1>6 DEF Writes, CallBecomes
    <2> QED BY <1>6, <2>1, <2>2, CatalogQuiet, ItemsStored
  <1>7. ASSUME NEW i \in MenuItems, NEW image \in Images,
               CreateItem(c, i, image) \/ ReadItem(c, i, image)
        PROVE  CatalogInv'
    <2> DEFINE new == [items[i] EXCEPT !.image = image]
               fresh == [Fresh EXCEPT !.image = image]
    <2>1. new \in Item /\ fresh \in Item /\ new.image = image /\ fresh.image = image
      BY ItemsStored, NoCallType DEF Item
    <2>2. ASSUME image \in Objects PROVE Stored(image)
      <3>1. image # 0 /\ image # Foreign
        BY <2>2, CatalogAssumption DEF Foreign, Objects
      <3>2. CASE image \in ClientImages
        BY <2>2, <3>1, <3>2 DEF ClientImages, CatalogInv, PutInTurn, Stored
      <3>3. CASE image = items[i].image
        BY <1>7, <2>2, <3>3, ItemsStored
      <3> QED BY <1>7, <3>2, <3>3 DEF CreateItem, ReadItem
    <2>3. /\ Writes(c, i, new) \/ Writes(c, i, fresh)
          /\ UNCHANGED <<items, bytes, meta, objRow, puts>>
      BY <1>7 DEF CreateItem, ReadItem
    <2> HIDE DEF new, fresh
    <2> QED BY <1>6, <2>1, <2>2, <2>3
  <1> QED BY <1>1, <1>2, <1>3, <1>4, <1>5, <1>7

\* What a put or a deletion of an object does to the rest: the others work on
\* other objects, or delete the same.
LEMMA CatalogBegins ==
  ASSUME CatalogInv, NEW c \in CatalogCalls,
         \/ \E i \in MenuItems : Upload(c, i)
         \/ \E o \in Objects : DeleteObject(c, o)
  PROVE  CatalogInv'
  <1>1. ASSUME NEW i \in MenuItems, Upload(c, i) PROVE CatalogInv'
    <2> DEFINE k == [NoCall EXCEPT !.pc = "bytes", !.item = i, !.obj = puts + 1]
    <2>1. /\ puts' = puts + 1 /\ puts' \in 0..MaxObjects /\ puts + 1 \in Objects
          /\ UNCHANGED <<items, bytes, meta, objRow>>
      <3>1. puts < MaxObjects /\ puts' = puts + 1 /\ UNCHANGED <<items, bytes, meta, objRow>>
        BY <1>1 DEF Upload
      <3> QED BY <3>1, ItemsStored, CatalogAssumption DEF Objects
    <2>2. k \in Call /\ k.pc = "bytes" /\ k.obj = puts + 1
      BY <2>1, NoCallType DEF Call, Putting, Objects
    <2>3. \A d \in CatalogCalls : call'[d] = IF d = c THEN k ELSE call[d]
      BY <1>1 DEF Upload, CatalogInv, CatalogTypeOK
    <2> HIDE DEF k
    <2>4. CatalogTypeOK'
      <3>1. call' \in [CatalogCalls -> Call]
        BY <1>1, <2>2 DEF Upload, CatalogInv, CatalogTypeOK, k
      <3> QED BY <2>1, <3>1 DEF CatalogInv, CatalogTypeOK
    <2>5. ImagesAreStored'
      BY <2>1 DEF CatalogInv, ImagesAreStored
    <2>6. meta[puts + 1] = "none" /\ objRow[puts + 1] = "none"
      BY <2>1, ItemsStored DEF CatalogInv, PutInTurn
    <2>7. \A d \in CatalogCalls : PutOK(d)'
      BY <2>1, <2>2, <2>3, <2>6 DEF CatalogInv, PutOK, Stored, Putting, Deleting
    <2>8. \A d \in CatalogCalls : call[d].obj # puts + 1
      BY ItemsStored, CatalogAssumption DEF Call
    <2>9. PutAlone'
      BY <2>2, <2>3, <2>8 DEF CatalogInv, PutAlone, Putting, Deleting
    <2>10. PutInTurn'
      <3>1. \A d \in CatalogCalls : call'[d].obj <= puts'
        BY <2>1, <2>2, <2>3, ItemsStored, CatalogAssumption DEF Call
      <3> QED BY <2>1, <3>1, ItemsStored DEF CatalogInv, PutInTurn, Objects
    <2> QED BY <2>4, <2>5, <2>7, <2>9, <2>10 DEF CatalogInv
  <1>2. ASSUME NEW o \in Objects, DeleteObject(c, o) PROVE CatalogInv'
    <2> DEFINE k == [NoCall EXCEPT !.pc = "unlink", !.obj = o]
    <2>1. UNCHANGED <<items, bytes, meta, objRow, puts>> /\ meta[o] = "live"
      BY <1>2 DEF DeleteObject
    <2>2. k \in Call /\ k.pc = "unlink" /\ k.obj = o
      <3>1. o \in 0..MaxObjects
        BY CatalogAssumption DEF Objects
      <3> QED BY <3>1, NoCallType DEF Call, Deleting
    <2>3. \A d \in CatalogCalls : call'[d] = IF d = c THEN k ELSE call[d]
      BY <1>2 DEF DeleteObject, CatalogInv, CatalogTypeOK
    <2> HIDE DEF k
    <2>4. CatalogTypeOK'
      <3>1. call' \in [CatalogCalls -> Call]
        BY <1>2, <2>2 DEF DeleteObject, CatalogInv, CatalogTypeOK, k
      <3> QED BY <2>1, <3>1 DEF CatalogInv, CatalogTypeOK
    <2>5. ImagesAreStored'
      BY <2>1 DEF CatalogInv, ImagesAreStored
    <2>6. o <= puts
      BY <2>1, ItemsStored DEF CatalogInv, PutInTurn, Objects
    <2>7. \A d \in CatalogCalls : PutOK(d)'
      BY <2>1, <2>2, <2>3 DEF CatalogInv, PutOK, Stored, Putting, Deleting
    <2>8. \A d \in CatalogCalls : call[d].pc \in Putting => call[d].obj # o
      BY <1>2, <2>1 DEF DeleteObject, CallAt, CatalogInv, PutOK, Putting
    <2>9. PutAlone'
      BY <2>2, <2>3, <2>8 DEF CatalogInv, PutAlone, Putting, Deleting
    <2>10. PutInTurn'
      BY <2>1, <2>2, <2>3, <2>6 DEF CatalogInv, PutInTurn
    <2> QED BY <2>4, <2>5, <2>7, <2>9, <2>10 DEF CatalogInv
  <1> QED BY <1>1, <1>2

LEMMA CatalogWorks ==
  ASSUME CatalogInv, NEW c \in CatalogCalls,
         \/ PutBytes(c) \/ PutMeta(c) \/ PutRow(c) \/ Unlink(c) \/ MarkMeta(c) \/ MarkRow(c)
  PROVE  CatalogInv'
  <1>0. /\ call[c] \in Call /\ call[c].obj \in Objects /\ PutOK(c)
        /\ \A d \in CatalogCalls : PutOK(d)
    BY ItemsStored
    DEF PutBytes, PutMeta, PutRow, Unlink, MarkMeta, MarkRow, CallAt, CatalogInv, PutOK,
        Putting, Deleting
  <1> DEFINE o == call[c].obj
  <1>1. ASSUME NEW pc \in Putting \cup Deleting \cup {"read"}, CallGoes(c, pc)
        PROVE  /\ call' \in [CatalogCalls -> Call]
               /\ \A d \in CatalogCalls : /\ call'[d].obj = call[d].obj
                                          /\ call'[d].row = call[d].row
                                          /\ call'[d].pc = IF d = c THEN pc ELSE call[d].pc
    BY <1>1, <1>0 DEF CallGoes, CatalogInv, CatalogTypeOK, Call
  <1>2. CASE PutBytes(c)
    <2>1. /\ call[c].pc = "bytes" /\ meta[o] = "none" /\ objRow[o] = "none"
          /\ bytes' = bytes \cup {o} /\ UNCHANGED <<items, meta, objRow, puts>>
          /\ CallGoes(c, "meta")
      BY <1>0, <1>2 DEF PutBytes, CallAt, PutOK
    <2>2. \A d \in CatalogCalls : call[d].pc \in Deleting => call[d].obj # o
      BY <2>1 DEF CatalogInv, PutAlone, Putting, Deleting
    <2>3. CatalogTypeOK' /\ ImagesAreStored'
      BY <1>0, <1>1, <2>1 DEF CatalogInv, CatalogTypeOK, ImagesAreStored, Putting
    <2>4. \A d \in CatalogCalls : PutOK(d)'
      BY <1>0, <1>1, <2>1, <2>2 DEF PutOK, Stored, Putting, Deleting
    <2>5. PutAlone' /\ PutInTurn'
      BY <1>1, <2>1 DEF CatalogInv, PutAlone, PutInTurn, Putting, Deleting
    <2> QED BY <2>3, <2>4, <2>5 DEF CatalogInv
  <1>3. CASE PutMeta(c)
    <2>1. /\ call[c].pc = "meta" /\ meta[o] = "none" /\ objRow[o] = "none"
          /\ meta' = [meta EXCEPT ![o] = "live"] /\ UNCHANGED <<items, bytes, objRow, puts>>
          /\ CallGoes(c, "row")
      BY <1>0, <1>3 DEF PutMeta, CallAt, PutOK
    <2>2. \A d \in CatalogCalls \ {c} : call[d].pc \in Putting \cup Deleting => call[d].obj # o
      BY <2>1 DEF CatalogInv, PutAlone, Putting, Deleting
    <2>3. meta \in [Objects -> Marks] /\ meta' \in [Objects -> Marks]
      BY <2>1 DEF CatalogInv, CatalogTypeOK, Marks
    <2>4. CatalogTypeOK' /\ ImagesAreStored'
      <3>1. CatalogTypeOK'
        BY <1>1, <2>1, <2>3 DEF CatalogInv, CatalogTypeOK, Putting
      <3>2. \A i \in MenuItems : items[i].image \in Images
        BY ItemsStored DEF Item
      <3> QED BY <1>0, <2>1, <2>3, <3>1, <3>2 DEF CatalogInv, ImagesAreStored, Objects
    <2>5. \A d \in CatalogCalls : PutOK(d)'
      <3>1. \A d \in CatalogCalls : call[d].row.image \in Images
        BY ItemsStored DEF Item, Call
      <3> QED BY <1>0, <1>1, <2>1, <2>2, <2>3, <3>1 DEF PutOK, Stored, Putting, Deleting, Objects
    <2>6. PutAlone' /\ PutInTurn'
      <3>1. o <= puts
        BY ItemsStored
      <3> QED BY <1>0, <1>1, <2>1, <2>3, <3>1, ItemsStored
          DEF CatalogInv, PutAlone, PutInTurn, Putting, Deleting, Objects
    <2> QED BY <2>4, <2>5, <2>6 DEF CatalogInv
  <1>4. CASE PutRow(c)
    <2>1. /\ call[c].pc = "row" /\ meta[o] # "none"
          /\ objRow' = [objRow EXCEPT ![o] = "live"] /\ UNCHANGED <<items, bytes, meta, puts>>
          /\ CallGoes(c, "read")
      BY <1>0, <1>4 DEF PutRow, CallAt, PutOK
    <2>2. \A d \in CatalogCalls \ {c} : call[d].pc \in Putting \cup Deleting => call[d].obj # o
      BY <2>1 DEF CatalogInv, PutAlone, Putting, Deleting
    <2>3. objRow \in [Objects -> Marks] /\ objRow' \in [Objects -> Marks]
      BY <2>1 DEF CatalogInv, CatalogTypeOK, Marks
    <2>4. CatalogTypeOK' /\ ImagesAreStored'
      <3>1. CatalogTypeOK'
        BY <1>1, <2>1, <2>3 DEF CatalogInv, CatalogTypeOK
      <3>2. \A i \in MenuItems : items[i].image \in Images
        BY ItemsStored DEF Item
      <3> QED BY <1>0, <2>1, <2>3, <3>1, <3>2 DEF CatalogInv, ImagesAreStored, Objects
    <2>5. \A d \in CatalogCalls : PutOK(d)'
      <3>1. \A d \in CatalogCalls : call[d].row.image \in Images
        BY ItemsStored DEF Item, Call
      <3> QED BY <1>0, <1>1, <2>1, <2>2, <2>3, <3>1 DEF PutOK, Stored, Putting, Deleting, Objects
    <2>6. PutAlone' /\ PutInTurn'
      <3>1. o <= puts
        BY ItemsStored
      <3> QED BY <1>0, <1>1, <2>1, <2>3, <3>1, ItemsStored
          DEF CatalogInv, PutAlone, PutInTurn, Putting, Deleting, Objects
    <2> QED BY <2>4, <2>5, <2>6 DEF CatalogInv
  <1>5. CASE Unlink(c)
    <2>1. /\ call[c].pc = "unlink" /\ meta[o] # "none"
          /\ bytes' = bytes \ {o} /\ UNCHANGED <<items, meta, objRow, puts>>
          /\ CallGoes(c, "markMeta")
      BY <1>0, <1>5 DEF Unlink, CallAt, PutOK, Deleting
    <2>2. CatalogTypeOK' /\ ImagesAreStored'
      BY <1>0, <1>1, <2>1 DEF CatalogInv, CatalogTypeOK, ImagesAreStored, Deleting
    <2>3. \A d \in CatalogCalls : PutOK(d)'
      BY <1>0, <1>1, <2>1 DEF PutOK, Stored, Putting, Deleting
    <2>4. PutAlone' /\ PutInTurn'
      BY <1>1, <2>1 DEF CatalogInv, PutAlone, PutInTurn, Putting, Deleting
    <2> QED BY <2>2, <2>3, <2>4 DEF CatalogInv
  <1>6. CASE MarkMeta(c)
    <2>1. /\ call[c].pc = "markMeta" /\ meta[o] # "none" /\ o \notin bytes
          /\ meta' = [meta EXCEPT ![o] = "deleted"] /\ UNCHANGED <<items, bytes, objRow, puts>>
          /\ CallGoes(c, "markRow")
      BY <1>0, <1>6 DEF MarkMeta, CallAt, PutOK, Deleting
    <2>2. \A x \in Objects : meta'[x] = IF x = o THEN "deleted" ELSE meta[x]
      BY <2>1 DEF CatalogInv, CatalogTypeOK
    <2>3. \A i \in MenuItems : items[i].image \in Images
      BY ItemsStored DEF Item
    <2>4. CatalogTypeOK' /\ ImagesAreStored'
      <3>1. meta' \in [Objects -> Marks]
        BY <2>1 DEF CatalogInv, CatalogTypeOK, Marks
      <3>2. CatalogTypeOK'
        BY <1>1, <2>1, <3>1 DEF CatalogInv, CatalogTypeOK, Deleting
      <3> QED BY <1>0, <2>1, <2>2, <2>3, <3>2 DEF CatalogInv, ImagesAreStored, Objects
    <2>5. \A d \in CatalogCalls : PutOK(d)'
      <3>1. \A d \in CatalogCalls : call[d].row.image \in Images
        BY ItemsStored DEF Item, Call
      <3> QED BY <1>0, <1>1, <2>1, <2>2, <3>1 DEF PutOK, Stored, Putting, Deleting, Objects
    <2>6. PutAlone' /\ PutInTurn'
      <3>1. ~(o > puts)
        BY <2>1, <1>0 DEF CatalogInv, PutInTurn
      <3> QED BY <1>0, <1>1, <2>1, <2>2, <3>1
          DEF CatalogInv, PutAlone, PutInTurn, Putting, Deleting
    <2> QED BY <2>4, <2>5, <2>6 DEF CatalogInv
  <1>7. CASE MarkRow(c)
    <2>1. /\ call[c].pc = "markRow" /\ meta[o] # "none" /\ o \notin bytes
          /\ UNCHANGED <<items, bytes, meta, puts>> /\ CallEnds(c)
      BY <1>0, <1>7 DEF MarkRow, CallAt, PutOK, Deleting
    <2>2. /\ \A x \in Objects : \/ objRow'[x] = objRow[x]
                                \/ x = o /\ objRow[x] = "live" /\ objRow'[x] = "deleted"
          /\ objRow' \in [Objects -> Marks]
      BY <1>0, <1>7 DEF MarkRow, CatalogInv, CatalogTypeOK, Marks
    <2>3. /\ call' \in [CatalogCalls -> Call]
          /\ \A d \in CatalogCalls : call'[d] = IF d = c THEN NoCall ELSE call[d]
      BY <2>1, NoCallType DEF CallEnds, CatalogInv, CatalogTypeOK
    <2>4. \A i \in MenuItems : items[i].image \in Images
      BY ItemsStored DEF Item
    <2>5. CatalogTypeOK' /\ ImagesAreStored'
      <3>1. CatalogTypeOK'
        BY <2>1, <2>2, <2>3 DEF CatalogInv, CatalogTypeOK
      <3> QED BY <1>0, <2>1, <2>2, <2>4, <3>1 DEF CatalogInv, ImagesAreStored, Objects
    <2>6. \A d \in CatalogCalls : PutOK(d)'
      <3>1. \A d \in CatalogCalls : call[d].row.image \in Images
        BY ItemsStored DEF Item, Call
      <3> QED BY <1>0, <2>1, <2>2, <2>3, <3>1, NoCallType
          DEF PutOK, Stored, Putting, Deleting, Objects
    <2>7. PutAlone' /\ PutInTurn'
      BY <2>1, <2>2, <2>3, NoCallType, ItemsStored, CatalogAssumption
      DEF CatalogInv, PutAlone, PutInTurn, Putting, Deleting
    <2> QED BY <2>5, <2>6, <2>7 DEF CatalogInv
  <1> QED BY <1>2, <1>3, <1>4, <1>5, <1>6, <1>7

LEMMA CatalogStep == CatalogInv /\ [CatalogNext]_catalogVars => CatalogInv'
  <1> SUFFICES ASSUME CatalogInv, [CatalogNext]_catalogVars PROVE CatalogInv'
    OBVIOUS
  <1>1. CASE UNCHANGED catalogVars
    BY <1>1
    DEF catalogVars, CatalogInv, CatalogTypeOK, ImagesAreStored, PutOK, Stored, PutAlone, PutInTurn
  <1>2. CASE CatalogNext
    BY <1>2, CatalogQuietStep, CatalogBegins, CatalogWorks DEF CatalogNext
  <1> QED BY <1>1, <1>2

LEMMA CatalogInvariant == CatalogSpec => []CatalogInv
  BY CatalogStart, CatalogStep, PTL DEF CatalogSpec

\* An object of the storage that an item refers to, by an upload or by what a
\* client sends, was stored in all three places, and no record calls an object
\* deleted whose bytes are still there, wherever the requests stop
\* (services/object_storage_service.py, upload_item_image, update_item).
THEOREM ImagesStored == CatalogSpec => []ImagesAreStored
  <1>1. CatalogInv => ImagesAreStored
    BY DEF CatalogInv
  <1> QED BY <1>1, CatalogInvariant, PTL

-----------------------------------------------------------------------------
(* Campaigns.                                                              *)

\* A version that may follow another one, as VersionsFollow has it.
Follows(old, new) ==
  \/ new.status \in Successors(old.status) /\ new.design = old.design
  \/ new.status = old.status /\ old.status \in Editable

Projecting(e) == edit[e].pc = "project"
Last == Len(versions)
Ordered == ~Overtaking

\* A request that goes by the latest version carries one that may follow it;
\* as long as no projection is overtaken there is one at a time, of the latest
\* version, and without one the kiosk shows where the campaign stands.
CampaignsInv ==
  /\ CampaignsTypeOK
  /\ VersionsFollow
  /\ \A e \in Editors :
       /\ edit[e].expected <= Last
       /\ edit[e].pc = "append" /\ edit[e].expected = Last => Follows(CurrentVersion, edit[e].new)
       /\ edit[e].pc = "transition" => edit[e].plan # <<>>
       /\ Ordered /\ Projecting(e) => edit[e].expected = Last
  /\ Ordered => \A e, f \in Editors : Projecting(e) /\ Projecting(f) => e = f
  /\ Ordered => AirTellsCampaign

Edits == [pc : {"idle", "transition", "append", "project"}, expected : 0..MaxVersions,
          new : Version, plan : Seq(Statuses)]
QuietEdits == [pc : {"idle", "transition", "append"}, expected : 0..MaxVersions,
               new : Version, plan : Seq(Statuses)]

LEMMA VersionLast ==
  ASSUME CampaignsTypeOK
  PROVE  Last \in Nat /\ Last >= 1 /\ Last <= MaxVersions /\ CurrentVersion \in Version
  BY CampaignsAssumption DEF CampaignsTypeOK, Last, CurrentVersion

\* A lifecycle step leads somewhere else; from the air it leads to what is
\* projected, and what is edited is off air.
LEMMA Lifecycle ==
  ASSUME NEW old \in Version, NEW new \in Version, Follows(old, new)
  PROVE  /\ new.status # old.status => new.status \in Successors(old.status) /\ new.design = old.design
         /\ new.status = old.status => old.status \notin OnAir
         /\ new.status # old.status /\ new.status \notin Projected =>
              old.status \notin OnAir /\ new.status \notin OnAir
  BY DEF Follows, Version, Statuses, Successors, Editable, OnAir, Projected

LEMMA NoEditType ==
  /\ NoVersion \in Version
  /\ NoEdit \in Edits /\ NoEdit \in QuietEdits
  /\ NoEdit.pc = "idle" /\ NoEdit.expected = 0
  <1>1. (CHOOSE d \in Designs : TRUE) \in Designs
    BY CampaignsAssumption
  <1>2. NoVersion \in Version
    BY <1>1 DEF NoVersion, Version, Statuses
  <1> QED BY <1>2, CampaignsAssumption DEF NoEdit, Edits, QuietEdits

LEMMA CampaignsStart == CampaignsInit => CampaignsInv
  <1> SUFFICES ASSUME CampaignsInit PROVE CampaignsInv
    OBVIOUS
  <1>1. Len(versions) = 1 /\ versions[1] = NoVersion /\ versions \in Seq(Version)
    BY NoEditType DEF CampaignsInit
  <1>2. CampaignsTypeOK
    <2>1. missed \in BOOLEAN
      BY DEF CampaignsInit
    <2>2. air \in [version : 0..MaxVersions, on : BOOLEAN]
      BY CampaignsAssumption DEF CampaignsInit
    <2> QED
      BY <1>1, <2>1, <2>2, NoEditType, CampaignsAssumption DEF CampaignsInit, CampaignsTypeOK, Edits
  <1>3. VersionsFollow
    BY <1>1 DEF VersionsFollow
  <1>4. \A e \in Editors : edit[e].pc = "idle" /\ edit[e].expected = 0
    BY NoEditType DEF CampaignsInit
  <1>5. AirTellsCampaign
    BY <1>1 DEF CampaignsInit, AirTellsCampaign, CurrentVersion, NoVersion, OnAir
  <1> QED BY <1>1, <1>2, <1>3, <1>4, <1>5 DEF CampaignsInv, Projecting, Last

\* Steps of one request that append no version and project none.
LEMMA CampaignsQuiet ==
  ASSUME CampaignsInv, NEW e \in Editors, UNCHANGED <<versions, air>>,
         missed' \in BOOLEAN, missed' <=> missed \/ Projecting(e),
         NEW k \in QuietEdits,
         edit' = [edit EXCEPT ![e] = k],
         k.expected <= Last, k.pc = "transition" => k.plan # <<>>,
         k.pc = "append" /\ k.expected = Last => Follows(CurrentVersion, k.new)
  PROVE  CampaignsInv'
  <1>1. \A f \in Editors : edit'[f] = IF f = e THEN k ELSE edit[f]
    BY DEF CampaignsInv, CampaignsTypeOK
  <1>2. CampaignsTypeOK'
    <2>1. k \in Edits
      BY DEF Edits, QuietEdits
    <2> QED BY <2>1 DEF CampaignsInv, CampaignsTypeOK, Edits
  <1>3. VersionsFollow' /\ Last' = Last /\ CurrentVersion' = CurrentVersion
    BY DEF CampaignsInv, VersionsFollow, Last, CurrentVersion
  <1>4. \A f \in Editors : Projecting(f)' <=> f # e /\ Projecting(f)
    BY <1>1 DEF Projecting, QuietEdits
  <1>5. Ordered => AirTellsCampaign'
    <2>1. CASE Projecting(e)
      <3>1. missed'
        BY <2>1
      <3> QED BY <3>1 DEF AirTellsCampaign
    <2>2. CASE ~Projecting(e)
      <3>1. \A f \in Editors : Projecting(f)' <=> Projecting(f)
        BY <1>4, <2>2
      <3>2. missed' <=> missed
        BY <2>2
      <3> QED BY <1>3, <3>1, <3>2 DEF CampaignsInv, AirTellsCampaign, Projecting
    <2> QED BY <2>1, <2>2
  <1> QED BY <1>1, <1>2, <1>3, <1>4, <1>5 DEF CampaignsInv

LEMMA CampaignsEnds ==
  ASSUME CampaignsInv, NEW e \in Editors, EditEnds(e), UNCHANGED <<versions, air>>,
         missed' \in BOOLEAN, missed' <=> missed \/ Projecting(e)
  PROVE  CampaignsInv'
  <1>1. NoEdit.expected <= Last
    BY NoEditType, VersionLast DEF CampaignsInv
  <1>2. NoEdit \in QuietEdits /\ NoEdit.pc # "transition" /\ NoEdit.pc # "append"
    BY NoEditType
  <1>3. edit' = [edit EXCEPT ![e] = NoEdit]
    BY DEF EditEnds
  <1> QED BY <1>1, <1>2, <1>3, CampaignsQuiet

\* What a request is about to append follows the version it read.
LEMMA CampaignsReads ==
  ASSUME CampaignsInv, NEW e \in Editors,
         \/ \E n \in 1..Len(versions), d \in Designs :
              Revise(e, n, d) \/ \E t \in OnAir : PublishCampaign(e, n, d, t)
         \/ \E n \in 1..Len(versions), t \in Statuses : Transition(e, n, t)
         \/ NextTransition(e)
  PROVE  CampaignsInv'
  <1>0. CampaignsTypeOK /\ edit[e] \in Edits
    BY DEF CampaignsInv, CampaignsTypeOK, Edits
  <1>1. ASSUME NEW n \in 0..MaxVersions, n <= Last, NEW new \in Version,
               Follows(CurrentVersion, new), NEW plan \in Seq(Statuses),
               Appends(e, n, new, plan), ~Projecting(e), UNCHANGED <<versions, air, missed>>
        PROVE  CampaignsInv'
    <2> DEFINE k == [pc |-> "append", expected |-> n, new |-> new, plan |-> plan]
    <2>1. k \in QuietEdits /\ k.pc = "append" /\ k.expected = n /\ k.new = new
      BY <1>1 DEF QuietEdits
    <2>2. edit' = [edit EXCEPT ![e] = k]
      BY <1>1 DEF Appends
    <2> HIDE DEF k
    <2>3. missed' \in BOOLEAN /\ (missed' <=> missed \/ Projecting(e))
      BY <1>0, <1>1 DEF CampaignsTypeOK
    <2> QED BY <1>1, <2>1, <2>2, <2>3, CampaignsQuiet
  <1>2. ASSUME NEW d \in Designs, CurrentVersion.status \in Editable
        PROVE  /\ [status |-> CurrentVersion.status, design |-> d] \in Version
               /\ Follows(CurrentVersion, [status |-> CurrentVersion.status, design |-> d])
    BY <1>0, <1>2, VersionLast DEF Version, Follows
  <1>3. ASSUME NEW t \in Statuses, MayBecome(t)
        PROVE  /\ [CurrentVersion EXCEPT !.status = t] \in Version
               /\ Follows(CurrentVersion, [CurrentVersion EXCEPT !.status = t])
    BY <1>0, <1>3, VersionLast DEF Version, Follows, MayBecome
  <1>4. ASSUME NEW n \in 1..Len(versions) PROVE n \in 0..MaxVersions /\ n <= Last
    BY <1>0, VersionLast, CampaignsAssumption DEF Last
  <1>5. ASSUME NEW n \in 1..Len(versions), NEW d \in Designs, Revise(e, n, d)
        PROVE  CampaignsInv'
    <2>1. <<>> \in Seq(Statuses)
      OBVIOUS
    <2> QED BY <1>1, <1>2, <1>4, <1>5, <2>1 DEF Revise, Idle, Projecting
  <1>6. ASSUME NEW n \in 1..Len(versions), NEW d \in Designs, NEW t \in OnAir,
               PublishCampaign(e, n, d, t)
        PROVE  CampaignsInv'
    <2>1. <<"review", t>> \in Seq(Statuses) /\ <<t>> \in Seq(Statuses)
      BY DEF OnAir, Statuses
    <2>2. CurrentVersion.status \in Editable
      BY <1>6 DEF PublishCampaign, Publishable, Editable
    <2> QED BY <1>1, <1>2, <1>4, <1>6, <2>1, <2>2 DEF PublishCampaign, Idle, Projecting
  <1>7. ASSUME NEW n \in 1..Len(versions), NEW t \in Statuses, Transition(e, n, t)
        PROVE  CampaignsInv'
    <2>1. <<>> \in Seq(Statuses)
      OBVIOUS
    <2> QED BY <1>1, <1>3, <1>4, <1>7, <2>1 DEF Transition, Idle, Projecting
  <1>8. CASE NextTransition(e)
    <2> DEFINE t == Head(edit[e].plan)
    <2>1. edit[e].pc = "transition" /\ UNCHANGED <<versions, air, missed>> /\ edit[e].plan # <<>>
      BY <1>8 DEF NextTransition, CampaignsInv
    <2>2. t \in Statuses /\ Tail(edit[e].plan) \in Seq(Statuses)
      BY <1>0, <2>1 DEF Edits
    <2>3. edit[e].expected \in 0..MaxVersions /\ edit[e].expected <= Last /\ ~Projecting(e)
      BY <1>0, <2>1 DEF CampaignsInv, Projecting, Edits
    <2>4. CASE MayBecome(t)
      <3>1. Appends(e, edit[e].expected, [CurrentVersion EXCEPT !.status = t], Tail(edit[e].plan))
        BY <1>8, <2>4 DEF NextTransition
      <3> QED BY <1>1, <1>3, <2>1, <2>2, <2>3, <2>4, <3>1
    <2>5. CASE ~MayBecome(t)
      <3>1. missed' \in BOOLEAN /\ (missed' <=> missed \/ Projecting(e))
        BY <1>0, <2>1, <2>3 DEF CampaignsTypeOK
      <3> QED BY <1>8, <2>1, <2>5, <3>1, CampaignsEnds DEF NextTransition
    <2> QED BY <2>4, <2>5
  <1> QED BY <1>5, <1>6, <1>7, <1>8

LEMMA CampaignsAppend ==
  ASSUME CampaignsInv, NEW e \in Editors, Append_(e)
  PROVE  CampaignsInv'
  <1> DEFINE new == edit[e].new
             n == Len(versions) + 1
  <1>0. /\ CampaignsTypeOK
        /\ edit[e] \in Edits
        /\ edit[e].pc = "append" /\ ~Projecting(e) /\ UNCHANGED <<air, missed>>
        /\ Ordered => \A f \in Editors : ~Projecting(f)
    BY DEF CampaignsInv, CampaignsTypeOK, Append_, Free, Ordered, Projecting, Edits
  <1>1. Last \in Nat /\ Last >= 1 /\ Last < MaxVersions /\ CurrentVersion \in Version /\ n = Last + 1
        /\ n \in 0..MaxVersions
    BY <1>0, VersionLast, CampaignsAssumption DEF Append_, Last
  <1>2. CASE Conflict(edit[e].expected)
    <2>1. missed' \in BOOLEAN /\ (missed' <=> missed \/ Projecting(e))
      BY <1>0 DEF CampaignsTypeOK
    <2> QED BY <1>0, <1>2, <2>1, CampaignsEnds DEF Append_
  <1>3. CASE ~Conflict(edit[e].expected)
    <2>1. edit[e].expected = Last /\ Follows(CurrentVersion, new) /\ new \in Version
      BY <1>0, <1>3 DEF Conflict, Last, CampaignsInv, Edits
    <2>2. versions' = Append(versions, new)
      BY <1>3 DEF Append_
    <2>3. /\ versions' \in Seq(Version) /\ Len(versions') = n
          /\ \A m \in 1..Last : versions'[m] = versions[m]
          /\ versions'[n] = new
      BY <1>0, <1>1, <2>1, <2>2 DEF CampaignsTypeOK, Last
    <2>4. Last' = n /\ CurrentVersion' = new
      BY <2>3 DEF Last, CurrentVersion
    <2>5. VersionsFollow'
      <3> SUFFICES ASSUME NEW m \in 1..Last
                   PROVE  Follows(versions'[m], versions'[m + 1])
        BY <1>1, <2>3 DEF VersionsFollow, Follows, Last
      <3>1. CASE m = Last
        BY <1>1, <2>1, <2>3, <3>1 DEF CurrentVersion, Last
      <3>2. CASE m # Last
        <4>1. m \in 1..(Len(versions) - 1) /\ m + 1 \in 1..Last
          BY <1>1, <3>2 DEF Last
        <4> QED BY <2>3, <4>1 DEF CampaignsInv, VersionsFollow, Follows
      <3> QED BY <3>1, <3>2
    <2> DEFINE moved == new.status # CurrentVersion.status
    <2>6. CASE moved /\ new.status \in Projected
      <3>1. edit' = [edit EXCEPT ![e].pc = "project", ![e].expected = n]
        BY <1>3, <2>6 DEF Append_
      <3>2. \A f \in Editors : f # e => edit'[f] = edit[f]
        BY <3>1 DEF CampaignsInv, CampaignsTypeOK
      <3>3. edit'[e] = [edit[e] EXCEPT !.pc = "project", !.expected = n]
        BY <3>1 DEF CampaignsInv, CampaignsTypeOK
      <3>4. edit'[e].pc = "project" /\ edit'[e].expected = n
        BY <1>0, <3>3 DEF Edits
      <3>5. CampaignsTypeOK'
        <4>1. edit'[e] \in Edits
          BY <1>0, <1>1, <3>3 DEF Edits
        <4>2. edit' \in [Editors -> Edits]
          <5>1. edit \in [Editors -> Edits]
            BY <1>0 DEF CampaignsTypeOK, Edits
          <5>2. edit' = [f \in Editors |-> edit'[f]]
            BY <3>1, <5>1
          <5> QED BY <3>2, <4>1, <5>1, <5>2
        <4> QED BY <1>0, <1>1, <2>3, <4>2 DEF CampaignsTypeOK, Edits
      <3>6. Ordered => \A f \in Editors : Projecting(f)' <=> f = e
        BY <1>0, <3>2, <3>4 DEF Projecting
      <3>7. Ordered => AirTellsCampaign'
        BY <3>6 DEF AirTellsCampaign, Projecting
      <3>8. \A f \in Editors : edit[f].expected <= Last /\ edit[f].expected \in Nat
        BY DEF CampaignsInv, CampaignsTypeOK, Edits
      <3> QED BY <1>1, <2>4, <2>5, <3>2, <3>4, <3>5, <3>6, <3>7, <3>8 DEF CampaignsInv
    <2>7. CASE ~(moved /\ new.status \in Projected)
      <3> DEFINE k == IF edit[e].plan = <<>> THEN NoEdit
                      ELSE [edit[e] EXCEPT !.pc = "transition", !.expected = n]
      <3>1. edit' = [edit EXCEPT ![e] = k]
        BY <1>3, <2>7 DEF Append_
      <3>2. \A f \in Editors : edit'[f] = IF f = e THEN k ELSE edit[f]
        BY <3>1 DEF CampaignsInv, CampaignsTypeOK
      <3>3. /\ k \in Edits
            /\ k.pc \in {"idle", "transition"} /\ k.expected <= n /\ k.expected \in Nat
            /\ k.pc = "transition" => k.plan # <<>>
        <4>1. CASE edit[e].plan = <<>>
          BY <1>1, <4>1, NoEditType
        <4>2. CASE edit[e].plan # <<>>
          <5>1. ASSUME NEW m \in 0..MaxVersions
                PROVE  LET x == [edit[e] EXCEPT !.pc = "transition", !.expected = m] IN
                       /\ x \in Edits /\ x.pc = "transition" /\ x.expected = m
                       /\ x.plan = edit[e].plan
            BY <1>0 DEF Edits
          <5> HIDE DEF n
          <5>2. n \in 0..MaxVersions /\ n \in Nat /\ n <= n
            BY <1>1, CampaignsAssumption
          <5> QED BY <4>2, <5>1, <5>2
        <4> QED BY <4>1, <4>2
      <3> HIDE DEF k
      <3>4. CampaignsTypeOK'
        BY <1>0, <1>1, <2>3, <3>1, <3>3 DEF CampaignsTypeOK, Edits
      <3>5. Ordered => \A f \in Editors : ~Projecting(f)'
        BY <1>0, <3>2, <3>3 DEF Projecting
      <3>6. CurrentVersion.status \notin OnAir /\ new.status \notin OnAir
        BY <1>1, <2>1, <2>7, Lifecycle
      <3>7. Ordered => AirTellsCampaign'
        BY <1>0, <2>4, <3>6 DEF AirTellsCampaign, CampaignsInv, Projecting
      <3>8. \A f \in Editors : edit[f].expected <= Last /\ edit[f].expected \in Nat
        BY DEF CampaignsInv, CampaignsTypeOK, Edits
      <3> QED BY <1>1, <2>4, <2>5, <3>2, <3>3, <3>4, <3>5, <3>7, <3>8 DEF CampaignsInv
    <2> QED BY <2>6, <2>7
  <1> QED BY <1>2, <1>3

LEMMA CampaignsProject ==
  ASSUME CampaignsInv, NEW e \in Editors, Project(e)
  PROVE  CampaignsInv'
  <1> DEFINE k == IF edit[e].plan = <<>> THEN NoEdit ELSE [edit[e] EXCEPT !.pc = "transition"]
  <1>0. /\ CampaignsTypeOK /\ Projecting(e) /\ UNCHANGED versions
        /\ edit[e].expected <= Last /\ edit[e] \in Edits
        /\ Ordered => edit[e].expected = Last
    BY DEF CampaignsInv, CampaignsTypeOK, Project, Projecting, Edits
  <1>1. edit' = [edit EXCEPT ![e] = k] /\ air' = Shown(edit[e].expected)
    BY <1>0 DEF Project, GoesOn
  <1>2. \A f \in Editors : edit'[f] = IF f = e THEN k ELSE edit[f]
    BY <1>1 DEF CampaignsInv, CampaignsTypeOK
  <1>3. /\ k \in Edits
        /\ k.pc \in {"idle", "transition"} /\ k.expected <= Last
        /\ k.pc = "transition" => k.plan # <<>>
    BY <1>0, NoEditType, VersionLast DEF Edits
  <1> HIDE DEF k
  <1>4. Ordered => \A f \in Editors : ~Projecting(f)'
    BY <1>0, <1>2, <1>3 DEF CampaignsInv, Projecting
  <1>5. Last' = Last /\ CurrentVersion' = CurrentVersion /\ VersionsFollow'
    BY <1>0 DEF Last, CurrentVersion, CampaignsInv, VersionsFollow
  <1>6. Ordered => air' = [version |-> Last, on |-> CurrentVersion.status \in OnAir]
    BY <1>0, <1>1 DEF Shown, CurrentVersion, Last
  <1>7. CampaignsTypeOK'
    <2>1. air' \in [version : 0..MaxVersions, on : BOOLEAN] /\ missed' = FALSE
      BY <1>0, <1>1 DEF Shown, Edits, Project
    <2> QED BY <1>0, <1>1, <1>3, <2>1 DEF CampaignsTypeOK, Edits
  <1>8. Ordered => AirTellsCampaign'
    <2> SUFFICES ASSUME Ordered PROVE AirTellsCampaign'
      OBVIOUS
    <2>1. versions'[Last] = CurrentVersion
      BY <1>0 DEF CurrentVersion, Last
    <2>2. /\ air'.version = Last
          /\ air'.on = (CurrentVersion.status \in OnAir)
      BY <1>6
    <2>3. CurrentVersion' = CurrentVersion
      BY <1>5
    <2> QED BY <2>1, <2>2, <2>3 DEF AirTellsCampaign
  <1> QED BY <1>2, <1>3, <1>4, <1>5, <1>7, <1>8 DEF CampaignsInv

LEMMA CampaignsStep == CampaignsInv /\ [CampaignsNext]_campaignVars => CampaignsInv'
  <1> SUFFICES ASSUME CampaignsInv, [CampaignsNext]_campaignVars PROVE CampaignsInv'
    OBVIOUS
  <1>1. CASE UNCHANGED campaignVars
    BY <1>1
    DEF campaignVars, CampaignsInv, CampaignsTypeOK, VersionsFollow, AirTellsCampaign,
        CurrentVersion, Projecting, Last
  <1>2. ASSUME NEW e \in Editors, Abort(e) PROVE CampaignsInv'
    <2>1. missed' \in BOOLEAN /\ (missed' <=> missed \/ Projecting(e))
      BY <1>2 DEF Abort, Projecting, CampaignsInv, CampaignsTypeOK
    <2> QED BY <1>2, <2>1, CampaignsEnds DEF Abort
  <1> QED BY <1>1, <1>2, CampaignsReads, CampaignsAppend, CampaignsProject DEF CampaignsNext

LEMMA CampaignsInvariant == CampaignsSpec => []CampaignsInv
  BY CampaignsStart, CampaignsStep, PTL DEF CampaignsSpec

\* The history of a campaign follows its lifecycle, however requests overlap,
\* break off and overtake each other (repositories/campaign_repository.py,
\* append_version with the expected version).
THEOREM HistoryIsLawful == CampaignsSpec => []VersionsFollow
  <1>1. CampaignsInv => VersionsFollow
    BY DEF CampaignsInv
  <1> QED BY <1>1, CampaignsInvariant, PTL

\* When no projection is overtaken, the kiosk moreover shows where the campaign
\* stands, unless the request that was to project its latest step ended before it
\* did (modules/promotion, publish_campaign and project_legacy).
THEOREM CampaignsAreKept ==
  ASSUME ~Overtaking
  PROVE  CampaignsSpec => []CampaignIsKept
  <1>1. CampaignsInv => CampaignIsKept
    BY DEF CampaignsInv, CampaignIsKept, Ordered
  <1> QED BY <1>1, CampaignsInvariant, PTL


(***************************************************************************)
(* Voice evidence.                                                         *)
(***************************************************************************)

ProjectedIsEvidence == \A t \in Turns : event[t].status = "projected" => t \in evidence

\* A process that marks an event has projected it, one that refuses it is at it.
BatchIsHandled ==
  \A p \in Processes :
    /\ proc[p].pc \in {"mark", "fail"} => proc[p].todo # {}
    /\ proc[p].pc = "mark" => At1(p) \in evidence

EarlyHasEnded == \A t \in early : turn[t] \in {"ended", "told", "deleted"}

Covered(t) == t \in Enqueued \/ turn[t] = "deleted"

\* What an unfinished backfill still has to enqueue is in its hands.
BackfillHolds ==
  \A p \in Processes :
    proc[p].pc \in {"begin", "enqueue"} => \A t \in early : t \in proc[p].todo \/ Covered(t)

EvidenceInv ==
  /\ VoiceEvidenceTypeOK
  /\ ProjectedIsEvidence
  /\ BatchIsHandled
  /\ EarlyHasEnded
  /\ BackfillHolds
  /\ BackfillIsComplete

LEMMA EvidenceStart == VoiceEvidenceInit => EvidenceInv
  BY VoiceEvidenceAssumption
  DEF VoiceEvidenceInit, EvidenceInv, VoiceEvidenceTypeOK, Row, Proc, Off, ProjectedIsEvidence,
      BatchIsHandled, EarlyHasEnded, BackfillHolds, BackfillIsComplete

LEMMA FaultyType == VoiceEvidenceTypeOK /\ Faulty => evFaults' \in 0..MaxFaults
  BY VoiceEvidenceAssumption DEF VoiceEvidenceTypeOK, Faulty

\* ON CONFLICT DO NOTHING: a row that is there stays as it is.
LEMMA InsertedRows ==
  ASSUME VoiceEvidenceTypeOK, NEW t \in Turns
  PROVE  /\ Inserted(t) \in [Turns -> Row]
         /\ Inserted(t)[t].status # "none"
         /\ \A u \in Turns :
              /\ event[u].status # "none" => Inserted(t)[u] = event[u]
              /\ Inserted(t)[u].status = "projected" => event[u].status = "projected"
  <1>1. CASE t \in Enqueued
    BY <1>1 DEF VoiceEvidenceTypeOK, Inserted, Enqueued
  <1>2. CASE t \notin Enqueued
    <2> DEFINE r == [event[t] EXCEPT !.status = "pending"]
    <2>1. event[t] \in Row /\ event[t].status = "none"
      BY <1>2 DEF VoiceEvidenceTypeOK, Enqueued
    <2>2. r \in Row /\ r.status = "pending"
      BY <2>1 DEF Row
    <2>3. Inserted(t) = [event EXCEPT ![t] = r]
      BY <1>2 DEF Inserted
    <2> HIDE DEF r
    <2> QED BY <2>1, <2>2, <2>3 DEF VoiceEvidenceTypeOK
  <1> QED BY <1>1, <1>2

\* A row is only settled as projected when its evidence is there, and no row
\* ever disappears.
RowsKept ==
  \A u \in Turns :
    /\ event[u].status # "none" => event'[u].status # "none"
    /\ event'[u].status = "projected" => u \in evidence'

\* Steps of the turns leave the processes alone.
LEMMA TurnSteps ==
  ASSUME EvidenceInv, NEW t \in Turns, EndTurn(t) \/ EnqueueTerminal(t) \/ CleanUpTurn(t)
  PROVE  EvidenceInv'
  <1>0. VoiceEvidenceTypeOK /\ UNCHANGED <<evidence, backfill, proc, early>>
    BY DEF EvidenceInv, EndTurn, EnqueueTerminal, CleanUpTurn
  <1>1. event' \in [Turns -> Row] /\ evFaults' \in 0..MaxFaults
    BY <1>0, InsertedRows, FaultyType
    DEF EndTurn, EnqueueTerminal, CleanUpTurn, VoiceEvidenceTypeOK
  <1>2. RowsKept
    BY <1>0, InsertedRows
    DEF EndTurn, EnqueueTerminal, CleanUpTurn, EvidenceInv, ProjectedIsEvidence, RowsKept
  <1>3. /\ turn' \in [Turns -> {"running", "ended", "told", "deleted"}]
        /\ \A u \in Turns : /\ turn[u] = "deleted" => turn'[u] = "deleted"
                            /\ turn[u] # "running" => turn'[u] # "running"
    BY <1>0 DEF EndTurn, EnqueueTerminal, CleanUpTurn, VoiceEvidenceTypeOK
  <1>4. \A u \in Turns : Covered(u) => Covered(u)'
    BY <1>2, <1>3 DEF Covered, Enqueued, RowsKept
  <1>5. VoiceEvidenceTypeOK'
    BY <1>0, <1>1, <1>3 DEF VoiceEvidenceTypeOK
  <1>6. EarlyHasEnded'
    BY <1>0, <1>3, <1>5 DEF EvidenceInv, EarlyHasEnded, VoiceEvidenceTypeOK
  <1>7. BackfillHolds' /\ BackfillIsComplete'
    BY <1>0, <1>4 DEF EvidenceInv, BackfillHolds, BackfillIsComplete, Covered, VoiceEvidenceTypeOK
  <1>8. ProjectedIsEvidence' /\ BatchIsHandled'
    BY <1>0, <1>2 DEF EvidenceInv, ProjectedIsEvidence, RowsKept, BatchIsHandled, At1
  <1> QED BY <1>5, <1>6, <1>7, <1>8 DEF EvidenceInv

\* A step of a process that keeps the turns, and what it owes.
LEMMA ProcessStep ==
  ASSUME EvidenceInv, NEW p \in Processes, NEW pc, NEW left,
         ProcGoes(p, pc, left), [pc |-> pc, todo |-> left] \in Proc,
         event' \in [Turns -> Row], RowsKept, evFaults' \in 0..MaxFaults,
         evidence \subseteq evidence', evidence' \subseteq Turns, UNCHANGED <<turn, early>>,
         backfill' \in {"none", "running", "completed"}, BackfillIsComplete',
         pc \in {"mark", "fail"} => left # {},
         pc = "mark" => (CHOOSE t \in left : TRUE) \in evidence',
         pc \in {"begin", "enqueue"} => \A t \in early : t \in left \/ Covered(t)'
  PROVE  EvidenceInv'
  <1> DEFINE k == [pc |-> pc, todo |-> left]
  <1>1. k \in Proc /\ k.pc = pc /\ k.todo = left /\ proc' = [proc EXCEPT ![p] = k]
    BY DEF ProcGoes
  <1> HIDE DEF k
  <1>2. VoiceEvidenceTypeOK /\ \A q \in Processes : proc'[q] = IF q = p THEN k ELSE proc[q]
    BY <1>1 DEF EvidenceInv, VoiceEvidenceTypeOK
  <1>3. \A u \in Turns : Covered(u) => Covered(u)'
    BY DEF Covered, Enqueued, RowsKept
  <1>4. VoiceEvidenceTypeOK'
    BY <1>1, <1>2 DEF VoiceEvidenceTypeOK
  <1>5. ProjectedIsEvidence' /\ EarlyHasEnded'
    BY <1>2 DEF EvidenceInv, ProjectedIsEvidence, RowsKept, EarlyHasEnded
  <1>6. BatchIsHandled'
    BY <1>1, <1>2 DEF EvidenceInv, BatchIsHandled, At1
  <1>7. BackfillHolds'
    <2>1. early' = early /\ early \subseteq Turns
      BY <1>2 DEF VoiceEvidenceTypeOK
    <2> QED BY <1>1, <1>2, <1>3, <2>1 DEF EvidenceInv, BackfillHolds
  <1> QED BY <1>4, <1>5, <1>6, <1>7 DEF EvidenceInv

LEMMA ProcessActions ==
  ASSUME EvidenceInv, NEW p \in Processes,
         \/ StartProcess(p) \/ BeginBackfill(p) \/ CompleteBackfill(p) \/ BackfillRaises(p)
         \/ ClaimRead(p) \/ ClaimWrite(p) \/ ProjectTurn(p) \/ MarkProjected(p)
         \/ MarkProjectionFailed(p) \/ StopProcess(p)
         \/ \E t \in Turns : BackfillTurn(p, t)
  PROVE  EvidenceInv'
  <1>0. /\ VoiceEvidenceTypeOK /\ ProjectedIsEvidence /\ BackfillIsComplete
        /\ proc[p] \in Proc /\ proc[p].todo \subseteq Turns
        /\ \A u \in Turns : event[u] \in Row
    BY DEF EvidenceInv, VoiceEvidenceTypeOK, Proc
  <1>1. UNCHANGED <<event, evidence>> => event' \in [Turns -> Row] /\ RowsKept
    BY <1>0 DEF RowsKept, ProjectedIsEvidence, VoiceEvidenceTypeOK
  <1>2. UNCHANGED <<event, turn, early, backfill>> => BackfillIsComplete'
    BY <1>0 DEF BackfillIsComplete, Enqueued
  <1>3. CASE StartProcess(p)
    <2>1. early \subseteq Turns /\ early' \subseteq Turns
      BY <1>0, <1>3 DEF StartProcess, VoiceEvidenceTypeOK, Retained
    <2>2. \A t \in early' : turn[t] \in {"ended", "told", "deleted"}
      BY <1>0, <1>3 DEF StartProcess, Retained, EvidenceInv, EarlyHasEnded
    <2>3. \A t \in early' : t \in Retained \/ turn[t] = "deleted"
      BY <2>1, <2>2 DEF Retained
    <2> DEFINE k == [pc |-> "begin", todo |-> Retained]
    <2>4. k \in Proc /\ k.pc = "begin" /\ k.todo = Retained /\ proc' = [proc EXCEPT ![p] = k]
      BY <1>3 DEF StartProcess, ProcGoes, Proc, Retained
    <2> HIDE DEF k
    <2>5. \A q \in Processes : proc'[q] = IF q = p THEN k ELSE proc[q]
      BY <1>0, <2>4 DEF VoiceEvidenceTypeOK
    <2>6. UNCHANGED <<turn, event, evidence, backfill, evFaults>>
      BY <1>3 DEF StartProcess
    <2>7. VoiceEvidenceTypeOK'
      BY <1>0, <2>1, <2>4, <2>6 DEF VoiceEvidenceTypeOK
    <2>8. ProjectedIsEvidence' /\ BatchIsHandled' /\ EarlyHasEnded'
      BY <2>2, <2>4, <2>5, <2>6
      DEF EvidenceInv, ProjectedIsEvidence, BatchIsHandled, At1, EarlyHasEnded
    <2>9. \A t : Covered(t)' <=> Covered(t)
      BY <2>6 DEF Covered, Enqueued
    <2>10. early' # early => backfill = "none" /\ \A q \in Processes : proc[q].pc = "off"
      BY <1>3 DEF StartProcess, ProcAt
    <2>11. BackfillHolds'
      BY <2>3, <2>4, <2>5, <2>9, <2>10 DEF EvidenceInv, BackfillHolds, Covered
    <2>12. BackfillIsComplete'
      BY <1>0, <2>6, <2>10 DEF BackfillIsComplete, Enqueued
    <2> QED BY <2>7, <2>8, <2>11, <2>12 DEF EvidenceInv
  <1>4. CASE BeginBackfill(p)
    <2>0. /\ proc[p].pc = "begin" /\ UNCHANGED <<turn, event, evidence, early, evFaults>>
          /\ \A t : Covered(t)' <=> Covered(t)
      BY <1>4 DEF BeginBackfill, ProcAt, Covered, Enqueued
    <2>1. CASE backfill = "completed"
      <3>1. ProcGoes(p, "claim", {}) /\ UNCHANGED backfill
        BY <1>4, <2>1 DEF BeginBackfill
      <3>2. [pc |-> "claim", todo |-> {}] \in Proc
        BY DEF Proc
      <3> QED BY <1>0, <1>1, <1>2, <2>0, <3>1, <3>2, ProcessStep DEF VoiceEvidenceTypeOK
    <2>2. CASE backfill # "completed"
      <3>1. ProcGoes(p, "enqueue", proc[p].todo) /\ backfill' = "running"
        BY <1>4, <2>2 DEF BeginBackfill
      <3>2. [pc |-> "enqueue", todo |-> proc[p].todo] \in Proc
        BY <1>0 DEF Proc
      <3>3. \A t \in early : t \in proc[p].todo \/ Covered(t)'
        BY <2>0 DEF EvidenceInv, BackfillHolds
      <3>4. BackfillIsComplete'
        BY <3>1 DEF BackfillIsComplete
      <3> QED BY <1>0, <1>1, <2>0, <3>1, <3>2, <3>3, <3>4, ProcessStep DEF VoiceEvidenceTypeOK
    <2> QED BY <2>1, <2>2
  <1>5. CASE CompleteBackfill(p)
    <2>0. /\ proc[p].pc = "enqueue" /\ proc[p].todo = {} /\ backfill' = "completed"
          /\ UNCHANGED <<turn, event, evidence, early, evFaults>>
      BY <1>5 DEF CompleteBackfill, ProcAt, MayComplete
    <2>1. BackfillIsComplete'
      BY <2>0 DEF EvidenceInv, BackfillHolds, Covered, BackfillIsComplete, Enqueued
    <2>2. ProcGoes(p, "claim", {}) /\ [pc |-> "claim", todo |-> {}] \in Proc
      BY <1>5 DEF CompleteBackfill, Proc
    <2> QED BY <1>0, <1>1, <2>0, <2>1, <2>2, ProcessStep DEF VoiceEvidenceTypeOK
  <1>6. CASE BackfillRaises(p)
    <2>1. /\ UNCHANGED <<turn, event, evidence, backfill, early>> /\ evFaults' \in 0..MaxFaults
          /\ ProcGoes(p, "claim", {}) /\ [pc |-> "claim", todo |-> {}] \in Proc
      BY <1>0, <1>6, FaultyType DEF BackfillRaises, Proc
    <2> QED BY <1>0, <1>1, <1>2, <2>1, ProcessStep DEF VoiceEvidenceTypeOK
  <1>7. CASE ClaimRead(p)
    <2> DEFINE waiting == {t \in Turns : event[t].status = "pending"}
    <2>1. UNCHANGED <<turn, event, evidence, backfill, early, evFaults>>
      BY <1>7 DEF ClaimRead
    <2>2. ProcGoes(p, "claiming", waiting) /\ [pc |-> "claiming", todo |-> waiting] \in Proc
      BY <1>7 DEF ClaimRead, Proc
    <2> HIDE DEF waiting
    <2> QED BY <1>0, <1>1, <1>2, <2>1, <2>2, ProcessStep DEF VoiceEvidenceTypeOK
  <1>8. CASE ClaimWrite(p)
    <2>1. /\ UNCHANGED <<turn, evidence, backfill, early, evFaults>>
          /\ ProcGoes(p, "project", proc[p].todo) /\ [pc |-> "project", todo |-> proc[p].todo] \in Proc
      BY <1>0, <1>8 DEF ClaimWrite, Proc
    <2> DEFINE taken(u) == [status |-> "processing", attempts |-> event[u].attempts + 1]
    <2>3. \A u \in Turns : taken(u) \in Row /\ taken(u).status = "processing"
      <3>1. ASSUME NEW u \in Turns PROVE event[u].attempts + 1 \in Nat
        <4>1. event[u] \in Row
          BY <1>0
        <4>2. event[u].attempts \in Nat
          BY <4>1 DEF Row
        <4> QED BY <4>2
      <3> QED BY <3>1 DEF Row
    <2>2. event' = [u \in Turns |-> IF u \in proc[p].todo THEN taken(u) ELSE event[u]]
      BY <1>8 DEF ClaimWrite
    <2> HIDE DEF taken
    <2>4. event' \in [Turns -> Row]
      BY <1>0, <2>2, <2>3
    <2>5. RowsKept
      BY <1>0, <2>1, <2>2, <2>3 DEF RowsKept, ProjectedIsEvidence
    <2>6. BackfillIsComplete'
      BY <1>0, <2>1, <2>5 DEF BackfillIsComplete, Enqueued, RowsKept, VoiceEvidenceTypeOK
    <2> QED BY <1>0, <2>1, <2>4, <2>5, <2>6, ProcessStep DEF VoiceEvidenceTypeOK
  <1>9. CASE ProjectTurn(p)
    <2>0. /\ UNCHANGED <<turn, event, backfill, early>> /\ proc[p].pc = "project"
          /\ proc[p].todo # {} => At1(p) \in proc[p].todo
          /\ \A pc \in {"mark", "fail"} : [pc |-> pc, todo |-> proc[p].todo] \in Proc
          /\ [pc |-> "up", todo |-> {}] \in Proc
      BY <1>0, <1>9 DEF ProjectTurn, ProcAt, At1, Proc
    <2>1. CASE ProcGoes(p, "up", {}) /\ UNCHANGED <<evidence, evFaults>>
      BY <1>0, <1>1, <1>2, <2>0, <2>1, ProcessStep DEF VoiceEvidenceTypeOK
    <2>2. CASE /\ proc[p].todo # {} /\ ProcGoes(p, "fail", proc[p].todo)
               /\ UNCHANGED evidence /\ evFaults' \in 0..MaxFaults
      BY <1>0, <1>1, <1>2, <2>0, <2>2, ProcessStep DEF VoiceEvidenceTypeOK
    <2>3. CASE /\ proc[p].todo # {} /\ ProcGoes(p, "mark", proc[p].todo)
               /\ evidence' = evidence \cup {At1(p)} /\ UNCHANGED evFaults
      <3>1. evidence \subseteq evidence' /\ evidence' \subseteq Turns /\ At1(p) \in evidence'
        BY <1>0, <2>0, <2>3 DEF VoiceEvidenceTypeOK
      <3>2. RowsKept /\ event' \in [Turns -> Row]
        BY <1>0, <2>0, <3>1 DEF RowsKept, ProjectedIsEvidence, VoiceEvidenceTypeOK
      <3> QED BY <1>0, <1>2, <2>0, <2>3, <3>1, <3>2, ProcessStep DEF VoiceEvidenceTypeOK, At1
    <2> QED BY <1>0, <1>9, <2>1, <2>2, <2>3, FaultyType DEF ProjectTurn, VoiceEvidenceTypeOK
  <1>10. CASE MarkProjected(p)
    <2> DEFINE rest == proc[p].todo \ {At1(p)}
               k == [event[At1(p)] EXCEPT !.status = "projected"]
    <2>0. /\ UNCHANGED <<turn, evidence, backfill, early>> /\ proc[p].pc = "mark"
          /\ proc[p].todo # {} /\ At1(p) \in proc[p].todo /\ At1(p) \in Turns /\ At1(p) \in evidence
          /\ [pc |-> "fail", todo |-> proc[p].todo] \in Proc
      BY <1>0, <1>10 DEF MarkProjected, ProcAt, At1, Proc, EvidenceInv, BatchIsHandled
    <2>1. [pc |-> "project", todo |-> rest] \in Proc
      BY <1>0 DEF Proc
    <2>2. k \in Row /\ k.status = "projected"
      BY <1>0, <2>0 DEF Row
    <2>3. CASE event' = [event EXCEPT ![At1(p)] = k] /\ ProcGoes(p, "project", rest) /\ UNCHANGED evFaults
      <3> HIDE DEF rest, k
      <3>1. event' \in [Turns -> Row] /\ RowsKept
        BY <1>0, <2>0, <2>2, <2>3 DEF RowsKept, ProjectedIsEvidence, VoiceEvidenceTypeOK
      <3>2. BackfillIsComplete'
        BY <1>0, <2>0, <3>1 DEF BackfillIsComplete, Enqueued, RowsKept, VoiceEvidenceTypeOK
      <3> QED BY <1>0, <2>0, <2>1, <2>3, <3>1, <3>2, ProcessStep DEF VoiceEvidenceTypeOK
    <2>4. CASE Faulty /\ ProcGoes(p, "fail", proc[p].todo) /\ UNCHANGED event
      BY <1>0, <1>1, <1>2, <2>0, <2>4, FaultyType, ProcessStep DEF VoiceEvidenceTypeOK
    <2> QED BY <1>10, <2>3, <2>4 DEF MarkProjected
  <1>11. CASE MarkProjectionFailed(p)
    <2> DEFINE rest == proc[p].todo \ {At1(p)}
               k == [event[At1(p)] EXCEPT !.status = Refused(event[At1(p)].attempts)]
    <2>0. /\ UNCHANGED <<turn, evidence, backfill, early>> /\ proc[p].pc = "fail"
          /\ proc[p].todo # {} /\ At1(p) \in proc[p].todo /\ At1(p) \in Turns
          /\ [pc |-> "up", todo |-> {}] \in Proc
      BY <1>0, <1>11 DEF MarkProjectionFailed, ProcAt, At1, Proc, EvidenceInv, BatchIsHandled
    <2>1. [pc |-> "project", todo |-> rest] \in Proc
      BY <1>0 DEF Proc
    <2>2. k \in Row /\ k.status \in {"pending", "failed"}
      BY <1>0, <2>0 DEF Row, Refused
    <2>3. CASE event' = [event EXCEPT ![At1(p)] = k] /\ ProcGoes(p, "project", rest) /\ UNCHANGED evFaults
      <3> HIDE DEF rest, k
      <3>1. event' \in [Turns -> Row] /\ RowsKept
        BY <1>0, <2>0, <2>2, <2>3 DEF RowsKept, ProjectedIsEvidence, VoiceEvidenceTypeOK
      <3>2. BackfillIsComplete'
        BY <1>0, <2>0, <3>1 DEF BackfillIsComplete, Enqueued, RowsKept, VoiceEvidenceTypeOK
      <3> QED BY <1>0, <2>0, <2>1, <2>3, <3>1, <3>2, ProcessStep DEF VoiceEvidenceTypeOK
    <2>4. CASE Faulty /\ ProcGoes(p, "up", {}) /\ UNCHANGED event
      BY <1>0, <1>1, <1>2, <2>0, <2>4, FaultyType, ProcessStep DEF VoiceEvidenceTypeOK
    <2> QED BY <1>11, <2>3, <2>4 DEF MarkProjectionFailed
  <1>12. CASE StopProcess(p)
    <2>1. /\ UNCHANGED <<turn, event, evidence, backfill, early>> /\ evFaults' \in 0..MaxFaults
          /\ ProcGoes(p, "off", {}) /\ [pc |-> "off", todo |-> {}] \in Proc
      BY <1>0, <1>12, FaultyType DEF StopProcess, Proc, VoiceEvidenceTypeOK
    <2> QED BY <1>0, <1>1, <1>2, <2>1, ProcessStep DEF VoiceEvidenceTypeOK
  <1>13. ASSUME NEW t \in Turns, BackfillTurn(p, t) PROVE EvidenceInv'
    <2> DEFINE rest == proc[p].todo \ {t}
    <2>1. /\ UNCHANGED <<turn, evidence, backfill, early, evFaults>> /\ proc[p].pc = "enqueue"
          /\ event' = Inserted(t) /\ ProcGoes(p, "enqueue", rest)
          /\ [pc |-> "enqueue", todo |-> rest] \in Proc
      BY <1>0, <1>13 DEF BackfillTurn, ProcAt, Proc
    <2>2. event' \in [Turns -> Row] /\ event'[t].status # "none" /\ RowsKept
      BY <1>0, <2>1, InsertedRows DEF RowsKept, ProjectedIsEvidence
    <2>3. \A u \in Turns : Covered(u) => Covered(u)'
      BY <2>1, <2>2 DEF Covered, Enqueued, RowsKept
    <2>4. early \subseteq Turns /\ \A u \in early : u \in rest \/ Covered(u)'
      BY <1>0, <2>1, <2>2, <2>3
      DEF EvidenceInv, BackfillHolds, VoiceEvidenceTypeOK, Covered, Enqueued
    <2>5. BackfillIsComplete'
      BY <1>0, <2>1, <2>2 DEF BackfillIsComplete, Enqueued, RowsKept, VoiceEvidenceTypeOK
    <2> HIDE DEF rest
    <2> QED BY <1>0, <2>1, <2>2, <2>4, <2>5, ProcessStep DEF VoiceEvidenceTypeOK
  <1> QED BY <1>3, <1>4, <1>5, <1>6, <1>7, <1>8, <1>9, <1>10, <1>11, <1>12, <1>13

LEMMA EvidenceStep == EvidenceInv /\ [VoiceEvidenceNext]_evidenceVars => EvidenceInv'
  <1>1. EvidenceInv /\ UNCHANGED evidenceVars => EvidenceInv'
    BY DEF evidenceVars, EvidenceInv, VoiceEvidenceTypeOK, ProjectedIsEvidence, BatchIsHandled,
           At1, EarlyHasEnded, BackfillHolds, Covered, BackfillIsComplete, Enqueued
  <1> QED BY <1>1, TurnSteps, ProcessActions DEF VoiceEvidenceNext

LEMMA EvidenceInvariant == VoiceEvidenceSpec => []EvidenceInv
  BY EvidenceStart, EvidenceStep, PTL DEF VoiceEvidenceSpec

\* What the reconciliation calls ready, or empty, leaves out no turn that was
\* ever enqueued, and a completed backfill left none of the turns it was begun
\* for (modules/voice_evidence, bootstrap/startup.py), however many processes
\* start, die and overlap.
THEOREM EvidenceStaysComplete == VoiceEvidenceSpec => []EvidenceIsComplete
  <1>1. EvidenceInv => EvidenceIsComplete
    <2> SUFFICES ASSUME EvidenceInv PROVE ReadyIsComplete
      BY DEF EvidenceInv, EvidenceIsComplete
    <2>1. \A t \in Turns : event[t].status \in {"none", "pending", "processing", "projected", "failed"}
      BY DEF EvidenceInv, VoiceEvidenceTypeOK, Row
    <2> SUFFICES ASSUME Reconciliation \in {"ready", "true_zero"}, NEW t \in Enqueued PROVE t \in evidence
      BY DEF ReadyIsComplete
    <2>2. event[t].status \notin {"pending", "processing", "failed"}
      BY DEF Reconciliation, Enqueued
    <2> QED BY <2>1, <2>2 DEF EvidenceInv, ProjectedIsEvidence, Enqueued
  <1> QED BY <1>1, EvidenceInvariant, PTL

-----------------------------------------------------------------------------
(***************************************************************************)
(* Knowledge change candidates.                                            *)
(***************************************************************************)

Confirming == {"item", "duplicate", "draft", "revise", "publish", "record"}
Carrying == {"edit", "abandon"} \cup Confirming

Sound(c, rec) == rec.accepted => <<c, rec.content>> \in passed

\* The record in a request is one the candidate had: its acceptance stands, and
\* nothing ever changes what a candidate does or the revision it starts from.
\* On SQLite none rests between the comparison of the revision and the write.
Carries(k) ==
  k.pc \in Carrying =>
    /\ k.c \in 1..made
    /\ Sound(k.c, k.rec)
    /\ k.rec.action = cand[k.c].action /\ k.rec.rev = cand[k.c].rev
    /\ k.pc \in Confirming => k.rec.accepted
    /\ OnSqlite => k.pc # "revise"

\* On SQLite an update is written at the revision its candidate starts from,
\* which the item then leaves behind.
AppliedOnce ==
  /\ \A w \in applied : w.c \in 1..made
  /\ OnSqlite => \A w \in applied :
       cand[w.c].action = "update" => w.rev = cand[w.c].rev /\ w.rev < itemRev
  /\ OnSqlite => \A v, w \in applied : v.c = w.c /\ cand[w.c].action = "update" => v = w

LabInv ==
  /\ LabTypeOK
  /\ \A c \in Candidates : Sound(c, cand[c])
  /\ \A c \in Candidates : c > made => cand[c] = NoRecord
  /\ \A o \in Operators : Carries(op[o])
  /\ AppliedWasAccepted
  /\ AppliedOnce

LEMMA NoRecordType == NoRecord \in Record /\ NoRecord.status = "none" /\ ~NoRecord.accepted
  <1>1. (CHOOSE x \in Contents : TRUE) \in Contents
    BY LabAssumption
  <1> QED BY <1>1, LabAssumption DEF NoRecord, Record

LEMMA NoLabRequestType == NoLabRequest \in Request /\ NoLabRequest.pc \notin Carrying
  BY NoRecordType, LabAssumption DEF NoLabRequest, Request, Carrying, Confirming

LEMMA LabStart == LabInit => LabInv
  <1> SUFFICES ASSUME LabInit PROVE LabInv
    OBVIOUS
  <1>1. LabTypeOK
    BY NoRecordType, NoLabRequestType, LabAssumption DEF LabInit, LabTypeOK, Candidates
  <1> QED
    BY <1>1, NoRecordType, NoLabRequestType
    DEF LabInit, LabInv, Sound, Carries, AppliedWasAccepted, AppliedOnce

\* A request that touches nothing but itself.
LEMMA LabRequest ==
  ASSUME LabInv, NEW o \in Operators, NEW k \in Request, Carries(k),
         op' = [op EXCEPT ![o] = k],
         UNCHANGED <<cand, made, itemRev, created, passed, applied>>
  PROVE  LabInv'
  <1>1. \A q \in Operators : op'[q] = IF q = o THEN k ELSE op[q]
    BY DEF LabInv, LabTypeOK
  <1>2. LabTypeOK'
    BY DEF LabInv, LabTypeOK
  <1>3. \A q \in Operators : Carries(op[q])'
    BY <1>1 DEF LabInv, Carries, Sound
  <1> QED BY <1>2, <1>3 DEF LabInv, Sound, AppliedWasAccepted, AppliedOnce

LEMMA LabEnds ==
  ASSUME LabInv, NEW o \in Operators, RequestEnds(o),
         UNCHANGED <<cand, made, itemRev, created, passed, applied>>
  PROVE  LabInv'
  BY LabRequest, NoLabRequestType DEF RequestEnds, Carries

\* A request that goes on with the record it holds.
LEMMA LabGoesOn ==
  ASSUME LabInv, NEW o \in Operators, NEW pc, Goto(o, pc),
         pc \in Carrying, op[o].pc \in Carrying, pc \in Confirming => op[o].pc \in Confirming,
         OnSqlite => pc # "revise"
  PROVE  LET k == [op[o] EXCEPT !.pc = pc] IN
         k \in Request /\ Carries(k) /\ op' = [op EXCEPT ![o] = k]
  <1>1. op[o] \in Request /\ Carries(op[o]) /\ op \in [Operators -> Request]
    BY DEF LabInv, LabTypeOK
  <1>2. op' = [op EXCEPT ![o] = [op[o] EXCEPT !.pc = pc]]
    BY <1>1 DEF Goto
  <1>3. pc \in {"idle", "analyze", "save", "edit", "abandon", "item", "duplicate",
                "draft", "revise", "publish", "record"}
    BY DEF Carrying, Confirming
  <1> DEFINE k == [op[o] EXCEPT !.pc = pc]
  <1>4. k \in Request /\ k.pc = pc /\ k.c = op[o].c /\ k.rec = op[o].rec
    BY <1>1, <1>3 DEF Request
  <1> HIDE DEF k
  <1>5. Carries(k)
    BY <1>1, <1>4 DEF Carries
  <1> QED BY <1>2, <1>4, <1>5 DEF k

\* The whole record is written back over whatever the candidate has become.
LEMMA LabWriteBack ==
  ASSUME LabInv, NEW o \in Operators, op[o].pc \in Carrying, NEW rec \in Record,
         rec.action = op[o].rec.action, rec.rev = op[o].rec.rev,
         UpdateCandidate(o, rec), RequestEnds(o),
         passed \subseteq passed', passed' \subseteq Candidates \X Contents,
         rec.accepted => <<op[o].c, rec.content>> \in passed', UNCHANGED <<made, itemRev, created, applied>>
  PROVE  LabInv'
  <1> DEFINE c == op[o].c
  <1>0. LabTypeOK /\ Carries(op[o])
    BY DEF LabInv
  <1>1. /\ c \in 1..made /\ c \in Candidates /\ cand' = [cand EXCEPT ![c] = rec]
        /\ rec.action = cand[c].action /\ rec.rev = cand[c].rev
    BY <1>0, LabAssumption DEF Carries, LabTypeOK, Candidates, UpdateCandidate
  <1>2. rec.accepted => <<c, rec.content>> \in passed'
    OBVIOUS
  <1>3. op' = [op EXCEPT ![o] = NoLabRequest]
    BY DEF RequestEnds
  <1> HIDE DEF c
  <1>4. \A d \in Candidates :
          /\ cand'[d] = IF d = c THEN rec ELSE cand[d]
          /\ cand'[d].action = cand[d].action /\ cand'[d].rev = cand[d].rev
    BY <1>0, <1>1 DEF LabTypeOK
  <1>5. \A q \in Operators : op'[q] = IF q = o THEN NoLabRequest ELSE op[q]
    BY <1>0, <1>3 DEF LabTypeOK
  <1>6. LabTypeOK'
    BY <1>0, <1>1, <1>3, NoLabRequestType DEF LabTypeOK
  <1>7. \A d \in Candidates : Sound(d, cand[d])'
    BY <1>2, <1>4 DEF LabInv, Sound
  <1>8. \A d \in Candidates : d > made' => cand'[d] = NoRecord
    BY <1>0, <1>1, <1>4 DEF LabInv, LabTypeOK, Candidates
  <1>9. 1..made \subseteq Candidates
    BY <1>0, LabAssumption DEF LabTypeOK, Candidates
  <1>10. ASSUME NEW q \in Operators PROVE Carries(op[q])'
    <2>1. CASE q = o
      BY <1>5, <2>1, NoLabRequestType DEF Carries
    <2>2. CASE q # o
      <3>1. op'[q] = op[q] /\ Carries(op[q])
        BY <1>5, <2>2 DEF LabInv
      <3> QED BY <1>4, <1>9, <3>1 DEF Carries, Sound
    <2> QED BY <2>1, <2>2
  <1>11. AppliedWasAccepted' /\ AppliedOnce'
    BY <1>4, <1>9 DEF LabInv, AppliedWasAccepted, AppliedOnce
  <1> QED BY <1>6, <1>7, <1>8, <1>10, <1>11 DEF LabInv

LEMMA LabBuilds ==
  ASSUME LabInv, NEW o \in Operators,
         \/ Simulate(o)
         \/ \E a \in {"update", "create"}, x \in Contents : BuildCandidate(o, a, x)
  PROVE  LabInv'
  <1>0. op[o] \in Request /\ op \in [Operators -> Request] /\ itemRev \in 1..MaxRevision
    BY DEF LabInv, LabTypeOK
  <1>1. CASE Simulate(o)
    <2> DEFINE k == [op[o] EXCEPT !.pc = "analyze"]
    <2>1. op' = [op EXCEPT ![o] = k] /\ UNCHANGED <<cand, made, itemRev, created, passed, applied>>
      BY <1>0, <1>1 DEF Simulate, Goto
    <2>2. k \in Request /\ k.pc \notin Carrying
      BY <1>0 DEF Request, Carrying, Confirming
    <2> HIDE DEF k
    <2> QED BY <2>1, <2>2, LabRequest DEF Carries
  <1>2. ASSUME NEW a \in {"update", "create"}, NEW x \in Contents, BuildCandidate(o, a, x)
        PROVE  LabInv'
    <2> DEFINE r == [status |-> "pending", action |-> a, content |-> x,
                     rev |-> IF a = "update" THEN itemRev ELSE 0, accepted |-> TRUE]
               k == [op[o] EXCEPT !.pc = "save", !.rec = r]
    <2>1. op' = [op EXCEPT ![o] = k] /\ UNCHANGED <<cand, made, itemRev, created, passed, applied>>
      BY <1>0, <1>2 DEF BuildCandidate
    <2>2. r \in Record
      BY <1>0, LabAssumption DEF Record
    <2> HIDE DEF r
    <2>3. k \in Request /\ k.pc \notin Carrying
      BY <1>0, <2>2 DEF Request, Carrying, Confirming
    <2> HIDE DEF k
    <2> QED BY <2>1, <2>3, LabRequest DEF Carries
  <1> QED BY <1>1, <1>2

LEMMA LabCreates ==
  ASSUME LabInv, NEW o \in Operators, CreateCandidate(o)
  PROVE  LabInv'
  <1> DEFINE n == made + 1
             rec == op[o].rec
  <1>0. /\ LabTypeOK /\ rec \in Record /\ n \in Candidates /\ n \in Nat /\ made \in Nat /\ n > made
        /\ rec.content \in Contents
    BY LabAssumption DEF LabInv, LabTypeOK, CreateCandidate, Request, Candidates, Record
  <1>1. /\ cand' = [cand EXCEPT ![n] = rec] /\ passed' = passed \cup {<<n, rec.content>>}
        /\ made' = n /\ op' = [op EXCEPT ![o] = NoLabRequest] /\ UNCHANGED <<itemRev, created, applied>>
    BY DEF CreateCandidate, RequestEnds
  <1> HIDE DEF n, rec
  <1>2. \A c \in Candidates : cand'[c] = IF c = n THEN rec ELSE cand[c]
    BY <1>0, <1>1 DEF LabTypeOK
  <1>3. \A q \in Operators : op'[q] = IF q = o THEN NoLabRequest ELSE op[q]
    BY <1>0, <1>1 DEF LabTypeOK
  <1>4. LabTypeOK'
    <2>1. passed' \subseteq Candidates \X Contents
      BY <1>0, <1>1 DEF LabTypeOK
    <2>2. made' \in 0..MaxCandidates
      BY <1>0, <1>1, LabAssumption DEF Candidates
    <2> QED BY <1>0, <1>1, <2>1, <2>2, NoLabRequestType DEF LabTypeOK
  <1>5. \A c \in Candidates : Sound(c, cand[c])'
    BY <1>1, <1>2 DEF LabInv, Sound
  <1>6. \A c \in 1..made : c \in Candidates /\ c # n /\ c \in 1..made'
    BY <1>0, <1>1, LabAssumption DEF LabTypeOK, Candidates, n
  <1>7. \A c \in Candidates : c > made' => cand'[c] = NoRecord
    BY <1>0, <1>1, <1>2 DEF LabInv, Candidates, n
  <1>8. ASSUME NEW q \in Operators PROVE Carries(op[q])'
    <2>1. CASE q = o
      BY <1>3, <2>1, NoLabRequestType DEF Carries
    <2>2. CASE q # o
      <3>1. op'[q] = op[q] /\ Carries(op[q])
        BY <1>3, <2>2 DEF LabInv
      <3> QED BY <1>1, <1>2, <1>6, <3>1 DEF Carries, Sound
    <2> QED BY <2>1, <2>2
  <1>9. AppliedWasAccepted' /\ AppliedOnce'
    BY <1>1, <1>2, <1>6 DEF LabInv, AppliedWasAccepted, AppliedOnce
  <1> QED BY <1>4, <1>5, <1>7, <1>8, <1>9 DEF LabInv

LEMMA LabOpens ==
  ASSUME LabInv, NEW o \in Operators, NEW c \in Candidates,
         \/ OpenCandidate(o, c, "edit") \/ OpenCandidate(o, c, "abandon")
         \/ ConfirmCandidate(o, c)
  PROVE  LabInv'
  <1>1. PICK pc \in Carrying : /\ OpenCandidate(o, c, pc)
                              /\ pc # "revise" /\ (pc \in Confirming => cand[c].accepted)
    BY DEF ConfirmCandidate, Carrying, Confirming
  <1>2. LabTypeOK /\ cand[c] \in Record /\ Sound(c, cand[c]) /\ c \in 1..made
    <2>1. c <= made
      BY <1>1, NoRecordType DEF OpenCandidate, LabInv, LabTypeOK, Candidates
    <2> QED BY <2>1 DEF LabInv, LabTypeOK, Candidates
  <1> DEFINE k == [pc |-> pc, c |-> c, rec |-> cand[c]]
  <1>3. op' = [op EXCEPT ![o] = k] /\ UNCHANGED <<cand, made, itemRev, created, passed, applied>>
    BY <1>1 DEF OpenCandidate
  <1>4. k \in Request
    <2>1. c \in 0..MaxCandidates
      BY DEF Candidates
    <2> QED BY <1>1, <1>2, <2>1 DEF Request, Carrying, Confirming
  <1>5. Carries(k)
    BY <1>1, <1>2 DEF Carries
  <1> QED BY <1>3, <1>4, <1>5, LabRequest

\* What a carried record becomes when one of its marks is changed.
LEMMA Rewritten ==
  ASSUME LabInv, NEW o \in Operators, op[o].pc \in Carrying
  PROVE  /\ op[o].rec \in Record /\ Sound(op[o].c, op[o].rec) /\ op[o].c \in Candidates
         /\ \A s \in {"abandoned", "stale", "confirmed"} :
              LET r == [op[o].rec EXCEPT !.status = s] IN
              /\ r \in Record /\ r.action = op[o].rec.action /\ r.rev = op[o].rec.rev
              /\ r.accepted = op[o].rec.accepted /\ r.content = op[o].rec.content
  <1>1. op[o].rec \in Record /\ Carries(op[o])
    BY DEF LabInv, LabTypeOK, Request
  <1>2. op[o].c \in Candidates /\ Sound(op[o].c, op[o].rec)
    BY <1>1, LabAssumption DEF Carries, LabInv, LabTypeOK, Candidates
  <1>3. ASSUME NEW s \in {"abandoned", "stale", "confirmed"}
        PROVE  LET r == [op[o].rec EXCEPT !.status = s] IN
               /\ r \in Record /\ r.action = op[o].rec.action /\ r.rev = op[o].rec.rev
               /\ r.accepted = op[o].rec.accepted /\ r.content = op[o].rec.content
    BY <1>1 DEF Record
  <1> QED BY <1>1, <1>2, <1>3

LEMMA LabMarks ==
  ASSUME LabInv, NEW o \in Operators, op[o].pc \in Carrying,
         NEW s \in {"abandoned", "stale", "confirmed"},
         UpdateCandidate(o, [op[o].rec EXCEPT !.status = s]), RequestEnds(o),
         UNCHANGED <<made, itemRev, created, passed, applied>>
  PROVE  LabInv'
  <1> DEFINE r == [op[o].rec EXCEPT !.status = s]
  <1>1. /\ r \in Record /\ r.action = op[o].rec.action /\ r.rev = op[o].rec.rev
        /\ r.accepted = op[o].rec.accepted /\ r.content = op[o].rec.content
        /\ Sound(op[o].c, op[o].rec)
    BY Rewritten
  <1>2. UpdateCandidate(o, r)
    OBVIOUS
  <1>3. passed' \subseteq Candidates \X Contents
    BY DEF LabInv, LabTypeOK
  <1> HIDE DEF r
  <1> QED BY <1>1, <1>2, <1>3, LabWriteBack DEF Sound

LEMMA LabSaves ==
  ASSUME LabInv, NEW o \in Operators, NEW x \in Contents, NEW e \in BOOLEAN, SaveEdit(o, x, e)
  PROVE  LabInv'
  <1> DEFINE r == [op[o].rec EXCEPT !.content = x, !.accepted = e]
  <1>1. /\ op[o].pc = "edit" /\ UpdateCandidate(o, r) /\ RequestEnds(o)
        /\ UNCHANGED <<made, itemRev, created, applied>>
    BY DEF SaveEdit, At, Verdict
  <1>2. op[o].rec \in Record /\ op[o].c \in Candidates
    BY <1>1, Rewritten DEF Carrying
  <1>3. /\ r \in Record /\ r.action = op[o].rec.action /\ r.rev = op[o].rec.rev
        /\ r.accepted = e /\ r.content = x
    BY <1>2 DEF Record
  <1> HIDE DEF r
  <1>4. passed \subseteq Candidates \X Contents /\ <<op[o].c, x>> \in Candidates \X Contents
    BY <1>2 DEF LabInv, LabTypeOK
  <1>5. /\ passed \subseteq passed' /\ passed' \subseteq Candidates \X Contents
        /\ e => <<op[o].c, x>> \in passed'
    BY <1>4 DEF SaveEdit
  <1> QED BY <1>1, <1>3, <1>5, LabWriteBack DEF Carrying

\* Publication touches the item alone: an update leaves its revision behind.
LEMMA ItemMoves ==
  ASSUME LabInv, NEW o \in Operators, NEW k \in Request, Carries(k),
         op' = [op EXCEPT ![o] = k], itemRev' \in 1..MaxRevision, itemRev' >= itemRev,
         UNCHANGED <<cand, made, created, passed, applied>>
  PROVE  LabInv'
  <1>1. \A q \in Operators : op'[q] = IF q = o THEN k ELSE op[q]
    BY DEF LabInv, LabTypeOK
  <1>2. LabTypeOK'
    BY DEF LabInv, LabTypeOK
  <1>3. \A q \in Operators : Carries(op[q])'
    BY <1>1 DEF LabInv, Carries, Sound
  <1>4. \A w \in applied : w.rev < itemRev => w.rev < itemRev'
    <2>1. \A w \in applied : w.rev \in 1..MaxRevision
      BY DEF LabInv, LabTypeOK
    <2> QED BY <2>1, LabAssumption DEF LabInv, LabTypeOK
  <1> QED BY <1>2, <1>3, <1>4 DEF LabInv, Sound, AppliedWasAccepted, AppliedOnce

LEMMA LabDrafts ==
  ASSUME LabInv, NEW o \in Operators, Draft(o)
  PROVE  LabInv'
  <1> DEFINE rec == op[o].rec
             w == [c |-> op[o].c, content |-> rec.content, rev |-> itemRev]
             k == [op[o] EXCEPT !.pc = "publish"]
  <1>0. /\ LabTypeOK /\ op[o].pc \in {"draft", "revise"} /\ (OnSqlite => op[o].pc = "draft")
        /\ rec \in Record /\ rec.content \in Contents
        /\ Carries(op[o]) /\ rec.accepted /\ UNCHANGED <<cand, made, passed>>
        /\ itemRev \in 1..MaxRevision /\ itemRev < MaxRevision
    <2>1. op[o].pc \in {"draft", "revise"} /\ UNCHANGED <<cand, made, passed>> /\ itemRev < MaxRevision
      BY DEF Draft
    <2>2. LabTypeOK /\ Carries(op[o]) /\ op[o] \in Request
      BY DEF LabInv, LabTypeOK
    <2> QED BY <2>1, <2>2 DEF LabTypeOK, Request, Record, Carries, Carrying, Confirming
  <1>1. CASE RequestEnds(o) /\ UNCHANGED <<itemRev, created, applied>>
    BY <1>0, <1>1, LabEnds
  <1>2. ASSUME /\ applied' = applied \cup {w} /\ Goto(o, "publish")
               /\ \/ rec.action = "create" /\ created' = created \cup {rec.content} /\ UNCHANGED itemRev
                  \/ /\ rec.action = "update" /\ itemRev' = itemRev + 1 /\ UNCHANGED created
                     /\ OnSqlite => itemRev = rec.rev
        PROVE LabInv'
    <2>1. k \in Request /\ Carries(k) /\ op' = [op EXCEPT ![o] = k]
      BY <1>0, <1>2, LabGoesOn DEF Carrying, Confirming
    <2>2. /\ op[o].c \in 1..made /\ op[o].c \in Candidates
          /\ <<op[o].c, rec.content>> \in passed
          /\ rec.action = cand[op[o].c].action /\ rec.rev = cand[op[o].c].rev
      BY <1>0, Rewritten DEF Carries, Carrying, Confirming, Sound
    <2>3. /\ w.c = op[o].c /\ w.content = rec.content /\ w.rev = itemRev
          /\ w \in [c : Candidates, content : Contents, rev : 1..MaxRevision]
      BY <1>0, <2>2
    <2> HIDE DEF k, w, rec
    <2>4. \A q \in Operators : op'[q] = IF q = o THEN k ELSE op[q]
      BY <1>0, <2>1 DEF LabTypeOK
    <2>5. itemRev' \in 1..MaxRevision /\ itemRev' >= itemRev
          /\ (rec.action = "update" => itemRev' = itemRev + 1)
      BY <1>0, <1>2, LabAssumption
    <2>6. LabTypeOK'
      BY <1>0, <1>2, <2>1, <2>3, <2>5 DEF LabTypeOK
    <2>7. \A q \in Operators : Carries(op[q])'
      BY <1>0, <2>1, <2>4 DEF LabInv, Carries, Sound
    <2>8. AppliedWasAccepted'
      BY <1>0, <1>2, <2>2, <2>3 DEF LabInv, AppliedWasAccepted
    <2>9. \A v \in applied : v.rev \in Nat /\ v.rev <= MaxRevision
      BY <1>0, LabAssumption DEF LabTypeOK
    <2>10. OnSqlite => \A v \in applied' : cand[v.c].action = "update" => v.rev = cand[v.c].rev /\ v.rev < itemRev'
      BY <1>0, <1>2, <2>2, <2>3, <2>5, <2>9 DEF LabInv, AppliedOnce
    <2>11. ASSUME OnSqlite, NEW v \in applied, v.c = w.c, cand[w.c].action = "update" PROVE FALSE
      <3>1. v.rev = cand[w.c].rev /\ v.rev < itemRev
        BY <2>11 DEF LabInv, AppliedOnce
      <3> QED BY <1>2, <2>2, <2>3, <2>9, <2>11, <3>1
    <2>12. AppliedOnce'
      BY <1>0, <1>2, <2>2, <2>3, <2>10, <2>11 DEF LabInv, AppliedOnce
    <2> QED BY <1>0, <2>6, <2>7, <2>8, <2>12 DEF LabInv, Sound
  <1>3. CASE ~OnSqlite /\ Goto(o, "revise") /\ UNCHANGED <<itemRev, created, applied>>
    BY <1>0, <1>3, LabGoesOn, LabRequest DEF Carrying, Confirming
  <1>4. OnSqlite /\ MayWrite(o) => itemRev = rec.rev
    BY <1>0 DEF MayWrite, RevisionMatches, At
  <1>5. ~MayWrite(o) /\ RevisionMatches(rec) => ~OnSqlite
    BY DEF MayWrite
  <1> HIDE DEF rec, w, k
  <1> QED BY <1>1, <1>2, <1>3, <1>4, <1>5 DEF Draft, rec, w

LEMMA LabConfirms ==
  ASSUME LabInv, NEW o \in Operators,
         \/ SaveAbandon(o) \/ RequestDies(o) \/ CheckItem(o) \/ CheckDuplicate(o)
         \/ PublishCandidate(o) \/ RecordConfirmed(o)
  PROVE  LabInv'
  <1>1. CASE SaveAbandon(o)
    BY <1>1, LabMarks DEF SaveAbandon, At, Carrying
  <1>2. CASE RequestDies(o)
    BY <1>2, LabEnds DEF RequestDies
  <1>3. CASE RecordConfirmed(o)
    BY <1>3, LabMarks DEF RecordConfirmed, At, Carrying, Confirming
  <1>4. CASE CheckItem(o)
    <2>1. op[o].pc = "item" /\ UNCHANGED <<made, itemRev, created, passed, applied>>
      BY <1>4 DEF CheckItem, At
    <2>2. CASE itemRev # op[o].rec.rev
      BY <1>4, <2>1, <2>2, LabMarks DEF CheckItem, Carrying, Confirming
    <2>3. CASE Goto(o, "duplicate") /\ UNCHANGED cand
      BY <2>1, <2>3, LabGoesOn, LabRequest DEF Carrying, Confirming
    <2> QED BY <1>4, <2>2, <2>3 DEF CheckItem
  <1>5. CASE CheckDuplicate(o)
    <2>1. /\ op[o].pc = "duplicate"
          /\ UNCHANGED <<cand, made, itemRev, created, passed, applied>>
      BY <1>5 DEF CheckDuplicate, At
    <2>2. CASE Goto(o, "draft")
      BY <2>1, <2>2, LabGoesOn, LabRequest DEF Carrying, Confirming
    <2> QED BY <1>5, <2>1, <2>2, LabEnds DEF CheckDuplicate
  <1>6. CASE PublishCandidate(o)
    <2>1. /\ op[o].pc = "publish" /\ itemRev < MaxRevision
          /\ UNCHANGED <<cand, made, created, passed, applied>>
      BY <1>6 DEF PublishCandidate, At
    <2>2. CASE itemRev' \in {itemRev, itemRev + 1} /\ Goto(o, "record")
      <3>1. itemRev' \in 1..MaxRevision /\ itemRev' >= itemRev
        BY <2>1, <2>2, LabAssumption DEF LabInv, LabTypeOK
      <3> QED BY <2>1, <2>2, <3>1, LabGoesOn, ItemMoves DEF Carrying, Confirming
    <2>3. CASE UNCHANGED itemRev /\ RequestEnds(o)
      BY <2>1, <2>3, LabEnds
    <2> QED BY <1>6, <2>2, <2>3 DEF PublishCandidate
  <1> QED BY <1>1, <1>2, <1>3, <1>4, <1>5, <1>6

LEMMA LabAuthor ==
  ASSUME LabInv, Author
  PROVE  LabInv'
  <1>1. itemRev' = itemRev + 1 /\ UNCHANGED <<cand, made, created, op, passed, applied>>
    BY DEF Author
  <1>2. itemRev' \in 1..MaxRevision
    BY LabAssumption DEF LabInv, LabTypeOK, Author
  <1>3. \A w \in applied : w.rev < itemRev => w.rev < itemRev'
    <2>1. itemRev \in Nat /\ \A w \in applied : w.rev \in Nat
      BY LabAssumption DEF LabInv, LabTypeOK
    <2> QED BY <1>1, <2>1
  <1> QED
    BY <1>1, <1>2, <1>3
    DEF LabInv, LabTypeOK, Sound, Carries, AppliedWasAccepted, AppliedOnce

LEMMA LabStep == LabInv /\ [LabNext]_labVars => LabInv'
  <1> SUFFICES ASSUME LabInv, [LabNext]_labVars PROVE LabInv'
    OBVIOUS
  <1>1. CASE UNCHANGED labVars
    BY <1>1 DEF labVars, LabInv, LabTypeOK, Sound, Carries, AppliedWasAccepted, AppliedOnce
  <1>2. ASSUME NEW o \in Operators, NEW x \in Contents, NEW e \in BOOLEAN, SaveEdit(o, x, e)
        PROVE  LabInv'
    BY <1>2, LabSaves
  <1>3. ASSUME NEW o \in Operators, NEW c \in Candidates,
               OpenCandidate(o, c, "edit") \/ OpenCandidate(o, c, "abandon") \/ ConfirmCandidate(o, c)
        PROVE  LabInv'
    BY <1>3, LabOpens
  <1> QED
    BY <1>1, <1>2, <1>3, LabAuthor, LabBuilds, LabCreates, LabConfirms, LabDrafts DEF LabNext

LEMMA LabInvariant == LabSpec => []LabInv
  BY LabStart, LabStep, PTL DEF LabSpec

\* Whatever edits, abandonments, deaths and other confirmations come between,
\* what a confirmation writes to the knowledge base passed the evaluation as it
\* stands, and where BEGIN IMMEDIATE makes revise_draft one step a candidate that
\* updates an item is written once (modules/optimization_lab, confirm_candidate).
THEOREM ChangesAreAsAccepted ==
  ASSUME OnSqlite
  PROVE  LabSpec => []AppliedAsAccepted
  <1>1. ASSUME LabInv, NEW c \in Candidates, cand[c].action = "update"
        PROVE  Cardinality({w \in applied : w.c = c}) <= 1
    <2> DEFINE S == {w \in applied : w.c = c}
    <2>1. \A v, w \in S : v = w
      BY <1>1 DEF LabInv, AppliedOnce
    <2>2. CASE S = {}
      BY <2>2, FS_EmptySet
    <2>3. CASE S # {}
      <3>1. PICK w \in S : TRUE
        BY <2>3
      <3>2. S = {w}
        BY <2>1, <3>1
      <3> HIDE DEF S
      <3>3. Cardinality(S) = 1
        BY <3>2, FS_Singleton
      <3> QED BY <3>3 DEF S
    <2> QED BY <2>2, <2>3
  <1>2. LabInv => AppliedAsAccepted
    BY <1>1 DEF LabInv, AppliedAsAccepted, UpdateAppliedOnce
  <1> QED BY <1>2, LabInvariant, PTL

-----------------------------------------------------------------------------
(***************************************************************************)
(* Retrieval checks, when no identity comes back for something else.       *)
(***************************************************************************)

\* A configuration that was published is told apart by its version.
Past(c) == c.version <= config.version /\ (c.version = config.version => c = config)

\* An eligible check saw what it is stored for.
Vouching(check) ==
  /\ Past(check.of.config)
  /\ check.eligible => check.saw = check.of /\ check.of.config.version # 0

\* While a check retrieves, what is published only moves on.
Between(k) ==
  /\ k.pc \in {"retrieve", "after"} => k.was.index <= index /\ Past(k.was.config)
  /\ k.pc = "after" =>
       /\ k.was.index <= k.check.saw.index /\ k.check.saw.index <= index
       /\ k.was.config.version <= k.check.saw.config.version
       /\ k.check.saw.config.version <= config.version

AdminInv(k) ==
  /\ Between(k)
  /\ k.pc = "save" => k.was.config.version = config.version + 1
  /\ k.pc = "store" => k.check.state = "pending" /\ Vouching(k.check)
  /\ k.pc = "mark" => k.id \in 1..MaxChecks /\ checks[k.id].eligible

CheckInv(check) ==
  /\ check.state = "none" => ~check.eligible
  /\ check.state \in {"pending", "confirmed"} => Vouching(check)
  /\ check.state = "confirmed" => check.eligible

RetrievalInv ==
  /\ RetrievalTypeOK
  /\ index <= indexed
  /\ \A a \in Admins : AdminInv(admin[a])
  /\ \A a, b \in Admins : AdminAt(a, "save") /\ AdminAt(b, "save") => a = b
  /\ \A k \in 1..MaxChecks : CheckInv(checks[k])

LEMMA NothingType ==
  /\ Unpublished \in Configuration /\ Unpublished.version = 0
  /\ Nothing \in Identities /\ Nothing.config = Unpublished
  /\ NoCheck \in Check /\ NoCheck.state = "none" /\ ~NoCheck.eligible
  /\ AtRest \in AdminStep /\ AtRest.pc = "idle"
  <1>1. (CHOOSE m \in Methods : TRUE) \in Methods
    BY RetrievalAssumption
  <1>2. Unpublished \in Configuration /\ Unpublished.version = 0
    BY <1>1, RetrievalAssumption DEF Unpublished, Configuration
  <1>3. Nothing \in Identities /\ Nothing.config = Unpublished
    BY <1>2, RetrievalAssumption DEF Nothing, Identities
  <1>4. NoCheck \in Check /\ NoCheck.state = "none" /\ ~NoCheck.eligible
    BY <1>3 DEF NoCheck, Check
  <1>5. AtRest \in AdminStep /\ AtRest.pc = "idle"
    BY <1>3, <1>4, RetrievalAssumption DEF AtRest, AdminStep
  <1> QED BY <1>2, <1>3, <1>4, <1>5

LEMMA RestInv == AdminInv(AtRest)
  BY NothingType DEF AdminInv, Between

LEMMA RetrievalStart == RetrievalInit => RetrievalInv
  <1> SUFFICES ASSUME RetrievalInit PROVE RetrievalInv
    OBVIOUS
  <1>1. RetrievalTypeOK
    BY NothingType, RetrievalAssumption DEF RetrievalInit, RetrievalTypeOK
  <1>2. \A k \in 1..MaxChecks : CheckInv(checks[k])
    BY NothingType DEF RetrievalInit, CheckInv
  <1>3. \A a \in Admins : AdminInv(admin[a]) /\ admin[a].pc = "idle"
    BY RestInv, NothingType DEF RetrievalInit
  <1> QED BY <1>1, <1>2, <1>3, RetrievalAssumption DEF RetrievalInit, RetrievalInv, AdminAt

\* A request that touches nothing but itself.
LEMMA AdminMoves ==
  ASSUME RetrievalInv, NEW a \in Admins, NEW k \in AdminStep, AdminInv(k),
         admin' = [admin EXCEPT ![a] = k],
         k.pc = "save" => \A b \in Admins : ~AdminAt(b, "save"),
         UNCHANGED <<index, indexed, config, checks>>
  PROVE  RetrievalInv'
  <1>1. \A b \in Admins : admin'[b] = IF b = a THEN k ELSE admin[b]
    BY DEF RetrievalInv, RetrievalTypeOK
  <1>2. RetrievalTypeOK'
    BY DEF RetrievalInv, RetrievalTypeOK
  <1>3. \A b \in Admins : AdminInv(admin[b])'
    BY <1>1 DEF RetrievalInv, AdminInv, Between, Past, Vouching
  <1>4. \A b, c \in Admins : AdminAt(b, "save")' /\ AdminAt(c, "save")' => b = c
    BY <1>1 DEF RetrievalInv, AdminAt
  <1>5. \A j \in 1..MaxChecks : CheckInv(checks[j])'
    BY DEF RetrievalInv, CheckInv, Vouching, Past
  <1> QED BY <1>2, <1>3, <1>4, <1>5 DEF RetrievalInv

\* A check that is stored, marked or expires, by a request that is then done or
\* by nobody.
LEMMA CheckMoves ==
  ASSUME RetrievalInv, NEW j \in 1..MaxChecks, NEW check \in Check, CheckInv(check),
         checks' = [checks EXCEPT ![j] = check],
         checks[j].eligible => check.eligible,
         UNCHANGED admin \/ \E a \in Admins : AdminRests(a),
         UNCHANGED <<index, indexed, config>>
  PROVE  RetrievalInv'
  <1>1. \A i \in 1..MaxChecks : checks'[i] = IF i = j THEN check ELSE checks[i]
    BY DEF RetrievalInv, RetrievalTypeOK
  <1>2. /\ admin' \in [Admins -> AdminStep]
        /\ \A b \in Admins : admin'[b] = admin[b] \/ admin'[b] = AtRest
    BY NothingType DEF RetrievalInv, RetrievalTypeOK, AdminRests
  <1>3. RetrievalTypeOK'
    BY <1>2 DEF RetrievalInv, RetrievalTypeOK
  <1>4. ASSUME NEW k, AdminInv(k) PROVE AdminInv(k)'
    BY <1>1, <1>4 DEF AdminInv, Between, Past, Vouching
  <1>5. \A b \in Admins : AdminInv(admin[b])'
    BY <1>2, <1>4, RestInv DEF RetrievalInv
  <1>6. \A b, c \in Admins : AdminAt(b, "save")' /\ AdminAt(c, "save")' => b = c
    BY <1>2, NothingType DEF RetrievalInv, AdminAt
  <1>7. \A i \in 1..MaxChecks : CheckInv(checks[i])'
    BY <1>1 DEF RetrievalInv, CheckInv, Vouching, Past
  <1> QED BY <1>3, <1>5, <1>6, <1>7 DEF RetrievalInv

LEMMA IndexMoves ==
  ASSUME ~Reused, RetrievalInv, PublishIndex \/ RetireIndex
  PROVE  RetrievalInv'
  <1>1. /\ UNCHANGED <<config, checks, admin>> /\ index' \in 0..MaxIndex /\ indexed' \in 0..MaxIndex
        /\ index' <= indexed'
    BY RetrievalAssumption DEF PublishIndex, RetireIndex, RetrievalInv, RetrievalTypeOK
  <1>2. index <= index' \/ \A a \in Admins : admin[a].pc \notin {"retrieve", "after"}
    BY RetrievalAssumption DEF PublishIndex, RetireIndex, RetrievalInv, RetrievalTypeOK
  <1>3. RetrievalTypeOK'
    BY <1>1 DEF RetrievalInv, RetrievalTypeOK
  <1>4. ASSUME NEW a \in Admins PROVE AdminInv(admin[a])'
    <2>1. /\ admin'[a] = admin[a] /\ AdminInv(admin[a])
          /\ index \in Nat /\ index' \in Nat
          /\ admin[a].was.index \in Nat /\ admin[a].check.saw.index \in Nat
      BY <1>1, RetrievalAssumption
      DEF RetrievalInv, RetrievalTypeOK, AdminStep, Check, Identities
    <2>2. Between(admin[a])'
      BY <1>1, <1>2, <2>1 DEF AdminInv, Between, Past
    <2> QED BY <1>1, <2>1, <2>2 DEF AdminInv, Vouching, Past
  <1>5. \A k \in 1..MaxChecks : CheckInv(checks[k])'
    BY <1>1 DEF RetrievalInv, CheckInv, Vouching, Past
  <1> QED BY <1>1, <1>3, <1>4, <1>5 DEF RetrievalInv, AdminAt

LEMMA ConfigurationSaved ==
  ASSUME RetrievalInv, NEW a \in Admins, SaveConfiguration(a)
  PROVE  RetrievalInv'
  <1>0. /\ RetrievalTypeOK /\ admin[a].pc = "save" /\ UNCHANGED <<index, indexed, checks>>
        /\ config' = admin[a].was.config /\ admin' = [admin EXCEPT ![a] = AtRest]
    BY DEF SaveConfiguration, AdminAt, AdminRests, RetrievalInv
  <1>1. /\ config' \in Configuration /\ config.version \in Nat /\ config'.version = config.version + 1
    BY <1>0, RetrievalAssumption
    DEF RetrievalInv, RetrievalTypeOK, AdminStep, Identities, Configuration, AdminInv
  <1>2. /\ admin' \in [Admins -> AdminStep]
        /\ \A b \in Admins : admin'[b] = IF b = a THEN AtRest ELSE admin[b]
    BY <1>0, NothingType DEF RetrievalTypeOK
  <1>3. ASSUME NEW c \in Configuration, Past(c) PROVE Past(c)' /\ c.version <= config'.version
    <2>1. c.version \in Nat
      BY RetrievalAssumption DEF Configuration
    <2> QED BY <1>1, <1>3, <2>1 DEF Past
  <1>4. ASSUME NEW check \in Check, Vouching(check) PROVE Vouching(check)'
    BY <1>3, <1>4 DEF Vouching, Check, Identities
  <1>5. \A k \in 1..MaxChecks : CheckInv(checks[k])'
    BY <1>0, <1>4 DEF RetrievalInv, RetrievalTypeOK, CheckInv
  <1>6. ASSUME NEW b \in Admins PROVE AdminInv(admin[b])' /\ ~AdminAt(b, "save")'
    <2>1. CASE b = a
      <3>1. Past(AtRest.was.config)' \/ AtRest.pc = "idle"
        BY NothingType
      <3> QED BY <1>2, <2>1, NothingType DEF AdminInv, Between, AdminAt
    <2>2. CASE b # a
      <3>1. /\ admin'[b] = admin[b] /\ admin[b] \in AdminStep /\ AdminInv(admin[b])
            /\ admin[b].pc # "save"
        BY <1>0, <1>2, <2>2 DEF RetrievalInv, RetrievalTypeOK, AdminAt
      <3>2. /\ admin[b].check \in Check /\ admin[b].was.config \in Configuration
            /\ admin[b].check.saw.config.version \in Nat
        BY <3>1, RetrievalAssumption DEF AdminStep, Check, Identities, Configuration
      <3>3. Between(admin[b])'
        BY <1>0, <1>1, <1>3, <3>1, <3>2 DEF AdminInv, Between
      <3> QED BY <1>0, <1>4, <3>1, <3>2, <3>3 DEF AdminInv, AdminAt
    <2> QED BY <2>1, <2>2
  <1>7. RetrievalTypeOK'
    BY <1>0, <1>1, <1>2 DEF RetrievalTypeOK
  <1> QED BY <1>0, <1>5, <1>6, <1>7 DEF RetrievalInv

LEMMA ConfigurationDeleted ==
  ASSUME ~Reused, RetrievalInv, DeleteConfiguration
  PROVE  RetrievalInv'
  <1>1. /\ UNCHANGED <<index, indexed, checks, admin>> /\ config' = Unpublished
        /\ \A a \in Admins : admin[a].pc = "idle"
        /\ \A k \in 1..MaxChecks : checks[k].state \in {"none", "deleted"}
    BY DEF DeleteConfiguration, AdminAt
  <1>2. RetrievalTypeOK'
    BY <1>1, NothingType DEF RetrievalInv, RetrievalTypeOK
  <1> QED BY <1>1, <1>2 DEF RetrievalInv, AdminInv, Between, CheckInv, AdminAt

LEMMA CheckStored ==
  ASSUME RetrievalInv, NEW a \in Admins, NEW k \in 1..MaxChecks, StoreCheck(a, k)
  PROVE  RetrievalInv'
  <1>1. RetrievalTypeOK /\ CheckInv(checks[k])
    BY DEF RetrievalInv
  <1>2. /\ checks' = [checks EXCEPT ![k] = admin[a].check] /\ AdminRests(a)
        /\ checks[k].state = "none" /\ UNCHANGED <<index, indexed, config>>
        /\ admin[a].check \in Check /\ admin[a].check.state = "pending"
        /\ Vouching(admin[a].check)
    BY <1>1 DEF StoreCheck, AdminAt, RetrievalInv, AdminInv, RetrievalTypeOK, AdminStep
  <1> QED BY <1>1, <1>2, CheckMoves DEF CheckInv

LEMMA CheckAges ==
  ASSUME RetrievalInv, NEW k \in 1..MaxChecks, Expire(k) \/ CleanUpExpired(k)
  PROVE  RetrievalInv'
  <1>0. RetrievalTypeOK /\ checks[k] \in Check /\ CheckInv(checks[k])
    BY DEF RetrievalInv, RetrievalTypeOK
  <1>1. CASE Expire(k)
    <2> DEFINE new == [checks[k] EXCEPT !.expired = TRUE]
    <2>1. checks' = [checks EXCEPT ![k] = new] /\ UNCHANGED <<admin, index, indexed, config>>
      BY <1>0, <1>1 DEF Expire, RetrievalTypeOK
    <2>2. /\ new \in Check /\ new.state = checks[k].state /\ new.eligible = checks[k].eligible
          /\ new.saw = checks[k].saw /\ new.of = checks[k].of
      BY <1>0 DEF Check
    <2> HIDE DEF new
    <2> QED BY <1>0, <2>1, <2>2, CheckMoves DEF CheckInv, Vouching
  <1>2. CASE CleanUpExpired(k)
    <2> DEFINE new == [checks[k] EXCEPT !.state = "deleted"]
    <2>1. checks' = [checks EXCEPT ![k] = new] /\ UNCHANGED <<admin, index, indexed, config>>
      BY <1>0, <1>2 DEF CleanUpExpired, RetrievalTypeOK
    <2>2. new \in Check /\ new.state = "deleted" /\ new.eligible = checks[k].eligible
      BY <1>0 DEF Check
    <2> HIDE DEF new
    <2> QED BY <1>0, <2>1, <2>2, CheckMoves DEF CheckInv
  <1> QED BY <1>1, <1>2

LEMMA CheckConfirmed ==
  ASSUME RetrievalInv, NEW a \in Admins, MarkConfirmed(a)
  PROVE  RetrievalInv'
  <1> DEFINE k == admin[a].id
             new == [checks[k] EXCEPT !.state = IF @ = "pending" THEN "confirmed" ELSE @]
  <1>1. /\ RetrievalTypeOK /\ k \in 1..MaxChecks /\ checks[k].eligible
        /\ checks[k] \in Check /\ CheckInv(checks[k])
    BY DEF RetrievalInv, RetrievalTypeOK, MarkConfirmed, AdminAt, AdminInv
  <1>2. checks' = [checks EXCEPT ![k] = new] /\ AdminRests(a) /\ UNCHANGED <<index, indexed, config>>
    BY <1>1 DEF MarkConfirmed, RetrievalTypeOK
  <1>3. /\ new \in Check
        /\ new.state = IF checks[k].state = "pending" THEN "confirmed" ELSE checks[k].state
        /\ new.eligible = checks[k].eligible /\ new.saw = checks[k].saw /\ new.of = checks[k].of
    <2>1. CASE checks[k].state = "pending"
      BY <1>1, <2>1 DEF Check
    <2>2. CASE checks[k].state # "pending"
      BY <1>1, <2>2 DEF Check
    <2> QED BY <2>1, <2>2
  <1> HIDE DEF new, k
  <1> QED BY <1>1, <1>2, <1>3, CheckMoves DEF CheckInv, Vouching

LEMMA AdminSteps ==
  ASSUME ~Reused, RetrievalInv, NEW a \in Admins,
         \/ Execute(a) \/ Judge(a) \/ AdminDies(a)
         \/ \E m \in Methods : PublishConfiguration(a, m) \/ \E p \in BOOLEAN : Retrieve(a, m, p)
         \/ \E k \in 1..MaxChecks : ConfirmCheck(a, k)
  PROVE  RetrievalInv'
  <1>0. /\ RetrievalTypeOK /\ admin[a] \in AdminStep /\ AdminInv(admin[a])
        /\ index \in Nat /\ index \in 0..MaxIndex /\ config \in Configuration /\ config.version \in Nat
        /\ admin \in [Admins -> AdminStep]
    BY RetrievalAssumption DEF RetrievalInv, RetrievalTypeOK, Configuration
  <1>1. PublishedNow \in Identities /\ PublishedNow.index = index /\ PublishedNow.config = config
    BY <1>0 DEF PublishedNow, Identities
  <1>2. CASE AdminDies(a)
    BY <1>2, AdminMoves, NothingType, RestInv DEF AdminDies, AdminRests
  <1>3. CASE Execute(a)
    <2> DEFINE k == [AtRest EXCEPT !.pc = "retrieve", !.was = PublishedNow]
    <2>1. admin' = [admin EXCEPT ![a] = k] /\ UNCHANGED <<index, indexed, config, checks>>
      BY <1>3 DEF Execute
    <2>2. k \in AdminStep /\ k.pc = "retrieve" /\ k.was = PublishedNow
      BY <1>1, NothingType DEF AdminStep
    <2> HIDE DEF k
    <2>3. AdminInv(k)
      BY <1>0, <1>1, <2>2 DEF AdminInv, Between, Past
    <2> QED BY <2>1, <2>2, <2>3, AdminMoves
  <1>4. ASSUME NEW m \in Methods, NEW p \in BOOLEAN, Retrieve(a, m, p) PROVE RetrievalInv'
    <2> DEFINE seen == [index |-> index, config |-> [config EXCEPT !.method = m]]
               check == [NoCheck EXCEPT !.saw = seen, !.eligible = p /\ index # 0]
               k == [admin[a] EXCEPT !.pc = "after", !.check = check]
    <2>1. /\ admin' = [admin EXCEPT ![a] = k] /\ UNCHANGED <<index, indexed, config, checks>>
          /\ admin[a].pc = "retrieve"
      BY <1>0, <1>4 DEF Retrieve, AdminAt
    <2>2. seen \in Identities /\ seen.index = index /\ seen.config.version = config.version
      BY <1>0 DEF Identities, Configuration
    <2> HIDE DEF seen
    <2>3. check \in Check /\ check.saw = seen
      BY <2>2, NothingType DEF Check
    <2> HIDE DEF check
    <2>4. k \in AdminStep /\ k.pc = "after" /\ k.was = admin[a].was /\ k.check = check
      BY <1>0, <2>3 DEF AdminStep
    <2> HIDE DEF k
    <2>5. AdminInv(k)
      BY <1>0, <2>1, <2>2, <2>3, <2>4 DEF AdminInv, Between, Past
    <2> QED BY <2>1, <2>4, <2>5, AdminMoves
  <1>5. ASSUME NEW m \in Methods, PublishConfiguration(a, m) PROVE RetrievalInv'
    <2> DEFINE next == [version |-> config.version + 1, method |-> m]
               was == [Nothing EXCEPT !.config = next]
               k == [AtRest EXCEPT !.pc = "save", !.was = was]
    <2>1. /\ admin' = [admin EXCEPT ![a] = k] /\ UNCHANGED <<index, indexed, config, checks>>
          /\ config.version < MaxVersion /\ \A b \in Admins : ~AdminAt(b, "save")
      BY <1>5 DEF PublishConfiguration
    <2>2. next \in Configuration /\ next.version = config.version + 1
      BY <1>0, <2>1, RetrievalAssumption DEF Configuration
    <2> HIDE DEF next
    <2>3. was \in Identities /\ was.config = next
      BY <2>2, NothingType DEF Identities
    <2> HIDE DEF was
    <2>4. k \in AdminStep /\ k.pc = "save" /\ k.was = was
      BY <2>3, NothingType DEF AdminStep
    <2> HIDE DEF k
    <2>5. AdminInv(k)
      BY <2>2, <2>3, <2>4 DEF AdminInv, Between
    <2> QED BY <2>1, <2>4, <2>5, AdminMoves
  <1>6. ASSUME NEW j \in 1..MaxChecks, ConfirmCheck(a, j) PROVE RetrievalInv'
    <2> DEFINE k == [AtRest EXCEPT !.pc = "mark", !.id = j]
    <2>1. /\ admin' = [admin EXCEPT ![a] = k] /\ UNCHANGED <<index, indexed, config, checks>>
          /\ checks[j].eligible
      BY <1>6 DEF ConfirmCheck
    <2>2. k \in AdminStep /\ k.pc = "mark" /\ k.id = j
      <3>1. j \in 0..MaxChecks
        BY RetrievalAssumption
      <3> QED BY <3>1, NothingType DEF AdminStep
    <2> HIDE DEF k
    <2>3. AdminInv(k)
      BY <2>1, <2>2 DEF AdminInv, Between
    <2> QED BY <2>1, <2>2, <2>3, AdminMoves
  <1>7. CASE Judge(a)
    <2> DEFINE eligible == /\ admin[a].check.eligible
                           /\ Stable(admin[a].was, PublishedNow)
                           /\ config.version # 0
                           /\ admin[a].check.saw.config.method = config.method
               check == [admin[a].check EXCEPT !.state = "pending", !.of = PublishedNow,
                                               !.eligible = eligible]
               k == [admin[a] EXCEPT !.pc = "store", !.was = Nothing, !.check = check]
    <2>1. /\ admin' = [admin EXCEPT ![a] = k] /\ UNCHANGED <<index, indexed, config, checks>>
          /\ admin[a].pc = "after"
      BY <1>0, <1>7 DEF Judge, AdminAt
    <2>2. admin[a].check \in Check /\ admin[a].check.saw \in Identities
      BY <1>0 DEF AdminStep, Check
    <2>3. ASSUME eligible PROVE admin[a].check.saw = PublishedNow /\ config.version # 0
      <3> DEFINE saw == admin[a].check.saw
      <3>1. /\ admin[a].was.index = index /\ admin[a].was.config.version = config.version
            /\ saw.config.method = config.method
        BY <1>1, <2>3 DEF Stable
      <3>2. /\ index <= saw.index /\ saw.index <= index
            /\ config.version <= saw.config.version /\ saw.config.version <= config.version
        BY <1>0, <2>1, <3>1 DEF AdminInv, Between
      <3>3. saw.index \in Nat /\ saw.config \in Configuration /\ saw.config.version \in Nat
        BY <2>2, RetrievalAssumption DEF Identities, Configuration
      <3>4. saw.index = index /\ saw.config.version = config.version
        BY <1>0, <3>2, <3>3
      <3> HIDE DEF saw
      <3>5. saw.config = config
        BY <1>0, <3>1, <3>3, <3>4 DEF Configuration
      <3>6. saw = PublishedNow
        BY <1>1, <2>2, <3>4, <3>5 DEF Identities, saw
      <3> QED BY <2>3, <3>6 DEF saw
    <2>4. eligible \in BOOLEAN
      BY DEF Stable
    <2> HIDE DEF eligible
    <2>5. /\ check \in Check /\ check.state = "pending" /\ check.of = PublishedNow
          /\ check.eligible = eligible /\ check.saw = admin[a].check.saw
      BY <1>1, <2>2, <2>4 DEF Check
    <2> HIDE DEF check
    <2>6. k \in AdminStep /\ k.pc = "store" /\ k.check = check
      BY <1>0, <2>5, NothingType DEF AdminStep
    <2> HIDE DEF k
    <2>7. Vouching(check)
      BY <1>0, <1>1, <2>3, <2>5 DEF Vouching, Past
    <2>8. AdminInv(k)
      BY <2>5, <2>6, <2>7 DEF AdminInv, Between
    <2> QED BY <2>1, <2>6, <2>8, AdminMoves
  <1> QED BY <1>2, <1>3, <1>4, <1>5, <1>6, <1>7

LEMMA RetrievalStep ==
  ASSUME ~Reused
  PROVE  RetrievalInv /\ [RetrievalNext]_retrievalVars => RetrievalInv'
  <1> SUFFICES ASSUME RetrievalInv, [RetrievalNext]_retrievalVars PROVE RetrievalInv'
    OBVIOUS
  <1>1. CASE UNCHANGED retrievalVars
    BY <1>1
    DEF retrievalVars, RetrievalInv, RetrievalTypeOK, AdminInv, Between, Past, Vouching, CheckInv, AdminAt
  <1> QED
    BY <1>1, IndexMoves, ConfigurationSaved, ConfigurationDeleted, CheckStored, CheckAges,
       CheckConfirmed, AdminSteps
    DEF RetrievalNext

LEMMA RetrievalInvariant ==
  ASSUME ~Reused
  PROVE  RetrievalSpec => []RetrievalInv
  BY RetrievalStart, RetrievalStep, PTL DEF RetrievalSpec

\* While no identity of an index or a configuration comes back for something
\* else, a store is only called ready on the strength of a retrieval that ran
\* with what is published now (modules/retrieval_check, execute and confirm).
THEOREM ReadinessStaysEarned ==
  ASSUME ~Reused
  PROVE  RetrievalSpec => []ReadinessIsEarned
  <1>1. ASSUME RetrievalInv, NEW k \in 1..MaxChecks, Vouches(k)
        PROVE  checks[k].saw = PublishedNow
    <2>1. /\ checks[k] \in Check /\ checks[k].state = "confirmed" /\ CheckInv(checks[k])
          /\ checks[k].of.index = index /\ checks[k].of.config.version = config.version
      BY <1>1 DEF RetrievalInv, RetrievalTypeOK, Vouches
    <2>2. checks[k].saw = checks[k].of /\ checks[k].of.config = config
      BY <2>1 DEF CheckInv, Vouching, Past
    <2>3. checks[k].of \in Identities
      BY <2>1 DEF Check
    <2> QED BY <2>1, <2>2, <2>3 DEF Identities, PublishedNow
  <1>2. RetrievalInv => ReadinessIsEarned
    BY <1>1 DEF ReadinessIsEarned, Ready
  <1> QED BY <1>2, RetrievalInvariant, PTL

-----------------------------------------------------------------------------
(***************************************************************************)
(* The types of all eleven components, with no condition: of the outbox    *)
(* also when leases lapse under their workers, of the retrieval checks     *)
(* also when identities come back.                                         *)
(***************************************************************************)

LEMMA OutboxTypeStep ==
  ASSUME OrderOutboxTypeOK, [OrderOutboxNext]_orderOutboxVars
  PROVE  OrderOutboxTypeOK'
  <1>1. CASE UNCHANGED orderOutboxVars
    BY <1>1 DEF orderOutboxVars, OrderOutboxTypeOK
  <1>2. ASSUME NEW e \in Events, NEW r \in OutboxRow, row' = [row EXCEPT ![e] = r]
        PROVE  row' \in [Events -> OutboxRow]
    BY <1>2 DEF OrderOutboxTypeOK
  <1>3. ASSUME NEW w \in Workers, NEW k \in Delivery, worker' = [worker EXCEPT ![w] = k]
        PROVE  worker' \in [Workers -> Delivery]
    BY <1>3 DEF OrderOutboxTypeOK
  <1>4. ASSUME NEW w \in Workers PROVE worker[w] \in Delivery /\ worker[w].e \in Events
    BY DEF OrderOutboxTypeOK, Delivery
  <1>5. ASSUME NEW e \in Events PROVE row[e] \in OutboxRow
    BY DEF OrderOutboxTypeOK
  <1>6. ASSUME NEW w \in Workers, WorkerIdles(w) PROVE worker' \in [Workers -> Delivery]
    BY <1>3, <1>6, NoDeliveryType DEF WorkerIdles
  <1>7. ASSUME NEW w \in Workers, NEW pc \in {"insert", "published", "failed"}, WorkerGoes(w, pc)
        PROVE  worker' \in [Workers -> Delivery]
    <2> DEFINE k == [worker[w] EXCEPT !.pc = pc]
    <2>1. k \in Delivery
      BY <1>4 DEF Delivery
    <2>2. worker' = [worker EXCEPT ![w] = k]
      BY <1>7 DEF WorkerGoes, OrderOutboxTypeOK
    <2> HIDE DEF k
    <2> QED BY <1>3, <2>1, <2>2
  <1>8. ASSUME NEW e \in Events, Emit(e) \/ Backoff(e) \/ LeaseLapses(e)
        PROVE  OrderOutboxTypeOK'
    <2>1. /\ [row[e] EXCEPT !.there = TRUE] \in OutboxRow
          /\ [row[e] EXCEPT !.ripe = TRUE] \in OutboxRow
          /\ [row[e] EXCEPT !.lockedBy = "nobody"] \in OutboxRow
      BY <1>5 DEF OutboxRow, Workers0
    <2>2. \/ row' = [row EXCEPT ![e] = [row[e] EXCEPT !.there = TRUE]]
          \/ row' = [row EXCEPT ![e] = [row[e] EXCEPT !.ripe = TRUE]]
          \/ row' = [row EXCEPT ![e] = [row[e] EXCEPT !.lockedBy = "nobody"]]
      BY <1>8 DEF Emit, Backoff, LeaseLapses, OrderOutboxTypeOK
    <2>3. row' \in [Events -> OutboxRow]
      BY <1>2, <2>1, <2>2
    <2> QED BY <1>8, <2>3 DEF Emit, Backoff, LeaseLapses, OrderOutboxTypeOK
  <1>9. ASSUME NEW w \in Workers, NEW e \in Events, Claim(w, e)
        PROVE  OrderOutboxTypeOK'
    <2> DEFINE r == [row[e] EXCEPT !.attempts = @ + 1, !.lockedBy = w]
               k == [NoDelivery EXCEPT !.pc = "check", !.e = e]
    <2>1. row[e].attempts + 1 \in 0..MaxClaims
      BY <1>5, <1>9, OrderOutboxAssumption DEF Claim, OutboxRow
    <2>2. r \in OutboxRow
      BY <1>5, <2>1 DEF OutboxRow, Workers0
    <2>3. k \in Delivery
      BY NoDeliveryType DEF Delivery
    <2>4. row' = [row EXCEPT ![e] = r] /\ worker' = [worker EXCEPT ![w] = k] /\ UNCHANGED sink
      BY <1>9 DEF Claim, OrderOutboxTypeOK
    <2> HIDE DEF r, k
    <2>5. row' \in [Events -> OutboxRow] /\ worker' \in [Workers -> Delivery]
      BY <1>2, <1>3, <2>2, <2>3, <2>4
    <2> QED BY <2>4, <2>5 DEF OrderOutboxTypeOK
  <1>10. ASSUME NEW w \in Workers, SinkCheck(w) \/ SinkInsert(w) PROVE OrderOutboxTypeOK'
    <2>1. worker' \in [Workers -> Delivery]
      BY <1>7, <1>10 DEF SinkCheck, SinkInsert
    <2>2. sink' \subseteq Events /\ UNCHANGED row
      BY <1>4, <1>10 DEF SinkCheck, SinkInsert, OrderOutboxTypeOK
    <2> QED BY <2>1, <2>2 DEF OrderOutboxTypeOK
  <1>11. ASSUME NEW w \in Workers, MarkPublished(w) PROVE OrderOutboxTypeOK'
    <2> DEFINE e == worker[w].e
               r == IF row[e].published THEN row[e]
                    ELSE [row[e] EXCEPT !.published = TRUE, !.lockedBy = "nobody"]
    <2>1. r \in OutboxRow
      <3>1. CASE row[e].published
        BY <1>4, <1>5, <3>1
      <3>2. CASE ~row[e].published
        <4>1. row[e] \in OutboxRow
          BY <1>4, <1>5
        <4>2. [row[e] EXCEPT !.published = TRUE, !.lockedBy = "nobody"] \in OutboxRow
          BY <4>1 DEF OutboxRow, Workers0
        <4> QED BY <3>2, <4>2
      <3> QED BY <3>1, <3>2
    <2>2. row' = [row EXCEPT ![e] = r] /\ WorkerIdles(w) /\ UNCHANGED sink
      BY <1>11 DEF MarkPublished
    <2> HIDE DEF r
    <2>3. row' \in [Events -> OutboxRow] /\ worker' \in [Workers -> Delivery]
      BY <1>2, <1>4, <1>6, <2>1, <2>2
    <2> QED BY <2>2, <2>3 DEF OrderOutboxTypeOK
  <1>12. ASSUME NEW w \in Workers, MarkFailed(w) PROVE OrderOutboxTypeOK'
    <2> DEFINE e == worker[w].e
               final == row[e].attempts >= MaxAttempts
               r == [row[e] EXCEPT !.dead = @ \/ final, !.ripe = final /\ @, !.lockedBy = "nobody"]
    <2>1. final \in BOOLEAN /\ e \in Events
      BY <1>4
    <2>2. row' = [row EXCEPT ![e] = r] /\ WorkerIdles(w) /\ UNCHANGED sink
      BY <1>12 DEF MarkFailed, OrderOutboxTypeOK
    <2> HIDE DEF final, e
    <2>3. r \in OutboxRow
      BY <1>5, <2>1 DEF OutboxRow, Workers0
    <2> HIDE DEF r
    <2>4. row' \in [Events -> OutboxRow] /\ worker' \in [Workers -> Delivery]
      BY <1>2, <1>6, <2>1, <2>2, <2>3
    <2> QED BY <2>2, <2>4 DEF OrderOutboxTypeOK
  <1>13. ASSUME NEW w \in Workers, WorkerDies(w) PROVE OrderOutboxTypeOK'
    BY <1>6, <1>13 DEF WorkerDies, OrderOutboxTypeOK
  <1> QED BY <1>1, <1>8, <1>9, <1>10, <1>11, <1>12, <1>13 DEF OrderOutboxNext

LEMMA RetrievalTypeStep ==
  ASSUME RetrievalTypeOK, [RetrievalNext]_retrievalVars
  PROVE  RetrievalTypeOK'
  <1>1. CASE UNCHANGED retrievalVars
    BY <1>1 DEF retrievalVars, RetrievalTypeOK
  <1>2. /\ index \in 0..MaxIndex /\ indexed \in 0..MaxIndex /\ config \in Configuration
        /\ config.version \in 0..MaxVersion /\ config.method \in Methods
        /\ PublishedNow \in Identities
    BY DEF RetrievalTypeOK, Configuration, Identities, PublishedNow
  <1>3. ASSUME NEW a \in Admins
        PROVE  /\ admin[a] \in AdminStep /\ admin[a].check \in Check /\ admin[a].was \in Identities
               /\ admin[a].was.config \in Configuration
               /\ admin[a].check.eligible \in BOOLEAN
    BY DEF RetrievalTypeOK, AdminStep, Check, Identities
  <1>4. ASSUME NEW a \in Admins, NEW k \in AdminStep, admin' = [admin EXCEPT ![a] = k]
        PROVE  admin' \in [Admins -> AdminStep]
    BY <1>4 DEF RetrievalTypeOK
  <1>5. ASSUME NEW a \in Admins, AdminRests(a) PROVE admin' \in [Admins -> AdminStep]
    BY <1>4, <1>5, NothingType DEF AdminRests
  <1>6. ASSUME NEW k \in 1..MaxChecks, NEW c \in Check, checks' = [checks EXCEPT ![k] = c]
        PROVE  checks' \in [1..MaxChecks -> Check]
    BY <1>6 DEF RetrievalTypeOK
  <1>7. ASSUME PublishIndex \/ RetireIndex \/ DeleteConfiguration PROVE RetrievalTypeOK'
    <2>1. index' \in 0..MaxIndex /\ indexed' \in 0..MaxIndex /\ UNCHANGED <<checks, admin>>
      BY <1>2, <1>7, RetrievalAssumption DEF PublishIndex, RetireIndex, DeleteConfiguration
    <2>2. config' \in Configuration
      BY <1>2, <1>7, NothingType DEF PublishIndex, RetireIndex, DeleteConfiguration
    <2> QED BY <2>1, <2>2 DEF RetrievalTypeOK
  <1>8. ASSUME NEW k \in 1..MaxChecks, Expire(k) \/ CleanUpExpired(k) PROVE RetrievalTypeOK'
    <2>1. /\ checks[k] \in Check
          /\ [checks[k] EXCEPT !.expired = TRUE] \in Check
          /\ [checks[k] EXCEPT !.state = "deleted"] \in Check
      BY DEF RetrievalTypeOK, Check
    <2>2. \/ checks' = [checks EXCEPT ![k] = [checks[k] EXCEPT !.expired = TRUE]]
          \/ checks' = [checks EXCEPT ![k] = [checks[k] EXCEPT !.state = "deleted"]]
      BY <1>8 DEF Expire, CleanUpExpired, RetrievalTypeOK
    <2>3. checks' \in [1..MaxChecks -> Check]
      BY <1>6, <2>1, <2>2
    <2> QED BY <1>8, <2>3 DEF Expire, CleanUpExpired, RetrievalTypeOK
  <1>9. ASSUME NEW a \in Admins, SaveConfiguration(a) \/ AdminDies(a) PROVE RetrievalTypeOK'
    <2>1. AdminRests(a) /\ UNCHANGED <<index, indexed, checks>> /\ config' \in Configuration
      BY <1>2, <1>3, <1>9 DEF SaveConfiguration, AdminDies
    <2> QED BY <1>5, <2>1 DEF RetrievalTypeOK
  <1>10. ASSUME NEW a \in Admins, NEW k \in 1..MaxChecks, StoreCheck(a, k)
         PROVE  RetrievalTypeOK'
    BY <1>3, <1>5, <1>6, <1>10 DEF StoreCheck, RetrievalTypeOK
  <1>11. ASSUME NEW a \in Admins, MarkConfirmed(a) PROVE RetrievalTypeOK'
    <2> DEFINE k == admin[a].id
               c == [checks[k] EXCEPT !.state = IF @ = "pending" THEN "confirmed" ELSE @]
    <2>1. /\ checks' = [checks EXCEPT ![k].state = IF @ = "pending" THEN "confirmed" ELSE @]
          /\ AdminRests(a) /\ UNCHANGED <<index, indexed, config>>
      BY <1>11 DEF MarkConfirmed
    <2>2. CASE k \in 1..MaxChecks
      <3>1. checks[k] \in Check /\ checks[k].state \in {"none", "pending", "confirmed", "deleted"}
        BY <2>2 DEF RetrievalTypeOK, Check
      <3>2. c \in Check
        BY <3>1 DEF Check
      <3>3. checks' = [checks EXCEPT ![k] = c]
        BY <2>1
      <3> HIDE DEF c
      <3> QED BY <1>5, <1>6, <2>1, <2>2, <3>2, <3>3 DEF RetrievalTypeOK
    <2>3. CASE k \notin 1..MaxChecks
      <3>1. checks' = checks
        BY <2>1, <2>3 DEF RetrievalTypeOK
      <3> QED BY <1>5, <2>1, <3>1 DEF RetrievalTypeOK
    <2> QED BY <2>2, <2>3
  \* A request that touches nothing but itself.
  <1>12. ASSUME NEW a \in Admins, NEW k \in AdminStep, admin' = [admin EXCEPT ![a] = k],
                UNCHANGED <<index, indexed, config, checks>>
         PROVE  RetrievalTypeOK'
    BY <1>4, <1>12 DEF RetrievalTypeOK
  <1>13. ASSUME NEW a \in Admins, Execute(a) PROVE RetrievalTypeOK'
    <2> DEFINE k == [AtRest EXCEPT !.pc = "retrieve", !.was = PublishedNow]
    <2>1. k \in AdminStep
      BY <1>2, NothingType DEF AdminStep
    <2>2. admin' = [admin EXCEPT ![a] = k] /\ UNCHANGED <<index, indexed, config, checks>>
      BY <1>13 DEF Execute
    <2> HIDE DEF k
    <2> QED BY <1>12, <2>1, <2>2
  <1>14. ASSUME NEW a \in Admins, NEW m \in Methods, NEW p \in BOOLEAN, Retrieve(a, m, p)
         PROVE  RetrievalTypeOK'
    <2> DEFINE seen == [index |-> index, config |-> [config EXCEPT !.method = m]]
               check == [NoCheck EXCEPT !.saw = seen, !.eligible = p /\ index # 0]
               k == [admin[a] EXCEPT !.pc = "after", !.check = check]
    <2>1. admin' = [admin EXCEPT ![a] = k] /\ UNCHANGED <<index, indexed, config, checks>>
      BY <1>3, <1>14 DEF Retrieve, RetrievalTypeOK
    <2>2. seen \in Identities
      BY <1>2 DEF Identities, Configuration
    <2> HIDE DEF seen
    <2>3. check \in Check
      BY <2>2, NothingType DEF Check
    <2> HIDE DEF check
    <2>4. k \in AdminStep
      BY <1>3, <2>3 DEF AdminStep
    <2> HIDE DEF k
    <2> QED BY <1>12, <2>1, <2>4
  <1>15. ASSUME NEW a \in Admins, NEW m \in Methods, PublishConfiguration(a, m)
         PROVE  RetrievalTypeOK'
    <2> DEFINE next == [version |-> config.version + 1, method |-> m]
               was == [Nothing EXCEPT !.config = next]
               k == [AtRest EXCEPT !.pc = "save", !.was = was]
    <2>1. admin' = [admin EXCEPT ![a] = k] /\ UNCHANGED <<index, indexed, config, checks>>
          /\ config.version < MaxVersion
      BY <1>15 DEF PublishConfiguration
    <2>2. config.version + 1 \in 0..MaxVersion
      BY <1>2, <2>1, RetrievalAssumption
    <2>3. next \in Configuration
      BY <2>2 DEF Configuration
    <2> HIDE DEF next
    <2>4. was \in Identities
      BY <2>3, NothingType DEF Identities
    <2> HIDE DEF was
    <2>5. k \in AdminStep
      BY <2>4, NothingType DEF AdminStep
    <2> HIDE DEF k
    <2> QED BY <1>12, <2>1, <2>5
  <1>16. ASSUME NEW a \in Admins, NEW k \in 1..MaxChecks, ConfirmCheck(a, k)
         PROVE  RetrievalTypeOK'
    <2> DEFINE s == [AtRest EXCEPT !.pc = "mark", !.id = k]
    <2>0. k \in 0..MaxChecks
      BY RetrievalAssumption
    <2>1. s \in AdminStep
      BY <2>0, NothingType DEF AdminStep
    <2>2. admin' = [admin EXCEPT ![a] = s] /\ UNCHANGED <<index, indexed, config, checks>>
      BY <1>16 DEF ConfirmCheck
    <2> HIDE DEF s
    <2> QED BY <1>12, <2>1, <2>2
  <1>17. ASSUME NEW a \in Admins, Judge(a) PROVE RetrievalTypeOK'
    <2> DEFINE eligible == /\ admin[a].check.eligible
                           /\ Stable(admin[a].was, PublishedNow)
                           /\ config.version # 0
                           /\ admin[a].check.saw.config.method = config.method
               check == [admin[a].check EXCEPT !.state = "pending", !.of = PublishedNow,
                                               !.eligible = eligible]
               k == [admin[a] EXCEPT !.pc = "store", !.was = Nothing, !.check = check]
    <2>1. admin' = [admin EXCEPT ![a] = k] /\ UNCHANGED <<index, indexed, config, checks>>
      BY <1>3, <1>17 DEF Judge, RetrievalTypeOK
    <2>2. eligible \in BOOLEAN
      BY DEF Stable
    <2> HIDE DEF eligible
    <2>3. check \in Check
      BY <1>2, <1>3, <2>2 DEF Check
    <2> HIDE DEF check
    <2>4. k \in AdminStep
      BY <1>3, <2>3, NothingType DEF AdminStep
    <2> HIDE DEF k
    <2> QED BY <1>12, <2>1, <2>4
  <1> QED
    BY <1>1, <1>7, <1>8, <1>9, <1>10, <1>11, <1>13, <1>14, <1>15, <1>16, <1>17
    DEF RetrievalNext

\* The components' invariants, as far as their types rest on them.
BackOfficeInv ==
  /\ active \in Components
  /\ LabInv /\ MembersInv /\ CampaignsInv /\ IdentityInv /\ RetrievalTypeOK /\ EvidenceInv
  /\ OrderOutboxTypeOK /\ TallyInv /\ CatalogInv /\ PoolInv /\ GatewayInv

LEMMA BackOfficeStart == Init => BackOfficeInv
  <1> SUFFICES ASSUME Init PROVE BackOfficeInv
    OBVIOUS
  <1>1. Sized
    BY ConnectionPoolAssumption DEF Sized
  <1>2. RetrievalTypeOK /\ OrderOutboxTypeOK
    BY RetrievalStart, OutboxStart DEF Init, RetrievalInv, OutboxInv
  <1>3. PoolInv /\ GatewayInv
    BY <1>1, PoolStart, GatewayStart, LlmGatewayAssumption DEF Init
  <1> QED
    BY <1>2, <1>3, LabStart, MembersStart, CampaignsStart, IdentityStart, EvidenceStart,
       TallyStart, CatalogStart
    DEF Init, BackOfficeInv

\* Each component takes its own steps or stays.
LEMMA OneComponentSteps ==
  ASSUME [Next]_vars
  PROVE  /\ UNCHANGED active
         /\ [LabNext]_labVars /\ [MembersNext]_memberVars /\ [CampaignsNext]_campaignVars
         /\ [IdentityNext]_identityVars /\ [RetrievalNext]_retrievalVars
         /\ [VoiceEvidenceNext]_evidenceVars /\ [OrderOutboxNext]_orderOutboxVars
         /\ [PushCopyNext]_pushCopyVars /\ [CatalogNext]_catalogVars /\ [PoolNext]_poolVars
         /\ [GatewayNext]_gatewayVars
  BY DEF Next, vars, Others

LEMMA BackOfficeStep == BackOfficeInv /\ [Next]_vars => BackOfficeInv'
  <1> SUFFICES ASSUME BackOfficeInv, [Next]_vars PROVE BackOfficeInv'
    OBVIOUS
  <1>1. Sized
    BY ConnectionPoolAssumption DEF Sized
  <1>2. PoolInv'
    BY <1>1, OneComponentSteps, PoolStep DEF BackOfficeInv
  <1>3. GatewayInv'
    BY OneComponentSteps, GatewayStep, LlmGatewayAssumption DEF BackOfficeInv
  <1>4. RetrievalTypeOK' /\ OrderOutboxTypeOK'
    BY OneComponentSteps, RetrievalTypeStep, OutboxTypeStep DEF BackOfficeInv
  <1>5. LabInv' /\ MembersInv' /\ CampaignsInv' /\ IdentityInv'
    BY OneComponentSteps, LabStep, MembersStep, CampaignsStep, IdentityStep DEF BackOfficeInv
  <1>6. EvidenceInv' /\ TallyInv' /\ CatalogInv'
    BY OneComponentSteps, EvidenceStep, TallyStep, CatalogStep DEF BackOfficeInv
  <1> QED BY <1>2, <1>3, <1>4, <1>5, <1>6, OneComponentSteps DEF BackOfficeInv

\* Whatever the eleven components of the back office do, each keeps to its
\* types: the rows, requests and calls of modules/member, modules/identity,
\* modules/promotion, modules/optimization_lab, modules/retrieval_check,
\* modules/voice_evidence, modules/runtime_persistence, services that keep the
\* menu and reach the language models, and the repositories of the outbox and
\* of the push copy, whose counters stay within one count of each item for
\* each delivery (repositories/push_copy_batch_repository.py).
THEOREM BackOfficeTypes == Spec => []TypeOK
  <1>1. LabInv => LabTypeOK
    BY DEF LabInv
  <1>2. MembersInv => MembersTypeOK
    BY DEF MembersInv
  <1>3. CampaignsInv => CampaignsTypeOK
    BY DEF CampaignsInv
  <1>4. IdentityInv => IdentityTypeOK
    BY DEF IdentityInv
  <1>5. EvidenceInv => VoiceEvidenceTypeOK
    BY DEF EvidenceInv
  <1>6. CatalogInv => CatalogTypeOK
    BY DEF CatalogInv
  <1>7. PoolInv => PoolTypeOK
    BY DEF PoolInv
  <1>8. TallyInv => PushCopyTypeOK
    BY TalliesType
  <1>9. GatewayInv => GatewayTypeOK
    BY DEF GatewayInv, GatewayTyped, GatewayTypeOK, RequestRow
  <1>10. BackOfficeInv => TypeOK
    BY <1>1, <1>2, <1>3, <1>4, <1>5, <1>6, <1>7, <1>8, <1>9 DEF BackOfficeInv, TypeOK
  <1> QED BY <1>10, BackOfficeStart, BackOfficeStep, PTL DEF Spec
=============================================================================
