------------------------------ MODULE Members ------------------------------
(***************************************************************************)
(* The record of a member in PostgreSQL: modules/member with member ids    *)
(* (MEMBER_IDENTITY_READ_MODE other than legacy).  Every operation reads   *)
(* the record behind a phone number, the row with the consents on one      *)
(* connection and the preferences and the orders by two more statements on *)
(* another, and writes all of it back in one transaction: what it carries  *)
(* may be torn as well as stale.  Erasing a member takes the phone number  *)
(* off the row and keeps the row, so the same number may register again.   *)
(* One phone number is modelled, and which session a request belongs to is *)
(* left out.                                                               *)
(***************************************************************************)
EXTENDS Naturals

CONSTANTS
  MemberRequests,   \* concurrent requests, of kiosks, of the outbox and of admins
  MaxId,      \* bound on the registrations of the phone number
  Orders      \* checkouts to be counted

ASSUME MembersAssumption == MaxId \in Nat

VARIABLES
  members,   \* members with member_preferences and member_orders, by id
  req,       \* requests between the two transactions
  todo,      \* orders that were not yet reported
  accepted   \* history: the consents that a record of the number was stored with

memberVars == <<members, req, todo, accepted>>

Registrations == 1..MaxId
Data == [hist : BOOLEAN, pers : BOOLEAN, orders : SUBSET Orders, freq : SUBSET Orders]
Kinds == {"login", "register", "checkout", "abandon", "preferences", "clear", "erase"}

NoData == [hist |-> FALSE, pers |-> FALSE, orders |-> {}, freq |-> {}]
NoRequestOf == [kind |-> "none", at |-> "row", id |-> 0, new |-> {}, data |-> NoData]

MembersTypeOK ==
  /\ members \in [Registrations -> [phone : {"none", "held", "deleted"}, data : Data]]
  /\ req \in [MemberRequests ->
               [kind : Kinds \cup {"none"}, at : {"row", "preferences", "orders", "write"},
                id : 0..MaxId, new : SUBSET Orders, data : Data]]
  /\ todo \subseteq Orders
  /\ accepted \in [hist : BOOLEAN, pers : BOOLEAN]

MembersInit ==
  /\ members = [i \in Registrations |-> [phone |-> "none", data |-> NoData]]
  /\ req = [r \in MemberRequests |-> NoRequestOf]
  /\ todo = Orders
  /\ accepted = [hist |-> FALSE, pers |-> FALSE]

Held == {i \in Registrations : members[i].phone = "held"}
Unused == {i \in Registrations : members[i].phone = "none"}
RequestGoes(r, fields) == req' = [req EXCEPT ![r] = fields]
RequestAnswered(r) == RequestGoes(r, NoRequestOf)

\* The first statement of a read: the row of the member who has the number.
ReadRow(r, kind, i, new) ==
  RequestGoes(r, [kind |-> kind, at |-> "preferences", id |-> i, new |-> new,
                  data |-> [NoData EXCEPT !.hist = members[i].data.hist, !.pers = members[i].data.pers]])

\* login, admin_update_verified_preferences and admin_clear_records; a number
\* that nobody has ends them.
ReadMember(r, kind) ==
  /\ req[r].kind = "none"
  /\ kind \in {"login", "preferences", "clear"}
  /\ \E i \in Held : ReadRow(r, kind, i, {})
  /\ UNCHANGED <<members, todo, accepted>>

\* admin_delete_member reads as much and keeps the id.
ReadToErase(r) ==
  /\ req[r].kind = "none"
  /\ \E i \in Held : RequestGoes(r, [NoRequestOf EXCEPT !.kind = "erase", !.at = "write", !.id = i])
  /\ UNCHANGED <<members, todo, accepted>>

\* register: a member who is there has accepted a consent, which stays.
Register(r, hist, pers) ==
  /\ req[r].kind = "none"
  /\ IF Held # {}
       THEN \E i \in Held : ReadRow(r, "register", i, {})
       ELSE \E i \in Unused :
              /\ \A q \in MemberRequests : req[q].id # i
              /\ RequestGoes(r, [kind |-> "register", at |-> "write", id |-> i, new |-> {},
                              data |-> [NoData EXCEPT !.hist = hist, !.pers = pers]])
  /\ UNCHANGED <<members, todo, accepted>>

\* finalize_checkout and record_abandoned_order, for the member of the session.
ReportOrder(r, kind, o) ==
  /\ req[r].kind = "none"
  /\ kind \in {"checkout", "abandon"}
  /\ o \in todo
  /\ todo' = todo \ {o}
  /\ IF Held # {} THEN \E i \in Held : ReadRow(r, kind, i, {o}) ELSE UNCHANGED req
  /\ UNCHANGED <<members, accepted>>

\* The second statement, and the third one below, on another connection.
ReadPreferences(r) ==
  /\ req[r].at = "preferences"
  /\ RequestGoes(r, [req[r] EXCEPT !.at = "orders", !.data.freq = members[req[r].id].data.freq])
  /\ UNCHANGED <<members, todo, accepted>>

\* Mutant of Counted: the favourites are counted whatever the member consented to.
CountedAlways(kind, d, new) ==
  [d EXCEPT !.freq = IF kind = "checkout" THEN @ \cup new ELSE @, !.orders = @ \cup new]

\* A checkout counts for the preferences when the record that was read consents
\* to it, and both kinds of reports keep the order.
Counted(kind, d, new) ==
  [d EXCEPT !.freq = IF kind = "checkout" /\ d.pers THEN @ \cup new ELSE @, !.orders = @ \cup new]

\* What the request makes of the record it read.
Changed(kind, d, new) ==
  IF kind = "clear" THEN [d EXCEPT !.orders = {}, !.freq = {}] ELSE Counted(kind, d, new)

\* Without the consent to an order history a report writes nothing, what was
\* counted for the preferences included.
ReadOrders(r) ==
  /\ req[r].at = "orders"
  /\ LET d == [req[r].data EXCEPT !.orders = members[req[r].id].data.orders] IN
       IF req[r].new # {} /\ ~d.hist THEN RequestAnswered(r)
       ELSE RequestGoes(r, [req[r] EXCEPT !.at = "write", !.data = Changed(req[r].kind, d, req[r].new)])
  /\ UNCHANGED <<members, todo, accepted>>

\* Mutant of Upserted: the row is found by its id and not by the phone number.
UpsertedById(id, data) == [members EXCEPT ![id] = [phone |-> "held", data |-> data]]

\* INSERT .. ON CONFLICT (phone, tenant_id) DO UPDATE: a row that holds the
\* phone number takes all of the record, whichever row it was read from; when
\* none does, an id that is in use refuses the insertion.
Upserted(id, data) ==
  IF Held # {} THEN [i \in Registrations |-> IF i \in Held THEN [phone |-> "held", data |-> data]
                                   ELSE members[i]]
  ELSE IF id \in Unused THEN [members EXCEPT ![id] = [phone |-> "held", data |-> data]]
  ELSE members

Upsert(r) ==
  /\ req[r].at = "write" /\ req[r].kind # "erase"
  /\ members' = Upserted(req[r].id, req[r].data)
  /\ accepted' = [hist |-> accepted.hist \/ \E i \in Registrations : members'[i].data.hist,
                  pers |-> accepted.pers \/ \E i \in Registrations : members'[i].data.pers]
  /\ RequestAnswered(r)
  /\ UNCHANGED todo

\* _postgres_anonymize_member asks for the row by its id alone.
Anonymize(r) ==
  /\ req[r].at = "write" /\ req[r].kind = "erase"
  /\ members' = [members EXCEPT ![req[r].id] = [phone |-> "deleted", data |-> NoData]]
  /\ RequestAnswered(r)
  /\ UNCHANGED <<todo, accepted>>

\* The request dies or its transaction fails.
MemberRequestDies(r) ==
  /\ req[r].kind # "none"
  /\ RequestAnswered(r)
  /\ UNCHANGED <<members, todo, accepted>>

MembersNext == \E r \in MemberRequests :
  \/ \E k \in Kinds : ReadMember(r, k) \/ \E o \in Orders : ReportOrder(r, k, o)
  \/ \E h, p \in BOOLEAN : Register(r, h, p)
  \/ ReadToErase(r) \/ ReadPreferences(r) \/ ReadOrders(r)
  \/ Upsert(r) \/ Anonymize(r) \/ MemberRequestDies(r)

MembersSpec == MembersInit /\ [][MembersNext]_memberVars

-----------------------------------------------------------------------------
\* However requests overwrite each other with records that are torn, stale or of
\* a member erased since: orders and favourites are never stored for a number of
\* which no record was ever stored with the consent to them.  (The record they
\* are in need not be that one: the code does not promise more.)
DataNeedsConsent ==
  \A i \in Registrations : LET d == members[i].data IN
    /\ d.orders # {} => accepted.hist
    /\ d.freq # {} => accepted.pers

\* An erased row stays erased: no request that read the member before brings
\* the phone number, the consents or the orders back to it.
ErasureIsFinal ==
  [][\A i \in Registrations : members[i].phone = "deleted" => members'[i] = members[i]]_memberVars
=============================================================================
