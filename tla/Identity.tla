------------------------------ MODULE Identity ------------------------------
(***************************************************************************)
(* Device credentials with their sessions, and admin sessions:             *)
(* modules/identity on PostgreSQL.  Rotations and revocations are single   *)
(* transactions that lock the row they change; creating a device session   *)
(* and rotating an admin session first read in a transaction of their own, *)
(* and a revocation may come in between.                                   *)
(***************************************************************************)
EXTENDS Naturals

CONSTANTS
  Clients,          \* requests at a time
  MaxCredentials,   \* bound on the credentials of one device
  MaxSessions       \* bound on the device sessions, and on the admin sessions

ASSUME IdentityAssumption == MaxCredentials \in Nat /\ MaxSessions \in Nat

VARIABLES
  credential,   \* device_credentials
  session,      \* device_sessions
  login,        \* admin_sessions
  client        \* requests that have read and not yet written

identityVars == <<credential, session, login, client>>

Creds == 1..MaxCredentials
Sessions == 1..MaxSessions
\* grace is rotation_valid_until: not set, in the future or past.
CredentialRow == [status : {"none", "active", "revoked"}, expired : BOOLEAN,
                  grace : {"none", "open", "over"}]
SessionRow == [cred : 0..MaxCredentials, revoked : BOOLEAN, expired : BOOLEAN]
LoginRow == [made : BOOLEAN, revoked : BOOLEAN, expired : BOOLEAN, from : 0..MaxSessions]

IdentityTypeOK ==
  /\ credential \in [Creds -> CredentialRow]
  /\ session \in [Sessions -> SessionRow]
  /\ login \in [Sessions -> LoginRow]
  /\ client \in [Clients -> [pc : {"idle", "session", "rotate"},
                             id : 0..MaxCredentials \cup Sessions]]

IdentityInit ==
  /\ credential = [c \in Creds |-> [status |-> "none", expired |-> FALSE, grace |-> "none"]]
  /\ session = [s \in Sessions |-> [cred |-> 0, revoked |-> FALSE, expired |-> FALSE]]
  /\ login = [s \in Sessions |-> [made |-> FALSE, revoked |-> FALSE, expired |-> FALSE, from |-> 0]]
  /\ client = [q \in Clients |-> [pc |-> "idle", id |-> 0]]

Waits(q, pc, id) == client' = [client EXCEPT ![q] = [pc |-> pc, id |-> id]]
ClientIdle(q) == client[q].pc = "idle"
ClientEnds(q) == client' = [client EXCEPT ![q] = [pc |-> "idle", id |-> 0]]
NewCredential(c) ==
  credential[c].status = "none" /\ \A d \in Creds : d < c => credential[d].status # "none"
NewLogin(s) == ~login[s].made /\ \A r \in Sessions : r < s => login[r].made
LoginWith(from) == [made |-> TRUE, revoked |-> FALSE, expired |-> FALSE, from |-> from]

\* issue_device_credential
Issue(c) ==
  /\ NewCredential(c)
  /\ credential' = [credential EXCEPT ![c].status = "active"]
  /\ UNCHANGED <<session, login, client>>

\* A credential whose grace window is over can be rotated again, which opens
\* the window again.
RotateCredential(old, c) ==
  /\ credential[old].status = "active" /\ ~credential[old].expired
  /\ credential[old].grace \in {"none", "over"}
  /\ NewCredential(c)
  /\ credential' = [credential EXCEPT ![old].grace = "open", ![c].status = "active"]
  /\ UNCHANGED <<session, login, client>>

\* The sessions of a credential are revoked with it.
RevokeCredential(c) ==
  /\ credential[c].status = "active"
  /\ credential' = [credential EXCEPT ![c].status = "revoked"]
  /\ session' = [s \in Sessions |-> IF session[s].cred = c THEN [session[s] EXCEPT !.revoked = TRUE]
                                    ELSE session[s]]
  /\ UNCHANGED <<login, client>>

\* create_device_session: the credential is read and judged ..
ReadCredential(q, c) ==
  /\ ClientIdle(q)
  /\ credential[c].status = "active" /\ ~credential[c].expired /\ credential[c].grace # "over"
  /\ Waits(q, "session", c)
  /\ UNCHANGED <<credential, session, login>>

\* .. and the session is inserted without another look.
InsertSession(q, s) ==
  /\ client[q].pc = "session"
  /\ session[s].cred = 0 /\ \A r \in Sessions : r < s => session[r].cred # 0
  /\ session' = [session EXCEPT ![s].cred = client[q].id]
  /\ ClientEnds(q)
  /\ UNCHANGED <<credential, login>>

\* authenticate_device_session joins the session with its credential.
Authenticates(s) ==
  /\ session[s].cred # 0 /\ ~session[s].revoked /\ ~session[s].expired
  /\ credential[session[s].cred].status = "active"

Login(s) ==
  /\ NewLogin(s)
  /\ login' = [login EXCEPT ![s] = LoginWith(0)]
  /\ UNCHANGED <<credential, session, client>>

LoginLives(s) == login[s].made /\ ~login[s].revoked /\ ~login[s].expired

Logout(s) ==
  /\ login[s].made
  /\ login' = [login EXCEPT ![s].revoked = TRUE]
  /\ UNCHANGED <<credential, session, client>>

\* rotate_admin_session authenticates first ..
ReadLogin(q, s) ==
  /\ ClientIdle(q)
  /\ LoginLives(s)
  /\ Waits(q, "rotate", s)
  /\ UNCHANGED <<credential, session, login>>

\* Mutant of RotateLogin: the session that was authenticated is not asked again.
RotateAsRead(q, s) ==
  LET old == client[q].id IN
  /\ client[q].pc = "rotate"
  /\ NewLogin(s)
  /\ login' = [login EXCEPT ![old].revoked = TRUE, ![s] = LoginWith(old)]
  /\ ClientEnds(q)
  /\ UNCHANGED <<credential, session>>

\* .. and asks again under the lock.
RotateLogin(q, s) ==
  LET old == client[q].id IN
  /\ client[q].pc = "rotate"
  /\ NewLogin(s)
  /\ IF LoginLives(old)
       THEN login' = [login EXCEPT ![old].revoked = TRUE, ![s] = LoginWith(old)]
       ELSE UNCHANGED login
  /\ ClientEnds(q)
  /\ UNCHANGED <<credential, session>>

ClientDies(q) ==
  /\ ~ClientIdle(q)
  /\ ClientEnds(q)
  /\ UNCHANGED <<credential, session, login>>

\* What was revoked is not told apart by its age.
TimePasses ==
  \/ /\ \E c \in Creds : credential[c].status = "active" /\
          \/ ~credential[c].expired /\ credential' = [credential EXCEPT ![c].expired = TRUE]
          \/ credential[c].grace = "open" /\ credential' = [credential EXCEPT ![c].grace = "over"]
     /\ UNCHANGED <<session, login, client>>
  \/ /\ \E s \in Sessions : /\ Authenticates(s)
                            /\ session' = [session EXCEPT ![s].expired = TRUE]
     /\ UNCHANGED <<credential, login, client>>
  \/ /\ \E s \in Sessions : LoginLives(s) /\ login' = [login EXCEPT ![s].expired = TRUE]
     /\ UNCHANGED <<credential, session, client>>

IdentityNext ==
  \/ TimePasses
  \/ \E c \in Creds : Issue(c) \/ RevokeCredential(c) \/ \E old \in Creds : RotateCredential(old, c)
  \/ \E s \in Sessions : Login(s) \/ Logout(s)
  \/ \E q \in Clients :
       \/ ClientDies(q)
       \/ \E c \in Creds : ReadCredential(q, c)
       \/ \E s \in Sessions : InsertSession(q, s) \/ ReadLogin(q, s) \/ RotateLogin(q, s)

IdentitySpec == IdentityInit /\ [][IdentityNext]_identityVars

-----------------------------------------------------------------------------
\* A revocation is final, and holds against every request that had read before
\* it: after a credential was revoked no step lets a session of it authenticate,
\* one that is inserted by that step included, and after an admin session was
\* logged out or rotated no step makes an heir of it or brings it back.
RevocationHolds ==
  [][/\ \A s \in Sessions, c \in Creds :
          credential[c].status = "revoked" /\ session'[s].cred = c => ~Authenticates(s)'
     /\ \A r \in Sessions : login[r].revoked =>
          /\ login'[r].revoked
          /\ \A s \in Sessions : login'[s].from = r => login[s].from = r]_identityVars
=============================================================================
