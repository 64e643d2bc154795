-------------------------- MODULE SessionRegistry --------------------------
(***************************************************************************)
(* The session registry of the proxy (session.py): the SessionManager      *)
(* singleton, and the groups of connections that share media and messages. *)
(*                                                                         *)
(* Every operation runs on the one asyncio event loop and has no await, so *)
(* each is one action.  What the registry does not decide is who calls     *)
(* Attach with which session: an HTTP handler that looked a session up     *)
(* before an await may attach to it after the manager forgot it, and the   *)
(* action allows that.                                                     *)
(***************************************************************************)
EXTENDS FiniteSets

CONSTANTS
  Conn,       \* connections
  Sess,       \* session ids (uuid4 in the code: an id is used once)
  NoSession   \* Python's None in Connection.session

ASSUME NoSessionAssumption == NoSession \notin Sess

VARIABLES
  created,    \* ids handed out by Session()
  sessions,   \* SessionManager().sessions
  members,    \* members[s]: Session.connections of session s
  sessionOf   \* sessionOf[c]: Connection.session

registryVars == <<created, sessions, members, sessionOf>>

RegistryTypeOK ==
  /\ created \in SUBSET Sess
  /\ sessions \in SUBSET created
  /\ members \in [Sess -> SUBSET Conn]
  /\ sessionOf \in [Conn -> Sess \union {NoSession}]

RegistryInit ==
  /\ created = {}
  /\ sessions = {}
  /\ members = [s \in Sess |-> {}]
  /\ sessionOf = [c \in Conn |-> NoSession]

-----------------------------------------------------------------------------
(* Operations                                                              *)

\* Session.attach: a no-op for a member, and both ends of the link otherwise.
Attach(c, s) ==
  /\ members' = [members EXCEPT ![s] = @ \union {c}]
  /\ sessionOf' = [sessionOf EXCEPT ![c] = s]

\* SessionManager.create_session followed by the attach of its first member:
\* create_connection has no await between the two.
OpenSession(c, s) ==
  /\ sessionOf[c] = NoSession
  /\ s \notin created
  /\ created' = created \union {s}
  /\ sessions' = sessions \union {s}
  /\ Attach(c, s)

\* create_connection(session=s) for a session object the caller holds.
AttachExisting(c, s) ==
  /\ sessionOf[c] = NoSession
  /\ s \in created
  /\ Attach(c, s)
  /\ UNCHANGED <<created, sessions>>

\* Session.detach, called on connection.session: the session is destroyed
\* with its last member (and popping an unknown id is a no-op).
Detach(c) ==
  LET s == sessionOf[c] IN
  /\ s # NoSession
  /\ members' = [members EXCEPT ![s] = @ \ {c}]
  /\ sessionOf' = [sessionOf EXCEPT ![c] = NoSession]
  /\ sessions' = IF members[s] \ {c} = {} THEN sessions \ {s} ELSE sessions
  /\ UNCHANGED created

RegistryNext ==
  \E c \in Conn :
    \/ \E s \in Sess : OpenSession(c, s) \/ AttachExisting(c, s)
    \/ Detach(c)

RegistrySpec == RegistryInit /\ [][RegistryNext]_registryVars

-----------------------------------------------------------------------------
\* The two ends of the link agree: a connection that publishes to a session
\* (Connection.session) is one the session delivers to, and one a session
\* still delivers to can still detach itself (session.py:33-49).
MutualAttachment ==
  \A c \in Conn, s \in Sess : sessionOf[c] = s <=> c \in members[s]

\* The manager lists no session that nobody is in: the last detach destroys
\* it, on whichever of the paths (close, failed start, closed callback) the
\* last member leaves (session.py:48-49).
NoEmptySession == \A s \in sessions : members[s] # {}

\* A session is destroyed only by the departure of its last member, and never
\* comes back: while it has another member GET /session keeps listing it.
DestroyedOnlyWhenEmpty ==
  [][\A s \in Sess :
        /\ (s \in sessions /\ s \notin sessions') => members'[s] = {}
        /\ (s \in created /\ s \notin sessions) => s \notin sessions']_registryVars

RegistryInv == RegistryTypeOK /\ MutualAttachment /\ NoEmptySession
=============================================================================
