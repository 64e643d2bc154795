----------------------------- MODULE PortRange -----------------------------
(***************************************************************************)
(* The UDP port range of WebRTC negotiations (port_range.py).              *)
(*                                                                         *)
(* While a connection's setLocalDescription gathers ICE candidates, the    *)
(* context manager restrict_ice_gathering_port_range replaces the event    *)
(* loop's create_datagram_endpoint by a function that binds in the range   *)
(* and calls the function it found there.  The event loop is one object    *)
(* shared by every connection, so the contexts of connections that         *)
(* negotiate at the same time are not nested: each puts back what it       *)
(* found.                                                                  *)
(***************************************************************************)
EXTENDS Naturals

CONSTANTS
  Negotiation,  \* the connections that negotiate, each once
  MinPort,      \* WEBRTC_MIN_PORT
  MaxPort,      \* WEBRTC_MAX_PORT
  Hosts         \* bound: the host addresses of the machine, a socket for each

ASSUME PortRangeAssumption ==
  /\ MinPort \in Nat /\ MaxPort \in Nat
  /\ 0 < MinPort /\ MinPort <= MaxPort     \* _read_port_range, or no range
  /\ Hosts \in Nat

Loop == "loop"            \* the event loop's own create_datagram_endpoint
Ephemeral == 0            \* a port chosen by the operating system

ASSUME LoopAssumption == Loop \notin Negotiation

VARIABLES
  phase,      \* of each negotiation: "new", "gathering", "done", "closed"
  installed,  \* loop.create_datagram_endpoint: Loop, or whose patch it is
  found,      \* found[n]: original_create_datagram_endpoint of n's context
  asked,      \* asked[n]: how many sockets n has asked for
  sockets,    \* sockets[n]: the ports n's sockets are bound to
  crossed     \* ghost: two contexts have been open at the same time

portVars == <<phase, installed, found, asked, sockets, crossed>>

Ports == MinPort .. MaxPort
Functions == Negotiation \union {Loop}

PortTypeOK ==
  /\ phase \in [Negotiation -> {"new", "gathering", "done", "closed"}]
  /\ installed \in Functions
  /\ found \in [Negotiation -> Functions]
  /\ asked \in [Negotiation -> 0 .. Hosts]
  /\ sockets \in [Negotiation -> SUBSET (Ports \union {Ephemeral})]
  /\ crossed \in BOOLEAN

PortInit ==
  /\ phase = [n \in Negotiation |-> "new"]
  /\ installed = Loop
  /\ found = [n \in Negotiation |-> Loop]
  /\ asked = [n \in Negotiation |-> 0]
  /\ sockets = [n \in Negotiation |-> {}]
  /\ crossed = FALSE

Gathering == {n \in Negotiation : phase[n] = "gathering"}
Taken == UNION {sockets[n] : n \in Negotiation} \ {Ephemeral}

\* The context is entered: the function found on the loop is wrapped.
Enter(n) ==
  /\ phase[n] = "new"
  /\ crossed' = (crossed \/ Gathering # {})
  /\ phase' = [phase EXCEPT ![n] = "gathering"]
  /\ found' = [found EXCEPT ![n] = installed]
  /\ installed' = n
  /\ UNCHANGED <<asked, sockets>>

\* bind_udp_socket_in_range tries the ports in a random order: any free one.
FreePorts == Ports \ Taken

\* aioice asks the loop for the socket of the next host candidate.  Whatever
\* patch is installed binds in the range and hands the socket down the chain
\* of functions it found.  With no port free the patch raises OSError and
\* aioice goes on without that candidate.
Ask(n) ==
  /\ phase[n] = "gathering"
  /\ asked[n] < Hosts
  /\ asked' = [asked EXCEPT ![n] = @ + 1]
  /\ IF installed = Loop
     THEN sockets' = [sockets EXCEPT ![n] = @ \union {Ephemeral}]
     ELSE IF FreePorts = {}
     THEN UNCHANGED sockets
     ELSE \E p \in FreePorts : sockets' = [sockets EXCEPT ![n] = @ \union {p}]
  /\ UNCHANGED <<phase, installed, found, crossed>>

\* Mutant: the context forgets to put the function back.
LeaveKeepsPatch(n) ==
  /\ phase[n] = "gathering"
  /\ phase' = [phase EXCEPT ![n] = "done"]
  /\ UNCHANGED <<installed, found, asked, sockets, crossed>>

\* The context is left, also by an exception or a cancellation: what it found
\* is put back.
Leave(n) ==
  /\ phase[n] = "gathering"
  /\ phase' = [phase EXCEPT ![n] = "done"]
  /\ installed' = found[n]
  /\ UNCHANGED <<found, asked, sockets, crossed>>

\* The peer connection is closed, and its sockets with it.
ClosePeer(n) ==
  /\ phase[n] = "done"
  /\ phase' = [phase EXCEPT ![n] = "closed"]
  /\ sockets' = [sockets EXCEPT ![n] = {}]
  /\ UNCHANGED <<installed, found, asked, crossed>>

PortNext == \E n \in Negotiation : Enter(n) \/ Ask(n) \/ Leave(n) \/ ClosePeer(n)

PortSpec == PortInit /\ [][PortNext]_portVars

-----------------------------------------------------------------------------
\* The candidates' sockets are bound within the configured range (the
\* docstring of restrict_ice_gathering_port_range, port_range.py:60) ...
CandidatesInRange == \A n \in Negotiation : sockets[n] \subseteq Ports

\* ... which is true of connections that negotiate one after the other, also
\* when the range is exhausted.
SerialInRange == ~crossed => CandidatesInRange

\* "Temporarily": when nobody gathers, the loop has its own function back,
\* after any number of negotiations one after the other.
LoopRestored == Gathering = {} /\ ~crossed => installed = Loop

\* However the contexts overlap, the chain of functions below an installed or
\* gathering one reaches the loop's own without a cycle: whichever contexts are
\* taken together, one of them wrapped a function of none of them, so a call
\* never recurses for ever (port_range.py:71-77).
Entered == {n \in Negotiation : phase[n] # "new"}

ChainEnds ==
  /\ \A n \in Entered : found[n] \in Entered \union {Loop}
  /\ \A together \in SUBSET Entered : together # {} => \E n \in together : found[n] \notin together

\* All of it (port_range.py:58-84).
RangeSound == PortTypeOK /\ SerialInRange /\ LoopRestored /\ ChainEnds
=============================================================================
