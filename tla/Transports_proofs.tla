------------------------- MODULE Transports_proofs -------------------------
(***************************************************************************)
(* Proofs about the transports: SipServer, for any number of TCP           *)
(* connections, calls and connections; RtmpServer, for any number of       *)
(* publish commands; RtmpChunks, for any number of chunk streams and any   *)
(* messages; MediaSession, for any streams and any chunks.                 *)
(***************************************************************************)
EXTENDS SipServer, RtmpServer, RtmpChunks, MediaSession, FiniteSetTheorems, SequenceTheorems, WellFoundedInduction, TLAPS

-----------------------------------------------------------------------------
(* SipServer                                                               *)

Starting == {"preparing", "negotiating"}
Ending == {"closing", "byeOk"}

(* What CallsConsistent needs to be inductive: a handler that starts a
   connection made it for the call it works on, one that answers a BYE has a
   connection; a connection has no pc before it is negotiated, and one that is
   past closing its pc has none unless it was closed before. *)
HandlersInv ==
  \A t \in Peer :
    /\ handler[t] \in Starting => message[t].conn \in Connection /\ callOf[message[t].conn] = message[t].call
    /\ handler[t] \in Ending => message[t].conn \in Connection

PcInv ==
  \A i \in Connection :
    /\ stage[i] \in {"unused", "preparing"} => ~hasPc[i] /\ (closer[i] # "no" => i \in hasty)
    /\ hasPc[i] => closer[i] \in {"no", "pc"} \/ i \in hasty

CallsInv == CallsConsistent /\ HandlersInv /\ PcInv

LEMMA NoneIsNoConnection == None \notin Connection
  BY SipAssumption DEF None, Connection

LEMMA NothingIsMessage == Nothing \in Message
  BY DEF Nothing, Message

(* What a handler that starts a connection works on. *)
LEMMA OwnFacts ==
  ASSUME CallsInv, NEW t \in Peer, handler[t] \in Starting
  PROVE  /\ message[t].conn \in Connection
         /\ closer[message[t].conn] = "no" => message[t].conn \in managed
         /\ stage[message[t].conn] = handler[t]
         /\ callOf[message[t].conn] = message[t].call
         /\ \A u \in Peer \ {t} : handler[u] \in Starting => message[u].conn # message[t].conn
         /\ \A k \in Call : sessions[k] # message[t].conn
<1> USE DEF CallsInv, CallsConsistent, TypeOK, OwnConnection, HandlersInv, Starting
<1>1. message[t].conn \in Connection /\ stage[message[t].conn] = handler[t]
  OBVIOUS
<1>2. \A k \in Call : sessions[k] # message[t].conn
  BY <1>1, NoneIsNoConnection DEF SessionsStarted
<1>3. QED BY <1>1, <1>2

(* A step of a handler that touches no connection and no session, and after
   which it neither starts one nor answers a BYE it did not answer before. *)
LEMMA QuietStep ==
  ASSUME CallsInv, NEW t \in Peer, UNCHANGED <<sessions, ConnVars>>,
         NEW at \in {"reading", "trying", "callback", "ok", "refusing", "closing", "byeOk", "ended"},
         NEW m \in Message, Works(t, at, m),
         at \in Ending => handler[t] \in Ending /\ m = message[t]
  PROVE  CallsInv'
<1> USE DEF CallsInv, CallsConsistent, ConnVars, closeVars, Works
<1>1. TypeOK' BY DEF TypeOK
<1>2. /\ handler'[t] = at /\ message'[t] = m
      /\ \A u \in Peer \ {t} : handler'[u] = handler[u] /\ message'[u] = message[u]
  BY DEF TypeOK
<1>3. SessionsStarted' BY DEF SessionsStarted
<1>4. ByeEnds' BY <1>2 DEF ByeEnds, Ending
<1>5. OwnConnection' BY <1>2 DEF OwnConnection, Starting
<1>6. HandlersInv' BY <1>2 DEF HandlersInv, Starting, Ending
<1>7. PcInv' BY DEF PcInv
<1>8. QED BY <1>1, <1>3, <1>4, <1>5, <1>6, <1>7

LEMMA QuietHandlers ==
  ASSUME CallsInv, NEW t \in Peer,
         \/ \E k \in Call \union {NoCall}, complete, body \in BOOLEAN : Invite(t, k, complete, body)
         \/ TryingSent(t) \/ CallbackRefuses(t) \/ CloseReturns(t) \/ Sent(t) \/ PeerGone(t)
  PROVE  CallsInv'
<1>0. message[t] \in Message BY DEF CallsInv, CallsConsistent, TypeOK
<1> USE NothingIsMessage, <1>0 DEF Answers, Rests, ByeAnswers, Ending
<1>1. CASE TryingSent(t)
  <2>1. Works(t, "callback", message[t])
    BY <1>1 DEF TryingSent, Goes, Works, CallsInv, CallsConsistent, TypeOK
  <2>2. QED BY <1>1, <2>1, QuietStep DEF TryingSent
<1>2. CASE CallbackRefuses(t) BY <1>2, QuietStep DEF CallbackRefuses
<1>3. CASE CloseReturns(t) BY <1>3, QuietStep DEF CloseReturns
<1>4. CASE Sent(t) BY <1>4, QuietStep DEF Sent
<1>5. CASE PeerGone(t) BY <1>5, QuietStep DEF PeerGone
<1>6. ASSUME NEW k \in Call \union {NoCall}, NEW complete \in BOOLEAN, NEW body \in BOOLEAN,
             Invite(t, k, complete, body)
      PROVE  CallsInv'
  <2>1. CASE UNCHANGED <<handler, message>>
    BY <1>6, <2>1 DEF Invite, CallsInv, CallsConsistent, TypeOK, SessionsStarted, ByeEnds,
                      OwnConnection, HandlersInv, PcInv, ConnVars, closeVars
  <2>2. CASE ~UNCHANGED <<handler, message>>
    <3>1. [Nothing EXCEPT !.call = k, !.complete = complete] \in Message
      BY DEF Nothing, Message
    <3>2. \E at \in {"trying", "callback", "refusing", "reading"}, m \in Message : Works(t, at, m)
      BY <1>6, <2>2, <3>1 DEF Invite
    <3>3. QED BY <1>6, <3>2, QuietStep DEF Invite
  <2>3. QED BY <2>1, <2>2
<1>7. QED BY <1>1, <1>2, <1>3, <1>4, <1>5, <1>6

(* A connection that was unused is nobody else's. *)
LEMMA NewStep ==
  ASSUME CallsInv, NEW t \in Peer, CallbackAnswers(t)
  PROVE  CallsInv'
<1> USE DEF CallsInv, CallsConsistent, TypeOK, Starting, Ending, closeVars
<1>1. PICK i \in Connection :
        /\ stage[i] = "unused"
        /\ message' = [message EXCEPT ![t] = [message[t] EXCEPT !.conn = i]]
        /\ stage' = [stage EXCEPT ![i] = "preparing"]
        /\ callOf' = [callOf EXCEPT ![i] = message[t].call]
        /\ managed' = managed \union {i}
        /\ handler' = [handler EXCEPT ![t] = "preparing"]
  BY DEF CallbackAnswers, Works, Staged
<1>2. handler[t] = "callback" /\ UNCHANGED <<sessions, hasPc, runner, closer, hasty>>
  BY DEF CallbackAnswers
<1>3. message[t] \in Message /\ message[t].call \in Call \union {NoCall}
  BY DEF Message
<1>4. TypeOK'
  <2>1. [message[t] EXCEPT !.conn = i] \in Message BY <1>3 DEF Message
  <2>2. message' \in [Peer -> Message] BY <1>1, <2>1
  <2>3. QED BY <1>1, <1>2, <1>3, <2>2
<1>5. \A u \in Peer : handler[u] \in Starting => message[u].conn # i
  BY <1>1 DEF OwnConnection
<1>6. \A k \in Call : sessions[k] # i
  BY <1>1, NoneIsNoConnection DEF SessionsStarted
<1>7. message'[t].conn = i /\ message'[t].call = message[t].call
      /\ \A u \in Peer \ {t} : message'[u] = message[u] /\ handler'[u] = handler[u]
  BY <1>1, <1>2, <1>3 DEF Message
<1>8. SessionsStarted' BY <1>1, <1>2, <1>6 DEF SessionsStarted
<1>9. ByeEnds' BY <1>1, <1>2, <1>7 DEF ByeEnds
<1>10. OwnConnection' BY <1>1, <1>2, <1>5, <1>7 DEF OwnConnection
<1>11. PcInv' BY <1>1, <1>2 DEF PcInv
<1>12. HandlersInv'
  <2> SUFFICES ASSUME NEW u \in Peer
      PROVE  /\ handler'[u] \in Starting => /\ message'[u].conn \in Connection
                                            /\ callOf'[message'[u].conn] = message'[u].call
             /\ handler'[u] \in Ending => message'[u].conn \in Connection
    BY DEF HandlersInv
  <2>1. CASE u = t BY <1>1, <1>2, <1>7, <2>1
  <2>2. CASE u # t BY <1>1, <1>2, <1>5, <1>7, <2>2 DEF HandlersInv
  <2>3. QED BY <2>1, <2>2
<1>13. QED BY <1>4, <1>8, <1>9, <1>10, <1>11, <1>12

(* A handler goes on with, or gives up, the connection it starts. *)
LEMMA StartStep ==
  ASSUME CallsInv, NEW t \in Peer, Prepared(t) \/ StartFails(t) \/ Started(t)
  PROVE  CallsInv'
<1> USE DEF CallsInv, CallsConsistent, TypeOK, Starting, Ending, closeVars
<1> DEFINE i == message[t].conn
<1>1. handler[t] \in Starting BY DEF Prepared, StartFails, Started
<1>2. /\ i \in Connection
      /\ closer[i] = "no" => i \in managed
      /\ stage[i] = handler[t] /\ callOf[i] = message[t].call
      /\ \A u \in Peer \ {t} : handler[u] \in Starting => message[u].conn # i
      /\ \A k \in Call : sessions[k] # i
  BY <1>1, OwnFacts DEF Starting, Ending
<1>3. UNCHANGED <<callOf, managed, closer, hasty>>
  BY DEF Prepared, StartFails, Started
<1> DEFINE Moves(at, m, s, has) ==
      /\ handler' = [handler EXCEPT ![t] = at]
      /\ message' = [message EXCEPT ![t] = m]
      /\ stage' = [stage EXCEPT ![i] = s]
      /\ hasPc' = [hasPc EXCEPT ![i] = has]
      /\ s # "up" => sessions' = sessions
<1>4. \/ Moves("negotiating", message[t], "negotiating", TRUE) /\ handler[t] = "preparing"
      \/ \E at \in {"ok", "refusing", "reading"}, s \in {"failed", "up"} :
           Moves(at, Nothing, s, hasPc[i])
  <2>1. CASE Prepared(t) BY <2>1 DEF Prepared, Goes, Staged
  <2>2. CASE StartFails(t)
    <3>1. hasPc' = [hasPc EXCEPT ![i] = hasPc[i]] /\ sessions' = sessions
          /\ stage' = [stage EXCEPT ![i] = "failed"]
      BY <2>2 DEF StartFails, Staged
    <3>2. \E at \in {"ok", "refusing", "reading"} :
            /\ handler' = [handler EXCEPT ![t] = at]
            /\ message' = [message EXCEPT ![t] = Nothing]
      BY <2>2 DEF StartFails, Answers, Rests, Works
    <3>3. QED BY <3>1, <3>2
  <2>3. CASE Started(t)
    <3>1. hasPc' = [hasPc EXCEPT ![i] = hasPc[i]] /\ stage' = [stage EXCEPT ![i] = "up"]
      BY <2>3 DEF Started, Staged
    <3>2. \E at \in {"ok", "refusing", "reading"} :
            /\ handler' = [handler EXCEPT ![t] = at]
            /\ message' = [message EXCEPT ![t] = Nothing]
      BY <2>3 DEF Started, Rests, Works
    <3>3. QED BY <3>1, <3>2
  <2>4. QED BY <2>1, <2>2, <2>3
<1>5. runner' \in [Connection -> {"none", "spawned", "running", "died", "done"}]
  BY DEF Prepared, StartFails, Started
<1>6. /\ sessions' \in [Call -> Connection \union {None}]
      /\ \A k \in Call : \/ sessions'[k] = sessions[k]
                         \/ /\ sessions'[k] = i /\ k = message[t].call
                            /\ stage'[i] = "up"
  <2>1. CASE sessions' = sessions BY <2>1
  <2>2. CASE sessions' # sessions
    <3>1. Started(t) BY <2>2 DEF Prepared, StartFails
    <3>2. sessions' = [sessions EXCEPT ![message[t].call] = i] BY <2>2, <3>1 DEF Started
    <3>3. stage'[i] = "up" BY <1>2, <3>1 DEF Started, Staged
    <3>4. QED BY <1>2, <3>2, <3>3
  <2>3. QED BY <2>1, <2>2
<1>7. TypeOK'
  <2>1. /\ handler' \in [Peer -> {"reading", "trying", "callback", "preparing", "negotiating",
                               "ok", "refusing", "closing", "byeOk", "ended"}]
        /\ message' \in [Peer -> Message]
    BY <1>4, NothingIsMessage
  <2>2. stage' \in [Connection -> {"unused", "preparing", "negotiating", "up", "failed"}]
    BY <1>2, <1>4
  <2>3. hasPc' \in [Connection -> BOOLEAN]
    <3>1. \E has \in BOOLEAN : hasPc' = [hasPc EXCEPT ![i] = has]
      BY <1>2, <1>4
    <3>2. QED BY <3>1
  <2>4. QED BY <1>3, <1>5, <1>6, <2>1, <2>2, <2>3
<1>8. /\ \A u \in Peer \ {t} : handler'[u] = handler[u] /\ message'[u] = message[u]
      /\ \/ handler'[t] = "negotiating" /\ message'[t] = message[t] /\ stage'[i] = "negotiating"
         \/ handler'[t] \notin Starting \union Ending
      /\ \A j \in Connection \ {i} : stage'[j] = stage[j] /\ hasPc'[j] = hasPc[j]
  BY <1>2, <1>4
<1>9. SessionsStarted' BY <1>2, <1>3, <1>6, <1>8, NoneIsNoConnection DEF SessionsStarted
<1>10. PcInv'
  <2> SUFFICES ASSUME NEW j \in Connection
      PROVE  /\ stage'[j] \in {"unused", "preparing"} =>
                  ~hasPc'[j] /\ (closer'[j] # "no" => j \in hasty')
             /\ hasPc'[j] => closer'[j] \in {"no", "pc"} \/ j \in hasty'
    BY DEF PcInv
  <2>1. CASE j = i BY <1>2, <1>3, <1>4, <2>1 DEF PcInv
  <2>2. CASE j # i BY <1>3, <1>8, <2>2 DEF PcInv
  <2>3. QED BY <2>1, <2>2
<1>11. ByeEnds' BY <1>3, <1>8, <1>10 DEF ByeEnds, PcInv, HandlersInv
<1>12. OwnConnection'
  <2>1. \A u \in Peer : handler[u] \in Starting => message[u].conn \in Connection
    BY DEF HandlersInv
  <2>2. ASSUME NEW u \in Peer, handler'[u] \in Starting
        PROVE  /\ stage'[message'[u].conn] = handler'[u]
               /\ closer'[message'[u].conn] = "no" => message'[u].conn \in managed'
               /\ \A v \in Peer \ {u} : handler'[v] \in Starting => message'[v].conn # message'[u].conn
    <3>1. CASE u = t BY <1>2, <1>3, <1>8, <2>2, <3>1
    <3>2. CASE u # t BY <1>2, <1>3, <1>8, <2>1, <2>2, <3>2 DEF OwnConnection
    <3>3. QED BY <3>1, <3>2
  <2>3. QED BY <2>2 DEF OwnConnection
<1>13. HandlersInv' BY <1>2, <1>3, <1>8 DEF HandlersInv
<1>14. QED BY <1>7, <1>9, <1>10, <1>11, <1>12, <1>13

(* What close() up to its first await leaves true. *)
LEMMA ClosesStep ==
  ASSUME CallsInv, NEW i \in Connection, Closes(i)
  PROVE  /\ closer' \in [Connection -> {"no", "pc", "models", "closed"}]
         /\ hasty' \in SUBSET Connection /\ hasty \subseteq hasty'
         /\ closer'[i] # "no" /\ \A j \in Connection \ {i} : closer'[j] = closer[j]
         /\ UNCHANGED <<stage, hasPc>> => PcInv'
<1> USE DEF CallsInv, CallsConsistent, TypeOK, Closes
<1>1. /\ closer' \in [Connection -> {"no", "pc", "models", "closed"}]
      /\ hasty' \in SUBSET Connection /\ hasty \subseteq hasty'
      /\ closer'[i] = (IF hasPc[i] THEN "pc" ELSE "models")
      /\ \A j \in Connection \ {i} : closer'[j] = closer[j]
  OBVIOUS
<1>2. ~hasPc[i] => i \in hasty' OBVIOUS
<1>3. UNCHANGED <<stage, hasPc>> => PcInv' BY <1>1, <1>2 DEF PcInv
<1>4. QED BY <1>1, <1>3

(* A BYE finds a connection that was started, and its close() begins or began
   before. *)
LEMMA ByeStep ==
  ASSUME CallsInv, NEW t \in Peer, NEW k \in Call, NEW complete \in BOOLEAN, Bye(t, k, complete)
  PROVE  CallsInv'
<1> USE DEF CallsInv, CallsConsistent, TypeOK, Starting, Ending
<1> DEFINE i == sessions[k]
<1>1. i \in Connection /\ stage[i] = "up" /\ handler[t] = "reading"
  BY DEF Bye, SessionsStarted
<1>2. sessions' = [sessions EXCEPT ![k] = None] /\ UNCHANGED <<stage, callOf, hasPc, runner, managed>>
  BY DEF Bye
<1>3. /\ closer' \in [Connection -> {"no", "pc", "models", "closed"}]
      /\ hasty' \in SUBSET Connection /\ hasty \subseteq hasty'
      /\ closer'[i] # "no" /\ \A j \in Connection \ {i} : closer'[j] = closer[j]
      /\ PcInv'
  <2>1. CASE Closes(i) BY <1>1, <1>2, <2>1, ClosesStep
  <2>2. CASE closer[i] # "no" /\ UNCHANGED closeVars
    BY <1>1, <1>2, <2>2 DEF closeVars, PcInv
  <2>3. QED BY <2>1, <2>2 DEF Bye
<1>4. Ends(k, complete) \in Message /\ Ends(k, complete).conn = i
  BY <1>1 DEF Ends, Message
<1>5. PICK at \in {"closing", "byeOk", "reading"}, m \in {Ends(k, complete), Nothing} :
        /\ Works(t, at, m)
        /\ at # "reading" => m = Ends(k, complete)
  BY DEF Bye, ByeAnswers, Rests
<1>6. /\ handler' = [handler EXCEPT ![t] = at]
      /\ message' = [message EXCEPT ![t] = m]
      /\ m \in Message
  BY <1>4, <1>5, NothingIsMessage DEF Works
<1>7. TypeOK' BY <1>2, <1>3, <1>6
<1>8. /\ handler'[t] \notin Starting
      /\ handler'[t] \in Ending => message'[t].conn = i
      /\ \A u \in Peer \ {t} : message'[u] = message[u] /\ handler'[u] = handler[u]
  BY <1>4, <1>5, <1>6
<1>9. SessionsStarted' BY <1>2 DEF SessionsStarted
<1>10. ByeEnds' BY <1>1, <1>2, <1>3, <1>8 DEF ByeEnds, PcInv, HandlersInv
<1>11. OwnConnection'
  <2>1. \A u \in Peer : handler[u] \in Starting => message[u].conn \in Connection /\ message[u].conn # i
    BY <1>1 DEF OwnConnection, HandlersInv
  <2>2. QED BY <1>2, <1>3, <1>8, <2>1 DEF OwnConnection
<1>12. HandlersInv' BY <1>1, <1>2, <1>8 DEF HandlersInv
<1>13. QED BY <1>3, <1>7, <1>9, <1>10, <1>11, <1>12

(* What a connection does by itself. *)
LEMMA ConnectionStep ==
  ASSUME CallsInv, NEW i \in Connection,
         \/ ConnectionEnds(i) \/ PcDropped(i) \/ CloseCompletes(i)
         \/ RunStarts(i) \/ RunLeaves(i)
  PROVE  CallsInv'
<1> USE DEF CallsInv, CallsConsistent, TypeOK
<1>1. UNCHANGED <<handler, message, sessions, stage, callOf>>
  BY DEF ConnectionEnds, PcDropped, CloseCompletes, RunStarts, RunLeaves
<1>2. /\ TypeOK' /\ PcInv'
      /\ \A j \in Connection : closer[j] # "no" => closer'[j] # "no"
      /\ \A j \in Connection : closer'[j] = "no" => (j \in managed => j \in managed')
  <2>1. CASE ConnectionEnds(i) BY <2>1, ClosesStep DEF ConnectionEnds
  <2>2. CASE PcDropped(i) BY <2>2 DEF PcDropped, PcInv
  <2>3. CASE CloseCompletes(i) BY <2>3 DEF CloseCompletes, PcInv
  <2>4. CASE RunStarts(i) BY <2>4 DEF RunStarts, PcInv, closeVars
  <2>5. CASE RunLeaves(i) BY <2>5 DEF RunLeaves, PcInv, closeVars
  <2>6. QED BY <2>1, <2>2, <2>3, <2>4, <2>5
<1>3. SessionsStarted' BY <1>1 DEF SessionsStarted
<1>4. ByeEnds' BY <1>1, <1>2 DEF ByeEnds, PcInv, HandlersInv, Ending
<1>5. OwnConnection' BY <1>1, <1>2 DEF OwnConnection, HandlersInv, Starting
<1>6. HandlersInv' BY <1>1 DEF HandlersInv
<1>7. QED BY <1>2, <1>3, <1>4, <1>5, <1>6

(* Whatever INVITEs, BYEs, DELETEs and lost peers of several TCP connections
   come in between, a session names a started connection of its call, a BYE
   that is answered has called close() on it, which has its pc unless it came
   before there was one, and every handler starts a connection of its own
   (sip/server.py:402-510). *)
THEOREM AlwaysCallsConsistent == Spec => []CallsConsistent
<1>1. Init => CallsInv
  BY NothingIsMessage DEF Init, CallsInv, CallsConsistent, TypeOK, SessionsStarted, ByeEnds,
     OwnConnection, HandlersInv, PcInv, None, Starting, Ending
<1>2. CallsInv /\ [Next]_vars => CallsInv'
  <2> SUFFICES ASSUME CallsInv, [Next]_vars PROVE CallsInv'
    OBVIOUS
  <2>1. CASE UNCHANGED vars
    BY <2>1 DEF vars, CallsInv, CallsConsistent, TypeOK, SessionsStarted, ByeEnds,
                OwnConnection, HandlersInv, PcInv
  <2>2. CASE Next
    BY <2>2, QuietHandlers, NewStep, StartStep, ByeStep, ConnectionStep DEF Next
  <2>3. QED BY <2>1, <2>2
<1>3. CallsInv => CallsConsistent BY DEF CallsInv
<1>4. QED BY <1>1, <1>2, <1>3, PTL DEF Spec

-----------------------------------------------------------------------------
(* RtmpServer                                                              *)

(* While a session is started there is a peer connection for it. *)
PublishInv == PublishEnds /\ (rtmpHandler = "starting" => current \in Pc)

LEMMA PublishHandlerStep ==
  ASSUME PublishInv,
         \/ Publish \/ CallbackFails \/ StartSession \/ Publishing \/ PublishFails
         \/ Media \/ Unpublish \/ ReadFails \/ HandlerCloses
  PROVE  PublishInv'
<1> USE DEF PublishInv, PublishEnds, RtmpTypeOK
<1>0. NoPc \notin Pc BY PublishAssumption DEF NoPc, Pc
<1>1. CASE Publish BY <1>1 DEF Publish
<1>2. CASE CallbackFails BY <1>2 DEF CallbackFails
<1>3. CASE StartSession
  <2>1. PICK i \in Pc :
          /\ pc' = [pc EXCEPT ![i] = "open"]
          /\ connection' = [connection EXCEPT ![i] = "preparing"]
          /\ replaced' = replaced \union ({current} \ {NoPc})
          /\ current' = i
    BY <1>3 DEF StartSession
  <2>2. replaced' \subseteq Pc BY <2>1
  <2>3. \A j \in Pc : pc'[j] = "open" => j = i \/ j \in replaced' BY <1>0, <2>1
  <2>4. QED BY <1>3, <2>1, <2>2, <2>3 DEF StartSession
<1>4. CASE Publishing BY <1>4 DEF Publishing
<1>5. CASE PublishFails BY <1>5 DEF PublishFails
<1>6. CASE Media BY <1>0, <1>6 DEF Media
<1>7. CASE Unpublish BY <1>0, <1>7 DEF Unpublish
<1>8. CASE ReadFails BY <1>8 DEF ReadFails
<1>9. CASE HandlerCloses BY <1>0, <1>9 DEF HandlerCloses
<1>10. QED BY <1>1, <1>2, <1>3, <1>4, <1>5, <1>6, <1>7, <1>8, <1>9

LEMMA PublishConnectionStep ==
  ASSUME PublishInv, NEW i \in Pc,
         PublisherRuns(i) \/ PublisherCloses(i) \/ PublisherTimesOut(i) \/ PublisherRunEnds(i)
  PROVE  PublishInv'
  BY DEF PublishInv, PublishEnds, RtmpTypeOK, PublisherRuns, PublisherCloses,
         PublisherTimesOut, PublisherRunEnds

(* Whatever commands, failed starts and ends of connections come in between,
   an open peer connection is the handler's, which its close() reaches, or one
   that a second publish command replaced (rtmp/server.py:240-268, 297-311). *)
THEOREM AlwaysPublishEnds == RtmpSpec => []PublishEnds
<1>1. RtmpInit => PublishInv BY DEF RtmpInit, PublishInv, PublishEnds, RtmpTypeOK
<1>2. PublishInv /\ [RtmpNext]_rtmpVars => PublishInv'
  <2> SUFFICES ASSUME PublishInv, [RtmpNext]_rtmpVars PROVE PublishInv'
    OBVIOUS
  <2>1. CASE UNCHANGED rtmpVars
    BY <2>1 DEF rtmpVars, PublishInv, PublishEnds, RtmpTypeOK
  <2>2. CASE RtmpNext BY <2>2, PublishHandlerStep, PublishConnectionStep DEF RtmpNext
  <2>3. QED BY <2>1, <2>2
<1>3. PublishInv => PublishEnds BY DEF PublishInv
<1>4. QED BY <1>1, <1>2, <1>3, PTL DEF RtmpSpec

-----------------------------------------------------------------------------
(* RtmpChunks                                                              *)

MessageType == {"none", "media", "size"}
SenderState == [id : Nat, type : MessageType, length : Nat, timestamp : Nat,
                delta : Nat, full : BOOLEAN, extended : BOOLEAN, left : Nat,
                missed : Nat, rest : Nat]
ChunkStreamState == [timestamp : Nat, timestamp_delta : Nat, length : Nat,
                     type_id : MessageType, extended : BOOLEAN, buffer : Seq(Nat)]

(* What the handler's delta is for the publisher's. *)
ReadDelta(m) == IF m.full THEN 0 ELSE m.delta

(* How much of a message the handler holds. *)
Held(m) == IF m.left > 0 THEN m.length - m.left ELSE m.rest

(* What AssembledAsSent needs to be inductive: between two messages, too, the
   handler keeps of a chunk stream what the publisher may leave out of the next
   header, all but the delta of a full one, and a message that goes on has its
   first byte in the buffer, so that the timestamp does not advance. *)
Agrees(m, c) ==
  /\ m.left > 0 => m.id # 0 /\ m.left < m.length /\ m.rest = 0
  /\ c.buffer = Bytes(Held(m), m.id)
  /\ c.timestamp + m.missed = m.timestamp
  /\ m.id # 0 => /\ c.length = m.length /\ c.type_id = m.type
                 /\ c.timestamp_delta = ReadDelta(m)
                 /\ c.extended = m.extended

ChunksGood ==
  /\ sender \in [Csid -> SenderState] /\ cs \in [Csid -> ChunkStreamState]
  /\ chunkSize \in Nat \ {0} /\ count \in Nat
  /\ aligned = TRUE
  /\ assembled.type = delivered.type /\ assembled.payload = delivered.payload
  /\ assembled.timestamp + delivered.missed = delivered.timestamp
  /\ \A k \in Csid : Agrees(sender[k], cs[k])

(* No step follows the chunk that put a message behind an abandoned part. *)
ChunksInv == mixed \in BOOLEAN /\ (~mixed => ChunksGood)

LEMMA BytesFacts ==
  ASSUME NEW n \in Nat, NEW id \in Nat
  PROVE  /\ Bytes(n, id) \in Seq(Nat) /\ Len(Bytes(n, id)) = n
         /\ \A i \in 1 .. n : Bytes(n, id)[i] = id
  BY DEF Bytes

LEMMA NoBytes == \A id : Bytes(0, id) = <<>>
<1>1. 1 .. 0 = {} OBVIOUS
<1>2. QED BY <1>1 DEF Bytes

LEMMA MoreBytes ==
  ASSUME NEW a \in Nat, NEW b \in Nat, NEW id \in Nat
  PROVE  Bytes(a, id) \o Bytes(b, id) = Bytes(a + b, id)
<1> DEFINE s == Bytes(a, id)
           t == Bytes(b, id)
           u == Bytes(a + b, id)
<1>1. /\ s \in Seq(Nat) /\ Len(s) = a /\ \A i \in 1 .. a : s[i] = id
      /\ t \in Seq(Nat) /\ Len(t) = b /\ \A i \in 1 .. b : t[i] = id
  BY BytesFacts
<1>2. a + b \in Nat OBVIOUS
<1>3. u \in Seq(Nat) /\ Len(u) = a + b /\ \A i \in 1 .. a + b : u[i] = id
  BY <1>2, BytesFacts
<1> HIDE DEF s, t, u
<1>4. /\ s \o t \in Seq(Nat) /\ Len(s \o t) = a + b
      /\ \A i \in 1 .. a + b : (s \o t)[i] = IF i <= a THEN s[i] ELSE t[i - a]
  BY <1>1, ConcatProperties
<1>5. \A i \in 1 .. a + b : (s \o t)[i] = id
  <2> SUFFICES ASSUME NEW i \in 1 .. a + b PROVE (s \o t)[i] = id
    OBVIOUS
  <2>1. (i <= a => i \in 1 .. a) /\ (~(i <= a) => i - a \in 1 .. b) OBVIOUS
  <2>2. QED BY <1>1, <1>4, <2>1
<1>6. s \o t = u BY <1>3, <1>4, <1>5, SeqEqual
<1>7. QED BY <1>6 DEF s, t, u

LEMMA ChunksStart == ChunksInit => ChunksInv
<1> SUFFICES ASSUME ChunksInit PROVE ChunksInv
  OBVIOUS
<1> USE ChunksAssumption DEF ChunksInit
<1>1. <<>> \in Seq(Nat) BY EmptySeq
<1>2. sender \in [Csid -> SenderState] BY DEF SenderState, MessageType
<1>3. cs \in [Csid -> ChunkStreamState] BY <1>1 DEF ChunkStreamState, MessageType
<1>4. ASSUME NEW k \in Csid PROVE Agrees(sender[k], cs[k])
  <2>1. /\ sender[k].left = 0 /\ sender[k].id = 0 /\ sender[k].rest = 0 /\ sender[k].missed = 0
        /\ sender[k].timestamp = 0 /\ cs[k].timestamp = 0 /\ cs[k].buffer = <<>>
    OBVIOUS
  <2>2. Held(sender[k]) = 0 BY <2>1 DEF Held
  <2>3. QED BY <2>1, <2>2, NoBytes DEF Agrees
<1>5. /\ assembled.type = delivered.type /\ assembled.payload = delivered.payload
      /\ assembled.timestamp + delivered.missed = delivered.timestamp
  BY DEF NoMessage
<1>6. QED BY <1>2, <1>3, <1>4, <1>5 DEF ChunksInv, ChunksGood

(* A chunk of message m is read as it was sent, if its header put the stream
   right. *)
LEMMA ChunkAsSent ==
  ASSUME ChunksGood, NEW k \in Csid, NEW m \in SenderState, NEW fmt, NEW h, NEW n,
         m.id # 0, m.left <= m.length, m.rest = 0, n = AtMost(m.left, chunkSize),
         Sends(k, m, n), ReadChunk(k, fmt, h, m.id, n, m.extended), count' \in Nat,
         HeaderRead(cs[k], fmt, h) \in ChunkStreamState,
         HeaderRead(cs[k], fmt, h).buffer = Bytes(m.length - m.left, m.id),
         HeaderRead(cs[k], fmt, h).length = m.length,
         HeaderRead(cs[k], fmt, h).type_id = m.type,
         HeaderRead(cs[k], fmt, h).timestamp + m.missed = m.timestamp,
         HeaderRead(cs[k], fmt, h).timestamp_delta = ReadDelta(m),
         HeaderRead(cs[k], fmt, h).extended = m.extended
  PROVE  ChunksGood'
<1> USE ChunksAssumption
<1> DEFINE c == HeaderRead(cs[k], fmt, h)
           read == m.length - m.left
           wanted == AtMost(c.length - Len(c.buffer), chunkSize)
           filled == c.buffer \o Bytes(wanted, m.id)
           kept == IF Len(filled) = c.length THEN <<>> ELSE filled
<1>1. m.id \in Nat /\ m.length \in Nat /\ m.left \in Nat /\ chunkSize \in Nat \ {0} /\ read \in Nat
      /\ m.timestamp \in Nat /\ m.missed \in Nat /\ m.delta \in Nat /\ m.full \in BOOLEAN
      /\ m.type \in MessageType /\ m.extended \in BOOLEAN
  BY DEF SenderState, ChunksGood
<1>2. n \in Nat /\ n <= m.left /\ (m.left > 0 => n > 0) /\ n = AtMost(m.left, chunkSize)
  BY <1>1 DEF AtMost
<1>3. Len(c.buffer) = read
  <2>1. Len(Bytes(read, m.id)) = read BY ONLY <1>1, BytesFacts
  <2>2. c.buffer = Bytes(read, m.id) OBVIOUS
  <2>3. QED BY ONLY <2>1, <2>2
<1>4. wanted = n
  <2>1. c.length - Len(c.buffer) = m.left BY <1>1, <1>3
  <2>2. QED BY <1>2, <2>1
<1>5. filled = Bytes(read + n, m.id)
  <2>1. Bytes(read, m.id) \o Bytes(n, m.id) = Bytes(read + n, m.id) BY ONLY <1>1, <1>2, MoreBytes
  <2>2. c.buffer = Bytes(read, m.id) OBVIOUS
  <2> HIDE DEF read, c
  <2>3. QED BY ONLY <1>4, <2>1, <2>2
<1>6. filled \in Seq(Nat) /\ Len(filled) = read + n
  <2>1. read + n \in Nat BY ONLY <1>1, <1>2
  <2>2. Bytes(read + n, m.id) \in Seq(Nat) /\ Len(Bytes(read + n, m.id)) = read + n
    BY ONLY <1>1, <2>1, BytesFacts
  <2>3. QED BY ONLY <1>5, <2>2
<1>7. Len(filled) = c.length <=> n = m.left BY <1>1, <1>2, <1>6
<1>8. /\ sender' = [sender EXCEPT ![k] = [m EXCEPT !.left = m.left - n]]
      /\ delivered' = IF m.left = n
                      THEN [type |-> m.type, timestamp |-> m.timestamp,
                            payload |-> Bytes(m.length, m.id), missed |-> m.missed]
                      ELSE delivered
      /\ chunkSize' \in Nat \ {0}
  BY <1>1 DEF Sends
<1>9. /\ cs' = [cs EXCEPT ![k] = [c EXCEPT !.buffer = kept]]
      /\ assembled' = IF Len(filled) = c.length
                      THEN [type |-> c.type_id, timestamp |-> c.timestamp, payload |-> filled]
                      ELSE assembled
      /\ aligned' = (aligned /\ wanted = n /\ (fmt = 3 => c.extended = m.extended))
  BY DEF ReadChunk
<1>10. kept \in Seq(Nat) /\ kept = IF n = m.left THEN <<>> ELSE Bytes(read + n, m.id)
  BY <1>5, <1>6, <1>7, EmptySeq
<1>11. aligned' = TRUE BY <1>4, <1>9 DEF ChunksGood
<1>12. /\ assembled'.type = delivered'.type /\ assembled'.payload = delivered'.payload
       /\ assembled'.timestamp + delivered'.missed = delivered'.timestamp
  <2>1. n = m.left => filled = Bytes(m.length, m.id)
    <3>1. n = m.left => read + n = m.length BY ONLY <1>1, <1>2
    <3>2. QED BY ONLY <1>5, <3>1
  <2>2. CASE n = m.left
    <3>1. /\ assembled' = [type |-> m.type, timestamp |-> c.timestamp, payload |-> Bytes(m.length, m.id)]
          /\ delivered' = [type |-> m.type, timestamp |-> m.timestamp,
                           payload |-> Bytes(m.length, m.id), missed |-> m.missed]
      BY <1>7, <1>8, <1>9, <2>1, <2>2
    <3>2. c.timestamp + m.missed = m.timestamp OBVIOUS
    <3> HIDE DEF c
    <3>3. QED BY <3>1, <3>2
  <2>3. CASE n # m.left
    BY <1>7, <1>8, <1>9, <2>3 DEF ChunksGood
  <2>4. QED BY <2>2, <2>3
<1>13. c \in ChunkStreamState /\ c.length = m.length /\ c.type_id = m.type /\ c.extended = m.extended
       /\ c.timestamp + m.missed = m.timestamp /\ c.timestamp_delta = ReadDelta(m)
  OBVIOUS
<1> HIDE DEF c, wanted, filled, kept
<1> DEFINE sent == [m EXCEPT !.left = m.left - n]
           got == [c EXCEPT !.buffer = kept]
<1>14. /\ sent \in SenderState /\ sent.left = m.left - n /\ sent.id = m.id /\ sent.length = m.length
       /\ sent.type = m.type /\ sent.timestamp = m.timestamp /\ sent.delta = m.delta
       /\ sent.extended = m.extended /\ sent.full = m.full /\ sent.missed = m.missed
       /\ sent.rest = 0
  BY <1>1, <1>2 DEF SenderState
<1>15. /\ got \in ChunkStreamState /\ got.buffer = kept /\ got.length = m.length
       /\ got.type_id = m.type /\ got.timestamp + m.missed = m.timestamp
       /\ got.timestamp_delta = ReadDelta(m) /\ got.extended = m.extended
  BY <1>10, <1>13 DEF ChunkStreamState
<1> HIDE DEF sent, got
<1>16. Agrees(sent, got)
  <2>1. sent.left > 0 => sent.id # 0 /\ sent.left < sent.length /\ sent.rest = 0
    BY <1>1, <1>2, <1>14
  <2>2. got.buffer = Bytes(Held(sent), sent.id)
    <3>1. sent.left = 0 <=> n = m.left BY <1>1, <1>2, <1>14
    <3>2. sent.length - sent.left = read + n BY <1>1, <1>2, <1>14
    <3>3. Held(sent) = IF n = m.left THEN 0 ELSE read + n
      BY <1>1, <1>2, <1>14, <3>1, <3>2 DEF Held
    <3>4. QED BY <1>10, <1>14, <1>15, <3>3, NoBytes
  <2>3. ReadDelta(sent) = ReadDelta(m) BY <1>14 DEF ReadDelta
  <2>4. QED BY <1>14, <1>15, <2>1, <2>2, <2>3 DEF Agrees
<1>17. sender' \in [Csid -> SenderState] /\ cs' \in [Csid -> ChunkStreamState]
       /\ sender'[k] = sent /\ cs'[k] = got
       /\ \A j \in Csid \ {k} : sender'[j] = sender[j] /\ cs'[j] = cs[j]
  <2>1. sender' = [sender EXCEPT ![k] = sent] /\ cs' = [cs EXCEPT ![k] = got]
    BY <1>8, <1>9 DEF sent, got
  <2>2. sender \in [Csid -> SenderState] /\ cs \in [Csid -> ChunkStreamState] BY DEF ChunksGood
  <2>3. QED BY <1>14, <1>15, <2>1, <2>2
<1>18. ASSUME NEW j \in Csid PROVE Agrees(sender'[j], cs'[j])
  <2>1. CASE j = k BY <1>16, <1>17, <2>1
  <2>2. CASE j # k BY <1>17, <2>2 DEF ChunksGood
  <2>3. QED BY <2>1, <2>2
<1>19. (\A j \in Csid : Agrees(sender[j], cs[j]))' BY <1>18 DEF Agrees, Held, ReadDelta, Bytes
<1>20. QED BY <1>8, <1>11, <1>12, <1>17, <1>19 DEF ChunksGood

(* What a header without fields adds to both timestamps, and what the handler
   misses of it. *)
LEMMA Advance ==
  ASSUME NEW ours \in Nat, NEW theirs \in Nat, NEW lack \in Nat, NEW step \in Nat, NEW d \in Nat,
         NEW sum \in Nat, NEW more \in Nat,
         ours + lack = theirs, sum + d = theirs + step + d, more + d = lack + step
  PROVE  (ours + d) + more = sum
  OBVIOUS

(* A header that leaves out what repeats puts the stream right all the same. *)
LEMMA StartAsSent ==
  ASSUME ChunksGood, NEW k \in Csid, NEW fmt \in 0 .. 3, NEW type \in {"media", "size"},
         NEW length \in Lengths, NEW stamp \in Steps, StartMessage(k, fmt, type, length, stamp)
  PROVE  mixed' \in BOOLEAN /\ (~mixed' => ChunksGood')
<1> USE ChunksAssumption
<1> DEFINE last == sender[k]
           c == cs[k]
           h == [type |-> type, length |-> length, stamp |-> stamp]
           m == [id |-> count + 1, type |-> type, length |-> length,
                 timestamp |-> IF fmt = 0 THEN stamp ELSE last.timestamp + stamp,
                 delta |-> stamp,
                 full |-> fmt = 0 \/ (fmt = 3 /\ last.full),
                 extended |-> IF fmt = 3 THEN last.extended ELSE stamp >= Extended,
                 left |-> length, missed |-> Missed(last, fmt, stamp), rest |-> 0]
           n == AtMost(length, chunkSize)
           r == HeaderRead(c, fmt, h)
           long == stamp >= Extended
<1>1. last \in SenderState /\ c \in ChunkStreamState /\ Agrees(last, c) /\ count \in Nat
  BY DEF ChunksGood
<1>2. /\ last.left = 0 /\ Repeats(last, fmt, type, length, stamp) /\ count' = count + 1
      /\ Sends(k, m, n) /\ ReadChunk(k, fmt, h, m.id, n, m.extended)
      /\ mixed' = (last.rest > 0)
  BY DEF StartMessage
<1>3. length \in Nat /\ stamp \in Nat /\ Extended \in Nat /\ h.stamp = stamp /\ h.type = type
      /\ h.length = length /\ type \in MessageType
  BY DEF MessageType
<1>4. /\ m.id = count + 1 /\ m.type = type /\ m.length = length /\ m.left = length
      /\ m.timestamp = IF fmt = 0 THEN stamp ELSE last.timestamp + stamp
      /\ m.delta = stamp /\ m.full = (fmt = 0 \/ (fmt = 3 /\ last.full)) /\ m.rest = 0
      /\ m.missed = Missed(last, fmt, stamp)
      /\ m.extended = IF fmt = 3 THEN last.extended ELSE stamp >= Extended
  OBVIOUS
<1>5. m \in SenderState
  <2>1. last.timestamp \in Nat /\ last.missed \in Nat /\ last.extended \in BOOLEAN
        /\ last.full \in BOOLEAN
    BY <1>1 DEF SenderState
  <2>2. count + 1 \in Nat /\ (IF fmt = 0 THEN stamp ELSE last.timestamp + stamp) \in Nat
        /\ Missed(last, fmt, stamp) \in Nat
    BY <1>1, <1>3, <2>1 DEF Missed
  <2>5. (fmt = 0 \/ (fmt = 3 /\ last.full)) \in BOOLEAN OBVIOUS
  <2>3. (IF fmt = 3 THEN last.extended ELSE stamp >= Extended) \in BOOLEAN
    <3>1. (stamp >= Extended) \in BOOLEAN BY <1>3
    <3>2. QED BY <2>1, <3>1
  <2>4. QED BY <1>3, <2>2, <2>3, <2>5 DEF SenderState
<1>0. last.rest \in Nat BY <1>1 DEF SenderState
<1>14. CASE last.rest > 0 BY <1>2, <1>14
<1>15. SUFFICES ASSUME ~(last.rest > 0) PROVE ChunksGood'
  BY <1>2, <1>14
<1>6. c.buffer = <<>>
  <2>1. Held(last) = 0 BY <1>0, <1>2, <1>15 DEF Held
  <2>2. QED BY <1>1, <2>1, NoBytes DEF Agrees
<1>7. /\ c.timestamp + last.missed = last.timestamp
      /\ fmt # 0 => /\ last.id # 0 /\ c.timestamp_delta = ReadDelta(last)
                    /\ c.length = last.length /\ c.type_id = last.type /\ c.extended = last.extended
      /\ fmt \in {2, 3} => type = last.type /\ length = last.length
      /\ fmt = 3 => stamp = last.delta
  BY <1>1, <1>2 DEF Repeats, Agrees
<1>8. /\ c.timestamp \in Nat /\ c.timestamp_delta \in Nat /\ last.timestamp \in Nat
      /\ last.missed \in Nat /\ last.delta \in Nat /\ last.full \in BOOLEAN
      /\ c.extended \in BOOLEAN /\ c.type_id \in MessageType /\ c.length \in Nat /\ c.buffer \in Seq(Nat)
  BY <1>1 DEF ChunkStreamState, SenderState
<1>17. /\ fmt = 0 => m.timestamp = stamp /\ m.missed = 0 /\ ReadDelta(m) = 0
       /\ fmt \in {1, 2} => /\ m.timestamp = last.timestamp + stamp /\ m.missed = last.missed
                            /\ ReadDelta(m) = stamp
       /\ fmt = 3 => /\ m.timestamp + ReadDelta(last) = last.timestamp + stamp + ReadDelta(m)
                     /\ m.missed + ReadDelta(last) = last.missed + stamp
                     /\ ReadDelta(m) = ReadDelta(last)
  <2> DEFINE full == fmt = 0 \/ (fmt = 3 /\ last.full)
  <2>4. m.full = full OBVIOUS
  <2>5. fmt = 0 => full = TRUE OBVIOUS
  <2>6. fmt \in {1, 2} => full = FALSE OBVIOUS
  <2>7. fmt = 3 => full = last.full BY <1>8
  <2> HIDE DEF m, last, full
  <2>1. CASE fmt = 0
    <3>1. m.full = TRUE BY <2>1, <2>4, <2>5
    <3>2. m.missed = 0 /\ m.timestamp = stamp BY <1>4, <2>1 DEF Missed
    <3>3. QED BY <2>1, <3>1, <3>2 DEF ReadDelta
  <2>2. CASE fmt \in {1, 2}
    <3>1. m.full = FALSE BY <2>2, <2>4, <2>6
    <3>2. m.missed = last.missed /\ m.timestamp = last.timestamp + stamp /\ m.delta = stamp
      BY <1>4, <2>2 DEF Missed
    <3>3. QED BY <2>2, <3>1, <3>2 DEF ReadDelta
  <2>3. CASE fmt = 3
    <3>1. /\ stamp = last.delta /\ m.delta = stamp /\ m.full = last.full
          /\ m.timestamp = last.timestamp + stamp
      BY <1>4, <1>7, <2>3, <2>4, <2>7
    <3>2. CASE last.full = TRUE
      <4>1. m.missed = last.missed + stamp BY <1>4, <2>3, <3>2 DEF Missed
      <4>2. QED BY <1>3, <1>8, <2>3, <3>1, <3>2, <4>1 DEF ReadDelta
    <3>3. CASE last.full = FALSE
      <4>1. m.missed = last.missed BY <1>4, <2>3, <3>3 DEF Missed
      <4>2. QED BY <1>3, <1>8, <2>3, <3>1, <3>3, <4>1 DEF ReadDelta
    <3>4. QED BY <1>8, <3>2, <3>3
  <2>8. QED BY <2>1, <2>2, <2>3
<1> HIDE DEF last, c, h, m
<1>18. m.missed \in Nat /\ m.timestamp \in Nat /\ ReadDelta(last) \in Nat
  BY <1>5, <1>8 DEF SenderState, ReadDelta
<1>9. long \in BOOLEAN /\ long = (h.stamp >= Extended) /\ (fmt # 3 => m.extended = long)
  BY <1>3, <1>4
<1> HIDE DEF long, r
<1>10. /\ r \in ChunkStreamState /\ r.buffer = c.buffer /\ r.length = m.length /\ r.type_id = m.type
      /\ r.timestamp + m.missed = m.timestamp /\ r.timestamp_delta = ReadDelta(m)
      /\ r.extended = m.extended
  <2>1. CASE fmt = 0
    <3>1. r = [c EXCEPT !.timestamp = h.stamp, !.timestamp_delta = 0, !.length = h.length,
                        !.type_id = h.type, !.extended = long]
      BY <1>9, <2>1 DEF HeaderRead, r
    <3>2. r \in ChunkStreamState BY <1>1, <1>3, <1>8, <1>9, <3>1 DEF ChunkStreamState
    <3>3. /\ r.timestamp = h.stamp /\ r.timestamp_delta = 0 /\ r.length = h.length
          /\ r.type_id = h.type /\ r.extended = long /\ r.buffer = c.buffer
      BY <1>1, <3>1 DEF ChunkStreamState
    <3>4. r.timestamp + m.missed = m.timestamp BY <1>3, <1>7, <1>8, <1>17, <1>18, <2>1, <3>3
    <3>5. r.timestamp_delta = ReadDelta(m) BY <1>3, <1>17, <2>1, <3>3
    <3>6. QED BY <1>3, <1>4, <1>7, <1>9, <2>1, <3>2, <3>3, <3>4, <3>5
  <2>2. CASE fmt = 1
    <3>1. r = [c EXCEPT !.timestamp = c.timestamp + h.stamp, !.timestamp_delta = h.stamp,
                        !.length = h.length, !.type_id = h.type, !.extended = long]
      BY <1>9, <2>2 DEF HeaderRead, r
    <3>2. r \in ChunkStreamState
      <4>1. c.timestamp + h.stamp \in Nat BY <1>3, <1>8
      <4>2. QED BY <1>1, <1>3, <1>8, <1>9, <3>1, <4>1 DEF ChunkStreamState
    <3>3. /\ r.timestamp = c.timestamp + h.stamp /\ r.timestamp_delta = h.stamp /\ r.length = h.length
          /\ r.type_id = h.type /\ r.extended = long /\ r.buffer = c.buffer
      BY <1>1, <3>1 DEF ChunkStreamState
    <3>4. r.timestamp + m.missed = m.timestamp BY <1>3, <1>7, <1>8, <1>17, <1>18, <2>2, <3>3
    <3>5. r.timestamp_delta = ReadDelta(m) BY <1>3, <1>17, <2>2, <3>3
    <3>6. QED BY <1>3, <1>4, <1>7, <1>9, <2>2, <3>2, <3>3, <3>4, <3>5
  <2>3. CASE fmt = 2
    <3>1. r = [c EXCEPT !.timestamp = c.timestamp + h.stamp, !.timestamp_delta = h.stamp,
                        !.extended = long]
      BY <1>9, <2>3 DEF HeaderRead, r
    <3>2. r \in ChunkStreamState
      <4>1. c.timestamp + h.stamp \in Nat BY <1>3, <1>8
      <4>2. QED BY <1>1, <1>3, <1>8, <1>9, <3>1, <4>1 DEF ChunkStreamState
    <3>3. /\ r.timestamp = c.timestamp + h.stamp /\ r.timestamp_delta = h.stamp /\ r.length = c.length
          /\ r.type_id = c.type_id /\ r.extended = long /\ r.buffer = c.buffer
      BY <1>1, <3>1 DEF ChunkStreamState
    <3>4. r.timestamp + m.missed = m.timestamp BY <1>3, <1>7, <1>8, <1>17, <1>18, <2>3, <3>3
    <3>5. r.timestamp_delta = ReadDelta(m) BY <1>3, <1>17, <2>3, <3>3
    <3>6. QED BY <1>3, <1>4, <1>7, <1>9, <2>3, <3>2, <3>3, <3>4, <3>5
  <2>4. CASE fmt = 3
    <3>1. r = [c EXCEPT !.timestamp = c.timestamp + c.timestamp_delta]
      BY <1>6, <2>4 DEF HeaderRead, r
    <3>2. c.timestamp + c.timestamp_delta \in Nat BY <1>8
    <3>3. /\ r \in ChunkStreamState /\ r.timestamp = c.timestamp + c.timestamp_delta
          /\ r.timestamp_delta = c.timestamp_delta /\ r.length = c.length
          /\ r.type_id = c.type_id /\ r.extended = c.extended /\ r.buffer = c.buffer
      BY <1>1, <1>8, <3>1, <3>2 DEF ChunkStreamState
    <3> DEFINE d == ReadDelta(last)
    <3>7. r.timestamp = c.timestamp + d BY <1>7, <2>4, <3>3
    <3>8. ReadDelta(m) = d /\ m.timestamp + d = last.timestamp + stamp + d
          /\ m.missed + d = last.missed + stamp
      BY <1>17, <2>4
    <3>9. d \in Nat BY <1>18
    <3> HIDE DEF d
    <3>10. (c.timestamp + d) + m.missed = m.timestamp
      <4>1. /\ c.timestamp \in Nat /\ last.timestamp \in Nat /\ last.missed \in Nat
            /\ stamp \in Nat /\ m.missed \in Nat /\ m.timestamp \in Nat
        BY <1>3, <1>8, <1>18
      <4>2. c.timestamp + last.missed = last.timestamp BY <1>7
      <4>3. m.timestamp + d = last.timestamp + stamp + d /\ m.missed + d = last.missed + stamp
        BY <3>8
      <4>4. QED BY ONLY <3>9, <4>1, <4>2, <4>3, Advance
    <3>4. r.timestamp + m.missed = m.timestamp BY <3>7, <3>10
    <3>5. r.timestamp_delta = ReadDelta(m) BY <1>7, <1>17, <2>4, <3>3
    <3>6. QED BY <1>3, <1>4, <1>7, <2>4, <3>3, <3>4, <3>5
  <2>5. QED BY <2>1, <2>2, <2>3, <2>4
<1>11. r.buffer = Bytes(m.length - m.left, m.id)
  <2>1. m.length - m.left = 0 BY <1>3, <1>4
  <2>2. QED BY <1>6, <1>10, <2>1, NoBytes
<1>12. m.id # 0 /\ m.left <= m.length /\ count' \in Nat /\ n = AtMost(m.left, chunkSize)
  BY <1>1, <1>2, <1>3, <1>4
<1> HIDE DEF n
<1>13. ChunksGood' BY <1>2, <1>4, <1>5, <1>10, <1>11, <1>12, ChunkAsSent DEF r, c
<1>16. QED BY <1>13

(* A message goes on: its chunk has no header and its buffer is not empty. *)
LEMMA ContinueAsSent ==
  ASSUME ChunksGood, NEW k \in Csid, ContinueMessage(k)
  PROVE  ~mixed' /\ ChunksGood'
<1> DEFINE m == sender[k]
           c == cs[k]
           h == [type |-> m.type, length |-> m.length, stamp |-> 0]
           n == AtMost(m.left, chunkSize)
           r == HeaderRead(c, 3, h)
<1>1. m \in SenderState /\ c \in ChunkStreamState /\ Agrees(m, c) /\ count \in Nat
  BY DEF ChunksGood
<1>2. /\ m.left > 0 /\ Sends(k, m, n) /\ ReadChunk(k, 3, h, m.id, n, m.extended) /\ count' = count
      /\ ~mixed'
  BY DEF ContinueMessage
<1>3. m.left \in Nat /\ m.length \in Nat /\ m.id \in Nat BY <1>1 DEF SenderState
<1>4. /\ m.id # 0 /\ m.left < m.length /\ m.rest = 0 /\ c.buffer = Bytes(m.length - m.left, m.id)
      /\ c.length = m.length /\ c.type_id = m.type /\ c.timestamp + m.missed = m.timestamp
      /\ c.timestamp_delta = ReadDelta(m) /\ c.extended = m.extended
  BY <1>1, <1>2, <1>3 DEF Agrees, Held
<1>5. c.buffer # <<>>
  <2>1. m.length - m.left \in Nat /\ m.length - m.left # 0 BY <1>3, <1>4
  <2> DEFINE read == m.length - m.left
  <2>2. Len(c.buffer) # 0
    <3>1. read \in Nat /\ m.id \in Nat BY <1>3, <2>1
    <3>2. Len(Bytes(read, m.id)) = read BY ONLY <3>1, BytesFacts
    <3>3. QED BY <1>4, <2>1, <3>2
  <2>3. QED BY <2>2, EmptySeq
<1> HIDE DEF h, n, m, c
<1>6. r = [c EXCEPT !.timestamp = c.timestamp] BY <1>5 DEF HeaderRead
<1>7. r = c BY <1>1, <1>6 DEF ChunkStreamState
<1> HIDE DEF r
<1>8. m.left <= m.length /\ count' \in Nat /\ n = AtMost(m.left, chunkSize) BY <1>1, <1>2, <1>3, <1>4 DEF n
<1>9. ChunksGood' BY <1>1, <1>2, <1>4, <1>7, <1>8, ChunkAsSent DEF r, c
<1>10. QED BY <1>2, <1>9

(* A message given up leaves what the handler read of it in its buffer. *)
LEMMA AbortAsSent ==
  ASSUME ChunksGood, NEW k \in Csid, Abort(k)
  PROVE  ~mixed' /\ ChunksGood'
<1> DEFINE m == sender[k]
           behind == m.length - m.left
           sent == [m EXCEPT !.left = 0, !.rest = behind]
<1>1. m \in SenderState /\ Agrees(m, cs[k]) BY DEF ChunksGood
<1>2. /\ ~mixed' /\ m.left > 0 /\ sender' = [sender EXCEPT ![k] = sent]
      /\ UNCHANGED <<cs, chunkSize, count, delivered, assembled, aligned>>
  BY <1>1 DEF Abort, ChunksGood, SenderState
<1>3. m.left \in Nat /\ m.length \in Nat /\ behind \in Nat
  BY <1>1, <1>2 DEF SenderState, Agrees
<1> HIDE DEF behind
<1>4. /\ sent \in SenderState /\ sent.left = 0 /\ sent.rest = behind /\ sent.id = m.id
      /\ sent.length = m.length /\ sent.type = m.type /\ sent.timestamp = m.timestamp
      /\ sent.delta = m.delta /\ sent.full = m.full /\ sent.extended = m.extended
      /\ sent.missed = m.missed
  BY <1>1, <1>3 DEF SenderState
<1>5. Agrees(sent, cs[k])
  <2>1. Held(m) = behind BY <1>2 DEF Held, behind
  <2>2. Held(sent) = behind BY <1>4 DEF Held
  <2> HIDE DEF sent, m
  <2>3. QED BY <1>1, <1>4, <2>1, <2>2 DEF Agrees, ReadDelta
<1> HIDE DEF sent
<1>6. /\ sender' \in [Csid -> SenderState] /\ sender'[k] = sent
      /\ \A j \in Csid \ {k} : sender'[j] = sender[j]
  BY <1>2, <1>4 DEF ChunksGood
<1>7. ASSUME NEW j \in Csid PROVE Agrees(sender'[j], cs'[j])
  <2>1. CASE j = k BY <1>2, <1>5, <1>6, <2>1
  <2>2. CASE j # k BY <1>2, <1>6, <2>2 DEF ChunksGood
  <2>3. QED BY <2>1, <2>2
<1>8. (\A j \in Csid : Agrees(sender[j], cs[j]))'
  BY <1>7 DEF Agrees, Held, ReadDelta, Bytes
<1>9. QED BY <1>2, <1>6, <1>8 DEF ChunksGood

LEMMA ChunksStep ==
  ASSUME ChunksInv, [ChunksNext]_chunkVars
  PROVE  ChunksInv'
<1>1. CASE UNCHANGED chunkVars
  BY <1>1 DEF chunkVars, ChunksInv, ChunksGood, Agrees, Held, ReadDelta, Bytes
<1>2. CASE ChunksNext
  <2>1. ~mixed /\ ChunksGood
    <3>1. ASSUME NEW k \in Csid, NEW fmt, NEW type, NEW length, NEW stamp,
                 StartMessage(k, fmt, type, length, stamp)
          PROVE  ~mixed
      BY <3>1 DEF StartMessage
    <3>2. ASSUME NEW k \in Csid, ContinueMessage(k) \/ Abort(k) PROVE ~mixed
      BY <3>2 DEF ContinueMessage, Abort
    <3>3. QED BY <1>2, <3>1, <3>2 DEF ChunksNext, ChunksInv
  <2>2. mixed' \in BOOLEAN /\ (~mixed' => ChunksGood')
    <3>1. ASSUME NEW k \in Csid, NEW fmt \in 0 .. 3, NEW type \in {"media", "size"},
                 NEW length \in Lengths, NEW stamp \in Steps,
                 StartMessage(k, fmt, type, length, stamp)
          PROVE  mixed' \in BOOLEAN /\ (~mixed' => ChunksGood')
      BY <2>1, <3>1, StartAsSent
    <3>2. ASSUME NEW k \in Csid, ContinueMessage(k) \/ Abort(k)
          PROVE  mixed' = FALSE /\ ChunksGood'
      <4>1. ~mixed' /\ ChunksGood' BY <2>1, <3>2, ContinueAsSent, AbortAsSent
      <4>2. mixed' = mixed BY <3>2 DEF ContinueMessage, Abort
      <4>3. QED BY <2>1, <4>1, <4>2 DEF ChunksInv
    <3>3. QED BY <1>2, <3>1, <3>2 DEF ChunksNext
  <2>3. QED BY <2>2 DEF ChunksInv
<1>3. QED BY <1>1, <1>2

(* AssembledAsSent: _read_chunk returns the messages the publisher sent, for any
   number of chunk streams, any lengths and timestamps, whatever the sizes of
   the chunks and the headers left out, until a message begins behind the rest
   of one that was given up; its timestamps lack exactly what the headers left
   out after full ones stand for (rtmp/server.py:109-161, 182). *)
THEOREM AlwaysAssembledAsSent == ChunksSpec => []AssembledAsSent
<1>1. ChunksInit => ChunksInv BY ChunksStart
<1>2. ChunksInv /\ [ChunksNext]_chunkVars => ChunksInv' BY ChunksStep
<1>3. ChunksInv => AssembledAsSent
  <2> SUFFICES ASSUME ChunksGood PROVE AssembledAsSent
    BY DEF ChunksInv, AssembledAsSent
  <2>1. ASSUME NEW k \in Csid
        PROVE  LET m == sender[k] IN
               /\ cs[k].buffer = Bytes(IF m.left > 0 THEN m.length - m.left ELSE m.rest, m.id)
               /\ cs[k].timestamp + m.missed = m.timestamp
    BY DEF ChunksGood, Agrees, Held
  <2>2. QED BY <2>1 DEF AssembledAsSent, ChunksGood
<1>4. QED BY <1>1, <1>2, <1>3, PTL DEF ChunksSpec

-----------------------------------------------------------------------------
(* MediaSession                                                            *)

(* What is queued of the stream lies behind what was fed and in order, and its
   end is the last. *)
ChunksOrdered ==
  \A i \in 1 .. Len(chunks) :
    /\ IF chunks[i] = Eof THEN finished # "no" /\ i = Len(chunks)
       ELSE fed <= chunks[i] /\ chunks[i] <= arrived
    /\ \A j \in 1 .. i - 1 : chunks[i] = Eof \/ chunks[j] <= chunks[i]

(* What the session task has given to the peer connection, and where it stands
   with the connection. *)
TaskInv ==
  /\ \A i \in 1 .. Len(given) : given[i] = opening + i
  /\ task \in {"waiting", "starting"} => given = <<>>
  /\ task = "waiting" => opening = 0
  /\ task \in {"starting", "feeding"} => opening # 0
  /\ fed = 2 * parsed + buffer
  /\ task = "feeding" => Len(given) = parsed - opening
  /\ opening = 0 <=> conn = "none"
  /\ conn = "preparing" <=> task = "starting"
  /\ listening <=> conn \in {"running", "closed"}

(* Until the connection listens, a quiet client has sent nothing that creates a
   track; from then on every event is heard. *)
HeardInv ==
  /\ opening = 0 => ~early
  /\ ~early => IF listening THEN made = heard
               ELSE made = {} /\ (opening # 0 => arrived < 2 * opening + 2)

MediaInv == MediaTypeOK /\ ChunksOrdered /\ TaskInv /\ HeardInv

(* A nonempty set of numbers has a least one. *)
LEMMA LeastNumber ==
  ASSUME NEW T, T \subseteq Nat, T # {}
  PROVE  \E x \in T : \A y \in T : x <= y
<1> DEFINE R == {ss \in Nat \X Nat : ss[1] < ss[2]}
<1>1. IsWellFoundedOn(R, Nat) BY NatLessThanWellFounded DEF OpToRel
<1> HIDE DEF R
<1>2. PICK x \in T : \A y \in T : ~(<<y, x>> \in R) BY <1>1, WFMin
<1>3. \A y \in T : <<y, x>> \in Nat \X Nat OBVIOUS
<1>4. \A y \in T : ~(y < x) BY <1>2, <1>3 DEF R
<1>5. QED BY <1>4

(* The frames of an interval in the order of the stream. *)
LEMMA IntervalInOrder ==
  ASSUME NEW a \in Nat, NEW b \in Nat, a <= b
  PROVE  InOrder(a + 1 .. b) = [n \in 1 .. b - a |-> a + n]
<1> DEFINE F == a + 1 .. b
<1>1. Cardinality(F) = b - a
  <2>1. a + 1 \in Int /\ b \in Int OBVIOUS
  <2>2. Cardinality(F) = IF a + 1 > b THEN 0 ELSE b - (a + 1) + 1 BY <2>1, FS_Interval
  <2>3. QED BY <2>2
<1>2. ASSUME NEW i \in F PROVE Cardinality({j \in F : j <= i}) = i - a
  <2>1. {j \in F : j <= i} = a + 1 .. i OBVIOUS
  <2>2. Cardinality(a + 1 .. i) = IF a + 1 > i THEN 0 ELSE i - (a + 1) + 1 BY FS_Interval
  <2>3. Cardinality(a + 1 .. i) = i - a BY <2>2
  <2>4. QED BY <2>1, <2>3
<1>3. ASSUME NEW n \in 1 .. b - a
      PROVE  (CHOOSE i \in F : Cardinality({j \in F : j <= i}) = n) = a + n
  <2> DEFINE P(i) == Cardinality({j \in F : j <= i}) = n
  <2>1. a + n \in F OBVIOUS
  <2>2. \A i \in F : P(i) <=> i - a = n BY <1>2
  <2>3. \A i \in F : i - a = n <=> i = a + n OBVIOUS
  <2>4. a + n \in F /\ P(a + n) /\ \A i \in F : P(i) => i = a + n BY <2>1, <2>2, <2>3
  <2> HIDE DEF F, P
  <2>5. (CHOOSE i \in F : P(i)) = a + n BY <2>4
  <2>6. QED BY <2>5 DEF P
<1> HIDE DEF F
<1>4. InOrder(F) = [n \in 1 .. b - a |-> CHOOSE i \in F : Cardinality({j \in F : j <= i}) = n]
  BY <1>1 DEF InOrder
<1>5. InOrder(F) = [n \in 1 .. b - a |-> a + n] BY <1>3, <1>4
<1>6. QED BY <1>5 DEF F

(* Frames a + 1 to b are handled up to one that raises; those not heard were
   made before, or nobody listens. *)
LEMMA HandleFacts ==
  ASSUME NEW a \in Nat, NEW b \in Nat, a <= b, Handle(a + 1 .. b),
         made \subseteq Sources, heard \subseteq made
  PROVE  /\ \E u \in a .. b : /\ given' = given \o [n \in 1 .. u - a |-> a + n]
                              /\ task' = "feeding" => u = b
         /\ task' \in {"feeding", "dead"}
         /\ made' \subseteq Sources /\ heard' \subseteq made'
         /\ a = b => made' = made /\ heard' = heard
         /\ listening /\ made = heard => made' = heard'
<1> DEFINE F == a + 1 .. b
           bad == {i \in F : Raises(i)}
           tried == {i \in F : \A x \in bad : i <= x}
           new == {SourceOf(stream[i]) : i \in tried}
<1>1. /\ given' = given \o InOrder(tried \ bad)
      /\ made' = made \union new
      /\ heard' = IF listening THEN heard \union (new \ made) ELSE heard
      /\ task' = IF bad = {} THEN "feeding" ELSE "dead"
  BY DEF Handle
<1>2. \A i : SourceOf(stream[i]) \in Sources BY DEF SourceOf, Sources
<1>3. new \subseteq Sources BY <1>2
<1>4. \E u \in a .. b : tried \ bad = a + 1 .. u /\ (bad = {} => u = b)
  <2>1. CASE bad = {}
    <3>1. tried \ bad = a + 1 .. b BY <2>1
    <3>2. QED BY <2>1, <3>1
  <2>2. CASE bad # {}
    <3>1. bad \subseteq Nat OBVIOUS
    <3>2. PICK x \in bad : \A y \in bad : x <= y BY <2>2, <3>1, LeastNumber
    <3>3. x \in F BY <3>2
    <3>4. tried = {i \in F : i <= x} BY <3>1, <3>2
    <3>5. \A i \in F : i <= x - 1 => i \notin bad BY <3>2, <3>3
    <3>6. ASSUME NEW i PROVE i \in tried \ bad <=> i \in a + 1 .. x - 1
      <4>1. i \in tried \ bad => i \in F /\ i <= x /\ i # x BY <3>2, <3>4
      <4>2. i \in a + 1 .. x - 1 => i \in F /\ i <= x /\ i <= x - 1 BY <3>3
      <4>3. i \in a + 1 .. x - 1 => i \in tried \ bad BY <3>4, <3>5, <4>2
      <4>4. QED BY <3>3, <4>1, <4>3
    <3>7. tried \ bad = a + 1 .. x - 1 BY <3>6
    <3>8. x - 1 \in a .. b BY <3>3
    <3>9. QED BY <2>2, <3>7, <3>8
  <2>3. QED BY <2>1, <2>2
<1>5. PICK u \in a .. b : tried \ bad = a + 1 .. u /\ (bad = {} => u = b) BY <1>4
<1>6. InOrder(tried \ bad) = [n \in 1 .. u - a |-> a + n]
  <2>1. u \in Nat /\ a <= u OBVIOUS
  <2>2. QED BY <1>5, <2>1, IntervalInOrder
<1>7. a = b => new = {} OBVIOUS
<1> HIDE DEF F, bad, tried, new
<1>8. given' = given \o [n \in 1 .. u - a |-> a + n] /\ (task' = "feeding" => u = b)
  BY <1>1, <1>5, <1>6
<1>9. task' \in {"feeding", "dead"} BY <1>1
<1>10. made' \subseteq Sources /\ heard' \subseteq made' BY <1>1, <1>3
<1>11. a = b => made' = made /\ heard' = heard BY <1>1, <1>7
<1>12. listening /\ made = heard => made' = heard' BY <1>1
<1>13. QED BY <1>8, <1>9, <1>10, <1>11, <1>12

LEMMA MediaStarts == MediaInit => MediaInv
<1> SUFFICES ASSUME MediaInit PROVE MediaInv
  OBVIOUS
<1> USE MediaAssumption DEF MediaInit
<1>1. Len(stream) \in Nat BY LenProperties
<1>2. 1 .. Len(<<>>) = {} /\ (\A S : <<>> \in Seq(S)) BY EmptySeq
<1>3. MediaTypeOK
  <2>1. arrived \in 0 .. 2 * Len(stream) /\ parsed \in 0 .. Len(stream) /\ opening \in 0 .. parsed
        /\ fed \in 0 .. arrived /\ buffer \in 0 .. 1
    BY <1>1
  <2>2. chunks \in Seq(0 .. 2 * Len(stream)) /\ given \in Seq(1 .. Len(stream)) BY <1>2
  <2>3. made \subseteq Sources /\ heard \subseteq made OBVIOUS
  <2>4. QED BY <2>1, <2>2, <2>3 DEF MediaTypeOK
<1>4. ChunksOrdered BY <1>2 DEF ChunksOrdered
<1>5. TaskInv BY <1>2 DEF TaskInv
<1>6. HeardInv BY DEF HeardInv
<1>7. QED BY <1>3, <1>4, <1>5, <1>6 DEF MediaInv

(* What the type invariant says of the numbers. *)
LEMMA MediaNumbers ==
  ASSUME MediaTypeOK
  PROVE  /\ Len(stream) \in Nat /\ arrived \in Nat /\ arrived <= 2 * Len(stream)
         /\ fed \in Nat /\ fed <= arrived
         /\ parsed \in Nat /\ opening \in Nat /\ opening <= parsed /\ parsed <= Len(stream)
         /\ buffer \in 0 .. 1
<1>1. Len(stream) \in Nat BY MediaAssumption, LenProperties DEF MediaTypeOK
<1>2. arrived \in Nat /\ arrived <= 2 * Len(stream) /\ fed \in Nat /\ fed <= arrived
  BY <1>1 DEF MediaTypeOK
<1>3. /\ parsed \in Nat /\ opening \in Nat /\ opening <= parsed /\ parsed <= Len(stream)
      /\ buffer \in 0 .. 1
  BY <1>1 DEF MediaTypeOK
<1>4. QED BY <1>1, <1>2, <1>3

(* The decoder at position f, with p frames parsed and k units in its buffer, is
   fed up to position g of the r units that arrived of a stream of l frames: it
   takes out of its buffer what is whole in it. *)
LEMMA Taken ==
  ASSUME NEW f \in Nat, NEW g \in Nat, NEW p \in Nat, NEW k \in 0 .. 1, f = 2 * p + k, f <= g,
         NEW r \in Nat, NEW l \in Nat, g <= r, r <= 2 * l
  PROVE  LET n == g - f
             q == (k + n) \div 2 IN
         /\ p + q \in Nat /\ p <= p + q /\ p + q <= l
         /\ (k + n) % 2 \in 0 .. 1 /\ g = 2 * (p + q) + ((k + n) % 2)
         /\ Cardinality(p + 1 .. p + q) = q
         /\ \A o \in Nat : o <= p /\ r < 2 * o + 2 => p + q = p
<1> DEFINE n == g - f
           q == (k + n) \div 2
<1>1. n \in Nat /\ g = 2 * p + k + n BY SMT
<1> HIDE DEF n
<1>2. q \in Nat /\ (k + n) % 2 \in 0 .. 1 /\ k + n = 2 * q + ((k + n) % 2)
  BY <1>1
<1> HIDE DEF q
<1>3. g = 2 * (p + q) + ((k + n) % 2) BY <1>1, <1>2
<1>4. p + q \in Nat /\ p <= p + q /\ p + q <= l BY <1>2, <1>3
<1>5. \A o \in Nat : o <= p /\ r < 2 * o + 2 => p + q = p BY <1>2, <1>3
<1>6. Cardinality(p + 1 .. p + q) = q
  <2>1. p + 1 \in Int /\ p + q \in Int BY <1>4
  <2>2. Cardinality(p + 1 .. p + q) = IF p + 1 > p + q THEN 0 ELSE (p + q) - (p + 1) + 1
    BY ONLY <2>1, FS_Interval
  <2>3. QED BY <1>2, <2>2
<1>7. QED BY <1>2, <1>3, <1>4, <1>5, <1>6 DEF n, q

(* A chunk, or the end of the stream, is queued. *)
LEMMA QueuedOrdered ==
  ASSUME MediaTypeOK, ChunksOrdered, finished = "no", NEW x \in 0 .. 2 * Len(stream),
         chunks' = Append(chunks, x), fed' = fed, arrived' \in Nat, arrived <= arrived',
         IF x = Eof THEN finished' # "no" ELSE fed <= x /\ arrived <= x /\ x <= arrived'
  PROVE  chunks' \in Seq(0 .. 2 * Len(stream)) /\ ChunksOrdered'
<1> DEFINE n == Len(chunks)
<1>1. chunks \in Seq(0 .. 2 * Len(stream)) BY DEF MediaTypeOK
<1>2. n \in Nat BY <1>1, LenProperties
<1>3. Len(stream) \in Nat /\ arrived \in Nat /\ fed \in Nat BY MediaNumbers
<1>4. /\ chunks' \in Seq(0 .. 2 * Len(stream)) /\ Len(chunks') = n + 1 /\ chunks'[n + 1] = x
      /\ \A i \in 1 .. n : chunks'[i] = chunks[i]
  BY <1>1, AppendProperties
<1>5. \A i \in 1 .. n : /\ chunks[i] # Eof /\ fed <= chunks[i] /\ chunks[i] <= arrived
                        /\ chunks[i] \in Nat
                        /\ \A j \in 1 .. i - 1 : chunks[j] <= chunks[i]
  <2> SUFFICES ASSUME NEW i \in 1 .. n
               PROVE  /\ chunks[i] # Eof /\ fed <= chunks[i] /\ chunks[i] <= arrived
                      /\ chunks[i] \in Nat
                      /\ \A j \in 1 .. i - 1 : chunks[j] <= chunks[i]
    OBVIOUS
  <2>1. chunks[i] \in 0 .. 2 * Len(stream) BY <1>1, ElementOfSeq
  <2>2. chunks[i] \in Nat BY <1>3, <2>1
  <2>3. QED BY <2>2 DEF ChunksOrdered
<1> HIDE DEF n
<1>6. x \in Nat BY <1>3
<1>7. x # Eof => fed <= x /\ arrived <= x /\ x <= arrived'
  OBVIOUS
<1>8. x = Eof => finished' # "no"
  OBVIOUS
<1>9. ASSUME NEW i \in 1 .. n + 1
      PROVE  /\ IF chunks'[i] = Eof THEN finished' # "no" /\ i = n + 1
                ELSE fed <= chunks'[i] /\ chunks'[i] <= arrived'
             /\ \A j \in 1 .. i - 1 : chunks'[i] = Eof \/ chunks'[j] <= chunks'[i]
  <2>1. CASE i = n + 1
    <3>1. chunks'[i] = x BY <1>4, <2>1
    <3>2. ASSUME NEW j \in 1 .. i - 1, x # Eof PROVE chunks'[j] <= x
      <4>1. j \in 1 .. n BY <1>2, <2>1
      <4>2. chunks'[j] <= arrived /\ chunks'[j] \in Nat BY <1>4, <1>5, <4>1
      <4>3. QED BY ONLY <1>3, <1>6, <1>7, <3>2, <4>2
    <3>3. IF x = Eof THEN finished' # "no" /\ i = n + 1 ELSE fed <= x /\ x <= arrived'
      BY <1>7, <1>8, <2>1
    <3>4. QED BY <3>1, <3>2, <3>3
  <2>2. CASE i # n + 1
    <3>1. i \in 1 .. n /\ \A j \in 1 .. i - 1 : j \in 1 .. n BY <1>2, <2>2
    <3>2. chunks'[i] = chunks[i] /\ \A j \in 1 .. i - 1 : chunks'[j] = chunks[j] BY <1>4, <3>1
    <3>3. chunks[i] # Eof /\ fed <= chunks[i] /\ chunks[i] <= arrived'
      BY <1>3, <1>5, <3>1
    <3>4. \A j \in 1 .. i - 1 : chunks[j] <= chunks[i] BY <1>5, <3>1
    <3>5. QED BY <3>2, <3>3, <3>4
  <2>3. QED BY <2>1, <2>2
<1>10. ChunksOrdered' BY <1>4, <1>9 DEF ChunksOrdered, Eof
<1>11. QED BY <1>4, <1>10

(* The head of the queue is taken. *)
LEMMA TakenOrdered ==
  ASSUME MediaTypeOK, ChunksOrdered, chunks # <<>>, chunks' = Tail(chunks),
         finished' = finished, arrived' = arrived,
         fed' = IF Head(chunks) = Eof THEN fed ELSE Head(chunks)
  PROVE  /\ chunks' \in Seq(0 .. 2 * Len(stream)) /\ ChunksOrdered'
         /\ fed' \in Nat /\ fed <= fed' /\ fed' <= arrived
<1> DEFINE n == Len(chunks)
<1>1. chunks \in Seq(0 .. 2 * Len(stream)) BY DEF MediaTypeOK
<1>2. n \in Nat /\ n >= 1 BY <1>1, EmptySeq
<1>3. Len(stream) \in Nat /\ arrived \in Nat /\ fed \in Nat /\ fed <= arrived BY MediaNumbers
<1>4. /\ chunks' \in Seq(0 .. 2 * Len(stream)) /\ Len(chunks') = n - 1
      /\ \A i \in 1 .. n - 1 : chunks'[i] = chunks[i + 1]
      /\ Head(chunks) = chunks[1]
  BY <1>1, HeadTailProperties
<1>5. \A i \in 1 .. n : chunks[i] \in Nat
  <2>1. \A i \in 1 .. n : chunks[i] \in 0 .. 2 * Len(stream) BY <1>1, ElementOfSeq
  <2>2. QED BY <1>3, <2>1
<1>6. \A i \in 1 .. n :
        /\ IF chunks[i] = Eof THEN finished # "no" /\ i = n
           ELSE fed <= chunks[i] /\ chunks[i] <= arrived
        /\ \A j \in 1 .. i - 1 : chunks[i] = Eof \/ chunks[j] <= chunks[i]
  BY DEF ChunksOrdered
<1> HIDE DEF n
<1>7. 1 \in 1 .. n BY <1>2
<1>8. fed' \in Nat /\ fed <= fed' /\ fed' <= arrived BY <1>3, <1>4, <1>5, <1>6, <1>7
<1>9. ASSUME NEW i \in 1 .. n - 1
      PROVE  /\ IF chunks'[i] = Eof THEN finished' # "no" /\ i = n - 1
                ELSE fed' <= chunks'[i] /\ chunks'[i] <= arrived'
             /\ \A j \in 1 .. i - 1 : chunks'[i] = Eof \/ chunks'[j] <= chunks'[i]
  <2>1. i + 1 \in 1 .. n /\ 1 \in 1 .. (i + 1) - 1 /\ i \in 1 .. n - 1 BY <1>2
  <2>2. \A j \in 1 .. i - 1 : j + 1 \in 1 .. (i + 1) - 1 /\ j \in 1 .. n - 1 BY <1>2
  <2>3. chunks'[i] = chunks[i + 1] /\ \A j \in 1 .. i - 1 : chunks'[j] = chunks[j + 1]
    BY <1>4, <2>1, <2>2
  <2>4. chunks[1] # Eof BY <1>2, <1>6, <1>7, <2>1
  <2>5. fed' = chunks[1] BY <1>4, <2>4
  <2>6. IF chunks[i + 1] = Eof THEN finished # "no" /\ i = n - 1
        ELSE fed' <= chunks[i + 1] /\ chunks[i + 1] <= arrived
    BY <1>2, <1>6, <2>1, <2>5
  <2>7. \A j \in 1 .. i - 1 : chunks[i + 1] = Eof \/ chunks[j + 1] <= chunks[i + 1]
    BY <1>6, <2>1, <2>2
  <2>8. QED BY <2>3, <2>6, <2>7
<1>10. ChunksOrdered' BY <1>4, <1>9 DEF ChunksOrdered, Eof
<1>11. QED BY <1>4, <1>8, <1>10

LEMMA DeliverStep ==
  ASSUME MediaInv, NEW n \in 1 .. ChunkMax, Deliver(n)
  PROVE  MediaInv'
<1> USE DEF MediaInv
<1> DEFINE to == arrived + n
<1>1. /\ finished = "no" /\ to <= 2 * Len(stream) /\ arrived' = to /\ chunks' = Append(chunks, to)
      /\ early' = (early \/ (opening # 0 /\ to >= 2 * opening + 2 /\ ~listening))
      /\ UNCHANGED <<stream, finished, task, holding, fed, parsed, buffer, opening, given, made, heard,
                     conn, listening, pcOpen>>
  BY DEF Deliver, decoderVars, pcVars, connVars
<1>2. n \in Nat /\ n >= 1 BY MediaAssumption
<1>3. /\ Len(stream) \in Nat /\ arrived \in Nat /\ fed \in Nat /\ fed <= arrived /\ opening \in Nat
  BY MediaNumbers
<1>4. to \in 0 .. 2 * Len(stream) /\ to # 0 /\ arrived <= to /\ fed <= to /\ to \in Nat
  BY <1>1, <1>2, <1>3
<1>5. chunks' \in Seq(0 .. 2 * Len(stream)) /\ ChunksOrdered'
  <2>1. IF to = Eof THEN finished' # "no" ELSE fed <= to /\ arrived <= to /\ to <= arrived'
    BY <1>1, <1>4 DEF Eof
  <2>2. fed' = fed /\ arrived' \in Nat /\ arrived <= arrived' BY <1>1, <1>4
  <2> HIDE DEF to
  <2>3. QED BY <1>1, <1>4, <2>1, <2>2, QueuedOrdered
<1> HIDE DEF to
<1>6. MediaTypeOK'
  <2>1. arrived' \in 0 .. 2 * Len(stream) /\ fed \in 0 .. arrived' BY <1>1, <1>3, <1>4
  <2>2. early' \in BOOLEAN BY <1>1 DEF MediaTypeOK
  <2>3. QED BY <1>1, <1>5, <2>1, <2>2 DEF MediaTypeOK
<1>7. TaskInv' BY <1>1 DEF TaskInv
<1>8. HeardInv'
  <2>1. opening = 0 => ~early' BY <1>1 DEF HeardInv
  <2>2. ASSUME ~early' PROVE IF listening THEN made = heard
                             ELSE made = {} /\ (opening # 0 => to < 2 * opening + 2)
    <3>1. ~early /\ ~(opening # 0 /\ to >= 2 * opening + 2 /\ ~listening) BY <1>1, <2>2
    <3>2. to < 2 * opening + 2 \/ to >= 2 * opening + 2 BY <1>3, <1>4
    <3>3. QED BY <3>1, <3>2 DEF HeardInv
  <2>3. QED BY <1>1, <2>1, <2>2 DEF HeardInv
<1>9. QED BY <1>5, <1>6, <1>7, <1>8

LEMMA FinishStep ==
  ASSUME MediaInv, Finish
  PROVE  MediaInv'
<1> USE DEF MediaInv
<1>1. /\ finished = "no" /\ finished' \in {"reported", "silent"}
      /\ chunks' = IF finished' = "reported" THEN Append(chunks, Eof) ELSE chunks
      /\ UNCHANGED <<stream, arrived, task, holding, fed, parsed, buffer, opening, given, made,
                     heard, conn, listening, pcOpen, early>>
  BY DEF Finish, decoderVars, pcVars, connVars
<1>2. Len(stream) \in Nat /\ arrived \in Nat BY MediaNumbers
<1>3. Eof \in 0 .. 2 * Len(stream) BY <1>2 DEF Eof
<1>4. CASE chunks' = Append(chunks, Eof)
  <2>1. chunks' \in Seq(0 .. 2 * Len(stream)) /\ ChunksOrdered'
    <3>1. arrived' \in Nat /\ arrived <= arrived' BY <1>1, <1>2
    <3>2. finished' # "no" BY <1>1
    <3>3. QED BY <1>1, <1>3, <1>4, <3>1, <3>2, QueuedOrdered
  <2>2. MediaTypeOK' BY <1>1, <2>1 DEF MediaTypeOK
  <2>3. TaskInv' /\ HeardInv' BY <1>1 DEF TaskInv, HeardInv
  <2>4. QED BY <2>1, <2>2, <2>3
<1>5. CASE chunks' = chunks
  <2>1. MediaTypeOK' BY <1>1, <1>5 DEF MediaTypeOK
  <2>2. ChunksOrdered' BY <1>1, <1>5 DEF ChunksOrdered
  <2>3. TaskInv' /\ HeardInv' BY <1>1 DEF TaskInv, HeardInv
  <2>4. QED BY <2>1, <2>2, <2>3
<1>6. QED BY <1>1, <1>4, <1>5

(* What is handled continues what was given. *)
LEMMA GivenFacts ==
  ASSUME MediaTypeOK, TaskInv, NEW a \in Nat, NEW b \in Nat, NEW u \in a .. b,
         b <= Len(stream), Len(given) = a - opening,
         given' = given \o [n \in 1 .. u - a |-> a + n]
  PROVE  /\ given' \in Seq(1 .. Len(stream)) /\ Len(given') = u - opening
         /\ \A i \in 1 .. Len(given') : given'[i] = opening + i
<1> DEFINE m == u - a
           f == [n \in 1 .. m |-> a + n]
           s == given
           l == Len(stream)
<1>1. l \in Nat /\ opening \in Nat BY MediaNumbers
<1>2. s \in Seq(1 .. l) /\ Len(s) = a - opening /\ \A i \in 1 .. Len(s) : s[i] = opening + i
  BY DEF MediaTypeOK, TaskInv
<1>3. given' = s \o f /\ b <= l OBVIOUS
<1> HIDE DEF l, s
<1>4. m \in Nat /\ \A n \in 1 .. m : a + n \in 1 .. l BY <1>1, <1>3
<1> HIDE DEF m
<1>5. f \in Seq(1 .. l) /\ Len(f) = m /\ \A n \in 1 .. m : f[n] = a + n BY <1>4
<1> HIDE DEF f
<1>6. /\ s \o f \in Seq(1 .. l) /\ Len(s \o f) = Len(s) + Len(f)
      /\ \A i \in 1 .. Len(s) + Len(f) : (s \o f)[i] = IF i <= Len(s) THEN s[i] ELSE f[i - Len(s)]
  BY <1>2, <1>5, ConcatProperties
<1>7. Len(s) \in Nat BY <1>2, LenProperties
<1>8. Len(s \o f) = u - opening BY <1>1, <1>2, <1>5, <1>6 DEF m
<1>9. ASSUME NEW i \in 1 .. Len(s) + Len(f) PROVE (s \o f)[i] = opening + i
  <2>1. CASE i <= Len(s)
    <3>1. i \in 1 .. Len(s) BY <1>7, <2>1
    <3>2. QED BY <1>2, <1>6, <2>1, <3>1
  <2>2. CASE ~(i <= Len(s))
    <3>1. i - Len(s) \in 1 .. m /\ a + (i - Len(s)) = opening + i
      BY <1>1, <1>2, <1>4, <1>5, <1>7, <2>2
    <3>2. QED BY <1>5, <1>6, <2>2, <3>1
  <2>3. QED BY <2>1, <2>2
<1>10. QED BY <1>3, <1>6, <1>8, <1>9 DEF l

(* The frames behind a, which continue what was given, are handled. *)
LEMMA HandledOn ==
  ASSUME MediaTypeOK, TaskInv, NEW a \in Nat, NEW b \in Nat, a <= b, b <= Len(stream),
         Handle(a + 1 .. b), Len(given) = a - opening
  PROVE  /\ given' \in Seq(1 .. Len(stream))
         /\ \A i \in 1 .. Len(given') : given'[i] = opening + i
         /\ task' \in {"feeding", "dead"} /\ (task' = "feeding" => Len(given') = b - opening)
         /\ made' \subseteq Sources /\ heard' \subseteq made'
         /\ a = b => made' = made /\ heard' = heard
         /\ listening /\ made = heard => made' = heard'
<1>1. made \subseteq Sources /\ heard \subseteq made BY DEF MediaTypeOK
<1>2. PICK u \in a .. b : /\ given' = given \o [n \in 1 .. u - a |-> a + n]
                          /\ task' = "feeding" => u = b
  BY <1>1, HandleFacts
<1>3. /\ given' \in Seq(1 .. Len(stream)) /\ Len(given') = u - opening
      /\ \A i \in 1 .. Len(given') : given'[i] = opening + i
  BY <1>2, GivenFacts
<1>4. /\ task' \in {"feeding", "dead"} /\ made' \subseteq Sources /\ heard' \subseteq made'
      /\ a = b => made' = made /\ heard' = heard
      /\ listening /\ made = heard => made' = heard'
  BY <1>1, HandleFacts
<1>5. QED BY <1>2, <1>3, <1>4

LEMMA SessionReadyStep ==
  ASSUME MediaInv, SessionReady
  PROVE  MediaInv'
<1> USE DEF MediaInv
<1>1. /\ task = "starting" /\ conn' = "spawned" /\ Handle(opening + 1 .. parsed)
      /\ holding' = (chunks' # <<>> /\ task' \in {"waiting", "feeding"})
      /\ UNCHANGED <<stream, arrived, finished, chunks, fed, parsed, buffer, opening, listening, pcOpen, early>>
  BY DEF SessionReady, Holds, clientVars, decoderVars
<1>2. /\ given = <<>> /\ opening # 0 /\ fed = 2 * parsed + buffer /\ conn = "preparing" /\ ~listening
  BY <1>1 DEF TaskInv
<1>3. /\ opening \in Nat /\ parsed \in Nat /\ opening <= parsed /\ parsed <= Len(stream)
      /\ buffer \in 0 .. 1 /\ fed \in Nat /\ arrived \in Nat /\ fed <= arrived
  BY MediaNumbers
<1>4. Len(given) = opening - opening
  <2>1. Len(<<>>) = 0 BY EmptySeq
  <2>2. QED BY <1>2, <1>3, <2>1
<1>5. /\ given' \in Seq(1 .. Len(stream))
      /\ \A i \in 1 .. Len(given') : given'[i] = opening + i
      /\ task' \in {"feeding", "dead"} /\ (task' = "feeding" => Len(given') = parsed - opening)
      /\ made' \subseteq Sources /\ heard' \subseteq made'
      /\ opening = parsed => made' = made /\ heard' = heard
  BY <1>1, <1>3, <1>4, HandledOn
<1>6. MediaTypeOK' BY <1>1, <1>5 DEF MediaTypeOK
<1>7. ChunksOrdered' BY <1>1 DEF ChunksOrdered
<1>8. TaskInv' BY <1>1, <1>2, <1>5 DEF TaskInv
<1>9. HeardInv'
  <2>1. ~early /\ arrived < 2 * opening + 2 => opening = parsed BY <1>2, <1>3
  <2>2. QED BY <1>1, <1>2, <1>5, <2>1 DEF HeardInv
<1>10. QED BY <1>6, <1>7, <1>8, <1>9

LEMMA FeedStep ==
  ASSUME MediaInv, Feed
  PROVE  MediaInv'
<1> USE DEF MediaInv
<1> DEFINE a == parsed
           b == parsed'
           F == a + 1 .. b
           n == fed' - fed
<1>a. /\ chunks # <<>> /\ Head(chunks) # Eof /\ chunks' = Tail(chunks) /\ fed' = Head(chunks)
      /\ UNCHANGED <<stream, arrived, finished>>
  BY DEF Feed, clientVars
<1>2. /\ Len(stream) \in Nat /\ arrived \in Nat /\ arrived <= 2 * Len(stream) /\ fed \in Nat
      /\ opening \in Nat /\ opening <= parsed /\ parsed \in Nat /\ buffer \in 0 .. 1
  BY MediaNumbers
<1>3. /\ chunks' \in Seq(0 .. 2 * Len(stream)) /\ ChunksOrdered'
      /\ fed' \in Nat /\ fed <= fed' /\ fed' <= arrived
  BY <1>a, TakenOrdered
<1>b. fed = 2 * parsed + buffer BY DEF TaskInv
<1>c. /\ parsed' \in Nat /\ parsed <= parsed' /\ parsed' <= Len(stream)
      /\ buffer' \in 0 .. 1 /\ fed' = 2 * parsed' + buffer' /\ Decoded(n) = F
      /\ \A o \in Nat : o <= parsed /\ arrived < 2 * o + 2 => parsed' = parsed
  <2> DEFINE q == (buffer + n) \div 2
  <2>1. parsed' = parsed + Cardinality(Decoded(n)) /\ buffer' = (buffer + n) % 2
    BY DEF Feed, Kept
  <2>2. Decoded(n) = parsed + 1 .. parsed + q BY DEF Decoded
  <2>3. /\ parsed + q \in Nat /\ parsed <= parsed + q /\ parsed + q <= Len(stream)
        /\ (buffer + n) % 2 \in 0 .. 1 /\ fed' = 2 * (parsed + q) + ((buffer + n) % 2)
        /\ Cardinality(parsed + 1 .. parsed + q) = q
        /\ \A o \in Nat : o <= parsed /\ arrived < 2 * o + 2 => parsed + q = parsed
    BY ONLY <1>2, <1>3, <1>b, Taken
  <2> HIDE DEF q, n
  <2>4. parsed' = parsed + q BY <2>1, <2>2, <2>3
  <2>5. QED BY <2>1, <2>2, <2>3, <2>4
<1> HIDE DEF n
<1>1. /\ task \in {"waiting", "feeding"} /\ chunks # <<>> /\ Head(chunks) # Eof
      /\ chunks' = Tail(chunks) /\ fed' = Head(chunks)
      /\ IF Unparsable(F) THEN Dies /\ UNCHANGED early
         ELSE IF task = "waiting" THEN Open(F)
         ELSE Handle(F) /\ Holds /\ UNCHANGED <<opening, connVars, early>>
      /\ UNCHANGED <<stream, arrived, finished>>
  <2> DEFINE whole == Decoded(n)
  <2>1. /\ task \in {"waiting", "feeding"} /\ chunks # <<>> /\ Head(chunks) # Eof
        /\ chunks' = Tail(chunks) /\ fed' = Head(chunks)
        /\ IF Unparsable(whole) THEN Dies /\ UNCHANGED early
           ELSE IF task = "waiting" THEN Open(whole)
           ELSE Handle(whole) /\ Holds /\ UNCHANGED <<opening, connVars, early>>
        /\ UNCHANGED <<stream, arrived, finished>>
    BY DEF Feed, clientVars, n
  <2>2. whole = F BY <1>c
  <2> HIDE DEF whole, F
  <2>3. QED BY <2>1, <2>2
<1>4. a \in Nat /\ b \in Nat /\ a <= b /\ b <= Len(stream)
  BY <1>2, <1>c
<1>5. fed' \in 0 .. arrived /\ parsed' \in 0 .. Len(stream) /\ opening \in 0 .. parsed'
  BY <1>2, <1>3, <1>4
<1> HIDE DEF F
<1>6. CASE /\ task' \in {"waiting", "ended", "dead"} /\ (task' = "waiting" => task = "waiting")
           /\ holding' \in BOOLEAN
           /\ UNCHANGED <<opening, given, made, heard, conn, listening, pcOpen, early>>
  <2>1. MediaTypeOK' BY <1>1, <1>3, <1>5, <1>6, <1>c DEF MediaTypeOK
  <2>2. TaskInv' BY <1>1, <1>6, <1>c DEF TaskInv
  <2>3. HeardInv' BY <1>1, <1>6 DEF HeardInv
  <2>4. QED BY <1>3, <2>1, <2>2, <2>3
<1>7. CASE Unparsable(F)
  <2>1. /\ task' = "dead" /\ holding' = FALSE
        /\ UNCHANGED <<opening, given, made, heard, conn, listening, pcOpen, early>>
    BY <1>1, <1>7 DEF Dies, pcVars, connVars
  <2>2. QED BY <1>6, <2>1
<1>8. CASE ~Unparsable(F) /\ task = "waiting"
  <2> DEFINE controls == {i \in F : stream[i] \in Control}
             first == CHOOSE i \in controls : \A j \in controls : i <= j
  <2>1. Open(F) BY <1>1, <1>8
  <2>2. CASE controls = {}
    <3>1. /\ task' = "waiting" /\ Holds /\ UNCHANGED <<opening, pcVars, connVars, early>>
      BY <2>1, <2>2 DEF Open
    <3>2. QED BY <1>6, <1>8, <3>1 DEF Holds, pcVars, connVars
  <2>3. CASE controls # {} /\ stream[first] = "text"
    <3>1. /\ task' = "ended" /\ holding' = FALSE
          /\ UNCHANGED <<opening, pcVars, connVars, early>>
      BY <2>1, <2>3 DEF Open
    <3>2. QED BY <1>6, <3>1 DEF pcVars, connVars
  <2>4. CASE controls # {} /\ stream[first] # "text"
    <3>1. /\ task' = "starting" /\ holding' \in BOOLEAN /\ opening' = first
          /\ conn' = "preparing" /\ pcOpen' = TRUE /\ early' = (arrived >= 2 * first + 2)
          /\ UNCHANGED <<given, made, heard, listening>>
      BY <2>1, <2>4 DEF Open, pcVars
    <3>2. first \in F
      <4>1. controls \subseteq Nat BY <1>4 DEF F
      <4>2. \E i \in controls : \A j \in controls : i <= j BY <2>4, <4>1, LeastNumber
      <4>3. QED BY <4>2
    <3>3. given = <<>> /\ opening = 0 /\ conn = "none" /\ ~listening /\ ~early /\ made = {}
      BY <1>8 DEF TaskInv, HeardInv
    <3> HIDE DEF controls, first
    <3>4. first \in Nat /\ first # 0 /\ first <= b BY <1>4, <3>2 DEF F
    <3>5. opening' \in 0 .. parsed' BY <1>4, <3>1, <3>4
    <3>6. early' \in BOOLEAN /\ (~early' => arrived < 2 * first + 2)
      <4>1. (arrived >= 2 * first + 2) \in BOOLEAN
            /\ (~(arrived >= 2 * first + 2) => arrived < 2 * first + 2)
        BY ONLY <1>2, <3>4
      <4>2. QED BY <3>1, <4>1
    <3>7. MediaTypeOK' BY <1>1, <1>3, <1>5, <1>c, <3>1, <3>5, <3>6 DEF MediaTypeOK
    <3>8. 1 .. Len(<<>>) = {} OBVIOUS
    <3>9. TaskInv' BY <1>1, <1>c, <3>1, <3>3, <3>4, <3>8 DEF TaskInv
    <3>10. HeardInv' BY <1>1, <3>1, <3>3, <3>4, <3>6 DEF HeardInv
    <3>11. QED BY <1>3, <3>7, <3>9, <3>10
  <2>5. QED BY <2>2, <2>3, <2>4
<1>9. CASE ~Unparsable(F) /\ task = "feeding"
  <2>1. /\ Handle(F) /\ holding' = (chunks' # <<>> /\ task' \in {"waiting", "feeding"})
        /\ UNCHANGED <<opening, conn, listening, pcOpen, early>>
    BY <1>1, <1>9 DEF Holds, connVars
  <2>2. Len(given) = a - opening /\ opening # 0 /\ conn # "none" /\ conn # "preparing"
    BY <1>9 DEF TaskInv
  <2>3. /\ given' \in Seq(1 .. Len(stream))
        /\ \A i \in 1 .. Len(given') : given'[i] = opening + i
        /\ task' \in {"feeding", "dead"} /\ (task' = "feeding" => Len(given') = b - opening)
        /\ made' \subseteq Sources /\ heard' \subseteq made'
        /\ a = b => made' = made /\ heard' = heard
        /\ listening /\ made = heard => made' = heard'
    <3>1. MediaTypeOK /\ TaskInv OBVIOUS
    <3>2. Handle(a + 1 .. b) BY <2>1 DEF F
    <3> HIDE DEF a, b
    <3>3. QED BY ONLY <1>4, <2>2, <3>1, <3>2, HandledOn
  <2>4. MediaTypeOK' BY <1>1, <1>3, <1>5, <1>c, <2>1, <2>3 DEF MediaTypeOK
  <2>5. TaskInv' BY <1>1, <1>9, <1>c, <2>1, <2>2, <2>3 DEF TaskInv
  <2>6. HeardInv'
    <3>1. arrived < 2 * opening + 2 => a = b BY <1>2, <1>c
    <3>2. QED BY <1>1, <2>1, <2>2, <2>3, <3>1 DEF HeardInv
  <2>7. QED BY <1>3, <2>4, <2>5, <2>6
<1>10. QED BY <1>1, <1>7, <1>8, <1>9

LEMMA MediaSteps ==
  ASSUME MediaInv, [MediaNext]_mediaVars
  PROVE  MediaInv'
<1> USE DEF MediaInv
<1>1. CASE End
  <2>1. /\ task \in {"waiting", "feeding"} /\ chunks # <<>> /\ Head(chunks) = Eof
        /\ chunks' = Tail(chunks) /\ task' = "ended" /\ holding' = FALSE /\ pcOpen' = FALSE
        /\ UNCHANGED <<stream, arrived, finished, fed, parsed, buffer, opening, given, made, heard, conn,
                       listening, early>>
    BY <1>1 DEF End, clientVars, decoderVars, pcVars
  <2>2. chunks' \in Seq(0 .. 2 * Len(stream)) /\ ChunksOrdered' BY <2>1, TakenOrdered
  <2>3. MediaTypeOK' BY <2>1, <2>2 DEF MediaTypeOK
  <2>4. TaskInv' /\ HeardInv' BY <2>1 DEF TaskInv, HeardInv
  <2>5. QED BY <2>2, <2>3, <2>4
<1>2. CASE SessionFails
  <2>1. /\ task = "starting" /\ conn' = "failed" /\ task' = "dead" /\ holding' = FALSE
        /\ UNCHANGED <<stream, arrived, finished, chunks, fed, parsed, buffer, opening, given, made, heard,
                       listening, pcOpen, early>>
    BY <1>2 DEF SessionFails, clientVars, decoderVars, pcVars
  <2>2. MediaTypeOK' /\ ChunksOrdered' BY <2>1 DEF MediaTypeOK, ChunksOrdered
  <2>3. TaskInv' /\ HeardInv' BY <2>1 DEF TaskInv, HeardInv
  <2>4. QED BY <2>2, <2>3
<1>3. CASE MediaRuns
  <2>1. /\ conn = "spawned" /\ conn' = "running" /\ listening' = TRUE
        /\ UNCHANGED <<stream, arrived, finished, chunks, task, holding, fed, parsed, buffer, opening,
                       given, made, heard, pcOpen, early>>
    BY <1>3 DEF MediaRuns, clientVars, decoderVars, pcVars
  <2>2. MediaTypeOK' /\ ChunksOrdered' BY <2>1 DEF MediaTypeOK, ChunksOrdered
  <2>3. TaskInv' BY <2>1 DEF TaskInv
  <2>4. ~listening /\ heard \subseteq made BY <2>1 DEF TaskInv, MediaTypeOK
  <2>5. HeardInv' BY <2>1, <2>4 DEF HeardInv
  <2>6. QED BY <2>2, <2>3, <2>5
<1>4. CASE ConnectionCloses
  <2>1. /\ conn = "running" /\ conn' = "closed" /\ pcOpen' = FALSE
        /\ UNCHANGED <<stream, arrived, finished, chunks, task, holding, fed, parsed, buffer, opening,
                       given, made, heard, listening, early>>
    BY <1>4 DEF ConnectionCloses, clientVars, decoderVars, pcVars
  <2>2. MediaTypeOK' /\ ChunksOrdered' BY <2>1 DEF MediaTypeOK, ChunksOrdered
  <2>3. TaskInv' /\ HeardInv' BY <2>1 DEF TaskInv, HeardInv
  <2>4. QED BY <2>2, <2>3
<1>5. CASE UNCHANGED mediaVars
  <2>1. UNCHANGED <<stream, arrived, finished, chunks, task, holding, fed, parsed, buffer, opening, given,
                    made, heard, conn, listening, pcOpen, early>>
    BY <1>5 DEF mediaVars, clientVars, decoderVars, pcVars, connVars
  <2>2. MediaTypeOK' /\ ChunksOrdered' BY <2>1 DEF MediaTypeOK, ChunksOrdered
  <2>3. TaskInv' /\ HeardInv' BY <2>1 DEF TaskInv, HeardInv
  <2>4. QED BY <2>2, <2>3
<1>6. QED BY <1>1, <1>2, <1>3, <1>4, <1>5, DeliverStep, FinishStep, FeedStep, SessionReadyStep
      DEF MediaNext

LEMMA MediaInductive == MediaSpec => []MediaInv
  BY MediaStarts, MediaSteps, PTL DEF MediaSpec

(* FedExactly: the peer connection gets every frame behind the init frame once
   and in order, for any streams and however they are cut into chunks
   (webtransport/server.py:35-59, protocol.py:58-71). *)
THEOREM AlwaysFedExactly == MediaSpec => []FedExactly
<1>1. MediaInv => FedExactly
  <2> SUFFICES ASSUME MediaInv PROVE FedExactly
    OBVIOUS
  <2>1. fed \div 2 = parsed
    <3>1. parsed \in Nat /\ buffer \in 0 .. 1 BY MediaNumbers DEF MediaInv
    <3>2. fed = 2 * parsed + buffer BY DEF MediaInv, TaskInv
    <3>3. QED BY <3>1, <3>2
  <2>2. QED BY <2>1 DEF MediaInv, TaskInv, FedExactly
<1>2. QED BY <1>1, MediaInductive, PTL

(* QuietStartHeard: a client that waits for the connection to run has its tracks
   and its channel accepted (webtransport/session.py:96-137,
   connection.py:795-856). *)
THEOREM AlwaysQuietStartHeard == MediaSpec => []QuietStartHeard
<1>1. MediaInv => QuietStartHeard BY DEF MediaInv, TaskInv, HeardInv, QuietStartHeard
<1>2. QED BY <1>1, MediaInductive, PTL
=============================================================================
