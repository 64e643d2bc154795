--------------------------- MODULE MessageRouting ---------------------------
(***************************************************************************)
(* The data channel messages of the connections of one session             *)
(* (connection.py, session.py): what a client sends goes to the other      *)
(* members and to the models; what a connection reports (transcriptions,   *)
(* detections, scripts) goes to its own channels and to the other members. *)
(***************************************************************************)
EXTENDS SessionMembers, FiniteSets

CONSTANTS
  Counts,        \* how many models that take messages each connection has
  Simli,         \* connections that have a Simli model too, which takes none
  Channel,       \* channel numbers
  MaxChannels,   \* MAX_DATA_CHANNELS
  MaxMessages    \* bound on the messages

\* Every connection has some number of models.
ASSUME MessageAssumption ==
  Counts \subseteq [Conn -> Nat] /\ Simli \subseteq Conn /\ MaxChannels \in Nat

VARIABLES
  readyState,   \* of each connection's channels, "none" before they come, or "refused"
  accepted,     \* data_channels of each connection
  messages,     \* the messages so far: by whom, of what kind, for which members
  relaying,     \* handlers of client messages: the model each awaits next
  tasks,        \* tasks that send the other members' messages to a model
  shown,        \* messages sent on each channel
  modelHeard    \* messages each model was given

messageVars ==
  <<attached, readyState, accepted, messages, relaying, tasks, shown, modelHeard>>

Models(c) == DOMAIN modelHeard[c]
NumModels(c) == Len(modelHeard[c])
HasModels(c) == NumModels(c) > 0 \/ c \in Simli

MessageInit ==
  /\ attached = Conn
  /\ readyState = [c \in Conn |-> [h \in Channel |-> "none"]]
  /\ accepted = [c \in Conn |-> {}]
  /\ messages = <<>>
  /\ relaying = {} /\ tasks = {}
  /\ shown = [c \in Conn |-> [h \in Channel |-> <<>>]]
  /\ \E n \in Counts : modelHeard = [c \in Conn |-> [k \in 1 .. n[c] |-> <<>>]]

\* Message m on the open channels of the members of to.
BroadcastToChannels(m, to) ==
  shown' = [c \in Conn |-> [h \in Channel |->
              IF c \in to /\ h \in accepted[c] /\ readyState[c][h] = "open"
              THEN Append(shown[c][h], m) ELSE shown[c][h]]]

\* Mutant: the members' models get it whether or not the source has models.
HandedOnAlways(m, c) ==
  tasks' = tasks \union UNION {{[conn |-> d, model |-> k, msg |-> m] : k \in Models(d)} :
                               d \in Listeners(c)}

\* The members' models get a message, each in a task, if the source has none.
HandedOn(m, c) ==
  tasks' = tasks \union
    IF HasModels(c) THEN {}
    ELSE UNION {{[conn |-> d, model |-> k, msg |-> m] : k \in Models(d)} : d \in Listeners(c)}

Says(c, kind) ==
  /\ Len(messages) < MaxMessages
  /\ messages' = Append(messages, [from |-> c, kind |-> kind, to |-> Listeners(c)])

-----------------------------------------------------------------------------
(* Channels                                                                *)

\* A channel of the client's, accepted up to MAX_DATA_CHANNELS.  The state of a
\* refused one is never read.
OnDataChannel(c, h) ==
  /\ readyState[c][h] = "none"
  /\ IF Cardinality(accepted[c]) >= MaxChannels
     THEN readyState' = [readyState EXCEPT ![c][h] = "refused"] /\ UNCHANGED accepted
     ELSE /\ \E state \in {"connecting", "open"} :
               readyState' = [readyState EXCEPT ![c][h] = state]
          /\ accepted' = [accepted EXCEPT ![c] = @ \union {h}]
  /\ UNCHANGED <<attached, messages, relaying, tasks, shown, modelHeard>>

ChannelChanges(c, h) ==
  /\ \/ readyState[c][h] = "connecting" /\ readyState' = [readyState EXCEPT ![c][h] = "open"]
     \/ readyState[c][h] = "open" /\ readyState' = [readyState EXCEPT ![c][h] = "closed"]
  /\ UNCHANGED <<attached, accepted, messages, relaying, tasks, shown, modelHeard>>

-----------------------------------------------------------------------------
(* Messages                                                                *)

\* on_message: the message is published, and a handler begins to give it to
\* the models of the connection, one after the other.
OnMessage(c, h) ==
  LET m == Len(messages) + 1 IN
  /\ h \in accepted[c] /\ readyState[c][h] = "open"
  /\ Says(c, "client")
  /\ BroadcastToChannels(m, Listeners(c))
  /\ HandedOn(m, c)
  /\ relaying' = relaying \union
       IF NumModels(c) > 0 THEN {[conn |-> c, msg |-> m, model |-> 1]} ELSE {}
  /\ UNCHANGED <<attached, readyState, accepted, modelHeard>>

\* A transcription, a detection or a script's message: to all channels.
Reports(c) ==
  LET m == Len(messages) + 1 IN
  /\ Says(c, "report")
  /\ BroadcastToChannels(m, Listeners(c) \union {c})
  /\ HandedOn(m, c)
  /\ UNCHANGED <<attached, readyState, accepted, relaying, modelHeard>>

Hears(c, k, m) == modelHeard' = [modelHeard EXCEPT ![c][k] = Append(@, m)]

\* The model a handler awaits has taken the message.
ModelTakes(r) ==
  /\ Hears(r.conn, r.model, r.msg)
  /\ relaying' = (relaying \ {r}) \union
       IF r.model < NumModels(r.conn) THEN {[r EXCEPT !.model = @ + 1]} ELSE {}
  /\ UNCHANGED <<attached, readyState, accepted, messages, tasks, shown>>

\* Its send() raised: the handler ends, the models after it hear nothing.
ModelRefuses(r) ==
  /\ relaying' = relaying \ {r}
  /\ UNCHANGED <<attached, readyState, accepted, messages, tasks, shown, modelHeard>>

TaskSends(t) ==
  /\ Hears(t.conn, t.model, t.msg)
  /\ tasks' = tasks \ {t}
  /\ UNCHANGED <<attached, readyState, accepted, messages, relaying, shown>>

MessageLeave(c) ==
  /\ c \in attached
  /\ attached' = attached \ {c}
  /\ UNCHANGED <<readyState, accepted, messages, relaying, tasks, shown, modelHeard>>

MessageNext ==
  \/ \E c \in Conn :
       \/ \E h \in Channel :
            \/ OnDataChannel(c, h)
            \/ ChannelChanges(c, h)
            \/ OnMessage(c, h)
       \/ Reports(c)
       \/ MessageLeave(c)
  \/ \E r \in relaying : ModelTakes(r) \/ ModelRefuses(r)
  \/ \E t \in tasks : TaskSends(t)

MessageSpec == MessageInit /\ [][MessageNext]_messageVars

-----------------------------------------------------------------------------
Ordered(s) == \A i, j \in DOMAIN s : i < j => s[i] < s[j]
Once(s) == \A i, j \in DOMAIN s : s[i] = s[j] => i = j
Mine(c, m) == messages[m].from = c

\* A channel shows each message at most once and in order, a connection's own
\* reports and what members said while it was one, and never sends a client's
\* message back to him; a model is given a message at most once, and none of
\* a member that has models of its own, if only Simli's (connection.py:546-565,
\* 664-687, 810-818).
HeardOnce ==
  \A c \in Conn :
    /\ Cardinality(accepted[c]) <= MaxChannels
    /\ \A h \in Channel :
         /\ Ordered(shown[c][h])
         /\ h \notin accepted[c] => shown[c][h] = <<>>
         /\ \A i \in DOMAIN shown[c][h] :
              LET m == shown[c][h][i] IN
              c \in messages[m].to \/ (Mine(c, m) /\ messages[m].kind = "report")
    /\ \A k \in Models(c) :
         /\ Once(modelHeard[c][k])
         /\ \A i \in DOMAIN modelHeard[c][k] :
              LET m == modelHeard[c][k][i] IN
              \/ Mine(c, m) /\ messages[m].kind = "client"
              \/ c \in messages[m].to /\ ~HasModels(messages[m].from)
=============================================================================
