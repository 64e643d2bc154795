----------------------------- MODULE RtmpChunks -----------------------------
(***************************************************************************)
(* The chunk streams of one RTMP connection (_read_chunk of                *)
(* interfaces/rtmp/server.py).  The publisher cuts each message into       *)
(* chunks of at most the announced size, leaves out of the headers what    *)
(* repeats the last message of the chunk stream, and interleaves the       *)
(* streams; the handler puts the messages together again.                  *)
(*                                                                         *)
(* TCP keeps the order and the handler reads one chunk after the other, so *)
(* that a chunk is sent and read in one step.  A payload is a sequence of  *)
(* bytes, each the number of its message.                                  *)
(*                                                                         *)
(* The publisher does what the RTMP specification lets it do, and the      *)
(* handler follows it in all but two things, which the history records:    *)
(* a message that begins without a header after a full one adds the        *)
(* timestamp of the full one once more (sender[k].missed), and a message   *)
(* that was given up is to be forgotten (sender[k].rest, mixed).           *)
(***************************************************************************)
EXTENDS Naturals, Sequences

CONSTANTS
  Csid,         \* chunk streams
  Lengths,      \* lengths of messages
  Sizes,        \* chunk sizes, DEFAULT_CHUNK_SIZE the first
  FirstSize,
  Steps,        \* what timestamps and deltas may be
  Extended,     \* the first value that needs an extended timestamp: 0xFFFFFF
  MaxMessages   \* bound on the messages sent

\* The publisher announces no chunk size of 0.
ASSUME ChunksAssumption ==
  /\ Lengths \union Steps \union {Extended} \subseteq Nat
  /\ Sizes \union {FirstSize} \subseteq Nat \ {0}

VARIABLES
  sender,     \* the publisher's last message on each chunk stream
  cs,         \* _chunk_streams: the last header and the partial payload
  chunkSize,  \* _in_chunk_size, and the publisher's: it changes both between chunks
  count,      \* messages begun
  delivered,  \* the last message whose chunks are all sent
  assembled,  \* the last message _read_chunk returned
  aligned,    \* every chunk was read to its end and no further
  mixed       \* history: a message began behind a part of one that was given up

chunkVars == <<sender, cs, chunkSize, count, delivered, assembled, aligned, mixed>>

(***************************************************************************)
(* sender[k], the publisher's last message on chunk stream k: its delta is *)
(* what a header left out stands for, taken from a full header or not      *)
(* (full); left, the bytes to send; missed, what the handler did not add   *)
(* to the timestamp; rest, the bytes the handler holds of a message that   *)
(* was given up.                                                           *)
(***************************************************************************)
NoMessage == [type |-> "none", timestamp |-> 0, payload |-> <<>>, missed |-> 0]

ChunksInit ==
  /\ sender = [k \in Csid |-> [id |-> 0, type |-> "none", length |-> 0, timestamp |-> 0,
                               delta |-> 0, full |-> FALSE, extended |-> FALSE,
                               left |-> 0, missed |-> 0, rest |-> 0]]
  /\ cs = [k \in Csid |-> [timestamp |-> 0, timestamp_delta |-> 0, length |-> 0,
                           type_id |-> "none", extended |-> FALSE, buffer |-> <<>>]]
  /\ chunkSize = FirstSize
  /\ count = 0
  /\ delivered = NoMessage
  /\ assembled = [type |-> "none", timestamp |-> 0, payload |-> <<>>]
  /\ aligned = TRUE /\ mixed = FALSE

Bytes(n, id) == [i \in 1 .. n |-> id]
AtMost(n, bound) == IF n <= bound THEN n ELSE bound

-----------------------------------------------------------------------------
(* The handler reads a chunk                                               *)

\* Mutant: a message header without length keeps the flag of the last one.
HeaderReadKeepsExtended(c, fmt, h) ==
  CASE fmt = 0 -> [c EXCEPT !.timestamp = h.stamp, !.timestamp_delta = 0, !.length = h.length,
                            !.type_id = h.type, !.extended = h.stamp >= Extended]
    [] fmt = 1 -> [c EXCEPT !.timestamp = @ + h.stamp, !.timestamp_delta = h.stamp,
                            !.length = h.length, !.type_id = h.type]
    [] fmt = 2 -> [c EXCEPT !.timestamp = @ + h.stamp, !.timestamp_delta = h.stamp]
    [] fmt = 3 -> [c EXCEPT !.timestamp = IF c.buffer = <<>> THEN @ + c.timestamp_delta ELSE @]

\* The header: a full one sets the timestamp, one or two fields are left out
\* of shorter ones, and without header (fmt 3) the timestamp advances by the
\* last delta, but only if a new message begins.
HeaderRead(c, fmt, h) ==
  CASE fmt = 0 -> [c EXCEPT !.timestamp = h.stamp, !.timestamp_delta = 0, !.length = h.length,
                            !.type_id = h.type, !.extended = h.stamp >= Extended]
    [] fmt = 1 -> [c EXCEPT !.timestamp = @ + h.stamp, !.timestamp_delta = h.stamp,
                            !.length = h.length, !.type_id = h.type,
                            !.extended = h.stamp >= Extended]
    [] fmt = 2 -> [c EXCEPT !.timestamp = @ + h.stamp, !.timestamp_delta = h.stamp,
                            !.extended = h.stamp >= Extended]
    [] fmt = 3 -> [c EXCEPT !.timestamp = IF c.buffer = <<>> THEN @ + c.timestamp_delta ELSE @]

\* One chunk of n bytes of message id, with an extended timestamp after a
\* missing header if the publisher put one there.
ReadChunk(k, fmt, h, id, n, stamped) ==
  LET c == HeaderRead(cs[k], fmt, h)
      wanted == AtMost(c.length - Len(c.buffer), chunkSize)
      buffer == c.buffer \o Bytes(wanted, id)
      complete == Len(buffer) = c.length
  IN /\ cs' = [cs EXCEPT ![k] = [c EXCEPT !.buffer = IF complete THEN <<>> ELSE buffer]]
     /\ assembled' = IF complete
                     THEN [type |-> c.type_id, timestamp |-> c.timestamp, payload |-> buffer]
                     ELSE assembled
     /\ aligned' = (aligned /\ wanted = n /\ (fmt = 3 => c.extended = stamped))

-----------------------------------------------------------------------------
(* The publisher sends a chunk (external, after the RTMP specification)    *)

\* The chunk's n bytes are sent; a completed "size" message takes effect.
Sends(k, m, n) ==
  /\ sender' = [sender EXCEPT ![k] = [m EXCEPT !.left = @ - n]]
  /\ delivered' = IF m.left = n
                 THEN [type |-> m.type, timestamp |-> m.timestamp,
                       payload |-> Bytes(m.length, m.id), missed |-> m.missed]
                 ELSE delivered
  /\ IF m.left = n /\ m.type = "size" THEN chunkSize' \in Sizes ELSE UNCHANGED chunkSize

\* What a header of format fmt may leave out: the rest is as it was last.
\* The delta a full header stands for is its timestamp.
Repeats(last, fmt, type, length, delta) ==
  /\ fmt \in {1, 2, 3} => last.id # 0
  /\ fmt \in {2, 3} => type = last.type /\ length = last.length
  /\ fmt = 3 => delta = last.delta

\* The handler's delta after a full header is 0 (server.py:131, 153).
Missed(last, fmt, stamp) ==
  IF fmt = 0 THEN 0
  ELSE IF fmt = 3 /\ last.full THEN last.missed + stamp ELSE last.missed

\* A message begins: stamp is its timestamp (fmt 0) or what it adds.
StartMessage(k, fmt, type, length, stamp) ==
  LET last == sender[k]
      m == [id |-> count + 1, type |-> type, length |-> length,
            timestamp |-> IF fmt = 0 THEN stamp ELSE last.timestamp + stamp,
            delta |-> stamp,
            full |-> fmt = 0 \/ (fmt = 3 /\ last.full),
            extended |-> IF fmt = 3 THEN last.extended ELSE stamp >= Extended,
            left |-> length, missed |-> Missed(last, fmt, stamp), rest |-> 0]
      n == AtMost(length, chunkSize)
  IN /\ count < MaxMessages
     /\ ~mixed
     /\ last.left = 0
     /\ Repeats(last, fmt, type, length, stamp)
     /\ count' = count + 1
     /\ mixed' = (last.rest > 0)
     /\ Sends(k, m, n)
     /\ ReadChunk(k, fmt, [type |-> type, length |-> length, stamp |-> stamp], m.id, n, m.extended)

\* The next chunk of a message carries no header.
ContinueMessage(k) ==
  LET m == sender[k]
      n == AtMost(m.left, chunkSize)
  IN /\ ~mixed
     /\ m.left > 0
     /\ Sends(k, m, n)
     /\ ReadChunk(k, 3, [type |-> m.type, length |-> m.length, stamp |-> 0], m.id, n, m.extended)
     /\ UNCHANGED <<count, mixed>>

\* The publisher gives a message up, and says so in an abort message on the
\* control stream, which _dispatch passes over: what was read of it stays.
Abort(k) ==
  /\ ~mixed
  /\ sender[k].left > 0
  /\ sender' = [sender EXCEPT ![k].left = 0, ![k].rest = sender[k].length - sender[k].left]
  /\ UNCHANGED <<cs, chunkSize, count, delivered, assembled, aligned, mixed>>

ChunksNext ==
  \E k \in Csid :
    \/ \E fmt \in 0 .. 3, type \in {"media", "size"}, length \in Lengths, stamp \in Steps :
         StartMessage(k, fmt, type, length, stamp)
    \/ ContinueMessage(k)
    \/ Abort(k)

ChunksSpec == ChunksInit /\ [][ChunksNext]_chunkVars

-----------------------------------------------------------------------------
\* _read_chunk (server.py:109-161) returns the messages the publisher sent,
\* with their type and bytes, whatever the headers leave out and however the
\* chunks of several streams interleave, also when the chunk size changes
\* between the chunks of a message; no byte of one chunk is taken for
\* another's.  A timestamp is the sent one less what the messages without
\* header behind a full one since the last full header were to add.  A message
\* that was given up stays in the buffer (server.py:182): all this holds until
\* another one begins behind it on its chunk stream.
AssembledAsSent ==
  ~mixed =>
    /\ aligned
    /\ assembled.type = delivered.type /\ assembled.payload = delivered.payload
    /\ assembled.timestamp + delivered.missed = delivered.timestamp
    /\ \A k \in Csid : LET m == sender[k] IN
         /\ cs[k].buffer = Bytes(IF m.left > 0 THEN m.length - m.left ELSE m.rest, m.id)
         /\ cs[k].timestamp + m.missed = m.timestamp
=============================================================================
