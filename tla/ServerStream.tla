------------------------------ MODULE ServerStream ------------------------------
(***************************************************************************)
(* The connection as a stream of bytes: src/Server.cpp, the reading of     *)
(* messages in src/ServerMessage.cpp and the writing of DataMessages in    *)
(* src/Message.cpp.                                                        *)
(*                                                                         *)
(* readln and read share one buffer, response, which either of them may    *)
(* fill beyond what it returns; bytes arrive in pieces of any length.  A   *)
(* byte here is a pair <<text, n>>: the text of a line counts as one byte, *)
(* and n is the number in the text of a DataLength field, the position in  *)
(* a body, or 0.                                                           *)
(***************************************************************************)
EXTENDS ServerMessage, Naturals, SequencesExt

CONSTANTS
  Messages,       \* the messages the node sends: their h, fields and data
  MaxMessages,    \* bound: how many of them it sends
  Requests,       \* the requests to send: length, DataMessage::dataLength_
                  \* (0 without data), and have, what the stream really holds
  MaxRequests,    \* bound: how many of them are made
  ChunkSize,      \* the most bytes readln asks the socket for at a time
  BlockSize       \* the block of read and toSocket, 1024 bytes in the code

\* What the code takes from the node: a header and fields are lines of their
\* own, only AllData has a body, and its one DataLength is the body's length.
ASSUME StreamAssumption ==
  /\ Messages \subseteq
       [h : STRING \ {"newline"},
        fields : Seq({<<"Field", 0>>} \cup ({"DataLength"} \X Nat)),
        data : Seq(STRING \X Nat)]
  /\ \A m \in Messages :
       IF m.h = "AllData"
       THEN {f \in ToSet(m.fields) : f[1] = "DataLength"} = {<<"DataLength", Len(m.data)>>}
       ELSE m.data = <<>>
  /\ {MaxMessages, MaxRequests} \subseteq Nat
  /\ {ChunkSize, BlockSize} \subseteq Nat \ {0}
  /\ \A r \in Requests : r.length \in Nat /\ r.have \in Nat

VARIABLES
  sent,           \* the messages the node has written
  closed,         \* the connection is closed or broken
  wire,           \* bytes on their way
  available,      \* bytes that have arrived at the socket
  response,       \* Server::response, the buffer
  pc,             \* the manager's next step
  message,        \* the message being read
  bytesToRead,    \* what remains of an AllData body
  want,           \* the len of the pending Server::read
  received,       \* the messages handed to doMessage, with their data
  derailed,       \* history: a body was left unread
  queued,         \* the requests made, in order
  done,           \* how many toSocket has sent and returned from
  tmp,            \* toSocket's tmp: bytes it has still to send
  out             \* the bytes written to the socket

inbound == <<sent, closed, wire, available>>
reading == <<response, message, bytesToRead, want, received, derailed>>
writing == <<queued, done, tmp, out>>
vars == <<inbound, pc, reading, writing>>

NL == <<"newline", 0>>
Text(t) == <<t, 0>>
DataLength(n) == <<"DataLength", n>>
Line(text) == <<text, NL>>
Lines(texts) == FlattenSeq([i \in DOMAIN texts |-> Line(texts[i])])

\* The line with which the node ends the fields of a message (external).
Terminator(h) == IF h = "AllData" THEN Text("Data") ELSE Text("EndMessage")

\* A message as the node writes it (external); no key occurs twice in it.
Encode(m) == Line(Text(m.h)) \o Lines(m.fields) \o Line(Terminator(m.h)) \o m.data

NoMessage == [h |-> "", fields |-> <<>>, data |-> <<>>]

Init ==
  /\ sent = <<>> /\ closed = FALSE
  /\ wire = <<>> /\ available = <<>>
  /\ response = <<>>
  /\ pc = "poll"
  /\ message = NoMessage
  /\ bytesToRead = 0 /\ want = 0
  /\ received = <<>> /\ derailed = FALSE
  /\ queued = <<>> /\ done = 0 /\ tmp = 0 /\ out = <<>>

-----------------------------------------------------------------------------
(* The node and the network (external).                                     *)

NodeSends(m) ==
  /\ ~closed
  /\ Len(sent) < MaxMessages
  /\ sent' = Append(sent, m)
  /\ wire' = wire \o Encode(m)
  /\ UNCHANGED <<closed, available, pc, reading, writing>>

\* Bytes arrive, as many as it pleases the network.
Arrive ==
  /\ wire # <<>>
  /\ \E k \in 1 .. Len(wire) :
       /\ available' = available \o SubSeq(wire, 1, k)
       /\ wire' = SubSeq(wire, k + 1, Len(wire))
  /\ UNCHANGED <<sent, closed, pc, reading, writing>>

\* The connection ends, perhaps in the middle of a message.
Close ==
  /\ ~closed
  /\ closed' = TRUE
  /\ wire' \in Prefixes(wire)
  /\ UNCHANGED <<sent, available, pc, reading, writing>>

-----------------------------------------------------------------------------
(* Reading: one round of NodeThread::run up to doMessage.                   *)

\* A mutant of DataAvailable: the buffer is forgotten.
SocketAvailable == available # <<>>

\* Server::dataAvailable.  The end of the connection is no data.
DataAvailable == available # <<>> \/ response # <<>>

\* A mutant of Poll: the fields of the message before are kept.
PollStale ==
  /\ pc = "poll"
  /\ pc' = IF DataAvailable THEN "header" ELSE "queue"
  /\ message' = [message EXCEPT !.data = <<>>]
  /\ UNCHANGED <<inbound, response, bytesToRead, want, received, derailed, writing>>

\* The top of the loop; a message starts with no fields.
Poll ==
  /\ pc = "poll"
  /\ pc' = IF DataAvailable THEN "header" ELSE "queue"
  /\ message' = NoMessage
  /\ UNCHANGED <<inbound, response, bytesToRead, want, received, derailed, writing>>

InReadln == pc \in {"header", "field"}
HasLine == \E i \in DOMAIN response : response[i] = NL

\* readln and read ask the socket for more.
Missing == (InReadln /\ ~HasLine) \/ (pc = "block" /\ Len(response) < want)

\* read_until and read_some, which block until something has arrived.
ReadSome ==
  /\ Missing
  /\ available # <<>>
  /\ LET limit == IF InReadln THEN ChunkSize ELSE want
         n == IF Len(available) < limit THEN Len(available) ELSE limit
     IN  /\ response' = response \o SubSeq(available, 1, n)
         /\ available' = SubSeq(available, n + 1, Len(available))
  /\ UNCHANGED <<sent, closed, wire, pc, message, bytesToRead, want, received>>
  /\ UNCHANGED <<derailed, writing>>

\* They throw at the end of the connection.
ReadFails ==
  /\ Missing
  /\ closed /\ wire = <<>> /\ available = <<>>
  /\ pc' = "failed"
  /\ UNCHANGED <<inbound, reading, writing>>

\* The line readln returns, and what it leaves in the buffer.
LineEnd == CHOOSE i \in DOMAIN response :
             response[i] = NL /\ \A j \in 1 .. i - 1 : response[j] # NL
TheLine == SubSeq(response, 1, LineEnd - 1)

\* A mutant of TakeLine: what was read ahead is thrown away.
TakeLineAll == response' = <<>>

TakeLine == response' = SubSeq(response, LineEnd + 1, Len(response))

\* ServerMessage::factory: an unknown header throws.
ReadHeader ==
  /\ pc = "header" /\ HasLine
  /\ TakeLine
  /\ IF \E h \in Headers : TheLine = <<Text(h)>>
     THEN /\ message' = [message EXCEPT !.h = TheLine[1][1]]
          /\ pc' = "field"
     ELSE /\ pc' = "failed"
          /\ UNCHANGED message
  /\ UNCHANGED <<inbound, bytesToRead, want, received, derailed, writing>>

\* The lines that end the loop.
IsTerminator(line) ==
  \E t \in IF message.h = "AllData" THEN {"Data"} ELSE {"End", "EndMessage"} : line = <<Text(t)>>

\* A line with an equals sign.
IsField(line) == Len(line) = 1 /\ line[1][1] \in {"Field", "DataLength"}

\* ServerMessage::read and AllDataMessage::read, a line of the loop: a field,
\* the last line (an AllData message without DataLength throws), or a line
\* without an equals sign, for which the code builds a string that ends before
\* it begins: it throws, or something is stored.
ReadField ==
  /\ pc = "field" /\ HasLine
  /\ TakeLine
  /\ LET lengths == {f \in ToSet(message.fields) : f[1] = "DataLength"}
     IN  \/ /\ IsTerminator(TheLine)
            /\ IF message.h = "AllData" /\ lengths # {}
               THEN bytesToRead' = (CHOOSE f \in lengths : TRUE)[2]
               ELSE UNCHANGED bytesToRead
            /\ pc' = IF message.h = "AllData" /\ lengths = {} THEN "failed" ELSE "dispatch"
            /\ UNCHANGED message
         \/ /\ ~IsTerminator(TheLine)
            /\ IF IsField(TheLine)
               THEN /\ message' = [message EXCEPT !.fields = Append(@, TheLine[1])]
                    /\ pc' = "field"
               ELSE /\ pc' \in {"field", "failed"}
                    /\ UNCHANGED message
            /\ UNCHANGED bytesToRead
  /\ UNCHANGED <<inbound, want, received, derailed, writing>>

\* doMessage: the body of an AllData message is read if its job is found.
Dispatch ==
  /\ pc = "dispatch"
  /\ \/ /\ message.h # "AllData"
        /\ received' = Append(received, message)
        /\ pc' = "queue"
        /\ UNCHANGED derailed
     \/ /\ message.h = "AllData"
        /\ pc' = "copy"
        /\ UNCHANGED <<received, derailed>>
     \/ /\ message.h = "AllData"
        /\ derailed' = TRUE
        /\ pc' = "queue"
        /\ UNCHANGED received
  /\ UNCHANGED <<inbound, response, message, bytesToRead, want, writing>>

\* A mutant of Block: every block is a full one.
BlockFull(n) == BlockSize

\* The size of the next block.
Block(n) == IF n < BlockSize THEN n ELSE BlockSize

\* AllDataMessage::isLast: the loop ends, or asks for the next block.
CopyNext ==
  /\ pc = "copy"
  /\ IF bytesToRead > 0
     THEN /\ want' = Block(bytesToRead)
          /\ pc' = "block"
          /\ UNCHANGED received
     ELSE /\ received' = Append(received, message)
          /\ pc' = "queue"
          /\ UNCHANGED want
  /\ UNCHANGED <<inbound, response, message, bytesToRead, derailed, writing>>

\* Server::read returns a block, which goes to the job's stream.
CopyBlock ==
  /\ pc = "block" /\ ~Missing
  /\ message' = [message EXCEPT !.data = @ \o SubSeq(response, 1, want)]
  /\ response' = SubSeq(response, want + 1, Len(response))
  /\ bytesToRead' = bytesToRead - want
  /\ pc' = "copy"
  /\ UNCHANGED <<inbound, want, received, derailed, writing>>

-----------------------------------------------------------------------------
(* Writing: the rest of the round, sendClientReq and toSocket.              *)

Byte(i) == <<"byte", i>>
RequestHead(r) == <<"head", r.length>>

NoRequest ==
  /\ pc = "queue"
  /\ pc' = "poll"
  /\ UNCHANGED <<inbound, reading, writing>>

TakeRequest(r) ==
  /\ pc = "queue"
  /\ Len(queued) < MaxRequests
  /\ queued' = Append(queued, r)
  /\ pc' = "send"
  /\ UNCHANGED <<inbound, reading, done, tmp, out>>

Request == queued[Len(queued)]

\* The header and the fields are written; tmp counts the body.
SendHead ==
  /\ pc = "send"
  /\ out' = Append(out, RequestHead(Request))
  /\ tmp' = Request.length
  /\ pc' = "body"
  /\ UNCHANGED <<inbound, reading, queued, done>>

\* The position of the data stream.
Position == Request.length - tmp

\* stream_->fail() after read: the stream ends within the block.
ShortStream == Request.have < Position + Block(tmp)

\* A mutant of SendBlock: a short stream ends the loop.
SendBlockBreaks ==
  /\ pc = "body"
  /\ tmp > 0
  /\ IF ShortStream
     THEN /\ tmp' = 0
          /\ UNCHANGED out
     ELSE /\ out' = out \o [i \in 1 .. Block(tmp) |-> Byte(Position + i)]
          /\ tmp' = tmp - Block(tmp)
  /\ UNCHANGED <<inbound, reading, pc, queued, done>>

\* A block is written; a short stream throws in the middle of the message.
SendBlock ==
  /\ pc = "body"
  /\ tmp > 0
  /\ IF ShortStream
     THEN /\ pc' = "failed"
          /\ UNCHANGED <<out, tmp>>
     ELSE /\ out' = out \o [i \in 1 .. Block(tmp) |-> Byte(Position + i)]
          /\ tmp' = tmp - Block(tmp)
          /\ UNCHANGED pc
  /\ UNCHANGED <<inbound, reading, queued, done>>

SendDone ==
  /\ pc = "body"
  /\ tmp = 0
  /\ done' = done + 1
  /\ pc' = "poll"
  /\ UNCHANGED <<inbound, reading, queued, tmp, out>>

\* A write throws after the connection has ended.
SendFails ==
  /\ closed
  /\ pc = "send" \/ (pc = "body" /\ tmp > 0)
  /\ pc' = "failed"
  /\ UNCHANGED <<inbound, reading, writing>>

-----------------------------------------------------------------------------
Manager ==
  \/ Poll \/ ReadSome \/ ReadFails \/ ReadHeader \/ ReadField
  \/ Dispatch \/ CopyNext \/ CopyBlock
  \/ NoRequest \/ (\E r \in Requests : TakeRequest(r))
  \/ SendHead \/ SendBlock \/ SendDone \/ SendFails

Next ==
  \/ \E m \in Messages : NodeSends(m)
  \/ Arrive
  \/ Close
  \/ Manager

Spec == Init /\ [][Next]_vars

\* What was sent arrives, and the manager does not stop between two steps.
FairSpec == Spec /\ WF_vars(Arrive) /\ WF_vars(Manager)

-----------------------------------------------------------------------------
(* Properties.                                                              *)

\* Every variable has its type; read is never asked for more than a block, nor
\* for more than is left of the body.
TypeOK ==
  /\ sent \in Seq(Messages) /\ Len(sent) <= MaxMessages
  /\ {closed, derailed} \subseteq BOOLEAN
  /\ pc \in {"poll", "header", "field", "dispatch", "copy", "block", "queue",
             "send", "body", "failed"}
  /\ message.h \in Headers \cup {""}
  /\ bytesToRead \in Nat /\ want \in 0 .. BlockSize
  /\ pc = "block" => want \in 1 .. bytesToRead
  /\ queued \in Seq(Requests) /\ Len(queued) <= MaxRequests
  /\ done \in 0 .. Len(queued) /\ tmp \in Nat

\* The bytes of the message being read that have left the buffer.
Taken ==
  IF pc = "field" THEN Line(Text(message.h)) \o Lines(message.fields)
  ELSE IF pc \in {"dispatch", "copy", "block"} THEN Encode(message)
  ELSE <<>>

\* Nothing is lost, repeated or reordered between the socket's bytes and the
\* messages, wherever the network cuts the stream and however far readln and
\* read have filled the buffer: what was received, what is being read, the
\* buffer, the socket and the wire make up what the node has written.  In
\* particular the manager always starts reading at the start of a message.
BytesConserved ==
  ~derailed /\ pc # "failed" =>
    LET written == FlattenSeq([i \in DOMAIN sent |-> Encode(sent[i])])
        known == FlattenSeq([i \in DOMAIN received |-> Encode(received[i])])
                 \o Taken \o response \o available \o wire
    IN  IF closed THEN IsPrefix(known, written) ELSE known = written

\* Reading never fails by itself: the manager ends only for a closed
\* connection, a header that the factory does not know, a data stream that is
\* too short, or a body that nobody claimed.
FailsForCause ==
  pc = "failed" =>
    \/ closed
    \/ derailed
    \/ \E i \in DOMAIN sent : sent[i].h \notin Headers
    \/ queued # <<>> /\ Request.have < Request.length

\* toSocket writes whole messages: after a message of which only a part could
\* be written nothing more is, and a message counts as sent only if its body
\* has the length announced in it.
Whole(r) == <<RequestHead(r)>> \o [i \in 1 .. r.length |-> Byte(i)]
WholeMessages ==
  LET upTo(n) == FlattenSeq([i \in 1 .. n |-> Whole(queued[i])])
  IN  /\ pc \notin {"send", "body", "failed"} => out = upTo(Len(queued)) /\ done = Len(queued)
      /\ IsPrefix(upTo(done), out)
      /\ IsPrefix(out, upTo(Len(queued)))

\* A message that has been sent is received, also when it came in together
\* with the one before it and lies in the buffer already, unless the manager
\* or the connection ends.
EveryMessageArrives ==
  \A n \in 1 .. MaxMessages :
    (Len(sent) >= n) ~> (Len(received) >= n \/ closed \/ derailed \/ pc = "failed")

S == INSTANCE MessageStream

\* The stream of bytes implements the stream of messages, up to the first body
\* that nobody claims.
MessagesAreWhole == S!Init /\ [][derailed' \/ S!Next]_(S!vars)

===============================================================================
