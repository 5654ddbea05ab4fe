------------------------------ MODULE NodeThread -------------------------------
(***************************************************************************)
(* The manager thread of src/NodeThread.cpp between the client threads,    *)
(* which queue requests, and the node, which answers over one connection:  *)
(* the request queue, the map of jobs by identifier, and the routing of    *)
(* the node's messages to tickets.                                         *)
(*                                                                         *)
(* doMessage and sendClientReq are single steps here: the manager alone    *)
(* touches the map, and what a client may see of a ticket between two of   *)
(* the manager's steps is the subject of JobTicket.tla.                    *)
(*                                                                         *)
(* Requests are numbered in the order in which they are queued.  Number 0  *)
(* stands for the tickets doMessage makes for requests of other clients in *)
(* the node's global queue; no client thread holds one.                    *)
(***************************************************************************)
EXTENDS NodeCommands, Naturals, Sequences

CONSTANTS
  Clients,        \* the client threads
  MaxJobs,        \* bound: requests made in one run
  Requests,       \* the requests the clients make, see NodeCommands.tla
  Faults,         \* which of "timeout" and "socket" happen
  GlobalUpdates   \* what the node reports of another client's global request

Jobs == 1 .. MaxJobs
NoTicket == MaxJobs + 1

\* JobTicket::factory in doMessage: a plain ticket, made from the message.
CreatedTicket ==
  [Command("PersistentPut") EXCEPT !.id = "foreign", !.global = TRUE, !.persistent = TRUE]

\* The requests are the library's; in the node's global queue an identifier
\* belongs to one request, so that of another client is none of them.
ASSUME NodeThreadAssumption ==
  /\ MaxJobs \in Nat
  /\ Faults \subseteq {"timeout", "socket"}
  /\ GlobalUpdates \in Seq([h : Headers, code : Codes])
  /\ \A r \in Requests : r \in RequestsUnder(r.id)
  /\ \A r \in Requests : r.global => r.id # CreatedTicket.id

Keys == BOOLEAN \X ({r.id : r \in Requests} \cup {CreatedTicket.id})

VARIABLES
  started,    \* how many requests have been queued
  attr,       \* the request of each ticket
  queue,      \* clientReqQueue: the numbers of the tickets in it
  jobs,       \* NodeThread::jobs: the ticket found under each key
  resp,       \* nodeResponse of each ticket, with each message's verdict
  finished,   \* _isFinished of each ticket
  mgr,        \* the manager: "poll", "queue", "failed" or "crashed"
  sent,       \* the requests written to the connection, in order
  inbox,      \* the node's messages on the connection, not read yet
  script,     \* the node's conversation for each request
  pos,        \* how many words of it the node has said
  clashed,    \* history: the keys under which a job was sent while the map
              \* still held another
  cpc,        \* each client: "idle", "wait", or "read" before getResponse
  cur,        \* the request it waits for
  outcome,    \* how the operation for each request ended
  view        \* what getResponse gave it

client == <<cpc, cur, outcome, view>>
node == <<sent, script, pos>>
ticket == <<attr, resp, finished>>
manager == <<queue, jobs, mgr, clashed>>
vars == <<started, ticket, manager, inbox, node, client>>

Key(j) == <<attr[j].global, attr[j].id>>

Init ==
  /\ started = 0
  /\ attr = [j \in 0 .. MaxJobs |-> CreatedTicket]
  /\ queue = <<>>
  /\ jobs = [k \in Keys |-> NoTicket]
  /\ resp = [j \in Jobs |-> <<>>]
  /\ finished = [j \in Jobs |-> FALSE]
  /\ mgr = "poll"
  /\ sent = <<>>
  /\ inbox = <<>>
  /\ script = [j \in 0 .. MaxJobs |-> IF j = 0 THEN GlobalUpdates ELSE <<>>]
  /\ pos = [j \in 0 .. MaxJobs |-> 0]
  /\ clashed = {}
  /\ cpc = [c \in Clients |-> "idle"]
  /\ cur = [c \in Clients |-> 0]
  /\ outcome = [j \in Jobs |-> "none"]
  /\ view = [j \in Jobs |-> <<>>]

-----------------------------------------------------------------------------
(* The client threads: the operations of Node.cpp.                          *)

\* Mutants of Enqueue: the number of the ticket before; at the front.
EnqueueStale(j) == queue' = Append(queue, j - 1)
EnqueueFront(j) == queue' = <<j>> \o queue

\* TQueue::put.
Enqueue(j) == queue' = Append(queue, j)

\* An operation makes its ticket, puts it in the queue, and waits or returns.
Call(c, r) ==
  /\ cpc[c] = "idle" /\ mgr # "crashed"
  /\ started < MaxJobs
  /\ started' = started + 1
  /\ attr' = [attr EXCEPT ![started'] = r]
  /\ Enqueue(started')
  /\ IF r.wait = "none"
     THEN UNCHANGED <<cpc, cur>>
     ELSE /\ cpc' = [cpc EXCEPT ![c] = "wait"]
          /\ cur' = [cur EXCEPT ![c] = started']
  /\ UNCHANGED <<resp, finished, jobs, mgr, clashed, inbox, node, outcome, view>>

Waiting(c) == cpc[c] = "wait" /\ mgr # "crashed"

\* A mutant of Answered: every operation goes on after the first message.
AnsweredEarly(j) == resp[j] # <<>>

\* What the operation waits for has come.
Answered(j) == IF attr[j].wait = "sent" THEN resp[j] # <<>> ELSE finished[j]

End(c, how) ==
  /\ cpc' = [cpc EXCEPT ![c] = "idle"]
  /\ cur' = [cur EXCEPT ![c] = 0]
  /\ outcome' = [outcome EXCEPT ![cur[c]] = how]

\* waitTillReqSent returns, and the operation returns its ticket; wait
\* returns, and the operation goes on to getResponse.
WaitOver(c) ==
  /\ Waiting(c)
  /\ Answered(cur[c])
  /\ IF attr[cur[c]].wait = "sent"
     THEN End(c, "ticket")
     ELSE /\ cpc' = [cpc EXCEPT ![c] = "read"]
          /\ UNCHANGED <<cur, outcome>>
  /\ UNCHANGED <<started, ticket, manager, inbox, node, view>>

\* getResponse, and checkProtocolError on its last message.
GetResponse(c) ==
  /\ cpc[c] = "read" /\ mgr # "crashed"
  /\ view' = [view EXCEPT ![cur[c]] = resp[cur[c]]]
  /\ End(c, IF IsError(resp[cur[c]][Len(resp[cur[c]])]) THEN "error" ELSE "ok")
  /\ UNCHANGED <<started, ticket, manager, inbox, node>>

\* The wait throws: CommandTimeout, or FCPNodeFailure after the manager ended.
GiveUp(c) ==
  /\ Waiting(c)
  /\ ~Answered(cur[c])
  /\ \/ "timeout" \in Faults /\ End(c, "timeout")
     \/ mgr = "failed" /\ End(c, "failure")
  /\ UNCHANGED <<started, ticket, manager, inbox, node, view>>

-----------------------------------------------------------------------------
(* The manager thread.                                                      *)

\* dataAvailable is false.
NoMessage ==
  /\ mgr = "poll"
  /\ inbox = <<>>
  /\ mgr' = "queue"
  /\ UNCHANGED <<started, ticket, queue, jobs, clashed, inbox, node, client>>

Stored(m, last) == [h |-> m.h, code |-> m.code, re |-> m.re, last |-> last]

\* putResponse stores the message, putResult finishes the job after its last
\* one, which erases it from the map.
PutResponse(m, j, last) == resp' = [resp EXCEPT ![j] = Append(@, Stored(m, last))]

\* Mutants of PutResult: after every message; forgotten.
PutResultAlways(j, last) == finished' = [finished EXCEPT ![j] = TRUE]
PutResultNever(j, last) == UNCHANGED finished

PutResult(j, last) == finished' = [finished EXCEPT ![j] = @ \/ last]

\* Mutants of Erase: after the first message; forgotten.
EraseAlways(m, last) == jobs' = [jobs EXCEPT ![<<m.global, m.id>>] = NoTicket]
EraseNever(m, last) == UNCHANGED jobs

Erase(m, last) ==
  IF last THEN jobs' = [jobs EXCEPT ![<<m.global, m.id>>] = NoTicket] ELSE UNCHANGED jobs

\* The job is found.  A ticket that doMessage made keeps nothing a client could
\* wait for.
Deliver(m, j, last) ==
  /\ IF j = 0
     THEN UNCHANGED <<resp, finished>>
     ELSE PutResponse(m, j, last) /\ PutResult(j, last)
  /\ Erase(m, last)
  /\ mgr' = "queue"

\* No job is found: the message is dropped, but one of the global queue leaves
\* a new ticket behind.
NotFound(m) ==
  /\ jobs' = IF m.global /\ m.id # "" THEN [jobs EXCEPT ![<<m.global, m.id>>] = 0] ELSE jobs
  /\ mgr' = "queue"
  /\ UNCHANGED <<resp, finished>>

ManagerEnds(how) ==
  /\ mgr' = how
  /\ UNCHANGED <<jobs, resp, finished>>

\* dataAvailable or readln throws for a closed connection.
SocketFails ==
  /\ mgr = "poll"
  /\ "socket" \in Faults
  /\ mgr' = "failed"
  /\ UNCHANGED <<started, ticket, queue, jobs, clashed, inbox, node, client>>

\* ServerMessage::factory reads a message, which fails for a line that is no
\* header; then doMessage looks for its job.  The data that follow an AllData
\* message are read by isLast, so only when the job is found.
DoMessage ==
  /\ mgr = "poll"
  /\ inbox # <<>>
  /\ LET m == Head(inbox)
         j == jobs[<<m.global, m.id>>]
         found == m.h \in Headers /\ j # NoTicket
         verdict == IF found THEN IsLast(m, attr[j]) ELSE "none"
     IN  /\ \/ (m.h \notin Headers \/ verdict = "throws") /\ ManagerEnds("failed")
            \/ verdict = "crashes" /\ ManagerEnds("crashed")
            \/ m.h \in Headers /\ j = NoTicket /\ NotFound(m)
            \/ verdict \in {"more", "last"} /\ Deliver(m, j, verdict = "last")
         /\ inbox' = IF found /\ m.h = "AllData" THEN Tail(Tail(inbox)) ELSE Tail(inbox)
  /\ UNCHANGED <<started, attr, queue, clashed, node, client>>

\* clientReqQueue is empty; the manager sleeps and goes round.
NoRequest ==
  /\ mgr = "queue"
  /\ queue = <<>>
  /\ mgr' = "poll"
  /\ UNCHANGED <<started, ticket, queue, jobs, clashed, inbox, node, client>>

\* The node's choice of a conversation for request j: another one outstanding
\* under the same identifier is a collision.
Conversations(j) ==
  IF attr[j].id # "" /\ \E i \in DOMAIN sent :
        Key(sent[i]) = Key(j) /\ pos[sent[i]] < Len(script[sent[i]])
  THEN {Words(<<"IdentifierCollision">>)}
  ELSE Answers(attr[j])

\* A mutant of Dequeue: the whole queue is dropped.
DequeueAll == queue' = <<>>

\* TQueue::get.
Dequeue == queue' = Tail(queue)

\* sendClientReq: the ticket goes into the map, over any other under its key,
\* unless it is for WatchGlobal; then the command is sent, or the socket fails.
SendClientReq ==
  /\ mgr = "queue"
  /\ queue # <<>>
  /\ LET j == Head(queue)
     IN  /\ jobs' = IF attr[j].cmd # "WatchGlobal" THEN [jobs EXCEPT ![Key(j)] = j] ELSE jobs
         /\ clashed' = IF jobs[Key(j)] # NoTicket /\ attr[j].cmd # "WatchGlobal"
                       THEN clashed \cup {Key(j)} ELSE clashed
         /\ Dequeue
         /\ \/ /\ mgr' = "poll"
               /\ sent' = Append(sent, j)
               /\ \E s \in Conversations(j) : script' = [script EXCEPT ![j] = s]
            \/ /\ "socket" \in Faults
               /\ mgr' = "failed"
               /\ UNCHANGED <<sent, script>>
  /\ UNCHANGED <<started, ticket, inbox, pos, client>>

-----------------------------------------------------------------------------
(* The node (external).                                                     *)

\* Commands without an identifier are answered one after the other.
InTurn(j) ==
  attr[j].id = "" =>
    \A i, k \in DOMAIN sent :
      sent[k] = j /\ i < k /\ attr[sent[i]].id = "" => pos[sent[i]] = Len(script[sent[i]])

\* The node reports on the global queue to a connection that watches it.
Watched == \E i \in DOMAIN sent : attr[sent[i]].cmd = "WatchGlobal"

Message(j, n) ==
  [h |-> script[j][n].h, code |-> script[j][n].code,
   id |-> attr[j].id, global |-> attr[j].global, re |-> j]

\* The node says the next word of its conversation for a request; the data of
\* AllData are a line of their own, which is no header.
NodeAnswers(j) ==
  /\ j = 0 => Watched
  /\ pos[j] < Len(script[j])
  /\ InTurn(j)
  /\ pos' = [pos EXCEPT ![j] = @ + 1]
  /\ LET m == Message(j, pos'[j])
     IN  inbox' = inbox \o IF m.h = "AllData" THEN <<m, [m EXCEPT !.h = "data"]>> ELSE <<m>>
  /\ UNCHANGED <<started, ticket, manager, sent, script, client>>

-----------------------------------------------------------------------------
ClientStep(c) == WaitOver(c) \/ GetResponse(c) \/ GiveUp(c)

Manager == NoMessage \/ SocketFails \/ DoMessage \/ NoRequest \/ SendClientReq

Next ==
  \/ \E c \in Clients : (\E r \in Requests : Call(c, r)) \/ ClientStep(c)
  \/ Manager
  \/ \E j \in 0 .. MaxJobs : NodeAnswers(j)

Spec == Init /\ [][Next]_vars

\* The manager and the clients inside an operation go on, and the node (but
\* this is the node's promise, not the library's) finishes its conversations.
Fairness ==
  /\ \A c \in Clients : WF_vars(ClientStep(c))
  /\ WF_vars(Manager)
  /\ \A j \in Jobs : WF_vars(NodeAnswers(j))

FairSpec == Spec /\ Fairness

-----------------------------------------------------------------------------
(* Properties.                                                              *)

Managing == mgr \in {"poll", "queue"}
StoredMessages(s) == \A i \in DOMAIN s : s[i].re \in 0 .. MaxJobs /\ s[i].last \in BOOLEAN

\* Every variable has its type.
TypeOK ==
  /\ started \in 0 .. MaxJobs
  /\ attr \in [0 .. MaxJobs -> Requests \cup {CreatedTicket}]
  /\ queue \in Seq(Jobs) /\ sent \in Seq(Jobs)
  /\ jobs \in [Keys -> 0 .. NoTicket]
  /\ \A j \in Jobs : StoredMessages(resp[j]) /\ StoredMessages(view[j])
  /\ finished \in [Jobs -> BOOLEAN]
  /\ mgr \in {"poll", "queue", "failed", "crashed"}
  /\ pos \in [0 .. MaxJobs -> Nat]
  /\ \A j \in 0 .. MaxJobs : pos[j] <= Len(script[j])
  /\ clashed \subseteq Keys
  /\ cpc \in [Clients -> {"idle", "wait", "read"}]
  /\ cur \in [Clients -> 0 .. MaxJobs]
  /\ outcome \in [Jobs -> {"none", "ticket", "ok", "error", "timeout", "failure"}]

\* Routing is exact: a job's ticket holds precisely what the node said to that
\* job's request, in that order and with nothing left out, but for what is
\* still on the connection.  The identifiers are all there is to tell
\* conversations apart, so this is claimed for the keys under which no job
\* was sent over another; all plain commands share one key.
Said(s) == [i \in DOMAIN s |-> [h |-> s[i].h, code |-> s[i].code, re |-> s[i].re]]
SaidTo(j) == [i \in 1 .. pos[j] |-> [h |-> script[j][i].h, code |-> script[j][i].code, re |-> j]]
IsSaidTo(m, j) == m.re = j /\ m.h # "data"
SaidIn(s, j) ==
  LET upTo[i \in 0 .. Len(s)] ==
        IF i = 0 THEN <<>>
        ELSE IF IsSaidTo(s[i], j) THEN Append(upTo[i - 1], s[i]) ELSE upTo[i - 1]
  IN  upTo[Len(s)]
OnTheWay(j) == SaidIn(inbox, j)

ExactReplies ==
  Managing =>
    \A j \in 1 .. started : Key(j) \notin clashed => Said(resp[j] \o OnTheWay(j)) = SaidTo(j)

\* The map is right: what it holds under a key is a job of that key that was
\* sent and is not finished; and a job that was sent and is not finished is in
\* it, unless its key clashed.
MapExact ==
  /\ \A k \in Keys : jobs[k] \in Jobs =>
       /\ Key(jobs[k]) = k
       /\ ~finished[jobs[k]]
       /\ jobs[k] <= started /\ \A i \in DOMAIN queue : queue[i] # jobs[k]
  /\ \A i \in DOMAIN sent :
       \/ finished[sent[i]] \/ Key(sent[i]) \in clashed
       \/ attr[sent[i]].cmd = "WatchGlobal" \/ jobs[Key(sent[i])] = sent[i]

\* Requests go to the node in the order in which the clients queued them, none
\* lost and none twice, as long as no send failed.
SendOrder == mgr # "failed" => sent \o queue = [i \in 1 .. started |-> i]

\* An operation that succeeds returns the whole answer to its own request: its
\* messages are those of the node's conversation for it, to the last one.  In
\* particular checkProtocolError judged that one.
OwnAnswer ==
  \A j \in 1 .. started :
    outcome[j] \in {"ok", "error"} /\ Key(j) \notin clashed =>
      /\ Said(view[j]) = SaidTo(j)
      /\ pos[j] = Len(script[j])
      /\ finished[j] /\ view[j][Len(view[j])].last

\* For every request of the library and everything the node is expected to
\* say to it the manager finds out when the job is over: neither the factory
\* nor an IsLast policy throws or meets a ticket of the wrong kind, as long as
\* identifiers do not clash.
ManagerSurvives == clashed = {} => Managing

\* A queued request is sent while there is a manager.
QueuedIsSent ==
  \A j \in Jobs :
    (\E i \in DOMAIN queue : queue[i] = j) ~> (~Managing \/ \E i \in DOMAIN sent : sent[i] = j)

\* Every operation that waits comes back, without the help of its timeout: the
\* message that the IsLast policies take for the last one does come.  Only an
\* operation whose key clashed may wait in vain.
OperationsReturn ==
  \A c \in Clients :
    (cpc[c] # "idle") ~> (cpc[c] = "idle" \/ Key(cur[c]) \in clashed \/ mgr = "crashed")

\* Node::listPeers, before checkProtocolError: "NOTE: error should never happen
\* here...".
ListPeersNeverFails ==
  \A j \in 1 .. started : attr[j].cmd = "ListPeers" => outcome[j] # "error"

\* NodeThread::doMessage: "global queue, create a job": the ticket it makes for
\* another client's request takes the request's further messages.
GlobalQueueIsFollowed == clashed = {} => mgr # "crashed"

-----------------------------------------------------------------------------
(* Every ticket implements the abstract one, seen by the client that made   *)
(* it: what routing adds is that its messages end with the last one, and    *)
(* that nobody learns or reads what is not there.                           *)

LogOf(s) == [i \in DOMAIN s |-> IF s[i].last THEN "last" ELSE "more"]

KnownOf(j) ==
  IF outcome[j] = "ticket" THEN {"sent"}
  ELSE IF outcome[j] \in {"ok", "error"} \/ \E c \in Clients : cur[c] = j /\ cpc[c] = "read"
       THEN {"finished"} ELSE {}

T(j) == INSTANCE Ticket WITH
          Clients <- {j}, log <- LogOf(resp[j]), done <- finished[j],
          known <- [c \in {j} |-> KnownOf(j)], view <- [c \in {j} |-> LogOf(view[j])]

\* T(j)!Spec for every j, in the form TLC takes.
TicketsImplemented ==
  /\ \A j \in Jobs : T(j)!Init
  /\ [][\A j \in Jobs : [T(j)!Next]_(T(j)!vars)]_vars

===============================================================================
